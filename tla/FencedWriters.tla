--------------------------- MODULE FencedWriters ---------------------------
(***************************************************************************)
(* Several processes that open one database: what the epochs of the        *)
(* manifest (slatedb/store/manifest_store.go) protect and what they do     *)
(* not, when a writer that has been replaced goes on running its flush     *)
(* tasks (slatedb/flush.go) beside its successor's Open, replay and        *)
(* flushes (slatedb/db.go).                                                *)
(*                                                                         *)
(* A step is one call to the object store, or what a process does between  *)
(* two of them.  Only the latest manifest is kept: listing finds no other  *)
(* (ManifestStore).  Writes are numbered; a WAL holds one write, a table   *)
(* is the set of writes it holds and l0 the writes in the SSTs of the      *)
(* levels.  When a memtable is large enough to be frozen is left open.     *)
(***************************************************************************)
EXTENDS Naturals, Sequences

CONSTANTS Procs,      \* the processes
          MaxWrites,  \* bound on the writes of a behaviour
          MaxOpens    \* bound on the calls to Open

ASSUME BoundsAssumption == MaxWrites \in Nat /\ MaxOpens \in Nat

VARIABLES
  \* in the object store
  walSST,    \* WAL id -> writes, for the WAL SSTs uploaded
  manifest,  \* the latest manifest
  \* per process
  pc,        \* Open: its place; "open", or "orphan" after a failed Open
  stored,    \* StoredManifest
  epoch,     \* FenceableManifest.localEpoch, 0: none
  core,      \* CoreDBState
  ids,       \* replayWAL: the WALs listed and not read yet
  replayed,  \* replayWAL: the last WAL id read
  wtask,     \* the WAL task: its place and the immutable WAL it flushes
  mem,       \* the memtable
  imms,      \* immutable memtables, oldest first, each with its last WAL id
  mtask,     \* the memtable task: its place
  put,       \* the manifest that it puts
  \* history
  issued,    \* number of writes so far
  acked,     \* the writes acknowledged
  opens,     \* calls to Open
  late,      \* a WAL was uploaded by a writer already replaced
  overwrote  \* an upload has replaced an existing manifest

storeVars == <<walSST, manifest, overwrote>>
openVars == <<pc, stored, epoch, ids, replayed, opens>>
walVars == <<wtask, issued, acked, late>>
memVars == <<mem, imms>>
taskVars == <<mtask, put>>
vars == <<storeVars, openVars, walVars, memVars, core, taskVars>>

Core == [l0 : SUBSET Nat, last : Nat, next : Nat]
Manifest == [id : Nat, epoch : Nat, core : Core]
NewCore == [l0 |-> {}, last |-> 0, next |-> 1]
NoManifest == [id |-> 0, epoch |-> 0, core |-> NewCore]
NoWAL == [pc |-> "idle", id |-> 0, write |-> 0]

Running(p) == pc[p] \in {"open", "orphan"}

Init ==
  /\ walSST = [i \in {} |-> {}]
  /\ manifest = [id |-> 1, epoch |-> 0, core |-> NewCore]
  /\ pc = [p \in Procs |-> "down"]
  /\ stored = [p \in Procs |-> NoManifest]
  /\ epoch = [p \in Procs |-> 0]
  /\ core = [p \in Procs |-> NewCore]
  /\ ids = [p \in Procs |-> {}]
  /\ replayed = [p \in Procs |-> 0]
  /\ wtask = [p \in Procs |-> NoWAL]
  /\ mem = [p \in Procs |-> {}]
  /\ imms = [p \in Procs |-> <<>>]
  /\ mtask = [p \in Procs |-> "idle"]
  /\ put = [p \in Procs |-> NoManifest]
  /\ issued = 0
  /\ acked = {}
  /\ opens = 0
  /\ late = FALSE
  /\ overwrote = FALSE

Goto(p, l) == pc' = [pc EXCEPT ![p] = l]

(* The process ends: by a crash, a failed assertion, or a panic. *)
Reset(p) ==
  /\ Goto(p, "down")
  /\ stored' = [stored EXCEPT ![p] = NoManifest]
  /\ epoch' = [epoch EXCEPT ![p] = 0]
  /\ core' = [core EXCEPT ![p] = NewCore]
  /\ ids' = [ids EXCEPT ![p] = {}]
  /\ replayed' = [replayed EXCEPT ![p] = 0]
  /\ wtask' = [wtask EXCEPT ![p] = NoWAL]
  /\ mem' = [mem EXCEPT ![p] = {}]
  /\ imms' = [imms EXCEPT ![p] = <<>>]
  /\ mtask' = [mtask EXCEPT ![p] = "idle"]
  /\ put' = [put EXCEPT ![p] = NoManifest]
  /\ UNCHANGED <<issued, acked, opens, late>>

Crash(p) ==
  /\ pc[p] # "down"
  /\ Reset(p)
  /\ UNCHANGED storeVars

-----------------------------------------------------------------------------
(* putIfNotExists is an Exists and, a step later, an Upload. *)
Exists(id) == id <= manifest.id

Land(man) ==
  /\ manifest' = IF man.id >= manifest.id THEN man ELSE manifest
  /\ overwrote' = (overwrote \/ man.id <= manifest.id)
  /\ UNCHANGED walSST

-----------------------------------------------------------------------------
(* Open *)

(* getManifest: LoadStoredManifest. *)
OpenLoad(p) ==
  /\ pc[p] = "down"
  /\ opens < MaxOpens
  /\ opens' = opens + 1
  /\ stored' = [stored EXCEPT ![p] = manifest]
  /\ Goto(p, "bump")
  /\ UNCHANGED <<storeVars, epoch, ids, replayed, walVars, memVars, core, taskVars>>

(* NewWriterFenceableManifest puts the next id with the epoch bumped.  Open *)
(* fails when that id exists.                                               *)
BumpExists(p) ==
  /\ pc[p] = "bump"
  /\ \/ /\ Exists(stored[p].id + 1)
        /\ Reset(p)
     \/ /\ ~Exists(stored[p].id + 1)
        /\ Goto(p, "bumpPut")
        /\ UNCHANGED <<stored, epoch, ids, replayed, opens, walVars, memVars, core, taskVars>>
  /\ UNCHANGED storeVars

(* Mutant: the epoch stays as it is. *)
BumpedSame(man) == [man EXCEPT !.id = @ + 1]

Bumped(man) == [id |-> man.id + 1, epoch |-> man.epoch + 1, core |-> man.core]

(* newDB starts from the state of the manifest that was read. *)
BumpPut(p) ==
  /\ pc[p] = "bumpPut"
  /\ Land(Bumped(stored[p]))
  /\ stored' = [stored EXCEPT ![p] = Bumped(@)]
  /\ epoch' = [epoch EXCEPT ![p] = Bumped(stored[p]).epoch]
  /\ core' = [core EXCEPT ![p] = stored[p].core]
  /\ replayed' = [replayed EXCEPT ![p] = stored[p].core.last]
  /\ Goto(p, "list")
  /\ UNCHANGED <<ids, opens, walVars, memVars, taskVars>>

(* The put fails or times out; the object may be there all the same. *)
BumpPutFails(p) ==
  /\ pc[p] = "bumpPut"
  /\ Land(Bumped(stored[p])) \/ UNCHANGED storeVars
  /\ Reset(p)

(* replayWAL: GetWalSSTList. *)
ListWALs(p) ==
  /\ pc[p] = "list"
  /\ ids' = [ids EXCEPT ![p] = {i \in DOMAIN walSST : i > core[p].last}]
  /\ Goto(p, "replay")
  /\ UNCHANGED <<storeVars, stored, epoch, replayed, opens, walVars, memVars, core, taskVars>>

(* Mutant: the memtable is frozen without the last WAL it covers, which     *)
(* MemTablePut does not set.                                                *)
FillMemtableNoLast(p, writes, walID) ==
  \/ /\ mem' = [mem EXCEPT ![p] = @ \cup writes]
     /\ UNCHANGED imms
  \/ /\ imms' = [imms EXCEPT ![p] = Append(@, [writes |-> mem[p] \cup writes])]
     /\ mem' = [mem EXCEPT ![p] = {}]

(* The memtable, with more writes in it, is kept or is frozen. *)
FillMemtable(p, writes, walID) ==
  \/ /\ mem' = [mem EXCEPT ![p] = @ \cup writes]
     /\ UNCHANGED imms
  \/ /\ imms' = [imms EXCEPT ![p] = Append(@, [writes |-> mem[p] \cup writes, last |-> walID])]
     /\ mem' = [mem EXCEPT ![p] = {}]

(* The next WAL of the list is read, as it is by now. *)
ReplayWAL(p) ==
  /\ pc[p] = "replay"
  /\ \E i \in ids[p] :
       /\ \A j \in ids[p] : i <= j
       /\ ids' = [ids EXCEPT ![p] = @ \ {i}]
       /\ replayed' = [replayed EXCEPT ![p] = i]
       /\ FillMemtable(p, walSST[i], i)
       /\ core' = IF core[p].next = i THEN [core EXCEPT ![p].next = @ + 1] ELSE core
  /\ UNCHANGED <<storeVars, pc, stored, epoch, opens, walVars, taskVars>>

(* The assertion at the end of replayWAL, and the start of the two tasks.   *)
(* If NewCompactor then fails, Open returns an error and the tasks stay.    *)
ReplayDone(p) ==
  /\ pc[p] = "replay"
  /\ ids[p] = {}
  /\ \/ /\ replayed[p] + 1 # core[p].next
        /\ Reset(p)
     \/ /\ replayed[p] + 1 = core[p].next
        /\ Goto(p, "open") \/ Goto(p, "orphan")
        /\ UNCHANGED <<stored, epoch, ids, replayed, opens, walVars, memVars, core, taskVars>>
  /\ UNCHANGED storeVars

-----------------------------------------------------------------------------
(* The WAL task.  Nothing in it looks at the epoch. *)

(* A Put, and FreezeWAL. *)
FreezeWAL(p) ==
  /\ pc[p] = "open"
  /\ wtask[p].pc = "idle"
  /\ issued < MaxWrites
  /\ issued' = issued + 1
  /\ wtask' = [wtask EXCEPT ![p] = [pc |-> "upload", id |-> core[p].next, write |-> issued + 1]]
  /\ core' = [core EXCEPT ![p].next = @ + 1]
  /\ UNCHANGED <<storeVars, openVars, acked, late, memVars, taskVars>>

(* WriteSST puts the SST whether or not the object exists. *)
StoreWAL(p) ==
  /\ walSST' = [i \in DOMAIN walSST \cup {wtask[p].id} |->
                  IF i = wtask[p].id THEN {wtask[p].write} ELSE walSST[i]]
  /\ late' = (late \/ epoch[p] < manifest.epoch)

FlushImmWAL(p) ==
  /\ wtask[p].pc = "upload"
  /\ StoreWAL(p)
  /\ wtask' = [wtask EXCEPT ![p].pc = "apply"]
  /\ UNCHANGED <<manifest, overwrote, openVars, issued, acked, memVars, core, taskVars>>

(* The upload fails although the object is there; the WAL stays queued and  *)
(* is uploaded again.  An upload that leaves no object changes nothing.     *)
FlushImmWALFails(p) ==
  /\ wtask[p].pc = "upload"
  /\ StoreWAL(p)
  /\ UNCHANGED <<manifest, overwrote, openVars, wtask, issued, acked, memVars, core, taskVars>>

(* The WAL goes into the memtable, and its writes are acknowledged. *)
NotifyWALFlushed(p) ==
  /\ wtask[p].pc = "apply"
  /\ FillMemtable(p, {wtask[p].write}, wtask[p].id)
  /\ acked' = acked \cup {wtask[p].write}
  /\ wtask' = [wtask EXCEPT ![p] = NoWAL]
  /\ UNCHANGED <<storeVars, openVars, issued, late, core, taskVars>>

-----------------------------------------------------------------------------
(* The memtable task *)

(* flushImmMemtablesToL0 up to MoveImmMemtableToL0: the SST has a new name. *)
FlushImmMemtable(p) ==
  /\ Running(p)
  /\ mtask[p] = "idle"
  /\ imms[p] # <<>>
  /\ imms' = [imms EXCEPT ![p] = Tail(@)]
  /\ core' = [core EXCEPT ![p] = [l0 |-> @.l0 \cup Head(imms[p]).writes,
                                  last |-> Head(imms[p]).last, next |-> @.next]]
  /\ mtask' = [mtask EXCEPT ![p] = "load"]
  /\ UNCHANGED <<storeVars, openVars, walVars, mem, put>>

(* Mutants: a fenced writer goes on to write; it forgets what it has read.  *)
LoadManifestUnfenced(p) ==
  /\ Running(p)
  /\ mtask[p] \in {"idle", "load"}
  /\ stored' = [stored EXCEPT ![p] = manifest]
  /\ mtask' = [mtask EXCEPT ![p] = IF @ = "load" THEN "write" ELSE "idle"]
  /\ UNCHANGED <<storeVars, pc, epoch, ids, replayed, opens, walVars, memVars, core, put>>

LoadManifestForgets(p) ==
  /\ Running(p)
  /\ mtask[p] \in {"idle", "load"}
  /\ \/ /\ epoch[p] > manifest.epoch
        /\ Reset(p)
     \/ /\ epoch[p] <= manifest.epoch
        /\ stored' = [stored EXCEPT ![p] = IF epoch[p] < manifest.epoch THEN @ ELSE manifest]
        /\ mtask' = [mtask EXCEPT ![p] =
                       IF @ = "load" /\ epoch[p] = manifest.epoch THEN "write" ELSE "idle"]
        /\ UNCHANGED <<pc, epoch, ids, replayed, opens, walVars, memVars, core, put>>
  /\ UNCHANGED storeVars

(* loadManifest, by the ticker or in writeManifestSafely: Refresh, and then *)
(* checkEpoch.  A fenced task returns ErrFenced, which is logged; a panic   *)
(* takes the process down.                                                  *)
LoadManifest(p) ==
  /\ Running(p)
  /\ mtask[p] \in {"idle", "load"}
  /\ \/ /\ epoch[p] > manifest.epoch
        /\ Reset(p)
     \/ /\ epoch[p] <= manifest.epoch
        /\ stored' = [stored EXCEPT ![p] = manifest]
        /\ mtask' = [mtask EXCEPT ![p] =
                       IF @ = "load" /\ epoch[p] = manifest.epoch THEN "write" ELSE "idle"]
        /\ UNCHANGED <<pc, epoch, ids, replayed, opens, walVars, memVars, core, put>>
  /\ UNCHANGED storeVars

(* writeManifest: a snapshot of the state under the id after the stored     *)
(* one, with the epoch of the stored one; and the Exists.                   *)
WriteManifest(p) ==
  /\ mtask[p] = "write"
  /\ \/ /\ Exists(stored[p].id + 1)
        /\ mtask' = [mtask EXCEPT ![p] = "load"]
        /\ UNCHANGED put
     \/ /\ ~Exists(stored[p].id + 1)
        /\ mtask' = [mtask EXCEPT ![p] = "put"]
        /\ put' = [put EXCEPT ![p] = [id |-> stored[p].id + 1, epoch |-> stored[p].epoch,
                                      core |-> core[p]]]
  /\ UNCHANGED <<storeVars, openVars, walVars, memVars, core>>

PutManifest(p) ==
  /\ mtask[p] = "put"
  /\ Land(put[p])
  /\ stored' = [stored EXCEPT ![p] = put[p]]
  /\ mtask' = [mtask EXCEPT ![p] = "idle"]
  /\ put' = [put EXCEPT ![p] = NoManifest]
  /\ UNCHANGED <<pc, epoch, ids, replayed, opens, walVars, memVars, core>>

PutManifestFails(p) ==
  /\ mtask[p] = "put"
  /\ Land(put[p]) \/ UNCHANGED storeVars
  /\ mtask' = [mtask EXCEPT ![p] = "idle"]
  /\ put' = [put EXCEPT ![p] = NoManifest]
  /\ UNCHANGED <<openVars, walVars, memVars, core>>

-----------------------------------------------------------------------------
Open(p) ==
  \/ OpenLoad(p) \/ BumpExists(p) \/ BumpPut(p) \/ BumpPutFails(p)
  \/ ListWALs(p) \/ ReplayWAL(p) \/ ReplayDone(p)

WalTask(p) ==
  \/ FreezeWAL(p) \/ FlushImmWAL(p) \/ FlushImmWALFails(p) \/ NotifyWALFlushed(p)

MemTask(p) ==
  \/ FlushImmMemtable(p) \/ LoadManifest(p) \/ WriteManifest(p)
  \/ PutManifest(p) \/ PutManifestFails(p)

Next == \E p \in Procs : Open(p) \/ WalTask(p) \/ MemTask(p) \/ Crash(p)

Spec == Init /\ [][Next]_vars

-----------------------------------------------------------------------------
TypeOK ==
  /\ walSST \in [DOMAIN walSST -> SUBSET Nat] /\ DOMAIN walSST \subseteq Nat
  /\ manifest \in Manifest
  /\ pc \in [Procs -> {"down", "bump", "bumpPut", "list", "replay", "open", "orphan"}]
  /\ stored \in [Procs -> Manifest]
  /\ epoch \in [Procs -> Nat]
  /\ core \in [Procs -> Core]
  /\ ids \in [Procs -> SUBSET Nat]
  /\ replayed \in [Procs -> Nat]
  /\ wtask \in [Procs -> [pc : {"idle", "upload", "apply"}, id : Nat, write : Nat]]
  /\ mem \in [Procs -> SUBSET Nat]
  /\ imms \in [Procs -> Seq([writes : SUBSET Nat, last : Nat])]
  /\ mtask \in [Procs -> {"idle", "load", "write", "put"}]
  /\ put \in [Procs -> Manifest]
  /\ issued \in Nat
  /\ acked \subseteq Nat
  /\ opens \in Nat
  /\ late \in BOOLEAN
  /\ overwrote \in BOOLEAN

(* What the next Open finds: the WALs it replays and the levels. *)
Durable(write) ==
  \/ write \in manifest.core.l0
  \/ \E i \in DOMAIN walSST : i > manifest.core.last /\ write \in walSST[i]

(* A write that reached the levels of a manifest stays in them, and the     *)
(* replay never starts from an earlier WAL again, whichever processes run   *)
(* and whatever their tasks had under way when they were replaced: each     *)
(* writer writes its own L0 back, so a writer whose checkEpoch came too     *)
(* early would drop what its successor flushed.  Excluded is an Upload that *)
(* replaces a manifest written since its Exists.                            *)
LevelsOnlyGrow ==
  [][~overwrote' => /\ manifest.core.l0 \subseteq manifest'.core.l0
                    /\ manifest.core.last <= manifest'.core.last]_vars

(* An acknowledged write is found by the next Open as long as no writer     *)
(* uploads a WAL after it has been replaced: what a replaced writer and the *)
(* tasks that a failed Open leaves behind flush beside the new writer takes *)
(* nothing away.                                                            *)
DurableUnlessLate == ~overwrote /\ ~late => \A write \in acked : Durable(write)

(* "It also detects when the current writer has been fenced and fails all   *)
(* operations": an acknowledged write survives, with several writers too.   *)
AckedWritesSurvive == ~overwrote => \A write \in acked : Durable(write)

(* Fairness: the memtable task is scheduled, its ticker included. *)
FairSpec == Spec /\ \A p \in Procs : WF_vars(MemTask(p)) /\ SF_vars(LoadManifest(p))

(* "Refreshing the manifest file allows writers to detect fencing           *)
(* operations": a writer that was replaced learns of it, and then stays     *)
(* fenced until its process ends.                                           *)
FencedIsNoticed ==
  \A p \in Procs :
    (Running(p) /\ epoch[p] < manifest.epoch) ~>
      (overwrote \/ ~Running(p) \/ stored[p].epoch > epoch[p])

=============================================================================
