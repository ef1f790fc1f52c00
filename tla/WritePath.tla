----------------------------- MODULE WritePath -----------------------------
(***************************************************************************)
(* The writer of one database: the mutable WAL, the immutable WALs, the    *)
(* memtable, the immutable memtables and the levels of CoreDBState         *)
(* (slatedb/state/db_state.go), the two background tasks that move writes  *)
(* from one to the next (slatedb/flush.go), Open with its WAL replay, and  *)
(* Close (slatedb/db.go), over an object store that survives crashes.      *)
(*                                                                         *)
(* A step is what the code does between two points where another goroutine *)
(* can get in: one critical section of DBState's lock, or one call to the  *)
(* object store.  FlushWAL and FlushMemtableToL0 are also public methods,  *)
(* which WalCallers and MemCallers call beside the background tasks.       *)
(*                                                                         *)
(* Writes are numbered 1, 2, ... in the order WalPut takes them.  A table  *)
(* maps a key to the number of the write it holds for that key, 0 when it  *)
(* holds none; a deletion is a write like any other.                       *)
(***************************************************************************)
EXTENDS CoreDBState, FiniteSets

CONSTANTS Keys,        \* the keys written
          WalCallers,  \* application goroutines that call FlushWAL
          MemCallers,  \* application goroutines that call FlushMemtableToL0
          L0Size,      \* L0SSTSizeBytes, counted in entries
          ChCap,       \* capacity of memtableFlushNotifierCh (255 in the code)
          MaxWrites,   \* bound on the writes of a behaviour
          MaxOpens,    \* bound on the times the database is opened
          Events       \* which of AllEvents happen

(* What may befall the two tasks: a crash, a call to the object store that  *)
(* fails, a block that replayWAL cannot read, a Close, a tick of the        *)
(* manifest poll, a compaction.                                             *)
AllEvents == {"crash", "fail", "readfail", "close", "poll", "compact"}

ASSUME BoundsAssumption ==
  /\ L0Size \in Nat \ {0}
  /\ ChCap \in Nat \ {0}
  /\ MaxWrites \in Nat
  /\ MaxOpens \in Nat
  /\ Events \subseteq AllEvents

WalTask == "walTask"
MemTask == "memTask"
WalThreads == {WalTask} \cup WalCallers
MemThreads == {MemTask} \cup MemCallers

VARIABLES
  \* in the object store
  walSST,       \* WAL id -> table, for the WAL SSTs uploaded
  ssts,         \* the L0 and compacted SSTs uploaded, by number
  manifest,     \* the latest manifest file
  \* DBState, in memory
  status,       \* "down", "replaying", "open" or "panicked"
  wal,          \* the mutable WAL
  immWALs,      \* immutable WALs, oldest first
  kvt,          \* the KVTables of the memtables made since the open
  memtable,     \* the mutable memtable: its KVTable and LastWalID (0: none)
  immMemtables, \* immutable memtables, oldest first
  core,         \* CoreDBState
  replayed,     \* replayWAL: the last WAL id read
  \* goroutines
  w,            \* FlushWAL, per thread: place, WAL held, memtable held
  m,            \* MemtableFlusher, per thread: place, purpose, locals
  stored,       \* StoredManifest, shared by every MemtableFlusher
  ch,           \* memtableFlushNotifierCh
  shutdown,     \* the memtable task has received Shutdown
  closing,      \* how far Close has come
  \* history
  issued,       \* number of writes so far
  log,          \* the writes that no crash has lost: key and number
  acked,        \* the last write to each key that AwaitWALFlush returned for
  notified,     \* WALs of this process whose isDurableCh is closed
  mark,         \* length of log when Close was called
  flushFailed,  \* the last flush of the immutable memtables has failed
  overlapped,   \* two FlushWALs have been at the same WAL
  opens         \* times the database has been opened

storeVars == <<walSST, ssts, manifest>>
stateVars == <<wal, immWALs, kvt, memtable, immMemtables, core>>
taskVars == <<w, m, stored, ch, shutdown, closing>>
histVars == <<issued, log, acked, notified, mark, flushFailed, overlapped, opens>>
vars == <<storeVars, status, stateVars, replayed, taskVars, histVars>>

-----------------------------------------------------------------------------
(* Tables *)

Table == [Keys -> Nat]
EmptyTable == [k \in Keys |-> 0]

(* Putting every entry of one table into another. *)
PutAll(entries, t) == [k \in Keys |-> IF entries[k] # 0 THEN entries[k] ELSE t[k]]

Size(t) == Cardinality({k \in Keys : t[k] # 0})

Or(a, b) == IF a # 0 THEN a ELSE b

(* The first table of a sequence that holds k, and the last one. *)
FirstHit(tabs, k) ==
  LET hits == {i \in DOMAIN tabs : tabs[i][k] # 0}
  IN  IF hits = {} THEN 0
      ELSE tabs[CHOOSE i \in hits : \A j \in hits : i <= j][k]

LastHit(tabs, k) ==
  LET hits == {i \in DOMAIN tabs : tabs[i][k] # 0}
  IN  IF hits = {} THEN 0
      ELSE tabs[CHOOSE i \in hits : \A j \in hits : j <= i][k]

-----------------------------------------------------------------------------
(* Reads *)

L0Tables(c) == [i \in DOMAIN c.l0 |-> ssts[c.l0[i]]]
CompactedTables(c) == [i \in DOMAIN c.compacted |-> ssts[c.compacted[i].sst]]

SSTsOf(c) == {c.l0[i] : i \in DOMAIN c.l0} \cup {c.compacted[i].sst : i \in DOMAIN c.compacted}

SSTRead(c, k) == Or(FirstHit(L0Tables(c), k), FirstHit(CompactedTables(c), k))

(* Mutants: a Committed read looks into the WAL, or takes the immutable     *)
(* memtables oldest first.                                                  *)
GetCommittedFromWAL(k) ==
  Or(wal[k],
     Or(kvt[memtable.tab][k],
        Or(LastHit([i \in DOMAIN immMemtables |-> kvt[immMemtables[i].tab]], k),
           SSTRead(core, k))))

GetCommittedOldestFirst(k) ==
  Or(kvt[memtable.tab][k],
     Or(FirstHit([i \in DOMAIN immMemtables |-> kvt[immMemtables[i].tab]], k),
        SSTRead(core, k)))

(* GetWithOptions.  DBState.Snapshot copies everything under the lock and   *)
(* an SST never changes, so a read is a function of one state.              *)
GetCommitted(k) ==
  Or(kvt[memtable.tab][k],
     Or(LastHit([i \in DOMAIN immMemtables |-> kvt[immMemtables[i].tab]], k),
        SSTRead(core, k)))

(* Mutant: an Uncommitted read does not look into the immutable WALs. *)
GetUncommittedSkipsImm(k) == Or(wal[k], GetCommitted(k))

GetUncommitted(k) ==
  Or(wal[k],
     Or(LastHit([i \in DOMAIN immWALs |-> immWALs[i].tab], k), GetCommitted(k)))

Latest == ReadManifest(manifest)

(* What the next Open will find: the WAL SSTs that replayWAL reads, over    *)
(* the levels of the latest manifest.                                       *)
Recovered(k) ==
  LET c == Latest.core
      live == {i \in DOMAIN walSST : i > c.lastCompactedWalSSTID /\ walSST[i][k] # 0}
  IN  IF live = {} THEN SSTRead(c, k)
      ELSE walSST[CHOOSE i \in live : \A j \in live : j <= i][k]

-----------------------------------------------------------------------------
(* The writes that are durable, as a prefix of log. *)

View(writes, n, k) ==
  LET hits == {i \in 1..n : writes[i].key = k}
  IN  IF hits = {} THEN 0
      ELSE writes[CHOOSE i \in hits : \A j \in hits : j <= i].num

(* Those up to the last write that is found again. *)
DurableCount ==
  Cardinality({i \in DOMAIN log :
                 \E j \in i..Len(log) : Recovered(log[j].key) = log[j].num})

-----------------------------------------------------------------------------
NoWAL == [id |-> 0, tab |-> EmptyTable]
NoMem == [tab |-> 0, last |-> 0]
NoManifest == [id |-> 0, core |-> NewCoreDBState]

(* A goroutine that runs no FlushWAL, and one that runs no flusher. *)
WIdle(pc) == [pc |-> pc, imm |-> NoWAL, tab |-> 0, final |-> FALSE]
MIdle(pc) == [pc |-> pc, why |-> "poll", imm |-> NoMem, sst |-> 0, man |-> NoManifest]

IdleW == [t \in WalThreads |-> WIdle("idle")]
IdleM == [t \in MemThreads |-> MIdle("idle")]

Init ==
  /\ walSST = [i \in {} |-> EmptyTable]
  /\ ssts = <<>>
  /\ manifest = ManifestFile(NoManifest)
  /\ status = "down"
  /\ wal = EmptyTable
  /\ immWALs = <<>>
  /\ kvt = <<EmptyTable>>
  /\ memtable = [tab |-> 1, last |-> 0]
  /\ immMemtables = <<>>
  /\ core = NewCoreDBState
  /\ replayed = 0
  /\ w = IdleW
  /\ m = IdleM
  /\ stored = NoManifest
  /\ ch = <<>>
  /\ shutdown = FALSE
  /\ closing = "no"
  /\ issued = 0
  /\ log = <<>>
  /\ acked = EmptyTable
  /\ notified = {}
  /\ mark = 0
  /\ flushFailed = FALSE
  /\ overlapped = FALSE
  /\ opens = 0

(* The process ends: what it had in memory is gone. *)
Halt ==
  /\ status' = "down"
  /\ wal' = EmptyTable
  /\ immWALs' = <<>>
  /\ kvt' = <<EmptyTable>>
  /\ memtable' = [tab |-> 1, last |-> 0]
  /\ immMemtables' = <<>>
  /\ core' = NewCoreDBState
  /\ replayed' = 0
  /\ w' = IdleW
  /\ m' = IdleM
  /\ stored' = NoManifest
  /\ ch' = <<>>
  /\ shutdown' = FALSE
  /\ closing' = "no"
  /\ log' = SubSeq(log, 1, DurableCount)
  /\ notified' = {}
  /\ mark' = 0
  /\ flushFailed' = FALSE

(* A failed assertion, or PopBack of an empty deque. *)
Panic ==
  /\ status' = "panicked"
  /\ UNCHANGED <<storeVars, stateVars, replayed, taskVars, histVars>>

-----------------------------------------------------------------------------
(* Open *)

(* getManifest of a new database: NewStoredManifest puts manifest 1. *)
CreateManifest ==
  /\ status = "down"
  /\ manifest.id = 0
  /\ manifest' = ManifestFile([id |-> 1, core |-> NewCoreDBState])
  /\ UNCHANGED <<walSST, ssts, status, stateVars, replayed, taskVars, histVars>>

(* Mutant: replayWAL starts with the oldest WAL SST. *)
OpenManifestFromStart ==
  /\ status = "down"
  /\ manifest.id # 0
  /\ opens < MaxOpens
  /\ opens' = opens + 1
  /\ stored' = [Latest EXCEPT !.id = @ + 1]
  /\ manifest' = ManifestFile(stored')
  /\ core' = Latest.core
  /\ replayed' = 0
  /\ status' = "replaying"
  /\ UNCHANGED <<walSST, ssts, wal, immWALs, kvt, memtable, immMemtables, w, m, ch,
                 shutdown, closing, issued, log, acked, notified, mark, flushFailed, overlapped>>

(* getManifest puts the next manifest, with the writer's epoch bumped and   *)
(* the same CoreDBState; newDB starts from that state.                      *)
OpenManifest ==
  /\ status = "down"
  /\ manifest.id # 0
  /\ opens < MaxOpens
  /\ opens' = opens + 1
  /\ stored' = [Latest EXCEPT !.id = @ + 1]
  /\ manifest' = ManifestFile(stored')
  /\ core' = Latest.core
  /\ replayed' = Latest.core.lastCompactedWalSSTID
  /\ status' = "replaying"
  /\ UNCHANGED <<walSST, ssts, wal, immWALs, kvt, memtable, immMemtables, w, m, ch,
                 shutdown, closing, issued, log, acked, notified, mark, flushFailed, overlapped>>

(* Mutant: the new memtable gets no KVTable. *)
FreezeMemtableNoTable(tabs, walID) ==
  /\ immMemtables' = Append(immMemtables, [tab |-> memtable.tab, last |-> walID])
  /\ kvt' = tabs
  /\ memtable' = [tab |-> Len(tabs) + 1, last |-> 0]

(* FreezeMemtable; tabs are the KVTables before it. *)
FreezeMemtable(tabs, walID) ==
  /\ immMemtables' = Append(immMemtables, [tab |-> memtable.tab, last |-> walID])
  /\ kvt' = Append(tabs, EmptyTable)
  /\ memtable' = [tab |-> Len(tabs) + 1, last |-> 0]

(* What the iterator over a WAL SST returns.  A block that it cannot read   *)
(* ends the iteration; replayWAL does not look at the warning.              *)
ReadWAL(id) == {walSST[id]} \cup (IF "readfail" \in Events THEN {EmptyTable} ELSE {})

(* The entries go into the memtable, which is frozen when it is large       *)
(* enough.  The send of maybeFreezeMemtable blocks on a full channel, which *)
(* nobody reads yet.  MemTablePut does not set the memtable's LastWalID.    *)
ReplayEntries(id, entries) ==
  LET t == PutAll(entries, kvt[memtable.tab])
      tabs == [kvt EXCEPT ![memtable.tab] = t]
  IN  \/ /\ Size(t) < L0Size
         /\ kvt' = tabs
         /\ UNCHANGED <<memtable, immMemtables, ch>>
      \/ /\ Size(t) >= L0Size
         /\ Len(ch) < ChCap
         /\ FreezeMemtable(tabs, id)
         /\ ch' = Append(ch, "flush")

(* One turn of replayWAL: the next WAL SST. *)
ReplayWAL(id) ==
  /\ status = "replaying"
  /\ id > replayed
  /\ \A j \in DOMAIN walSST : j > replayed => id <= j
  /\ \E entries \in ReadWAL(id) : ReplayEntries(id, entries)
  /\ core' = IF core.nextWalSstID = id THEN [core EXCEPT !.nextWalSstID = @ + 1] ELSE core
  /\ replayed' = id
  /\ UNCHANGED <<storeVars, status, wal, immWALs, w, m, stored, shutdown, closing, histVars>>

(* The end of replayWAL, with its assertion; the tasks are then started. *)
ReplayDone ==
  /\ status = "replaying"
  /\ \A j \in DOMAIN walSST : j <= replayed
  /\ status' = IF replayed + 1 = core.nextWalSstID THEN "open" ELSE "panicked"
  /\ UNCHANGED <<storeVars, stateVars, replayed, taskVars, histVars>>

(* The process dies, at any point; what is in the object store stays. *)
Crash ==
  /\ "crash" \in Events
  /\ status # "down"
  /\ Halt
  /\ UNCHANGED <<storeVars, issued, acked, overlapped, opens>>

-----------------------------------------------------------------------------
(* PutWithOptions and DeleteWithOptions: WalPut. *)
WalPut(k) ==
  /\ status = "open"
  /\ issued < MaxWrites
  /\ issued' = issued + 1
  /\ wal' = [wal EXCEPT ![k] = issued + 1]
  /\ log' = Append(log, [key |-> k, num |-> issued + 1])
  /\ UNCHANGED <<storeVars, status, immWALs, kvt, memtable, immMemtables, core, replayed,
                 taskVars, acked, notified, mark, flushFailed, overlapped, opens>>

-----------------------------------------------------------------------------
(* FlushWAL, by the WAL task or by an application goroutine *)

WGoto(t, pc) == w' = [w EXCEPT ![t].pc = pc]

(* FlushWAL has returned; after the call that Close asks for so has the     *)
(* task.                                                                    *)
WReturned(r) == WIdle(IF r.final THEN "done" ELSE "idle")

(* Mutant: the newest immutable WAL first. *)
NewestImmWAL(r, wals) ==
  IF wals = <<>> THEN WReturned(r)
  ELSE [r EXCEPT !.pc = "upload", !.imm = wals[Len(wals)]]

(* The head of the loop of flushImmWALs, for a goroutine in state r. *)
OldestImmWAL(r, wals) ==
  IF wals = <<>> THEN WReturned(r)
  ELSE [r EXCEPT !.pc = "upload", !.imm = Head(wals)]

(* Two FlushWALs at once: both have the oldest WAL, which PopImmWAL will    *)
(* not be for the second.                                                   *)
NoteOverlap ==
  overlapped' = (overlapped \/ \E t, u \in WalThreads :
                                 t # u /\ {w'[t].pc, w'[u].pc} \subseteq {"upload", "pop"})

(* Mutants: the next WAL id is not incremented; the call that Close asks    *)
(* for flushes the immutable WALs only.                                     *)
FreezeWALKeepsID(t, last) ==
  LET frozen == IF Size(wal) = 0 THEN immWALs
                ELSE Append(immWALs, [id |-> core.nextWalSstID, tab |-> wal])
  IN  /\ status = "open"
      /\ w[t].pc = "idle"
      /\ last => t = WalTask /\ closing # "no"
      /\ immWALs' = frozen
      /\ w' = [w EXCEPT ![t] = OldestImmWAL([@ EXCEPT !.final = last], frozen)]
      /\ NoteOverlap
      /\ wal' = EmptyTable
      /\ UNCHANGED <<storeVars, status, kvt, memtable, immMemtables, core, replayed, m, stored,
                     ch, shutdown, closing, issued, log, acked, notified, mark,
                     flushFailed, opens>>

FreezeWALNotOnClose(t, last) ==
  LET skip == last \/ Size(wal) = 0
      frozen == IF skip THEN immWALs
                ELSE Append(immWALs, [id |-> core.nextWalSstID, tab |-> wal])
  IN  /\ status = "open"
      /\ w[t].pc = "idle"
      /\ last => t = WalTask /\ closing # "no"
      /\ immWALs' = frozen
      /\ w' = [w EXCEPT ![t] = OldestImmWAL([@ EXCEPT !.final = last], frozen)]
      /\ NoteOverlap
      /\ wal' = IF skip THEN wal ELSE EmptyTable
      /\ core' = IF skip THEN core ELSE [core EXCEPT !.nextWalSstID = @ + 1]
      /\ UNCHANGED <<storeVars, status, kvt, memtable, immMemtables, replayed, m, stored, ch,
                     shutdown, closing, issued, log, acked, notified, mark,
                     flushFailed, opens>>

(* FlushWAL is called: FreezeWAL, and OldestImmWAL.  For the WAL task, last *)
(* is the call that Close asks for.                                         *)
FreezeWAL(t, last) ==
  LET frozen == IF Size(wal) = 0 THEN immWALs
                ELSE Append(immWALs, [id |-> core.nextWalSstID, tab |-> wal])
  IN  /\ status = "open"
      /\ w[t].pc = "idle"
      /\ last => t = WalTask /\ closing # "no"
      /\ immWALs' = frozen
      /\ w' = [w EXCEPT ![t] = OldestImmWAL([@ EXCEPT !.final = last], frozen)]
      /\ NoteOverlap
      /\ wal' = EmptyTable
      /\ core' = IF Size(wal) = 0 THEN core ELSE [core EXCEPT !.nextWalSstID = @ + 1]
      /\ UNCHANGED <<storeVars, status, kvt, memtable, immMemtables, replayed, m, stored, ch,
                     shutdown, closing, issued, log, acked, notified, mark,
                     flushFailed, opens>>

(* The SST of a WAL: WriteSST puts it whether or not the object exists. *)
StoreWAL(imm) == walSST' = [i \in DOMAIN walSST \cup {imm.id} |->
                              IF i = imm.id THEN imm.tab ELSE walSST[i]]

FlushImmWAL(t) ==
  /\ status = "open"
  /\ w[t].pc = "upload"
  /\ StoreWAL(w[t].imm)
  /\ WGoto(t, "pop")
  /\ UNCHANGED <<ssts, manifest, status, stateVars, replayed, m, stored, ch, shutdown,
                 closing, histVars>>

(* Mutants: a failed upload notifies the waiting Puts all the same; it is   *)
(* taken for a success; it drops the WAL.                                   *)
FlushImmWALFailsNotifies(t) ==
  /\ "fail" \in Events
  /\ status = "open"
  /\ w[t].pc = "upload"
  /\ acked' = PutAll(w[t].imm.tab, acked)
  /\ w' = [w EXCEPT ![t] = WReturned(@)]
  /\ UNCHANGED <<storeVars, status, stateVars, replayed, m, stored, ch, shutdown, closing,
                 issued, log, notified, mark, flushFailed, overlapped, opens>>

FlushImmWALFailsIgnored(t) ==
  /\ "fail" \in Events
  /\ status = "open"
  /\ w[t].pc = "upload"
  /\ WGoto(t, "pop")
  /\ UNCHANGED <<storeVars, status, stateVars, replayed, m, stored, ch, shutdown, closing,
                 histVars>>

FlushImmWALFailsDrops(t) ==
  /\ "fail" \in Events
  /\ status = "open"
  /\ w[t].pc = "upload"
  /\ immWALs' = Tail(immWALs)
  /\ w' = [w EXCEPT ![t] = WReturned(@)]
  /\ UNCHANGED <<storeVars, status, wal, kvt, memtable, immMemtables, core, replayed, m,
                 stored, ch, shutdown, closing, histVars>>

(* The upload fails or times out; the object may be there all the same. *)
FlushImmWALFails(t) ==
  /\ "fail" \in Events
  /\ status = "open"
  /\ w[t].pc = "upload"
  /\ StoreWAL(w[t].imm) \/ UNCHANGED walSST
  /\ w' = [w EXCEPT ![t] = WReturned(@)]
  /\ UNCHANGED <<ssts, manifest, status, stateVars, replayed, m, stored, ch, shutdown,
                 closing, histVars>>

(* PopImmWAL, which pops whatever is oldest by now, and the Memtable() that *)
(* flushImmWALToMemtable is about to fill.                                  *)
PopImmWAL(t) ==
  /\ status = "open"
  /\ w[t].pc = "pop"
  /\ \/ immWALs = <<>> /\ Panic
     \/ /\ immWALs # <<>>
        /\ immWALs' = Tail(immWALs)
        /\ w' = [w EXCEPT ![t].pc = "apply", ![t].tab = memtable.tab]
        /\ UNCHANGED <<storeVars, status, wal, kvt, memtable, immMemtables, core, replayed,
                       m, stored, ch, shutdown, closing, histVars>>

(* The memtable taken before may have been frozen in the meantime. *)
FlushImmWALToMemtable(t) ==
  /\ status = "open"
  /\ w[t].pc = "apply"
  /\ kvt' = [kvt EXCEPT ![w[t].tab] = PutAll(w[t].imm.tab, @)]
  /\ memtable' = IF memtable.tab = w[t].tab THEN [memtable EXCEPT !.last = w[t].imm.id]
                 ELSE memtable
  /\ WGoto(t, "check")
  /\ UNCHANGED <<storeVars, status, wal, immWALs, immMemtables, core, replayed, m, stored,
                 ch, shutdown, closing, histVars>>

(* maybeFreezeMemtable: the size is read, and then the lock is taken. *)
CheckMemtableSize(t) ==
  /\ status = "open"
  /\ w[t].pc = "check"
  /\ WGoto(t, IF Size(kvt[memtable.tab]) < L0Size THEN "notify" ELSE "freeze")
  /\ UNCHANGED <<storeVars, status, stateVars, replayed, m, stored, ch, shutdown, closing,
                 histVars>>

(* Mutant: the memtable is said to end with the newest WAL frozen. *)
MaybeFreezeMemtableNewest(t) ==
  /\ status = "open"
  /\ w[t].pc = "freeze"
  /\ FreezeMemtable(kvt, core.nextWalSstID - 1)
  /\ WGoto(t, "send")
  /\ UNCHANGED <<storeVars, status, wal, immWALs, core, replayed, m, stored, ch, shutdown,
                 closing, histVars>>

MaybeFreezeMemtable(t) ==
  /\ status = "open"
  /\ w[t].pc = "freeze"
  /\ FreezeMemtable(kvt, w[t].imm.id)
  /\ WGoto(t, "send")
  /\ UNCHANGED <<storeVars, status, wal, immWALs, core, replayed, m, stored, ch, shutdown,
                 closing, histVars>>

SendFlush(t) ==
  /\ status = "open"
  /\ w[t].pc = "send"
  /\ Len(ch) < ChCap
  /\ ch' = Append(ch, "flush")
  /\ WGoto(t, "notify")
  /\ UNCHANGED <<storeVars, status, stateVars, replayed, m, stored, shutdown, closing,
                 histVars>>

(* NotifyWALFlushed closes the channel AwaitWALFlush waits on; closing it a *)
(* second time panics.  The loop goes on with the next WAL.                 *)
NotifyWALFlushed(t) ==
  /\ status = "open"
  /\ w[t].pc = "notify"
  /\ \/ w[t].imm.id \in notified /\ Panic
     \/ /\ w[t].imm.id \notin notified
        /\ notified' = notified \cup {w[t].imm.id}
        /\ acked' = [k \in Keys |-> IF w[t].imm.tab[k] > acked[k] THEN w[t].imm.tab[k]
                                    ELSE acked[k]]
        /\ w' = [w EXCEPT ![t] = OldestImmWAL([WIdle("idle") EXCEPT !.final = w[t].final], immWALs)]
        /\ NoteOverlap
        /\ UNCHANGED <<storeVars, status, stateVars, replayed, m, stored, ch, shutdown,
                       closing, issued, log, mark, flushFailed, opens>>

-----------------------------------------------------------------------------
(* MemtableFlusher, in the memtable task or in FlushMemtableToL0 *)

MGoto(t, pc) == m' = [m EXCEPT ![t].pc = pc]

(* A flush has returned; after the last writeManifestSafely so has the task. *)
MReturned(r) == MIdle(IF r.why = "final" THEN "done" ELSE "idle")

(* The head of the loop of flushImmMemtablesToL0. *)
OldestImmMemtable(mems) ==
  IF mems = <<>> THEN MIdle("idle")
  ELSE [MIdle("upload") EXCEPT !.why = "flush", !.imm = Head(mems)]

(* The task's ticker: loadManifest. *)
PollManifest ==
  /\ "poll" \in Events
  /\ status = "open"
  /\ m[MemTask].pc = "idle"
  /\ ~(shutdown /\ ch = <<>>)
  /\ m' = [m EXCEPT ![MemTask].pc = "load", ![MemTask].why = "poll"]
  /\ UNCHANGED <<storeVars, status, stateVars, replayed, w, stored, ch, shutdown, closing,
                 histVars>>

(* The task receives from memtableFlushNotifierCh. *)
ReceiveMsg ==
  /\ status = "open"
  /\ m[MemTask].pc = "idle"
  /\ ch # <<>>
  /\ ch' = Tail(ch)
  /\ \/ /\ Head(ch) = "shutdown"
        /\ shutdown' = TRUE
        /\ UNCHANGED <<m, flushFailed>>
     \/ /\ Head(ch) = "flush"
        /\ m' = [m EXCEPT ![MemTask] = OldestImmMemtable(immMemtables)]
        /\ flushFailed' = FALSE
        /\ UNCHANGED shutdown
  /\ UNCHANGED <<storeVars, status, stateVars, replayed, w, stored, closing, issued, log, acked,
                 notified, mark, overlapped, opens>>

(* The loop has ended: one last writeManifestSafely. *)
MemTaskExit ==
  /\ status = "open"
  /\ m[MemTask].pc = "idle"
  /\ shutdown
  /\ ch = <<>>
  /\ m' = [m EXCEPT ![MemTask].pc = "load", ![MemTask].why = "final"]
  /\ UNCHANGED <<storeVars, status, stateVars, replayed, w, stored, ch, shutdown, closing,
                 histVars>>

(* FlushMemtableToL0 reads the memtable's LastWalID, and fails if it has    *)
(* none; then it freezes the memtable.                                      *)
FlushMemtableToL0(t) ==
  /\ status = "open"
  /\ m[t].pc = "idle"
  /\ memtable.last # 0
  /\ m' = [m EXCEPT ![t].pc = "freeze", ![t].why = "flush", ![t].imm.last = memtable.last]
  /\ UNCHANGED <<storeVars, status, stateVars, replayed, w, stored, ch, shutdown, closing,
                 histVars>>

FlushMemtableFreezes(t) ==
  /\ status = "open"
  /\ m[t].pc = "freeze"
  /\ FreezeMemtable(kvt, m[t].imm.last)
  /\ m' = [m EXCEPT ![t] = OldestImmMemtable(immMemtables')]
  /\ flushFailed' = FALSE
  /\ UNCHANGED <<storeVars, status, wal, immWALs, core, replayed, w, stored, ch, shutdown,
                 closing, issued, log, acked, notified, mark, overlapped, opens>>

(* flushImmMemtablesToL0 *)
FlushImmMemtable(t) ==
  /\ status = "open"
  /\ m[t].pc = "upload"
  /\ ssts' = Append(ssts, kvt[m[t].imm.tab])
  /\ m' = [m EXCEPT ![t].pc = "move", ![t].sst = Len(ssts) + 1]
  /\ UNCHANGED <<walSST, manifest, status, stateVars, replayed, w, stored, ch, shutdown,
                 closing, histVars>>

MFails(t) ==
  /\ m' = [m EXCEPT ![t] = MReturned(@)]
  /\ flushFailed' = (flushFailed \/ m[t].why = "flush")

(* Mutant: a failed upload is taken for a success. *)
FlushFailsIgnored(t) ==
  /\ "fail" \in Events
  /\ status = "open"
  /\ m[t].pc = "upload"
  /\ m' = [m EXCEPT ![t].pc = "move", ![t].sst = Len(ssts) + 1]
  /\ UNCHANGED <<storeVars, status, stateVars, replayed, w, stored, ch, shutdown, closing,
                 histVars>>

(* An error ends the flush; an SST that got stored is in no manifest.  The  *)
(* immutable memtable waits for the next message.                           *)
FlushFails(t) ==
  /\ "fail" \in Events
  /\ status = "open"
  /\ m[t].pc \in {"upload", "load", "write"}
  /\ MFails(t)
  /\ UNCHANGED <<storeVars, status, stateVars, replayed, w, stored, ch, shutdown, closing,
                 issued, log, acked, notified, mark, overlapped, opens>>

MoveImmMemtableToL0(t) ==
  /\ status = "open"
  /\ m[t].pc = "move"
  /\ \/ immMemtables = <<>> /\ Panic
     \/ immMemtables # <<>> /\ Head(immMemtables).last # m[t].imm.last /\ Panic
     \/ /\ immMemtables # <<>>
        /\ Head(immMemtables).last = m[t].imm.last
        /\ immMemtables' = Tail(immMemtables)
        /\ core' = [core EXCEPT !.l0 = <<m[t].sst>> \o @,
                                !.lastCompactedWalSSTID = m[t].imm.last]
        /\ MGoto(t, "load")
        /\ UNCHANGED <<storeVars, status, wal, immWALs, kvt, memtable, replayed, w, stored,
                       ch, shutdown, closing, histVars>>

(* loadManifest: Refresh, and then RefreshDBState with what it returned. *)
LoadManifest(t) ==
  /\ status = "open"
  /\ m[t].pc = "load"
  /\ stored' = Latest
  /\ m' = [m EXCEPT ![t].pc = "merge", ![t].man = Latest]
  /\ UNCHANGED <<storeVars, status, stateVars, replayed, w, ch, shutdown, closing, histVars>>

MergeManifest(t) ==
  /\ status = "open"
  /\ m[t].pc = "merge"
  /\ core' = RefreshDBState(core, m[t].man.core)
  /\ \/ m[t].why = "poll" /\ m' = [m EXCEPT ![t] = MReturned(@)]
     \/ m[t].why # "poll" /\ m' = [m EXCEPT ![t].pc = "write", ![t].man = NoManifest]
  /\ UNCHANGED <<storeVars, status, wal, immWALs, kvt, memtable, immMemtables, replayed, w,
                 stored, ch, shutdown, closing, histVars>>

(* Mutant: a refused write is tried again without loading the manifest. *)
WriteManifestNoReload(t) ==
  /\ status = "open"
  /\ m[t].pc = "write"
  /\ \/ stored.id + 1 <= manifest.id /\ UNCHANGED m
     \/ /\ stored.id + 1 > manifest.id
        /\ m' = [m EXCEPT ![t].pc = "put", ![t].man = [id |-> stored.id + 1, core |-> core]]
  /\ UNCHANGED <<storeVars, status, stateVars, replayed, w, stored, ch, shutdown, closing,
                 histVars>>

(* writeManifest: a snapshot of the state under the id after the stored     *)
(* one.  putIfNotExists asks whether that id exists and, if it does, the    *)
(* flusher starts over from loadManifest; the put is a step of its own.     *)
WriteManifest(t) ==
  /\ status = "open"
  /\ m[t].pc = "write"
  /\ \/ stored.id + 1 <= manifest.id /\ MGoto(t, "load")
     \/ /\ stored.id + 1 > manifest.id
        /\ m' = [m EXCEPT ![t].pc = "put", ![t].man = [id |-> stored.id + 1, core |-> core]]
  /\ UNCHANGED <<storeVars, status, stateVars, replayed, w, stored, ch, shutdown, closing,
                 histVars>>

(* The put overwrites a manifest that appeared under the id in between, and *)
(* is not the latest when still newer ones have appeared.                   *)
Land(man) == manifest' = IF man.id >= manifest.id THEN ManifestFile(man) ELSE manifest

(* Mutant: a flush ends with the first memtable. *)
PutManifestOne(t) ==
  /\ status = "open"
  /\ m[t].pc = "put"
  /\ Land(m[t].man)
  /\ stored' = m[t].man
  /\ m' = [m EXCEPT ![t] = MReturned(@)]
  /\ UNCHANGED <<walSST, ssts, status, stateVars, replayed, w, ch, shutdown, closing, histVars>>

PutManifest(t) ==
  /\ status = "open"
  /\ m[t].pc = "put"
  /\ Land(m[t].man)
  /\ stored' = m[t].man
  /\ m' = [m EXCEPT ![t] = IF @.why = "final" THEN MReturned(@)
                            ELSE OldestImmMemtable(immMemtables)]
  /\ UNCHANGED <<walSST, ssts, status, stateVars, replayed, w, ch, shutdown, closing, histVars>>

(* The put fails or times out; the object may be there all the same. *)
PutManifestFails(t) ==
  /\ "fail" \in Events
  /\ status = "open"
  /\ m[t].pc = "put"
  /\ Land(m[t].man) \/ UNCHANGED manifest
  /\ MFails(t)
  /\ UNCHANGED <<walSST, ssts, status, stateVars, replayed, w, stored, ch, shutdown, closing,
                 issued, log, acked, notified, mark, overlapped, opens>>

-----------------------------------------------------------------------------
(* What the compactor does to the manifest: FinishCompaction of a job whose *)
(* sources were the oldest L0 SSTs, and writeManifest.                      *)
MergeTables(tabs) == [k \in Keys |-> FirstHit(tabs, k)]

Compact(i) ==
  LET c == Latest.core
      sr == [id |-> Len(c.compacted), sst |-> Len(ssts) + 1]
  IN  /\ "compact" \in Events
      /\ status = "open"
      /\ i \in DOMAIN c.l0
      /\ ssts' = Append(ssts, MergeTables(SubSeq(L0Tables(c), i, Len(c.l0))))
      /\ Land([id |-> manifest.id + 1,
               core |-> [c EXCEPT !.l0 = SubSeq(@, 1, i - 1),
                                  !.l0LastCompacted = c.l0[i],
                                  !.compacted = <<sr>> \o @]])
      /\ UNCHANGED <<walSST, status, stateVars, replayed, taskVars, histVars>>

-----------------------------------------------------------------------------
(* Close *)

(* The WAL task is told to flush once more and return. *)
CloseStart ==
  /\ "close" \in Events
  /\ status = "open"
  /\ closing = "no"
  /\ closing' = "wal"
  /\ mark' = Len(log)
  /\ UNCHANGED <<storeVars, status, stateVars, replayed, w, m, stored, ch, shutdown, issued,
                 log, acked, notified, flushFailed, overlapped, opens>>

(* It has returned, or ctx is done; the memtable task is sent Shutdown. *)
CloseShutdown ==
  /\ status = "open"
  /\ closing = "wal"
  /\ Len(ch) < ChCap
  /\ ch' = Append(ch, "shutdown")
  /\ \/ w[WalTask].pc = "done" /\ closing' = "mem"
     \/ w[WalTask].pc # "done" /\ closing' = "late"
  /\ UNCHANGED <<storeVars, status, stateVars, replayed, w, m, stored, shutdown, histVars>>

(* Both tasks have returned: Close returns nil. *)
CloseDone ==
  /\ status = "open"
  /\ closing = "mem"
  /\ m[MemTask].pc = "done"
  /\ Halt
  /\ UNCHANGED <<storeVars, issued, acked, overlapped, opens>>

-----------------------------------------------------------------------------
WalStep(t) ==
  \/ FreezeWAL(t, FALSE)
  \/ FreezeWAL(t, TRUE)
  \/ FlushImmWAL(t)
  \/ FlushImmWALFails(t)
  \/ PopImmWAL(t)
  \/ FlushImmWALToMemtable(t)
  \/ CheckMemtableSize(t)
  \/ MaybeFreezeMemtable(t)
  \/ SendFlush(t)
  \/ NotifyWALFlushed(t)

MemStep(t) ==
  \/ FlushImmMemtable(t)
  \/ FlushFails(t)
  \/ MoveImmMemtableToL0(t)
  \/ LoadManifest(t)
  \/ MergeManifest(t)
  \/ WriteManifest(t)
  \/ PutManifest(t)
  \/ PutManifestFails(t)

Next ==
  \/ CreateManifest
  \/ OpenManifest
  \/ \E id \in DOMAIN walSST : ReplayWAL(id)
  \/ ReplayDone
  \/ Crash
  \/ \E k \in Keys : WalPut(k)
  \/ \E t \in WalThreads : WalStep(t)
  \/ PollManifest
  \/ ReceiveMsg
  \/ MemTaskExit
  \/ \E t \in MemCallers : FlushMemtableToL0(t)
  \/ \E t \in MemCallers : FlushMemtableFreezes(t)
  \/ \E t \in MemThreads : MemStep(t)
  \/ \E i \in DOMAIN Latest.core.l0 : Compact(i)
  \/ CloseStart
  \/ CloseShutdown
  \/ CloseDone

Spec == Init /\ [][Next]_vars

-----------------------------------------------------------------------------
WalPc == {"idle", "upload", "pop", "apply", "check", "freeze", "send", "notify", "done"}
MemPc == {"idle", "freeze", "upload", "move", "load", "merge", "write", "put", "done"}

ImmWAL == [id : Nat, tab : Table]
MemRef == [tab : Nat, last : Nat]
Manifest == [id : Nat, core : CoreState]
WGoroutine == [pc : WalPc, imm : ImmWAL, tab : Nat, final : BOOLEAN]
MGoroutine(mans) == [pc : MemPc, why : {"poll", "flush", "final"}, imm : MemRef, sst : Nat,
                     man : mans]

TypeOK ==
  /\ walSST \in [DOMAIN walSST -> Table] /\ DOMAIN walSST \subseteq Nat
  /\ ssts \in Seq(Table)
  /\ manifest \in [id : Nat, core : ManifestV1]
  /\ status \in {"down", "replaying", "open", "panicked"}
  /\ wal \in Table
  /\ immWALs \in Seq(ImmWAL)
  /\ kvt \in Seq(Table)
  /\ memtable \in MemRef /\ memtable.tab \in DOMAIN kvt
  /\ immMemtables \in Seq(MemRef)
  /\ core \in CoreState
  /\ replayed \in Nat
  /\ w \in [WalThreads -> WGoroutine]
  /\ m \in [MemThreads -> MGoroutine(Manifest)]
  /\ stored \in Manifest
  /\ ch \in Seq({"flush", "shutdown"})
  /\ shutdown \in BOOLEAN
  /\ closing \in {"no", "wal", "mem", "late"}
  /\ issued \in Nat
  /\ log \in Seq([key : Keys, num : Nat])
  /\ acked \in Table
  /\ notified \subseteq Nat
  /\ mark \in Nat
  /\ flushFailed \in BOOLEAN
  /\ overlapped \in BOOLEAN
  /\ opens \in Nat

(* A write that AwaitWALFlush has acknowledged is found again by the next   *)
(* Open, whatever has been flushed, compacted or lost in a crash since.     *)
Durability == \A k \in Keys : Recovered(k) >= acked[k]

(* A crash leaves a prefix of the writes: the WALs become durable in the    *)
(* order in which they were frozen, and a flush or a compaction changes     *)
(* nothing of what the next Open finds.                                     *)
CrashConsistency == \A k \in Keys : Recovered(k) = View(log, DurableCount, k)

(* A Get at the Committed read level returns nothing that a crash could     *)
(* take back, and misses no acknowledged write.                             *)
CommittedReads ==
  status = "open" => \A k \in Keys : acked[k] <= GetCommitted(k) /\ GetCommitted(k) <= Recovered(k)

(* Successive Committed reads of a key never go back in time. *)
CommittedMonotone ==
  [][status = "open" /\ status' = "open" =>
       \A k \in Keys : GetCommitted(k) <= GetCommitted(k)']_vars

(* Uncommitted: "Clients will see all writes, including those not yet       *)
(* durably committed": a Get at this level sees the key's last write, but   *)
(* for the gap between PopImmWAL and the puts into the memtable, when the   *)
(* entries of that WAL are in neither.                                      *)
UncommittedReads ==
  status = "open" /\ (\A t \in WalThreads : w[t].pc # "apply")
    => \A k \in Keys : GetUncommitted(k) = View(log, Len(log), k)

(* "lastCompactedWalSSTID is the ID of the last ImmutableWAL that has been  *)
(* flushed to Memtable and then to Level0": every write in a WAL up to it,  *)
(* which the next replay will skip, is in the levels of the same manifest.  *)
LastCompactedIsFlushed ==
  \A i \in DOMAIN walSST : i <= Latest.core.lastCompactedWalSSTID =>
    \A k \in Keys : walSST[i][k] <= SSTRead(Latest.core, k)

(* The levels never name an SST that is not in the object store: an SST is  *)
(* uploaded before it enters the writer's L0, and that before a manifest,   *)
(* whatever fails in between, and the merges of the two sides bring back    *)
(* none.                                                                    *)
NoDanglingSST == SSTsOf(Latest.core) \cup SSTsOf(core) \subseteq DOMAIN ssts

(* A WAL SST never changes once it is stored, although WriteSST would       *)
(* overwrite it: no id is given to two WALs, across crashes and failed      *)
(* uploads alike.                                                           *)
WALsImmutable ==
  [][\A i \in DOMAIN walSST : i \in DOMAIN walSST' /\ walSST'[i] = walSST[i]]_vars

(* Every WAL that is not in the levels yet is in the object store or still  *)
(* queued, where a failed upload leaves it, as long as no two calls of      *)
(* FlushWAL have had the same WAL at hand: the one that pops last pops a    *)
(* WAL nobody has stored.                                                   *)
QueuedUntilStored ==
  status = "open" /\ ~overlapped =>
    \A i \in core.lastCompactedWalSSTID + 1 .. core.nextWalSstID - 1 :
      i \in DOMAIN walSST \/ \E j \in DOMAIN immWALs : immWALs[j].id = i

(* No frozen memtable is forgotten: unless the last flush failed, its       *)
(* message is on the way or in memtableFlushNotifierCh, or the flusher that *)
(* received one is still at work, and does not stop before the queue is     *)
(* empty.                                                                   *)
FrozenWillBeFlushed ==
  status = "open" /\ immMemtables # <<>> /\ ~flushFailed =>
    \/ \E i \in DOMAIN ch : ch[i] = "flush"
    \/ \E t \in WalThreads : w[t].pc = "send"
    \/ \E t \in MemThreads : m[t].why = "flush"

(* replayWAL finds memtableFlushNotifierCh full, which nobody reads before  *)
(* Open returns, only when there are more WAL SSTs that are not in the      *)
(* levels than the channel holds messages: WALs that were flushed before a  *)
(* crash, and the messages of earlier processes, take no room in it.        *)
OpenBlocksOnlyWhenFull ==
  status = "replaying" /\ Len(ch) = ChCap /\ (\E i \in DOMAIN walSST : i > replayed)
    => Cardinality({i \in DOMAIN walSST : i > Latest.core.lastCompactedWalSSTID}) > ChCap

(* When the WAL task has returned and has left no WAL behind, every write   *)
(* made before Close was called is durable.                                 *)
CloseFlushes ==
  w[WalTask].pc = "done" /\ immWALs = <<>> => \A k \in Keys : Recovered(k) >= View(log, mark, k)

-----------------------------------------------------------------------------
(* Fairness: the goroutines of the two tasks and of Close are scheduled;    *)
(* select takes each of its ready cases some time; an upload that is tried  *)
(* again and again succeeds some time.  Nothing has to go wrong: no call    *)
(* need fail, and no context expire.  Of the two ways on in Close only the  *)
(* one after the WAL task has returned is sure to be taken.                 *)
WalProgress ==
  \/ FreezeWAL(WalTask, FALSE) \/ FreezeWAL(WalTask, TRUE) \/ PopImmWAL(WalTask)
  \/ FlushImmWALToMemtable(WalTask) \/ CheckMemtableSize(WalTask)
  \/ MaybeFreezeMemtable(WalTask) \/ SendFlush(WalTask) \/ NotifyWALFlushed(WalTask)

MemProgress ==
  \/ FlushImmMemtable(MemTask) \/ MoveImmMemtableToL0(MemTask) \/ LoadManifest(MemTask)
  \/ MergeManifest(MemTask) \/ WriteManifest(MemTask) \/ PutManifest(MemTask)
  \/ MemTaskExit

CloseInTime == w[WalTask].pc = "done" /\ CloseShutdown

Fairness ==
  /\ WF_vars(WalProgress) /\ WF_vars(MemProgress)
  /\ WF_vars(CloseInTime) /\ WF_vars(CloseDone)
  /\ SF_vars(ReceiveMsg) /\ SF_vars(FreezeWAL(WalTask, TRUE))
  /\ SF_vars(FlushImmWAL(WalTask))

FairSpec == Spec /\ Fairness

(* A write with AwaitDurable is acknowledged some time, unless the process  *)
(* ends or Close is called: no failed upload, full channel or busy memtable *)
(* task can leave it waiting for ever.                                      *)
WritesAcknowledged ==
  \A k \in Keys : \A n \in 1..MaxWrites :
    (status = "open" /\ wal[k] = n) ~> (acked[k] >= n \/ status # "open" \/ closing # "no")

(* Close returns nil some time, unless its context expires: the WAL task    *)
(* gets through its last FlushWAL although the channel may be full, the     *)
(* memtable task gets through its queue and its last writeManifestSafely    *)
(* although the compactor takes the manifest id it was about to write, and  *)
(* no failed upload or put holds either of them up.                         *)
CloseReturns == (closing = "wal") ~> (closing = "late" \/ status = "down")

-----------------------------------------------------------------------------
(* What comments and assertions of the code say, and what it does not keep. *)

(* replayWAL's assertion: the WAL SSTs found end right before NextWALID.    *)
ReplayAssertion ==
  (status = "replaying" /\ \A j \in DOMAIN walSST : j <= replayed)
    => replayed + 1 = core.nextWalSstID

=============================================================================
