--------------------------- MODULE ManifestStore ---------------------------
(***************************************************************************)
(* The manifest files of one database in the object store, and the         *)
(* clients that read and write them: StoredManifest and FenceableManifest  *)
(* of slatedb/store/manifest_store.go over putIfNotExists, get and list of *)
(* slatedb/store/object_store.go.                                          *)
(*                                                                         *)
(* Each call to the bucket is a step of its own, because nothing in the    *)
(* code serialises two clients: a listing and the get that follows it, the *)
(* Exists of putIfNotExists and its Upload.  A client is one handle        *)
(* (writer or compactor) in one process; another client of the same role   *)
(* is a second process, or the same process restarted while an upload of   *)
(* its former self is still under way.                                     *)
(***************************************************************************)
EXTENDS Naturals

CONSTANTS Writers,      \* handles made by NewWriterFenceableManifest
          Compactors,   \* handles made by NewCompactorFenceableManifest
          MaxId         \* bound on the manifest ids a behaviour writes

ASSUME RolesAssumption == Writers \cap Compactors = {}
ASSUME MaxIdAssumption == MaxId \in Nat

Clients == Writers \cup Compactors

VARIABLES manifests,  \* manifest id -> contents, for the ids in the bucket
          pc,         \* where each client is
          sid,        \* StoredManifest.id
          stored,     \* StoredManifest.manifest
          localEpoch, \* FenceableManifest.localEpoch
          listed,     \* latest id that the client's listing returned
          pending,    \* the put under way: its id, contents and purpose
          overwrote   \* history: an Upload has replaced an existing manifest

vars == <<manifests, pc, sid, stored, localEpoch, listed, pending, overwrote>>

(* The database state itself is opaque here: what the protocol looks at is  *)
(* the two epochs.                                                          *)
Manifest == [writer : Nat, compactor : Nat]

Put == [id : Nat, manifest : Manifest, why : {"create", "bump", "update"}]

(* Where a client is when none of its calls is under way. *)
Resting == {"closed", "idle", "panicked"}

PCs == Resting \cup {"opening", "create", "bump", "refreshing", "exists", "upload"}

NoManifest == [writer |-> 0, compactor |-> 0]

NoPut == [id |-> 0, manifest |-> NoManifest, why |-> "update"]

TypeOK ==
  /\ manifests \in [DOMAIN manifests -> Manifest]
  /\ DOMAIN manifests \subseteq Nat
  /\ pc \in [Clients -> PCs]
  /\ sid \in [Clients -> Nat]
  /\ stored \in [Clients -> Manifest]
  /\ localEpoch \in [Clients -> Nat]
  /\ listed \in [Clients -> Nat]
  /\ pending \in [Clients -> Put]
  /\ overwrote \in BOOLEAN

Init ==
  /\ manifests = [i \in {} |-> 0]
  /\ pc = [c \in Clients |-> "closed"]
  /\ sid = [c \in Clients |-> 0]
  /\ stored = [c \in Clients |-> NoManifest]
  /\ localEpoch = [c \in Clients |-> 0]
  /\ listed = [c \in Clients |-> 0]
  /\ pending = [c \in Clients |-> NoPut]
  /\ overwrote = FALSE

-----------------------------------------------------------------------------
(* Mutant: the first id of the sorted listing is taken for the latest. *)
IsLatestFirst(id) ==
  /\ id \in DOMAIN manifests
  /\ \A i \in DOMAIN manifests : id <= i

(* listManifests sorts the ids it finds: the latest is the greatest. *)
IsLatest(id) ==
  /\ id \in DOMAIN manifests
  /\ \A i \in DOMAIN manifests : i <= id

Epoch(c, m) == IF c \in Writers THEN m.writer ELSE m.compactor

(* Mutants: the bump counts down; a writer's bump starts from a new         *)
(* manifest and so forgets the compactor's epoch.                           *)
BumpEpochDown(c, m) ==
  IF c \in Writers THEN [m EXCEPT !.writer = @ - 1] ELSE [m EXCEPT !.compactor = @ - 1]

BumpEpochResets(c, m) ==
  IF c \in Writers THEN [writer |-> m.writer + 1, compactor |-> 0]
                   ELSE [m EXCEPT !.compactor = @ + 1]

BumpEpoch(c, m) ==
  IF c \in Writers THEN [m EXCEPT !.writer = @ + 1]
                   ELSE [m EXCEPT !.compactor = @ + 1]

(* checkEpoch: nil, ErrFenced, or a panic. *)
Fenced(c, m) == localEpoch[c] < Epoch(c, m)
EpochPanic(c, m) == localEpoch[c] > Epoch(c, m)

Goto(c, l) == pc' = [pc EXCEPT ![c] = l]

(* The client stops and forgets what it held, as after a failed open. *)
Forget(c) ==
  /\ Goto(c, "closed")
  /\ sid' = [sid EXCEPT ![c] = 0]
  /\ stored' = [stored EXCEPT ![c] = NoManifest]
  /\ localEpoch' = [localEpoch EXCEPT ![c] = 0]
  /\ listed' = [listed EXCEPT ![c] = 0]
  /\ pending' = [pending EXCEPT ![c] = NoPut]

-----------------------------------------------------------------------------
(* LoadStoredManifest, its listing.  No manifest yet: a writer creates the  *)
(* first one (getManifest), a compactor fails to open.                      *)
OpenList(c) ==
  /\ pc[c] = "closed"
  /\ \/ \E id \in DOMAIN manifests :
          /\ IsLatest(id)
          /\ listed' = [listed EXCEPT ![c] = id]
          /\ Goto(c, "opening")
     \/ /\ DOMAIN manifests = {}
        /\ c \in Writers
        /\ Goto(c, "create")
        /\ UNCHANGED listed
  /\ UNCHANGED <<manifests, sid, stored, localEpoch, pending, overwrote>>

(* LoadStoredManifest, its get. *)
OpenGet(c) ==
  /\ pc[c] = "opening"
  /\ sid' = [sid EXCEPT ![c] = listed[c]]
  /\ stored' = [stored EXCEPT ![c] = manifests[listed[c]]]
  /\ listed' = [listed EXCEPT ![c] = 0]
  /\ Goto(c, "bump")
  /\ UNCHANGED <<manifests, localEpoch, pending, overwrote>>

(* NewStoredManifest puts manifest 1 with both epochs zero. *)
Create(c) ==
  /\ pc[c] = "create"
  /\ MaxId >= 1
  /\ pending' = [pending EXCEPT ![c] =
                   [id |-> 1, manifest |-> NoManifest, why |-> "create"]]
  /\ Goto(c, "exists")
  /\ UNCHANGED <<manifests, sid, stored, localEpoch, listed, overwrote>>

(* Mutant: the id after the next. *)
BumpSkipsId(c) ==
  /\ pc[c] = "bump"
  /\ sid[c] < MaxId
  /\ pending' = [pending EXCEPT ![c] =
                   [id |-> sid[c] + 2, manifest |-> BumpEpoch(c, stored[c]),
                    why |-> "bump"]]
  /\ Goto(c, "exists")
  /\ UNCHANGED <<manifests, sid, stored, localEpoch, listed, overwrote>>

(* NewWriterFenceableManifest, NewCompactorFenceableManifest: put the next  *)
(* id with the role's epoch incremented.                                    *)
Bump(c) ==
  /\ pc[c] = "bump"
  /\ sid[c] < MaxId
  /\ pending' = [pending EXCEPT ![c] =
                   [id |-> sid[c] + 1, manifest |-> BumpEpoch(c, stored[c]),
                    why |-> "bump"]]
  /\ Goto(c, "exists")
  /\ UNCHANGED <<manifests, sid, stored, localEpoch, listed, overwrote>>

(* Refresh, its listing. *)
RefreshList(c) ==
  /\ pc[c] = "idle"
  /\ \E id \in DOMAIN manifests :
       /\ IsLatest(id)
       /\ listed' = [listed EXCEPT ![c] = id]
  /\ Goto(c, "refreshing")
  /\ UNCHANGED <<manifests, sid, stored, localEpoch, pending, overwrote>>

(* Refresh, its get, and the checkEpoch of DbState.  A fenced handle keeps  *)
(* the manifest it has just read, so that its next call is fenced as well.  *)
RefreshGet(c) ==
  /\ pc[c] = "refreshing"
  /\ sid' = [sid EXCEPT ![c] = listed[c]]
  /\ stored' = [stored EXCEPT ![c] = manifests[listed[c]]]
  /\ Goto(c, IF EpochPanic(c, manifests[listed[c]]) THEN "panicked" ELSE "idle")
  /\ listed' = [listed EXCEPT ![c] = 0]
  /\ UNCHANGED <<manifests, localEpoch, pending, overwrote>>

(* UpdateDBState: checkEpoch against the manifest held, then updateDBState, *)
(* which keeps both epochs of that manifest.  A fenced handle returns       *)
(* ErrFenced and writes nothing.                                            *)
UpdateDBState(c) ==
  /\ pc[c] = "idle"
  /\ sid[c] < MaxId
  /\ ~Fenced(c, stored[c])
  /\ IF EpochPanic(c, stored[c])
     THEN Goto(c, "panicked") /\ UNCHANGED pending
     ELSE /\ pending' = [pending EXCEPT ![c] =
                           [id |-> sid[c] + 1,
                            manifest |-> stored[c],
                            why |-> "update"]]
          /\ Goto(c, "exists")
  /\ UNCHANGED <<manifests, sid, stored, localEpoch, listed, overwrote>>

(* What an error of a put leaves behind: an open that failed, or a handle   *)
(* whose id and manifest are as before the call.                            *)
PutFails(c) ==
  \/ /\ pending[c].why # "update"
     /\ Forget(c)
  \/ /\ pending[c].why = "update"
     /\ Goto(c, "idle")
     /\ pending' = [pending EXCEPT ![c] = NoPut]
     /\ UNCHANGED <<sid, stored, localEpoch, listed>>

(* Mutant: an epoch bump takes ErrAlreadyExists for success. *)
ExistsIgnored(c) ==
  /\ pc[c] = "exists"
  /\ \/ /\ pending[c].id \in DOMAIN manifests
        /\ pending[c].why # "bump"
        /\ PutFails(c)
     \/ /\ pending[c].id \in DOMAIN manifests
        /\ pending[c].why = "bump"
        /\ sid' = [sid EXCEPT ![c] = pending[c].id]
        /\ stored' = [stored EXCEPT ![c] = pending[c].manifest]
        /\ localEpoch' = [localEpoch EXCEPT ![c] = Epoch(c, pending[c].manifest)]
        /\ Goto(c, "idle")
        /\ UNCHANGED <<listed, pending>>
     \/ /\ pending[c].id \notin DOMAIN manifests
        /\ Goto(c, "upload")
        /\ UNCHANGED <<sid, stored, localEpoch, listed, pending>>
  /\ UNCHANGED <<manifests, overwrote>>

(* putIfNotExists, its Exists call.  ErrAlreadyExists when the id is there. *)
Exists(c) ==
  /\ pc[c] = "exists"
  /\ \/ /\ pending[c].id \in DOMAIN manifests
        /\ PutFails(c)
     \/ /\ pending[c].id \notin DOMAIN manifests
        /\ Goto(c, "upload")
        /\ UNCHANGED <<sid, stored, localEpoch, listed, pending>>
  /\ UNCHANGED <<manifests, overwrote>>

(* The object lands in the bucket, over whatever is there. *)
Land(c) ==
  /\ manifests' = [i \in DOMAIN manifests \cup {pending[c].id} |->
                     IF i = pending[c].id THEN pending[c].manifest ELSE manifests[i]]
  /\ overwrote' = (overwrote \/ pending[c].id \in DOMAIN manifests)

(* putIfNotExists, its Upload.  updateManifest then moves the handle to the *)
(* new id; a handle that has just bumped its epoch is open, one that has    *)
(* just created manifest 1 goes on to bump.                                 *)
Upload(c) ==
  /\ pc[c] = "upload"
  /\ Land(c)
  /\ sid' = [sid EXCEPT ![c] = pending[c].id]
  /\ stored' = [stored EXCEPT ![c] = pending[c].manifest]
  /\ localEpoch' = IF pending[c].why = "bump"
                   THEN [localEpoch EXCEPT ![c] = Epoch(c, pending[c].manifest)]
                   ELSE localEpoch
  /\ Goto(c, IF pending[c].why = "create" THEN "bump" ELSE "idle")
  /\ pending' = [pending EXCEPT ![c] = NoPut]
  /\ UNCHANGED listed

(* Upload returns ErrRetryable: the object may have landed all the same. *)
UploadError(c) ==
  /\ pc[c] = "upload"
  /\ \/ Land(c)
     \/ UNCHANGED <<manifests, overwrote>>
  /\ PutFails(c)

(* Any other bucket call fails with ErrRetryable: Refresh and UpdateDBState *)
(* leave the handle as it was, an open fails.                               *)
CallError(c) ==
  /\ \/ /\ pc[c] = "opening"
        /\ Forget(c)
     \/ /\ pc[c] = "refreshing"
        /\ Goto(c, "idle")
        /\ listed' = [listed EXCEPT ![c] = 0]
        /\ UNCHANGED <<sid, stored, localEpoch, pending>>
     \/ /\ pc[c] = "exists"
        /\ PutFails(c)
  /\ UNCHANGED <<manifests, overwrote>>

(* The process that holds the handle closes it, or crashes at any point. *)
Crash(c) ==
  /\ pc[c] # "closed"
  /\ Forget(c)
  /\ UNCHANGED <<manifests, overwrote>>

Next ==
  \E c \in Clients :
    \/ OpenList(c) \/ OpenGet(c) \/ Create(c) \/ Bump(c)
    \/ RefreshList(c) \/ RefreshGet(c) \/ UpdateDBState(c)
    \/ Exists(c) \/ Upload(c) \/ UploadError(c) \/ CallError(c) \/ Crash(c)

Spec == Init /\ [][Next]_vars

-----------------------------------------------------------------------------
(* Properties *)

(* A client whose open has completed: it has a local epoch. *)
IsOpen(c) == localEpoch[c] # 0

(* The ids in the bucket are 1..n: a put goes to the id after the one its   *)
(* handle read, so that listing the greatest id finds the last update even  *)
(* when uploads race (updateManifest, "the next consecutive id").           *)
IdsConsecutive ==
  \A i \in DOMAIN manifests : i >= 1 /\ \A j \in 1 .. i : j \in DOMAIN manifests

(* As long as no Upload has replaced an existing manifest, fencing works:   *)
(* along the ids neither epoch ever decreases.  A writer that was fenced    *)
(* would write its old epoch after the new one (checkEpoch and              *)
(* putIfNotExists together prevent it).                                     *)
EpochsMonotone ==
  ~overwrote =>
    \A i, j \in DOMAIN manifests :
      i <= j => /\ manifests[i].writer <= manifests[j].writer
                /\ manifests[i].compactor <= manifests[j].compactor

(* As long as no Upload has replaced an existing manifest, no two open      *)
(* handles of one role hold the same epoch: at most one of them can pass    *)
(* checkEpoch against the latest manifest.                                  *)
EpochsUnique ==
  ~overwrote =>
    \A c, d \in Clients :
      /\ c # d
      /\ (c \in Writers) = (d \in Writers)
      /\ IsOpen(c) /\ IsOpen(d)
      => localEpoch[c] # localEpoch[d]

(* As long as no Upload has replaced an existing manifest, the panic of     *)
(* checkEpoch ("the stored epoch is lower than the local epoch") is not     *)
(* reached.                                                                 *)
NoEpochPanic == ~overwrote => \A c \in Clients : pc[c] # "panicked"
=============================================================================
