---------------------------- MODULE CoreDBState ----------------------------
(***************************************************************************)
(* CoreDBState, the part of the database's state that the manifest keeps,  *)
(* its form in the manifest file (slatedb/manifest/codec.go), and the two  *)
(* merges that let writer and compactor each change their own part of it:  *)
(* DBState.RefreshDBState of slatedb/state/db_state.go and                 *)
(* CompactorState.RefreshDBState of slatedb/compaction/state.go.           *)
(*                                                                         *)
(* An SST is a number; 0 is no SST.  l0 is newest first.  A sorted run is  *)
(* its id and one SST number that stands for its list of SSTs.             *)
(***************************************************************************)
EXTENDS Naturals, Sequences

SortedRun == [id : Nat, sst : Nat]

CoreState == [l0 : Seq(Nat), l0LastCompacted : Nat, compacted : Seq(SortedRun),
              nextWalSstID : Nat, lastCompactedWalSSTID : Nat]

NewCoreDBState == [l0 |-> <<>>, l0LastCompacted |-> 0, compacted |-> <<>>,
                   nextWalSstID |-> 1, lastCompactedWalSSTID |-> 0]

(* The manifest file holds the WAL ids as the last one seen and the last    *)
(* one compacted.  The zero ULID, like 0 here, stands for no last compacted *)
(* L0 SST.                                                                  *)
ManifestV1 == [walIdLastSeen : Nat, walIdLastCompacted : Nat, l0LastCompacted : Nat,
               l0 : Seq(Nat), compacted : Seq(SortedRun)]

EncodeManifest(c) ==
  [walIdLastSeen |-> c.nextWalSstID - 1, walIdLastCompacted |-> c.lastCompactedWalSSTID,
   l0LastCompacted |-> c.l0LastCompacted, l0 |-> c.l0, compacted |-> c.compacted]

DecodeManifest(f) ==
  [l0 |-> f.l0, l0LastCompacted |-> f.l0LastCompacted, compacted |-> f.compacted,
   nextWalSstID |-> f.walIdLastSeen + 1, lastCompactedWalSSTID |-> f.walIdLastCompacted]

(* A manifest has an id and a CoreDBState, its file an id and a ManifestV1. *)
ManifestFile(man) == [id |-> man.id, core |-> EncodeManifest(man.core)]
ReadManifest(file) == [id |-> file.id, core |-> DecodeManifest(file.core)]

(* L0 up to, and without, the SST compacted last. *)
L0After(l0, lastCompacted) ==
  LET at == {i \in DOMAIN l0 : l0[i] = lastCompacted}
  IN  IF at = {} THEN l0
      ELSE SubSeq(l0, 1, (CHOOSE i \in at : \A j \in at : i <= j) - 1)

(* The writer keeps its own L0, but for what the compactor has compacted. *)
RefreshDBState(c, compactorState) ==
  [c EXCEPT !.l0 = L0After(c.l0, compactorState.l0LastCompacted),
            !.l0LastCompacted = compactorState.l0LastCompacted,
            !.compacted = compactorState.compacted]

(* Mutant: the compactor keeps its own, older L0. *)
CompactorRefreshKeepsL0(c, writerState) ==
  [c EXCEPT !.lastCompactedWalSSTID = writerState.lastCompactedWalSSTID,
            !.nextWalSstID = writerState.nextWalSstID]

(* The compactor takes the writer's L0, but for what it has compacted. *)
CompactorRefresh(c, writerState) ==
  [c EXCEPT !.l0 = L0After(writerState.l0, c.l0LastCompacted),
            !.lastCompactedWalSSTID = writerState.lastCompactedWalSSTID,
            !.nextWalSstID = writerState.nextWalSstID]

=============================================================================
