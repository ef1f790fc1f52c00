-------------------------- MODULE WritePathProofs --------------------------
(***************************************************************************)
(* Theorems about WritePath, for any keys, goroutines, sizes, bounds and   *)
(* events, from the lemmas of WritePathSteps and WritePathData about every *)
(* step.                                                                   *)
(***************************************************************************)
EXTENDS WritePathSteps, WritePathData

(* Leaves are for Zenon, unless they name another prover. *)
USE Zenon

LEMMA NextInv ==
  ASSUME Inv, SSTInv, LeastElement, SubsetSize, [Next]_vars
  PROVE  Inv' /\ SSTInv'
<1>0. TypeInv
  BY DEF Inv
<1>1. Inv'
  <2>1. ASSUME NEW i \in DOMAIN Latest.core.l0, Compact(i) PROVE Inv'
    BY <1>0, <2>1, CompactIs, CompactStep
  <2>2. CASE \A i \in DOMAIN Latest.core.l0 : ~Compact(i)
    BY <2>2, InvNext
  <2> QED
    BY <2>1, <2>2
<1>2. TypeInv'
  BY <1>1 DEF Inv
<1> QED
  BY <1>0, <1>1, <1>2, SSTNext

-----------------------------------------------------------------------------
Lib == INSTANCE FiniteSetTheorems
LOCAL INSTANCE WellFoundedInduction

LEMMA LibSame ==
  ASSUME NEW S
  PROVE  /\ Cardinality(S) = Lib!Cardinality(S)
         /\ IsFiniteSet(S) <=> Lib!IsFiniteSet(S)
BY DEF Cardinality, IsFiniteSet, Lib!Cardinality, Lib!IsFiniteSet

(* A set of natural numbers that is not empty has a least element. *)
LEMMA Least == LeastElement
<1> SUFFICES ASSUME NEW S \in SUBSET Nat, S # {}
             PROVE  \E x \in S : \A y \in S : x <= y
  BY DEF LeastElement
<1>1. PICK x \in S : \A y \in S : ~(<<y, x>> \in OpToRel(<, Nat))
  BY WFMin, NatLessThanWellFounded
<1>2. \A y \in S : ~(y < x)
  BY <1>1 DEF OpToRel
<1>3. \A y \in S : x <= y
  BY <1>2, SMT
<1> QED
  BY <1>3

(* A set of positions of a sequence has no more elements than it. *)
LEMMA Subsets == SubsetSize
<1> SUFFICES ASSUME NEW n \in Nat, NEW S \in SUBSET (1..n) PROVE Cardinality(S) \in 0..n
  BY DEF SubsetSize
<1>1. n \in Int /\ 1 \in Int
  BY SMT
<1>2. IsFiniteSet(1..n) /\ Cardinality(1..n) = IF 1 > n THEN 0 ELSE n - 1 + 1
  BY <1>1, LibSame, Lib!FS_Interval
<1>3. Cardinality(1..n) = n
  BY <1>2, SMT
<1>4. IsFiniteSet(S) /\ Cardinality(S) <= Cardinality(1..n)
  <2>1. Lib!IsFiniteSet(1..n)
    BY <1>2, LibSame
  <2>2. Lib!IsFiniteSet(S) /\ Lib!Cardinality(S) <= Lib!Cardinality(1..n)
    BY <2>1, Lib!FS_Subset
  <2>3. /\ Cardinality(S) = Lib!Cardinality(S) /\ Cardinality(1..n) = Lib!Cardinality(1..n)
        /\ IsFiniteSet(S) <=> Lib!IsFiniteSet(S)
    BY LibSame
  <2> QED
    BY <2>2, <2>3
<1>5. Cardinality(S) \in Nat
  BY <1>4, LibSame, Lib!FS_CardinalityType
<1> QED
  BY <1>3, <1>4, <1>5, SMT

(* The invariants hold in every state of the system. *)
THEOREM Inductive == Spec => [](Inv /\ SSTInv)
<1>1. Init => Inv /\ SSTInv
  BY InitInv, InitSST
<1>2. Inv /\ SSTInv /\ [Next]_vars => (Inv /\ SSTInv)'
  BY NextInv, Least, Subsets
<1> QED
  BY <1>1, <1>2, PTL DEF Spec

(* Type correctness; that a memtable that is read or filled has a KVTable   *)
(* is part of it.                                                           *)
THEOREM TypeCorrect == Spec => []TypeOK
<1>1. ASSUME Inv PROVE TypeOK
  <2>0. TypeInv /\ memtable.tab \in DOMAIN kvt
    BY <1>1 DEF Inv, RefInv
  <2>1. core \in CoreState
    BY <2>0 DEF TypeInv, ValidCore
  <2>2. ValidManifest \subseteq Manifest
    BY DEF ValidManifest, Manifest, ValidCore
  <2>3. stored \in Manifest
    BY <2>0, <2>2 DEF TypeInv
  <2>4. m \in [MemThreads -> MGoroutine(Manifest)]
    <3>1. MGoroutine(ValidManifest) \subseteq MGoroutine(Manifest)
      BY <2>2 DEF MGoroutine
    <3>2. m \in [MemThreads -> MGoroutine(ValidManifest)]
      BY <2>0 DEF TypeInv
    <3> QED
      BY <3>1, <3>2
  <2> QED
    BY <2>0, <2>1, <2>3, <2>4 DEF TypeInv, TypeOK
<1> QED
  BY <1>1, Inductive, PTL

(* WriteSST overwrites, yet a WAL SST never changes: the WALs that are      *)
(* queued or at hand have ids below the next one, and two with one id, or a *)
(* WAL and a WAL SST with one id, have the same entries.  So an upload may  *)
(* be repeated after any failure, by any number of FlushWALs at once, and a *)
(* new process never gives out the id of a WAL SST.                         *)
THEOREM WALsNeverChange == Spec => WALsImmutable
<1>1. Inv /\ [Next]_vars
        => [\A i \in DOMAIN walSST : i \in DOMAIN walSST' /\ walSST'[i] = walSST[i]]_vars
  BY WALsKept
<1> QED
  BY <1>1, Inductive, PTL DEF Spec, WALsImmutable

(* FlushWAL forgets no WAL: each one is in the levels, in the object store  *)
(* or still queued, unless two FlushWALs have been at the same WAL.         *)
THEOREM WALsQueuedUntilStored == Spec => []QueuedUntilStored
<1>1. ASSUME Inv PROVE QueuedUntilStored
  <2> SUFFICES ASSUME status = "open", ~overlapped,
                      NEW i \in core.lastCompactedWalSSTID + 1 .. core.nextWalSstID - 1
               PROVE  i \in DOMAIN walSST \/ \E j \in DOMAIN immWALs : immWALs[j].id = i
    BY DEF QueuedUntilStored
  <2>1. InTurn /\ core \in CoreState
    BY <1>1 DEF Inv, QueueInv, TypeInv, ValidCore
  <2>2. core.lastCompactedWalSSTID \in Nat /\ core.nextWalSstID \in Nat
    BY <2>1, CoreFields
  <2>3. i \in 1..core.nextWalSstID - 1
    BY <2>2, SMT
  <2> QED
    BY <2>1, <2>3 DEF InTurn
<1> QED
  BY <1>1, Inductive, PTL

(* Unless a flush has failed, a frozen memtable always has a message or a   *)
(* flusher on the way: neither FlushWAL, nor the replay of Open, nor        *)
(* FlushMemtableToL0 leaves one that nothing will flush.                    *)
THEOREM FrozenAlwaysPending == Spec => []FrozenWillBeFlushed
<1>1. ASSUME Inv PROVE FrozenWillBeFlushed
  BY <1>1 DEF Inv, FrozenInv, Pending, FrozenWillBeFlushed
<1> QED
  BY <1>1, Inductive, PTL

(* A manifest, in the store or at hand, and the writer's levels name only   *)
(* SSTs that are in the object store, through every merge of the two sides, *)
(* failed put and crash.                                                    *)
THEOREM LevelsNameStoredSSTs == Spec => []NoDanglingSST
<1>1. ASSUME SSTInv PROVE NoDanglingSST
  BY <1>1 DEF SSTInv, NoDanglingSST
<1> QED
  BY <1>1, Inductive, PTL

-----------------------------------------------------------------------------
(* The WAL SSTs that replayWAL has read; it has sent no more messages.      *)
Replayed ==
  {i \in DOMAIN walSST : Latest.core.lastCompactedWalSSTID < i /\ i <= replayed}

RoomInv ==
  /\ IsFiniteSet(DOMAIN walSST)
  /\ status = "down" => ch = <<>>
  /\ status = "replaying" =>
       /\ Latest.core.lastCompactedWalSSTID <= replayed
       /\ Len(ch) <= Cardinality(Replayed)

(* Sizes of finite sets, from the library. *)
LEMMA Sizes ==
  ASSUME NEW S, IsFiniteSet(S)
  PROVE  /\ Cardinality(S) \in Nat
         /\ \A x : IsFiniteSet(S \cup {x})
         /\ \A x : x \notin S => Cardinality(S \cup {x}) = Cardinality(S) + 1
         /\ \A R : R \subseteq S => IsFiniteSet(R) /\ Cardinality(R) <= Cardinality(S)
<1>1. Lib!IsFiniteSet(S)
  BY LibSame
<1>2. Cardinality(S) \in Nat
  BY <1>1, LibSame, Lib!FS_CardinalityType
<1>3. ASSUME NEW x
      PROVE  /\ IsFiniteSet(S \cup {x})
             /\ x \notin S => Cardinality(S \cup {x}) = Cardinality(S) + 1
  <2>1. /\ Lib!IsFiniteSet(S \cup {x})
        /\ Lib!Cardinality(S \cup {x})
             = IF x \in S THEN Lib!Cardinality(S) ELSE Lib!Cardinality(S) + 1
    BY <1>1, Lib!FS_AddElement
  <2>2. /\ IsFiniteSet(S \cup {x}) <=> Lib!IsFiniteSet(S \cup {x})
        /\ Cardinality(S \cup {x}) = Lib!Cardinality(S \cup {x})
        /\ Cardinality(S) = Lib!Cardinality(S)
    BY LibSame
  <2> QED
    BY <2>1, <2>2
<1>4. ASSUME NEW R, R \subseteq S PROVE IsFiniteSet(R) /\ Cardinality(R) <= Cardinality(S)
  <2>1. R \in SUBSET S
    BY <1>4
  <2>2. Lib!IsFiniteSet(R) /\ Lib!Cardinality(R) <= Lib!Cardinality(S)
    BY <1>1, <2>1, Lib!FS_Subset
  <2>3. /\ IsFiniteSet(R) <=> Lib!IsFiniteSet(R)
        /\ Cardinality(R) = Lib!Cardinality(R)
        /\ Cardinality(S) = Lib!Cardinality(S)
    BY LibSame
  <2> QED
    BY <2>2, <2>3
<1> QED
  BY <1>2, <1>3, <1>4

(* Each WAL that is replayed makes room for the message it may send. *)
LEMMA RoomReplay ==
  ASSUME Inv, RoomInv, NEW id \in DOMAIN walSST, ReplayWAL(id)
  PROVE  RoomInv'
<1> DEFINE last == Latest.core.lastCompactedWalSSTID
<1>1. /\ status = "replaying" /\ id > replayed /\ walSST' = walSST /\ manifest' = manifest
      /\ status' = status /\ replayed' = id /\ (ch' = ch \/ ch' = Append(ch, "flush"))
  BY DEF ReplayWAL, ReplayEntries, storeVars
<1>2. Latest' = Latest
  BY <1>1 DEF Latest
<1>3. /\ IsFiniteSet(DOMAIN walSST) /\ last <= replayed /\ Len(ch) <= Cardinality(Replayed)
      /\ ch \in Seq({"flush", "shutdown"}) /\ replayed \in Nat /\ DOMAIN walSST \subseteq Nat
  BY <1>1 DEF RoomInv, Inv, TypeInv
<1>4. last \in Nat
  BY LatestValid, CoreFields DEF Inv, TypeInv, ValidManifest, ValidCore
<1>5. Len(ch') <= Len(ch) + 1 /\ Len(ch) \in Nat /\ Len(ch') \in Nat
  BY <1>1, <1>3, SMT
<1>6. id \in Nat /\ last < id /\ id \notin Replayed
  <2>1. id \in Nat
    BY <1>3
  <2>2. last < id /\ ~(id <= replayed)
    BY <1>1, <1>3, <1>4, <2>1, SMT
  <2> QED
    BY <2>1, <2>2 DEF Replayed
<1>7. Replayed \cup {id} \subseteq Replayed'
  <2>1. \A i \in DOMAIN walSST : i <= replayed => i <= id
    BY <1>1, <1>3, <1>6, SMT
  <2>2. id <= id
    BY <1>6, SMT
  <2> QED
    BY <1>1, <1>2, <1>6, <2>1, <2>2 DEF Replayed
<1>8. /\ IsFiniteSet(Replayed) /\ IsFiniteSet(Replayed')
  <2>1. Replayed \subseteq DOMAIN walSST /\ Replayed' \subseteq DOMAIN walSST
    BY <1>1 DEF Replayed
  <2> QED
    BY <1>3, <2>1, Sizes
<1>9. Cardinality(Replayed) + 1 <= Cardinality(Replayed')
  <2>1. Cardinality(Replayed \cup {id}) = Cardinality(Replayed) + 1
    BY <1>6, <1>8, Sizes
  <2>2. Cardinality(Replayed \cup {id}) <= Cardinality(Replayed')
    BY <1>7, <1>8, Sizes
  <2> QED
    BY <2>1, <2>2
<1>10. Cardinality(Replayed) \in Nat /\ Cardinality(Replayed') \in Nat
  BY <1>8, Sizes
<1>11. Len(ch') <= Cardinality(Replayed')
  BY <1>3, <1>5, <1>9, <1>10, SMT
<1>12. last <= id
  BY <1>4, <1>6, SMT
<1> QED
  BY <1>1, <1>2, <1>3, <1>11, <1>12 DEF RoomInv

LEMMA RoomOpen ==
  ASSUME Inv, RoomInv, OpenManifest
  PROVE  RoomInv'
<1>1. /\ status = "down" /\ walSST' = walSST /\ ch' = ch /\ status' = "replaying"
      /\ replayed' = Latest.core.lastCompactedWalSSTID
      /\ manifest' = ManifestFile([Latest EXCEPT !.id = @ + 1])
  BY DEF OpenManifest
<1>2. Latest'.core.lastCompactedWalSSTID = Latest.core.lastCompactedWalSSTID
  <2>1. [Latest EXCEPT !.id = @ + 1].core = Latest.core
    BY DEF Latest, ReadManifest
  <2> QED
    BY <1>1, <2>1 DEF Latest, ReadManifest, ManifestFile, DecodeManifest, EncodeManifest
<1>3. Latest.core.lastCompactedWalSSTID \in Nat
  BY LatestValid, CoreFields DEF Inv, TypeInv, ValidManifest, ValidCore
<1>4. IsFiniteSet(DOMAIN walSST') /\ Replayed' \subseteq DOMAIN walSST'
  BY <1>1 DEF RoomInv, Replayed
<1>5. Cardinality(Replayed') \in Nat
  BY <1>4, Sizes
<1>6. Len(ch') <= Cardinality(Replayed') /\ Latest'.core.lastCompactedWalSSTID <= replayed'
  <2>1. ch' = <<>>
    BY <1>1 DEF RoomInv
  <2>2. Len(ch') = 0
    BY <2>1, SMT
  <2> QED
    BY <1>1, <1>2, <1>3, <1>5, <2>2, SMT
<1> QED
  BY <1>1, <1>4, <1>6 DEF RoomInv

(* The other steps: no replay is under way after them. *)
LEMMA RoomRest ==
  ASSUME Inv, RoomInv, [Next]_vars,
         \A id \in DOMAIN walSST : ~ReplayWAL(id), ~OpenManifest
  PROVE  RoomInv'
<1> DEFINE Same == walSST' = walSST /\ status' \in {"open", "panicked"}
           Down == walSST' = walSST /\ status' = "down" /\ ch' = <<>>
<1>0. ASSUME Same PROVE RoomInv'
  BY <1>0 DEF RoomInv
<1>1. ASSUME Down PROVE RoomInv'
  BY <1>1 DEF RoomInv
<1> HIDE DEF Same, Down
<1>2. CASE CreateManifest
  BY <1>1, <1>2 DEF Down, CreateManifest, taskVars, RoomInv
<1>3. CASE Crash \/ CloseDone
  BY <1>1, <1>3 DEF Down, Crash, CloseDone, Halt, storeVars
<1>4. CASE ReplayDone
  BY <1>0, <1>4 DEF Same, ReplayDone, storeVars
<1>5. ASSUME NEW t \in WalThreads, FlushImmWAL(t) \/ FlushImmWALFails(t) PROVE RoomInv'
  <2>1. status' = "open" /\ (walSST' = walSST \/ DOMAIN walSST' = DOMAIN walSST \cup {w[t].imm.id})
    BY <1>5 DEF FlushImmWAL, FlushImmWALFails, StoreWAL
  <2>2. IsFiniteSet(DOMAIN walSST')
    BY <2>1, Sizes DEF RoomInv
  <2> QED
    BY <2>1, <2>2 DEF RoomInv
<1>6. ASSUME NEW t \in WalThreads, WalStep(t), ~FlushImmWAL(t), ~FlushImmWALFails(t) PROVE RoomInv'
  BY <1>0, <1>6 DEF Same, WalStep, FreezeWAL, PopImmWAL, FlushImmWALToMemtable, CheckMemtableSize,
     MaybeFreezeMemtable, SendFlush, NotifyWALFlushed, Panic, storeVars
<1>7. ASSUME NEW t \in MemThreads, MemStep(t) PROVE RoomInv'
  BY <1>0, <1>7 DEF Same, MemStep, FlushImmMemtable, FlushFails, MoveImmMemtableToL0, LoadManifest,
     MergeManifest, WriteManifest, PutManifest, PutManifestFails, Panic, storeVars
<1>8. CASE PollManifest \/ ReceiveMsg \/ MemTaskExit \/ CloseStart \/ CloseShutdown
  BY <1>0, <1>8 DEF Same, PollManifest, ReceiveMsg, MemTaskExit, CloseStart, CloseShutdown, storeVars
<1>9. ASSUME NEW k \in Keys, WalPut(k) PROVE RoomInv'
  BY <1>0, <1>9 DEF Same, WalPut, storeVars
<1>10. ASSUME NEW t \in MemCallers, FlushMemtableToL0(t) \/ FlushMemtableFreezes(t) PROVE RoomInv'
  BY <1>0, <1>10 DEF Same, FlushMemtableToL0, FlushMemtableFreezes, storeVars
<1>11. ASSUME NEW i \in DOMAIN Latest.core.l0, Compact(i) PROVE RoomInv'
  BY <1>0, <1>11 DEF Same, Compact
<1>12. CASE UNCHANGED vars
  <2>1. /\ walSST' = walSST /\ status' = status /\ ch' = ch /\ replayed' = replayed
        /\ manifest' = manifest
    BY <1>12 DEF vars, storeVars, taskVars
  <2>2. Latest' = Latest
    BY <2>1 DEF Latest
  <2> QED
    BY <2>1, <2>2 DEF RoomInv, Replayed
<1> QED
  BY <1>2, <1>3, <1>4, <1>5, <1>6, <1>7, <1>8, <1>9, <1>10, <1>11, <1>12 DEF Next

(* Open can only be held up by the messages of its own replay: replayWAL    *)
(* finds the channel full when more WALs than it holds are not in the       *)
(* levels, and in no other case.                                            *)
THEOREM OpenHasRoom == Spec => []OpenBlocksOnlyWhenFull
<1>1. Init => RoomInv
  <2> SUFFICES ASSUME Init PROVE RoomInv
    OBVIOUS
  <2>1. DOMAIN walSST = {} /\ status = "down" /\ ch = <<>>
    BY DEF Init
  <2>2. IsFiniteSet({})
    BY LibSame, Lib!FS_EmptySet
  <2> QED
    BY <2>1, <2>2 DEF RoomInv
<1>2. Inv /\ RoomInv /\ [Next]_vars => RoomInv'
  BY RoomReplay, RoomOpen, RoomRest
<1>3. ASSUME Inv, RoomInv PROVE OpenBlocksOnlyWhenFull
  <2> DEFINE Live == {i \in DOMAIN walSST : i > Latest.core.lastCompactedWalSSTID}
  <2> SUFFICES ASSUME status = "replaying", Len(ch) = ChCap, NEW id \in DOMAIN walSST, id > replayed
               PROVE  Cardinality(Live) > ChCap
    BY DEF OpenBlocksOnlyWhenFull
  <2>1. /\ Latest.core.lastCompactedWalSSTID <= replayed /\ Len(ch) <= Cardinality(Replayed)
        /\ IsFiniteSet(DOMAIN walSST) /\ replayed \in Nat /\ DOMAIN walSST \subseteq Nat
        /\ ChCap \in Nat
    BY <1>3, BoundsAssumption DEF RoomInv, Inv, TypeInv
  <2>2. Latest.core.lastCompactedWalSSTID \in Nat
    BY <1>3, LatestValid, CoreFields DEF Inv, TypeInv, ValidManifest, ValidCore
  <2>3. id \in Nat
    BY <2>1
  <2>4. id > Latest.core.lastCompactedWalSSTID /\ ~(id <= replayed)
    BY <2>1, <2>2, <2>3, SMT
  <2>5. \A i \in DOMAIN walSST : Latest.core.lastCompactedWalSSTID < i
          => i > Latest.core.lastCompactedWalSSTID
    BY <2>1, <2>2, SMT
  <2>6. Replayed \cup {id} \subseteq Live /\ id \notin Replayed
    BY <2>4, <2>5 DEF Replayed
  <2>7. Live \subseteq DOMAIN walSST /\ Replayed \subseteq DOMAIN walSST
    BY DEF Replayed
  <2>8. IsFiniteSet(Live) /\ IsFiniteSet(Replayed)
    BY <2>1, <2>7, Sizes
  <2>9. /\ Cardinality(Replayed \cup {id}) = Cardinality(Replayed) + 1
        /\ Cardinality(Replayed \cup {id}) <= Cardinality(Live)
        /\ Cardinality(Replayed) \in Nat /\ Cardinality(Live) \in Nat
    BY <2>6, <2>8, Sizes
  <2> HIDE DEF Live
  <2> QED
    BY <2>1, <2>9, SMT
<1> QED
  BY <1>1, <1>2, <1>3, Inductive, PTL DEF Spec

=============================================================================
