-------------------------- MODULE CompactionProofs --------------------------
(***************************************************************************)
(* Proofs about Compaction, for any thresholds, bounds and events.         *)
(*                                                                         *)
(* The argument.  Writer and compactor change a stack of SSTs at different *)
(* ends of L0: the writer puts SSTs on top, the compactor takes them from  *)
(* the bottom.  So of the three states around, the writer's, the latest    *)
(* manifest's and the compactor's, the L0 of each is a stretch of the L0   *)
(* of the one before, and what is missing at its bottom has been compacted *)
(* in the later one.  Either merge, and either side's manifest over the    *)
(* other's, keeps this (Linked of CoreProofs).                             *)
(***************************************************************************)
EXTENDS Compaction, CoreProofs

(* Leaves are for Zenon, unless they name another prover. *)
USE Zenon

TypeInv ==
  /\ ssts \in Seq(SUBSET (1..MaxBatches))
  /\ manifest \in [id : Nat, core : ManifestV1]
  /\ opens \in Nat
  /\ core \in ValidCore
  /\ w \in [pc : WriterPc, stored : ValidManifest, put : ValidManifest]
  /\ o \in [pc : CompactorPc, stored : ValidManifest, put : ValidManifest]
  /\ state \in ValidCore
  /\ compactions \in [DOMAIN compactions -> Seq(Nat)] /\ DOMAIN compactions \subseteq Nat
  /\ workers \subseteq Worker
  /\ resultCh \in Seq(SortedRun)
  /\ stopped \in BOOLEAN
  /\ closeSent \in BOOLEAN

Running == o.pc \in {"loop", "load", "write", "put", "stopping", "done"}
Starting == o.pc \in {"bump", "bumpPut"}

(* What the orchestrator has, or will have. *)
Compactor == IF Starting THEN o.stored.core ELSE IF Running THEN state ELSE Latest.core

(* A pending put holds what its goroutine still has. *)
PutInv ==
  /\ w.pc = "put" => w.put.core = core
  /\ o.pc = "put" => o.put.core = state
  /\ o.pc = "bumpPut" => o.put.core = o.stored.core

StackInv ==
  /\ w.pc = "down" => o.pc = "down" /\ core = NewCoreDBState
  /\ ~Running => state = NewCoreDBState
  /\ Stacked(ssts, Latest.core)
  /\ w.pc # "down" => Linked(ssts, core, Latest.core, Compactor)

(* What a finished job has written: the batches of its sources. *)
Merged(t, out, sources) == out \in DOMAIN t /\ t[out] = HeldFrom(t, sources, 1)

(* The one compaction that may be submitted, and its job. *)
JobInv ==
  /\ ~Running => compactions = NoCompactions
  /\ DOMAIN compactions \subseteq {NextSortedRunID(state)}
  /\ \A d \in DOMAIN compactions : compactions[d] # <<>>
  /\ \A x \in workers :
       /\ x.dest \in DOMAIN compactions
       /\ x.sources = compactions[x.dest]
       /\ x.out = 0 \/ (x.pc = "send" /\ Merged(ssts, x.out, x.sources))
       /\ resultCh = <<>>
       /\ \A y \in workers : x = y
  /\ Len(resultCh) <= 1
  /\ resultCh # <<>> =>
       /\ resultCh[1].id \in DOMAIN compactions
       /\ resultCh[1].sst = 0 \/ Merged(ssts, resultCh[1].sst, compactions[resultCh[1].id])

IInv == TypeInv /\ PutInv /\ StackInv /\ SourcesAreOldest /\ JobInv

-----------------------------------------------------------------------------
(* Types *)

LEMMA TypeInvTypes ==
  ASSUME TypeInv
  PROVE  /\ ssts \in Seq(SUBSET Nat)
         /\ core \in CoreState
         /\ state \in CoreState
         /\ w.pc \in WriterPc /\ w.stored \in ValidManifest /\ w.put \in ValidManifest
         /\ o.pc \in CompactorPc /\ o.stored \in ValidManifest /\ o.put \in ValidManifest
<1>1. ssts \in Seq(SUBSET (1..MaxBatches)) => ssts \in Seq(SUBSET Nat)
  <2>1. SUBSET (1..MaxBatches) \subseteq SUBSET Nat
    BY ParametersAssumption, SMT
  <2> QED
    BY <2>1, SMT
<1> QED
  BY <1>1 DEF TypeInv, ValidCore

LEMMA NewValid ==
  /\ NewCoreDBState \in ValidCore
  /\ NoManifest \in ValidManifest
<1>1. 0 \in Nat
  BY SMT
<1> QED
  BY <1>1, NewCoreValid DEF NoManifest, ValidManifest

LEMMA LatestValid ==
  ASSUME TypeInv
  PROVE  Latest \in ValidManifest /\ Latest.core \in ValidCore /\ Latest.core \in CoreState
<1>1. manifest \in [id : Nat, core : ManifestV1]
  BY DEF TypeInv
<1>2. Latest \in ValidManifest
  BY <1>1, ReadValid DEF Latest
<1> QED
  BY <1>2, ValidManifestTypes

(* What a reader finds after an upload. *)
LEMMA LandIs ==
  ASSUME TypeInv, NEW man \in ValidManifest, Land(man)
  PROVE  /\ manifest' \in [id : Nat, core : ManifestV1]
         /\ Latest' = man \/ Latest' = Latest
<1>1. CASE manifest' = ManifestFile(man)
  BY <1>1, FileRoundTrip DEF Latest
<1>2. CASE manifest' = manifest
  BY <1>2 DEF TypeInv, Latest
<1> QED
  BY <1>1, <1>2 DEF Land

LEMMA LatestSame ==
  ASSUME UNCHANGED manifest
  PROVE  Latest' = Latest
BY DEF Latest

LEMMA CompactorType ==
  ASSUME TypeInv
  PROVE  Compactor \in CoreState
BY TypeInvTypes, LatestValid, ValidManifestTypes DEF Compactor

(* A goroutine that has been moved on. *)
LEMMA AtTypes ==
  ASSUME NEW P, NEW pc \in P, NEW stored \in ValidManifest
  PROVE  /\ At(pc, stored) \in [pc : P, stored : ValidManifest, put : ValidManifest]
         /\ At(pc, stored).pc = pc
         /\ At(pc, stored).stored = stored
BY NewValid DEF At

LEMMA PuttingTypes ==
  ASSUME NEW P, NEW c \in [pc : P, stored : ValidManifest, put : ValidManifest], NEW pc \in P,
         NEW contents \in ValidCore
  PROVE  /\ Putting(c, pc, contents) \in [pc : P, stored : ValidManifest, put : ValidManifest]
         /\ Putting(c, pc, contents).pc = pc
         /\ Putting(c, pc, contents).put.core = contents
         /\ Putting(c, pc, contents).stored = c.stored
<1>1. c.stored.id + 1 \in Nat
  <2>1. c.stored.id \in Nat
    BY DEF ValidManifest
  <2> QED
    BY <2>1, SMT
<1>2. [id |-> c.stored.id + 1, core |-> contents] \in ValidManifest
  BY <1>1 DEF ValidManifest
<1> DEFINE m == [id |-> c.stored.id + 1, core |-> contents]
<1>3. m.core = contents
  OBVIOUS
<1> HIDE DEF m
<1>4. Putting(c, pc, contents) = [c EXCEPT !.pc = pc, !.put = m]
  BY DEF Putting, m
<1> QED
  BY <1>2, <1>3, <1>4 DEF m

-----------------------------------------------------------------------------
(* What the steps of one side leave alone *)

(* The sources of a submitted compaction: the SSTs of the compactor's L0    *)
(* from some place on, all in the object store.                             *)
LEMMA SourcesAre ==
  ASSUME IInv, NEW d \in DOMAIN compactions
  PROVE  /\ Running
         /\ w.pc # "down"
         /\ Stacked(ssts, state)
         /\ d = NextSortedRunID(state)
         /\ \E k \in 1..Len(state.l0) : compactions[d] = SubSeq(state.l0, k, Len(state.l0))
         /\ compactions[d] \in Seq(Nat)
         /\ \A i \in 1..Len(compactions[d]) : compactions[d][i] \in DOMAIN ssts
<1> DEFINE l0 == state.l0
           src == compactions[d]
<1>0. TypeInv /\ StackInv /\ SourcesAreOldest /\ JobInv
  BY DEF IInv
<1>1. Running
  BY <1>0 DEF JobInv, NoCompactions
<1>2. w.pc # "down"
  BY <1>0, <1>1 DEF StackInv, Running
<1>3. ~Starting
  BY <1>1 DEF Starting, Running
<1>4. Stacked(ssts, state)
  BY <1>0, <1>1, <1>2, <1>3 DEF StackInv, Linked, Compactor
<1>5. d = NextSortedRunID(state) /\ src # <<>>
  BY <1>0 DEF JobInv
<1>6. l0 \in Seq(Nat)
  BY <1>0, TypeInvTypes, CoreFields
<1>7. PICK n \in 0..Len(l0) : src = SubSeq(l0, n + 1, Len(l0))
  BY <1>0 DEF SourcesAreOldest
<1> HIDE DEF l0, src
<1>8. n + 1 \in 1..Len(l0)
  <2>1. n = Len(l0) => src = <<>>
    BY <1>6, <1>7, SMT
  <2> QED
    BY <1>5, <1>6, <1>7, <2>1, SMT
<1>9. src \in Seq(Nat)
  BY <1>0 DEF TypeInv, src
<1>10. ASSUME NEW i \in 1..Len(src) PROVE src[i] \in DOMAIN ssts
  <2>1. i + n \in DOMAIN l0 /\ src[i] = l0[i + n]
    BY <1>6, <1>7, <1>8, SMTT(30)
  <2>2. \A m \in DOMAIN l0 : l0[m] \in DOMAIN ssts
    BY <1>4 DEF Stacked, Chain, l0
  <2> QED
    BY <2>1, <2>2
<1>11. \E k \in 1..Len(l0) : src = SubSeq(l0, k, Len(l0))
  BY <1>7, <1>8
<1> QED
  BY <1>1, <1>2, <1>4, <1>5, <1>9, <1>10, <1>11 DEF l0, src

(* A new SST does not change what a job has written. *)
LEMMA MergedAppend ==
  ASSUME NEW t \in Seq(SUBSET Nat), NEW S \in SUBSET Nat, NEW out, NEW s \in Seq(Nat),
         \A i \in 1..Len(s) : s[i] \in DOMAIN t, Merged(t, out, s)
  PROVE  Merged(Append(t, S), out, s)
<1> DEFINE u == Append(t, S)
<1>1. \A n \in DOMAIN t : n \in DOMAIN u /\ u[n] = t[n]
  BY SMT
<1> HIDE DEF u
<1>2. {u[s[i]] : i \in 1..Len(s)} = {t[s[i]] : i \in 1..Len(s)}
  BY <1>1, SMT
<1>3. HeldFrom(u, s, 1) = HeldFrom(t, s, 1)
  BY <1>2 DEF HeldFrom
<1>4. out \in DOMAIN t /\ t[out] = HeldFrom(t, s, 1)
  BY DEF Merged
<1>5. out \in DOMAIN u /\ u[out] = HeldFrom(u, s, 1)
  BY <1>1, <1>3, <1>4
<1> QED
  BY <1>5 DEF Merged, u

(* The compactions and their jobs in a step that does not touch them. *)
LEMMA JobFrame ==
  ASSUME IInv, UNCHANGED <<state, compactions, workers, resultCh>>, Running' <=> Running,
         \/ UNCHANGED ssts
         \/ \E S \in SUBSET Nat : ssts' = Append(ssts, S)
  PROVE  SourcesAreOldest' /\ JobInv'
<1>0. TypeInv /\ StackInv /\ SourcesAreOldest /\ JobInv
  BY DEF IInv
<1>1. SourcesAreOldest'
  BY <1>0 DEF SourcesAreOldest
<1>2. ASSUME NEW out, NEW d \in DOMAIN compactions, Merged(ssts, out, compactions[d])
      PROVE  Merged(ssts', out, compactions[d])
  <2>1. CASE UNCHANGED ssts
    BY <1>2, <2>1
  <2>2. CASE \E S \in SUBSET Nat : ssts' = Append(ssts, S)
    <3>1. PICK S \in SUBSET Nat : ssts' = Append(ssts, S)
      BY <2>2
    <3>2. ssts \in Seq(SUBSET Nat)
      BY <1>0, TypeInvTypes
    <3>3. /\ compactions[d] \in Seq(Nat)
          /\ \A i \in 1..Len(compactions[d]) : compactions[d][i] \in DOMAIN ssts
      BY SourcesAre
    <3>4. Merged(Append(ssts, S), out, compactions[d])
      BY <1>2, <3>2, <3>3, MergedAppend
    <3> QED
      BY <3>1, <3>4
  <2> QED
    BY <2>1, <2>2
<1>3. ASSUME NEW x \in workers'
      PROVE  /\ x.dest \in DOMAIN compactions'
             /\ x.sources = compactions'[x.dest]
             /\ x.out = 0 \/ (x.pc = "send" /\ Merged(ssts', x.out, x.sources))
             /\ resultCh' = <<>>
             /\ \A y \in workers' : x = y
  <2>1. /\ x.dest \in DOMAIN compactions
        /\ x.sources = compactions[x.dest]
        /\ x.out = 0 \/ (x.pc = "send" /\ Merged(ssts, x.out, x.sources))
        /\ resultCh = <<>>
        /\ \A y \in workers : x = y
    BY <1>0 DEF JobInv
  <2> QED
    BY <1>2, <2>1
<1>4. resultCh' # <<>> =>
        /\ resultCh'[1].id \in DOMAIN compactions'
        /\ \/ resultCh'[1].sst = 0
           \/ Merged(ssts', resultCh'[1].sst, compactions'[resultCh'[1].id])
  <2>1. resultCh # <<>> =>
          /\ resultCh[1].id \in DOMAIN compactions
          /\ resultCh[1].sst = 0 \/ Merged(ssts, resultCh[1].sst, compactions[resultCh[1].id])
    BY <1>0 DEF JobInv
  <2> QED
    BY <1>2, <2>1
<1>5. /\ ~Running => compactions = NoCompactions
      /\ DOMAIN compactions \subseteq {NextSortedRunID(state)}
      /\ \A d \in DOMAIN compactions : compactions[d] # <<>>
      /\ Len(resultCh) <= 1
  BY <1>0 DEF JobInv
<1>6. /\ ~Running' => compactions' = NoCompactions
      /\ DOMAIN compactions' \subseteq {NextSortedRunID(state')}
      /\ \A d \in DOMAIN compactions' : compactions'[d] # <<>>
      /\ Len(resultCh') <= 1
  BY <1>5
<1>7. JobInv'
  BY <1>3, <1>4, <1>6 DEF JobInv, NextSortedRunID
<1> QED
  BY <1>1, <1>7

LEMMA CompactorSame ==
  ASSUME UNCHANGED <<o, state>>
  PROVE  /\ Running' <=> Running
         /\ Starting' <=> Starting
         /\ Compactor' = IF Starting \/ Running THEN Compactor ELSE Latest'.core
BY DEF Running, Starting, Compactor

(* A step of the writer, whatever it does to its own state and the          *)
(* manifest.                                                                *)
LEMMA WriterSide ==
  ASSUME IInv, UNCHANGED <<opens, compactorVars>>, w.pc # "down",
         \/ UNCHANGED ssts
         \/ \E S \in SUBSET (1..MaxBatches) : ssts' = Append(ssts, S),
         manifest' \in [id : Nat, core : ManifestV1],
         core' \in ValidCore,
         w' \in [pc : WriterPc, stored : ValidManifest, put : ValidManifest],
         w'.pc # "down",
         w'.pc = "put" => w'.put.core = core',
         Linked(ssts', core', Latest'.core, Compactor)
  PROVE  IInv'
<1>0. TypeInv /\ PutInv /\ StackInv
  BY DEF IInv
<1>1. UNCHANGED <<opens, o, state, compactions, workers, resultCh, stopped, closeSent>>
  BY DEF compactorVars, execVars
<1>2. ssts' \in Seq(SUBSET (1..MaxBatches))
  <2>1. ssts \in Seq(SUBSET (1..MaxBatches))
    BY <1>0 DEF TypeInv
  <2>2. \A S \in SUBSET (1..MaxBatches) : Append(ssts, S) \in Seq(SUBSET (1..MaxBatches))
    BY <2>1, SMT
  <2> QED
    BY <2>1, <2>2
<1>3. TypeInv'
  BY <1>0, <1>1, <1>2 DEF TypeInv
<1>4. PutInv'
  BY <1>0, <1>1 DEF PutInv
<1>5. /\ Running' <=> Running
      /\ Compactor' = IF Starting \/ Running THEN Compactor ELSE Latest'.core
  BY <1>1, CompactorSame
<1>6. /\ ssts' \in Seq(SUBSET Nat)
      /\ core' \in CoreState
      /\ Latest'.core \in CoreState
      /\ Compactor \in CoreState
  <2>1. Latest'.core \in CoreState
    <3>1. manifest'.core \in ManifestV1
      OBVIOUS
    <3>2. Latest'.core = DecodeManifest(manifest'.core)
      BY DEF Latest, ReadManifest
    <3> QED
      BY <3>1, <3>2, DecodedValid DEF ValidCore
  <2>2. SUBSET (1..MaxBatches) \subseteq SUBSET Nat
    BY ParametersAssumption, SMT
  <2>3. ssts' \in Seq(SUBSET Nat)
    BY <1>2, <2>2, SMT
  <2> QED
    BY <1>0, <2>1, <2>3, CompactorType DEF ValidCore
<1>7. Linked(ssts', core', Latest'.core, Compactor')
  BY <1>5, <1>6, LinkedCompactorStart
<1>8. StackInv'
  <2>1. ~Running => state = NewCoreDBState
    BY <1>0 DEF StackInv
  <2> QED
    BY <1>1, <1>5, <1>7, <2>1 DEF StackInv, Linked
<1>9. SourcesAreOldest' /\ JobInv'
  <2>1. SUBSET (1..MaxBatches) \subseteq SUBSET Nat
    BY ParametersAssumption, SMT
  <2> QED
    BY <1>1, <1>5, <2>1, JobFrame
<1> QED
  BY <1>3, <1>4, <1>8, <1>9 DEF IInv

(* A step of the orchestrator that is not its end, up to what it does to    *)
(* the compactions.                                                         *)
LEMMA CompactorSide ==
  ASSUME IInv, UNCHANGED <<ssts, opens, writerVars>>, o.pc # "down",
         manifest' \in [id : Nat, core : ManifestV1],
         state' \in ValidCore,
         o' \in [pc : CompactorPc, stored : ValidManifest, put : ValidManifest],
         o'.pc # "down",
         o'.pc = "put" => o'.put.core = state',
         o'.pc = "bumpPut" => o'.put.core = o'.stored.core,
         ~Running' => state' = NewCoreDBState,
         Linked(ssts, core, Latest'.core, Compactor'),
         compactions' \in [DOMAIN compactions' -> Seq(Nat)],
         DOMAIN compactions' \subseteq Nat,
         workers' \subseteq Worker,
         resultCh' \in Seq(SortedRun),
         stopped' \in BOOLEAN,
         closeSent' \in BOOLEAN
  PROVE  TypeInv' /\ PutInv' /\ StackInv'
<1>0. TypeInv /\ PutInv /\ StackInv
  BY DEF IInv
<1>1. UNCHANGED <<ssts, opens, core, w>>
  BY DEF writerVars
<1>2. TypeInv'
  BY <1>0, <1>1 DEF TypeInv
<1>3. PutInv'
  BY <1>0, <1>1 DEF PutInv
<1>4. StackInv'
  BY <1>0, <1>1 DEF StackInv, Linked
<1> QED
  BY <1>2, <1>3, <1>4

(* The same, when nothing but the orchestrator's place and manifests change. *)
LEMMA CompactorMoves ==
  ASSUME IInv, UNCHANGED <<ssts, opens, writerVars, state, compactions, workers, resultCh>>,
         o.pc # "down",
         manifest' \in [id : Nat, core : ManifestV1],
         o' \in [pc : CompactorPc, stored : ValidManifest, put : ValidManifest],
         o'.pc # "down",
         o'.pc = "put" => o'.put.core = state,
         o'.pc = "bumpPut" => o'.put.core = o'.stored.core,
         Running' <=> Running,
         Linked(ssts, core, Latest'.core, Compactor'),
         stopped' \in BOOLEAN,
         closeSent' \in BOOLEAN
  PROVE  IInv'
<1>0. TypeInv /\ PutInv /\ StackInv
  BY DEF IInv
<1>1. /\ state' = state /\ state \in ValidCore
      /\ compactions' = compactions /\ compactions \in [DOMAIN compactions -> Seq(Nat)]
      /\ DOMAIN compactions \subseteq Nat
      /\ workers' = workers /\ workers \subseteq Worker
      /\ resultCh' = resultCh /\ resultCh \in Seq(SortedRun)
      /\ ssts' = ssts
  BY <1>0 DEF TypeInv
<1>2. ~Running' => state' = NewCoreDBState
  BY <1>0, <1>1 DEF StackInv
<1>3. TypeInv' /\ PutInv' /\ StackInv'
  BY <1>1, <1>2, CompactorSide
<1>4. SourcesAreOldest' /\ JobInv'
  BY <1>1, JobFrame
<1> QED
  BY <1>3, <1>4 DEF IInv

(* A step of a worker: nothing but the workers and the results change, and  *)
(* a new SST there may be.                                                  *)
LEMMA WorkerSide ==
  ASSUME IInv, UNCHANGED <<manifest, opens, writerVars, o, state, compactions, stopped, closeSent>>,
         w.pc # "down",
         \/ UNCHANGED ssts
         \/ \E S \in SUBSET (1..MaxBatches) : ssts' = Append(ssts, S),
         workers' \subseteq Worker,
         resultCh' \in Seq(SortedRun),
         JobInv'
  PROVE  IInv'
<1>0. TypeInv /\ PutInv /\ StackInv /\ SourcesAreOldest
  BY DEF IInv
<1>1. UNCHANGED <<manifest, opens, core, w, o, state, compactions, stopped, closeSent>>
  BY DEF writerVars
<1>2. ssts' \in Seq(SUBSET (1..MaxBatches))
  <2>1. ssts \in Seq(SUBSET (1..MaxBatches))
    BY <1>0 DEF TypeInv
  <2>2. \A S \in SUBSET (1..MaxBatches) : Append(ssts, S) \in Seq(SUBSET (1..MaxBatches))
    BY <2>1, SMT
  <2> QED
    BY <2>1, <2>2
<1>3. TypeInv'
  BY <1>0, <1>1, <1>2 DEF TypeInv
<1>4. PutInv'
  BY <1>0, <1>1 DEF PutInv
<1>5. Latest' = Latest
  BY <1>1, LatestSame
<1>6. (Running' <=> Running) /\ Compactor' = Compactor
  BY <1>1, <1>5, CompactorSame DEF Compactor
<1>7. Linked(ssts', core, Latest.core, Compactor)
  <2>1. Linked(ssts, core, Latest.core, Compactor)
    BY <1>0 DEF StackInv
  <2>2. /\ ssts \in Seq(SUBSET Nat) /\ core \in CoreState
        /\ Latest.core \in CoreState /\ Compactor \in CoreState
    BY <1>0, TypeInvTypes, LatestValid, CompactorType
  <2>3. SUBSET (1..MaxBatches) \subseteq SUBSET Nat
    BY ParametersAssumption, SMT
  <2> QED
    BY <2>1, <2>2, <2>3, LinkedAppend
<1>8. StackInv'
  <2>1. ~Running => state = NewCoreDBState
    BY <1>0 DEF StackInv
  <2> QED
    BY <1>1, <1>5, <1>6, <1>7, <2>1 DEF StackInv, Linked
<1>9. SourcesAreOldest'
  BY <1>0, <1>1 DEF SourcesAreOldest
<1> QED
  BY <1>3, <1>4, <1>8, <1>9 DEF IInv

(* The state of the process when it ends. *)
LEMMA DieKeeps ==
  ASSUME IInv, Die, UNCHANGED <<ssts, opens>>,
         manifest' \in [id : Nat, core : ManifestV1],
         Stacked(ssts, Latest'.core)
  PROVE  IInv'
<1>0. TypeInv
  BY DEF IInv
<1>1. NewCoreDBState \in ValidCore /\ NoManifest \in ValidManifest
  BY NewValid
<1>2. /\ Down \in [pc : WriterPc, stored : ValidManifest, put : ValidManifest]
      /\ Down \in [pc : CompactorPc, stored : ValidManifest, put : ValidManifest]
      /\ Down.pc = "down"
  BY <1>1, AtTypes DEF Down, WriterPc, CompactorPc
<1>3. NoCompactions \in [DOMAIN NoCompactions -> Seq(Nat)] /\ DOMAIN NoCompactions = {}
  BY SMT DEF NoCompactions
<1>4. /\ core' = NewCoreDBState /\ state' = NewCoreDBState /\ w' = Down /\ o' = Down
      /\ compactions' = NoCompactions /\ workers' = {} /\ resultCh' = <<>>
      /\ stopped' = FALSE /\ closeSent' = FALSE
  BY DEF Die
<1>5. resultCh' \in Seq(SortedRun) /\ Len(resultCh') <= 1
  BY <1>4, SMT
<1>6. TypeInv'
  <2>1. workers' \subseteq Worker /\ stopped' \in BOOLEAN /\ closeSent' \in BOOLEAN
    BY <1>4
  <2>2. compactions' \in [DOMAIN compactions' -> Seq(Nat)] /\ DOMAIN compactions' \subseteq Nat
    BY <1>3, <1>4
  <2> QED
    BY <1>0, <1>1, <1>2, <1>4, <1>5, <2>1, <2>2 DEF TypeInv
<1>7. w'.pc = "down" /\ o'.pc = "down"
  BY <1>2, <1>4
<1>8. PutInv'
  BY <1>7 DEF PutInv
<1>9. StackInv'
  BY <1>4, <1>7 DEF StackInv
<1>10. SourcesAreOldest' /\ JobInv'
  BY <1>3, <1>4, <1>5 DEF SourcesAreOldest, JobInv
<1> QED
  BY <1>6, <1>8, <1>9, <1>10 DEF IInv

-----------------------------------------------------------------------------
(* The steps *)

(* What the steps' proofs start from. *)
LEMMA Parts ==
  ASSUME IInv
  PROVE  /\ TypeInv /\ PutInv /\ StackInv /\ SourcesAreOldest /\ JobInv
         /\ ssts \in Seq(SUBSET Nat)
         /\ core \in ValidCore /\ core \in CoreState
         /\ state \in ValidCore /\ state \in CoreState
         /\ Latest \in ValidManifest /\ Latest.core \in ValidCore /\ Latest.core \in CoreState
         /\ Compactor \in CoreState
         /\ manifest \in [id : Nat, core : ManifestV1]
         /\ o.pc # "down" => w.pc # "down"
         /\ w.pc # "down" => Linked(ssts, core, Latest.core, Compactor)
<1>0. TypeInv /\ PutInv /\ StackInv /\ SourcesAreOldest /\ JobInv
  BY DEF IInv
<1>1. ssts \in Seq(SUBSET Nat) /\ core \in CoreState /\ state \in CoreState
  BY <1>0, TypeInvTypes
<1>2. core \in ValidCore /\ state \in ValidCore /\ manifest \in [id : Nat, core : ManifestV1]
  BY <1>0 DEF TypeInv
<1>3. Latest \in ValidManifest /\ Latest.core \in ValidCore /\ Latest.core \in CoreState
  BY <1>0, LatestValid
<1>4. Compactor \in CoreState
  BY <1>0, CompactorType
<1> QED
  BY <1>0, <1>1, <1>2, <1>3, <1>4 DEF StackInv

LEMMA CrashStep ==
  ASSUME IInv, Crash
  PROVE  IInv'
<1>1. Latest' = Latest
  BY LatestSame DEF Crash
<1>2. manifest' \in [id : Nat, core : ManifestV1]
  BY Parts DEF Crash
<1>3. Stacked(ssts, Latest'.core)
  BY <1>1, Parts DEF StackInv
<1> QED
  BY <1>2, <1>3, DieKeeps DEF Crash

LEMMA OpenWriterStep ==
  ASSUME IInv, OpenWriter
  PROVE  IInv'
<1> DEFINE man == [Latest EXCEPT !.id = @ + 1]
<1>0. TypeInv /\ StackInv /\ JobInv /\ ssts \in Seq(SUBSET Nat) /\ Latest \in ValidManifest
      /\ Latest.core \in ValidCore /\ Latest.core \in CoreState
  BY Parts
<1>1. w.pc = "down" /\ o.pc = "down" /\ ~Running /\ state = NewCoreDBState
  BY <1>0 DEF OpenWriter, StackInv, Running
<1>2. /\ UNCHANGED <<ssts, state, compactions, workers, resultCh, stopped, closeSent>>
      /\ Land(man) /\ core' = Latest.core /\ w' = At("idle", man) /\ o' = At("start", NoManifest)
      /\ opens' = opens + 1
  BY DEF OpenWriter, execVars
<1>3. man \in ValidManifest /\ man.core = Latest.core
  <2>1. Latest.id \in Nat /\ Latest = [id |-> Latest.id, core |-> Latest.core]
    BY <1>0, ValidManifestTypes
  <2>2. Latest.id + 1 \in Nat
    BY <2>1, SMT
  <2>3. man = [id |-> Latest.id + 1, core |-> Latest.core]
    BY <2>1, SMT
  <2> HIDE DEF man
  <2> QED
    BY <1>0, <2>2, <2>3 DEF ValidManifest
<1> HIDE DEF man
<1>4. manifest' \in [id : Nat, core : ManifestV1] /\ Latest'.core = Latest.core
  BY <1>0, <1>2, <1>3, LandIs
<1>5. /\ w' \in [pc : WriterPc, stored : ValidManifest, put : ValidManifest]
      /\ w'.pc = "idle"
  BY <1>2, <1>3, AtTypes DEF WriterPc
<1>6. /\ o' \in [pc : CompactorPc, stored : ValidManifest, put : ValidManifest]
      /\ o'.pc = "start"
  BY <1>2, NewValid, AtTypes DEF CompactorPc
<1>7. opens' \in Nat
  <2>1. opens \in Nat
    BY <1>0 DEF TypeInv
  <2> QED
    BY <1>2, <2>1, SMT
<1>8. TypeInv'
  BY <1>0, <1>2, <1>4, <1>5, <1>6, <1>7 DEF TypeInv
<1>9. PutInv'
  BY <1>5, <1>6 DEF PutInv
<1>10. ~Running' /\ ~Starting'
  BY <1>6 DEF Running, Starting
<1>11. StackInv'
  <2>1. Stacked(ssts, Latest.core)
    BY <1>0 DEF StackInv
  <2>2. Linked(ssts, Latest.core, Latest.core, Latest.core)
    BY <1>0, <2>1, LinkedOpen
  <2>3. Compactor' = Latest'.core
    BY <1>10 DEF Compactor
  <2> QED
    BY <1>1, <1>2, <1>4, <1>5, <2>1, <2>2, <2>3 DEF StackInv
<1>12. SourcesAreOldest' /\ JobInv'
  BY <1>1, <1>2, <1>10, JobFrame
<1> QED
  BY <1>8, <1>9, <1>11, <1>12 DEF IInv

LEMMA FlushToL0Step ==
  ASSUME IInv, NEW batch \in 1..MaxBatches, FlushToL0(batch)
  PROVE  IInv'
<1> DEFINE last == core.lastCompactedWalSSTID
           S == last + 1 .. batch
<1>0. TypeInv /\ ssts \in Seq(SUBSET Nat) /\ core \in CoreState /\ last \in Nat
      /\ core.l0 \in Seq(Nat) /\ Latest.core \in CoreState /\ Compactor \in CoreState
  BY Parts, CoreFields
<1>1. /\ w.pc = "idle" /\ batch > last
      /\ ssts' = Append(ssts, S)
      /\ core' = [core EXCEPT !.l0 = <<Len(ssts) + 1>> \o @,
                              !.lastCompactedWalSSTID = batch,
                              !.nextWalSstID = batch + 1]
      /\ w' = [w EXCEPT !.pc = "load"]
      /\ UNCHANGED <<manifest, opens, compactorVars>>
  BY DEF FlushToL0
<1>2. batch \in Nat /\ last < batch /\ batch + 1 \in Nat /\ batch + 1 > 0 /\ MaxBatches \in Nat
  BY <1>0, <1>1, ParametersAssumption, SMT
<1>3. S \in SUBSET (1..MaxBatches)
  BY <1>0, <1>2, SMT
<1>4. <<Len(ssts) + 1>> \o core.l0 \in Seq(Nat)
  <2>1. Len(ssts) + 1 \in Nat
    BY <1>0, SMT
  <2> QED
    BY <1>0, <2>1, Cons, SMT
<1>5. /\ core'.l0 = <<Len(ssts) + 1>> \o core.l0
      /\ core'.l0LastCompacted = core.l0LastCompacted
      /\ core'.compacted = core.compacted
      /\ core'.lastCompactedWalSSTID = batch
      /\ core'.nextWalSstID = batch + 1
  BY <1>0, <1>1 DEF CoreState
<1>6. core' \in CoreState
  <2> DEFINE l0 == <<Len(ssts) + 1>> \o core.l0
  <2>1. l0 \in Seq(Nat)
    BY <1>4
  <2> HIDE DEF l0
  <2>2. core' = [core EXCEPT !.l0 = l0, !.lastCompactedWalSSTID = batch, !.nextWalSstID = batch + 1]
    BY <1>1 DEF l0
  <2> QED
    BY <1>0, <1>2, <2>1, <2>2 DEF CoreState
<1>7. core' \in ValidCore
  BY <1>2, <1>5, <1>6 DEF ValidCore
<1>8. /\ w' \in [pc : WriterPc, stored : ValidManifest, put : ValidManifest]
      /\ w'.pc = "load"
  <2>1. w \in [pc : WriterPc, stored : ValidManifest, put : ValidManifest]
    BY <1>0 DEF TypeInv
  <2>2. "load" \in WriterPc
    BY DEF WriterPc
  <2> QED
    BY <1>1, <2>1, <2>2
<1>9. Latest' = Latest
  BY <1>1, LatestSame
<1>10. Linked(ssts', core', Latest'.core, Compactor)
  <2>1. Linked(ssts, core, Latest.core, Compactor)
    BY <1>1, Parts
  <2>2. Linked(Append(ssts, last + 1 .. batch), core', Latest.core, Compactor)
    BY <1>0, <1>2, <1>5, <1>6, <2>1, LinkedFlush
  <2> QED
    BY <1>1, <1>9, <2>2
<1>11. manifest' \in [id : Nat, core : ManifestV1]
  BY <1>0, <1>1 DEF TypeInv
<1> HIDE DEF S
<1> QED
  BY <1>1, <1>3, <1>7, <1>8, <1>10, <1>11, WriterSide

LEMMA WriterLoadStep ==
  ASSUME IInv, WriterLoad
  PROVE  IInv'
<1>0. TypeInv /\ ssts \in Seq(SUBSET Nat) /\ core \in ValidCore /\ core \in CoreState
      /\ Latest \in ValidManifest /\ Latest.core \in ValidCore
      /\ Latest.core \in CoreState /\ Compactor \in CoreState
  BY Parts
<1> DEFINE pc == IF w.pc = "idle" THEN "idle" ELSE "write"
<1>1. /\ w.pc \in {"idle", "load"}
      /\ core' = RefreshDBState(core, Latest.core)
      /\ w' = At(pc, Latest)
      /\ UNCHANGED <<ssts, manifest, opens, compactorVars>>
  BY DEF WriterLoad
<1>2. core' \in ValidCore
  <2>1. Distinct(core.l0)
    BY <1>0, <1>1, Parts, StackedDistinct DEF Linked
  <2> QED
    BY <1>0, <1>1, <2>1, MergeValid
<1>3. pc \in WriterPc /\ pc # "put" /\ pc # "down"
  BY DEF WriterPc
<1> HIDE DEF pc
<1>4. w' \in [pc : WriterPc, stored : ValidManifest, put : ValidManifest] /\ w'.pc = pc
  BY <1>0, <1>1, <1>3, AtTypes
<1>5. Latest' = Latest
  BY <1>1, LatestSame
<1>6. w.pc # "down"
  BY <1>1
<1>7. Linked(ssts, core, Latest.core, Compactor)
  BY <1>6, Parts
<1>8. Linked(ssts', core', Latest'.core, Compactor)
  BY <1>0, <1>1, <1>5, <1>7, LinkedLoad
<1>9. manifest' \in [id : Nat, core : ManifestV1]
  BY <1>0, <1>1 DEF TypeInv
<1> QED
  BY <1>1, <1>2, <1>3, <1>4, <1>6, <1>8, <1>9, WriterSide

LEMMA WriterExistsStep ==
  ASSUME IInv, WriterExists
  PROVE  IInv'
<1>0. TypeInv /\ core \in ValidCore
  BY Parts
<1>1. /\ w.pc = "write"
      /\ w' = [w EXCEPT !.pc = "load"] \/ w' = Putting(w, "put", core)
      /\ UNCHANGED <<ssts, manifest, opens, core, compactorVars>>
  BY DEF WriterExists
<1>2. w \in [pc : WriterPc, stored : ValidManifest, put : ValidManifest]
  BY <1>0 DEF TypeInv
<1>3. /\ w' \in [pc : WriterPc, stored : ValidManifest, put : ValidManifest]
      /\ w'.pc # "down"
      /\ w'.pc = "put" => w'.put.core = core
  <2>0. "load" \in WriterPc /\ "put" \in WriterPc
    BY DEF WriterPc
  <2>1. CASE w' = [w EXCEPT !.pc = "load"]
    <3>1. w' \in [pc : WriterPc, stored : ValidManifest, put : ValidManifest] /\ w'.pc = "load"
      BY <1>2, <2>0, <2>1
    <3> QED
      BY <3>1
  <2>2. CASE w' = Putting(w, "put", core)
    <3>1. /\ Putting(w, "put", core) \in [pc : WriterPc, stored : ValidManifest, put : ValidManifest]
          /\ Putting(w, "put", core).pc = "put"
          /\ Putting(w, "put", core).put.core = core
      BY <1>0, <1>2, <2>0, PuttingTypes, SMT
    <3> QED
      BY <2>2, <3>1
  <2> QED
    BY <1>1, <2>1, <2>2
<1>4. Latest' = Latest
  BY <1>1, LatestSame
<1>5. Linked(ssts', core', Latest'.core, Compactor)
  BY <1>1, <1>4, Parts
<1>6. manifest' \in [id : Nat, core : ManifestV1] /\ core' \in ValidCore
  BY <1>0, <1>1 DEF TypeInv
<1>7. w.pc # "down" /\ (w'.pc = "put" => w'.put.core = core')
  BY <1>1, <1>3
<1> QED
  BY <1>1, <1>3, <1>5, <1>6, <1>7, WriterSide

(* The upload, whether the writer learns of it or not. *)
LEMMA WriterUpload ==
  ASSUME IInv, w.pc # "down", UNCHANGED <<ssts, opens, core, compactorVars>>,
         UNCHANGED manifest \/ (w.pc = "put" /\ Land(w.put)),
         w' = Written(w, "idle") \/ w' = At("idle", w.stored)
  PROVE  IInv'
<1>0. TypeInv /\ PutInv /\ ssts \in Seq(SUBSET Nat) /\ core \in ValidCore /\ core \in CoreState
      /\ Latest.core \in CoreState /\ Compactor \in CoreState
      /\ manifest \in [id : Nat, core : ManifestV1]
  BY Parts
<1>1. w.put \in ValidManifest /\ w.stored \in ValidManifest
  BY <1>0, TypeInvTypes
<1>2. /\ w' \in [pc : WriterPc, stored : ValidManifest, put : ValidManifest]
      /\ w'.pc = "idle"
  <2>1. w' = At("idle", w.put) \/ w' = At("idle", w.stored)
    BY DEF Written
  <2>2. "idle" \in WriterPc
    BY DEF WriterPc
  <2>3. /\ At("idle", w.put) \in [pc : WriterPc, stored : ValidManifest, put : ValidManifest]
        /\ At("idle", w.put).pc = "idle"
    BY <1>1, <2>2, AtTypes
  <2>4. /\ At("idle", w.stored) \in [pc : WriterPc, stored : ValidManifest, put : ValidManifest]
        /\ At("idle", w.stored).pc = "idle"
    BY <1>1, <2>2, AtTypes
  <2> QED
    BY <2>1, <2>3, <2>4
<1>3. /\ manifest' \in [id : Nat, core : ManifestV1]
      /\ Latest' = Latest \/ Latest'.core = core
  <2>1. CASE UNCHANGED manifest
    BY <1>0, <2>1, LatestSame
  <2>2. CASE w.pc = "put" /\ Land(w.put)
    BY <1>0, <1>1, <2>2, LandIs DEF PutInv
  <2> QED
    BY <2>1, <2>2
<1>4. Linked(ssts, core, Latest.core, Compactor)
  BY Parts
<1>5. Linked(ssts, core, core, Compactor)
  BY <1>0, <1>4, LinkedPut
<1>6. Linked(ssts', core', Latest'.core, Compactor)
  BY <1>3, <1>4, <1>5
<1>7. core' \in ValidCore /\ UNCHANGED <<opens, compactorVars>> /\ w'.pc # "down" /\ w'.pc # "put"
  BY <1>0, <1>2
<1> QED
  BY <1>2, <1>3, <1>6, <1>7, WriterSide

LEMMA WriterPutStep ==
  ASSUME IInv, WriterPut \/ WriterFails
  PROVE  IInv'
<1>1. CASE WriterPut
  <2>1. w.pc # "down"
    BY <1>1 DEF WriterPut
  <2> QED
    BY <1>1, <2>1, WriterUpload DEF WriterPut
<1>2. CASE WriterFails
  <2>1. w.pc # "down"
    BY <1>2 DEF WriterFails
  <2> QED
    BY <1>2, <2>1, WriterUpload DEF WriterFails
<1> QED
  BY <1>1, <1>2

-----------------------------------------------------------------------------
(* The compactor starts *)

LEMMA StartLoadStep ==
  ASSUME IInv, StartLoad
  PROVE  IInv'
<1>0. TypeInv /\ ssts \in Seq(SUBSET Nat) /\ core \in CoreState /\ Latest \in ValidManifest
      /\ Latest.core \in CoreState /\ Compactor \in CoreState
      /\ manifest \in [id : Nat, core : ManifestV1]
  BY Parts
<1>1. /\ o.pc = "start" /\ o' = At("bump", Latest)
      /\ UNCHANGED <<ssts, manifest, opens, writerVars, state, compactions, workers, resultCh,
                     stopped, closeSent>>
  BY DEF StartLoad, execVars
<1>2. /\ o' \in [pc : CompactorPc, stored : ValidManifest, put : ValidManifest]
      /\ o'.pc = "bump" /\ o'.stored = Latest
  <2>1. "bump" \in CompactorPc
    BY DEF CompactorPc
  <2> QED
    BY <1>0, <1>1, <2>1, AtTypes
<1>3. Latest' = Latest
  BY <1>1, LatestSame
<1>4. o.pc # "down" /\ ~Running /\ ~Running' /\ Compactor' = Latest.core
  BY <1>1, <1>2 DEF Running, Starting, Compactor
<1>5. Linked(ssts, core, Latest.core, Compactor)
  BY <1>4, Parts
<1>6. Linked(ssts, core, Latest'.core, Compactor')
  BY <1>0, <1>3, <1>4, <1>5, LinkedCompactorStart
<1>7. stopped' \in BOOLEAN /\ closeSent' \in BOOLEAN /\ manifest' \in [id : Nat, core : ManifestV1]
  BY <1>0, <1>1 DEF TypeInv
<1> QED
  BY <1>1, <1>2, <1>4, <1>6, <1>7, CompactorMoves

LEMMA StartExistsStep ==
  ASSUME IInv, StartExists
  PROVE  IInv'
<1>0. TypeInv /\ ssts \in Seq(SUBSET Nat) /\ core \in CoreState
      /\ Latest.core \in CoreState /\ Compactor \in CoreState
      /\ manifest \in [id : Nat, core : ManifestV1]
  BY Parts
<1>1. /\ o.pc = "bump"
      /\ \/ o' = At("failed", NoManifest)
         \/ o' = Putting(o, "bumpPut", o.stored.core)
      /\ UNCHANGED <<ssts, manifest, opens, writerVars, state, compactions, workers, resultCh,
                     stopped, closeSent>>
  BY DEF StartExists, execVars
<1>2. Latest' = Latest
  BY <1>1, LatestSame
<1>3. o.pc # "down" /\ ~Running /\ Compactor = o.stored.core
  BY <1>1 DEF Running, Starting, Compactor
<1>4. Linked(ssts, core, Latest.core, Compactor)
  BY <1>3, Parts
<1>5. stopped' \in BOOLEAN /\ closeSent' \in BOOLEAN /\ manifest' \in [id : Nat, core : ManifestV1]
  BY <1>0, <1>1 DEF TypeInv
<1>6. "failed" \in CompactorPc /\ "bumpPut" \in CompactorPc
  BY DEF CompactorPc
<1>7. CASE o' = At("failed", NoManifest)
  <2>1. /\ o' \in [pc : CompactorPc, stored : ValidManifest, put : ValidManifest]
        /\ o'.pc = "failed"
    BY <1>6, <1>7, NewValid, AtTypes
  <2>2. ~Running' /\ Compactor' = Latest'.core
    BY <2>1 DEF Running, Starting, Compactor
  <2>3. Linked(ssts, core, Latest'.core, Compactor')
    BY <1>0, <1>2, <1>4, <2>2, LinkedCompactorStart
  <2> QED
    BY <1>1, <1>3, <1>5, <2>1, <2>2, <2>3, CompactorMoves
<1>8. CASE o' = Putting(o, "bumpPut", o.stored.core)
  <2>1. o \in [pc : CompactorPc, stored : ValidManifest, put : ValidManifest]
    BY <1>0 DEF TypeInv
  <2>2. o.stored.core \in ValidCore
    BY <2>1 DEF ValidManifest
  <2>3. /\ Putting(o, "bumpPut", o.stored.core)
             \in [pc : CompactorPc, stored : ValidManifest, put : ValidManifest]
        /\ Putting(o, "bumpPut", o.stored.core).pc = "bumpPut"
        /\ Putting(o, "bumpPut", o.stored.core).put.core = o.stored.core
        /\ Putting(o, "bumpPut", o.stored.core).stored = o.stored
    BY <1>6, <2>1, <2>2, PuttingTypes, SMT
  <2>4. /\ o' \in [pc : CompactorPc, stored : ValidManifest, put : ValidManifest]
        /\ o'.pc = "bumpPut" /\ o'.put.core = o'.stored.core /\ o'.stored = o.stored
    BY <1>8, <2>3
  <2>5. ~Running' /\ Compactor' = Compactor
    BY <1>3, <2>4 DEF Running, Starting, Compactor
  <2>6. Linked(ssts, core, Latest'.core, Compactor')
    BY <1>2, <1>4, <2>5
  <2> QED
    BY <1>1, <1>3, <1>5, <2>4, <2>5, <2>6, CompactorMoves
<1> QED
  BY <1>1, <1>7, <1>8

(* What the latest manifest is after the put of a compactor that holds what *)
(* it will have.                                                            *)
LEMMA CompactorUpload ==
  ASSUME IInv, o.pc # "down", UNCHANGED manifest \/ (o.put.core = Compactor /\ Land(o.put))
  PROVE  /\ manifest' \in [id : Nat, core : ManifestV1]
         /\ Latest'.core \in CoreState
         /\ Linked(ssts, core, Latest'.core, Compactor)
<1>0. TypeInv /\ ssts \in Seq(SUBSET Nat) /\ core \in CoreState
      /\ Latest.core \in CoreState /\ Compactor \in CoreState
      /\ manifest \in [id : Nat, core : ManifestV1]
      /\ Linked(ssts, core, Latest.core, Compactor)
  BY Parts
<1>1. o.put \in ValidManifest
  BY <1>0, TypeInvTypes
<1>2. /\ manifest' \in [id : Nat, core : ManifestV1]
      /\ Latest' = Latest \/ Latest'.core = Compactor
  <2>1. CASE UNCHANGED manifest
    BY <1>0, <2>1, LatestSame
  <2>2. CASE o.put.core = Compactor /\ Land(o.put)
    BY <1>0, <1>1, <2>2, LandIs
  <2> QED
    BY <2>1, <2>2
<1>3. Linked(ssts, core, Compactor, Compactor)
  BY <1>0, LinkedCompactorPut
<1> QED
  BY <1>0, <1>2, <1>3

LEMMA StartFailsStep ==
  ASSUME IInv, StartFails
  PROVE  IInv'
<1>0. TypeInv /\ PutInv /\ ssts \in Seq(SUBSET Nat) /\ core \in CoreState /\ Compactor \in CoreState
  BY Parts
<1>1. /\ o.pc \in {"start", "bump", "bumpPut"}
      /\ UNCHANGED manifest \/ (o.pc = "bumpPut" /\ Land(o.put))
      /\ o' = At("failed", NoManifest)
      /\ UNCHANGED <<ssts, opens, writerVars, state, compactions, workers, resultCh,
                     stopped, closeSent>>
  BY DEF StartFails, execVars
<1>2. o.pc # "down" /\ ~Running
  BY <1>1 DEF Running
<1>3. o.pc = "bumpPut" => o.put.core = Compactor
  BY <1>0 DEF PutInv, Starting, Compactor
<1>4. /\ manifest' \in [id : Nat, core : ManifestV1]
      /\ Latest'.core \in CoreState
      /\ Linked(ssts, core, Latest'.core, Compactor)
  BY <1>1, <1>2, <1>3, CompactorUpload
<1>5. "failed" \in CompactorPc
  BY DEF CompactorPc
<1>6. /\ o' \in [pc : CompactorPc, stored : ValidManifest, put : ValidManifest]
      /\ o'.pc = "failed"
  BY <1>1, <1>5, NewValid, AtTypes
<1>7. ~Running' /\ Compactor' = Latest'.core
  BY <1>6 DEF Running, Starting, Compactor
<1>8. Linked(ssts, core, Latest'.core, Compactor')
  BY <1>0, <1>4, <1>7, LinkedCompactorStart
<1>9. stopped' \in BOOLEAN /\ closeSent' \in BOOLEAN
  BY <1>0, <1>1 DEF TypeInv
<1> QED
  BY <1>1, <1>2, <1>4, <1>6, <1>7, <1>8, <1>9, CompactorMoves

LEMMA StartPutStep ==
  ASSUME IInv, StartPut
  PROVE  IInv'
<1>0. TypeInv /\ PutInv /\ JobInv /\ ssts \in Seq(SUBSET Nat)
  BY Parts
<1>1. /\ o.pc = "bumpPut" /\ Land(o.put)
      /\ o' = At("loop", o.put)
      /\ state' = o.put.core
      /\ UNCHANGED <<ssts, opens, writerVars, compactions, workers, resultCh, stopped, closeSent>>
  BY DEF StartPut, Written, execVars
<1>2. o.pc # "down" /\ ~Running /\ o.put.core = Compactor
  BY <1>0, <1>1 DEF PutInv, Starting, Compactor, Running
<1>3. /\ manifest' \in [id : Nat, core : ManifestV1]
      /\ Linked(ssts, core, Latest'.core, Compactor)
  BY <1>1, <1>2, CompactorUpload
<1>4. o.put \in ValidManifest /\ o.put.core \in ValidCore
  <2>1. o.put \in ValidManifest
    BY <1>0, TypeInvTypes
  <2> QED
    BY <2>1 DEF ValidManifest
<1>5. /\ o' \in [pc : CompactorPc, stored : ValidManifest, put : ValidManifest]
      /\ o'.pc = "loop"
  <2>1. "loop" \in CompactorPc
    BY DEF CompactorPc
  <2> QED
    BY <1>1, <1>4, <2>1, AtTypes
<1>6. Running' /\ Compactor' = state'
  BY <1>5 DEF Running, Starting, Compactor
<1>7. /\ compactions' = compactions /\ compactions \in [DOMAIN compactions -> Seq(Nat)]
      /\ DOMAIN compactions \subseteq Nat
      /\ workers' = workers /\ workers \subseteq Worker
      /\ resultCh' = resultCh /\ resultCh \in Seq(SortedRun)
      /\ stopped' \in BOOLEAN /\ closeSent' \in BOOLEAN
  BY <1>0, <1>1 DEF TypeInv
<1>8. Linked(ssts, core, Latest'.core, Compactor')
  BY <1>1, <1>2, <1>3, <1>6
<1>9. state' \in ValidCore
  BY <1>1, <1>4
<1>10. TypeInv' /\ PutInv' /\ StackInv'
  BY <1>1, <1>2, <1>3, <1>5, <1>6, <1>7, <1>8, <1>9, CompactorSide
<1>11. DOMAIN compactions = {}
  <2>1. compactions = NoCompactions
    BY <1>0, <1>2 DEF JobInv
  <2> QED
    BY <2>1, SMT DEF NoCompactions
<1>12. workers = {} /\ resultCh = <<>>
  BY <1>0, <1>11 DEF JobInv
<1>13. SourcesAreOldest'
  BY <1>7, <1>11 DEF SourcesAreOldest
<1>14. JobInv'
  <2>1. Len(resultCh) <= 1
    BY <1>0 DEF JobInv
  <2> QED
    BY <1>6, <1>7, <1>11, <1>12, <2>1 DEF JobInv
<1> QED
  BY <1>10, <1>13, <1>14 DEF IInv

-----------------------------------------------------------------------------
(* The orchestrator *)

(* The orchestrator, once it runs, goes from one place of its loop to       *)
(* another.                                                                 *)
LEMMA LoopMoves ==
  ASSUME IInv, Running, Running',
         UNCHANGED <<ssts, manifest, opens, writerVars, state, compactions, workers, resultCh>>,
         o' \in [pc : CompactorPc, stored : ValidManifest, put : ValidManifest],
         o'.pc = "put" => o'.put.core = state,
         stopped' \in BOOLEAN,
         closeSent' \in BOOLEAN
  PROVE  IInv'
<1>1. o.pc # "down" /\ o'.pc # "down" /\ o'.pc # "bumpPut"
  BY DEF Running
<1>2. Compactor = state /\ Compactor' = state'
  BY DEF Running, Starting, Compactor
<1>3. Linked(ssts, core, Latest.core, Compactor) /\ manifest \in [id : Nat, core : ManifestV1]
  BY <1>1, Parts
<1>4. Latest' = Latest
  BY LatestSame
<1>5. Linked(ssts, core, Latest'.core, Compactor')
  BY <1>2, <1>3, <1>4
<1>6. manifest' \in [id : Nat, core : ManifestV1]
  BY <1>3
<1> QED
  BY <1>1, <1>5, <1>6, CompactorMoves

LEMMA OrchestratorExistsStep ==
  ASSUME IInv, OrchestratorExists
  PROVE  IInv'
<1>0. TypeInv /\ state \in ValidCore
  BY Parts
<1>1. /\ o.pc = "write"
      /\ \/ o' = [o EXCEPT !.pc = "load"]
         \/ o' = Putting(o, "put", state)
      /\ UNCHANGED <<ssts, manifest, opens, writerVars, state, compactions, workers, resultCh,
                     stopped, closeSent>>
  BY DEF OrchestratorExists, execVars
<1>2. o \in [pc : CompactorPc, stored : ValidManifest, put : ValidManifest]
  BY <1>0 DEF TypeInv
<1>3. "load" \in CompactorPc /\ "put" \in CompactorPc
  BY DEF CompactorPc
<1>4. /\ o' \in [pc : CompactorPc, stored : ValidManifest, put : ValidManifest]
      /\ \/ o'.pc = "load"
         \/ o'.pc = "put" /\ o'.put.core = state
  <2>1. CASE o' = [o EXCEPT !.pc = "load"]
    BY <1>2, <1>3, <2>1
  <2>2. CASE o' = Putting(o, "put", state)
    <3>1. /\ Putting(o, "put", state) \in [pc : CompactorPc, stored : ValidManifest, put : ValidManifest]
          /\ Putting(o, "put", state).pc = "put"
          /\ Putting(o, "put", state).put.core = state
      BY <1>0, <1>2, <1>3, PuttingTypes, SMT
    <3> QED
      BY <2>2, <3>1
  <2> QED
    BY <1>1, <2>1, <2>2
<1>5. Running /\ Running' /\ (o'.pc = "put" => o'.put.core = state)
  BY <1>1, <1>4 DEF Running
<1>6. stopped' \in BOOLEAN /\ closeSent' \in BOOLEAN
  BY <1>0, <1>1 DEF TypeInv
<1> QED
  BY <1>1, <1>4, <1>5, <1>6, LoopMoves

(* The steps of the shutdown. *)
LEMMA ShutdownStep ==
  ASSUME IInv, CloseCompactor \/ StopExecutor \/ ExecutorStopped \/ LoopExits
  PROVE  IInv'
<1>0. TypeInv /\ PutInv
  BY Parts
<1>1. /\ o \in [pc : CompactorPc, stored : ValidManifest, put : ValidManifest]
      /\ stopped \in BOOLEAN /\ closeSent \in BOOLEAN
  BY <1>0 DEF TypeInv
<1>2. CASE CloseCompactor
  <2>1. /\ UNCHANGED <<ssts, manifest, opens, writerVars, state, compactions, workers, resultCh>>
        /\ o' = o /\ stopped' = stopped /\ closeSent' = TRUE
        /\ o.pc \in {"loop", "load", "write", "put"}
    BY <1>2 DEF CloseCompactor
  <2>2. Running /\ Running' /\ (o'.pc = "put" => o'.put.core = state)
    BY <1>0, <2>1 DEF Running, PutInv
  <2>3. /\ o' \in [pc : CompactorPc, stored : ValidManifest, put : ValidManifest]
        /\ stopped' \in BOOLEAN /\ closeSent' \in BOOLEAN
    BY <1>1, <2>1
  <2> QED
    BY <2>1, <2>2, <2>3, LoopMoves
<1>3. CASE StopExecutor \/ ExecutorStopped \/ LoopExits
  <2>1. /\ UNCHANGED <<ssts, manifest, opens, writerVars, state, compactions, workers, resultCh>>
        /\ o.pc \in {"loop", "stopping"}
        /\ stopped' \in BOOLEAN /\ closeSent' \in BOOLEAN
    BY <1>1, <1>3 DEF StopExecutor, ExecutorStopped, LoopExits, execVars
  <2>2. \/ o' = [o EXCEPT !.pc = "stopping"]
        \/ o' = [o EXCEPT !.pc = "loop"]
        \/ o' = [o EXCEPT !.pc = "done"]
    BY <1>3 DEF StopExecutor, ExecutorStopped, LoopExits
  <2>3. "stopping" \in CompactorPc /\ "loop" \in CompactorPc /\ "done" \in CompactorPc
    BY DEF CompactorPc
  <2>4. /\ o' \in [pc : CompactorPc, stored : ValidManifest, put : ValidManifest]
        /\ o'.pc \in {"stopping", "loop", "done"}
    BY <1>1, <2>2, <2>3
  <2>5. Running /\ Running' /\ o'.pc # "put"
    BY <2>1, <2>4 DEF Running
  <2> QED
    BY <2>1, <2>4, <2>5, LoopMoves
<1> QED
  BY <1>2, <1>3

LEMMA OrchestratorPanicsStep ==
  ASSUME IInv, OrchestratorPanics
  PROVE  IInv'
<1>0. PutInv
  BY Parts
<1>1. /\ o.pc \in {"load", "write", "put", "loop"}
      /\ UNCHANGED manifest \/ (o.pc = "put" /\ Land(o.put))
      /\ Die
      /\ UNCHANGED <<ssts, opens>>
  BY DEF OrchestratorPanics
<1>2. o.pc # "down" /\ Compactor = state
  BY <1>1 DEF Compactor, Starting, Running
<1>3. o.pc = "put" => o.put.core = Compactor
  BY <1>0, <1>2 DEF PutInv
<1>4. manifest' \in [id : Nat, core : ManifestV1] /\ Linked(ssts, core, Latest'.core, Compactor)
  BY <1>1, <1>2, <1>3, CompactorUpload
<1>5. Stacked(ssts, Latest'.core)
  BY <1>4 DEF Linked
<1> QED
  BY <1>1, <1>4, <1>5, DieKeeps

(* x is the lower end of the list s. *)
EndOf(x, s) == \E n \in 0..Len(s) : x = SubSeq(s, n + 1, Len(s))

LEMMA EndOfEnd ==
  ASSUME NEW s \in Seq(Nat), NEW u, NEW x, EndOf(u, s), EndOf(x, u)
  PROVE  EndOf(x, s)
<1>a. PICK n \in 0..Len(s) : u = SubSeq(s, n + 1, Len(s))
  BY DEF EndOf
<1>b. PICK m \in 0..Len(u) : x = SubSeq(u, m + 1, Len(u))
  BY DEF EndOf
<1> DEFINE len == Len(s)
           k == Len(u)
<1>1. len \in Nat /\ n \in 0..len /\ n + 1 \in 1..len + 1 /\ len \in 0..len /\ n + 1 <= len + 1
  BY SMT
<1>2. k = len - (n + 1) + 1 /\ m \in 0..k
  BY <1>a, <1>b, <1>1, Stretch, SMT
<1> HIDE DEF len, k
<1>3. /\ m + 1 \in 1..len - (n + 1) + 2
      /\ k \in 0..len - (n + 1) + 1
      /\ m + 1 <= k + 1
      /\ (n + 1) + (m + 1) - 1 = (n + m) + 1
      /\ (n + 1) + k - 1 = len
      /\ n + m \in 0..len
  BY <1>1, <1>2, SMT
<1>4. SubSeq(u, m + 1, k) = SubSeq(s, (n + 1) + (m + 1) - 1, (n + 1) + k - 1)
  BY <1>a, <1>1, <1>3, StretchOfStretch DEF len
<1> QED
  BY <1>b, <1>3, <1>4 DEF EndOf, len, k

(* The size-tiered scheduler, for a state whose L0 ends in the sources of   *)
(* the submitted compaction: no second one is accepted.                     *)
LEMMA MaybeScheduleKeeps ==
  ASSUME IInv, Running, Running', state' \in ValidCore, MaybeSchedule(state', compactions),
         UNCHANGED <<ssts, resultCh, stopped>>,
         state'.compacted = state.compacted,
         \E n \in 0..Len(state'.l0) : state.l0 = SubSeq(state'.l0, n + 1, Len(state'.l0))
  PROVE  /\ SourcesAreOldest' /\ JobInv'
         /\ compactions' \in [DOMAIN compactions' -> Seq(Nat)]
         /\ DOMAIN compactions' \subseteq Nat
         /\ workers' \subseteq Worker
<1> DEFINE dest == NextSortedRunID(state')
           accepted == NeedsCompaction(state') /\ Accepts(state', compactions, dest)
           job == [dest |-> dest, sources |-> state'.l0, pc |-> "start", out |-> 0]
           l0 == state'.l0
<1>0. TypeInv /\ JobInv /\ SourcesAreOldest /\ state \in CoreState
  BY Parts
<1>1. /\ compactions \in [DOMAIN compactions -> Seq(Nat)]
      /\ DOMAIN compactions \subseteq Nat
      /\ workers \subseteq Worker
  BY <1>0 DEF TypeInv
<1>2. state' \in CoreState /\ l0 \in Seq(Nat) /\ state.l0 \in Seq(Nat) /\ state.compacted \in Seq(SortedRun)
  <2>1. state' \in CoreState
    BY DEF ValidCore
  <2> QED
    BY <1>0, <2>1, CoreFields
<1>3. dest = NextSortedRunID(state) /\ dest \in Nat
  <2>1. dest = NextSortedRunID(state)
    BY DEF NextSortedRunID
  <2>2. NextSortedRunID(state) \in Nat
    <3>1. state.compacted # <<>> => state.compacted[1] \in SortedRun
      BY <1>2, SMT
    <3>2. state.compacted # <<>> => state.compacted[1].id \in Nat
      BY <3>1 DEF SortedRun
    <3> QED
      BY <3>2, SMT DEF NextSortedRunID
  <2> QED
    BY <2>1, <2>2
<1>4. SourcesAreOldest' /\ JobInv' /\ compactions' \in [DOMAIN compactions' -> Seq(Nat)]
      /\ DOMAIN compactions' \subseteq Nat /\ workers' \subseteq Worker
  <2>1. CASE ~accepted
    <3>1. compactions' = compactions /\ workers' = workers
      BY <2>1 DEF MaybeSchedule
    <3>2. SourcesAreOldest'
      <4>1. SUFFICES ASSUME NEW d \in DOMAIN compactions
                     PROVE  \E n \in 0..Len(l0) : compactions[d] = SubSeq(l0, n + 1, Len(l0))
        BY <3>1 DEF SourcesAreOldest
      <4>2. EndOf(state.l0, l0)
        BY DEF EndOf
      <4>3. EndOf(compactions[d], state.l0)
        BY <1>0 DEF SourcesAreOldest, EndOf
      <4> HIDE DEF l0
      <4>4. EndOf(compactions[d], l0)
        BY <1>2, <4>2, <4>3, EndOfEnd
      <4> QED
        BY <4>4 DEF EndOf
    <3>3. JobInv'
      <4>1. NextSortedRunID(state') = NextSortedRunID(state)
        BY <1>3
      <4> QED
        BY <1>0, <3>1, <4>1 DEF JobInv
    <3> QED
      BY <1>1, <3>1, <3>2, <3>3
  <2>2. CASE accepted
    <3>1. DOMAIN compactions = {}
      <4>1. dest \notin DOMAIN compactions
        BY <2>2 DEF Accepts
      <4> QED
        BY <1>0, <1>3, <4>1 DEF JobInv
    <3>2. workers = {} /\ resultCh = <<>>
      BY <1>0, <3>1 DEF JobInv
    <3> HIDE DEF dest
    <3>3. l0 # <<>>
      <4>1. Len(l0) >= L0Threshold
        BY <2>2 DEF NeedsCompaction
      <4> HIDE DEF l0, accepted
      <4> QED
        BY <1>2, <4>1, ParametersAssumption, SMT
    <3>4. compactions' = [d \in {dest} |-> l0] /\ (workers' = {job} \/ workers' = {})
      <4>1. /\ compactions' = [d \in DOMAIN compactions \cup {dest} |->
                                IF d = dest THEN l0 ELSE compactions[d]]
            /\ workers' = workers \cup {job} \/ workers' = workers
        BY <2>2 DEF MaybeSchedule, dest
      <4> HIDE DEF l0, job, accepted
      <4> QED
        BY <3>1, <3>2, <4>1, SMT
    <3>5. DOMAIN compactions' = {dest} /\ compactions'[dest] = l0
      BY <3>4
    <3>6. job \in Worker
      BY <1>2, <1>3 DEF Worker
    <3>7. \A x \in workers' : x = job
      BY <3>4
    <3>8. job.dest = dest /\ job.sources = l0 /\ job.out = 0
      OBVIOUS
    <3> HIDE DEF l0, job, accepted
    <3>9. workers' \subseteq Worker
      BY <3>6, <3>7
    <3>10. compactions' \in [DOMAIN compactions' -> Seq(Nat)] /\ DOMAIN compactions' \subseteq Nat
      BY <1>2, <1>3, <3>4, <3>5
    <3>11. SourcesAreOldest'
      <4>1. 0 \in 0..Len(l0) /\ l0 = SubSeq(l0, 0 + 1, Len(l0))
        BY <1>2, SMT
      <4>2. \E n \in 0..Len(l0) : l0 = SubSeq(l0, n + 1, Len(l0))
        BY <4>1
      <4> QED
        BY <3>5, <4>2 DEF SourcesAreOldest, l0
    <3>12. JobInv'
      <4>1. Len(resultCh) <= 1
        BY <1>0 DEF JobInv
      <4>2. \A x \in workers' :
              /\ x.dest \in DOMAIN compactions'
              /\ x.sources = compactions'[x.dest]
              /\ x.out = 0
              /\ \A y \in workers' : x = y
        BY <3>5, <3>7, <3>8
      <4> QED
        BY <3>2, <3>3, <3>5, <4>1, <4>2 DEF JobInv, dest
    <3> QED
      BY <3>9, <3>10, <3>11, <3>12
  <2> QED
    BY <2>1, <2>2
<1> QED
  BY <1>4

LEMMA OrchestratorLoadStep ==
  ASSUME IInv, OrchestratorLoad
  PROVE  IInv'
<1>0. TypeInv /\ ssts \in Seq(SUBSET Nat) /\ core \in CoreState
      /\ state \in ValidCore /\ state \in CoreState
      /\ Latest \in ValidManifest /\ Latest.core \in ValidCore /\ Latest.core \in CoreState
      /\ manifest \in [id : Nat, core : ManifestV1]
  BY Parts
<1> DEFINE pc == IF o.pc = "loop" THEN "loop" ELSE "write"
<1>1. /\ o.pc \in {"load", "loop"}
      /\ state' = CompactorRefresh(state, Latest.core)
      /\ MaybeSchedule(state', compactions)
      /\ o' = At(pc, Latest)
      /\ UNCHANGED <<ssts, manifest, opens, writerVars, resultCh, stopped, closeSent>>
  BY DEF OrchestratorLoad
<1>2. pc \in CompactorPc /\ pc \in {"loop", "write"}
  BY DEF CompactorPc
<1> HIDE DEF pc
<1>3. o' \in [pc : CompactorPc, stored : ValidManifest, put : ValidManifest] /\ o'.pc = pc
  BY <1>0, <1>1, <1>2, AtTypes
<1>4. /\ o.pc # "down" /\ o'.pc # "down" /\ o'.pc # "put" /\ o'.pc # "bumpPut"
      /\ Running /\ Running' /\ Compactor = state /\ Compactor' = state'
  BY <1>1, <1>2, <1>3 DEF Running, Starting, Compactor
<1>5. Latest' = Latest
  BY <1>1, LatestSame
<1>6. Linked(ssts, core, Latest.core, state)
  BY <1>4, Parts
<1>7. /\ Linked(ssts, core, Latest.core, state')
      /\ \E n \in 0..Len(state'.l0) : state.l0 = SubSeq(state'.l0, n + 1, Len(state'.l0))
  <2> DEFINE merged == CompactorRefresh(state, Latest.core)
  <2>1. Linked(ssts, core, Latest.core, merged)
    BY <1>0, <1>6, LinkedCompactorLoad
  <2>2. \E n \in 0..Len(merged.l0) : state.l0 = SubSeq(merged.l0, n + 1, Len(merged.l0))
    BY <1>0, <1>6, LinkedCompactorLoad, SMT
  <2> HIDE DEF merged
  <2>3. state' = merged
    BY <1>1 DEF merged
  <2> QED
    BY <2>1, <2>2, <2>3
<1>8. state' \in ValidCore
  <2>1. Distinct(Latest.core.l0)
    BY <1>0, <1>6, StackedDistinct DEF Linked
  <2> QED
    BY <1>0, <1>1, <2>1, MergeValid
<1>9. state'.compacted = state.compacted
  BY <1>0, <1>1, SMT DEF CoreState, CompactorRefresh
<1>10. /\ SourcesAreOldest' /\ JobInv'
       /\ compactions' \in [DOMAIN compactions' -> Seq(Nat)]
       /\ DOMAIN compactions' \subseteq Nat
       /\ workers' \subseteq Worker
  BY <1>1, <1>4, <1>7, <1>8, <1>9, MaybeScheduleKeeps
<1>11. /\ stopped' \in BOOLEAN /\ closeSent' \in BOOLEAN /\ resultCh' \in Seq(SortedRun)
       /\ manifest' \in [id : Nat, core : ManifestV1]
  BY <1>0, <1>1 DEF TypeInv
<1>12. Linked(ssts, core, Latest'.core, Compactor')
  BY <1>4, <1>5, <1>7
<1>13. TypeInv' /\ PutInv' /\ StackInv'
  BY <1>1, <1>3, <1>4, <1>8, <1>10, <1>11, <1>12, CompactorSide
<1> QED
  BY <1>10, <1>13 DEF IInv

LEMMA OrchestratorPutStep ==
  ASSUME IInv, OrchestratorPut
  PROVE  IInv'
<1>0. TypeInv /\ PutInv /\ state \in ValidCore /\ state \in CoreState
  BY Parts
<1>1. /\ o.pc = "put" /\ Land(o.put)
      /\ MaybeSchedule(state, compactions)
      /\ o' = At("loop", o.put)
      /\ UNCHANGED <<ssts, opens, writerVars, state, resultCh, stopped, closeSent>>
  BY DEF OrchestratorPut, Written
<1>2. o.put \in ValidManifest /\ "loop" \in CompactorPc
  BY <1>0, TypeInvTypes DEF CompactorPc
<1>3. o' \in [pc : CompactorPc, stored : ValidManifest, put : ValidManifest] /\ o'.pc = "loop"
  BY <1>1, <1>2, AtTypes
<1>4. /\ o.pc # "down" /\ o'.pc # "down" /\ o'.pc # "put" /\ o'.pc # "bumpPut"
      /\ Running /\ Running' /\ Compactor = state /\ Compactor' = state'
  BY <1>1, <1>3 DEF Running, Starting, Compactor
<1>5. o.put.core = Compactor
  BY <1>0, <1>1, <1>4 DEF PutInv
<1>6. manifest' \in [id : Nat, core : ManifestV1] /\ Linked(ssts, core, Latest'.core, Compactor)
  BY <1>1, <1>4, <1>5, CompactorUpload
<1>7. state' = state /\ state' \in ValidCore /\ state'.compacted = state.compacted
      /\ MaybeSchedule(state', compactions)
  BY <1>0, <1>1
<1>8. \E n \in 0..Len(state'.l0) : state.l0 = SubSeq(state'.l0, n + 1, Len(state'.l0))
  <2> DEFINE l0 == state.l0
  <2>1. l0 \in Seq(Nat)
    BY <1>0, CoreFields
  <2> HIDE DEF l0
  <2>2. 0 \in 0..Len(l0) /\ l0 = SubSeq(l0, 0 + 1, Len(l0))
    BY <2>1, SMT
  <2>3. \E n \in 0..Len(l0) : l0 = SubSeq(l0, n + 1, Len(l0))
    BY <2>2
  <2> QED
    BY <1>7, <2>3 DEF l0
<1>9. /\ SourcesAreOldest' /\ JobInv'
      /\ compactions' \in [DOMAIN compactions' -> Seq(Nat)]
      /\ DOMAIN compactions' \subseteq Nat
      /\ workers' \subseteq Worker
  BY <1>1, <1>4, <1>7, <1>8, MaybeScheduleKeeps
<1>10. stopped' \in BOOLEAN /\ closeSent' \in BOOLEAN /\ resultCh' \in Seq(SortedRun)
  BY <1>0, <1>1 DEF TypeInv
<1>11. Linked(ssts, core, Latest'.core, Compactor')
  BY <1>4, <1>6, <1>7
<1>12. TypeInv' /\ PutInv' /\ StackInv'
  BY <1>1, <1>3, <1>4, <1>6, <1>7, <1>9, <1>10, <1>11, CompactorSide
<1> QED
  BY <1>9, <1>12 DEF IInv

(* A new sorted run gets an id over those of all others. *)
LEMMA RunsBelow ==
  ASSUME NEW st \in CoreState, RunsDescend(st.compacted)
  PROVE  /\ NextSortedRunID(st) \in Nat
         /\ \A i \in 1..Len(st.compacted) : st.compacted[i].id < NextSortedRunID(st)
<1> DEFINE runs == st.compacted
<1>1. runs \in Seq(SortedRun)
  BY CoreFields
<1>2. NextSortedRunID(st) = IF runs = <<>> THEN 0 ELSE runs[1].id + 1
  BY DEF NextSortedRunID
<1>3. \A i, j \in DOMAIN runs : i < j => runs[i].id > runs[j].id
  BY DEF RunsDescend
<1> HIDE DEF runs
<1>4. \A i \in 1..Len(runs) : i \in DOMAIN runs /\ runs[i] \in SortedRun
  BY <1>1, SMT
<1>5. \A i \in 1..Len(runs) : runs[i].id \in Nat
  BY <1>4 DEF SortedRun
<1>6. CASE runs = <<>>
  <2>1. NextSortedRunID(st) = 0 /\ 1..Len(runs) = {}
    BY <1>1, <1>2, <1>6, SMT
  <2> QED
    BY <2>1, SMT DEF runs
<1>7. CASE runs # <<>>
  <2>1. 1 \in 1..Len(runs) /\ Len(runs) \in Nat
    BY <1>1, <1>7, SMT
  <2>2. runs[1].id \in Nat /\ NextSortedRunID(st) = runs[1].id + 1 /\ 1 \in DOMAIN runs
    BY <1>2, <1>4, <1>5, <1>7, <2>1
  <2>3. ASSUME NEW i \in 1..Len(runs) PROVE runs[i].id < NextSortedRunID(st)
    <3>1. runs[i].id \in Nat /\ i \in DOMAIN runs
      BY <1>4, <1>5
    <3>2. 1 < i => runs[1].id > runs[i].id
      BY <1>3, <2>2, <3>1
    <3>3. i = 1 => runs[i].id = runs[1].id
      OBVIOUS
    <3>4. i = 1 \/ 1 < i
      BY <2>1, SMT
    <3> QED
      BY <2>2, <3>1, <3>2, <3>3, <3>4, SMT
  <2> QED
    BY <2>2, <2>3, SMT DEF runs
<1> QED
  BY <1>6, <1>7

-----------------------------------------------------------------------------
(* The executor's goroutines *)

LEMMA WorkerTypes ==
  ASSUME IInv, NEW x \in workers
  PROVE  /\ x \in Worker /\ x.dest \in DOMAIN compactions /\ x.dest \in Nat /\ x.out \in Nat
         /\ x.sources = compactions[x.dest] /\ x.sources \in Seq(Nat)
         /\ \A i \in 1..Len(x.sources) : x.sources[i] \in DOMAIN ssts
         /\ x.out = 0 \/ (x.pc = "send" /\ Merged(ssts, x.out, x.sources))
         /\ resultCh = <<>>
         /\ \A y \in workers : y = x
         /\ Running /\ w.pc # "down"
         /\ ssts \in Seq(SUBSET (1..MaxBatches)) /\ ssts \in Seq(SUBSET Nat)
<1>0. TypeInv /\ JobInv /\ ssts \in Seq(SUBSET Nat)
  BY Parts
<1>1. x \in Worker /\ ssts \in Seq(SUBSET (1..MaxBatches))
  BY <1>0 DEF TypeInv
<1>2. x.dest \in Nat /\ x.out \in Nat
  BY <1>1 DEF Worker
<1>3. /\ x.dest \in DOMAIN compactions
      /\ x.sources = compactions[x.dest]
      /\ x.out = 0 \/ (x.pc = "send" /\ Merged(ssts, x.out, x.sources))
      /\ resultCh = <<>>
      /\ \A y \in workers : y = x
  BY <1>0 DEF JobInv
<1>4. /\ Running /\ w.pc # "down"
      /\ x.sources \in Seq(Nat)
      /\ \A i \in 1..Len(x.sources) : x.sources[i] \in DOMAIN ssts
  BY <1>3, SourcesAre
<1> QED
  BY <1>0, <1>1, <1>2, <1>3, <1>4

(* The job is in another place, with an output or without, or has ended. *)
LEMMA WorkerMoves ==
  ASSUME IInv, NEW x \in workers,
         UNCHANGED <<manifest, opens, writerVars, o, state, compactions, resultCh, stopped, closeSent>>,
         \/ UNCHANGED ssts
         \/ \E S \in SUBSET (1..MaxBatches) : ssts' = Append(ssts, S),
         NEW Y \in SUBSET Worker, \A y, z \in Y : y = z,
         workers' = (workers \ {x}) \cup Y,
         \A y \in Y : /\ y.dest = x.dest /\ y.sources = x.sources
                      /\ y.out = 0 \/ (y.pc = "send" /\ Merged(ssts', y.out, y.sources))
  PROVE  IInv'
<1>0. TypeInv /\ JobInv
  BY Parts
<1>1. /\ x.dest \in DOMAIN compactions
      /\ x.sources = compactions[x.dest]
      /\ resultCh = <<>>
      /\ \A y \in workers : y = x
      /\ Running /\ w.pc # "down"
  BY WorkerTypes
<1>2. workers' = Y
  BY <1>1
<1>3. /\ compactions' = compactions /\ resultCh' = resultCh
      /\ NextSortedRunID(state') = NextSortedRunID(state)
      /\ Running'
      /\ Len(resultCh) <= 1
  BY <1>0, <1>1 DEF Running, JobInv
<1>4. \A y \in workers' :
        /\ y.dest \in DOMAIN compactions'
        /\ y.sources = compactions'[y.dest]
        /\ y.out = 0 \/ (y.pc = "send" /\ Merged(ssts', y.out, y.sources))
        /\ resultCh' = <<>>
        /\ \A z \in workers' : y = z
  BY <1>1, <1>2, <1>3
<1>5. JobInv'
  BY <1>0, <1>1, <1>3, <1>4 DEF JobInv
<1>6. workers' \subseteq Worker /\ resultCh' \in Seq(SortedRun)
  BY <1>0, <1>2, <1>3 DEF TypeInv
<1>7. UNCHANGED <<manifest, opens, writerVars, o, state, compactions, stopped, closeSent>>
  OBVIOUS
<1> QED
  BY <1>1, <1>5, <1>6, <1>7, WorkerSide

LEMMA WorkerStartsStep ==
  ASSUME IInv, NEW x \in workers, WorkerStarts(x) \/ WorkerFails(x)
  PROVE  IInv'
<1>1. /\ x \in Worker
      /\ x.out = 0 \/ x.pc = "send"
  BY WorkerTypes
<1>2. x.out = 0
      /\ UNCHANGED <<manifest, opens, writerVars, o, state, compactions, resultCh, stopped, closeSent>>
      /\ UNCHANGED ssts
  BY <1>1 DEF WorkerStarts, WorkerFails
<1>3. PICK pc \in {"run", "send"} :
        workers' = (workers \ {x}) \cup {[x EXCEPT !.pc = pc]} \/ workers' = (workers \ {x}) \cup {}
  BY DEF WorkerStarts, WorkerFails
<1> DEFINE y == [x EXCEPT !.pc = pc]
<1>4. y \in Worker /\ y.dest = x.dest /\ y.sources = x.sources /\ y.out = 0
  BY <1>1, <1>2, <1>3, SMT DEF Worker
<1> HIDE DEF y
<1>5. CASE workers' = (workers \ {x}) \cup {y}
  <2>1. {y} \in SUBSET Worker /\ (\A a, b \in {y} : a = b)
        /\ \A a \in {y} : a.dest = x.dest /\ a.sources = x.sources /\ a.out = 0
    BY <1>4
  <2> QED
    BY <1>2, <1>5, <2>1, WorkerMoves
<1>6. CASE workers' = (workers \ {x}) \cup {}
  <2>1. {} \in SUBSET Worker /\ (\A a, b \in {} : a = b)
        /\ \A a \in {} : a.dest = x.dest /\ a.sources = x.sources /\ a.out = 0
    OBVIOUS
  <2> QED
    BY <1>2, <1>6, <2>1, WorkerMoves
<1> QED
  BY <1>3, <1>5, <1>6 DEF y

(* The SST that executeCompaction writes. *)
LEMMA MergedNew ==
  ASSUME NEW B, NEW t \in Seq(SUBSET B), NEW s \in Seq(Nat),
         \A i \in 1..Len(s) : s[i] \in DOMAIN t
  PROVE  /\ HeldFrom(t, s, 1) \in SUBSET B
         /\ Merged(Append(t, HeldFrom(t, s, 1)), Len(t) + 1, s)
<1> DEFINE S == HeldFrom(t, s, 1)
           u == Append(t, S)
<1>1. \A n \in DOMAIN t : t[n] \in SUBSET B
  BY SMT
<1>2. S \in SUBSET B
  BY <1>1 DEF HeldFrom
<1> HIDE DEF S
<1>3. /\ \A n \in DOMAIN t : u[n] = t[n]
      /\ Len(t) + 1 \in DOMAIN u /\ u[Len(t) + 1] = S
  BY <1>2, SMT
<1> HIDE DEF u
<1>4. {u[s[i]] : i \in 1..Len(s)} = {t[s[i]] : i \in 1..Len(s)}
  BY <1>3, ZenonT(60)
<1>5. HeldFrom(u, s, 1) = S
  BY <1>4 DEF HeldFrom, S
<1>6. Merged(u, Len(t) + 1, s)
  BY <1>3, <1>5 DEF Merged
<1> QED
  BY <1>2, <1>6 DEF S, u

LEMMA WorkerRunsStep ==
  ASSUME IInv, NEW x \in workers, WorkerRuns(x)
  PROVE  IInv'
<1> DEFINE S == HeldFrom(ssts, x.sources, 1)
           y == [x EXCEPT !.pc = "send", !.out = Len(ssts) + 1]
<1>1. /\ x \in Worker /\ x.sources \in Seq(Nat)
      /\ \A i \in 1..Len(x.sources) : x.sources[i] \in DOMAIN ssts
      /\ ssts \in Seq(SUBSET (1..MaxBatches))
  BY WorkerTypes
<1>2. S \in SUBSET (1..MaxBatches) /\ Merged(Append(ssts, S), Len(ssts) + 1, x.sources)
  BY <1>1, MergedNew
<1>3. ssts' = Append(ssts, S)
  <2>1. DOMAIN x.sources = 1..Len(x.sources)
    BY <1>1, SMT
  <2> QED
    BY <2>1 DEF WorkerRuns, HeldFrom
<1>4. /\ workers' = (workers \ {x}) \cup {y}
      /\ UNCHANGED <<manifest, opens, writerVars, o, state, compactions, resultCh, stopped, closeSent>>
  BY DEF WorkerRuns
<1>5. y \in Worker /\ y.dest = x.dest /\ y.sources = x.sources /\ y.pc = "send"
      /\ y.out = Len(ssts) + 1
  <2>1. Len(ssts) + 1 \in Nat
    BY <1>1, SMT
  <2> DEFINE n == Len(ssts) + 1
  <2> HIDE DEF n
  <2>2. y = [x EXCEPT !.pc = "send", !.out = n]
    BY DEF n
  <2> HIDE DEF y
  <2>3. y \in Worker /\ y.dest = x.dest /\ y.sources = x.sources /\ y.pc = "send" /\ y.out = n
    BY <1>1, <2>1, <2>2 DEF Worker, n
  <2> QED
    BY <2>3 DEF n
<1> HIDE DEF S, y
<1>6. Merged(ssts', y.out, y.sources)
  BY <1>2, <1>3, <1>5
<1>7. {y} \in SUBSET Worker /\ (\A a, b \in {y} : a = b)
      /\ \A a \in {y} : /\ a.dest = x.dest /\ a.sources = x.sources
                        /\ a.pc = "send" /\ Merged(ssts', a.out, a.sources)
  BY <1>5, <1>6
<1> QED
  BY <1>2, <1>3, <1>4, <1>7, WorkerMoves

LEMMA WorkerSendsStep ==
  ASSUME IInv, NEW x \in workers, WorkerSends(x)
  PROVE  IInv'
<1> DEFINE sr == [id |-> x.dest, sst |-> x.out]
<1>0. TypeInv /\ JobInv
  BY Parts
<1>1. /\ x.dest \in DOMAIN compactions /\ x.dest \in Nat /\ x.out \in Nat
      /\ x.sources = compactions[x.dest]
      /\ x.out = 0 \/ Merged(ssts, x.out, x.sources)
      /\ resultCh = <<>>
      /\ \A y \in workers : y = x
      /\ Running /\ w.pc # "down"
  BY WorkerTypes
<1>2. /\ resultCh' = Append(resultCh, sr)
      /\ workers' = workers \ {x}
      /\ UNCHANGED <<manifest, opens, writerVars, o, state, compactions, stopped, closeSent>>
      /\ UNCHANGED ssts
  BY DEF WorkerSends
<1>3. sr \in SortedRun /\ sr.id = x.dest /\ sr.sst = x.out
  BY <1>1 DEF SortedRun
<1> HIDE DEF sr
<1>4. resultCh' \in Seq(SortedRun) /\ Len(resultCh') <= 1 /\ resultCh'[1] = sr
  BY <1>1, <1>2, <1>3, SMT
<1>5. workers' = {}
  BY <1>1, <1>2
<1>6. Running' /\ NextSortedRunID(state') = NextSortedRunID(state) /\ compactions' = compactions
      /\ ssts' = ssts
  BY <1>1, <1>2 DEF Running
<1>7. /\ resultCh'[1].id \in DOMAIN compactions'
      /\ resultCh'[1].sst = 0 \/ Merged(ssts', resultCh'[1].sst, compactions'[resultCh'[1].id])
  BY <1>1, <1>3, <1>4, <1>6
<1>8. JobInv'
  BY <1>0, <1>4, <1>5, <1>6, <1>7 DEF JobInv
<1>9. workers' \subseteq Worker
  BY <1>5
<1> QED
  BY <1>1, <1>2, <1>4, <1>8, <1>9, WorkerSide

-----------------------------------------------------------------------------
(* The first state, and steps that change nothing *)

(* The state of a new database is a stack, whatever SSTs there are. *)
LEMMA StackedNew ==
  ASSUME NEW t
  PROVE  Stacked(t, NewCoreDBState)
<1>1. /\ NewCoreDBState.l0 = <<>> /\ NewCoreDBState.compacted = <<>>
      /\ NewCoreDBState.l0LastCompacted = 0 /\ NewCoreDBState.lastCompactedWalSSTID = 0
  BY SMT DEF NewCoreDBState
<1>2. Top(t, 0) = 0 /\ 0 \in Nat
  BY SMT DEF Top
<1>3. RunSSTs(<<>>) = <<>> /\ DOMAIN <<>> = {}
  BY SMT DEF RunSSTs
<1>4. \A base : Chain(t, <<>>, base) /\ FirstTop(t, <<>>, base) = base
  BY <1>3 DEF Chain, FirstTop
<1>5. RunsDescend(<<>>)
  BY <1>3 DEF RunsDescend
<1> QED
  BY <1>1, <1>2, <1>3, <1>4, <1>5 DEF Stacked

LEMMA InitInv ==
  ASSUME Init
  PROVE  IInv
<1> DEFINE new == [id |-> 1, core |-> NewCoreDBState]
<1>1. NewCoreDBState \in ValidCore /\ NoManifest \in ValidManifest
  BY NewValid
<1>2. /\ Down \in [pc : WriterPc, stored : ValidManifest, put : ValidManifest]
      /\ Down \in [pc : CompactorPc, stored : ValidManifest, put : ValidManifest]
      /\ Down.pc = "down"
  BY <1>1, AtTypes DEF Down, WriterPc, CompactorPc
<1>3. NoCompactions \in [DOMAIN NoCompactions -> Seq(Nat)] /\ DOMAIN NoCompactions = {}
  BY SMT DEF NoCompactions
<1>4. /\ ssts = <<>> /\ manifest = ManifestFile(new) /\ opens = 0
      /\ core = NewCoreDBState /\ state = NewCoreDBState /\ w = Down /\ o = Down
      /\ compactions = NoCompactions /\ workers = {} /\ resultCh = <<>>
      /\ stopped = FALSE /\ closeSent = FALSE
  BY DEF Init
<1>5. /\ resultCh \in Seq(SortedRun) /\ Len(resultCh) <= 1
      /\ ssts \in Seq(SUBSET (1..MaxBatches)) /\ opens \in Nat
  BY <1>4, SMT
<1>6. manifest \in [id : Nat, core : ManifestV1] /\ Latest.core = NewCoreDBState
  <2>1. EncodeManifest(NewCoreDBState) \in ManifestV1
        /\ DecodeManifest(EncodeManifest(NewCoreDBState)) = NewCoreDBState
    BY <1>1, RoundTrip
  <2>2. manifest = [id |-> 1, core |-> EncodeManifest(NewCoreDBState)]
    BY <1>4 DEF ManifestFile
  <2>3. manifest.core = EncodeManifest(NewCoreDBState)
    BY <2>2
  <2>4. Latest.core = DecodeManifest(manifest.core)
    BY DEF Latest, ReadManifest
  <2> QED
    BY <2>1, <2>2, <2>3, <2>4, SMT
<1>7. TypeInv
  <2>1. workers \subseteq Worker /\ stopped \in BOOLEAN /\ closeSent \in BOOLEAN
    BY <1>4
  <2>2. compactions \in [DOMAIN compactions -> Seq(Nat)] /\ DOMAIN compactions \subseteq Nat
    BY <1>3, <1>4
  <2> QED
    BY <1>1, <1>2, <1>4, <1>5, <1>6, <2>1, <2>2 DEF TypeInv
<1>8. w.pc = "down" /\ o.pc = "down"
  BY <1>2, <1>4
<1>9. Stacked(ssts, NewCoreDBState)
  BY StackedNew
<1>10. PutInv /\ StackInv
  BY <1>4, <1>6, <1>8, <1>9 DEF PutInv, StackInv
<1>11. SourcesAreOldest /\ JobInv
  BY <1>3, <1>4, <1>5 DEF SourcesAreOldest, JobInv
<1> QED
  BY <1>7, <1>10, <1>11 DEF IInv

LEMMA StutterStep ==
  ASSUME IInv, UNCHANGED vars
  PROVE  IInv'
<1>0. TypeInv /\ PutInv /\ StackInv /\ SourcesAreOldest /\ JobInv
  BY Parts
<1>1. UNCHANGED <<ssts, manifest, opens, core, w, o, state, compactions, workers, resultCh,
                  stopped, closeSent>>
  BY DEF vars, writerVars, compactorVars, execVars
<1>2. Latest' = Latest
  BY <1>1, LatestSame
<1>3. Running' <=> Running
  BY <1>1 DEF Running
<1>4. Compactor' = Compactor
  BY <1>1, <1>2 DEF Compactor, Starting, Running
<1>5. TypeInv' /\ PutInv'
  BY <1>0, <1>1 DEF TypeInv, PutInv
<1>6. StackInv'
  BY <1>0, <1>1, <1>2, <1>3, <1>4 DEF StackInv
<1>7. SourcesAreOldest' /\ JobInv'
  BY <1>1, <1>3, JobFrame
<1> QED
  BY <1>5, <1>6, <1>7 DEF IInv

-----------------------------------------------------------------------------
(* The filters of FinishCompaction *)

(* A hypothesis, as LeastElement. *)
IntervalSize == \A n \in Nat : Cardinality(1..n) = n

LEMMA KeptPrefix ==
  ASSUME IntervalSize, NEW S, NEW s \in Seq(S), NEW m \in 0..Len(s)
  PROVE  Kept(s, 1..m) = SubSeq(s, 1, m)
<1>0. m \in Nat
  BY SMT
<1>1. \A k \in 0..m : Cardinality(1..k) = k
  <2>1. \A k \in 0..m : k \in Nat
    BY <1>0, SMT
  <2> QED
    BY <2>1 DEF IntervalSize
<1>2. \A i \in 1..m : {j \in 1..m : j <= i} = 1..i
  BY <1>0, SMT
<1>3. \A i \in 1..m : Cardinality({j \in 1..m : j <= i}) = i
  <2> TAKE i \in 1..m
  <2>1. i \in 0..m
    BY <1>0, SMT
  <2> QED
    BY <1>1, <1>2, <2>1
<1>4. \A k \in 1..m : (CHOOSE i \in 1..m : Cardinality({j \in 1..m : j <= i}) = k) = k
  BY <1>3
<1>5. Cardinality(1..m) = m
  <2>1. m \in 0..m
    BY <1>0, SMT
  <2> QED
    BY <1>1, <2>1
<1>6. Kept(s, 1..m) = [k \in 1..m |-> s[k]]
  <2> DEFINE at(k) == CHOOSE i \in 1..m : Cardinality({j \in 1..m : j <= i}) = k
  <2>1. Kept(s, 1..m) = [k \in 1..m |-> s[at(k)]]
    BY <1>5, SMT DEF Kept
  <2>2. \A k \in 1..m : at(k) = k
    BY <1>4
  <2> HIDE DEF at
  <2>3. [k \in 1..m |-> s[at(k)]] = [k \in 1..m |-> s[k]]
    BY <2>2, SMT
  <2> QED
    BY <2>1, <2>3
<1>7. SubSeq(s, 1, m) = [k \in 1..m |-> s[k]]
  BY SMT
<1> QED
  BY <1>6, <1>7

LEMMA KeptAll ==
  ASSUME IntervalSize, NEW S, NEW s \in Seq(S)
  PROVE  Kept(s, 1..Len(s)) = s
<1>1. Len(s) \in 0..Len(s) /\ SubSeq(s, 1, Len(s)) = s
  BY SMT
<1> QED
  BY <1>1, KeptPrefix

LEMMA KeptNone ==
  ASSUME IntervalSize, NEW S, NEW s \in Seq(S)
  PROVE  Kept(s, {}) = <<>>
<1>1. 0 \in 0..Len(s) /\ SubSeq(s, 1, 0) = <<>> /\ 1..0 = {}
  BY SMT
<1> QED
  BY <1>1, KeptPrefix

Finished(st, k, sr) ==
  [st EXCEPT !.l0 = SubSeq(st.l0, 1, k - 1),
             !.compacted = <<sr>> \o st.compacted,
             !.l0LastCompacted = st.l0[k]]

(* Places in a list of length n and in its end from place k on. *)
LEMMA Places ==
  ASSUME NEW n \in Nat, NEW k \in 1..n, NEW i \in 1..n
  PROVE  /\ i \notin 1..k - 1 => \E m \in 1..n - k + 1 : k + m - 1 = i
         /\ \A m \in 1..n - k + 1 :
              k + m - 1 \in 1..n /\ (i \in 1..k - 1 => i < k + m - 1)
<1>1. ASSUME i \notin 1..k - 1 PROVE \E m \in 1..n - k + 1 : k + m - 1 = i
  <2>1. i - k + 1 \in 1..n - k + 1 /\ k + (i - k + 1) - 1 = i
    BY <1>1, SMT
  <2> QED
    BY <2>1
<1>2. \A m \in 1..n - k + 1 : k + m - 1 \in 1..n /\ (i \in 1..k - 1 => i < k + m - 1)
  BY SMT
<1> QED
  BY <1>1, <1>2

(* FinishCompaction when the sources are the SSTs of L0 from place k on and *)
(* the sorted run has the highest id.                                       *)
LEMMA FinishIs ==
  ASSUME IntervalSize, NEW t \in Seq(SUBSET Nat), NEW st \in CoreState, Stacked(t, st),
         NEW k \in 1..Len(st.l0), NEW sources, sources = SubSeq(st.l0, k, Len(st.l0)),
         NEW sr \in SortedRun, \A i \in 1..Len(st.compacted) : st.compacted[i].id < sr.id
  PROVE  FinishCompaction(st, sources, sr) = Finished(st, k, sr)
<1> DEFINE l0 == st.l0
           runs == st.compacted
           base == Top(t, st.l0LastCompacted)
<1>0. l0 \in Seq(Nat) /\ runs \in Seq(SortedRun)
  BY CoreFields
<1>1. /\ Len(sources) = Len(l0) - k + 1
      /\ DOMAIN sources = 1..Len(l0) - k + 1
      /\ \A i \in 1..Len(l0) - k + 1 : sources[i] = l0[k + i - 1]
  BY <1>0, SMT
<1>2. \A i, j \in DOMAIN l0 : i < j => l0[i] # l0[j]
  <2> TAKE i, j \in DOMAIN l0
  <2> HAVE i < j
  <2>1. Top(t, l0[i]) \in Nat /\ Top(t, l0[j]) < Top(t, l0[i])
    BY DEF Stacked, Chain
  <2>2. Top(t, l0[j]) # Top(t, l0[i])
    BY <2>1, SMT
  <2> QED
    BY <2>2
<1>3. ASSUME NEW i \in DOMAIN l0 PROVE l0[i] \notin Range(sources) <=> i \in 1..k - 1
  <2>0. Len(l0) \in Nat /\ DOMAIN l0 = 1..Len(l0)
    BY <1>0, SMT
  <2>1. CASE i \in 1..k - 1
    <3>1. ASSUME NEW m \in DOMAIN sources, l0[i] = sources[m] PROVE FALSE
      <4>1. m \in 1..Len(l0) - k + 1 /\ k + m - 1 \in DOMAIN l0 /\ i < k + m - 1
        BY <1>1, <2>0, <2>1, Places
      <4>2. sources[m] = l0[k + m - 1]
        BY <1>1, <4>1
      <4> QED
        BY <1>2, <3>1, <4>1, <4>2
    <3> QED
      BY <2>1, <3>1 DEF Range
  <2>2. CASE i \notin 1..k - 1
    <3>0. i \in 1..Len(l0) /\ k \in 1..Len(l0)
      BY <2>0
    <3>1. PICK m \in 1..Len(l0) - k + 1 : k + m - 1 = i
      BY <2>0, <2>2, <3>0, Places
    <3>2. m \in DOMAIN sources /\ sources[m] = l0[i]
      BY <1>1, <3>1
    <3> QED
      BY <2>2, <3>2 DEF Range
  <2> QED
    BY <2>1, <2>2
<1>4. {i \in DOMAIN l0 : l0[i] \notin Range(sources)} = 1..k - 1
  <2>1. 1..k - 1 \subseteq DOMAIN l0
    BY <1>0, SMT
  <2> QED
    BY <1>3, <2>1
<1>5. Kept(l0, {i \in DOMAIN l0 : l0[i] \notin Range(sources)}) = SubSeq(l0, 1, k - 1)
  <2>1. k - 1 \in 0..Len(l0)
    BY <1>0, SMT
  <2>2. Kept(l0, 1..k - 1) = SubSeq(l0, 1, k - 1)
    BY <1>0, <2>1, KeptPrefix
  <2> QED
    BY <1>4, <2>2
<1>6. \A i \in DOMAIN runs : ~(runs[i].id > sr.id) /\ runs[i].id < sr.id
  <2> TAKE i \in DOMAIN runs
  <2>1. i \in 1..Len(runs) /\ runs[i] \in SortedRun
    BY <1>0, SMT
  <2>2. runs[i].id \in Nat /\ sr.id \in Nat /\ runs[i].id < sr.id
    BY <2>1 DEF SortedRun
  <2> HIDE DEF runs
  <2> QED
    BY <2>2, SMT
<1>7. {i \in DOMAIN runs : runs[i].id > sr.id} = {}
  BY <1>6
<1>8. {i \in DOMAIN runs : runs[i].id < sr.id} = 1..Len(runs)
  <2>1. DOMAIN runs = 1..Len(runs)
    BY <1>0, SMT
  <2> QED
    BY <1>6, <2>1
<1>9. Kept(runs, {i \in DOMAIN runs : runs[i].id > sr.id})
        \o <<sr>> \o Kept(runs, {i \in DOMAIN runs : runs[i].id < sr.id}) = <<sr>> \o runs
  <2>1. Kept(runs, {}) = <<>> /\ Kept(runs, 1..Len(runs)) = runs
    BY <1>0, KeptAll, KeptNone
  <2>2. <<>> \o <<sr>> \o runs = <<sr>> \o runs
    BY <1>0, SMT
  <2> QED
    BY <1>7, <1>8, <2>1, <2>2
<1>10. sources[1] = l0[k]
  <2>1. 1 \in 1..Len(l0) - k + 1 /\ k + 1 - 1 = k
    BY <1>0, SMT
  <2> QED
    BY <1>1, <2>1
<1> QED
  BY <1>5, <1>9, <1>10 DEF FinishCompaction, Finished

(* What the sources hold is what the lower end of L0 holds. *)
LEMMA HeldEnd ==
  ASSUME NEW t, NEW s \in Seq(Nat), NEW k \in 1..Len(s), NEW u, u = SubSeq(s, k, Len(s))
  PROVE  HeldFrom(t, u, 1) = HeldFrom(t, s, k)
<1>1. Len(s) \in Nat /\ k \in 1..Len(s) + 1 /\ Len(s) \in 0..Len(s) /\ k <= Len(s) + 1
  BY SMT
<1>2. Len(u) = Len(s) - k + 1 /\ \A i \in 1..Len(s) - k + 1 : u[i] = s[k + i - 1]
  BY <1>1, Stretch, SMT
<1>3. \A i \in 1..Len(u) : k + i - 1 \in k..Len(s) /\ u[i] = s[k + i - 1]
  BY <1>1, <1>2, SMT
<1>4. \A j \in k..Len(s) : j - k + 1 \in 1..Len(u) /\ u[j - k + 1] = s[j]
  BY <1>1, <1>2, SMT
<1>5. ASSUME NEW x PROVE x \in HeldFrom(t, u, 1) <=> x \in HeldFrom(t, s, k)
  <2>1. ASSUME x \in HeldFrom(t, u, 1) PROVE x \in HeldFrom(t, s, k)
    <3>1. PICK i \in 1..Len(u) : x \in t[u[i]]
      BY <2>1 DEF HeldFrom
    <3>2. k + i - 1 \in k..Len(s) /\ x \in t[s[k + i - 1]]
      BY <1>3, <3>1
    <3> QED
      BY <3>2 DEF HeldFrom
  <2>2. ASSUME x \in HeldFrom(t, s, k) PROVE x \in HeldFrom(t, u, 1)
    <3>1. PICK j \in k..Len(s) : x \in t[s[j]]
      BY <2>2 DEF HeldFrom
    <3>2. j - k + 1 \in 1..Len(u) /\ x \in t[u[j - k + 1]]
      BY <1>4, <3>1
    <3> QED
      BY <3>2 DEF HeldFrom
  <2> QED
    BY <2>1, <2>2
<1> QED
  BY <1>5

LEMMA OneResult ==
  ASSUME NEW S, NEW s \in Seq(S), s # <<>>, Len(s) <= 1
  PROVE  Tail(s) = <<>> /\ Head(s) = s[1] /\ s[1] \in S
BY SMT

LEMMA ProcessResultStep ==
  ASSUME LeastElement, IntervalSize, IInv, ProcessResult
  PROVE  IInv'
<1> DEFINE sr == resultCh[1]
           src == compactions[sr.id]
           l0 == state.l0
<1>0. TypeInv /\ JobInv /\ ssts \in Seq(SUBSET Nat) /\ core \in CoreState
      /\ state \in ValidCore /\ state \in CoreState /\ Latest.core \in CoreState
      /\ manifest \in [id : Nat, core : ManifestV1]
  BY Parts
<1>1. resultCh \in Seq(SortedRun) /\ workers \subseteq Worker
      /\ compactions \in [DOMAIN compactions -> Seq(Nat)] /\ DOMAIN compactions \subseteq Nat
      /\ o \in [pc : CompactorPc, stored : ValidManifest, put : ValidManifest]
  BY <1>0 DEF TypeInv
<1>2. o.pc = "loop" /\ resultCh # <<>> /\ resultCh' = Tail(resultCh)
      /\ UNCHANGED <<ssts, manifest, opens, writerVars, workers, stopped, closeSent>>
  BY DEF ProcessResult
<1>3. Head(resultCh) = sr /\ resultCh' = <<>> /\ sr \in SortedRun
  <2>1. Len(resultCh) <= 1
    BY <1>0 DEF JobInv
  <2> QED
    BY <1>1, <1>2, <2>1, OneResult
<1>4. workers = {} /\ workers' = {}
  BY <1>0, <1>2 DEF JobInv
<1>5. /\ sr.id \in DOMAIN compactions
      /\ sr.sst = 0 \/ Merged(ssts, sr.sst, src)
  BY <1>0, <1>2 DEF JobInv
<1>6. Len(<<>>) <= 1 /\ <<>> \in Seq(SortedRun)
  BY SMT
<1>7. Running /\ w.pc # "down"
  BY <1>5, SourcesAre
<1>8. CASE sr.sst = 0
  <2>1. UNCHANGED <<o, state, compactions>>
    BY <1>3, <1>8 DEF ProcessResult
  <2>2. Running'
    BY <1>7, <2>1 DEF Running
  <2>3. NextSortedRunID(state') = NextSortedRunID(state)
    BY <2>1
  <2>4. JobInv'
    BY <1>0, <1>3, <1>4, <1>6, <2>1, <2>2, <2>3 DEF JobInv
  <2>5. UNCHANGED <<manifest, opens, writerVars, o, state, compactions, stopped, closeSent>>
    BY <1>2, <2>1
  <2>6. resultCh' \in Seq(SortedRun) /\ workers' \subseteq Worker /\ UNCHANGED ssts
    BY <1>1, <1>2, <1>3, <1>6
  <2> QED
    BY <1>7, <2>4, <2>5, <2>6, WorkerSide
<1>9. CASE sr.sst # 0
  <2>1. /\ o' = [o EXCEPT !.pc = "load"]
        /\ state' = FinishCompaction(state, src, sr)
        /\ compactions' = [d \in DOMAIN compactions \ {sr.id} |-> compactions[d]]
    BY <1>3, <1>9 DEF ProcessResult
  <2>2. /\ Stacked(ssts, state)
        /\ sr.id = NextSortedRunID(state)
        /\ \E k \in 1..Len(l0) : src = SubSeq(l0, k, Len(l0))
    BY <1>5, SourcesAre
  <2>3. PICK k \in 1..Len(l0) : src = SubSeq(l0, k, Len(l0))
    BY <2>2
  <2>4. Merged(ssts, sr.sst, src)
    BY <1>5, <1>9
  <2> HIDE DEF sr, src
  <2>5. l0 \in Seq(Nat) /\ state.compacted \in Seq(SortedRun)
    BY <1>0, CoreFields
  <2>6. \A i \in 1..Len(state.compacted) : state.compacted[i].id < sr.id
    BY <1>0, <2>2, RunsBelow DEF Stacked
  <2>7. sr.sst \in DOMAIN ssts /\ ssts[sr.sst] = HeldFrom(ssts, l0, k)
    <3>1. HeldFrom(ssts, src, 1) = HeldFrom(ssts, l0, k)
      BY <2>3, <2>5, HeldEnd
    <3> QED
      BY <2>4, <3>1 DEF Merged
  <2>8. state' = [state EXCEPT !.l0 = SubSeq(l0, 1, k - 1),
                               !.compacted = <<sr>> \o state.compacted,
                               !.l0LastCompacted = l0[k]]
    <3>1. FinishCompaction(state, src, sr) = Finished(state, k, sr)
      BY <1>0, <1>3, <2>2, <2>3, <2>6, FinishIs
    <3> QED
      BY <2>1, <3>1 DEF Finished
  <2>9. /\ SubSeq(l0, 1, k - 1) \in Seq(Nat)
        /\ l0[k] \in Nat
        /\ <<sr>> \o state.compacted \in Seq(SortedRun)
    <3> HIDE DEF l0
    <3>1. SubSeq(l0, 1, k - 1) \in Seq(Nat) /\ l0[k] \in Nat
      BY <2>3, <2>5, SMT
    <3>2. <<sr>> \in Seq(SortedRun)
      BY <1>3, SMT
    <3>3. <<sr>> \o state.compacted \in Seq(SortedRun)
      BY <2>5, <3>2, SMT
    <3> QED
      BY <3>1, <3>3
  <2>10. /\ state' \in CoreState
         /\ state'.l0 = SubSeq(l0, 1, k - 1)
         /\ state'.l0LastCompacted = l0[k]
         /\ state'.compacted = <<sr>> \o state.compacted
         /\ state'.lastCompactedWalSSTID = state.lastCompactedWalSSTID
         /\ state'.nextWalSstID = state.nextWalSstID
    <3> DEFINE a == SubSeq(l0, 1, k - 1)
               b == <<sr>> \o state.compacted
               c == l0[k]
    <3>1. a \in Seq(Nat) /\ b \in Seq(SortedRun) /\ c \in Nat
      BY <2>9
    <3>2. state' = [state EXCEPT !.l0 = a, !.compacted = b, !.l0LastCompacted = c]
      BY <2>8
    <3> HIDE DEF a, b, c
    <3>3. /\ state' \in CoreState
          /\ state'.l0 = a
          /\ state'.l0LastCompacted = c
          /\ state'.compacted = b
          /\ state'.lastCompactedWalSSTID = state.lastCompactedWalSSTID
          /\ state'.nextWalSstID = state.nextWalSstID
      BY <1>0, <3>1, <3>2 DEF CoreState
    <3> QED
      BY <3>3 DEF a, b, c
  <2>11. state' \in ValidCore
    BY <1>0, <2>10 DEF ValidCore
  <2>12. Stacked(ssts, state') /\ Leads(state', state)
    BY <1>0, <1>3, <2>2, <2>3, <2>6, <2>7, <2>10, FinishStacked
  <2>13. "load" \in CompactorPc
    BY DEF CompactorPc
  <2>14. /\ o' \in [pc : CompactorPc, stored : ValidManifest, put : ValidManifest]
         /\ o'.pc = "load"
    BY <1>1, <2>1, <2>13
  <2>15. /\ o.pc # "down" /\ o'.pc # "down" /\ o'.pc # "put" /\ o'.pc # "bumpPut"
         /\ Running' /\ Compactor = state /\ Compactor' = state'
    BY <1>2, <2>14 DEF Running, Starting, Compactor
  <2>16. Latest' = Latest
    BY <1>2, LatestSame
  <2>17. Linked(ssts, core, Latest.core, state)
    BY <1>7, <2>15, Parts
  <2>18. Linked(ssts, core, Latest.core, state')
    BY <1>0, <2>10, <2>12, <2>17, LinkedFinish
  <2>19. Linked(ssts, core, Latest'.core, Compactor')
    BY <2>15, <2>16, <2>18
  <2>20. DOMAIN compactions' = {}
    <3>1. DOMAIN compactions' = DOMAIN compactions \ {sr.id}
      BY <2>1
    <3>2. DOMAIN compactions \subseteq {sr.id}
      BY <1>0, <2>2 DEF JobInv
    <3> QED
      BY <3>1, <3>2
  <2>21. compactions' \in [DOMAIN compactions' -> Seq(Nat)] /\ DOMAIN compactions' \subseteq Nat
    <3>1. compactions' \in [DOMAIN compactions \ {sr.id} -> Seq(Nat)]
      BY <1>1, <2>1
    <3>2. DOMAIN compactions' = DOMAIN compactions \ {sr.id}
      BY <2>1
    <3> QED
      BY <2>20, <3>1, <3>2
  <2>22. /\ stopped' \in BOOLEAN /\ closeSent' \in BOOLEAN /\ resultCh' \in Seq(SortedRun)
         /\ workers' \subseteq Worker /\ manifest' \in [id : Nat, core : ManifestV1]
    BY <1>0, <1>2, <1>3, <1>6 DEF TypeInv
  <2>23. TypeInv' /\ PutInv' /\ StackInv'
    BY <1>2, <2>11, <2>14, <2>15, <2>19, <2>21, <2>22, CompactorSide
  <2>24. SourcesAreOldest'
    BY <2>20 DEF SourcesAreOldest
  <2>25. JobInv'
    BY <1>3, <1>4, <1>6, <2>15, <2>20 DEF JobInv
  <2> QED
    BY <2>23, <2>24, <2>25 DEF IInv
<1> QED
  BY <1>8, <1>9

-----------------------------------------------------------------------------
(* The invariant is inductive *)

LEMMA NextInv ==
  ASSUME LeastElement, IntervalSize, IInv, [Next]_vars
  PROVE  IInv'
<1>1. CASE Crash \/ OpenWriter \/ (\E batch \in 1..MaxBatches : FlushToL0(batch))
  BY <1>1, CrashStep, OpenWriterStep, FlushToL0Step
<1>2. CASE WriterLoad \/ WriterExists \/ WriterPut \/ WriterFails
  BY <1>2, WriterLoadStep, WriterExistsStep, WriterPutStep
<1>3. CASE StartLoad \/ StartExists \/ StartPut \/ StartFails
  BY <1>3, StartLoadStep, StartExistsStep, StartPutStep, StartFailsStep
<1>4. CASE OrchestratorLoad \/ ProcessResult \/ OrchestratorExists \/ OrchestratorPut
           \/ OrchestratorPanics
  BY <1>4, OrchestratorLoadStep, ProcessResultStep, OrchestratorExistsStep, OrchestratorPutStep,
     OrchestratorPanicsStep
<1>5. CASE \E x \in workers : WorkerStarts(x) \/ WorkerRuns(x) \/ WorkerFails(x) \/ WorkerSends(x)
  BY <1>5, WorkerStartsStep, WorkerRunsStep, WorkerSendsStep
<1>6. CASE CloseCompactor \/ StopExecutor \/ ExecutorStopped \/ LoopExits
  BY <1>6, ShutdownStep
<1>7. CASE UNCHANGED vars
  BY <1>7, StutterStep
<1> QED
  BY <1>1, <1>2, <1>3, <1>4, <1>5, <1>6, <1>7 DEF Next

-----------------------------------------------------------------------------
(* What a stack means for a reader *)

LEMMA LayersAre ==
  ASSUME NEW c \in CoreState
  PROVE  /\ DOMAIN Layers(c) = 1..Len(c.l0) + Len(c.compacted)
         /\ \A i \in 1..Len(c.l0) : Layers(c)[i] = ssts[c.l0[i]]
         /\ \A i \in 1..Len(c.compacted) :
              Layers(c)[Len(c.l0) + i] = ssts[RunSSTs(c.compacted)[i]]
<1> DEFINE l0 == c.l0
           runs == c.compacted
           x == [i \in DOMAIN l0 |-> ssts[l0[i]]]
           y == [i \in DOMAIN runs |-> ssts[runs[i].sst]]
           all == {ssts[l0[i]] : i \in DOMAIN l0} \cup {ssts[runs[i].sst] : i \in DOMAIN runs}
<1>0. l0 \in Seq(Nat) /\ runs \in Seq(SortedRun)
  BY CoreFields
<1>1. DOMAIN l0 = 1..Len(l0) /\ DOMAIN runs = 1..Len(runs) /\ Len(l0) \in Nat /\ Len(runs) \in Nat
  BY <1>0, SMT
<1>2. \A i \in 1..Len(runs) : RunSSTs(runs)[i] = runs[i].sst
  BY <1>0, RunSSTsType
<1>3. x \in [1..Len(l0) -> all] /\ y \in [1..Len(runs) -> all]
  BY <1>1
<1>4. \A i \in 1..Len(l0) : x[i] = ssts[l0[i]]
  BY <1>1
<1>5. \A i \in 1..Len(runs) : y[i] = ssts[runs[i].sst]
  BY <1>1
<1> HIDE DEF x, y, all, l0, runs
<1>6. x \in Seq(all) /\ y \in Seq(all) /\ Len(x) = Len(l0) /\ Len(y) = Len(runs)
  BY <1>1, <1>3, SMT
<1>7. /\ DOMAIN (x \o y) = 1..Len(l0) + Len(runs)
      /\ \A i \in 1..Len(l0) : (x \o y)[i] = x[i]
      /\ \A i \in 1..Len(runs) : (x \o y)[Len(l0) + i] = y[i]
  BY <1>1, <1>6, SMT
<1>8. Layers(c) = x \o y
  BY DEF Layers, x, y, l0, runs
<1>9. DOMAIN Layers(c) = 1..Len(l0) + Len(runs)
  BY <1>7, <1>8
<1>10. \A i \in 1..Len(l0) : Layers(c)[i] = ssts[l0[i]]
  BY <1>4, <1>7, <1>8
<1>11. \A i \in 1..Len(runs) : Layers(c)[Len(l0) + i] = ssts[RunSSTs(runs)[i]]
  <2> TAKE i \in 1..Len(runs)
  <2>1. Layers(c)[Len(l0) + i] = y[i]
    BY <1>7, <1>8
  <2> QED
    BY <1>2, <1>5, <2>1
<1> QED
  BY <1>9, <1>10, <1>11 DEF l0, runs

(* Every batch up to lastCompactedWalSSTID is found, a newer one no later   *)
(* than an older one.                                                       *)
LEMMA StackedReads ==
  ASSUME LeastElement, ssts \in Seq(SUBSET Nat), NEW c \in CoreState, Stacked(ssts, c)
  PROVE  Complete(c) /\ NewestFirst(c)
<1> DEFINE l0 == c.l0
           runs == RunSSTs(c.compacted)
           base == Top(ssts, c.l0LastCompacted)
           last == c.lastCompactedWalSSTID
           n == Len(l0)
           L == Layers(c)
<1>0. l0 \in Seq(Nat) /\ runs \in Seq(Nat) /\ last \in Nat
  BY CoreFields, RunSSTsType
<1>1. /\ Chain(ssts, l0, base) /\ base \in Nat /\ last = FirstTop(ssts, l0, base)
      /\ Chain(ssts, runs, 0) /\ base = FirstTop(ssts, runs, 0)
  BY DEF Stacked
<1>2. Len(runs) = Len(c.compacted)
  BY CoreFields, RunSSTsType
<1>3. /\ DOMAIN L = 1..n + Len(runs)
      /\ \A i \in 1..n : L[i] = ssts[l0[i]]
      /\ \A i \in 1..Len(runs) : L[n + i] = ssts[runs[i]]
  BY <1>2, LayersAre
<1>4. n \in Nat /\ DOMAIN l0 = 1..n /\ Len(runs) \in Nat /\ DOMAIN runs = 1..Len(runs)
  BY <1>0, SMT
<1> HIDE DEF l0, runs, base, last, n, L
<1>5. \A b \in Nat : base < b /\ b <= last => \E i \in 1..n : i \in DOMAIN L /\ b \in L[i]
  <2> TAKE b \in Nat
  <2> HAVE base < b /\ b <= last
  <2>1. PICK i \in DOMAIN l0 : b \in ssts[l0[i]]
    BY <1>0, <1>1, ChainFinds
  <2>2. i \in 1..n /\ i \in 1..n + Len(runs)
    BY <1>4, SMT
  <2> QED
    BY <1>3, <2>1, <2>2
<1>6. \A b \in Nat : 0 < b /\ b <= base =>
        \E i \in 1..Len(runs) : n + i \in DOMAIN L /\ b \in L[n + i]
  <2> TAKE b \in Nat
  <2> HAVE 0 < b /\ b <= base
  <2>0. 0 \in Nat
    BY SMT
  <2>1. PICK i \in DOMAIN runs : b \in ssts[runs[i]]
    BY <1>0, <1>1, <2>0, ChainFinds
  <2>2. i \in 1..Len(runs) /\ n + i \in 1..n + Len(runs)
    BY <1>4, SMT
  <2> QED
    BY <1>3, <2>1, <2>2
<1>7. ASSUME NEW b \in 1..last PROVE Found(c, b) # {}
  <2>1. b \in Nat /\ 0 < b /\ b <= last /\ (base < b \/ b <= base)
    BY <1>0, <1>1, SMT
  <2>2. \E i \in DOMAIN L : b \in L[i]
    BY <1>5, <1>6, <2>1
  <2> QED
    BY <2>2 DEF Found, L
<1>8. ASSUME NEW new \in 1..last, NEW old \in 1..new - 1, NEW i \in Found(c, old)
      PROVE  \E j \in Found(c, new) : j <= i
  <2>0. new \in Nat /\ old \in Nat /\ 0 < new /\ new <= last /\ old < new
        /\ (base < new \/ new <= base)
    BY <1>0, <1>1, SMT
  <2>1. i \in DOMAIN L /\ old \in L[i]
    BY DEF Found, L
  <2>2. i \in 1..n \/ (i - n \in 1..Len(runs) /\ i = n + (i - n))
    BY <1>3, <1>4, <2>1, SMT
  <2>3. SUFFICES \E j \in DOMAIN L : new \in L[j] /\ j <= i
    BY DEF Found, L
  <2>4. CASE base < new
    <3>1. PICK j \in 1..n : j \in DOMAIN L /\ new \in L[j]
      BY <1>5, <2>0, <2>4
    <3>2. CASE i \in 1..n
      <4>1. old \in ssts[l0[i]] /\ new \in ssts[l0[j]] /\ i \in DOMAIN l0 /\ j \in DOMAIN l0
        BY <1>3, <1>4, <2>1, <3>1, <3>2
      <4>2. j <= i
        BY <1>0, <1>1, <2>0, <4>1, ChainOrder
      <4> QED
        BY <3>1, <4>2
    <3>3. CASE i - n \in 1..Len(runs) /\ i = n + (i - n)
      <4>1. j <= i
        BY <1>3, <1>4, <2>1, <3>1, <3>3, SMT
      <4> QED
        BY <3>1, <4>1
    <3> QED
      BY <2>2, <3>2, <3>3
  <2>5. CASE new <= base
    <3>1. PICK j \in 1..Len(runs) : n + j \in DOMAIN L /\ new \in L[n + j]
      BY <1>6, <2>0, <2>5
    <3>2. CASE i \in 1..n
      <4>1. old \in ssts[l0[i]] /\ i \in DOMAIN l0
        BY <1>3, <1>4, <2>1, <3>2
      <4>2. base < old
        BY <1>0, <1>1, <4>1, ChainHolds
      <4> QED
        BY <1>1, <2>0, <2>5, <4>2, SMT
    <3>3. CASE i - n \in 1..Len(runs) /\ i = n + (i - n)
      <4> DEFINE k == i - n
      <4>0. 0 \in Nat /\ k \in 1..Len(runs) /\ i = n + k
        BY <3>3, SMT
      <4> HIDE DEF k
      <4>1. old \in ssts[runs[k]] /\ new \in ssts[runs[j]] /\ k \in DOMAIN runs /\ j \in DOMAIN runs
        BY <1>3, <1>4, <2>1, <3>1, <4>0
      <4>2. j <= k
        BY <1>0, <1>1, <2>0, <4>0, <4>1, ChainOrder
      <4>3. n + j <= i
        BY <1>4, <4>0, <4>2, SMT
      <4> QED
        BY <3>1, <4>3
    <3> QED
      BY <2>2, <3>2, <3>3
  <2> QED
    BY <2>0, <2>4, <2>5
<1> QED
  BY <1>7, <1>8 DEF Complete, NewestFirst, last

-----------------------------------------------------------------------------
(* The facts of the library that were hypotheses so far *)

Lib == INSTANCE FiniteSetTheorems
LOCAL INSTANCE WellFoundedInduction

LEMMA LibSame ==
  ASSUME NEW S
  PROVE  /\ Cardinality(S) = Lib!Cardinality(S)
         /\ IsFiniteSet(S) <=> Lib!IsFiniteSet(S)
BY DEF Cardinality, IsFiniteSet, Lib!Cardinality, Lib!IsFiniteSet

(* A set of natural numbers that is not empty has a least element. *)
LEMMA LeastOfSet ==
  ASSUME NEW S \in SUBSET Nat, S # {}
  PROVE  \E x \in S : \A y \in S : x <= y
<1>1. PICK x \in S : \A y \in S : ~(<<y, x>> \in OpToRel(<, Nat))
  BY WFMin, NatLessThanWellFounded
<1>2. \A y \in S : ~(y < x)
  BY <1>1 DEF OpToRel
<1>3. \A y \in S : x <= y
  BY <1>2, SMT
<1> QED
  BY <1>3

LEMMA Least == LeastElement
BY LeastOfSet DEF LeastElement

LEMMA Intervals == IntervalSize
<1> SUFFICES ASSUME NEW n \in Nat PROVE Cardinality(1..n) = n
  BY DEF IntervalSize
<1>1. n \in Int /\ 1 \in Int
  BY SMT
<1>2. Cardinality(1..n) = IF 1 > n THEN 0 ELSE n - 1 + 1
  BY <1>1, LibSame, Lib!FS_Interval
<1> QED
  BY <1>2, SMT

(* The invariant holds in every state of the system. *)
THEOREM Inductive == Spec => []IInv
<1>1. Init => IInv
  BY InitInv
<1>2. IInv /\ [Next]_vars => IInv'
  BY NextInv, Least, Intervals
<1> QED
  BY <1>1, <1>2, PTL DEF Spec

-----------------------------------------------------------------------------
(* The results *)

LEMMA Types ==
  ASSUME IInv
  PROVE  TypeOK
<1>0. TypeInv
  BY DEF IInv
<1>1. core \in CoreState /\ state \in CoreState
  BY <1>0, TypeInvTypes
<1>2. ValidManifest \subseteq Manifest
  BY DEF ValidManifest, Manifest, ValidCore
<1>3. w \in Goroutine(WriterPc) /\ o \in Goroutine(CompactorPc)
  <2>1. /\ w \in [pc : WriterPc, stored : ValidManifest, put : ValidManifest]
        /\ o \in [pc : CompactorPc, stored : ValidManifest, put : ValidManifest]
    BY <1>0 DEF TypeInv
  <2> QED
    BY <1>2, <2>1 DEF Goroutine
<1> QED
  BY <1>0, <1>1, <1>3 DEF TypeInv, TypeOK

(* The states around are stacks, the empty one of a process that is down    *)
(* included.                                                                *)
LEMMA AllStacked ==
  ASSUME IInv
  PROVE  Stacked(ssts, Latest.core) /\ Stacked(ssts, core) /\ Stacked(ssts, state)
<1>0. StackInv /\ ssts \in Seq(SUBSET Nat)
  BY Parts
<1>1. Stacked(ssts, Latest.core)
  BY <1>0 DEF StackInv
<1>2. Stacked(ssts, NewCoreDBState)
  BY StackedNew
<1>3. Stacked(ssts, core)
  <2>1. CASE w.pc = "down"
    BY <1>0, <1>2, <2>1 DEF StackInv
  <2>2. CASE w.pc # "down"
    BY <1>0, <2>2 DEF StackInv, Linked
  <2> QED
    BY <2>1, <2>2
<1>4. Stacked(ssts, state)
  <2>1. CASE ~Running
    BY <1>0, <1>2, <2>1 DEF StackInv
  <2>2. CASE Running
    <3>1. o.pc # "down" /\ Compactor = state
      BY <2>2 DEF Running, Starting, Compactor
    <3>2. Linked(ssts, core, Latest.core, Compactor)
      BY <3>1, Parts
    <3> QED
      BY <3>1, <3>2 DEF Linked
  <2> QED
    BY <2>1, <2>2
<1> QED
  BY <1>1, <1>3, <1>4

(* Every variable keeps its type: in particular a manifest that is written  *)
(* can be encoded, a WAL id less 1 being a WAL id.                          *)
THEOREM TypeCorrect == Spec => []TypeOK
<1>1. IInv => TypeOK
  BY Types
<1> QED
  BY <1>1, Inductive, PTL

(* Neither FinishCompaction, nor a merge of the two sides' states, nor a    *)
(* manifest written over the other side's loses a flushed batch: it is in   *)
(* an SST of the latest manifest and of the writer's state.                 *)
THEOREM NothingLostAlways == Spec => []NothingLost
<1>1. ASSUME IInv PROVE NothingLost
  <2>1. ssts \in Seq(SUBSET Nat) /\ core \in CoreState /\ Latest.core \in CoreState
    BY <1>1, Parts
  <2>2. Stacked(ssts, Latest.core) /\ Stacked(ssts, core)
    BY <1>1, AllStacked
  <2> QED
    BY <2>1, <2>2, StackedReads, Least DEF NothingLost
<1> QED
  BY <1>1, Inductive, PTL

(* A reader that goes down L0 and the sorted runs and takes the first hit   *)
(* finds a newer batch before any older one.                                *)
THEOREM NewestWinsAlways == Spec => []NewestWins
<1>1. ASSUME IInv PROVE NewestWins
  <2>1. ssts \in Seq(SUBSET Nat) /\ core \in CoreState /\ Latest.core \in CoreState
    BY <1>1, Parts
  <2>2. Stacked(ssts, Latest.core) /\ Stacked(ssts, core)
    BY <1>1, AllStacked
  <2> QED
    BY <2>1, <2>2, StackedReads, Least DEF NewestWins
<1> QED
  BY <1>1, Inductive, PTL

(* Whatever the writer flushes while a job runs, the job's sources stay the *)
(* oldest SSTs of the orchestrator's L0, which is why FinishCompaction may  *)
(* take the first of them for l0LastCompacted.                              *)
THEOREM SourcesStayOldest == Spec => []SourcesAreOldest
<1>1. IInv => SourcesAreOldest
  BY DEF IInv
<1> QED
  BY <1>1, Inductive, PTL

(* assertCompactedSRsInIDOrder never fails, for the states of either side   *)
(* and for every manifest.                                                  *)
THEOREM SortedRunsStayInIDOrder == Spec => []SortedRunsInIDOrder
<1>1. ASSUME IInv PROVE SortedRunsInIDOrder
  <2>1. Stacked(ssts, Latest.core) /\ Stacked(ssts, core) /\ Stacked(ssts, state)
    BY <1>1, AllStacked
  <2>2. RunsDescend(Latest.core.compacted) /\ RunsDescend(core.compacted)
        /\ RunsDescend(state.compacted)
    BY <2>1 DEF Stacked
  <2>3. \A c \in {Latest.core, core, state} : RunsDescend(c.compacted)
    BY <2>2
  <2> QED
    BY <2>3 DEF RunsDescend, SortedRunsInIDOrder
<1> QED
  BY <1>1, Inductive, PTL

(* There are never two jobs, or a job and a result that waits: resultCh,    *)
(* which holds one, never blocks the goroutine that sends on it.            *)
THEOREM OneJobAtATime == Spec => []OneJob
<1>1. ASSUME IInv PROVE OneJob
  <2>0. TypeInv /\ JobInv
    BY <1>1, Parts
  <2>1. Len(resultCh) \in Nat /\ Len(resultCh) <= 1
    <3>1. resultCh \in Seq(SortedRun) /\ Len(resultCh) <= 1
      BY <2>0 DEF TypeInv, JobInv
    <3> QED
      BY <3>1, SMT
  <2>2. CASE workers = {}
    <3>1. Cardinality(workers) = 0
      BY <2>2, LibSame, Lib!FS_EmptySet
    <3> QED
      BY <2>1, <3>1, SMT DEF OneJob
  <2>3. CASE workers # {}
    <3>1. PICK x : x \in workers
      BY <2>3
    <3>2. workers = {x} /\ resultCh = <<>>
      BY <2>0, <3>1 DEF JobInv
    <3>3. Cardinality(workers) = 1
      BY <3>2, LibSame, Lib!FS_Singleton
    <3>4. Len(resultCh) = 0
      BY <3>2, SMT
    <3> QED
      BY <3>3, <3>4, SMT DEF OneJob
  <2> QED
    BY <2>2, <2>3
<1> QED
  BY <1>1, Inductive, PTL

=============================================================================
