--------------------------- MODULE WritePathData ----------------------------
(***************************************************************************)
(* What the steps of WritePath do to the contents of the object store:     *)
(* no WAL SST changes, and every step keeps SSTInv.                        *)
(***************************************************************************)
EXTENDS WritePathInv

(* Leaves are for Zenon, unless they name another prover. *)
USE Zenon

(* No step changes a WAL SST that is there. *)
LEMMA WALsKept ==
  ASSUME Inv, [Next]_vars
  PROVE  \A i \in DOMAIN walSST : i \in DOMAIN walSST' /\ walSST'[i] = walSST[i]
<1>1. ASSUME NEW t \in WalThreads, FlushImmWAL(t) \/ FlushImmWALFails(t)
      PROVE  \A i \in DOMAIN walSST : i \in DOMAIN walSST' /\ walSST'[i] = walSST[i]
  <2>1. status = "open" /\ w[t].pc = "upload" /\ (StoreWAL(w[t].imm) \/ UNCHANGED walSST)
    BY <1>1 DEF FlushImmWAL, FlushImmWALFails
  <2>2. OpenWals /\ w[t].imm \in Wals
    BY <2>1 DEF Inv, WalInv, Wals, Busy
  <2>3. CASE StoreWAL(w[t].imm)
    <3>1. PICK x : x = w[t].imm
      OBVIOUS
    <3>2. walSST' = [i \in DOMAIN walSST \cup {x.id} |-> IF i = x.id THEN x.tab ELSE walSST[i]]
      BY <2>3, <3>1 DEF StoreWAL
    <3>3. x.id \in DOMAIN walSST => walSST[x.id] = x.tab
      BY <2>2, <3>1 DEF OpenWals
    <3> QED
      BY <3>2, <3>3
  <2> QED
    BY <2>1, <2>3
<1>2. ASSUME NEW t \in WalThreads, WalStep(t), ~FlushImmWAL(t), ~FlushImmWALFails(t)
      PROVE  UNCHANGED walSST
  BY <1>2 DEF WalStep, FreezeWAL, PopImmWAL, FlushImmWALToMemtable, CheckMemtableSize,
                     MaybeFreezeMemtable, SendFlush, NotifyWALFlushed, Panic, storeVars
<1>3. ASSUME NEW t \in MemThreads,
             FlushMemtableToL0(t) \/ FlushMemtableFreezes(t) \/ MemStep(t)
      PROVE  UNCHANGED walSST
  BY <1>3 DEF FlushMemtableToL0, FlushMemtableFreezes, MemStep, FlushImmMemtable,
                     FlushFails, MoveImmMemtableToL0, LoadManifest, MergeManifest, WriteManifest,
                     PutManifest, PutManifestFails, MFails, Panic, storeVars
<1>4. ASSUME NEW id, NEW k, NEW i,
             \/ CreateManifest \/ OpenManifest \/ ReplayWAL(id) \/ ReplayDone \/ Crash
             \/ WalPut(k) \/ PollManifest \/ ReceiveMsg \/ MemTaskExit \/ Compact(i)
             \/ CloseStart \/ CloseShutdown \/ CloseDone \/ UNCHANGED vars
      PROVE  UNCHANGED walSST
  BY <1>4 DEF CreateManifest, OpenManifest, ReplayWAL, ReplayDone, Crash, WalPut,
                     PollManifest, ReceiveMsg, MemTaskExit, Compact, CloseStart, CloseShutdown,
                     CloseDone, vars, storeVars
<1>5. MemCallers \subseteq MemThreads
  BY DEF MemThreads
<1>6. \/ UNCHANGED walSST
      \/ \E t \in WalThreads : FlushImmWAL(t) \/ FlushImmWALFails(t)
  BY <1>2, <1>3, <1>4, <1>5 DEF Next
<1> QED
  BY <1>1, <1>6

-----------------------------------------------------------------------------
(* The SSTs that the levels and the manifests name *)

LEMMA SSTFrame ==
  ASSUME SSTInv, UNCHANGED <<ssts, manifest, core, m>>
  PROVE  SSTInv'
BY LatestSame DEF SSTInv

LEMMA SSTMove ==
  ASSUME SSTInv, DOMAIN ssts \subseteq DOMAIN ssts', NEW t \in MemThreads,
         \A u \in MemThreads : u # t => m'[u] = m[u],
         SSTsOf(Latest'.core) \subseteq DOMAIN ssts', SSTsOf(core') \subseteq DOMAIN ssts',
         SSTsOf(m'[t].man.core) \subseteq DOMAIN ssts',
         m'[t].pc = "move" => m'[t].sst \in DOMAIN ssts'
  PROVE  SSTInv'
<1>1. \A u \in MemThreads : /\ SSTsOf(m'[u].man.core) \subseteq DOMAIN ssts'
                            /\ m'[u].pc = "move" => m'[u].sst \in DOMAIN ssts'
  BY DEF SSTInv
<1> QED
  BY <1>1 DEF SSTInv

LEMMA NewNamesNothing ==
  SSTsOf(NewCoreDBState) = {} /\ SSTsOf(NoManifest.core) = {}
<1>1. DOMAIN NewCoreDBState.l0 = {} /\ DOMAIN NewCoreDBState.compacted = {}
  BY FreshTypes DEF NewCoreDBState
<1>2. SSTsOf(NewCoreDBState) = {}
  BY <1>1 DEF SSTsOf
<1>3. NoManifest.core = NewCoreDBState
  BY DEF NoManifest
<1> QED
  BY <1>2, <1>3

(* A sequence cut short names no more. *)
LEMMA CutNames ==
  ASSUME NEW s \in Seq(Nat), NEW n \in 0..Len(s)
  PROVE  /\ SubSeq(s, 1, n) \in Seq(Nat)
         /\ \A i \in DOMAIN SubSeq(s, 1, n) : i \in DOMAIN s /\ SubSeq(s, 1, n)[i] = s[i]
<1>1. PICK u : u = SubSeq(s, 1, n)
  OBVIOUS
<1>2. u \in Seq(Nat) /\ Len(u) = n /\ \A i \in 1..n : u[i] = s[i]
  BY <1>1, Prefix
<1>3. \A i \in DOMAIN u : i \in 1..n /\ i \in DOMAIN s
  BY <1>2, SMT
<1> QED
  BY <1>1, <1>2, <1>3

LEMMA MergeNames ==
  ASSUME LeastElement, NEW c \in CoreState, NEW d \in CoreState, NEW S,
         SSTsOf(c) \subseteq S, SSTsOf(d) \subseteq S
  PROVE  SSTsOf(RefreshDBState(c, d)) \subseteq S
<1> DEFINE e == RefreshDBState(c, d)
<1>1. e.l0 = L0After(c.l0, d.l0LastCompacted) /\ e.compacted = d.compacted
  BY Merge
<1>2. c.l0 \in Seq(Nat) /\ \A i \in DOMAIN c.l0 : c.l0[i] \in S
  BY CoreFields DEF SSTsOf
<1>3. \A i \in DOMAIN d.compacted : d.compacted[i].sst \in S
  BY DEF SSTsOf
<1> HIDE DEF e
<1>4. \A i \in DOMAIN e.l0 : e.l0[i] \in S
  <2>1. CASE e.l0 = c.l0
    BY <1>2, <2>1
  <2>2. ASSUME NEW k \in 1..Len(c.l0), e.l0 = SubSeq(c.l0, 1, k - 1)
        PROVE  \A i \in DOMAIN e.l0 : e.l0[i] \in S
    <3>1. k - 1 \in 0..Len(c.l0)
      BY <1>2, SMT
    <3>2. PICK n \in 0..Len(c.l0) : n = k - 1
      BY <3>1
    <3>3. \A i \in DOMAIN SubSeq(c.l0, 1, n) : i \in DOMAIN c.l0 /\ SubSeq(c.l0, 1, n)[i] = c.l0[i]
      BY <1>2, <3>2, CutNames
    <3> QED
      BY <1>2, <2>2, <3>2, <3>3
  <2>3. \/ L0After(c.l0, d.l0LastCompacted) = c.l0
        \/ \E k \in 1..Len(c.l0) : L0After(c.l0, d.l0LastCompacted) = SubSeq(c.l0, 1, k - 1)
    BY <1>2, L0AfterIs
  <2> QED
    BY <1>1, <2>1, <2>2, <2>3
<1>5. \A i \in DOMAIN e.compacted : e.compacted[i].sst \in S
  BY <1>1, <1>3
<1>6. SSTsOf(e) \subseteq S
  BY <1>4, <1>5 DEF SSTsOf
<1> QED
  BY <1>6 DEF e

(* The names that the state before a flusher's step knows. *)
LEMMA NamesNow ==
  ASSUME SSTInv, NEW t \in MemThreads
  PROVE  /\ SSTsOf(Latest.core) \subseteq DOMAIN ssts /\ SSTsOf(core) \subseteq DOMAIN ssts
         /\ SSTsOf(m[t].man.core) \subseteq DOMAIN ssts
         /\ m[t].pc = "move" => m[t].sst \in DOMAIN ssts
BY DEF SSTInv

LEMMA SSTMem ==
  ASSUME TypeInv, TypeInv', SSTInv, NEW t \in MemThreads, LeastElement,
         \/ PollManifest /\ t = MemTask
         \/ MemTaskExit /\ t = MemTask
         \/ ReceiveMsg /\ t = MemTask
         \/ FlushMemtableToL0(t) \/ FlushMemtableFreezes(t) \/ MemStep(t)
  PROVE  SSTInv'
<1>0. /\ m \in [MemThreads -> MGoroutine(ValidManifest)] /\ m[t] \in MGoroutine(ValidManifest)
      /\ m' \in [MemThreads -> MGoroutine(ValidManifest)] /\ immMemtables \in Seq(MemRef)
      /\ immMemtables' \in Seq(MemRef) /\ ssts \in Seq(Table) /\ ssts' \in Seq(Table)
  BY DEF TypeInv
<1>1. /\ SSTsOf(Latest.core) \subseteq DOMAIN ssts /\ SSTsOf(core) \subseteq DOMAIN ssts
      /\ SSTsOf(m[t].man.core) \subseteq DOMAIN ssts
      /\ m[t].pc = "move" => m[t].sst \in DOMAIN ssts
      /\ SSTsOf(NoManifest.core) \subseteq DOMAIN ssts
  BY NamesNow, NewNamesNothing
<1>2. SUFFICES ASSUME ~UNCHANGED <<ssts, manifest, core, m>> PROVE SSTInv'
  BY SSTFrame
<1>3. ASSUME UNCHANGED <<ssts, manifest, core>>, \A u \in MemThreads : u # t => m'[u] = m[u],
             m'[t].pc # "move",
             m'[t].man \in {m[t].man, NoManifest, Latest} \/ m'[t].man.core = core
      PROVE  SSTInv'
  <2>1. Latest' = Latest
    BY <1>3, LatestSame
  <2>2. SSTsOf(m'[t].man.core) \subseteq DOMAIN ssts
    BY <1>1, <1>3
  <2>3. /\ SSTsOf(Latest'.core) \subseteq DOMAIN ssts' /\ SSTsOf(core') \subseteq DOMAIN ssts'
        /\ SSTsOf(m'[t].man.core) \subseteq DOMAIN ssts' /\ DOMAIN ssts \subseteq DOMAIN ssts'
    BY <1>1, <1>3, <2>1, <2>2
  <2> QED
    BY <1>3, <2>3, SSTMove
<1>4. CASE PollManifest /\ t = MemTask
  <2>1. /\ m' = [m EXCEPT ![t].pc = "load", ![t].why = "poll"]
        /\ UNCHANGED <<ssts, manifest, core>>
    BY <1>4 DEF PollManifest, storeVars, stateVars
  <2>2. m'[t].pc = "load" /\ m'[t].man = m[t].man /\ \A u \in MemThreads : u # t => m'[u] = m[u]
    BY <1>0, <2>1, SMT DEF MGoroutine
  <2> QED
    BY <1>3, <2>1, <2>2
<1>5. CASE MemTaskExit /\ t = MemTask
  <2>1. /\ m' = [m EXCEPT ![t].pc = "load", ![t].why = "final"]
        /\ UNCHANGED <<ssts, manifest, core>>
    BY <1>5 DEF MemTaskExit, storeVars, stateVars
  <2>2. m'[t].pc = "load" /\ m'[t].man = m[t].man /\ \A u \in MemThreads : u # t => m'[u] = m[u]
    BY <1>0, <2>1, SMT DEF MGoroutine
  <2> QED
    BY <1>3, <2>1, <2>2
<1>6. ASSUME NEW mems \in Seq(MemRef)
      PROVE  OldestImmMemtable(mems).pc # "move" /\ OldestImmMemtable(mems).man = NoManifest
  <2>1. PICK r : r = OldestImmMemtable(mems)
    OBVIOUS
  <2>2. r.man = NoManifest /\ (r.pc = "idle" \/ r.pc = "upload")
    BY <1>6, <2>1, OldestMemIs
  <2>3. r.pc # "move"
    BY <2>2
  <2> QED
    BY <2>1, <2>2, <2>3
<1>7. CASE ReceiveMsg /\ t = MemTask
  <2>1. /\ UNCHANGED m \/ m' = [m EXCEPT ![t] = OldestImmMemtable(immMemtables)]
        /\ UNCHANGED <<ssts, manifest, core>>
    BY <1>7 DEF ReceiveMsg, storeVars, stateVars
  <2>2. m'[t] = OldestImmMemtable(immMemtables) /\ \A u \in MemThreads : u # t => m'[u] = m[u]
    BY <1>0, <1>2, <2>1
  <2> QED
    BY <1>0, <1>3, <1>6, <2>1, <2>2
<1>8. CASE FlushMemtableToL0(t)
  <2>1. /\ m' = [m EXCEPT ![t].pc = "freeze", ![t].why = "flush", ![t].imm.last = memtable.last]
        /\ UNCHANGED <<ssts, manifest, core>>
    BY <1>8 DEF FlushMemtableToL0, storeVars, stateVars
  <2>2. m'[t].pc = "freeze" /\ m'[t].man = m[t].man /\ \A u \in MemThreads : u # t => m'[u] = m[u]
    BY <1>0, <2>1, SMT DEF MGoroutine
  <2> QED
    BY <1>3, <2>1, <2>2
<1>9. CASE FlushMemtableFreezes(t)
  <2>1. /\ m' = [m EXCEPT ![t] = OldestImmMemtable(immMemtables')]
        /\ UNCHANGED <<ssts, manifest, core>>
    BY <1>9 DEF FlushMemtableFreezes, storeVars
  <2>2. m'[t] = OldestImmMemtable(immMemtables') /\ \A u \in MemThreads : u # t => m'[u] = m[u]
    BY <1>0, <2>1
  <2> QED
    BY <1>0, <1>3, <1>6, <2>1, <2>2
<1>10. CASE MemStep(t)
  <2>1. MReturned(m[t]).pc # "move" /\ MReturned(m[t]).man = NoManifest
    <3>1. PICK r : r = MReturned(m[t])
      OBVIOUS
    <3>2. r.pc \in {"idle", "done"} /\ r.man = NoManifest
      BY <3>1, MReturnedIs
    <3>3. r.pc # "move"
      BY <3>2
    <3> QED
      BY <3>1, <3>2, <3>3
  <2>2. CASE FlushImmMemtable(t)
    <3>1. /\ ssts' = Append(ssts, kvt[m[t].imm.tab])
          /\ m' = [m EXCEPT ![t].pc = "move", ![t].sst = Len(ssts) + 1]
          /\ UNCHANGED <<manifest, core>> /\ Latest' = Latest
      BY <2>2, LatestSame DEF FlushImmMemtable, stateVars
    <3>2. /\ m'[t].sst = Len(ssts) + 1 /\ m'[t].man = m[t].man
          /\ \A u \in MemThreads : u # t => m'[u] = m[u]
      BY <1>0, <3>1, SMT DEF MGoroutine
    <3>3. DOMAIN ssts \subseteq DOMAIN ssts' /\ Len(ssts) + 1 \in DOMAIN ssts'
      BY <1>0, <3>1, SMT
    <3>4. /\ SSTsOf(Latest'.core) \subseteq DOMAIN ssts' /\ SSTsOf(core') \subseteq DOMAIN ssts'
          /\ SSTsOf(m'[t].man.core) \subseteq DOMAIN ssts' /\ m'[t].sst \in DOMAIN ssts'
      BY <1>1, <3>1, <3>2, <3>3
    <3> QED
      BY <3>2, <3>3, <3>4, SSTMove
  <2>3. CASE FlushFails(t)
    <3>1. m' = [m EXCEPT ![t] = MReturned(@)] /\ UNCHANGED <<ssts, manifest, core>>
      BY <2>3 DEF FlushFails, MFails, storeVars, stateVars
    <3>2. m'[t] = MReturned(m[t]) /\ \A u \in MemThreads : u # t => m'[u] = m[u]
      BY <1>0, <3>1
    <3> QED
      BY <1>3, <2>1, <3>1, <3>2
  <2>4. CASE MoveImmMemtableToL0(t)
    <3>1. /\ m[t].pc = "move"
          /\ core' = [core EXCEPT !.l0 = <<m[t].sst>> \o @,
                                  !.lastCompactedWalSSTID = m[t].imm.last]
          /\ MGoto(t, "load") /\ UNCHANGED <<ssts, manifest>> /\ Latest' = Latest
      BY <1>2, <2>4, LatestSame DEF MoveImmMemtableToL0, Panic, storeVars, stateVars, taskVars
    <3>2. /\ m'[t].pc = "load" /\ m'[t].man = m[t].man
          /\ \A u \in MemThreads : u # t => m'[u] = m[u]
      BY <1>0, <3>1, SMT DEF MGoroutine, MGoto
    <3>3. SSTsOf(core') \subseteq DOMAIN ssts
      <4>1. /\ core \in CoreState /\ core.l0 \in Seq(Nat) /\ m[t].sst \in Nat
            /\ \A i \in DOMAIN core.l0 : core.l0[i] \in DOMAIN ssts
            /\ \A i \in DOMAIN core.compacted : core.compacted[i].sst \in DOMAIN ssts
        BY <1>1, CoreFields, MemTypes DEF TypeInv, ValidCore, SSTsOf
      <4>2. core'.l0 = <<m[t].sst>> \o core.l0 /\ core'.compacted = core.compacted
        BY <3>1, <4>1 DEF CoreState
      <4>3. \A i \in DOMAIN core'.l0 : core'.l0[i] = m[t].sst
                                       \/ \E j \in DOMAIN core.l0 : core'.l0[i] = core.l0[j]
        <5>1. PICK s : s = <<m[t].sst>> \o core.l0
          OBVIOUS
        <5>2. \A i \in DOMAIN s : s[i] = m[t].sst \/ (i - 1 \in DOMAIN core.l0 /\ s[i] = core.l0[i - 1])
          BY <4>1, <5>1, SMTT(30)
        <5> QED
          BY <4>2, <5>1, <5>2
      <4>4. \A i \in DOMAIN core'.l0 : core'.l0[i] \in DOMAIN ssts
        BY <1>1, <3>1, <4>1, <4>3
      <4>5. \A i \in DOMAIN core'.compacted : core'.compacted[i].sst \in DOMAIN ssts
        BY <4>1, <4>2
      <4> QED
        BY <4>4, <4>5 DEF SSTsOf
    <3>4. m'[t].pc # "move"
      BY <3>2
    <3> QED
      BY <1>1, <3>1, <3>2, <3>3, <3>4, SSTMove
  <2>5. CASE LoadManifest(t)
    <3>1. /\ m' = [m EXCEPT ![t].pc = "merge", ![t].man = Latest]
          /\ UNCHANGED <<ssts, manifest, core>>
      BY <2>5 DEF LoadManifest, storeVars, stateVars
    <3>2. /\ m'[t].pc = "merge" /\ m'[t].man = Latest
          /\ \A u \in MemThreads : u # t => m'[u] = m[u]
      BY <1>0, <3>1, SMT DEF MGoroutine
    <3> QED
      BY <1>3, <3>1, <3>2
  <2>6. CASE MergeManifest(t)
    <3>1. /\ core' = RefreshDBState(core, m[t].man.core)
          /\ UNCHANGED <<ssts, manifest>> /\ Latest' = Latest
          /\ \/ m' = [m EXCEPT ![t] = MReturned(@)]
             \/ m' = [m EXCEPT ![t].pc = "write", ![t].man = NoManifest]
      BY <2>6, LatestSame DEF MergeManifest, storeVars
    <3>2. /\ m'[t].pc # "move" /\ m'[t].man = NoManifest
          /\ \A u \in MemThreads : u # t => m'[u] = m[u]
      <4>1. CASE m' = [m EXCEPT ![t] = MReturned(@)]
        BY <1>0, <2>1, <4>1
      <4>2. CASE m' = [m EXCEPT ![t].pc = "write", ![t].man = NoManifest]
        BY <1>0, <4>2, SMT DEF MGoroutine
      <4> QED
        BY <3>1, <4>1, <4>2
    <3>3. SSTsOf(core') \subseteq DOMAIN ssts
      <4>1. core \in CoreState /\ m[t].man.core \in CoreState
        BY MemTypes, ValidManifestTypes DEF TypeInv, ValidCore
      <4> QED
        BY <1>1, <3>1, <4>1, MergeNames
    <3> QED
      BY <1>1, <3>1, <3>2, <3>3, SSTMove
  <2>7. CASE WriteManifest(t)
    <3>1. /\ UNCHANGED <<ssts, manifest, core>>
          /\ \/ MGoto(t, "load")
             \/ m' = [m EXCEPT ![t].pc = "put", ![t].man = [id |-> stored.id + 1, core |-> core]]
      BY <2>7 DEF WriteManifest, storeVars, stateVars
    <3>2. CASE MGoto(t, "load")
      <4>1. /\ m'[t].pc = "load" /\ m'[t].man = m[t].man
            /\ \A u \in MemThreads : u # t => m'[u] = m[u]
        BY <1>0, <3>2, SMT DEF MGoroutine, MGoto
      <4> QED
        BY <1>3, <3>1, <4>1
    <3>3. CASE m' = [m EXCEPT ![t].pc = "put", ![t].man = [id |-> stored.id + 1, core |-> core]]
      <4>1. /\ m'[t].pc = "put" /\ m'[t].man.core = core
            /\ \A u \in MemThreads : u # t => m'[u] = m[u]
        BY <1>0, <3>3, SMT DEF MGoroutine
      <4> QED
        BY <1>3, <3>1, <4>1
    <3> QED
      BY <3>1, <3>2, <3>3
  <2>8. CASE PutManifest(t) \/ PutManifestFails(t)
    <3>1. UNCHANGED <<ssts, core>> /\ Latest' \in {m[t].man, Latest}
      <4>1. Land(m[t].man) \/ UNCHANGED manifest
        BY <2>8 DEF PutManifest, PutManifestFails
      <4>2. UNCHANGED <<ssts, core>>
        BY <2>8 DEF PutManifest, PutManifestFails, stateVars
      <4>3. m[t].man \in ValidManifest
        BY MemTypes
      <4> QED
        BY <4>1, <4>2, <4>3, LandIs, LatestSame
    <3>2. /\ m'[t] \in {MReturned(m[t]), OldestImmMemtable(immMemtables)}
          /\ \A u \in MemThreads : u # t => m'[u] = m[u]
      BY <1>0, <2>8 DEF PutManifest, PutManifestFails, MFails
    <3>3. m'[t].pc # "move" /\ m'[t].man = NoManifest
      <4>1. CASE m'[t] = MReturned(m[t])
        BY <2>1, <4>1, SMT
      <4>2. CASE m'[t] = OldestImmMemtable(immMemtables)
        BY <1>0, <1>6, <4>2
      <4> QED
        BY <3>2, <4>1, <4>2
    <3> QED
      BY <1>1, <3>1, <3>2, <3>3, SSTMove
  <2> QED
    BY <1>10, <2>2, <2>3, <2>4, <2>5, <2>6, <2>7, <2>8 DEF MemStep
<1> QED
  BY <1>4, <1>5, <1>7, <1>8, <1>9, <1>10

LEMMA FirstHitType ==
  ASSUME LeastElement, NEW tabs \in Seq(Table), NEW k \in Keys
  PROVE  FirstHit(tabs, k) \in Nat
<1> DEFINE hits == {i \in DOMAIN tabs : tabs[i][k] # 0}
<1>1. CASE hits = {}
  BY <1>1, SMT DEF FirstHit
<1>2. CASE hits # {}
  <2>1. hits \in SUBSET Nat
    BY SMT
  <2>2. \E x \in hits : \A y \in hits : x <= y
    BY <1>2, <2>1 DEF LeastElement
  <2>3. PICK x : x = CHOOSE z \in hits : \A y \in hits : z <= y
    OBVIOUS
  <2>4. x \in hits
    BY <2>2, <2>3
  <2>5. tabs[x] \in Table
    BY <2>4, SMT
  <2>6. tabs[x][k] \in Nat
    BY <2>5 DEF Table
  <2>7. FirstHit(tabs, k) = tabs[x][k]
    BY <1>2, <2>3 DEF FirstHit
  <2> QED
    BY <2>6, <2>7
<1> QED
  BY <1>1, <1>2

LEMMA L0TablesType ==
  ASSUME ssts \in Seq(Table), NEW c \in CoreState, SSTsOf(c) \subseteq DOMAIN ssts
  PROVE  L0Tables(c) \in Seq(Table) /\ Len(L0Tables(c)) = Len(c.l0)
<1>1. c.l0 \in Seq(Nat) /\ \A i \in DOMAIN c.l0 : c.l0[i] \in DOMAIN ssts
  BY CoreFields DEF SSTsOf
<1>2. \A i \in DOMAIN c.l0 : ssts[c.l0[i]] \in Table
  BY <1>1, SMT
<1>3. Len(c.l0) \in Nat /\ DOMAIN c.l0 = 1..Len(c.l0)
  BY <1>1, SMT
<1>4. L0Tables(c) = [i \in 1..Len(c.l0) |-> ssts[c.l0[i]]]
  BY <1>3 DEF L0Tables
<1> QED
  BY <1>2, <1>3, <1>4, SMT

(* The new SST is a table, and a manifest that lands names it and the SSTs  *)
(* that the manifest before it named.                                       *)
LEMMA CompactIs ==
  ASSUME TypeInv, SSTInv, LeastElement, NEW i \in DOMAIN Latest.core.l0, Compact(i)
  PROVE  /\ ssts' \in Seq(Table) /\ DOMAIN ssts \subseteq DOMAIN ssts'
         /\ manifest' \in [id : Nat, core : ManifestV1]
         /\ Latest'.core.lastCompactedWalSSTID = Latest.core.lastCompactedWalSSTID
         /\ SSTsOf(Latest'.core) \subseteq DOMAIN ssts'
<1> DEFINE c == Latest.core
           tabs == SubSeq(L0Tables(c), i, Len(c.l0))
           n == Len(ssts) + 1
           sr == [id |-> Len(c.compacted), sst |-> n]
           d == [c EXCEPT !.l0 = SubSeq(@, 1, i - 1), !.l0LastCompacted = c.l0[i],
                          !.compacted = <<sr>> \o @]
           man == [id |-> manifest.id + 1, core |-> d]
<1>1. ssts' = Append(ssts, MergeTables(tabs)) /\ Land(man)
  BY DEF Compact
<1>2. /\ ssts \in Seq(Table) /\ c \in CoreState /\ c \in ValidCore
      /\ SSTsOf(c) \subseteq DOMAIN ssts /\ manifest.id \in Nat
  BY LatestValid, ValidManifestTypes DEF TypeInv, SSTInv
<1>3. MergeTables(tabs) \in Table
  <2>1. L0Tables(c) \in Seq(Table) /\ Len(L0Tables(c)) = Len(c.l0)
    BY <1>2, L0TablesType
  <2>2. i \in 1..Len(L0Tables(c))
    <3>1. c.l0 \in Seq(Nat)
      BY <1>2, CoreFields
    <3> QED
      BY <2>1, <3>1, SMT
  <2>3. tabs \in Seq(Table)
    BY <2>1, <2>2, Suffix
  <2> HIDE DEF tabs
  <2> QED
    BY <2>3, FirstHitType DEF MergeTables, Table
<1>4. ssts' \in Seq(Table) /\ DOMAIN ssts \subseteq DOMAIN ssts' /\ n \in DOMAIN ssts' /\ n \in Nat
  <2>1. PICK x \in Table : x = MergeTables(tabs)
    BY <1>3
  <2>2. ssts' = Append(ssts, x)
    BY <1>1, <2>1
  <2> QED
    BY <1>2, <2>2, SMT
<1>5. /\ c.l0 \in Seq(Nat) /\ c.compacted \in Seq(SortedRun) /\ c.nextWalSstID \in Nat
      /\ c.lastCompactedWalSSTID \in Nat /\ c.nextWalSstID > 0
      /\ \A j \in DOMAIN c.l0 : c.l0[j] \in DOMAIN ssts
      /\ \A j \in DOMAIN c.compacted : c.compacted[j].sst \in DOMAIN ssts
  BY <1>2, CoreFields DEF SSTsOf, ValidCore
<1>6. PICK k \in 0..Len(c.l0) : k = i - 1
  <2>1. i - 1 \in 0..Len(c.l0)
    BY <1>5, SMT
  <2> QED
    BY <2>1
<1>7. /\ SubSeq(c.l0, 1, k) \in Seq(Nat)
      /\ \A j \in DOMAIN SubSeq(c.l0, 1, k) : j \in DOMAIN c.l0 /\ SubSeq(c.l0, 1, k)[j] = c.l0[j]
  BY <1>5, <1>6, CutNames
<1>8. sr \in SortedRun /\ sr.sst = n
  <2>1. Len(c.compacted) \in Nat
    BY <1>5, SMT
  <2> HIDE DEF n
  <2> QED
    BY <1>4, <2>1 DEF SortedRun
<1>9. /\ <<sr>> \o c.compacted \in Seq(SortedRun)
      /\ \A j \in DOMAIN (<<sr>> \o c.compacted) :
           \/ (<<sr>> \o c.compacted)[j] = sr
           \/ \E l \in DOMAIN c.compacted : (<<sr>> \o c.compacted)[j] = c.compacted[l]
  <2>1. PICK x \in SortedRun : x = sr
    BY <1>8
  <2>2. PICK s \in Seq(SortedRun) : s = c.compacted
    BY <1>5
  <2>3. PICK u : u = <<x>> \o s
    OBVIOUS
  <2>4. u \in Seq(SortedRun)
    BY <2>1, <2>2, <2>3, SMT
  <2>5. \A j \in DOMAIN u : u[j] = x \/ (j - 1 \in DOMAIN s /\ u[j] = s[j - 1])
    BY <2>1, <2>2, <2>3, SMTT(30)
  <2>6. \A j \in DOMAIN u : u[j] = x \/ \E l \in DOMAIN s : u[j] = s[l]
    BY <2>5
  <2> HIDE DEF sr, c
  <2> QED
    BY <2>1, <2>2, <2>3, <2>4, <2>6
<1>10. c.l0[i] \in Nat
  BY <1>5, SMT
<1> HIDE DEF sr
<1>11. /\ d.l0 = SubSeq(c.l0, 1, k) /\ d.l0LastCompacted = c.l0[i]
       /\ d.compacted = <<sr>> \o c.compacted
       /\ d.nextWalSstID = c.nextWalSstID
       /\ d.lastCompactedWalSSTID = c.lastCompactedWalSSTID
       /\ d = [l0 |-> d.l0, l0LastCompacted |-> d.l0LastCompacted, compacted |-> d.compacted,
               nextWalSstID |-> d.nextWalSstID, lastCompactedWalSSTID |-> d.lastCompactedWalSSTID]
  <2>1. PICK x, y, z : x = SubSeq(c.l0, 1, k) /\ y = c.l0[i] /\ z = <<sr>> \o c.compacted
    OBVIOUS
  <2>2. d = [c EXCEPT !.l0 = x, !.l0LastCompacted = y, !.compacted = z]
    BY <1>6, <2>1
  <2> HIDE DEF c, d
  <2>3. /\ d.l0 = x /\ d.l0LastCompacted = y /\ d.compacted = z
        /\ d.nextWalSstID = c.nextWalSstID
        /\ d.lastCompactedWalSSTID = c.lastCompactedWalSSTID
        /\ d = [l0 |-> d.l0, l0LastCompacted |-> d.l0LastCompacted, compacted |-> d.compacted,
                nextWalSstID |-> d.nextWalSstID,
                lastCompactedWalSSTID |-> d.lastCompactedWalSSTID]
    BY <1>2, <2>2 DEF CoreState
  <2> QED
    BY <2>1, <2>3
<1> HIDE DEF d
<1>12. d \in ValidCore
  <2>1. /\ d.l0 \in Seq(Nat) /\ d.l0LastCompacted \in Nat /\ d.compacted \in Seq(SortedRun)
        /\ d.nextWalSstID \in Nat /\ d.lastCompactedWalSSTID \in Nat /\ d.nextWalSstID > 0
    BY <1>5, <1>7, <1>9, <1>10, <1>11
  <2>2. d \in CoreState
    BY <1>11, <2>1 DEF CoreState
  <2> QED
    BY <2>1, <2>2 DEF ValidCore
<1>13. SSTsOf(d) \subseteq DOMAIN ssts'
  <2>1. \A j \in DOMAIN d.l0 : d.l0[j] \in DOMAIN ssts'
    BY <1>4, <1>5, <1>7, <1>11
  <2>2. ASSUME NEW j \in DOMAIN d.compacted PROVE d.compacted[j].sst \in DOMAIN ssts'
    <3>1. d.compacted[j] = sr \/ \E l \in DOMAIN c.compacted : d.compacted[j] = c.compacted[l]
      BY <1>9, <1>11
    <3>2. CASE d.compacted[j] = sr
      BY <1>4, <1>8, <3>2
    <3>3. CASE \E l \in DOMAIN c.compacted : d.compacted[j] = c.compacted[l]
      BY <1>4, <1>5, <3>3
    <3> QED
      BY <3>1, <3>2, <3>3
  <2> QED
    BY <2>1, <2>2 DEF SSTsOf
<1>14. man \in ValidManifest /\ man.core = d
  <2>1. manifest.id + 1 \in Nat
    BY <1>2, SMT
  <2> QED
    BY <1>12, <2>1 DEF ValidManifest
<1>15. manifest' \in [id : Nat, core : ManifestV1] /\ Latest' \in {man, Latest}
  BY <1>1, <1>14, LandIs
<1> HIDE DEF man
<1>16. CASE Latest' = man
  BY <1>4, <1>11, <1>13, <1>14, <1>15, <1>16
<1>17. CASE Latest' = Latest
  BY <1>2, <1>4, <1>15, <1>17
<1> QED
  BY <1>15, <1>16, <1>17

(* The steps that leave the SSTs, the levels and the manifests alone. *)
LEMMA SSTWal ==
  ASSUME TypeInv, SSTInv, NEW t \in WalThreads, WalStep(t)
  PROVE  SSTInv'
<1>1. UNCHANGED <<ssts, manifest, m>>
  BY DEF WalStep, FreezeWAL, FlushImmWAL, FlushImmWALFails, PopImmWAL,
               FlushImmWALToMemtable, CheckMemtableSize, MaybeFreezeMemtable, SendFlush,
               NotifyWALFlushed, Panic, storeVars, stateVars, taskVars
<1>2. SSTsOf(core') = SSTsOf(core)
  <2>1. core \in CoreState
    BY DEF TypeInv, ValidCore
  <2>2. core' = core \/ core' = [core EXCEPT !.nextWalSstID = @ + 1]
    BY DEF WalStep, FreezeWAL, FlushImmWAL, FlushImmWALFails, PopImmWAL,
                 FlushImmWALToMemtable, CheckMemtableSize, MaybeFreezeMemtable, SendFlush,
                 NotifyWALFlushed, Panic, storeVars, stateVars, taskVars
  <2>3. core'.l0 = core.l0 /\ core'.compacted = core.compacted
    BY <2>1, <2>2 DEF CoreState
  <2> QED
    BY <2>3 DEF SSTsOf
<1>3. Latest' = Latest
  BY <1>1, LatestSame
<1> QED
  BY <1>1, <1>2, <1>3 DEF SSTInv

LEMMA SSTDown ==
  ASSUME m = IdleM, SSTsOf(Latest.core) \subseteq DOMAIN ssts, SSTsOf(core) \subseteq DOMAIN ssts
  PROVE  SSTInv
<1>1. ASSUME NEW t \in MemThreads PROVE m[t].pc # "move" /\ m[t].man = NoManifest
  <2>1. m[t].pc = "idle" /\ m[t].man = NoManifest
    BY IdleIs
  <2> QED
    BY <2>1
<1> QED
  BY <1>1, NewNamesNothing DEF SSTInv

LEMMA InitSST ==
  ASSUME Init
  PROVE  SSTInv
<1>1. m = IdleM /\ core = NewCoreDBState /\ manifest = ManifestFile(NoManifest)
  BY DEF Init
<1>2. Latest = NoManifest
  BY <1>1, IdleTypes, FileRoundTrip DEF Latest
<1>3. SSTsOf(Latest.core) \subseteq DOMAIN ssts /\ SSTsOf(core) \subseteq DOMAIN ssts
  BY <1>1, <1>2, NewNamesNothing
<1> QED
  BY <1>1, <1>3, SSTDown

LEMMA SSTHalt ==
  ASSUME SSTInv, Halt, UNCHANGED storeVars
  PROVE  SSTInv'
<1>1. m' = IdleM /\ core' = NewCoreDBState /\ UNCHANGED <<ssts, manifest>>
  BY DEF Halt, storeVars
<1>2. Latest' = Latest
  BY <1>1, LatestSame
<1>3. SSTsOf(Latest'.core) \subseteq DOMAIN ssts' /\ SSTsOf(core') \subseteq DOMAIN ssts'
  BY <1>1, <1>2, NewNamesNothing DEF SSTInv
<1>4. \A t \in MemThreads : SSTsOf(m'[t].man.core) \subseteq DOMAIN ssts' /\ m'[t].pc = "idle"
  BY <1>1, IdleIs, NewNamesNothing
<1>5. \A t \in MemThreads : m'[t].pc # "move"
  BY <1>4
<1> QED
  BY <1>3, <1>4, <1>5 DEF SSTInv

LEMMA SSTOpen ==
  ASSUME TypeInv, SSTInv, CreateManifest \/ OpenManifest
  PROVE  SSTInv'
<1>1. CASE CreateManifest
  <2>1. manifest' = ManifestFile([id |-> 1, core |-> NewCoreDBState]) /\ UNCHANGED <<ssts, core, m>>
    BY <1>1 DEF CreateManifest, stateVars, taskVars
  <2>2. [id |-> 1, core |-> NewCoreDBState] \in ValidManifest
    <3>1. 1 \in Nat
      BY SMT
    <3> QED
      BY <3>1, NewCoreValid DEF ValidManifest
  <2>3. Latest' = [id |-> 1, core |-> NewCoreDBState]
    BY <2>1, <2>2, FileRoundTrip DEF Latest
  <2>4. SSTsOf(Latest'.core) \subseteq DOMAIN ssts'
    BY <2>3, NewNamesNothing
  <2> QED
    BY <2>1, <2>4 DEF SSTInv
<1>2. CASE OpenManifest
  <2>1. /\ stored' = [Latest EXCEPT !.id = @ + 1] /\ manifest' = ManifestFile(stored')
        /\ core' = Latest.core /\ UNCHANGED <<ssts, m>>
    BY <1>2 DEF OpenManifest
  <2>2. Latest \in ValidManifest
    BY LatestValid
  <2>3. stored' \in ValidManifest /\ stored'.core = Latest.core
    BY <2>1, <2>2, BumpID
  <2>4. Latest' = stored'
    BY <2>1, <2>3, FileRoundTrip DEF Latest
  <2> QED
    BY <2>1, <2>3, <2>4 DEF SSTInv
<1> QED
  BY <1>1, <1>2

LEMMA SSTReplay ==
  ASSUME TypeInv, SSTInv, NEW id \in DOMAIN walSST, ReplayWAL(id)
  PROVE  SSTInv'
<1>1. /\ core' = IF core.nextWalSstID = id THEN [core EXCEPT !.nextWalSstID = @ + 1] ELSE core
      /\ UNCHANGED <<ssts, manifest, m>>
  BY DEF ReplayWAL, storeVars
<1>2. core \in CoreState
  BY DEF TypeInv, ValidCore
<1>3. core'.l0 = core.l0 /\ core'.compacted = core.compacted
  BY <1>1, <1>2 DEF CoreState
<1>4. SSTsOf(core') = SSTsOf(core) /\ Latest' = Latest
  BY <1>1, <1>3, LatestSame DEF SSTsOf
<1> QED
  BY <1>1, <1>4 DEF SSTInv

LEMMA SSTCompact ==
  ASSUME TypeInv, SSTInv, LeastElement, NEW i \in DOMAIN Latest.core.l0, Compact(i)
  PROVE  SSTInv'
<1>1. /\ DOMAIN ssts \subseteq DOMAIN ssts'
      /\ SSTsOf(Latest'.core) \subseteq DOMAIN ssts'
  BY CompactIs
<1>2. UNCHANGED <<core, m>>
  BY DEF Compact, stateVars, taskVars
<1> QED
  BY <1>1, <1>2 DEF SSTInv

LEMMA SSTNext ==
  ASSUME TypeInv, TypeInv', SSTInv, LeastElement, [Next]_vars
  PROVE  SSTInv'
<1>0. MemTask \in MemThreads /\ MemCallers \subseteq MemThreads
  BY DEF MemThreads
<1>1. CASE CreateManifest \/ OpenManifest
  BY <1>1, SSTOpen
<1>2. ASSUME NEW id \in DOMAIN walSST, ReplayWAL(id) PROVE SSTInv'
  BY <1>2, SSTReplay
<1>3. ASSUME NEW k, \/ ReplayDone \/ WalPut(k) \/ CloseStart \/ CloseShutdown \/ UNCHANGED vars
      PROVE  SSTInv'
  <2>1. UNCHANGED <<ssts, manifest, core, m>>
    BY <1>3 DEF ReplayDone, WalPut, CloseStart, CloseShutdown, vars, storeVars, stateVars,
                       taskVars
  <2> QED
    BY <2>1, SSTFrame
<1>4. CASE Crash \/ CloseDone
  <2>1. Halt /\ UNCHANGED storeVars
    BY <1>4 DEF Crash, CloseDone
  <2> QED
    BY <2>1, SSTHalt
<1>5. ASSUME NEW t \in WalThreads, WalStep(t) PROVE SSTInv'
  BY <1>5, SSTWal
<1>6. CASE PollManifest \/ ReceiveMsg \/ MemTaskExit
  BY <1>0, <1>6, SSTMem
<1>7. ASSUME NEW t \in MemThreads,
             FlushMemtableToL0(t) \/ FlushMemtableFreezes(t) \/ MemStep(t)
      PROVE  SSTInv'
  BY <1>7, SSTMem
<1>8. ASSUME NEW i \in DOMAIN Latest.core.l0, Compact(i) PROVE SSTInv'
  BY <1>8, SSTCompact
<1> QED
  BY <1>0, <1>1, <1>2, <1>3, <1>4, <1>5, <1>6, <1>7, <1>8 DEF Next

=============================================================================
