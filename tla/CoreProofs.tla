----------------------------- MODULE CoreProofs -----------------------------
(***************************************************************************)
(* Lemmas about the CoreDBState: what its fields are, what the merges of   *)
(* a refresh return, that a manifest file holds what was written, and how  *)
(* its L0 and sorted runs stay a stack of adjoining intervals.             *)
(***************************************************************************)
EXTENDS CoreDBState, TLAPS

(* Leaves are for Zenon, unless they name another prover. *)
USE Zenon

(* Induction, as the proofs need it: every set of natural numbers that is   *)
(* not empty has a least element.  A hypothesis here, and proved where the  *)
(* results are stated, as the long proofs need no other fact of the library *)
(* of theorems.                                                             *)
LeastElement == \A S \in SUBSET Nat : S # {} => \E x \in S : \A y \in S : x <= y

Distinct(s) == \A i, j \in DOMAIN s : i < j => s[i] # s[j]

(* Parts of a sequence. *)
LEMMA Prefix ==
  ASSUME NEW S, NEW s \in Seq(S), NEW n \in 0..Len(s)
  PROVE  /\ SubSeq(s, 1, n) \in Seq(S) /\ Len(SubSeq(s, 1, n)) = n
         /\ \A i \in 1..n : SubSeq(s, 1, n)[i] = s[i]
<1>1. SubSeq(s, 1, n) \in Seq(S)
  BY SMTT(30)
<1>2. Len(SubSeq(s, 1, n)) = n
  BY SMTT(30)
<1>3. \A i \in 1..n : SubSeq(s, 1, n)[i] = s[i]
  BY SMTT(30)
<1> QED
  BY <1>1, <1>2, <1>3

LEMMA Suffix ==
  ASSUME NEW S, NEW s \in Seq(S), NEW i \in 1..Len(s)
  PROVE  SubSeq(s, i, Len(s)) \in Seq(S)
BY SMTT(30)

(* L0After cuts the list before the place where the SST occurs. *)
LEMMA L0AfterIs ==
  ASSUME NEW l0 \in Seq(Nat), Distinct(l0) \/ LeastElement, NEW x
  PROVE  \/ (\A i \in 1..Len(l0) : l0[i] # x) /\ L0After(l0, x) = l0
         \/ \E k \in 1..Len(l0) : l0[k] = x /\ L0After(l0, x) = SubSeq(l0, 1, k - 1)
<1> DEFINE at == {i \in DOMAIN l0 : l0[i] = x}
<1>0. DOMAIN l0 = 1..Len(l0) /\ DOMAIN l0 \subseteq Nat
  BY SMT
<1>1. CASE at = {}
  BY <1>0, <1>1 DEF L0After
<1>2. CASE at # {}
  <2> DEFINE k == CHOOSE i \in at : \A j \in at : i <= j
  <2>1. ASSUME Distinct(l0) PROVE \E i \in at : \A j \in at : i <= j
    <3>1. PICK i \in DOMAIN l0 : l0[i] = x
      BY <1>2
    <3>2. \A j \in at : ~(i < j) /\ ~(j < i)
      BY <2>1, <3>1 DEF Distinct
    <3>3. \A j \in DOMAIN l0 : ~(j < i) => i <= j
      BY <1>0, SMT
    <3> QED
      BY <3>1, <3>2, <3>3
  <2>2. ASSUME LeastElement PROVE \E i \in at : \A j \in at : i <= j
    <3>1. at \in SUBSET Nat
      BY <1>0
    <3> QED
      BY <1>2, <2>2, <3>1 DEF LeastElement
  <2>3. \E i \in at : \A j \in at : i <= j
    BY <2>1, <2>2
  <2>4. k \in at
    BY <2>3
  <2>5. k \in 1..Len(l0) /\ l0[k] = x
    BY <1>0, <2>4
  <2>6. L0After(l0, x) = SubSeq(l0, 1, k - 1)
    BY <1>2 DEF L0After
  <2> QED
    BY <2>5, <2>6
<1> QED
  BY <1>1, <1>2

(* What a CoreDBState consists of. *)
LEMMA CoreFields ==
  ASSUME NEW c \in CoreState
  PROVE  /\ c.l0 \in Seq(Nat)
         /\ c.l0LastCompacted \in Nat
         /\ c.compacted \in Seq(SortedRun)
         /\ c.nextWalSstID \in Nat
         /\ c.lastCompactedWalSSTID \in Nat
BY DEF CoreState

(* The two merges are one: of the writer's side from c and the compactor's  *)
(* from d.                                                                  *)
LEMMA Merge ==
  ASSUME NEW c \in CoreState, NEW d \in CoreState
  PROVE  /\ RefreshDBState(c, d) = CompactorRefresh(d, c)
         /\ RefreshDBState(c, d).l0 = L0After(c.l0, d.l0LastCompacted)
         /\ RefreshDBState(c, d).l0LastCompacted = d.l0LastCompacted
         /\ RefreshDBState(c, d).compacted = d.compacted
         /\ RefreshDBState(c, d).nextWalSstID = c.nextWalSstID
         /\ RefreshDBState(c, d).lastCompactedWalSSTID = c.lastCompactedWalSSTID
BY DEF CoreState, RefreshDBState, CompactorRefresh

LEMMA MergeType ==
  ASSUME NEW c \in CoreState, Distinct(c.l0) \/ LeastElement, NEW d \in CoreState
  PROVE  RefreshDBState(c, d) \in CoreState
<1>1. c.l0 \in Seq(Nat) /\ d.l0LastCompacted \in Nat /\ d.compacted \in Seq(SortedRun)
  BY CoreFields
<1>2. L0After(c.l0, d.l0LastCompacted) \in Seq(Nat)
  <2>1. \A k \in 1..Len(c.l0) : SubSeq(c.l0, 1, k - 1) \in Seq(Nat)
    BY <1>1, SMT
  <2> QED
    BY <1>1, <2>1, L0AfterIs
<1> QED
  BY <1>1, <1>2 DEF CoreState, RefreshDBState

-----------------------------------------------------------------------------
(* States and manifests that can be written *)

(* A CoreDBState that can be written: a WAL id less 1 is a WAL id. *)
ValidCore == {c \in CoreState : c.nextWalSstID > 0}
ValidManifest == [id : Nat, core : ValidCore]

LEMMA ValidManifestTypes ==
  ASSUME NEW man \in ValidManifest
  PROVE  /\ man.id \in Nat
         /\ man.core \in ValidCore
         /\ man.core \in CoreState
         /\ man = [id |-> man.id, core |-> man.core]
BY DEF ValidManifest, ValidCore

LEMMA NewCoreValid == NewCoreDBState \in ValidCore
<1>1. NewCoreDBState \in CoreState /\ NewCoreDBState.nextWalSstID > 0
  BY SMT DEF NewCoreDBState, CoreState
<1> QED
  BY <1>1 DEF ValidCore

LEMMA BumpID ==
  ASSUME NEW man \in ValidManifest, NEW n, n = [man EXCEPT !.id = @ + 1]
  PROVE  n \in ValidManifest /\ n.core = man.core /\ n.id = man.id + 1
<1>1. man.id \in Nat /\ man.id + 1 \in Nat
  <2>1. man.id \in Nat
    BY ValidManifestTypes
  <2> QED
    BY <2>1, SMT
<1> QED
  BY <1>1 DEF ValidManifest

(* The manifest file holds what was written, and reads back as it. *)
LEMMA RoundTrip ==
  ASSUME NEW c \in ValidCore
  PROVE  EncodeManifest(c) \in ManifestV1 /\ DecodeManifest(EncodeManifest(c)) = c
<1>1. c \in CoreState /\ c.nextWalSstID \in Nat /\ c.nextWalSstID > 0
  BY CoreFields DEF ValidCore
<1>2. c.nextWalSstID - 1 \in Nat /\ (c.nextWalSstID - 1) + 1 = c.nextWalSstID
  BY <1>1, SMT
<1>3. EncodeManifest(c) \in ManifestV1
  BY <1>1, <1>2, CoreFields DEF EncodeManifest, ManifestV1
<1>4. c = [l0 |-> c.l0, l0LastCompacted |-> c.l0LastCompacted, compacted |-> c.compacted,
           nextWalSstID |-> c.nextWalSstID, lastCompactedWalSSTID |-> c.lastCompactedWalSSTID]
  BY <1>1 DEF CoreState
<1>5. DecodeManifest(EncodeManifest(c)) =
        [l0 |-> c.l0, l0LastCompacted |-> c.l0LastCompacted, compacted |-> c.compacted,
         nextWalSstID |-> (c.nextWalSstID - 1) + 1,
         lastCompactedWalSSTID |-> c.lastCompactedWalSSTID]
  BY DEF EncodeManifest, DecodeManifest
<1> QED
  BY <1>2, <1>3, <1>4, <1>5

LEMMA DecodedValid ==
  ASSUME NEW f \in ManifestV1
  PROVE  DecodeManifest(f) \in ValidCore
<1>1. f.walIdLastSeen + 1 \in Nat /\ f.walIdLastSeen + 1 > 0
  BY SMT DEF ManifestV1
<1>2. DecodeManifest(f) \in CoreState
  BY <1>1 DEF DecodeManifest, ManifestV1, CoreState
<1>3. DecodeManifest(f).nextWalSstID = f.walIdLastSeen + 1
  BY DEF DecodeManifest
<1> QED
  BY <1>1, <1>2, <1>3 DEF ValidCore

LEMMA ReadValid ==
  ASSUME NEW file \in [id : Nat, core : ManifestV1]
  PROVE  ReadManifest(file) \in ValidManifest
<1>1. file.id \in Nat /\ file.core \in ManifestV1
  OBVIOUS
<1> QED
  BY <1>1, DecodedValid DEF ReadManifest, ValidManifest

LEMMA FileRoundTrip ==
  ASSUME NEW man \in ValidManifest
  PROVE  /\ ManifestFile(man) \in [id : Nat, core : ManifestV1]
         /\ ManifestFile(man).id = man.id
         /\ ReadManifest(ManifestFile(man)) = man
<1>1. man.id \in Nat /\ man.core \in ValidCore /\ man = [id |-> man.id, core |-> man.core]
  BY ValidManifestTypes
<1>2. EncodeManifest(man.core) \in ManifestV1 /\ DecodeManifest(EncodeManifest(man.core)) = man.core
  BY <1>1, RoundTrip
<1>3. ManifestFile(man).id = man.id /\ ManifestFile(man).core = EncodeManifest(man.core)
  BY DEF ManifestFile
<1>4. ManifestFile(man) \in [id : Nat, core : ManifestV1]
  BY <1>1, <1>2 DEF ManifestFile
<1>5. ReadManifest(ManifestFile(man)) =
        [id |-> ManifestFile(man).id, core |-> DecodeManifest(ManifestFile(man).core)]
  BY DEF ReadManifest
<1> QED
  BY <1>1, <1>2, <1>3, <1>4, <1>5

LEMMA MergeValid ==
  ASSUME NEW c \in ValidCore, Distinct(c.l0) \/ LeastElement, NEW d \in ValidCore
  PROVE  RefreshDBState(c, d) \in ValidCore /\ CompactorRefresh(d, c) \in ValidCore
<1>1. c \in CoreState /\ d \in CoreState /\ c.nextWalSstID > 0
  BY DEF ValidCore
<1>2. RefreshDBState(c, d) \in CoreState
  BY <1>1, MergeType
<1>3. /\ RefreshDBState(c, d).nextWalSstID = c.nextWalSstID
      /\ RefreshDBState(c, d) = CompactorRefresh(d, c)
  BY <1>1, Merge
<1>4. RefreshDBState(c, d) \in ValidCore
  BY <1>1, <1>2, <1>3 DEF ValidCore
<1> QED
  BY <1>3, <1>4

-----------------------------------------------------------------------------
(* Stacks of SSTs, as the L0 and the sorted runs of a CoreDBState form them. *)
(* An SST is a set of batches, numbered in the order in which they were      *)
(* written; t is the sequence of the SSTs in the object store.  The SSTs of  *)
(* a state, L0 before the sorted runs, cover adjoining intervals of batches, *)
(* from lastCompactedWalSSTID down to 1 (Stacked).                           *)

(* The newest batch of SST n; no batch for no SST. *)
Top(t, n) == IF n = 0 THEN 0 ELSE CHOOSE b \in t[n] : \A x \in t[n] : x <= b

(* The newest batch of a list of SSTs that lies over the batch base. *)
FirstTop(t, s, base) == IF s = <<>> THEN base ELSE Top(t, s[1])

(* The newest batch below the i-th SST of the list. *)
Below(t, s, i, base) == IF i = Len(s) THEN base ELSE Top(t, s[i + 1])

(* The SSTs of the list cover adjoining intervals of batches over base. *)
Chain(t, s, base) ==
  \A i \in DOMAIN s :
    /\ s[i] \in DOMAIN t
    /\ Top(t, s[i]) \in Nat
    /\ base < Top(t, s[i])
    /\ \A j \in DOMAIN s : i < j => Top(t, s[j]) < Top(t, s[i])
    /\ t[s[i]] = Below(t, s, i, base) + 1 .. Top(t, s[i])

(* The batches of the SSTs of the list from the k-th on. *)
HeldFrom(t, s, k) == UNION {t[s[i]] : i \in k..Len(s)}

RunSSTs(runs) == [i \in DOMAIN runs |-> runs[i].sst]

RunsDescend(runs) == \A i, j \in DOMAIN runs : i < j => runs[i].id > runs[j].id

(* The SSTs of the state c, in the SSTs t of the object store. *)
Stacked(t, c) ==
  /\ c.l0LastCompacted \in {0} \cup DOMAIN t
  /\ Top(t, c.l0LastCompacted) \in Nat
  /\ Chain(t, c.l0, Top(t, c.l0LastCompacted))
  /\ Chain(t, RunSSTs(c.compacted), 0)
  /\ c.lastCompactedWalSSTID = FirstTop(t, c.l0, Top(t, c.l0LastCompacted))
  /\ Top(t, c.l0LastCompacted) = FirstTop(t, RunSSTs(c.compacted), 0)
  /\ RunsDescend(c.compacted)

(* d leads c in what is compacted, and c leads d in what is flushed. *)
Leads(d, c) ==
  \E i \in 1..Len(c.l0) + 1, j \in 0..Len(c.l0) :
    /\ i <= j + 1
    /\ d.l0 = SubSeq(c.l0, i, j)
    /\ d.l0LastCompacted = IF j = Len(c.l0) THEN c.l0LastCompacted ELSE c.l0[j + 1]

(* The writer's state c, the latest manifest's m and the compactor's a. *)
Linked(t, c, m, a) ==
  /\ Stacked(t, c)
  /\ Stacked(t, m)
  /\ Stacked(t, a)
  /\ Leads(m, c)
  /\ Leads(a, m)

-----------------------------------------------------------------------------
(* Lists *)

(* A bounded one has a greatest. *)
LEMMA Greatest ==
  ASSUME LeastElement, NEW n \in Nat, NEW S \in SUBSET (1..n), S # {}
  PROVE  \E x \in S : \A y \in S : y <= x
<1> DEFINE R == {n - x : x \in S}
<1>0. \A x \in S : n - x \in Nat
  BY SMT
<1>1. R \in SUBSET Nat /\ R # {}
  BY <1>0
<1>2. PICK r \in R : \A y \in R : r <= y
  BY <1>1 DEF LeastElement
<1>3. PICK x \in S : r = n - x
  BY <1>2
<1>4. ASSUME NEW y \in S PROVE y <= x
  <2>1. r <= n - y
    BY <1>2
  <2> QED
    BY <1>3, <2>1, SMT
<1> QED
  BY <1>4

LEMMA SameSeq ==
  ASSUME NEW S, NEW x \in Seq(S), NEW y \in Seq(S), Len(x) = Len(y),
         \A i \in 1..Len(x) : x[i] = y[i]
  PROVE  x = y
BY SMT

-----------------------------------------------------------------------------
(* Chains *)

(* The newest batch of an SST that holds an interval. *)
LEMMA TopInterval ==
  ASSUME NEW t, NEW n, n # 0, NEW a \in Nat, NEW b \in Nat, a < b, t[n] = a + 1 .. b
  PROVE  Top(t, n) = b
<1>1. b \in t[n] /\ \A x \in t[n] : x <= b
  BY SMT
<1>2. \A z \in t[n] : b <= z => z = b
  BY SMT
<1>3. \A z \in t[n] : (\A x \in t[n] : x <= z) => z = b
  BY <1>1, <1>2
<1> QED
  BY <1>1, <1>3 DEF Top

(* A new SST changes nothing about the earlier ones. *)
LEMMA TopAppend ==
  ASSUME NEW t \in Seq(SUBSET Nat), NEW S \in SUBSET Nat, NEW n \in {0} \cup DOMAIN t
  PROVE  Top(Append(t, S), n) = Top(t, n)
<1>1. CASE n = 0
  BY <1>1 DEF Top
<1>2. CASE n # 0
  <2>1. Append(t, S)[n] = t[n]
    BY <1>2, SMT
  <2> QED
    BY <1>2, <2>1, SMT DEF Top
<1> QED
  BY <1>1, <1>2

LEMMA ChainAppend ==
  ASSUME NEW t \in Seq(SUBSET Nat), NEW S \in SUBSET Nat, NEW s \in Seq(Nat), NEW base \in Nat,
         Chain(t, s, base)
  PROVE  /\ Chain(Append(t, S), s, base)
         /\ FirstTop(Append(t, S), s, base) = FirstTop(t, s, base)
<1> DEFINE u == Append(t, S)
<1>0. DOMAIN s = 1..Len(s) /\ Len(s) \in Nat
  BY SMT
<1>1. \A i \in DOMAIN s : s[i] \in DOMAIN t
  BY DEF Chain
<1>2. \A i \in DOMAIN s : Top(u, s[i]) = Top(t, s[i])
  BY <1>1, TopAppend
<1>3. \A i \in DOMAIN s : s[i] \in DOMAIN u /\ u[s[i]] = t[s[i]]
  BY <1>1, SMT
<1>4. \A i \in DOMAIN s : Below(u, s, i, base) = Below(t, s, i, base)
  <2> TAKE i \in DOMAIN s
  <2>1. i # Len(s) => i + 1 \in DOMAIN s
    BY <1>0, SMT
  <2> QED
    BY <1>2, <2>1 DEF Below
<1>5. Chain(u, s, base)
  BY <1>2, <1>3, <1>4 DEF Chain
<1>6. FirstTop(u, s, base) = FirstTop(t, s, base)
  <2>1. s # <<>> => 1 \in DOMAIN s
    BY SMT
  <2> QED
    BY <1>2, <2>1 DEF FirstTop
<1> QED
  BY <1>5, <1>6

(* An SST that holds the next interval goes on top of a chain. *)
LEMMA ChainPush ==
  ASSUME NEW t \in Seq(SUBSET Nat), NEW s \in Seq(Nat), NEW base \in Nat, Chain(t, s, base),
         NEW n \in DOMAIN t, NEW b \in Nat, FirstTop(t, s, base) < b,
         t[n] = FirstTop(t, s, base) + 1 .. b
  PROVE  Chain(t, <<n>> \o s, base) /\ Top(t, n) = b
<1> DEFINE u == <<n>> \o s
           a == FirstTop(t, s, base)
<1>0. Len(s) \in Nat /\ DOMAIN s = 1..Len(s) /\ n \in Nat /\ n # 0
  BY SMT
<1>1. u \in Seq(Nat) /\ Len(u) = Len(s) + 1 /\ DOMAIN u = 1..Len(s) + 1 /\ u[1] = n
  BY <1>0, SMT
<1>2. \A i \in DOMAIN s : u[i + 1] = s[i]
  BY <1>0, SMTT(30)
<1>3. a \in Nat /\ base <= a /\ (s # <<>> => 1 \in DOMAIN s /\ a = Top(t, s[1]))
  <2>1. CASE s = <<>>
    BY <2>1, SMT DEF FirstTop
  <2>2. CASE s # <<>>
    <3>1. 1 \in DOMAIN s
      BY <2>2, SMT
    <3>2. a = Top(t, s[1])
      BY <2>2 DEF FirstTop
    <3>3. Top(t, s[1]) \in Nat /\ base < Top(t, s[1])
      BY <3>1 DEF Chain
    <3> HIDE DEF a
    <3> QED
      BY <3>1, <3>2, <3>3, SMT
  <2> QED
    BY <2>1, <2>2
<1>4. Top(t, n) = b
  BY <1>0, <1>3, TopInterval
<1>5. \A j \in DOMAIN s : Top(t, s[j]) \in Nat /\ Top(t, s[j]) <= a
  <2> TAKE j \in DOMAIN s
  <2>1. Top(t, s[j]) \in Nat
    BY DEF Chain
  <2>2. s # <<>>
    BY SMT
  <2>3. 1 \in DOMAIN s /\ a = Top(t, s[1])
    BY <1>3, <2>2
  <2>4. 1 < j => Top(t, s[j]) < Top(t, s[1])
    BY <2>3 DEF Chain
  <2> HIDE DEF a
  <2>5. j = 1 \/ 1 < j
    BY SMT
  <2> QED
    BY <1>3, <2>1, <2>3, <2>4, <2>5, SMT
<1>6. ASSUME NEW i \in DOMAIN u, i = 1
      PROVE  /\ u[i] \in DOMAIN t
             /\ Top(t, u[i]) \in Nat
             /\ base < Top(t, u[i])
             /\ \A j \in DOMAIN u : i < j => Top(t, u[j]) < Top(t, u[i])
             /\ t[u[i]] = Below(t, u, i, base) + 1 .. Top(t, u[i])
  <2>0. u[i] = n /\ Top(t, u[i]) = b
    BY <1>1, <1>4, <1>6
  <2>1. base < b
    BY <1>3, SMT
  <2>2. ASSUME NEW j \in DOMAIN u, i < j PROVE Top(t, u[j]) < b
    <3>1. j - 1 \in DOMAIN s /\ (j - 1) + 1 = j
      BY <1>0, <1>1, <1>6, <2>2, SMT
    <3>2. u[j] = s[j - 1]
      BY <1>2, <3>1, SMT
    <3>3. Top(t, u[j]) \in Nat /\ Top(t, u[j]) <= a
      BY <1>5, <3>1, <3>2
    <3> QED
      BY <1>3, <3>3, SMT
  <2>3. Below(t, u, i, base) = a
    <3>1. CASE s = <<>>
      <4>1. Len(u) = 1
        BY <1>1, <3>1, SMT
      <4> QED
        BY <1>6, <3>1, <4>1 DEF Below, FirstTop
    <3>2. CASE s # <<>>
      <4>1. Len(u) # 1 /\ u[1 + 1] = s[1]
        BY <1>1, <1>2, <1>3, <3>2, SMT
      <4> QED
        BY <1>6, <3>2, <4>1 DEF Below, FirstTop
    <3> QED
      BY <3>1, <3>2
  <2> QED
    BY <2>0, <2>1, <2>2, <2>3
<1>7. ASSUME NEW i \in DOMAIN u, i # 1
      PROVE  /\ u[i] \in DOMAIN t
             /\ Top(t, u[i]) \in Nat
             /\ base < Top(t, u[i])
             /\ \A j \in DOMAIN u : i < j => Top(t, u[j]) < Top(t, u[i])
             /\ t[u[i]] = Below(t, u, i, base) + 1 .. Top(t, u[i])
  <2> DEFINE k == i - 1
  <2>1. k \in DOMAIN s /\ k + 1 = i
    BY <1>0, <1>1, <1>7, SMT
  <2>2. u[i] = s[k]
    BY <1>2, <2>1
  <2>3. ASSUME NEW j \in DOMAIN u, i < j PROVE Top(t, u[j]) < Top(t, u[i])
    <3>1. j - 1 \in DOMAIN s /\ (j - 1) + 1 = j /\ k < j - 1
      BY <1>0, <1>1, <1>7, <2>3, SMTT(30)
    <3>2. u[j] = s[j - 1]
      BY <1>2, <3>1, SMT
    <3> HIDE DEF k
    <3> QED
      BY <2>1, <2>2, <3>1, <3>2 DEF Chain
  <2>4. Below(t, u, i, base) = Below(t, s, k, base)
    <3>1. i = Len(u) <=> k = Len(s)
      BY <1>0, <1>1, SMT
    <3>2. k # Len(s) => u[i + 1] = s[k + 1]
      <4>1. k # Len(s) => k + 1 \in DOMAIN s
        BY <1>0, <2>1, SMT
      <4> HIDE DEF k
      <4> QED
        BY <1>2, <2>1, <4>1
    <3> HIDE DEF k
    <3> QED
      BY <3>1, <3>2 DEF Below
  <2> HIDE DEF k
  <2> QED
    BY <2>1, <2>2, <2>3, <2>4 DEF Chain
<1>8. Chain(t, u, base)
  BY <1>6, <1>7 DEF Chain
<1> QED
  BY <1>4, <1>8

(* The upper part of a chain lies over the SST below it. *)
LEMMA ChainCut ==
  ASSUME NEW t \in Seq(SUBSET Nat), NEW s \in Seq(Nat), NEW base \in Nat, Chain(t, s, base),
         NEW m \in 0..Len(s)
  PROVE  /\ Below(t, s, m, base) \in Nat
         /\ Chain(t, SubSeq(s, 1, m), Below(t, s, m, base))
         /\ FirstTop(t, SubSeq(s, 1, m), Below(t, s, m, base)) = FirstTop(t, s, base)
<1> DEFINE u == SubSeq(s, 1, m)
           low == Below(t, s, m, base)
<1>0. Len(s) \in Nat /\ m \in Nat /\ m <= Len(s)
  BY SMT
<1>1. u \in Seq(Nat) /\ Len(u) = m /\ DOMAIN u = 1..m /\ \A i \in 1..m : u[i] = s[i]
  BY <1>0, SMT
<1>2. DOMAIN u \subseteq DOMAIN s
  BY <1>0, <1>1, SMT
<1>3. m # Len(s) => m + 1 \in DOMAIN s
  BY <1>0, SMT
<1>4. low \in Nat
  BY <1>3 DEF Chain, Below
<1>5. ASSUME NEW i \in DOMAIN u
      PROVE  /\ u[i] \in DOMAIN t
             /\ Top(t, u[i]) \in Nat
             /\ low < Top(t, u[i])
             /\ \A j \in DOMAIN u : i < j => Top(t, u[j]) < Top(t, u[i])
             /\ t[u[i]] = Below(t, u, i, low) + 1 .. Top(t, u[i])
  <2>0. i \in DOMAIN s /\ u[i] = s[i] /\ \A j \in DOMAIN u : j \in DOMAIN s /\ u[j] = s[j]
    BY <1>1, <1>2
  <2>1. u[i] \in DOMAIN t /\ Top(t, u[i]) \in Nat
    BY <2>0 DEF Chain
  <2>2. low < Top(t, u[i])
    <3>1. CASE m = Len(s)
      BY <2>0, <3>1 DEF Chain, Below
    <3>2. CASE m # Len(s)
      <4>1. m + 1 \in DOMAIN s /\ i < m + 1
        BY <1>0, <1>1, <1>3, <3>2, SMT
      <4> QED
        BY <2>0, <3>2, <4>1 DEF Chain, Below
    <3> QED
      BY <3>1, <3>2
  <2>3. \A j \in DOMAIN u : i < j => Top(t, u[j]) < Top(t, u[i])
    BY <2>0 DEF Chain
  <2>4. Below(t, u, i, low) = Below(t, s, i, base)
    <3>1. CASE i = m
      BY <1>1, <3>1 DEF Below
    <3>2. CASE i # m
      <4>1. i # Len(s) /\ i + 1 \in DOMAIN u
        BY <1>0, <1>1, <3>2, SMTT(30)
      <4> QED
        BY <1>1, <2>0, <3>2, <4>1 DEF Below
    <3> QED
      BY <3>1, <3>2
  <2>5. t[u[i]] = Below(t, s, i, base) + 1 .. Top(t, u[i])
    BY <2>0 DEF Chain
  <2> QED
    BY <2>1, <2>2, <2>3, <2>4, <2>5
<1>6. Chain(t, u, low)
  BY <1>5 DEF Chain
<1>7. FirstTop(t, u, low) = FirstTop(t, s, base)
  <2>1. CASE m = 0
    <3>1. u = <<>>
      BY <1>1, <2>1, SMT
    <3>2. CASE s = <<>>
      <4>1. Len(s) = 0
        BY <3>2, SMT
      <4> QED
        BY <2>1, <3>1, <3>2, <4>1 DEF FirstTop, Below
    <3>3. CASE s # <<>>
      <4>1. Len(s) # 0 /\ 0 + 1 = 1
        BY <3>3, SMT
      <4> QED
        BY <2>1, <3>1, <3>3, <4>1 DEF FirstTop, Below
    <3> QED
      BY <3>2, <3>3
  <2>2. CASE m # 0
    <3>1. u # <<>> /\ s # <<>> /\ u[1] = s[1]
      BY <1>0, <1>1, <2>2, SMTT(30)
    <3> QED
      BY <3>1 DEF FirstTop
  <2> QED
    BY <2>1, <2>2
<1> QED
  BY <1>4, <1>6, <1>7

(* The SSTs of a chain hold nothing else. *)
LEMMA ChainHolds ==
  ASSUME NEW t \in Seq(SUBSET Nat), NEW s \in Seq(Nat), NEW base \in Nat, Chain(t, s, base),
         NEW i \in DOMAIN s, NEW b \in t[s[i]]
  PROVE  /\ b \in Nat
         /\ base < b
         /\ b <= Top(t, s[i])
         /\ b <= FirstTop(t, s, base)
         /\ \A j \in DOMAIN s : i < j => Top(t, s[j]) < b
<1>0. Len(s) \in Nat /\ DOMAIN s = 1..Len(s)
  BY SMT
<1> DEFINE low == Below(t, s, i, base)
<1>1. low \in Nat /\ base <= low
  <2>1. CASE i = Len(s)
    <3>1. low = base
      BY <2>1 DEF Below
    <3> QED
      BY <3>1, SMT
  <2>2. CASE i # Len(s)
    <3>1. i + 1 \in DOMAIN s
      BY <1>0, <2>2, SMT
    <3>2. low = Top(t, s[i + 1])
      BY <2>2 DEF Below
    <3>3. Top(t, s[i + 1]) \in Nat /\ base < Top(t, s[i + 1])
      BY <3>1 DEF Chain
    <3> HIDE DEF low
    <3> QED
      BY <3>2, <3>3, SMT
  <2> QED
    BY <2>1, <2>2
<1>2. t[s[i]] = low + 1 .. Top(t, s[i]) /\ Top(t, s[i]) \in Nat
  BY DEF Chain
<1> HIDE DEF low
<1>3. b \in Nat /\ base < b /\ low < b /\ b <= Top(t, s[i])
  BY <1>1, <1>2, SMT
<1>4. Top(t, s[i]) <= FirstTop(t, s, base)
  <2>1. s # <<>> /\ 1 \in DOMAIN s
    BY <1>0, SMT
  <2>2. FirstTop(t, s, base) = Top(t, s[1])
    BY <2>1 DEF FirstTop
  <2>3. 1 < i => Top(t, s[i]) < Top(t, s[1])
    BY <2>1 DEF Chain
  <2>4. Top(t, s[1]) \in Nat
    BY <2>1 DEF Chain
  <2>5. i = 1 \/ 1 < i
    BY <1>0, SMT
  <2> QED
    BY <1>2, <2>2, <2>3, <2>4, <2>5, SMT
<1>5. FirstTop(t, s, base) \in Nat
  <2>1. s # <<>> /\ 1 \in DOMAIN s
    BY <1>0, SMT
  <2> QED
    BY <2>1 DEF FirstTop, Chain
<1>6. ASSUME NEW j \in DOMAIN s, i < j PROVE Top(t, s[j]) < b
  <2>1. i # Len(s) /\ i + 1 \in DOMAIN s
    BY <1>0, <1>6, SMTT(30)
  <2>2. low = Top(t, s[i + 1])
    BY <2>1 DEF Below, low
  <2>3. i + 1 < j => Top(t, s[j]) < Top(t, s[i + 1])
    BY <2>1 DEF Chain
  <2>4. Top(t, s[j]) \in Nat
    BY DEF Chain
  <2>5. i + 1 = j \/ i + 1 < j
    BY <1>0, <1>6, SMT
  <2> QED
    BY <1>1, <1>3, <2>2, <2>3, <2>4, <2>5, SMTT(30)
<1>7. b <= FirstTop(t, s, base)
  BY <1>2, <1>3, <1>4, <1>5, SMT
<1> QED
  BY <1>3, <1>6, <1>7

(* Of two batches in a chain the newer one is no further down. *)
LEMMA ChainOrder ==
  ASSUME NEW t \in Seq(SUBSET Nat), NEW s \in Seq(Nat), NEW base \in Nat, Chain(t, s, base),
         NEW i \in DOMAIN s, NEW j \in DOMAIN s,
         NEW old \in t[s[i]], NEW new \in t[s[j]], old < new
  PROVE  j <= i
<1>1. old \in Nat /\ (i < j => Top(t, s[j]) < old)
  BY ChainHolds
<1>2. new \in Nat /\ new <= Top(t, s[j])
  BY ChainHolds
<1>3. Top(t, s[j]) \in Nat
  BY DEF Chain
<1>4. ~(i < j)
  BY <1>1, <1>2, <1>3, SMT
<1> QED
  BY <1>4, SMT

-----------------------------------------------------------------------------
(* Stretches of L0 *)

LEMMA Stretch ==
  ASSUME NEW s \in Seq(Nat), NEW i \in 1..Len(s) + 1, NEW j \in 0..Len(s), i <= j + 1
  PROVE  /\ SubSeq(s, i, j) \in Seq(Nat)
         /\ Len(SubSeq(s, i, j)) = j - i + 1
         /\ \A k \in 1..j - i + 1 : SubSeq(s, i, j)[k] = s[i + k - 1]
<1>1. SubSeq(s, i, j) \in Seq(Nat)
  BY SMTT(30)
<1>2. Len(SubSeq(s, i, j)) = j - i + 1
  BY SMTT(30)
<1>3. ASSUME NEW k \in 1..j - i + 1 PROVE SubSeq(s, i, j)[k] = s[i + k - 1]
  BY SMTT(30)
<1> QED
  BY <1>1, <1>2, <1>3

LEMMA StretchOfStretch ==
  ASSUME NEW s \in Seq(Nat), NEW i \in 1..Len(s) + 1, NEW j \in 0..Len(s), i <= j + 1,
         NEW k \in 1..j - i + 2, NEW l \in 0..j - i + 1, k <= l + 1
  PROVE  SubSeq(SubSeq(s, i, j), k, l) = SubSeq(s, i + k - 1, i + l - 1)
<1> DEFINE u == SubSeq(s, i, j)
           v == SubSeq(u, k, l)
           x == SubSeq(s, i + k - 1, i + l - 1)
<1>1. u \in Seq(Nat) /\ Len(u) = j - i + 1 /\ \A m \in 1..j - i + 1 : u[m] = s[i + m - 1]
  BY Stretch, SMT
<1>2. /\ v \in Seq(Nat)
      /\ Len(v) = l - k + 1
      /\ \A m \in 1..l - k + 1 : v[m] = u[k + m - 1]
  <2>1. k \in 1..Len(u) + 1 /\ l \in 0..Len(u)
    BY <1>1, SMT
  <2> HIDE DEF u
  <2> QED
    BY <1>1, <2>1, Stretch
<1>3. /\ x \in Seq(Nat)
      /\ Len(x) = l - k + 1
      /\ \A m \in 1..l - k + 1 : x[m] = s[(i + k - 1) + m - 1]
  <2> DEFINE p == i + k - 1
             q == i + l - 1
  <2>1. p \in 1..Len(s) + 1 /\ q \in 0..Len(s) /\ p <= q + 1 /\ q - p + 1 = l - k + 1
    BY SMT
  <2> HIDE DEF p, q
  <2>2. /\ SubSeq(s, p, q) \in Seq(Nat)
        /\ Len(SubSeq(s, p, q)) = q - p + 1
        /\ \A m \in 1..q - p + 1 : SubSeq(s, p, q)[m] = s[p + m - 1]
    BY <2>1, Stretch
  <2> QED
    BY <2>1, <2>2 DEF p, q
<1>4. ASSUME NEW m \in 1..l - k + 1 PROVE v[m] = x[m]
  <2>1. k + m - 1 \in 1..j - i + 1 /\ i + (k + m - 1) - 1 = (i + k - 1) + m - 1
    BY SMT
  <2> HIDE DEF u, v, x
  <2> QED
    BY <1>1, <1>2, <1>3, <2>1
<1> HIDE DEF u, v, x
<1>5. v = x
  BY <1>2, <1>3, <1>4, SameSeq, SMT
<1> QED
  BY <1>5, SMT DEF u, v, x

LEMMA LeadsRefl ==
  ASSUME NEW c \in CoreState
  PROVE  Leads(c, c)
<1>1. c.l0 \in Seq(Nat)
  BY CoreFields
<1>2. 1 \in 1..Len(c.l0) + 1 /\ Len(c.l0) \in 0..Len(c.l0) /\ 1 <= Len(c.l0) + 1
  BY <1>1, SMT
<1>3. c.l0 = SubSeq(c.l0, 1, Len(c.l0))
  BY <1>1, SMT
<1> QED
  BY <1>2, <1>3 DEF Leads

LEMMA LeadsTrans ==
  ASSUME NEW c \in CoreState, NEW d \in CoreState, NEW e \in CoreState, Leads(d, c), Leads(e, d)
  PROVE  Leads(e, c)
<1>0. c.l0 \in Seq(Nat) /\ d.l0 \in Seq(Nat)
  BY CoreFields
<1>1. PICK i \in 1..Len(c.l0) + 1, j \in 0..Len(c.l0) :
         /\ i <= j + 1
         /\ d.l0 = SubSeq(c.l0, i, j)
         /\ d.l0LastCompacted = IF j = Len(c.l0) THEN c.l0LastCompacted ELSE c.l0[j + 1]
  BY DEF Leads
<1>2. PICK k \in 1..Len(d.l0) + 1, l \in 0..Len(d.l0) :
         /\ k <= l + 1
         /\ e.l0 = SubSeq(d.l0, k, l)
         /\ e.l0LastCompacted = IF l = Len(d.l0) THEN d.l0LastCompacted ELSE d.l0[l + 1]
  BY DEF Leads
<1>3. /\ Len(d.l0) = j - i + 1
      /\ \A m \in 1..j - i + 1 : d.l0[m] = c.l0[i + m - 1]
  BY <1>0, <1>1, Stretch, SMT
<1> DEFINE n == Len(c.l0)
           p == i + k - 1
           q == i + l - 1
<1>4. n \in Nat /\ i \in Nat /\ j \in Nat /\ 1 <= i /\ i <= n + 1 /\ j <= n /\ i <= j + 1
  BY <1>0, <1>1, SMT
<1>5. k \in Nat /\ l \in Nat /\ 1 <= k /\ k <= j - i + 2 /\ l <= j - i + 1 /\ k <= l + 1
  BY <1>2, <1>3, <1>4, SMT
<1>6. p \in 1..n + 1 /\ q \in 0..n /\ p <= q + 1
  <2> HIDE DEF n
  <2> QED
    BY <1>4, <1>5, SMT
<1>7. e.l0 = SubSeq(c.l0, p, q)
  <2>1. k \in 1..j - i + 2 /\ l \in 0..j - i + 1
    BY <1>4, <1>5, SMT
  <2>2. SubSeq(SubSeq(c.l0, i, j), k, l) = SubSeq(c.l0, p, q)
    BY <1>0, <1>1, <1>5, <2>1, StretchOfStretch
  <2> QED
    BY <1>1, <1>2, <2>2
<1>8. e.l0LastCompacted = IF q = n THEN c.l0LastCompacted ELSE c.l0[q + 1]
  <2>1. CASE l = Len(d.l0)
    <3>1. q = j
      BY <1>3, <1>4, <2>1, SMT
    <3> HIDE DEF n, q
    <3> QED
      BY <1>1, <1>2, <2>1, <3>1 DEF n
  <2>2. CASE l # Len(d.l0)
    <3>1. l + 1 \in 1..j - i + 1 /\ i + (l + 1) - 1 = q + 1 /\ q # n
      BY <1>3, <1>4, <1>5, <2>2, SMT
    <3>2. e.l0LastCompacted = d.l0[l + 1]
      BY <1>2, <2>2
    <3>3. d.l0[l + 1] = c.l0[i + (l + 1) - 1]
      BY <1>3, <3>1
    <3> HIDE DEF n, q
    <3> QED
      BY <3>1, <3>2, <3>3
  <2> QED
    BY <2>1, <2>2
<1> HIDE DEF p, q
<1> QED
  BY <1>6, <1>7, <1>8 DEF Leads

-----------------------------------------------------------------------------
(* The merges *)

(* No SST is twice in the L0 of a stack. *)
LEMMA StackedDistinct ==
  ASSUME NEW t, NEW c \in CoreState, Stacked(t, c)
  PROVE  Distinct(c.l0)
<1> SUFFICES ASSUME NEW i \in DOMAIN c.l0, NEW j \in DOMAIN c.l0, i < j
             PROVE  c.l0[i] # c.l0[j]
  BY DEF Distinct
<1>1. Top(t, c.l0[i]) \in Nat /\ Top(t, c.l0[j]) < Top(t, c.l0[i])
  BY DEF Stacked, Chain
<1>2. Top(t, c.l0[j]) # Top(t, c.l0[i])
  BY <1>1, SMT
<1> QED
  BY <1>2

(* The SST compacted last by the leading state is where its own L0 ends in  *)
(* the L0 of the other, and L0After cuts there.                             *)
LEMMA LeaderCut ==
  ASSUME NEW t \in Seq(SUBSET Nat), NEW c \in CoreState, NEW d \in CoreState,
         Stacked(t, c), Leads(d, c)
  PROVE  \E i \in 1..Len(c.l0) + 1, j \in 0..Len(c.l0) :
           /\ i <= j + 1
           /\ d.l0 = SubSeq(c.l0, i, j)
           /\ d.l0LastCompacted = IF j = Len(c.l0) THEN c.l0LastCompacted ELSE c.l0[j + 1]
           /\ L0After(c.l0, d.l0LastCompacted) = SubSeq(c.l0, 1, j)
           /\ Top(t, d.l0LastCompacted) = Below(t, c.l0, j, Top(t, c.l0LastCompacted))
<1> DEFINE l0 == c.l0
           x == d.l0LastCompacted
           base == Top(t, c.l0LastCompacted)
<1>0. l0 \in Seq(Nat) /\ Len(l0) \in Nat
  BY CoreFields, SMT
<1>1. PICK i \in 1..Len(l0) + 1, j \in 0..Len(l0) :
         /\ i <= j + 1
         /\ d.l0 = SubSeq(l0, i, j)
         /\ x = IF j = Len(l0) THEN c.l0LastCompacted ELSE l0[j + 1]
  BY DEF Leads
<1>2. Chain(t, l0, base) /\ base \in Nat
  BY DEF Stacked
<1>3. \A k \in DOMAIN l0 : /\ Top(t, l0[k]) \in Nat
                           /\ base < Top(t, l0[k])
                           /\ \A m \in DOMAIN l0 : k < m => Top(t, l0[m]) < Top(t, l0[k])
  BY <1>2 DEF Chain
<1>4. Top(t, x) = Below(t, l0, j, base)
  BY <1>1 DEF Below
<1>5. L0After(l0, x) = SubSeq(l0, 1, j)
  <2>1. \/ (\A k \in 1..Len(l0) : l0[k] # x) /\ L0After(l0, x) = l0
        \/ \E k \in 1..Len(l0) : l0[k] = x /\ L0After(l0, x) = SubSeq(l0, 1, k - 1)
    BY <1>0, L0AfterIs, StackedDistinct
  <2>2. CASE j = Len(l0)
    <3>1. x = c.l0LastCompacted
      BY <1>1, <2>2
    <3>2. ASSUME NEW k \in 1..Len(l0), l0[k] = x PROVE FALSE
      <4>1. k \in DOMAIN l0
        BY <1>0, SMT
      <4>2. base < base
        BY <1>3, <3>1, <3>2, <4>1
      <4> QED
        BY <1>2, <4>2, SMT
    <3>3. L0After(l0, x) = l0
      BY <2>1, <3>2
    <3>4. SubSeq(l0, 1, Len(l0)) = l0
      BY <1>0, SMT
    <3> QED
      BY <2>2, <3>3, <3>4
  <2>3. CASE j # Len(l0)
    <3>1. x = l0[j + 1]
      BY <1>1, <2>3
    <3>2. j + 1 \in 1..Len(l0) /\ j + 1 \in DOMAIN l0 /\ j \in Nat
      BY <1>0, <2>3, SMT
    <3>3. PICK k \in 1..Len(l0) : l0[k] = x /\ L0After(l0, x) = SubSeq(l0, 1, k - 1)
      BY <2>1, <3>1, <3>2
    <3>4. k \in DOMAIN l0
      BY <1>0, SMT
    <3>5. ~(k < j + 1)
      <4>1. k < j + 1 => Top(t, x) < Top(t, x)
        BY <1>3, <3>1, <3>2, <3>3, <3>4
      <4>2. Top(t, x) \in Nat
        BY <1>3, <3>1, <3>2
      <4> QED
        BY <4>1, <4>2, SMT
    <3>6. ~(j + 1 < k)
      <4>1. j + 1 < k => Top(t, x) < Top(t, x)
        BY <1>3, <3>1, <3>2, <3>3, <3>4
      <4>2. Top(t, x) \in Nat
        BY <1>3, <3>1, <3>2
      <4> QED
        BY <4>1, <4>2, SMT
    <3>7. k - 1 = j
      BY <3>2, <3>5, <3>6, SMT
    <3> QED
      BY <3>3, <3>7
  <2> QED
    BY <2>2, <2>3
<1> QED
  BY <1>1, <1>4, <1>5

(* The merge of two stacks is a stack, between the two, and the compactor's *)
(* L0 is the lower end of the new L0.                                       *)
LEMMA MergeStacked ==
  ASSUME NEW t \in Seq(SUBSET Nat), NEW c \in CoreState, NEW d \in CoreState,
         Stacked(t, c), Stacked(t, d), Leads(d, c)
  PROVE  /\ Stacked(t, RefreshDBState(c, d))
         /\ Leads(RefreshDBState(c, d), c)
         /\ Leads(d, RefreshDBState(c, d))
         /\ \E n \in 0..Len(RefreshDBState(c, d).l0) :
              d.l0 = SubSeq(RefreshDBState(c, d).l0, n + 1, Len(RefreshDBState(c, d).l0))
<1> DEFINE m == RefreshDBState(c, d)
           base == Top(t, c.l0LastCompacted)
           low == Top(t, d.l0LastCompacted)
<1>0. c.l0 \in Seq(Nat) /\ Len(c.l0) \in Nat
  BY CoreFields, SMT
<1>1. PICK i \in 1..Len(c.l0) + 1, j \in 0..Len(c.l0) :
        /\ i <= j + 1
        /\ d.l0 = SubSeq(c.l0, i, j)
        /\ d.l0LastCompacted = IF j = Len(c.l0) THEN c.l0LastCompacted ELSE c.l0[j + 1]
        /\ L0After(c.l0, d.l0LastCompacted) = SubSeq(c.l0, 1, j)
        /\ low = Below(t, c.l0, j, base)
  BY LeaderCut
<1>2. /\ m.l0 = SubSeq(c.l0, 1, j)
      /\ m.l0LastCompacted = d.l0LastCompacted
      /\ m.compacted = d.compacted
      /\ m.lastCompactedWalSSTID = c.lastCompactedWalSSTID
  BY <1>1, Merge
<1>3. Chain(t, c.l0, base) /\ base \in Nat /\ c.lastCompactedWalSSTID = FirstTop(t, c.l0, base)
  BY DEF Stacked
<1>4. Chain(t, m.l0, low) /\ FirstTop(t, m.l0, low) = FirstTop(t, c.l0, base)
  BY <1>0, <1>1, <1>2, <1>3, ChainCut
<1>5. Stacked(t, m)
  BY <1>2, <1>3, <1>4 DEF Stacked
<1>6. m.l0 \in Seq(Nat) /\ Len(m.l0) = j /\ j \in Nat
  <2>1. 1 \in 1..Len(c.l0) + 1 /\ 1 <= j + 1 /\ j - 1 + 1 = j
    BY <1>0, <1>1, SMT
  <2>2. SubSeq(c.l0, 1, j) \in Seq(Nat) /\ Len(SubSeq(c.l0, 1, j)) = j
    BY <1>0, <2>1, Stretch, SMT
  <2>3. j \in Nat
    BY <1>0, <1>1, SMT
  <2> QED
    BY <1>2, <2>2, <2>3
<1>7. Leads(m, c)
  <2>1. 1 \in 1..Len(c.l0) + 1 /\ 1 <= j + 1
    BY <1>0, <1>1, SMT
  <2> QED
    BY <1>1, <1>2, <2>1 DEF Leads
<1>8. d.l0 = SubSeq(m.l0, i, j) /\ i \in 1..Len(m.l0) + 1 /\ j \in 0..Len(m.l0)
  <2>1. i \in 1..j - 1 + 2 /\ j \in 0..j - 1 + 1 /\ 1 \in 1..Len(c.l0) + 1 /\ 1 <= j + 1
    BY <1>0, <1>1, SMT
  <2>2. 1 + i - 1 = i /\ 1 + j - 1 = j
    BY <1>0, <1>1, SMT
  <2>3. SubSeq(SubSeq(c.l0, 1, j), i, j) = SubSeq(c.l0, 1 + i - 1, 1 + j - 1)
    BY <1>0, <1>1, <2>1, StretchOfStretch
  <2>4. i \in 1..Len(m.l0) + 1 /\ j \in 0..Len(m.l0)
    BY <1>1, <1>6, SMT
  <2> QED
    BY <1>1, <1>2, <2>2, <2>3, <2>4
<1>9. Leads(d, m)
  BY <1>1, <1>2, <1>6, <1>8 DEF Leads
<1>10. \E n \in 0..Len(m.l0) : d.l0 = SubSeq(m.l0, n + 1, Len(m.l0))
  <2>1. i - 1 \in 0..Len(m.l0) /\ (i - 1) + 1 = i
    BY <1>1, <1>6, SMT
  <2> QED
    BY <1>6, <1>8, <2>1
<1> QED
  BY <1>5, <1>7, <1>9, <1>10

-----------------------------------------------------------------------------
(* New SSTs *)

LEMMA Cons ==
  ASSUME NEW S, NEW x \in S, NEW s \in Seq(S)
  PROVE  /\ <<x>> \o s \in Seq(S)
         /\ Len(<<x>> \o s) = Len(s) + 1
         /\ <<x>> \o s # <<>>
         /\ (<<x>> \o s)[1] = x
         /\ \A i \in 2..Len(s) + 1 : (<<x>> \o s)[i] = s[i - 1]
BY SMT

LEMMA RunSSTsType ==
  ASSUME NEW runs \in Seq(SortedRun)
  PROVE  /\ RunSSTs(runs) \in Seq(Nat)
         /\ Len(RunSSTs(runs)) = Len(runs)
         /\ DOMAIN RunSSTs(runs) = DOMAIN runs
         /\ \A i \in 1..Len(runs) : RunSSTs(runs)[i] = runs[i].sst
<1>0. \A i \in 1..Len(runs) : runs[i] \in SortedRun
  BY SMT
<1>1. \A i \in 1..Len(runs) : runs[i].sst \in Nat
  BY <1>0 DEF SortedRun
<1> QED
  BY <1>1, SMT DEF RunSSTs

(* A new SST in the object store changes no stack. *)
LEMMA StackedAppend ==
  ASSUME NEW t \in Seq(SUBSET Nat), NEW S \in SUBSET Nat, NEW c \in CoreState, Stacked(t, c)
  PROVE  Stacked(Append(t, S), c)
<1> DEFINE u == Append(t, S)
           base == Top(t, c.l0LastCompacted)
<1>0. c.l0 \in Seq(Nat) /\ RunSSTs(c.compacted) \in Seq(Nat)
  BY CoreFields, RunSSTsType
<1>1. Top(u, c.l0LastCompacted) = base
  BY TopAppend DEF Stacked
<1>2. c.l0LastCompacted \in {0} \cup DOMAIN u
  <2>1. c.l0LastCompacted \in {0} \cup DOMAIN t
    BY DEF Stacked
  <2> QED
    BY <2>1, SMT
<1>3. Chain(u, c.l0, base) /\ FirstTop(u, c.l0, base) = FirstTop(t, c.l0, base)
  BY <1>0, ChainAppend DEF Stacked
<1>4. 0 \in Nat
  BY SMT
<1>5. /\ Chain(u, RunSSTs(c.compacted), 0)
      /\ FirstTop(u, RunSSTs(c.compacted), 0) = FirstTop(t, RunSSTs(c.compacted), 0)
  BY <1>0, <1>4, ChainAppend DEF Stacked
<1> QED
  BY <1>1, <1>2, <1>3, <1>5 DEF Stacked

(* The writer's flush: an SST with the batches after lastCompactedWalSSTID. *)
LEMMA FlushStacked ==
  ASSUME NEW t \in Seq(SUBSET Nat), NEW c \in CoreState, NEW d \in CoreState, Stacked(t, c),
         NEW b \in Nat, c.lastCompactedWalSSTID < b,
         d.l0 = <<Len(t) + 1>> \o c.l0,
         d.l0LastCompacted = c.l0LastCompacted,
         d.compacted = c.compacted,
         d.lastCompactedWalSSTID = b
  PROVE  Stacked(Append(t, c.lastCompactedWalSSTID + 1 .. b), d) /\ Leads(c, d)
<1> DEFINE a == c.lastCompactedWalSSTID
           u == Append(t, a + 1 .. b)
           n == Len(t) + 1
           base == Top(u, c.l0LastCompacted)
<1>0. c.l0 \in Seq(Nat) /\ a \in Nat
  BY CoreFields
<1>1. a + 1 .. b \in SUBSET Nat
  BY <1>0, SMT
<1>2. Stacked(u, c)
  BY <1>1, StackedAppend
<1>3. u \in Seq(SUBSET Nat) /\ n \in DOMAIN u /\ u[n] = a + 1 .. b /\ n \in Nat
  BY <1>1, SMT
<1>4. Chain(u, c.l0, base) /\ base \in Nat /\ a = FirstTop(u, c.l0, base)
  BY <1>2 DEF Stacked
<1>5. Chain(u, d.l0, base) /\ Top(u, n) = b
  <2> HIDE DEF a, u, n, base
  <2>1. FirstTop(u, c.l0, base) < b /\ u[n] = FirstTop(u, c.l0, base) + 1 .. b
    BY <1>3, <1>4 DEF a
  <2>2. Chain(u, <<n>> \o c.l0, base) /\ Top(u, n) = b
    BY <1>0, <1>3, <1>4, <2>1, ChainPush, SMT
  <2> QED
    BY <2>2 DEF n
<1>6. d.l0 # <<>> /\ d.l0[1] = n
  BY <1>0, <1>3, SMT
<1>7. FirstTop(u, d.l0, base) = b
  BY <1>5, <1>6 DEF FirstTop
<1>8. Stacked(u, d)
  BY <1>2, <1>5, <1>7 DEF Stacked
<1>9. Leads(c, d)
  <2>1. Len(d.l0) = Len(c.l0) + 1 /\ Len(c.l0) \in Nat
    BY <1>0, <1>3, SMT
  <2>2. c.l0 = SubSeq(d.l0, 2, Len(d.l0))
    BY <1>0, <1>3, SMT
  <2>3. 2 \in 1..Len(d.l0) + 1 /\ Len(d.l0) \in 0..Len(d.l0) /\ 2 <= Len(d.l0) + 1
    BY <2>1, SMT
  <2> QED
    BY <2>2, <2>3 DEF Leads
<1> QED
  BY <1>8, <1>9

-----------------------------------------------------------------------------
(* What each side does to the three states *)

LEMMA LinkedAppend ==
  ASSUME NEW t \in Seq(SUBSET Nat), NEW S \in SUBSET Nat,
         NEW c \in CoreState, NEW m \in CoreState, NEW a \in CoreState, Linked(t, c, m, a)
  PROVE  Linked(Append(t, S), c, m, a)
BY StackedAppend DEF Linked

LEMMA LinkedOpen ==
  ASSUME NEW t \in Seq(SUBSET Nat), NEW m \in CoreState, Stacked(t, m)
  PROVE  Linked(t, m, m, m)
BY LeadsRefl DEF Linked

LEMMA LinkedFlush ==
  ASSUME NEW t \in Seq(SUBSET Nat),
         NEW c \in CoreState, NEW m \in CoreState, NEW a \in CoreState, Linked(t, c, m, a),
         NEW d \in CoreState, NEW b \in Nat, c.lastCompactedWalSSTID < b,
         d.l0 = <<Len(t) + 1>> \o c.l0,
         d.l0LastCompacted = c.l0LastCompacted,
         d.compacted = c.compacted,
         d.lastCompactedWalSSTID = b
  PROVE  Linked(Append(t, c.lastCompactedWalSSTID + 1 .. b), d, m, a)
<1> DEFINE S == c.lastCompactedWalSSTID + 1 .. b
<1>1. S \in SUBSET Nat
  <2>1. c.lastCompactedWalSSTID \in Nat
    BY CoreFields
  <2> QED
    BY <2>1, SMT
<1>2. Stacked(t, c)
  BY DEF Linked
<1>3. Stacked(Append(t, S), d) /\ Leads(c, d)
  BY <1>2, FlushStacked, SMT
<1>4. Linked(Append(t, S), c, m, a)
  BY <1>1, LinkedAppend
<1> HIDE DEF S
<1>5. Leads(m, d)
  BY <1>3, <1>4, LeadsTrans DEF Linked
<1>6. Linked(Append(t, S), d, m, a)
  BY <1>3, <1>4, <1>5 DEF Linked
<1> QED
  BY <1>6 DEF S

LEMMA LinkedLoad ==
  ASSUME NEW t \in Seq(SUBSET Nat),
         NEW c \in CoreState, NEW m \in CoreState, NEW a \in CoreState, Linked(t, c, m, a)
  PROVE  Linked(t, RefreshDBState(c, m), m, a)
BY MergeStacked DEF Linked

LEMMA LinkedPut ==
  ASSUME NEW t \in Seq(SUBSET Nat),
         NEW c \in CoreState, NEW m \in CoreState, NEW a \in CoreState, Linked(t, c, m, a)
  PROVE  Linked(t, c, c, a)
BY LeadsRefl, LeadsTrans DEF Linked

LEMMA LinkedCompactorStart ==
  ASSUME NEW t \in Seq(SUBSET Nat),
         NEW c \in CoreState, NEW m \in CoreState, NEW a \in CoreState, Linked(t, c, m, a)
  PROVE  Linked(t, c, m, m)
BY LeadsRefl DEF Linked

LEMMA LinkedCompactorLoad ==
  ASSUME NEW t \in Seq(SUBSET Nat),
         NEW c \in CoreState, NEW m \in CoreState, NEW a \in CoreState, Linked(t, c, m, a)
  PROVE  /\ Linked(t, c, m, CompactorRefresh(a, m))
         /\ \E n \in 0..Len(CompactorRefresh(a, m).l0) :
              a.l0 = SubSeq(CompactorRefresh(a, m).l0, n + 1, Len(CompactorRefresh(a, m).l0))
<1>1. CompactorRefresh(a, m) = RefreshDBState(m, a)
  BY Merge
<1>2. Linked(t, c, m, RefreshDBState(m, a))
  BY MergeStacked DEF Linked
<1>3. \E n \in 0..Len(RefreshDBState(m, a).l0) :
        a.l0 = SubSeq(RefreshDBState(m, a).l0, n + 1, Len(RefreshDBState(m, a).l0))
  BY MergeStacked DEF Linked
<1> QED
  BY <1>1, <1>2, <1>3

LEMMA LinkedCompactorPut ==
  ASSUME NEW t \in Seq(SUBSET Nat),
         NEW c \in CoreState, NEW m \in CoreState, NEW a \in CoreState, Linked(t, c, m, a)
  PROVE  Linked(t, c, a, a)
BY LeadsRefl, LeadsTrans DEF Linked

-----------------------------------------------------------------------------
(* A compaction replaces its sources *)

(* A batch above base is in the last SST of the chain that reaches up to it. *)
LEMMA ChainFinds ==
  ASSUME LeastElement, NEW t \in Seq(SUBSET Nat), NEW s \in Seq(Nat), NEW base \in Nat, Chain(t, s, base),
         NEW b \in Nat, base < b, b <= FirstTop(t, s, base)
  PROVE  \E i \in DOMAIN s : b \in t[s[i]]
<1> DEFINE H == {i \in 1..Len(s) : b <= Top(t, s[i])}
<1>0. Len(s) \in Nat /\ DOMAIN s = 1..Len(s)
  BY SMT
<1>1. s # <<>>
  BY SMT DEF FirstTop
<1>2. 1 \in H
  <2>1. 1 \in 1..Len(s)
    BY <1>0, <1>1, SMT
  <2>2. FirstTop(t, s, base) = Top(t, s[1])
    BY <1>1 DEF FirstTop
  <2> QED
    BY <2>1, <2>2
<1>3. PICK i \in H : \A y \in H : y <= i
  <2>1. H \in SUBSET (1..Len(s)) /\ H # {}
    BY <1>2
  <2> QED
    BY <1>0, <2>1, Greatest
<1>4. i \in DOMAIN s /\ b <= Top(t, s[i]) /\ Top(t, s[i]) \in Nat
  BY <1>0, <1>3 DEF Chain
<1>5. Below(t, s, i, base) < b /\ Below(t, s, i, base) \in Nat
  <2>1. CASE i = Len(s)
    BY <2>1 DEF Below
  <2>2. CASE i # Len(s)
    <3>1. i + 1 \in DOMAIN s /\ ~(i + 1 <= i)
      BY <1>0, <1>4, <2>2, SMT
    <3>2. ~(b <= Top(t, s[i + 1]))
      BY <1>0, <1>3, <3>1
    <3>3. Top(t, s[i + 1]) \in Nat
      BY <3>1 DEF Chain
    <3>4. Top(t, s[i + 1]) < b
      BY <3>2, <3>3, SMT
    <3> QED
      BY <2>2, <3>3, <3>4 DEF Below
  <2> QED
    BY <2>1, <2>2
<1>6. t[s[i]] = Below(t, s, i, base) + 1 .. Top(t, s[i])
  BY <1>4 DEF Chain
<1>7. b \in t[s[i]]
  BY <1>4, <1>5, <1>6, SMT
<1> QED
  BY <1>4, <1>7

(* The sources of a compaction, the lower end of a chain, hold an interval. *)
LEMMA ChainUnion ==
  ASSUME LeastElement, NEW t \in Seq(SUBSET Nat), NEW s \in Seq(Nat), NEW base \in Nat, Chain(t, s, base),
         NEW k \in 1..Len(s)
  PROVE  HeldFrom(t, s, k) = base + 1 .. Top(t, s[k])
<1> DEFINE U == UNION {t[s[i]] : i \in k..Len(s)}
<1>0. k \in DOMAIN s /\ (\A i \in k..Len(s) : i \in DOMAIN s /\ (i = k \/ k < i)) /\ s # <<>>
      /\ 1 \in DOMAIN s
  BY SMT
<1>1. \A i \in DOMAIN s : Top(t, s[i]) \in Nat
  BY DEF Chain
<1>2. ASSUME NEW b \in U PROVE b \in base + 1 .. Top(t, s[k])
  <2>1. PICK i \in k..Len(s) : b \in t[s[i]]
    OBVIOUS
  <2>2. b \in Nat /\ base < b /\ b <= Top(t, s[i])
    BY <1>0, <2>1, ChainHolds
  <2>3. i = k \/ Top(t, s[i]) < Top(t, s[k])
    BY <1>0, <2>1 DEF Chain
  <2>4. Top(t, s[i]) \in Nat /\ Top(t, s[k]) \in Nat
    BY <1>0, <1>1
  <2> QED
    BY <2>2, <2>3, <2>4, SMT
<1>3. ASSUME NEW b \in base + 1 .. Top(t, s[k]) PROVE b \in U
  <2>0. b \in Nat /\ base < b /\ b <= Top(t, s[k])
    BY <1>0, <1>1, SMT
  <2>1. FirstTop(t, s, base) = Top(t, s[1])
    BY <1>0 DEF FirstTop
  <2>2. k = 1 \/ 1 < k
    BY SMT
  <2>3. k = 1 \/ Top(t, s[k]) < Top(t, s[1])
    BY <1>0, <2>2 DEF Chain
  <2>4. Top(t, s[1]) \in Nat /\ Top(t, s[k]) \in Nat
    BY <1>0, <1>1
  <2>5. b <= FirstTop(t, s, base)
    BY <2>0, <2>1, <2>3, <2>4, SMT
  <2>6. PICK i \in DOMAIN s : b \in t[s[i]]
    BY <2>0, <2>5, ChainFinds
  <2>7. i < k => Top(t, s[k]) < b
    BY <1>0, <2>6, ChainHolds
  <2>8. ~(i < k)
    BY <2>0, <2>4, <2>7, SMT
  <2>9. i \in k..Len(s)
    BY <2>8, SMT
  <2> QED
    BY <2>6, <2>9
<1>4. U = base + 1 .. Top(t, s[k])
  BY <1>2, <1>3
<1> QED
  BY <1>4 DEF HeldFrom

(* The compactor's end: the SSTs of L0 from place k on have become a sorted *)
(* run with the highest id.                                                 *)
LEMMA FinishStacked ==
  ASSUME LeastElement, NEW t \in Seq(SUBSET Nat), NEW c \in CoreState, NEW d \in CoreState, Stacked(t, c),
         NEW k \in 1..Len(c.l0), NEW sr \in SortedRun,
         sr.sst \in DOMAIN t,
         t[sr.sst] = HeldFrom(t, c.l0, k),
         \A i \in 1..Len(c.compacted) : c.compacted[i].id < sr.id,
         d.l0 = SubSeq(c.l0, 1, k - 1),
         d.l0LastCompacted = c.l0[k],
         d.compacted = <<sr>> \o c.compacted,
         d.lastCompactedWalSSTID = c.lastCompactedWalSSTID
  PROVE  Stacked(t, d) /\ Leads(d, c)
<1> DEFINE l0 == c.l0
           runs == c.compacted
           base == Top(t, c.l0LastCompacted)
           top == Top(t, l0[k])
<1>0. /\ l0 \in Seq(Nat)
      /\ runs \in Seq(SortedRun)
      /\ RunSSTs(runs) \in Seq(Nat)
      /\ DOMAIN RunSSTs(runs) = DOMAIN runs
      /\ Len(RunSSTs(runs)) = Len(runs)
      /\ \A i \in 1..Len(runs) : RunSSTs(runs)[i] = runs[i].sst
  BY CoreFields, RunSSTsType
<1>1. /\ Chain(t, l0, base) /\ base \in Nat /\ c.lastCompactedWalSSTID = FirstTop(t, l0, base)
      /\ Chain(t, RunSSTs(runs), 0) /\ base = FirstTop(t, RunSSTs(runs), 0)
      /\ RunsDescend(runs)
  BY DEF Stacked
<1>2. k \in DOMAIN l0 /\ k - 1 \in 0..Len(l0) /\ k - 1 # Len(l0) /\ (k - 1) + 1 = k
  BY <1>0, SMTT(40)
<1>3. l0[k] \in DOMAIN t /\ top \in Nat /\ base < top
  BY <1>1, <1>2 DEF Chain
<1>4. Below(t, l0, k - 1, base) = top
  BY <1>2 DEF Below
<1>5. Chain(t, d.l0, top) /\ FirstTop(t, d.l0, top) = FirstTop(t, l0, base)
  <2>1. /\ Chain(t, SubSeq(l0, 1, k - 1), Below(t, l0, k - 1, base))
        /\ FirstTop(t, SubSeq(l0, 1, k - 1), Below(t, l0, k - 1, base)) = FirstTop(t, l0, base)
    BY <1>0, <1>1, <1>2, ChainCut
  <2> QED
    BY <1>4, <2>1
<1>6. t[sr.sst] = base + 1 .. top
  <2>1. HeldFrom(t, l0, k) = base + 1 .. Top(t, l0[k])
    <3>1. k \in 1..Len(l0) /\ l0 \in Seq(Nat) /\ base \in Nat /\ Chain(t, l0, base)
      BY <1>0, <1>1
    <3> HIDE DEF l0, base
    <3> QED
      BY <3>1, ChainUnion, SMT
  <2>2. t[sr.sst] = HeldFrom(t, l0, k)
    BY SMT
  <2> HIDE DEF l0, base
  <2> QED
    BY <2>1, <2>2
<1>7. Chain(t, <<sr.sst>> \o RunSSTs(runs), 0) /\ Top(t, sr.sst) = top
  <2>1. 0 \in Nat /\ sr.sst \in Nat
    BY SMT DEF SortedRun
  <2>2. FirstTop(t, RunSSTs(runs), 0) < top
    BY <1>1, <1>3
  <2>3. t[sr.sst] = FirstTop(t, RunSSTs(runs), 0) + 1 .. top
    BY <1>1, <1>6
  <2>4. Chain(t, RunSSTs(runs), 0) /\ RunSSTs(runs) \in Seq(Nat) /\ top \in Nat
    BY <1>0, <1>1, <1>3
  <2> HIDE DEF runs, top
  <2> QED
    BY <2>1, <2>2, <2>3, <2>4, ChainPush, SMT
<1>8. RunSSTs(d.compacted) = <<sr.sst>> \o RunSSTs(runs)
  <2> DEFINE x == <<sr>> \o runs
             y == <<sr.sst>> \o RunSSTs(runs)
  <2>0. sr.sst \in Nat
    BY SMT DEF SortedRun
  <2>1. x \in Seq(SortedRun) /\ Len(x) = Len(runs) + 1
    BY <1>0, SMT
  <2>2. y \in Seq(Nat) /\ Len(y) = Len(runs) + 1
    BY <1>0, <2>0, SMT
  <2>3. /\ RunSSTs(x) \in Seq(Nat)
        /\ Len(RunSSTs(x)) = Len(x)
        /\ \A i \in 1..Len(x) : RunSSTs(x)[i] = x[i].sst
    <3> HIDE DEF x
    <3> QED
      BY <2>1, RunSSTsType
  <2>4. ASSUME NEW i \in 1..Len(runs) + 1 PROVE x[i].sst = y[i]
    <3>1. CASE i = 1
      BY <1>0, <2>0, <3>1, SMT
    <3>2. CASE i # 1
      <4>1. i - 1 \in 1..Len(runs) /\ i \in 2..Len(runs) + 1
        BY <1>0, <3>2, SMT
      <4>2. x[i] = runs[i - 1]
        BY <1>0, <4>1, Cons, SMT
      <4>3. y[i] = RunSSTs(runs)[i - 1]
        BY <1>0, <2>0, <4>1, Cons, SMT
      <4> QED
        BY <1>0, <4>1, <4>2, <4>3
    <3> QED
      BY <3>1, <3>2
  <2> HIDE DEF x, y
  <2>5. RunSSTs(x) = y
    BY <2>1, <2>2, <2>3, <2>4, SameSeq
  <2> QED
    BY <2>5 DEF x, y
<1>9. FirstTop(t, RunSSTs(d.compacted), 0) = top
  <2>1. <<sr.sst>> \o RunSSTs(runs) # <<>> /\ (<<sr.sst>> \o RunSSTs(runs))[1] = sr.sst
    <3>1. sr.sst \in Nat
      BY SMT DEF SortedRun
    <3> QED
      BY <1>0, <3>1, SMT
  <2> QED
    BY <1>7, <1>8, <2>1 DEF FirstTop
<1>10. RunsDescend(d.compacted)
  <2> DEFINE x == <<sr>> \o runs
  <2>0. \A i \in 1..Len(runs) : runs[i].id \in Nat
    <3>1. \A i \in 1..Len(runs) : runs[i] \in SortedRun
      BY <1>0, SMT
    <3> QED
      BY <3>1 DEF SortedRun
  <2>1. Len(x) = Len(runs) + 1 /\ x \in Seq(SortedRun) /\ x[1] = sr /\ Len(runs) \in Nat
    BY <1>0, SMT
  <2>2. \A i \in 2..Len(runs) + 1 : x[i] = runs[i - 1]
    BY <1>0, SMT
  <2>3. \A i, j \in 1..Len(runs) : i < j => runs[i].id > runs[j].id
    <3>1. DOMAIN runs = 1..Len(runs)
      BY <1>0, SMT
    <3> QED
      BY <1>1, <3>1 DEF RunsDescend
  <2> HIDE DEF x, runs
  <2>4. ASSUME NEW i \in 1..Len(runs) + 1, NEW j \in 1..Len(runs) + 1, i < j
        PROVE  x[i].id > x[j].id
    <3>1. j \in 2..Len(runs) + 1 /\ j - 1 \in 1..Len(runs)
      BY <2>1, <2>4, SMT
    <3>2. x[j] = runs[j - 1]
      BY <2>2, <3>1
    <3>3. CASE i = 1
      <4>1. runs[j - 1].id < sr.id
        BY <3>1 DEF runs
      <4>2. sr.id \in Nat /\ runs[j - 1].id \in Nat
        BY <2>0, <3>1 DEF SortedRun
      <4>3. x[i] = sr
        BY <2>1, <3>3
      <4> QED
        BY <3>2, <4>1, <4>2, <4>3, SMT
    <3>4. CASE i # 1
      <4>1. i \in 2..Len(runs) + 1 /\ i - 1 \in 1..Len(runs) /\ i - 1 < j - 1
        BY <2>1, <2>4, <3>4, SMT
      <4>2. x[i] = runs[i - 1]
        BY <2>2, <4>1
      <4> QED
        BY <2>3, <3>1, <3>2, <4>1, <4>2
    <3> QED
      BY <3>3, <3>4
  <2>5. DOMAIN x = 1..Len(runs) + 1
    BY <2>1, SMT
  <2>6. RunsDescend(x)
    BY <2>4, <2>5 DEF RunsDescend
  <2> QED
    BY <2>6 DEF x, runs
<1>11. Stacked(t, d)
  BY <1>1, <1>3, <1>5, <1>7, <1>8, <1>9, <1>10 DEF Stacked
<1>12. Leads(d, c)
  <2>1. 1 \in 1..Len(l0) + 1 /\ 1 <= (k - 1) + 1
    BY <1>0, SMT
  <2> QED
    BY <1>2, <2>1 DEF Leads
<1> QED
  BY <1>11, <1>12

LEMMA LinkedFinish ==
  ASSUME NEW t \in Seq(SUBSET Nat),
         NEW c \in CoreState, NEW m \in CoreState, NEW a \in CoreState, Linked(t, c, m, a),
         NEW d \in CoreState, Stacked(t, d), Leads(d, a)
  PROVE  Linked(t, c, m, d)
BY LeadsTrans DEF Linked

=============================================================================
