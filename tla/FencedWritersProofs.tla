------------------------ MODULE FencedWritersProofs ------------------------
(***************************************************************************)
(* Proofs that the levels of the manifest only grow, and that an           *)
(* acknowledged write is found by the next Open (LevelsOnlyGrow and        *)
(* DurableUnlessLate of FencedWriters), for any number of processes,       *)
(* writes and calls to Open.                                               *)
(*                                                                         *)
(* LevelsOnlyGrow is not inductive.  IInv adds to TypeOK what relates a    *)
(* process to the manifest (Fenced): what it has read is the latest        *)
(* manifest or an older one, its epoch is not larger than the manifest's,  *)
(* and a process with the manifest's epoch knows all that is in the levels *)
(* of the manifest.  Such a process is the only one with its epoch         *)
(* (Distinct).  That last only grows also needs the order of the WAL ids   *)
(* in the queues of a process (Order).                                     *)
(***************************************************************************)
EXTENDS FencedWriters, TLAPS

Opened(p) == pc[p] \in {"list", "replay", "open", "orphan"}

(* The last WAL ids of a queue of memtables are in order and not below lo,  *)
(* and they are below hi.                                                   *)
Sorted(queue, lo) ==
  \A i \in DOMAIN queue :
    lo <= queue[i].last /\ \A j \in DOMAIN queue : i <= j => queue[i].last <= queue[j].last

Below(queue, hi) == \A i \in DOMAIN queue : queue[i].last < hi

(* The WAL ids of a process: those it replays or flushes next are beyond    *)
(* the ones its memtables end with, and these are not below its core's.     *)
Order(p) ==
  /\ ids[p] \subseteq DOMAIN walSST
  /\ wtask[p].pc # "idle" \/ mtask[p] # "idle" => Running(p)
  /\ ~Opened(p) \/ pc[p] = "list" => imms[p] = <<>>
  /\ pc[p] = "list" => replayed[p] = core[p].last
  /\ pc[p] = "replay" => /\ core[p].last <= replayed[p]
                         /\ Below(imms[p], replayed[p] + 1)
                         /\ \A i \in ids[p] : i > replayed[p]
  /\ Running(p) => core[p].last < core[p].next /\ Below(imms[p], core[p].next)
  /\ wtask[p].pc # "idle" => /\ core[p].last < wtask[p].id
                             /\ wtask[p].id < core[p].next
                             /\ Below(imms[p], wtask[p].id)
  /\ Sorted(imms[p], core[p].last)

(* What a process knows of the manifest. *)
Fenced(p) ==
  /\ stored[p].id <= manifest.id
  /\ stored[p].id = manifest.id => stored[p] = manifest
  /\ epoch[p] <= manifest.epoch
  /\ Opened(p) /\ epoch[p] = manifest.epoch =>
       /\ manifest.core.l0 \subseteq core[p].l0
       /\ manifest.core.last <= core[p].last
  /\ mtask[p] \in {"write", "put"} => stored[p].epoch = epoch[p]
  /\ mtask[p] = "put" => /\ put[p].id = stored[p].id + 1
                         /\ put[p].epoch = epoch[p]
                         /\ put[p].core.l0 = core[p].l0
                         /\ put[p].core.last = core[p].last

Distinct ==
  \A p, q \in Procs : p # q /\ Opened(p) /\ Opened(q) => epoch[p] # epoch[q]

Fencing == manifest.id >= 1 /\ (\A p \in Procs : Fenced(p)) /\ Distinct

IInv == TypeOK /\ (\A p \in Procs : Order(p)) /\ (~overwrote => Fencing)

-----------------------------------------------------------------------------
(* The steps of a process, by what they call. *)

LEMMA NewTypes == NewCore \in Core /\ NoManifest \in Manifest
  BY DEF NewCore, NoManifest, Core, Manifest

(* A process that ends leaves well-typed state (Reset). *)
LEMMA ResetTypes ==
  ASSUME TypeOK, NEW p \in Procs, Reset(p), walSST' = walSST,
         manifest' \in Manifest, overwrote' \in BOOLEAN
  PROVE  TypeOK'
<1>1. NoWAL \in [pc : {"idle", "upload", "apply"}, id : Nat, write : Nat]
  BY DEF NoWAL
<1>2. <<>> \in Seq([writes : SUBSET Nat, last : Nat])
  OBVIOUS
<1> QED
  BY <1>1, <1>2, NewTypes, Zenon DEF TypeOK, Reset, Goto

(* Landing a manifest keeps the types of what is in the store (Land). *)
LEMMA LandTypes ==
  ASSUME TypeOK, NEW man \in Manifest, Land(man)
  PROVE  manifest' \in Manifest /\ overwrote' \in BOOLEAN /\ walSST' = walSST
BY DEF TypeOK, Land

(* A bumped manifest is one (NewWriterFenceableManifest). *)
LEMMA BumpedFields ==
  ASSUME NEW man \in Manifest
  PROVE  /\ Bumped(man) \in Manifest
         /\ Bumped(man).id = man.id + 1
         /\ Bumped(man).epoch = man.epoch + 1
         /\ Bumped(man).core = man.core
BY DEF Bumped, Manifest

(* Filling the memtable keeps the types of the tables (FillMemtable). *)
LEMMA FillTypes ==
  ASSUME TypeOK, NEW p \in Procs, NEW writes \in SUBSET Nat, NEW id \in Nat,
         FillMemtable(p, writes, id)
  PROVE  /\ mem' \in [Procs -> SUBSET Nat]
         /\ imms' \in [Procs -> Seq([writes : SUBSET Nat, last : Nat])]
<1>1. mem[p] \cup writes \in SUBSET Nat
  BY DEF TypeOK
<1>2. Append(imms[p], [writes |-> mem[p] \cup writes, last |-> id])
        \in Seq([writes : SUBSET Nat, last : Nat])
  BY <1>1 DEF TypeOK
<1>3. CASE /\ mem' = [mem EXCEPT ![p] = @ \cup writes]
           /\ UNCHANGED imms
  BY <1>1, <1>3, Zenon DEF TypeOK
<1>4. CASE /\ imms' = [imms EXCEPT ![p] =
                         Append(@, [writes |-> mem[p] \cup writes, last |-> id])]
           /\ mem' = [mem EXCEPT ![p] = {}]
  BY <1>2, <1>4, Zenon DEF TypeOK
<1> QED
  BY <1>3, <1>4 DEF FillMemtable

(* Taking the next WAL id changes nothing else of the core (IncrNextWalSSTID). *)
LEMMA NextFields ==
  ASSUME TypeOK, NEW p \in Procs, core' = [core EXCEPT ![p].next = @ + 1]
  PROVE  /\ core' \in [Procs -> Core]
         /\ core'[p].l0 = core[p].l0
         /\ core'[p].last = core[p].last
         /\ core'[p].next = core[p].next + 1
         /\ \A q \in Procs : q # p => core'[q] = core[q]
<1> DEFINE c == [core[p] EXCEPT !.next = core[p].next + 1]
<1>1. core[p] \in [l0 : SUBSET Nat, last : Nat, next : Nat]
  BY DEF TypeOK, Core
<1>2. /\ c \in [l0 : SUBSET Nat, last : Nat, next : Nat]
      /\ c.l0 = core[p].l0 /\ c.last = core[p].last /\ c.next = core[p].next + 1
  BY <1>1
<1>3. core' = [core EXCEPT ![p] = c]
  OBVIOUS
<1>4. core \in [Procs -> Core] /\ c \in Core
  BY <1>2, Zenon DEF TypeOK, Core
<1> HIDE DEF c
<1>5. core' \in [Procs -> Core] /\ core'[p] = c /\ \A q \in Procs : q # p => core'[q] = core[q]
  BY <1>3, <1>4, Zenon
<1> QED
  BY <1>2, <1>5

-----------------------------------------------------------------------------
(* Every step keeps TypeOK. *)
LEMMA TypeStep ==
  ASSUME TypeOK, \A q \in Procs : ids[q] \subseteq DOMAIN walSST, Next
  PROVE  TypeOK'
<1> PICK p \in Procs : Open(p) \/ WalTask(p) \/ MemTask(p) \/ Crash(p)
  BY Zenon DEF Next
<1>1. CASE OpenLoad(p)
  <2>1. /\ stored' \in [Procs -> Manifest]
        /\ pc' \in [Procs -> {"down", "bump", "bumpPut", "list", "replay", "open", "orphan"}]
    BY <1>1, Zenon DEF OpenLoad, TypeOK, Goto
  <2>2. opens' \in Nat
    BY <1>1 DEF OpenLoad, TypeOK
  <2> QED
    BY <1>1, <2>1, <2>2, Zenon DEF OpenLoad, TypeOK, storeVars, walVars, memVars, taskVars
<1>2. CASE BumpExists(p)
  <2>1. CASE Reset(p)
    BY <1>2, <2>1, ResetTypes, Zenon DEF BumpExists, storeVars, TypeOK
  <2>2. CASE ~Reset(p)
    BY <1>2, <2>2, Zenon DEF BumpExists, TypeOK, Goto, storeVars, walVars, memVars, taskVars
  <2> QED BY <2>1, <2>2
<1>3. CASE BumpPut(p)
  <2>1. stored[p] \in Manifest /\ stored[p].core \in Core /\ stored[p].core.last \in Nat
    BY Zenon DEF TypeOK, Manifest, Core
  <2>2. Bumped(stored[p]) \in Manifest /\ Bumped(stored[p]).epoch \in Nat
    BY <2>1, BumpedFields DEF Manifest
  <2>3. manifest' \in Manifest /\ overwrote' \in BOOLEAN /\ walSST' = walSST
    BY <1>3, <2>2, LandTypes DEF BumpPut
  <2> QED
    BY <1>3, <2>1, <2>2, <2>3, Zenon DEF BumpPut, TypeOK, Goto, walVars, memVars, taskVars
<1>4. CASE BumpPutFails(p)
  <2>1. Bumped(stored[p]) \in Manifest
    BY BumpedFields DEF TypeOK
  <2>2. manifest' \in Manifest /\ overwrote' \in BOOLEAN /\ walSST' = walSST
    BY <1>4, <2>1, LandTypes, Zenon DEF BumpPutFails, TypeOK, storeVars
  <2> QED
    BY <1>4, <2>2, ResetTypes DEF BumpPutFails
<1>5. CASE ListWALs(p)
  <2>1. {i \in DOMAIN walSST : i > core[p].last} \in SUBSET Nat
    BY DEF TypeOK
  <2> QED
    BY <1>5, <2>1, Zenon DEF ListWALs, TypeOK, Goto, storeVars, walVars, memVars, taskVars
<1>6. CASE ReplayWAL(p)
  <2>1. PICK i \in ids[p] :
          /\ ids' = [ids EXCEPT ![p] = @ \ {i}]
          /\ replayed' = [replayed EXCEPT ![p] = i]
          /\ FillMemtable(p, walSST[i], i)
          /\ core' = IF core[p].next = i THEN [core EXCEPT ![p].next = @ + 1] ELSE core
    BY <1>6, Zenon DEF ReplayWAL
  <2>2. i \in Nat /\ walSST[i] \in SUBSET Nat
    BY DEF TypeOK
  <2>3. /\ mem' \in [Procs -> SUBSET Nat]
        /\ imms' \in [Procs -> Seq([writes : SUBSET Nat, last : Nat])]
    BY <2>1, <2>2, FillTypes, Zenon
  <2>4. core' \in [Procs -> Core]
    BY <2>1, NextFields, Zenon DEF TypeOK
  <2>5. ids' \in [Procs -> SUBSET Nat] /\ replayed' \in [Procs -> Nat]
    BY <2>1, <2>2, Zenon DEF TypeOK
  <2> QED
    BY <1>6, <2>3, <2>4, <2>5, Zenon DEF ReplayWAL, TypeOK, storeVars, walVars, taskVars
<1>7. CASE ReplayDone(p)
  <2>1. CASE Reset(p)
    BY <1>7, <2>1, ResetTypes, Zenon DEF ReplayDone, storeVars, TypeOK
  <2>2. CASE ~Reset(p)
    BY <1>7, <2>2, Zenon DEF ReplayDone, TypeOK, Goto, storeVars, walVars, memVars, taskVars
  <2> QED BY <2>1, <2>2
<1>8. CASE FreezeWAL(p)
  <2>1. core' \in [Procs -> Core]
    BY <1>8, NextFields, Zenon DEF FreezeWAL
  <2>2. wtask' \in [Procs -> [pc : {"idle", "upload", "apply"}, id : Nat, write : Nat]]
    BY <1>8, SMTT(30) DEF FreezeWAL, TypeOK, Core
  <2> QED
    BY <1>8, <2>1, <2>2, ZenonT(60) DEF FreezeWAL, TypeOK, storeVars, openVars, memVars, taskVars
<1>9. ASSUME StoreWAL(p)
      PROVE  /\ walSST' \in [DOMAIN walSST' -> SUBSET Nat]
             /\ DOMAIN walSST' \subseteq Nat
             /\ late' \in BOOLEAN
  <2>1. wtask[p].id \in Nat /\ wtask[p].write \in Nat
    BY Zenon DEF TypeOK
  <2> QED
    BY <1>9, <2>1, ZenonT(60) DEF StoreWAL, TypeOK
<1>10. CASE FlushImmWAL(p)
  <2>1. wtask' \in [Procs -> [pc : {"idle", "upload", "apply"}, id : Nat, write : Nat]]
    <3> DEFINE w == [wtask[p] EXCEPT !.pc = "apply"]
    <3> DEFINE W == [pc : {"idle", "upload", "apply"}, id : Nat, write : Nat]
    <3>0. wtask \in [Procs -> W] /\ wtask[p] \in W
      BY DEF TypeOK
    <3>1. w \in W
      BY <3>0
    <3>2. wtask' = [wtask EXCEPT ![p] = w]
      BY <1>10 DEF FlushImmWAL
    <3> HIDE DEF w
    <3> QED
      BY <3>0, <3>1, <3>2
  <2> QED
    BY <1>9, <1>10, <2>1, Zenon DEF FlushImmWAL, TypeOK, openVars, memVars, taskVars
<1>11. CASE FlushImmWALFails(p)
  BY <1>9, <1>11, Zenon DEF FlushImmWALFails, TypeOK, openVars, memVars, taskVars
<1>12. CASE NotifyWALFlushed(p)
  <2>1. wtask[p].id \in Nat /\ wtask[p].write \in Nat
    BY DEF TypeOK
  <2>2. /\ mem' \in [Procs -> SUBSET Nat]
        /\ imms' \in [Procs -> Seq([writes : SUBSET Nat, last : Nat])]
    BY <1>12, <2>1, FillTypes, Zenon DEF NotifyWALFlushed
  <2> QED
    BY <1>12, <2>1, <2>2, Zenon DEF NotifyWALFlushed, NoWAL, TypeOK, storeVars, openVars, taskVars
<1>13. CASE FlushImmMemtable(p)
  <2> DEFINE Imm == [writes : SUBSET Nat, last : Nat]
  <2>1. imms[p] \in Seq(Imm) /\ imms[p] # <<>>
    BY <1>13 DEF FlushImmMemtable, TypeOK
  <2>2. Head(imms[p]) \in Imm /\ Tail(imms[p]) \in Seq(Imm)
    <3> HIDE DEF Imm
    <3> QED BY <2>1
  <2>3. [l0 |-> core[p].l0 \cup Head(imms[p]).writes, last |-> Head(imms[p]).last,
         next |-> core[p].next] \in Core
    BY <2>2, Zenon DEF TypeOK, Core
  <2>4. core' \in [Procs -> Core]
    BY <1>13, <2>3 DEF FlushImmMemtable, TypeOK
  <2> QED
    BY <1>13, <2>2, <2>4, Zenon DEF FlushImmMemtable, TypeOK, storeVars, openVars, walVars
<1>14. CASE LoadManifest(p)
  <2>1. CASE Reset(p)
    BY <1>14, <2>1, ResetTypes, Zenon DEF LoadManifest, storeVars, TypeOK
  <2>2. CASE ~Reset(p)
    <3>1. mtask' \in [Procs -> {"idle", "load", "write", "put"}]
      BY <1>14, <2>2, ZenonT(60) DEF LoadManifest, TypeOK
    <3>2. stored' \in [Procs -> Manifest]
      BY <1>14, <2>2, ZenonT(60) DEF LoadManifest, TypeOK
    <3>3. UNCHANGED <<storeVars, pc, epoch, ids, replayed, opens, walVars, memVars, core, put>>
      BY <1>14, <2>2 DEF LoadManifest
    <3> QED
      BY <3>1, <3>2, <3>3, Zenon DEF TypeOK, storeVars, walVars, memVars
  <2> QED BY <2>1, <2>2
<1>15. CASE WriteManifest(p)
  <2>1. [id |-> stored[p].id + 1, epoch |-> stored[p].epoch, core |-> core[p]] \in Manifest
    <3>1. stored[p].id \in Nat /\ stored[p].epoch \in Nat /\ core[p] \in Core
      BY Zenon DEF TypeOK, Manifest
    <3>2. stored[p].id + 1 \in Nat
      BY <3>1
    <3> QED
      BY <3>1, <3>2, Zenon DEF Manifest
  <2>2. mtask' \in [Procs -> {"idle", "load", "write", "put"}] /\ put' \in [Procs -> Manifest]
    <3>1. CASE Exists(stored[p].id + 1)
      BY <1>15, <3>1, Zenon DEF WriteManifest, TypeOK
    <3>2. CASE ~Exists(stored[p].id + 1)
      <4> DEFINE m == [id |-> stored[p].id + 1, epoch |-> stored[p].epoch, core |-> core[p]]
      <4>1. mtask' = [mtask EXCEPT ![p] = "put"] /\ put' = [put EXCEPT ![p] = m]
        BY <1>15, <3>2 DEF WriteManifest
      <4>2. m \in Manifest
        BY <2>1
      <4> HIDE DEF m
      <4> QED
        BY <4>1, <4>2 DEF TypeOK
    <3> QED BY <3>1, <3>2
  <2> QED
    BY <1>15, <2>2, Zenon DEF WriteManifest, TypeOK, storeVars, openVars, walVars, memVars
<1>16. CASE PutManifest(p)
  <2>1. manifest' \in Manifest /\ overwrote' \in BOOLEAN /\ walSST' = walSST
    BY <1>16, LandTypes, Zenon DEF PutManifest, TypeOK
  <2> QED
    BY <1>16, <2>1, NewTypes, Zenon DEF PutManifest, TypeOK, walVars, memVars
<1>17. CASE PutManifestFails(p)
  <2>1. manifest' \in Manifest /\ overwrote' \in BOOLEAN /\ walSST' = walSST
    BY <1>17, LandTypes, Zenon DEF PutManifestFails, TypeOK, storeVars
  <2> QED
    BY <1>17, <2>1, NewTypes, Zenon DEF PutManifestFails, TypeOK, openVars, walVars, memVars
<1>18. CASE Crash(p)
  BY <1>18, ResetTypes, Zenon DEF Crash, storeVars, TypeOK
<1> QED
  BY <1>1, <1>2, <1>3, <1>4, <1>5, <1>6, <1>7, <1>8, <1>10, <1>11, <1>12, <1>13, <1>14,
     <1>15, <1>16, <1>17, <1>18, Zenon DEF Open, WalTask, MemTask

-----------------------------------------------------------------------------
(* What a step leaves of the state of a process, as far as the invariant    *)
(* speaks of it.                                                            *)
Same(q) ==
  /\ pc'[q] = pc[q] /\ stored'[q] = stored[q] /\ epoch'[q] = epoch[q]
  /\ core'[q] = core[q] /\ ids'[q] = ids[q] /\ replayed'[q] = replayed[q]
  /\ wtask'[q] = wtask[q] /\ mem'[q] = mem[q] /\ imms'[q] = imms[q]
  /\ mtask'[q] = mtask[q] /\ put'[q] = put[q]

(* A step of one process changes no other. *)
LEMMA Others ==
  ASSUME TypeOK, NEW p \in Procs, NEW q \in Procs, q # p,
         Open(p) \/ WalTask(p) \/ MemTask(p) \/ Crash(p)
  PROVE  Same(q)
<1> USE DEF Same
<1>1. ASSUME Reset(p) PROVE Same(q)
  BY <1>1 DEF Reset, Goto, TypeOK
<1>2. ASSUME NEW writes, NEW id, FillMemtable(p, writes, id)
      PROVE  mem'[q] = mem[q] /\ imms'[q] = imms[q]
  BY <1>2, ZenonT(60) DEF FillMemtable, TypeOK
<1>3. ASSUME core' = [core EXCEPT ![p].next = @ + 1] PROVE core'[q] = core[q]
  BY <1>3 DEF TypeOK
<1>4. CASE OpenLoad(p)
  BY <1>4 DEF OpenLoad, TypeOK, Goto, walVars, memVars, taskVars
<1>5. CASE BumpExists(p)
  BY <1>1, <1>5 DEF BumpExists, TypeOK, Goto, walVars, memVars, taskVars
<1>6. CASE BumpPut(p)
  BY <1>6, Zenon DEF BumpPut, TypeOK, Goto, walVars, memVars, taskVars
<1>7. CASE BumpPutFails(p)
  BY <1>1, <1>7, Zenon DEF BumpPutFails
<1>8. CASE ListWALs(p)
  BY <1>8 DEF ListWALs, TypeOK, Goto, walVars, memVars, taskVars
<1>9. CASE ReplayWAL(p)
  BY <1>2, <1>3, <1>9, Zenon DEF ReplayWAL, TypeOK, walVars, taskVars
<1>10. CASE ReplayDone(p)
  BY <1>1, <1>10, Zenon DEF ReplayDone, TypeOK, Goto, walVars, memVars, taskVars
<1>11. CASE FreezeWAL(p)
  BY <1>3, <1>11 DEF FreezeWAL, TypeOK, openVars, memVars, taskVars
<1>12. CASE FlushImmWAL(p)
  BY <1>12, Zenon DEF FlushImmWAL, TypeOK, openVars, memVars, taskVars
<1>13. CASE FlushImmWALFails(p)
  BY <1>13, Zenon DEF FlushImmWALFails, TypeOK, openVars, memVars, taskVars
<1>14. CASE NotifyWALFlushed(p)
  BY <1>2, <1>14, Zenon DEF NotifyWALFlushed, TypeOK, openVars, taskVars
<1>15. CASE FlushImmMemtable(p)
  BY <1>15, Zenon DEF FlushImmMemtable, TypeOK, openVars, walVars
<1>16. CASE LoadManifest(p)
  BY <1>1, <1>16 DEF LoadManifest, TypeOK, walVars, memVars
<1>17. CASE WriteManifest(p)
  BY <1>17, ZenonT(60) DEF WriteManifest, TypeOK, openVars, walVars, memVars
<1>18. CASE PutManifest(p)
  BY <1>18 DEF PutManifest, TypeOK, walVars, memVars
<1>19. CASE PutManifestFails(p)
  BY <1>19 DEF PutManifestFails, TypeOK, openVars, walVars, memVars
<1>20. CASE Crash(p)
  BY <1>1, <1>20, Zenon DEF Crash
<1> QED
  BY <1>4, <1>5, <1>6, <1>7, <1>8, <1>9, <1>10, <1>11, <1>12, <1>13, <1>14, <1>15, <1>16,
     <1>17, <1>18, <1>19, <1>20, Zenon DEF Open, WalTask, MemTask

(* No WAL SST goes away: WriteSST is the only call on them. *)
LEMMA WALsStay ==
  ASSUME TypeOK, Next
  PROVE  DOMAIN walSST \subseteq DOMAIN walSST'
<1>1. ASSUME NEW p \in Procs, StoreWAL(p) PROVE DOMAIN walSST \subseteq DOMAIN walSST'
  BY <1>1 DEF StoreWAL
<1> QED
  BY <1>1, ZenonT(60) DEF Next, Open, WalTask, MemTask, Crash, OpenLoad, BumpExists, BumpPut,
     BumpPutFails, ListWALs, ReplayWAL, ReplayDone, FreezeWAL, FlushImmWAL, FlushImmWALFails,
     NotifyWALFlushed, FlushImmMemtable, LoadManifest, WriteManifest, PutManifest,
     PutManifestFails, Land, storeVars

-----------------------------------------------------------------------------
(* The queue of memtables *)

Imm == [writes : SUBSET Nat, last : Nat]

LEMMA QueueLast ==
  ASSUME NEW s \in Seq(Imm)
  PROVE  \A i \in DOMAIN s : s[i].last \in Nat
<1>1. \A i \in DOMAIN s : s[i] \in Imm
  OBVIOUS
<1> QED
  BY <1>1 DEF Imm

LEMMA EmptyQueue ==
  ASSUME NEW n
  PROVE  Sorted(<<>>, n) /\ Below(<<>>, n)
BY DEF Sorted, Below

(* A memtable frozen (FillMemtable) goes to the end of the queue. *)
LEMMA AppendQueue ==
  ASSUME NEW s \in Seq(Imm), NEW e \in Imm, NEW lo \in Nat,
         Sorted(s, lo), Below(s, e.last), lo <= e.last
  PROVE  Sorted(Append(s, e), lo) /\ Below(Append(s, e), e.last + 1)
<1> DEFINE t == Append(s, e)
<1>1. /\ DOMAIN t = 1 .. Len(s) + 1 /\ DOMAIN s = 1 .. Len(s) /\ Len(s) \in Nat
      /\ t[Len(s) + 1] = e
      /\ \A i \in 1 .. Len(s) : t[i] = s[i]
  OBVIOUS
<1>2. \A i \in 1 .. Len(s) : s[i].last \in Nat
  BY <1>1, QueueLast
<1>3. e.last \in Nat
  BY DEF Imm
<1> HIDE DEF t
<1>4. \A i \in DOMAIN t : lo <= t[i].last /\ t[i].last < e.last + 1
  BY <1>1, <1>2, <1>3 DEF Sorted, Below
<1>5. \A i, j \in DOMAIN t : i <= j => t[i].last <= t[j].last
  BY <1>1, <1>2, <1>3 DEF Sorted, Below
<1>6. Sorted(t, lo) /\ Below(t, e.last + 1)
  BY <1>4, <1>5 DEF Sorted, Below
<1> QED BY <1>6 DEF t

(* The oldest memtable (FlushImmMemtable) has the least id of the queue. *)
LEMMA TailQueue ==
  ASSUME NEW s \in Seq(Imm), s # <<>>, NEW lo \in Nat, Sorted(s, lo)
  PROVE  /\ Head(s) \in Imm /\ Tail(s) \in Seq(Imm)
         /\ lo <= Head(s).last
         /\ Sorted(Tail(s), Head(s).last)
         /\ \A hi \in Nat : Below(s, hi) => Head(s).last < hi /\ Below(Tail(s), hi)
<1>1. /\ DOMAIN s = 1 .. Len(s) /\ Len(s) \in Nat \ {0}
      /\ Head(s) = s[1] /\ Head(s) \in Imm /\ Tail(s) \in Seq(Imm)
      /\ DOMAIN Tail(s) = 1 .. Len(s) - 1
      /\ \A i \in 1 .. Len(s) - 1 : Tail(s)[i] = s[i + 1]
  OBVIOUS
<1>2. lo <= Head(s).last
  BY <1>1 DEF Sorted
<1>3. Sorted(Tail(s), Head(s).last)
  BY <1>1 DEF Sorted
<1>4. ASSUME NEW hi \in Nat, Below(s, hi)
      PROVE  Head(s).last < hi /\ Below(Tail(s), hi)
  BY <1>1, <1>4 DEF Below
<1> QED BY <1>1, <1>2, <1>3, <1>4

LEMMA RaiseBelow ==
  ASSUME NEW s \in Seq(Imm), NEW m \in Nat, NEW n \in Nat, m <= n, Below(s, m)
  PROVE  Below(s, n)
BY QueueLast DEF Below

(* The types of what belongs to one process. *)
LEMMA ProcTypes ==
  ASSUME TypeOK, NEW p \in Procs
  PROVE  /\ imms[p] \in Seq(Imm)
         /\ core[p] \in Core /\ core[p].last \in Nat /\ core[p].next \in Nat
         /\ replayed[p] \in Nat /\ ids[p] \in SUBSET Nat
         /\ wtask[p].id \in Nat /\ epoch[p] \in Nat
         /\ stored[p] \in Manifest /\ put[p] \in Manifest
         /\ stored[p].id \in Nat /\ stored[p].epoch \in Nat
         /\ stored[p].core \in Core /\ stored[p].core.last \in Nat
         /\ pc[p] \in {"down", "bump", "bumpPut", "list", "replay", "open", "orphan"}
         /\ wtask[p].pc \in {"idle", "upload", "apply"}
         /\ mtask[p] \in {"idle", "load", "write", "put"}
         /\ wtask[p].write \in Nat /\ mem[p] \in SUBSET Nat
<1>1. core[p] \in Core /\ stored[p] \in Manifest /\ put[p] \in Manifest
  BY DEF TypeOK
<1>2. wtask[p] \in [pc : {"idle", "upload", "apply"}, id : Nat, write : Nat]
  BY DEF TypeOK
<1>3. core[p].last \in Nat /\ core[p].next \in Nat
  BY <1>1, Zenon DEF Core
<1>4. /\ stored[p].id \in Nat /\ stored[p].epoch \in Nat
      /\ stored[p].core \in Core /\ stored[p].core.last \in Nat
  BY <1>1, Zenon DEF Core, Manifest
<1> QED
  BY <1>1, <1>2, <1>3, <1>4, Zenon DEF TypeOK, Imm

(* A table that holds WALs up to id is queued or not; the rest of the queue *)
(* is below id (FillMemtable).                                              *)
LEMMA FillOrder ==
  ASSUME TypeOK, NEW p \in Procs, NEW writes \in SUBSET Nat, NEW id \in Nat,
         FillMemtable(p, writes, id), NEW lo \in Nat, lo <= id,
         Sorted(imms[p], lo), Below(imms[p], id)
  PROVE  Sorted(imms'[p], lo) /\ Below(imms'[p], id + 1)
<1>1. imms[p] \in Seq(Imm)
  BY ProcTypes, Zenon
<1>2. CASE UNCHANGED imms
  <2>1. id + 1 \in Nat /\ id <= id + 1
    OBVIOUS
  <2>2. imms'[p] = imms[p]
    BY <1>2, Zenon
  <2> QED
    BY <1>1, <2>1, <2>2, RaiseBelow, Zenon
<1>3. CASE imms' = [imms EXCEPT ![p] =
                      Append(@, [writes |-> mem[p] \cup writes, last |-> id])]
  <2> DEFINE e == [writes |-> mem[p] \cup writes, last |-> id]
  <2>1. e \in Imm /\ e.last = id
    BY ProcTypes, Zenon DEF Imm
  <2>2. imms'[p] = Append(imms[p], e)
    BY <1>3 DEF TypeOK
  <2> HIDE DEF e
  <2>3. Sorted(Append(imms[p], e), lo) /\ Below(Append(imms[p], e), id + 1)
    BY <1>1, <2>1, AppendQueue, Zenon
  <2> QED
    BY <2>2, <2>3
<1> QED
  BY <1>2, <1>3, Zenon DEF FillMemtable

(* A process that ends keeps Order (Reset). *)
LEMMA ResetOrder ==
  ASSUME TypeOK, NEW p \in Procs, Reset(p)
  PROVE  Order(p)'
<1>1. /\ pc'[p] = "down" /\ ids'[p] = {} /\ imms'[p] = <<>> /\ wtask'[p].pc = "idle"
      /\ mtask'[p] = "idle"
  BY Zenon DEF Reset, Goto, NoWAL, TypeOK
<1> QED
  BY <1>1, EmptyQueue DEF Order, Opened, Running

-----------------------------------------------------------------------------
(* Every step of a process keeps its Order. *)
LEMMA OrderOwn ==
  ASSUME TypeOK, NEW p \in Procs, Order(p), DOMAIN walSST \subseteq DOMAIN walSST',
         Open(p) \/ WalTask(p) \/ MemTask(p) \/ Crash(p)
  PROVE  Order(p)'
<1>0. ASSUME Same(p) PROVE Order(p)'
  BY <1>0, Zenon DEF Same, Order, Opened, Running
<1>1. CASE OpenLoad(p)
  <2>1. /\ pc'[p] = "bump" /\ ids'[p] = ids[p] /\ core'[p] = core[p]
        /\ wtask'[p] = wtask[p] /\ imms'[p] = imms[p] /\ mtask'[p] = mtask[p]
    BY <1>1, Zenon DEF OpenLoad, Goto, TypeOK, walVars, memVars, taskVars
  <2> QED
    BY <1>1, <2>1, Zenon DEF OpenLoad, Order, Opened, Running
<1>2. CASE BumpExists(p)
  <2>1. CASE Reset(p)
    BY <2>1, ResetOrder, ZenonT(60)
  <2>2. CASE ~Reset(p)
    <3>1. /\ pc'[p] = "bumpPut" /\ ids'[p] = ids[p] /\ core'[p] = core[p]
          /\ wtask'[p] = wtask[p] /\ imms'[p] = imms[p] /\ mtask'[p] = mtask[p]
      BY <1>2, <2>2, ZenonT(60) DEF BumpExists, Goto, TypeOK, walVars, memVars, taskVars
    <3> QED
      BY <1>2, <3>1 DEF BumpExists, Order, Opened, Running
  <2> QED BY <2>1, <2>2
<1>3. CASE BumpPut(p)
  <2>1. /\ pc'[p] = "list" /\ ids'[p] = ids[p] /\ core'[p] = stored[p].core
        /\ replayed'[p] = stored[p].core.last
        /\ wtask'[p] = wtask[p] /\ imms'[p] = imms[p] /\ mtask'[p] = mtask[p]
    BY <1>3 DEF BumpPut, Goto, TypeOK, walVars, memVars, taskVars
  <2> QED
    BY <1>3, <2>1, EmptyQueue, Zenon DEF BumpPut, Order, Opened, Running
<1>4. CASE BumpPutFails(p)
  BY <1>4, ResetOrder, ZenonT(60) DEF BumpPutFails
<1>5. CASE ListWALs(p)
  <2>1. /\ pc'[p] = "replay" /\ ids'[p] = {i \in DOMAIN walSST : i > core[p].last}
        /\ core'[p] = core[p] /\ replayed'[p] = replayed[p]
        /\ wtask'[p] = wtask[p] /\ imms'[p] = imms[p] /\ mtask'[p] = mtask[p]
    BY <1>5, Zenon DEF ListWALs, Goto, TypeOK, walVars, memVars, taskVars
  <2>2. core[p].last \in Nat
    BY ProcTypes, ZenonT(60)
  <2> QED
    <3>1. pc[p] = "list" /\ replayed[p] = core[p].last /\ imms[p] = <<>>
          /\ wtask[p].pc = "idle" /\ mtask[p] = "idle"
      BY <1>5, ZenonT(60) DEF ListWALs, Order, Running
    <3>2. Sorted(imms'[p], core'[p].last) /\ Below(imms'[p], replayed'[p] + 1)
      BY <2>1, <3>1, EmptyQueue, Zenon
    <3>3. core'[p].last <= replayed'[p]
      BY <2>1, <2>2, <3>1
    <3>4. ids'[p] \subseteq DOMAIN walSST' /\ \A i \in ids'[p] : i > replayed'[p]
      BY <1>5, <2>1, <3>1, Zenon DEF ListWALs, storeVars
    <3> QED
      BY <2>1, <3>1, <3>2, <3>3, <3>4, ZenonT(60) DEF Order, Opened, Running
<1>6. CASE ReplayWAL(p)
  <2>1. PICK i \in ids[p] :
          /\ \A j \in ids[p] : i <= j
          /\ ids' = [ids EXCEPT ![p] = @ \ {i}]
          /\ replayed' = [replayed EXCEPT ![p] = i]
          /\ FillMemtable(p, walSST[i], i)
          /\ core' = IF core[p].next = i THEN [core EXCEPT ![p].next = @ + 1] ELSE core
    BY <1>6, Zenon DEF ReplayWAL
  <2>2. i \in Nat /\ walSST[i] \in SUBSET Nat
    BY DEF TypeOK, Order
  <2>3. /\ pc'[p] = "replay" /\ pc[p] = "replay" /\ ids'[p] = ids[p] \ {i} /\ replayed'[p] = i
        /\ wtask'[p] = wtask[p] /\ mtask'[p] = mtask[p]
    BY <1>6, <2>1 DEF ReplayWAL, TypeOK, walVars, taskVars
  <2>4. core'[p].last = core[p].last
    BY <2>1, NextFields, Zenon
  <2>5. core[p].last <= replayed[p] /\ replayed[p] < i /\ Below(imms[p], replayed[p] + 1)
    <3>1. core[p].last <= replayed[p] /\ i > replayed[p] /\ Below(imms[p], replayed[p] + 1)
      BY <2>3, Zenon DEF Order
    <3>2. replayed[p] \in Nat
      BY ProcTypes, Zenon
    <3> QED
      BY <2>2, <3>1, <3>2
  <2>6. Below(imms[p], i) /\ core[p].last <= i
    <3>1. imms[p] \in Seq(Imm) /\ core[p].last \in Nat /\ replayed[p] \in Nat
      BY ProcTypes, Zenon
    <3>2. replayed[p] + 1 \in Nat /\ replayed[p] + 1 <= i /\ core[p].last <= i
      BY <2>2, <2>5, <3>1
    <3> QED
      BY <2>2, <2>5, <3>1, <3>2, RaiseBelow, Zenon
  <2>7. Sorted(imms'[p], core[p].last) /\ Below(imms'[p], i + 1)
    BY <2>1, <2>2, <2>6, FillOrder, ProcTypes, ZenonT(60) DEF Order
  <2>8. \A j \in ids'[p] : j > i
    <3> TAKE j \in ids'[p]
    <3>1. ids[p] \subseteq Nat
      BY ProcTypes, Zenon
    <3>2. j \in Nat /\ i <= j /\ j # i
      BY <2>1, <2>3, <3>1, Zenon
    <3> QED
      BY <2>2, <3>2
  <2>9. wtask[p].pc = "idle" /\ mtask[p] = "idle"
    BY <2>3, Zenon DEF Order, Running
  <2> QED
    BY <2>3, <2>4, <2>6, <2>7, <2>8, <2>9 DEF Order, Opened, Running
<1>7. CASE ReplayDone(p)
  <2>1. CASE Reset(p)
    BY <2>1, ResetOrder, Zenon
  <2>2. CASE ~Reset(p)
    <3>1. /\ pc'[p] \in {"open", "orphan"} /\ ids'[p] = ids[p] /\ core'[p] = core[p]
          /\ wtask'[p] = wtask[p] /\ imms'[p] = imms[p] /\ mtask'[p] = mtask[p]
          /\ replayed[p] + 1 = core[p].next /\ pc[p] = "replay"
      BY <1>7, <2>2, Zenon DEF ReplayDone, Goto, TypeOK, walVars, memVars, taskVars
    <3>2. core[p].last < core[p].next /\ Below(imms[p], core[p].next)
      <4>1. core[p].last <= replayed[p] /\ Below(imms[p], replayed[p] + 1)
        BY <3>1, Zenon DEF Order
      <4>2. core[p].last \in Nat /\ replayed[p] \in Nat
        BY ProcTypes, Zenon
      <4>3. Below(imms[p], core[p].next)
        BY <3>1, <4>1, ZenonT(60)
      <4> QED
        BY <3>1, <4>1, <4>2, <4>3
    <3>3. wtask[p].pc = "idle"
      BY <3>1, ZenonT(60) DEF Order, Running
    <3> QED
      BY <3>1, <3>2, <3>3, Zenon DEF Order, Opened, Running
  <2> QED BY <2>1, <2>2
<1>8. CASE FreezeWAL(p)
  <2>1. /\ pc'[p] = "open" /\ pc[p] = "open" /\ ids'[p] = ids[p] /\ imms'[p] = imms[p]
        /\ mtask'[p] = mtask[p]
        /\ wtask'[p].id = core[p].next
    BY <1>8 DEF FreezeWAL, TypeOK, openVars, memVars, taskVars
  <2>2. core'[p].last = core[p].last /\ core'[p].next = core[p].next + 1
    BY <1>8, NextFields, Zenon DEF FreezeWAL
  <2>3. core[p].last < core[p].next /\ Below(imms[p], core[p].next)
    BY <2>1, ZenonT(60) DEF Order, Running
  <2>4. Below(imms[p], core[p].next + 1)
    <3>1. imms[p] \in Seq(Imm) /\ core[p].next \in Nat
      BY ProcTypes, Zenon
    <3>2. core[p].next + 1 \in Nat /\ core[p].next <= core[p].next + 1
      BY <3>1
    <3> QED
      BY <2>3, <3>1, <3>2, RaiseBelow, Zenon
  <2>5. core[p].last < core[p].next + 1 /\ core[p].next < core[p].next + 1
    <3>1. core[p].last \in Nat /\ core[p].next \in Nat
      BY ProcTypes, Zenon
    <3> QED
      BY <2>3, <3>1
  <2> QED
    BY <2>1, <2>2, <2>3, <2>4, <2>5, Zenon DEF Order, Opened, Running
<1>9. CASE FlushImmWAL(p)
  <2>1. /\ pc'[p] = pc[p] /\ ids'[p] = ids[p] /\ imms'[p] = imms[p] /\ core'[p] = core[p]
        /\ mtask'[p] = mtask[p] /\ replayed'[p] = replayed[p]
        /\ wtask[p].pc # "idle"
    BY <1>9 DEF FlushImmWAL, TypeOK, openVars, memVars, taskVars
  <2>2. wtask'[p].id = wtask[p].id
    BY <1>9, ZenonT(60) DEF FlushImmWAL, TypeOK
  <2> QED
    BY <2>1, <2>2, Zenon DEF Order, Opened, Running
<1>10. CASE FlushImmWALFails(p)
  BY <1>0, <1>10 DEF FlushImmWALFails, Same, openVars, memVars, taskVars
<1>11. CASE NotifyWALFlushed(p)
  <2>1. /\ pc'[p] = pc[p] /\ ids'[p] = ids[p] /\ core'[p] = core[p]
        /\ mtask'[p] = mtask[p] /\ replayed'[p] = replayed[p]
        /\ wtask[p].pc # "idle" /\ wtask'[p].pc = "idle"
    BY <1>11 DEF NotifyWALFlushed, TypeOK, NoWAL, openVars, taskVars
  <2>2. /\ Running(p) /\ core[p].last < wtask[p].id /\ wtask[p].id < core[p].next
        /\ Below(imms[p], wtask[p].id) /\ Sorted(imms[p], core[p].last)
    BY <2>1, ZenonT(60) DEF Order
  <2>3. {wtask[p].write} \in SUBSET Nat /\ core[p].last <= wtask[p].id
    <3>1. wtask[p].write \in Nat /\ core[p].last \in Nat /\ wtask[p].id \in Nat
      BY ProcTypes, ZenonT(60)
    <3> QED
      BY <2>2, <3>1
  <2>4. Sorted(imms'[p], core[p].last) /\ Below(imms'[p], wtask[p].id + 1)
    BY <1>11, <2>2, <2>3, FillOrder, ProcTypes, Zenon DEF NotifyWALFlushed
  <2>5. imms'[p] \in Seq(Imm)
    BY <1>11, <2>3, FillTypes, ProcTypes, Zenon DEF NotifyWALFlushed, Imm
  <2>6. Below(imms'[p], core[p].next)
    <3>1. wtask[p].id \in Nat /\ core[p].next \in Nat
      BY ProcTypes, Zenon
    <3>2. wtask[p].id + 1 \in Nat /\ wtask[p].id + 1 <= core[p].next
      BY <2>2, <3>1
    <3> QED
      BY <2>4, <2>5, <3>1, <3>2, RaiseBelow, Zenon
  <2> QED
    BY <2>1, <2>2, <2>4, <2>6, Zenon DEF Order, Opened, Running
<1>12. CASE FlushImmMemtable(p)
  <2>1. /\ pc'[p] = pc[p] /\ ids'[p] = ids[p] /\ wtask'[p] = wtask[p]
        /\ imms'[p] = Tail(imms[p]) /\ Running(p) /\ imms[p] # <<>>
        /\ core'[p].last = Head(imms[p]).last /\ core'[p].next = core[p].next
    BY <1>12 DEF FlushImmMemtable, TypeOK, openVars, walVars
  <2>2. /\ Sorted(Tail(imms[p]), Head(imms[p]).last)
        /\ \A hi \in Nat : Below(imms[p], hi) =>
             Head(imms[p]).last < hi /\ Below(Tail(imms[p]), hi)
    BY <2>1, TailQueue, ProcTypes, ZenonT(60) DEF Order
  <2>3. core[p].next \in Nat /\ wtask[p].id \in Nat
    BY ProcTypes, Zenon
  <2> QED
    BY <2>1, <2>2, <2>3, Zenon DEF Order, Opened, Running
<1>13. CASE LoadManifest(p)
  <2>1. CASE Reset(p)
    BY <2>1, ResetOrder
  <2>2. CASE ~Reset(p)
    <3>1. /\ pc'[p] = pc[p] /\ ids'[p] = ids[p] /\ core'[p] = core[p]
          /\ wtask'[p] = wtask[p] /\ imms'[p] = imms[p] /\ replayed'[p] = replayed[p]
          /\ Running(p)
      BY <1>13, <2>2, Zenon DEF LoadManifest, walVars, memVars
    <3> QED
      BY <3>1, Zenon DEF Order, Opened, Running
  <2> QED BY <2>1, <2>2
<1>14. CASE WriteManifest(p) \/ PutManifest(p) \/ PutManifestFails(p)
  <2>1. /\ pc'[p] = pc[p] /\ ids'[p] = ids[p] /\ core'[p] = core[p]
        /\ wtask'[p] = wtask[p] /\ imms'[p] = imms[p] /\ replayed'[p] = replayed[p]
        /\ mtask[p] # "idle"
    BY <1>14, Zenon DEF WriteManifest, PutManifest, PutManifestFails, openVars, walVars, memVars
  <2> QED
    BY <2>1, Zenon DEF Order, Opened, Running
<1>15. CASE Crash(p)
  BY <1>15, ResetOrder DEF Crash
<1> QED
  BY <1>1, <1>2, <1>3, <1>4, <1>5, <1>6, <1>7, <1>8, <1>9, <1>10, <1>11, <1>12, <1>13,
     <1>14, <1>15, Zenon DEF Open, WalTask, MemTask

(* Every step keeps the Order of every process. *)
LEMMA OrderStep ==
  ASSUME TypeOK, \A q \in Procs : Order(q), Next
  PROVE  \A q \in Procs : Order(q)'
<1> TAKE q \in Procs
<1> PICK p \in Procs : Open(p) \/ WalTask(p) \/ MemTask(p) \/ Crash(p)
  BY DEF Next
<1>1. DOMAIN walSST \subseteq DOMAIN walSST'
  BY WALsStay, Zenon
<1>2. CASE q = p
  BY <1>1, <1>2, OrderOwn, Zenon
<1>3. CASE q # p
  <2>1. Same(q)
    BY <1>3, Others, Zenon
  <2> QED
    BY <1>1, <2>1 DEF Same, Order, Opened, Running
<1> QED BY <1>2, <1>3

-----------------------------------------------------------------------------
(* The processes and the manifest *)

LEMMA ManifestTypes ==
  ASSUME TypeOK
  PROVE  /\ manifest.id \in Nat /\ manifest.epoch \in Nat /\ manifest.core \in Core
         /\ manifest.core.last \in Nat
BY DEF TypeOK, Manifest, Core

(* An Upload that replaces nothing adds a manifest after the latest (Land). *)
LEMMA LandNew ==
  ASSUME TypeOK, NEW man \in Manifest, Land(man), ~overwrote'
  PROVE  ~overwrote /\ man.id > manifest.id /\ manifest' = man
<1>1. man.id \in Nat /\ manifest.id \in Nat
  BY ManifestTypes DEF Manifest
<1>2. ~overwrote /\ ~(man.id <= manifest.id)
  BY Zenon DEF Land
<1> QED
  BY <1>1, <1>2 DEF Land

(* The epoch of a process stays for as long as its database is open. *)
Keeps(p) == Opened(p)' => Opened(p) /\ epoch'[p] = epoch[p]

LEMMA ResetFenced ==
  ASSUME TypeOK, NEW p \in Procs, Reset(p), manifest'.id \in Nat \ {0}, manifest'.epoch \in Nat
  PROVE  Fenced(p)' /\ Keeps(p)
<1>1. /\ pc'[p] = "down" /\ stored'[p] = NoManifest /\ epoch'[p] = 0 /\ mtask'[p] = "idle"
  BY DEF Reset, Goto, TypeOK
<1>2. NoManifest.id = 0
  BY DEF NoManifest
<1> QED
  BY <1>1, <1>2 DEF Fenced, Keeps, Opened

(* A step that uploads no manifest: the process knows what it knew, or has  *)
(* read the latest manifest, or has added to its own levels.                *)
LEMMA FencedQuiet ==
  ASSUME TypeOK, NEW p \in Procs, Order(p), Fencing, manifest' = manifest,
         Open(p) \/ WalTask(p) \/ MemTask(p) \/ Crash(p),
         ~BumpPut(p), ~PutManifest(p)
  PROVE  Fenced(p)' /\ Keeps(p)
<1>0. manifest.id \in Nat \ {0} /\ manifest.epoch \in Nat /\ Fenced(p)
  BY ManifestTypes DEF Fencing
<1>1. ASSUME Reset(p) PROVE Fenced(p)' /\ Keeps(p)
  BY <1>0, <1>1, ResetFenced, Zenon
<1>2. ASSUME /\ stored'[p] = stored[p] /\ epoch'[p] = epoch[p]
             /\ core'[p].l0 = core[p].l0 /\ core'[p].last = core[p].last
             /\ mtask'[p] = mtask[p] /\ put'[p] = put[p]
             /\ Opened(p)' => Opened(p)
      PROVE  Fenced(p)' /\ Keeps(p)
  BY <1>0, <1>2, ZenonT(60) DEF Fenced, Keeps
<1>3. CASE OpenLoad(p)
  <2>1. /\ pc'[p] = "bump" /\ stored'[p] = manifest /\ epoch'[p] = epoch[p]
        /\ mtask'[p] = mtask[p]
    BY <1>3 DEF OpenLoad, Goto, TypeOK, taskVars
  <2>2. mtask[p] = "idle"
    BY <1>3, Zenon DEF OpenLoad, Order, Running
  <2>3. manifest'.id <= manifest'.id
    BY <1>0
  <2> QED
    BY <1>0, <2>1, <2>2, <2>3, ZenonT(60) DEF Fenced, Keeps, Opened
<1>4. CASE BumpExists(p)
  <2>1. CASE ~Reset(p)
    <3>1. /\ stored'[p] = stored[p] /\ epoch'[p] = epoch[p] /\ core'[p] = core[p]
          /\ mtask'[p] = mtask[p] /\ put'[p] = put[p] /\ pc'[p] = "bumpPut"
      BY <1>4, <2>1, Zenon DEF BumpExists, Goto, TypeOK, taskVars
    <3> QED BY <1>2, <3>1 DEF Opened
  <2> QED BY <1>1, <2>1, ZenonT(60)
<1>5. CASE BumpPutFails(p)
  BY <1>1, <1>5, Zenon DEF BumpPutFails
<1>6. CASE ListWALs(p)
  <2>1. /\ stored'[p] = stored[p] /\ epoch'[p] = epoch[p] /\ core'[p] = core[p]
        /\ mtask'[p] = mtask[p] /\ put'[p] = put[p] /\ pc[p] = "list"
    BY <1>6, ZenonT(60) DEF ListWALs, taskVars
  <2> QED BY <1>2, <2>1, Zenon DEF Opened
<1>7. CASE ReplayWAL(p)
  <2>1. /\ stored'[p] = stored[p] /\ epoch'[p] = epoch[p]
        /\ mtask'[p] = mtask[p] /\ put'[p] = put[p] /\ pc[p] = "replay"
    BY <1>7 DEF ReplayWAL, taskVars
  <2>2. core'[p].l0 = core[p].l0 /\ core'[p].last = core[p].last
    BY <1>7, NextFields, ZenonT(60) DEF ReplayWAL
  <2> QED BY <1>2, <2>1, <2>2, Zenon DEF Opened
<1>8. CASE ReplayDone(p)
  <2>1. CASE ~Reset(p)
    <3>1. /\ stored'[p] = stored[p] /\ epoch'[p] = epoch[p] /\ core'[p] = core[p]
          /\ mtask'[p] = mtask[p] /\ put'[p] = put[p] /\ pc[p] = "replay"
      BY <1>8, <2>1, Zenon DEF ReplayDone, taskVars
    <3> QED BY <1>2, <3>1, Zenon DEF Opened
  <2> QED BY <1>1, <2>1, Zenon
<1>9. CASE FreezeWAL(p)
  <2>1. core'[p].l0 = core[p].l0 /\ core'[p].last = core[p].last
    BY <1>9, NextFields DEF FreezeWAL
  <2> QED BY <1>2, <1>9, <2>1, Zenon DEF FreezeWAL, Opened, openVars, taskVars
<1>10. CASE FlushImmWAL(p) \/ FlushImmWALFails(p) \/ NotifyWALFlushed(p)
  BY <1>2, <1>10, ZenonT(60) DEF FlushImmWAL, FlushImmWALFails, NotifyWALFlushed, Opened,
     openVars, taskVars
<1>11. CASE FlushImmMemtable(p)
  <2>1. /\ stored'[p] = stored[p] /\ epoch'[p] = epoch[p] /\ pc'[p] = pc[p]
        /\ mtask'[p] = "load" /\ imms[p] # <<>>
        /\ core'[p].l0 = core[p].l0 \cup Head(imms[p]).writes
        /\ core'[p].last = Head(imms[p]).last
    BY <1>11 DEF FlushImmMemtable, TypeOK, openVars
  <2>2. core[p].last <= Head(imms[p]).last /\ Head(imms[p]).last \in Nat
    BY <2>1, TailQueue, ProcTypes, ZenonT(60) DEF Order, Imm
  <2>3. Opened(p) /\ epoch[p] = manifest.epoch => manifest.core.last <= Head(imms[p]).last
    <3>1. manifest.core.last \in Nat /\ core[p].last \in Nat
      BY ManifestTypes, ProcTypes, Zenon
    <3>2. Opened(p) /\ epoch[p] = manifest.epoch => manifest.core.last <= core[p].last
      BY <1>0, Zenon DEF Fenced
    <3> QED
      BY <2>2, <3>1, <3>2
  <2> QED
    BY <1>0, <2>1, <2>3, Zenon DEF Fenced, Keeps, Opened
<1>12. CASE LoadManifest(p)
  <2>1. CASE ~Reset(p)
    <3>1. /\ stored'[p] = manifest /\ epoch'[p] = epoch[p] /\ pc'[p] = pc[p]
          /\ core'[p] = core[p]
          /\ mtask'[p] = "idle" \/ (mtask'[p] = "write" /\ epoch[p] = manifest.epoch)
      BY <1>12, <2>1 DEF LoadManifest, TypeOK
    <3> QED BY <1>0, <3>1 DEF Fenced, Keeps, Opened
  <2> QED BY <1>1, <2>1, Zenon
<1>13. CASE WriteManifest(p)
  <2>1. /\ stored'[p] = stored[p] /\ epoch'[p] = epoch[p] /\ pc'[p] = pc[p]
        /\ core'[p] = core[p] /\ mtask[p] = "write"
    BY <1>13, ZenonT(60) DEF WriteManifest, openVars
  <2>2. CASE mtask'[p] = "load"
    BY <1>0, <2>1, <2>2 DEF Fenced, Keeps, Opened
  <2>3. CASE mtask'[p] # "load"
    <3> DEFINE man == [id |-> stored[p].id + 1, epoch |-> stored[p].epoch, core |-> core[p]]
    <3>1. mtask'[p] = "put" /\ put' = [put EXCEPT ![p] = man]
      BY <1>13, <2>3, ZenonT(60) DEF WriteManifest, TypeOK
    <3>2. man.id = stored[p].id + 1 /\ man.epoch = stored[p].epoch /\ man.core = core[p]
      BY Zenon
    <3> HIDE DEF man
    <3>3. put'[p] = man
      BY <3>1 DEF TypeOK
    <3> QED
      BY <1>0, <2>1, <3>1, <3>2, <3>3, Zenon DEF Fenced, Keeps, Opened
  <2> QED BY <2>2, <2>3, Zenon
<1>14. CASE PutManifestFails(p)
  <2>1. /\ stored'[p] = stored[p] /\ epoch'[p] = epoch[p] /\ pc'[p] = pc[p]
        /\ core'[p] = core[p] /\ mtask'[p] = "idle"
    BY <1>14, Zenon DEF PutManifestFails, TypeOK, openVars
  <2> QED BY <1>0, <2>1, Zenon DEF Fenced, Keeps, Opened
<1>15. CASE Crash(p)
  BY <1>1, <1>15, SMTT(30) DEF Crash
<1> QED
  BY <1>3, <1>4, <1>5, <1>6, <1>7, <1>8, <1>9, <1>10, <1>11, <1>12, <1>13, <1>14, <1>15, Zenon
     DEF Open, WalTask, MemTask

(* A manifest that replaces no other was made from the latest: by an Open   *)
(* that bumped its epoch, or by the memtable task of the one process that   *)
(* has its epoch, with the levels of that process.                          *)
LEMMA WhatLands ==
  ASSUME TypeOK, NEW p \in Procs, Order(p), Fencing, ~overwrote',
         Open(p) \/ WalTask(p) \/ MemTask(p) \/ Crash(p)
  PROVE  \/ manifest' = manifest /\ ~BumpPut(p) /\ ~PutManifest(p)
         \/ /\ BumpPut(p) \/ BumpPutFails(p)
            /\ stored[p] = manifest /\ manifest' = Bumped(manifest)
         \/ /\ PutManifest(p) \/ PutManifestFails(p)
            /\ Running(p) /\ epoch[p] = manifest.epoch
            /\ manifest' = put[p] /\ put[p].id > manifest.id /\ put[p].epoch = epoch[p]
            /\ put[p].core.l0 = core[p].l0 /\ put[p].core.last = core[p].last
<1>0. Fenced(p) /\ stored[p] \in Manifest /\ put[p] \in Manifest /\ stored[p].id \in Nat
  BY ProcTypes, Zenon DEF Fencing
<1>1. CASE (BumpPut(p) \/ BumpPutFails(p)) /\ Land(Bumped(stored[p]))
  <2>1. Bumped(stored[p]) \in Manifest /\ Bumped(stored[p]).id = stored[p].id + 1
    BY <1>0, BumpedFields, Zenon
  <2>2. stored[p].id + 1 > manifest.id /\ manifest' = Bumped(stored[p])
    BY <1>1, <2>1, LandNew, Zenon
  <2>3. stored[p] = manifest
    <3>1. manifest.id \in Nat
      BY ManifestTypes, Zenon
    <3>2. stored[p].id <= manifest.id /\ (stored[p].id = manifest.id => stored[p] = manifest)
      BY <1>0, Zenon DEF Fenced
    <3>3. stored[p].id = manifest.id
      BY <1>0, <2>2, <3>1, <3>2
    <3> QED
      BY <3>2, <3>3, Zenon
  <2> QED
    BY <1>1, <2>2, <2>3
<1>2. CASE (PutManifest(p) \/ PutManifestFails(p)) /\ Land(put[p])
  <2>1. put[p].id > manifest.id /\ manifest' = put[p]
    BY <1>0, <1>2, LandNew, Zenon
  <2>2. mtask[p] = "put" /\ Running(p)
    BY <1>2, Zenon DEF PutManifest, PutManifestFails, Order
  <2>3. /\ put[p].id = stored[p].id + 1 /\ put[p].epoch = epoch[p]
        /\ put[p].core.l0 = core[p].l0 /\ put[p].core.last = core[p].last
        /\ stored[p].epoch = epoch[p]
    BY <1>0, <2>2, Zenon DEF Fenced
  <2>4. stored[p] = manifest
    <3>1. manifest.id \in Nat
      BY ManifestTypes, Zenon
    <3>2. stored[p].id <= manifest.id /\ (stored[p].id = manifest.id => stored[p] = manifest)
      BY <1>0, Zenon DEF Fenced
    <3>3. stored[p].id + 1 > manifest.id /\ stored[p].id \in Nat
      BY <1>0, <2>1, <2>3, Zenon
    <3>4. stored[p].id = manifest.id
      BY <3>1, <3>2, <3>3
    <3> QED
      BY <3>2, <3>4, Zenon
  <2> QED
    BY <1>2, <2>1, <2>2, <2>3, <2>4, Zenon
<1>3. CASE /\ ~((BumpPut(p) \/ BumpPutFails(p)) /\ Land(Bumped(stored[p])))
           /\ ~((PutManifest(p) \/ PutManifestFails(p)) /\ Land(put[p]))
  <2>1. ~BumpPut(p) /\ ~PutManifest(p)
    BY <1>3, Zenon DEF BumpPut, PutManifest
  <2>2. manifest' = manifest
    BY <1>3, <2>1, ZenonT(60) DEF Open, WalTask, MemTask, Crash, OpenLoad, BumpExists, BumpPutFails,
       ListWALs, ReplayWAL, ReplayDone, FreezeWAL, FlushImmWAL, FlushImmWALFails,
       NotifyWALFlushed, FlushImmMemtable, LoadManifest, WriteManifest,
       PutManifestFails, storeVars
  <2> QED BY <2>1, <2>2, Zenon
<1> QED BY <1>1, <1>2, <1>3, Zenon

(* The levels grow in every step that replaces no manifest. *)
LEMMA LevelsStep ==
  ASSUME IInv, Next, ~overwrote', ~overwrote
  PROVE  /\ manifest.core.l0 \subseteq manifest'.core.l0
         /\ manifest.core.last <= manifest'.core.last
<1> PICK p \in Procs : Open(p) \/ WalTask(p) \/ MemTask(p) \/ Crash(p)
  BY DEF Next
<1>1. TypeOK /\ Order(p) /\ Fencing /\ Fenced(p)
  BY Zenon DEF IInv, Fencing
<1>m. manifest.core.last \in Nat
  BY <1>1, ManifestTypes, Zenon
<1>2. CASE manifest' = manifest
  BY <1>2, <1>m
<1>3. CASE manifest' = Bumped(manifest)
  <2>1. manifest'.core = manifest.core
    BY <1>1, <1>3, BumpedFields, Zenon DEF TypeOK
  <2> QED BY <2>1, <1>m
<1>4. CASE /\ Running(p) /\ epoch[p] = manifest.epoch /\ manifest' = put[p]
           /\ put[p].core.l0 = core[p].l0 /\ put[p].core.last = core[p].last
  BY <1>1, <1>4 DEF Fenced, Opened, Running
<1> QED BY <1>1, <1>2, <1>3, <1>4, WhatLands, Zenon

(* Every step that replaces no manifest keeps Fencing. *)
LEMMA FencingStep ==
  ASSUME IInv, Next, ~overwrote', ~overwrote
  PROVE  Fencing'
<1> PICK p \in Procs : Open(p) \/ WalTask(p) \/ MemTask(p) \/ Crash(p)
  BY DEF Next
<1>0. TypeOK /\ Order(p) /\ Fencing /\ Fenced(p) /\ Distinct
  BY DEF IInv, Fencing
<1>1. \A q \in Procs : q # p => Same(q) /\ Fenced(q)
  BY <1>0, Others DEF Fencing
<1>m. manifest.id \in Nat /\ manifest.epoch \in Nat /\ manifest.core.last \in Nat
  BY <1>0, ManifestTypes, Zenon
<1>n. \A q \in Procs : /\ stored[q].id \in Nat /\ epoch[q] \in Nat /\ core[q].last \in Nat
                       /\ put[q] \in Manifest
  BY <1>0, ProcTypes, Zenon
<1>k. \A q \in Procs : stored[q].id <= manifest.id /\ epoch[q] <= manifest.epoch
  BY <1>0, Zenon DEF Fencing, Fenced
<1>2. ASSUME Keeps(p) PROVE Distinct'
  BY <1>0, <1>1, <1>2 DEF Distinct, Keeps, Same, Opened
<1>3. CASE manifest' = manifest /\ ~BumpPut(p) /\ ~PutManifest(p)
  <2>1. Fenced(p)' /\ Keeps(p)
    BY <1>0, <1>3, FencedQuiet, ZenonT(60)
  <2>2. ASSUME NEW q \in Procs, q # p PROVE Fenced(q)'
    BY <1>1, <1>3, <2>2, ZenonT(60) DEF Same, Fenced, Opened
  <2> QED
    BY <1>0, <1>2, <1>3, <2>1, <2>2 DEF Fencing
<1>4. ASSUME manifest'.id > manifest.id, manifest'.epoch >= manifest.epoch,
             manifest'.id \in Nat, manifest'.epoch \in Nat,
             \A q \in Procs : q # p /\ Opened(q) => epoch[q] # manifest'.epoch
      PROVE  /\ manifest'.id >= 1
             /\ \A q \in Procs : q # p => Fenced(q)'
  <2>1. manifest'.id >= 1
    BY <1>4, <1>m
  <2>2. ASSUME NEW q \in Procs, q # p PROVE Fenced(q)'
    <3>1. stored[q].id < manifest'.id /\ epoch[q] <= manifest'.epoch
      BY <1>4, <1>m, <1>n, <1>k
    <3>2. stored[q].id # manifest'.id /\ stored[q].id <= manifest'.id
      BY <1>4, <1>n, <3>1
    <3>3. Same(q) /\ Fenced(q)
      BY <1>1, <2>2, Zenon
    <3>4. Opened(q) => epoch[q] # manifest'.epoch
      BY <1>4, <2>2, Zenon
    <3> QED
      BY <3>1, <3>2, <3>3, <3>4, ZenonT(60) DEF Same, Fenced, Opened
  <2> QED BY <2>1, <2>2
<1>5. CASE /\ BumpPut(p) \/ BumpPutFails(p)
           /\ stored[p] = manifest /\ manifest' = Bumped(manifest)
  <2>1. /\ manifest'.id = manifest.id + 1 /\ manifest'.epoch = manifest.epoch + 1
        /\ manifest'.core = manifest.core
    BY <1>0, <1>5, BumpedFields, Zenon DEF TypeOK
  <2>2. \A q \in Procs : q # p => epoch[q] < manifest'.epoch
    BY <1>m, <1>n, <1>k, <2>1
  <2>n. \A q \in Procs : q # p => epoch[q] # manifest'.epoch
    BY <1>m, <1>n, <2>1, <2>2
  <2>3. manifest'.id >= 1 /\ \A q \in Procs : q # p => Fenced(q)'
    <3>1. /\ manifest'.id > manifest.id /\ manifest'.epoch >= manifest.epoch
          /\ manifest'.id \in Nat /\ manifest'.epoch \in Nat
      BY <1>m, <2>1
    <3> QED
      BY <1>4, <2>n, <3>1, Zenon
  <2>4. CASE BumpPut(p)
    <3>1. /\ stored'[p] = manifest' /\ epoch'[p] = manifest'.epoch /\ core'[p] = manifest.core
          /\ mtask'[p] = mtask[p] /\ pc[p] = "bumpPut"
      BY <1>0, <1>5, <2>4, Zenon DEF BumpPut, TypeOK, taskVars
    <3>2. mtask[p] = "idle"
      BY <1>0, <3>1, ZenonT(60) DEF Order, Running
    <3>3. Fenced(p)'
      <4>1. /\ stored'[p].id = manifest'.id /\ stored'[p] = manifest'
            /\ epoch'[p] = manifest'.epoch /\ manifest'.core = core'[p]
        BY <2>1, <3>1, ZenonT(60)
      <4>2. manifest'.id \in Nat /\ manifest'.epoch \in Nat /\ manifest'.core.last \in Nat
        BY <1>m, <2>1
      <4>3. /\ stored'[p].id <= manifest'.id /\ epoch'[p] <= manifest'.epoch
            /\ manifest'.core.last <= core'[p].last
        BY <4>1, <4>2
      <4>4. manifest'.core.l0 \subseteq core'[p].l0 /\ mtask'[p] = "idle"
        BY <3>1, <3>2, <4>1, Zenon
      <4> QED
        BY <4>1, <4>3, <4>4, Zenon DEF Fenced
    <3>4. Distinct'
      <4>1. \A q \in Procs : q # p => epoch'[q] # epoch'[p]
        <5>1. \A q \in Procs : q # p => epoch'[q] = epoch[q]
          BY <1>1, Zenon DEF Same
        <5> QED
          BY <2>n, <3>1, <5>1, Zenon
      <4>2. \A q \in Procs : q # p => epoch'[q] = epoch[q] /\ (Opened(q)' => Opened(q))
        BY <1>1, Zenon DEF Same, Opened
      <4>3. \A q, r \in Procs : q # r /\ Opened(q) /\ Opened(r) => epoch[q] # epoch[r]
        BY <1>0, ZenonT(60) DEF Distinct
      <4>4. \A q, r \in Procs : q # r /\ Opened(q)' /\ Opened(r)' => epoch'[q] # epoch'[r]
        BY <4>1, <4>2, <4>3, Zenon
      <4> QED
        BY <4>4, Zenon DEF Distinct
    <3> QED BY <2>3, <3>3, <3>4, ZenonT(60) DEF Fencing
  <2>5. CASE BumpPutFails(p)
    <3>1. manifest'.id \in Nat \ {0} /\ manifest'.epoch \in Nat
      BY <1>m, <2>1
    <3>2. Fenced(p)' /\ Keeps(p)
      BY <1>0, <2>5, <3>1, ResetFenced, Zenon DEF BumpPutFails
    <3> QED BY <1>2, <2>3, <3>2, Zenon DEF Fencing
  <2> QED BY <1>5, <2>4, <2>5, Zenon
<1>6. CASE /\ PutManifest(p) \/ PutManifestFails(p)
           /\ Running(p) /\ epoch[p] = manifest.epoch
           /\ manifest' = put[p] /\ put[p].id > manifest.id /\ put[p].epoch = epoch[p]
           /\ put[p].core.l0 = core[p].l0 /\ put[p].core.last = core[p].last
  <2>1. manifest'.id \in Nat /\ manifest'.epoch = manifest.epoch /\ manifest'.id > manifest.id
    BY <1>6, <1>n DEF Manifest
  <2>2. \A q \in Procs : q # p /\ Opened(q) => epoch[q] # manifest'.epoch
    <3>1. Opened(p) /\ epoch[p] = manifest'.epoch
      BY <1>6, <2>1, Zenon DEF Opened, Running
    <3> QED
      BY <1>0, <3>1, Zenon DEF Distinct
  <2>3. manifest'.id >= 1 /\ \A q \in Procs : q # p => Fenced(q)'
    <3>1. manifest'.epoch >= manifest.epoch /\ manifest'.epoch \in Nat
      BY <1>m, <2>1
    <3> QED
      BY <1>4, <2>1, <2>2, <3>1, Zenon
  <2>4. /\ epoch'[p] = epoch[p] /\ core'[p] = core[p] /\ pc'[p] = pc[p] /\ mtask'[p] = "idle"
        /\ stored'[p] = manifest' \/ stored'[p] = stored[p]
    BY <1>0, <1>6, ZenonT(60) DEF PutManifest, PutManifestFails, TypeOK, openVars
  <2>5. stored[p].id < manifest'.id /\ stored[p].id \in Nat /\ core[p].last \in Nat
    BY <1>m, <1>n, <1>k, <2>1, SMTT(30)
  <2>6. Fenced(p)' /\ Keeps(p)
    <3>1. Keeps(p)
      BY <2>4, Zenon DEF Keeps, Opened
    <3>2. /\ stored'[p].id <= manifest'.id
          /\ stored'[p].id = manifest'.id => stored'[p] = manifest'
      <4>1. CASE stored'[p] = manifest'
        BY <2>1, <4>1, SMTT(30)
      <4>2. CASE stored'[p] = stored[p]
        BY <2>1, <2>5, <4>2
      <4> QED
        BY <2>4, <4>1, <4>2, Zenon
    <3>3. /\ epoch'[p] <= manifest'.epoch /\ manifest'.core.l0 \subseteq core'[p].l0
          /\ manifest'.core.last <= core'[p].last
      <4>1. /\ epoch'[p] = manifest'.epoch /\ manifest'.core.l0 = core'[p].l0
            /\ manifest'.core.last = core'[p].last /\ core'[p].last \in Nat
        BY <1>6, <2>1, <2>4, <2>5, Zenon
      <4>2. epoch'[p] \in Nat
        BY <1>n, <2>4, Zenon
      <4> QED
        BY <4>1, <4>2
    <3>4. mtask'[p] = "idle"
      BY <2>4, Zenon
    <3> QED
      BY <3>1, <3>2, <3>3, <3>4, Zenon DEF Fenced
  <2> QED BY <1>2, <2>3, <2>6, Zenon DEF Fencing
<1> QED BY <1>0, <1>3, <1>5, <1>6, WhatLands, Zenon

-----------------------------------------------------------------------------
(* overwrote, once set, stays set. *)
LEMMA OverwroteStays ==
  ASSUME Next
  PROVE  ~overwrote' => ~overwrote
BY ZenonT(60) DEF Next, Open, WalTask, MemTask, Crash, OpenLoad, BumpExists, BumpPut, BumpPutFails,
   ListWALs, ReplayWAL, ReplayDone, FreezeWAL, FlushImmWAL, FlushImmWALFails,
   NotifyWALFlushed, FlushImmMemtable, LoadManifest, WriteManifest, PutManifest,
   PutManifestFails, Land, storeVars

LEMMA InitInv ==
  ASSUME Init
  PROVE  IInv
<1>1. TypeOK
  <2>1. manifest \in Manifest
    BY NewTypes DEF Init, Manifest
  <2>2. NoWAL \in [pc : {"idle", "upload", "apply"}, id : Nat, write : Nat]
    BY DEF NoWAL
  <2>3. <<>> \in Seq([writes : SUBSET Nat, last : Nat])
    OBVIOUS
  <2>4. walSST \in [DOMAIN walSST -> SUBSET Nat] /\ DOMAIN walSST \subseteq Nat
    BY DEF Init
  <2> QED
    BY <2>1, <2>2, <2>3, <2>4, NewTypes, Zenon DEF Init, TypeOK
<1>2. ASSUME NEW p \in Procs PROVE Order(p)
  BY EmptyQueue, SMTT(30) DEF Init, Order, Opened, Running, NoWAL
<1>3. Fencing
  BY DEF Init, Fencing, Fenced, Distinct, Opened, NoManifest
<1> QED BY <1>1, <1>2, <1>3 DEF IInv

LEMMA StepInv ==
  ASSUME IInv, [Next]_vars
  PROVE  IInv'
<1>1. CASE UNCHANGED vars
  BY <1>1, ZenonT(60) DEF IInv, TypeOK, Order, Fencing, Fenced, Distinct, Opened, Running, vars,
     storeVars, openVars, walVars, memVars, taskVars
<1>2. CASE Next
  <2>1. TypeOK'
    BY <1>2, TypeStep, Zenon DEF IInv, Order
  <2>2. \A q \in Procs : Order(q)'
    BY <1>2, OrderStep DEF IInv
  <2>3. ~overwrote' => ~overwrote
    BY <1>2, OverwroteStays
  <2>4. ~overwrote' => Fencing'
    BY <1>2, <2>3, FencingStep
  <2> QED BY <2>1, <2>2, <2>4 DEF IInv
<1> QED BY <1>1, <1>2, Zenon

(* IInv holds throughout: whichever processes open the database, crash, are *)
(* replaced and go on with what their tasks had under way.                  *)
THEOREM Invariance == Spec => []IInv
<1>1. Init => IInv
  BY InitInv
<1>2. IInv /\ [Next]_vars => IInv'
  BY StepInv
<1> QED BY <1>1, <1>2, PTL DEF Spec

(* TypeOK, for any number of processes, writes and calls to Open. *)
THEOREM TypeCorrect == Spec => []TypeOK
<1>1. IInv => TypeOK
  BY DEF IInv
<1> QED BY <1>1, Invariance, PTL

(* A write that reached the levels of a manifest (flushImmMemtablesToL0)    *)
(* stays in them, and lastCompactedWalSSTID never goes back, unless an      *)
(* Upload replaces a manifest: checkEpoch keeps a replaced writer from      *)
(* writing its own levels over its successor's.                             *)
THEOREM LevelsGrow == Spec => LevelsOnlyGrow
<1> DEFINE Grow == /\ manifest.core.l0 \subseteq manifest'.core.l0
                   /\ manifest.core.last <= manifest'.core.last
<1>1. IInv /\ IInv' /\ [Next]_vars => [~overwrote' => Grow]_vars
  <2> SUFFICES ASSUME IInv, Next, ~overwrote' PROVE Grow
    OBVIOUS
  <2>1. ~overwrote
    BY OverwroteStays
  <2> QED BY <2>1, LevelsStep
<1> QED BY <1>1, Invariance, PTL DEF Spec, LevelsOnlyGrow

-----------------------------------------------------------------------------
(* An acknowledged write is found by the next Open as long as no writer     *)
(* uploads a WAL after it has been replaced (DurableUnlessLate).            *)
(*                                                                          *)
(* The argument is about the process that has the epoch of the manifest,    *)
(* the holder: it is the only one that uploads WALs and manifests, and      *)
(* every WAL SST up to the last one its levels, or a memtable in its queue, *)
(* claim to cover is contained in them (Recovery).                          *)

Holder(p) == Opened(p) /\ epoch[p] = manifest.epoch

(* In the levels or in one of the first k immutable memtables of a queue. *)
Held(l0, queue, write, k) ==
  write \in l0 \/ \E j \in DOMAIN queue : j <= k /\ write \in queue[j].writes

(* The memtables of a queue cover the WALs up to their last ids. *)
Covers(l0, queue, wals) ==
  \A k \in DOMAIN queue, i \in DOMAIN wals :
    i <= queue[k].last => \A write \in wals[i] : Held(l0, queue, write, k)

(* The WALs that p has replayed, or flushed and moved to its memtable. *)
Absorbs(p, i) ==
  \/ pc[p] = "replay" /\ i <= replayed[p]
  \/ Running(p) /\ (wtask[p].pc = "idle" \/ i < wtask[p].id)

Recovery(p) ==
  /\ \A i \in DOMAIN walSST : i <= core[p].last => walSST[i] \subseteq core[p].l0
  /\ Covers(core[p].l0, imms[p], walSST)
  /\ \A i \in DOMAIN walSST : Absorbs(p, i) =>
       \A write \in walSST[i] : write \in mem[p] \/ Held(core[p].l0, imms[p], write, Len(imms[p]))
  /\ pc[p] = "replay" => \A i \in DOMAIN walSST : i <= replayed[p] \/ i \in ids[p]
  /\ Running(p) => \A i \in DOMAIN walSST : i < core[p].next
  /\ wtask[p].pc # "idle" => core[p].next = wtask[p].id + 1
  /\ wtask[p].pc = "upload" /\ wtask[p].id \in DOMAIN walSST =>
       walSST[wtask[p].id] = {wtask[p].write}
  /\ wtask[p].pc = "apply" =>
       wtask[p].id \in DOMAIN walSST /\ walSST[wtask[p].id] = {wtask[p].write}

(* The levels of the manifest hold the WALs that replayWAL will not read. *)
LevelsCover ==
  \A i \in DOMAIN walSST : i <= manifest.core.last => walSST[i] \subseteq manifest.core.l0

(* What has been acknowledged, or will be in the next step of a WAL task. *)
Promised ==
  /\ \A write \in acked : Durable(write)
  /\ \A p \in Procs : wtask[p].pc = "apply" => Durable(wtask[p].write)

Recoverable == LevelsCover /\ Promised /\ \A p \in Procs : Holder(p) => Recovery(p)

DInv == IInv /\ (~overwrote /\ ~late => Recoverable)

-----------------------------------------------------------------------------
(* The holder *)

(* A step other than an Open's put leaves a process its epoch or ends it. *)
LEMMA KeepsOwn ==
  ASSUME TypeOK, NEW p \in Procs, Order(p), Fencing, ~overwrote', ~BumpPut(p),
         Open(p) \/ WalTask(p) \/ MemTask(p) \/ Crash(p)
  PROVE  Keeps(p)
<1>1. CASE manifest' = manifest /\ ~PutManifest(p)
  BY <1>1, FencedQuiet
<1>2. CASE BumpPutFails(p)
  <2>1. pc'[p] = "down"
    BY <1>2, SMTT(30) DEF BumpPutFails, Reset, Goto, TypeOK
  <2> QED BY <2>1, Zenon DEF Keeps, Opened
<1>3. CASE PutManifest(p) \/ PutManifestFails(p)
  BY <1>3, Zenon DEF PutManifest, PutManifestFails, openVars, Keeps, Opened
<1> QED BY <1>1, <1>2, <1>3, WhatLands

(* The epoch of the manifest stays or is bumped. *)
LEMMA EpochStep ==
  ASSUME TypeOK, NEW p \in Procs, Order(p), Fencing, ~overwrote',
         Open(p) \/ WalTask(p) \/ MemTask(p) \/ Crash(p)
  PROVE  manifest'.epoch = manifest.epoch \/ manifest'.epoch = manifest.epoch + 1
<1>1. Bumped(manifest).epoch = manifest.epoch + 1
  BY BumpedFields DEF TypeOK
<1> QED BY <1>1, WhatLands

(* A process becomes the holder by its Open's put only. *)
LEMMA HolderWas ==
  ASSUME TypeOK, NEW q \in Procs, Fenced(q), Keeps(q), Holder(q)',
         manifest'.epoch = manifest.epoch \/ manifest'.epoch = manifest.epoch + 1
  PROVE  Holder(q)
<1>1. Opened(q) /\ epoch[q] = manifest'.epoch
  BY Zenon DEF Holder, Keeps
<1>2. epoch[q] \in Nat /\ manifest.epoch \in Nat /\ epoch[q] <= manifest.epoch
  BY ProcTypes, ManifestTypes, Zenon DEF Fenced
<1> QED BY <1>1, <1>2 DEF Holder

(* There is one holder (Distinct). *)
LEMMA OneHolder ==
  ASSUME NEW p \in Procs, NEW q \in Procs, Distinct, Holder(p), Holder(q)
  PROVE  p = q
BY DEF Distinct, Holder

(* Unless it is late, a WAL is uploaded by the holder (flushImmWAL). *)
LEMMA HolderUploads ==
  ASSUME TypeOK, NEW p \in Procs, Order(p), Fenced(p), ~late',
         FlushImmWAL(p) \/ FlushImmWALFails(p)
  PROVE  Holder(p)
<1>1. wtask[p].pc = "upload" /\ StoreWAL(p)
  BY Zenon DEF FlushImmWAL, FlushImmWALFails
<1>2. Running(p)
  BY <1>1 DEF Order
<1>3. ~(epoch[p] < manifest.epoch)
  BY <1>1, Zenon DEF StoreWAL
<1>4. epoch[p] \in Nat /\ manifest.epoch \in Nat /\ epoch[p] <= manifest.epoch
  BY ProcTypes, ManifestTypes, Zenon DEF Fenced
<1> QED BY <1>2, <1>3, <1>4 DEF Holder, Opened, Running

(* The holder's upload changes no other WAL SST, and its own not twice. *)
LEMMA UploadAdds ==
  ASSUME TypeOK, NEW p \in Procs, Recovery(p), FlushImmWAL(p) \/ FlushImmWALFails(p)
  PROVE  /\ DOMAIN walSST' = DOMAIN walSST \cup {wtask[p].id}
         /\ walSST'[wtask[p].id] = {wtask[p].write}
         /\ \A i \in DOMAIN walSST : walSST'[i] = walSST[i]
<1>1. wtask[p].pc = "upload" /\ StoreWAL(p)
  BY DEF FlushImmWAL, FlushImmWALFails
<1>2. \A i \in DOMAIN walSST : i = wtask[p].id => walSST[i] = {wtask[p].write}
  BY <1>1, ZenonT(60) DEF Recovery
<1> QED BY <1>1, <1>2 DEF StoreWAL

(* No other step uploads a WAL. *)
LEMMA NoUpload ==
  ASSUME NEW p \in Procs, ~FlushImmWAL(p), ~FlushImmWALFails(p),
         Open(p) \/ WalTask(p) \/ MemTask(p) \/ Crash(p)
  PROVE  walSST' = walSST
BY DEF Open, WalTask, MemTask, Crash, OpenLoad, BumpExists, BumpPut, BumpPutFails,
   ListWALs, ReplayWAL, ReplayDone, FreezeWAL, NotifyWALFlushed, FlushImmMemtable,
   LoadManifest, WriteManifest, PutManifest, PutManifestFails, Land, storeVars

-----------------------------------------------------------------------------
(* What the tables of a process hold *)

(* A memtable is frozen: what was held still is, and so is what is in it. *)
LEMMA AppendHeld ==
  ASSUME NEW l0, NEW s \in Seq(Imm), NEW e \in Imm, NEW write
  PROVE  /\ \A k \in DOMAIN s : Held(l0, s, write, k) => Held(l0, Append(s, e), write, k)
         /\ Held(l0, s, write, Len(s)) \/ write \in e.writes =>
              Held(l0, Append(s, e), write, Len(s) + 1)
<1> DEFINE t == Append(s, e)
<1>1. /\ DOMAIN s = 1..Len(s) /\ Len(s) \in Nat
      /\ DOMAIN t = 1..Len(s) + 1 /\ t[Len(s) + 1] = e
      /\ \A j \in 1..Len(s) : t[j] = s[j]
  OBVIOUS
<1> HIDE DEF t
<1>2. \A k \in DOMAIN s : Held(l0, s, write, k) => Held(l0, t, write, k)
  BY <1>1 DEF Held
<1>3. Held(l0, s, write, Len(s)) => Held(l0, t, write, Len(s) + 1)
  BY <1>1 DEF Held
<1>4. write \in e.writes => Held(l0, t, write, Len(s) + 1)
  BY <1>1 DEF Held
<1> QED BY <1>2, <1>3, <1>4, Zenon DEF t

(* The oldest memtable is flushed: what it holds moves to the levels. *)
LEMMA TailHeld ==
  ASSUME NEW l0, NEW s \in Seq(Imm), s # <<>>, NEW write, NEW k \in Nat,
         Held(l0, s, write, k + 1)
  PROVE  Held(l0 \cup Head(s).writes, Tail(s), write, k)
<1>1. /\ DOMAIN s = 1..Len(s) /\ Len(s) \in Nat \ {0} /\ Head(s) = s[1]
      /\ DOMAIN Tail(s) = 1..Len(s) - 1
      /\ \A i \in 1..Len(s) - 1 : Tail(s)[i] = s[i + 1]
  OBVIOUS
<1>2. CASE write \in l0
  BY <1>2 DEF Held
<1>3. ASSUME NEW j \in DOMAIN s, j <= k + 1, write \in s[j].writes
      PROVE  Held(l0 \cup Head(s).writes, Tail(s), write, k)
  <2>1. CASE j = 1
    BY <1>1, <1>3, <2>1, Zenon DEF Held
  <2>2. CASE j # 1
    <3>1. j - 1 \in DOMAIN Tail(s) /\ j - 1 <= k /\ Tail(s)[j - 1] = s[j]
      BY <1>1, <1>3, <2>2
    <3> QED BY <1>3, <3>1, Zenon DEF Held
  <2> QED BY <2>1, <2>2, Zenon
<1> QED BY <1>2, <1>3 DEF Held

(* A memtable that has been given the rest of the WALs up to id covers them *)
(* with the levels and the queue, whether it is frozen or not.              *)
LEMMA FillCovers ==
  ASSUME TypeOK, NEW p \in Procs, NEW writes \in SUBSET Nat, NEW id \in Nat,
         FillMemtable(p, writes, id), Covers(core[p].l0, imms[p], walSST),
         \A i \in DOMAIN walSST : i <= id =>
           \A write \in walSST[i] :
             \/ write \in writes \/ write \in mem[p]
             \/ Held(core[p].l0, imms[p], write, Len(imms[p]))
  PROVE  /\ Covers(core[p].l0, imms'[p], walSST)
         /\ \A i \in DOMAIN walSST : i <= id =>
              \A write \in walSST[i] :
                write \in mem'[p] \/ Held(core[p].l0, imms'[p], write, Len(imms'[p]))
<1> DEFINE n == Len(imms[p])
<1> DEFINE l0 == core[p].l0
<1>0. imms[p] \in Seq(Imm) /\ n \in Nat /\ DOMAIN imms[p] = 1..n
  BY ProcTypes
<1>1. CASE /\ mem' = [mem EXCEPT ![p] = @ \cup writes]
           /\ UNCHANGED imms
  <2>1. mem'[p] = mem[p] \cup writes /\ imms'[p] = imms[p]
    BY <1>1, Zenon DEF TypeOK
  <2> QED BY <2>1, Zenon
<1>2. CASE /\ imms' = [imms EXCEPT ![p] =
                         Append(@, [writes |-> mem[p] \cup writes, last |-> id])]
           /\ mem' = [mem EXCEPT ![p] = {}]
  <2> DEFINE e == [writes |-> mem[p] \cup writes, last |-> id]
  <2>1. e \in Imm /\ e.last = id /\ e.writes = mem[p] \cup writes
    BY ProcTypes, Zenon DEF Imm
  <2>2. imms'[p] = Append(imms[p], e)
    BY <1>2, Zenon DEF TypeOK
  <2> HIDE DEF e
  <2>3. /\ DOMAIN imms'[p] = 1..n + 1 /\ Len(imms'[p]) = n + 1
        /\ imms'[p][n + 1] = e
        /\ \A j \in 1..n : imms'[p][j] = imms[p][j]
    BY <1>0, <2>1, <2>2
  <2>4. ASSUME NEW i \in DOMAIN walSST, i <= id, NEW write \in walSST[i]
        PROVE  Held(l0, imms'[p], write, n + 1)
    BY <1>0, <2>1, <2>2, <2>4, AppendHeld, ZenonT(60)
  <2>5. ASSUME NEW k \in DOMAIN imms'[p], NEW i \in DOMAIN walSST, i <= imms'[p][k].last,
               NEW write \in walSST[i]
        PROVE  Held(l0, imms'[p], write, k)
    <3>1. CASE k \in 1..n
      <4>1. Held(l0, imms[p], write, k)
        BY <1>0, <2>3, <2>5, <3>1, ZenonT(60) DEF Covers
      <4> QED BY <1>0, <2>1, <2>2, <3>1, <4>1, AppendHeld
    <3>2. CASE k = n + 1
      BY <2>1, <2>3, <2>4, <2>5, <3>2, Zenon
    <3>3. k \in 1..n + 1
      BY <2>3, <2>5, Zenon
    <3> HIDE DEF n
    <3> QED BY <1>0, <3>1, <3>2, <3>3, SMTT(30)
  <2> QED BY <2>3, <2>4, <2>5, Zenon DEF Covers
<1> QED BY <1>1, <1>2, Zenon DEF FillMemtable

-----------------------------------------------------------------------------
(* A process that starts out from the manifest. *)
LEMMA RecoveryStarts ==
  ASSUME TypeOK, NEW p \in Procs, Order(p), LevelsCover, stored[p] = manifest, BumpPut(p)
  PROVE  Recovery(p)'
<1>1. /\ pc[p] = "bumpPut" /\ pc'[p] = "list" /\ core'[p] = manifest.core /\ walSST' = walSST
      /\ imms'[p] = imms[p] /\ wtask'[p] = wtask[p]
  BY Zenon DEF BumpPut, Land, Goto, TypeOK, walVars, memVars
<1>2. imms[p] = <<>> /\ wtask[p].pc = "idle"
  BY <1>1, Zenon DEF Order, Opened, Running
<1>3. Covers(manifest.core.l0, <<>>, walSST)
  BY DEF Covers
<1> QED
  BY <1>1, <1>2, <1>3, Zenon DEF Recovery, LevelsCover, Absorbs, Running

(* Recovery holds on for what a process leaves as it is. *)
LEMMA RecoveryStays ==
  ASSUME NEW p \in Procs, Recovery(p), walSST' = walSST, Order(p),
         pc'[p] = pc[p], core'[p] = core[p], ids'[p] = ids[p], replayed'[p] = replayed[p],
         wtask'[p] = wtask[p], mem'[p] = mem[p], imms'[p] = imms[p]
  PROVE  Recovery(p)'
BY ZenonT(60) DEF Recovery, Absorbs, Running

(* replayWAL takes in the WALs of its list in their order. *)
LEMMA RecoveryReplay ==
  ASSUME TypeOK, NEW p \in Procs, Order(p), Recovery(p), ReplayWAL(p)
  PROVE  Recovery(p)'
<1>1. PICK i \in ids[p] :
        /\ \A j \in ids[p] : i <= j
        /\ ids' = [ids EXCEPT ![p] = @ \ {i}]
        /\ replayed' = [replayed EXCEPT ![p] = i]
        /\ FillMemtable(p, walSST[i], i)
        /\ core' = IF core[p].next = i THEN [core EXCEPT ![p].next = @ + 1] ELSE core
  BY Zenon DEF ReplayWAL
<1>2. /\ pc[p] = "replay" /\ pc'[p] = "replay" /\ walSST' = walSST /\ wtask'[p] = wtask[p]
      /\ ids'[p] = ids[p] \ {i} /\ replayed'[p] = i
  BY <1>1, ZenonT(60) DEF ReplayWAL, TypeOK, storeVars, walVars
<1>3. i \in Nat /\ walSST[i] \in SUBSET Nat /\ i > replayed[p] /\ replayed[p] \in Nat
  BY <1>2, ProcTypes, ZenonT(60) DEF TypeOK, Order
<1>4. core'[p].l0 = core[p].l0 /\ core'[p].last = core[p].last
  BY <1>1, NextFields, ZenonT(60)
<1>5. wtask[p].pc = "idle"
  BY <1>2, Zenon DEF Order, Running
<1>6. \A j \in DOMAIN walSST : j \in Nat /\ (j <= replayed[p] \/ j \in ids[p])
  BY <1>2, Zenon DEF Recovery, TypeOK
<1>7. \A j \in DOMAIN walSST : j <= i => j = i \/ Absorbs(p, j)
  <2>1. ASSUME NEW j \in DOMAIN walSST, j <= i PROVE j = i \/ Absorbs(p, j)
    <3>1. CASE j \in ids[p]
      BY <1>1, <1>3, <1>6, <2>1, <3>1
    <3>2. CASE j <= replayed[p]
      BY <1>2, <3>2, Zenon DEF Absorbs
    <3> QED BY <1>6, <3>1, <3>2, Zenon
  <2> QED BY <2>1, Zenon
<1>8. \A j \in DOMAIN walSST : j <= i =>
        \A write \in walSST[j] : \/ write \in walSST[i] \/ write \in mem[p]
                                 \/ Held(core[p].l0, imms[p], write, Len(imms[p]))
  BY <1>7, Zenon DEF Recovery
<1>9. Covers(core[p].l0, imms[p], walSST)
  BY DEF Recovery
<1>10. /\ Covers(core[p].l0, imms'[p], walSST)
       /\ \A j \in DOMAIN walSST : j <= i =>
            \A write \in walSST[j] :
              write \in mem'[p] \/ Held(core[p].l0, imms'[p], write, Len(imms'[p]))
  BY <1>1, <1>3, <1>8, <1>9, FillCovers, Zenon
<1>11. \A j \in DOMAIN walSST : j <= i \/ j \in ids'[p]
  BY <1>2, <1>3, <1>6, SMTT(30)
<1> QED
  BY <1>2, <1>4, <1>5, <1>10, <1>11, Zenon DEF Recovery, Absorbs, Running

(* The holder uploads a WAL under an id of its own. *)
LEMMA RecoveryUpload ==
  ASSUME TypeOK, NEW p \in Procs, Order(p), Recovery(p), FlushImmWAL(p) \/ FlushImmWALFails(p)
  PROVE  Recovery(p)'
<1> DEFINE id == wtask[p].id
<1>1. /\ DOMAIN walSST' = DOMAIN walSST \cup {id} /\ walSST'[id] = {wtask[p].write}
      /\ \A i \in DOMAIN walSST : walSST'[i] = walSST[i]
  BY UploadAdds, Zenon
<1>2. /\ wtask[p].pc = "upload" /\ pc'[p] = pc[p] /\ core'[p] = core[p] /\ ids'[p] = ids[p]
      /\ replayed'[p] = replayed[p] /\ mem'[p] = mem[p] /\ imms'[p] = imms[p]
  BY Zenon DEF FlushImmWAL, FlushImmWALFails, openVars, memVars
<1>3. /\ wtask'[p].pc \in {"upload", "apply"} /\ wtask'[p].id = id
      /\ wtask'[p].write = wtask[p].write
  BY DEF FlushImmWAL, FlushImmWALFails, TypeOK
<1>4. /\ Running(p) /\ core[p].last < id /\ Below(imms[p], id) /\ core[p].next = id + 1
      /\ id \in Nat /\ core[p].last \in Nat
  BY <1>2, ProcTypes, Zenon DEF Order, Recovery
<1>5. \A k \in DOMAIN imms[p] : imms[p][k].last < id /\ imms[p][k].last \in Nat
  BY <1>4, ProcTypes, QueueLast, Zenon DEF Below
<1> HIDE DEF id
<1>6. \A i \in DOMAIN walSST' : i <= core[p].last => walSST'[i] \subseteq core[p].l0
  <2> SUFFICES ASSUME NEW i \in DOMAIN walSST', i <= core[p].last
               PROVE  walSST'[i] \subseteq core[p].l0
    OBVIOUS
  <2>1. i # id
    BY <1>4, SMTT(30)
  <2>2. i \in DOMAIN walSST /\ walSST'[i] = walSST[i]
    BY <1>1, <2>1, Zenon
  <2> QED BY <2>2, Zenon DEF Recovery
<1>7. Covers(core[p].l0, imms[p], walSST')
  <2>1. Covers(core[p].l0, imms[p], walSST)
    BY Zenon DEF Recovery
  <2>2. ASSUME NEW k \in DOMAIN imms[p], NEW i \in DOMAIN walSST', i <= imms[p][k].last
        PROVE  i \in DOMAIN walSST /\ walSST'[i] = walSST[i]
    <3>1. i # id
      <4>1. i <= imms[p][k].last /\ imms[p][k].last < id /\ imms[p][k].last \in Nat
        BY <1>5, <2>2, Zenon
      <4>2. id \in Nat
        BY <1>4, Zenon
      <4> HIDE DEF id
      <4> QED
        BY <4>1, <4>2
    <3> QED
      BY <1>1, <2>2, <3>1, Zenon
  <2> QED BY <2>1, <2>2, Zenon DEF Covers
<1>8. \A i \in DOMAIN walSST' : Absorbs(p, i)' => i \in DOMAIN walSST /\ Absorbs(p, i)
  <2> TAKE i \in DOMAIN walSST'
  <2> HAVE Absorbs(p, i)'
  <2>1. i < id
    BY <1>2, <1>3, <1>4, Zenon DEF Absorbs, Running
  <2>2. i # id
    <3> HIDE DEF id
    <3> QED
      BY <1>4, <2>1, SMTT(30)
  <2> QED
    BY <1>1, <1>2, <1>4, <2>1, <2>2, Zenon DEF Absorbs, Running, id
<1>9. \A i \in DOMAIN walSST' : i < core[p].next
  BY <1>1, <1>4 DEF Recovery
<1>10. \A i \in DOMAIN walSST' : Absorbs(p, i)' =>
         \A write \in walSST'[i] :
           write \in mem[p] \/ Held(core[p].l0, imms[p], write, Len(imms[p]))
  BY <1>1, <1>8, Zenon DEF Recovery
<1> QED
  BY <1>1, <1>2, <1>3, <1>4, <1>6, <1>7, <1>9, <1>10, Zenon DEF Recovery, Running

(* A flushed WAL goes to the memtable (flushImmWALToMemtable). *)
LEMMA RecoveryNotify ==
  ASSUME TypeOK, NEW p \in Procs, Order(p), Recovery(p), NotifyWALFlushed(p)
  PROVE  Recovery(p)'
<1> DEFINE id == wtask[p].id
<1>1. /\ wtask[p].pc = "apply" /\ wtask'[p].pc = "idle" /\ walSST' = walSST
      /\ pc'[p] = pc[p] /\ core'[p] = core[p] /\ ids'[p] = ids[p] /\ replayed'[p] = replayed[p]
      /\ FillMemtable(p, {wtask[p].write}, id)
  BY Zenon DEF NotifyWALFlushed, NoWAL, TypeOK, storeVars, openVars
<1>2. /\ Running(p) /\ core[p].next = id + 1
      /\ \A i \in DOMAIN walSST : i < core[p].next
      /\ id \in DOMAIN walSST /\ walSST[id] = {wtask[p].write}
  BY <1>1, Zenon DEF Order, Recovery
<1>3. id \in Nat /\ {wtask[p].write} \in SUBSET Nat /\ \A i \in DOMAIN walSST : i \in Nat
  BY ProcTypes, Zenon DEF TypeOK
<1>4. \A i \in DOMAIN walSST : i <= id /\ (i = id \/ i < id)
  BY <1>2, <1>3
<1>5. \A i \in DOMAIN walSST : i = id \/ Absorbs(p, i)
  BY <1>2, <1>4, Zenon DEF Absorbs
<1>6. \A i \in DOMAIN walSST : i <= id =>
        \A write \in walSST[i] : \/ write \in {wtask[p].write} \/ write \in mem[p]
                                 \/ Held(core[p].l0, imms[p], write, Len(imms[p]))
  BY <1>2, <1>5, Zenon DEF Recovery
<1>7. Covers(core[p].l0, imms[p], walSST)
  BY DEF Recovery
<1>8. /\ Covers(core[p].l0, imms'[p], walSST)
      /\ \A i \in DOMAIN walSST : i <= id =>
           \A write \in walSST[i] :
             write \in mem'[p] \/ Held(core[p].l0, imms'[p], write, Len(imms'[p]))
  BY <1>1, <1>3, <1>6, <1>7, FillCovers, Zenon
<1> QED
  BY <1>1, <1>2, <1>4, <1>8, Zenon DEF Recovery, Running

(* The oldest memtable goes to the levels, which then cover its last WAL    *)
(* (MoveImmMemtableToL0).                                                   *)
LEMMA RecoveryFlush ==
  ASSUME TypeOK, NEW p \in Procs, Order(p), Recovery(p), FlushImmMemtable(p)
  PROVE  Recovery(p)'
<1> DEFINE s == imms[p]
<1> DEFINE l0 == core[p].l0
<1>1. s \in Seq(Imm) /\ s # <<>>
  BY ProcTypes, Zenon DEF FlushImmMemtable
<1>2. /\ imms'[p] = Tail(s) /\ core'[p].l0 = l0 \cup Head(s).writes
      /\ core'[p].last = Head(s).last /\ core'[p].next = core[p].next
      /\ pc'[p] = pc[p] /\ Running(p) /\ ids'[p] = ids[p] /\ replayed'[p] = replayed[p]
      /\ wtask'[p] = wtask[p] /\ mem'[p] = mem[p] /\ walSST' = walSST
  BY Zenon DEF FlushImmMemtable, TypeOK, storeVars, openVars, walVars
<1>3. /\ DOMAIN s = 1..Len(s) /\ Len(s) \in Nat \ {0} /\ Head(s) = s[1]
      /\ DOMAIN Tail(s) = 1..Len(s) - 1 /\ Len(Tail(s)) = Len(s) - 1
      /\ \A i \in 1..Len(s) - 1 : Tail(s)[i] = s[i + 1]
  BY <1>1
<1>4. Covers(l0, s, walSST)
  BY Zenon DEF Recovery
<1>5. \A i \in DOMAIN walSST : Absorbs(p, i) =>
        \A write \in walSST[i] : write \in mem[p] \/ Held(l0, s, write, Len(s))
  BY Zenon DEF Recovery
<1>6. \A write : \A k \in Nat : Held(l0, s, write, k + 1) =>
        Held(core'[p].l0, imms'[p], write, k)
  BY <1>1, <1>2, TailHeld
<1> HIDE DEF s, l0
<1>7. ASSUME NEW i \in DOMAIN walSST, i <= core'[p].last, NEW write \in walSST[i]
      PROVE  write \in core'[p].l0
  <2>1. Held(l0, s, write, 0 + 1)
    BY <1>2, <1>3, <1>4, <1>7 DEF Covers
  <2>2. Held(core'[p].l0, imms'[p], write, 0)
    BY <1>6, <2>1, Zenon
  <2> QED BY <1>2, <1>3, <2>2 DEF Held
<1>8. Covers(core'[p].l0, imms'[p], walSST)
  <2>1. ASSUME NEW k \in DOMAIN imms'[p], NEW i \in DOMAIN walSST, i <= imms'[p][k].last,
               NEW write \in walSST[i]
        PROVE  Held(core'[p].l0, imms'[p], write, k)
    <3>1. k \in Nat /\ k + 1 \in DOMAIN s /\ imms'[p][k] = s[k + 1]
      BY <1>2, <1>3
    <3>2. Held(l0, s, write, k + 1)
      BY <1>4, <2>1, <3>1, Zenon DEF Covers
    <3> QED BY <1>6, <3>1, <3>2, Zenon
  <2> QED BY <2>1 DEF Covers
<1>9. ASSUME NEW write, Held(l0, s, write, Len(s))
      PROVE  Held(core'[p].l0, imms'[p], write, Len(imms'[p]))
  <2>1. Len(s) - 1 \in Nat /\ (Len(s) - 1) + 1 = Len(s) /\ Len(imms'[p]) = Len(s) - 1
    BY <1>2, <1>3
  <2> QED BY <1>6, <1>9, <2>1, Zenon
<1>10. \A i \in DOMAIN walSST : Absorbs(p, i)' =>
         \A write \in walSST[i] :
           write \in mem[p] \/ Held(core'[p].l0, imms'[p], write, Len(imms'[p]))
  BY <1>2, <1>5, <1>9, Zenon DEF Absorbs, Running
<1>11. pc[p] # "replay"
  BY <1>2, Zenon DEF Running
<1>12. /\ \A i \in DOMAIN walSST : i < core[p].next
       /\ wtask[p].pc # "idle" => core[p].next = wtask[p].id + 1
       /\ wtask[p].pc = "upload" /\ wtask[p].id \in DOMAIN walSST =>
            walSST[wtask[p].id] = {wtask[p].write}
       /\ wtask[p].pc = "apply" =>
            wtask[p].id \in DOMAIN walSST /\ walSST[wtask[p].id] = {wtask[p].write}
  BY <1>2 DEF Recovery
<1> QED
  BY <1>2, <1>7, <1>8, <1>10, <1>11, <1>12, Zenon DEF Recovery

(* Every other step of the holder. *)
LEMMA RecoveryOwn ==
  ASSUME TypeOK, NEW p \in Procs, Order(p), Recovery(p), Opened(p), Opened(p)', ~BumpPut(p),
         Open(p) \/ WalTask(p) \/ MemTask(p) \/ Crash(p)
  PROVE  Recovery(p)'
<1>1. ~Reset(p) /\ ~OpenLoad(p) /\ ~BumpExists(p) /\ ~BumpPutFails(p) /\ ~Crash(p)
  <2>1. ~Reset(p)
    BY DEF Reset, Goto, Opened, TypeOK
  <2> QED
    BY <2>1, Zenon DEF OpenLoad, BumpExists, BumpPutFails, Crash, Opened
<1>2. CASE ListWALs(p)
  <2>1. /\ pc[p] = "list" /\ pc'[p] = "replay" /\ core'[p] = core[p] /\ walSST' = walSST
        /\ replayed'[p] = replayed[p] /\ wtask'[p] = wtask[p] /\ imms'[p] = imms[p]
        /\ ids'[p] = {i \in DOMAIN walSST : i > core[p].last}
    BY <1>2, Zenon DEF ListWALs, Goto, TypeOK, storeVars, walVars, memVars
  <2>2. replayed[p] = core[p].last /\ wtask[p].pc = "idle"
    BY <2>1, ZenonT(60) DEF Order, Running
  <2>3. \A i \in DOMAIN walSST : i <= core[p].last => walSST[i] \subseteq core[p].l0
    BY Zenon DEF Recovery
  <2>4. \A i \in DOMAIN walSST : Absorbs(p, i)' =>
          \A write \in walSST[i] : Held(core[p].l0, imms[p], write, Len(imms[p]))
    BY <2>1, <2>2, <2>3, Zenon DEF Absorbs, Running, Held
  <2>5. \A i \in DOMAIN walSST : i <= replayed[p] \/ i \in ids'[p]
    <3> TAKE i \in DOMAIN walSST
    <3>1. i \in Nat
      BY Zenon DEF TypeOK
    <3>2. core[p].last \in Nat
      BY ProcTypes, Zenon
    <3>3. i <= core[p].last \/ i > core[p].last
      BY <3>1, <3>2
    <3> QED
      BY <2>1, <2>2, <3>3, Zenon
  <2> QED
    BY <2>1, <2>2, <2>4, <2>5, Zenon DEF Recovery, Running
<1>3. CASE ReplayDone(p)
  <2>1. /\ pc[p] = "replay" /\ pc'[p] \in {"open", "orphan"} /\ core'[p] = core[p]
        /\ walSST' = walSST /\ ids[p] = {} /\ replayed[p] + 1 = core[p].next
        /\ replayed'[p] = replayed[p] /\ wtask'[p] = wtask[p] /\ imms'[p] = imms[p]
        /\ mem'[p] = mem[p]
    BY <1>1, <1>3, Zenon DEF ReplayDone, Goto, TypeOK, storeVars, walVars, memVars
  <2>2. wtask[p].pc = "idle"
    BY <2>1, Zenon DEF Order, Running
  <2>3. \A i \in DOMAIN walSST : i <= replayed[p]
    BY <2>1, Zenon DEF Recovery
  <2>4. \A i \in DOMAIN walSST : Absorbs(p, i) /\ i < core[p].next
    <3>1. DOMAIN walSST \subseteq Nat
      BY Zenon DEF TypeOK
    <3>2. replayed[p] \in Nat /\ core[p].next \in Nat
      BY ProcTypes, Zenon
    <3>3. \A i \in DOMAIN walSST : i < core[p].next
      <4> TAKE i \in DOMAIN walSST
      <4>1. i \in Nat /\ i <= replayed[p] /\ replayed[p] + 1 = core[p].next
        BY <2>1, <2>3, <3>1, Zenon
      <4> QED
        BY <3>2, <4>1
    <3> QED
      BY <2>1, <2>3, <3>3, Zenon DEF Absorbs
  <2> QED
    BY <2>1, <2>2, <2>4, Zenon DEF Recovery, Running
<1>4. CASE FreezeWAL(p)
  <2>1. /\ pc[p] = "open" /\ pc'[p] = "open" /\ walSST' = walSST /\ mem'[p] = mem[p]
        /\ imms'[p] = imms[p] /\ wtask[p].pc = "idle"
        /\ wtask'[p].pc = "upload" /\ wtask'[p].id = core[p].next
    BY <1>4, Zenon DEF FreezeWAL, TypeOK, storeVars, openVars, memVars
  <2>2. /\ core'[p].l0 = core[p].l0 /\ core'[p].last = core[p].last
        /\ core'[p].next = core[p].next + 1 /\ core[p].next \in Nat
    BY <1>4, NextFields, ProcTypes, ZenonT(60) DEF FreezeWAL
  <2>3. \A i \in DOMAIN walSST : i \in Nat /\ i < core[p].next /\ Absorbs(p, i)
    BY <2>1, Zenon DEF Recovery, Running, Absorbs, TypeOK
  <2>4. (\A i \in DOMAIN walSST : i < core'[p].next) /\ core[p].next \notin DOMAIN walSST
    BY <2>2, <2>3
  <2> QED
    BY <2>1, <2>2, <2>3, <2>4, Zenon DEF Recovery, Running
<1>5. CASE LoadManifest(p)
  BY <1>1, <1>5, RecoveryStays, ZenonT(60) DEF LoadManifest, storeVars, walVars, memVars
<1>6. CASE WriteManifest(p)
  BY <1>6, RecoveryStays, Zenon DEF WriteManifest, storeVars, openVars, walVars, memVars
<1>7. CASE PutManifest(p) \/ PutManifestFails(p)
  BY <1>7, RecoveryStays, ZenonT(60) DEF PutManifest, PutManifestFails, Land, storeVars,
     openVars, walVars, memVars
<1> QED
  BY <1>1, <1>2, <1>3, <1>4, <1>5, <1>6, <1>7, RecoveryReplay, RecoveryUpload, RecoveryNotify,
     RecoveryFlush, Zenon DEF Open, WalTask, MemTask

-----------------------------------------------------------------------------
(* A WAL that is flushed is beyond what the manifest covers. *)
LEMMA BeyondManifest ==
  ASSUME TypeOK, NEW p \in Procs, Order(p), Fenced(p), Holder(p), wtask[p].pc # "idle"
  PROVE  wtask[p].id > manifest.core.last
<1>1. manifest.core.last <= core[p].last /\ core[p].last < wtask[p].id
  BY ZenonT(60) DEF Fenced, Holder, Order
<1>2. manifest.core.last \in Nat /\ core[p].last \in Nat /\ wtask[p].id \in Nat
  BY ProcTypes, ManifestTypes, Zenon
<1> QED BY <1>1, <1>2

(* A WAL task is about to acknowledge what its upload stored, or what it    *)
(* was about to acknowledge before.                                         *)
LEMMA ApplyStep ==
  ASSUME TypeOK, NEW p \in Procs, wtask'[p].pc = "apply",
         Open(p) \/ WalTask(p) \/ MemTask(p) \/ Crash(p)
  PROVE  wtask'[p] = wtask[p] \/ (FlushImmWAL(p) /\ wtask'[p].write = wtask[p].write)
<1>1. ~Reset(p)
  BY DEF Reset, NoWAL, TypeOK
<1>2. ~FreezeWAL(p) /\ ~NotifyWALFlushed(p)
  BY DEF FreezeWAL, NotifyWALFlushed, NoWAL, TypeOK
<1>3. FlushImmWAL(p) => wtask'[p].write = wtask[p].write
  BY ZenonT(60) DEF FlushImmWAL, TypeOK
<1> QED
  BY <1>1, <1>2, <1>3, ZenonT(60) DEF Open, WalTask, MemTask, Crash, OpenLoad, BumpExists, BumpPut,
     BumpPutFails, ListWALs, ReplayWAL, ReplayDone, FlushImmWALFails, FlushImmMemtable,
     LoadManifest, WriteManifest, PutManifest, PutManifestFails, openVars, walVars

(* Only NotifyWALFlushed acknowledges a write. *)
LEMMA AckStep ==
  ASSUME TypeOK, NEW p \in Procs, Open(p) \/ WalTask(p) \/ MemTask(p) \/ Crash(p)
  PROVE  \/ acked' = acked
         \/ wtask[p].pc = "apply" /\ acked' = acked \cup {wtask[p].write}
BY Zenon DEF Open, WalTask, MemTask, Crash, OpenLoad, BumpExists, BumpPut, BumpPutFails, ListWALs,
   ReplayWAL, ReplayDone, FreezeWAL, FlushImmWAL, FlushImmWALFails, NotifyWALFlushed,
   FlushImmMemtable, LoadManifest, WriteManifest, PutManifest, PutManifestFails, Reset, walVars

(* Every step that replaces no manifest and is no late upload. *)
LEMMA RecoverableStep ==
  ASSUME IInv, Recoverable, Next, ~overwrote, ~overwrote', ~late'
  PROVE  Recoverable'
<1> PICK p \in Procs : Open(p) \/ WalTask(p) \/ MemTask(p) \/ Crash(p)
  BY DEF Next
<1> DEFINE Uploads == FlushImmWAL(p) \/ FlushImmWALFails(p)
<1>0. /\ TypeOK /\ Order(p) /\ Fencing /\ Fenced(p) /\ Distinct
      /\ LevelsCover /\ Promised /\ (Holder(p) => Recovery(p))
  BY DEF IInv, Fencing, Recoverable
<1>1. ASSUME Uploads
      PROVE  /\ Holder(p) /\ Recovery(p) /\ manifest' = manifest /\ wtask[p].pc = "upload"
             /\ DOMAIN walSST' = DOMAIN walSST \cup {wtask[p].id}
             /\ walSST'[wtask[p].id] = {wtask[p].write}
             /\ \A i \in DOMAIN walSST : walSST'[i] = walSST[i]
  <2>1. Holder(p)
    BY <1>0, <1>1, HolderUploads
  <2> QED
    BY <1>0, <1>1, <2>1, UploadAdds DEF FlushImmWAL, FlushImmWALFails
<1>2. ASSUME ~Uploads PROVE walSST' = walSST
  BY <1>2, NoUpload, Zenon
<1>3. \A i \in DOMAIN walSST : i \in DOMAIN walSST' /\ walSST'[i] = walSST[i]
  BY <1>1, <1>2, Zenon
<1>4. LevelsCover'
  <2>1. CASE Uploads
    <3>1. wtask[p].id > manifest.core.last
      BY <1>0, <1>1, <2>1, BeyondManifest, Zenon
    <3>2. manifest.core.last \in Nat /\ wtask[p].id \in Nat
      BY <1>0, ManifestTypes, ProcTypes, Zenon
    <3> QED
      BY <1>0, <1>1, <2>1, <3>1, <3>2 DEF LevelsCover
  <2>2. CASE ~Uploads /\ manifest'.core = manifest.core
    BY <1>0, <1>2, <2>2 DEF LevelsCover
  <2>3. CASE /\ ~Uploads /\ Running(p) /\ epoch[p] = manifest.epoch /\ manifest' = put[p]
             /\ put[p].core.l0 = core[p].l0 /\ put[p].core.last = core[p].last
    <3>1. Recovery(p)
      BY <1>0, <2>3, Zenon DEF Holder, Opened, Running
    <3> QED
      BY <1>2, <2>3, <3>1, ZenonT(60) DEF LevelsCover, Recovery
  <2>4. Bumped(manifest).core = manifest.core
    BY <1>0, BumpedFields, Zenon DEF TypeOK
  <2> QED
    BY <1>0, <2>1, <2>2, <2>3, <2>4, WhatLands, Zenon
<1>5. ASSUME NEW write, Durable(write) PROVE Durable(write)'
  <2>1. manifest.core.l0 \subseteq manifest'.core.l0
    BY LevelsStep, Zenon
  <2>2. CASE write \in manifest.core.l0
    BY <2>1, <2>2 DEF Durable
  <2>3. ASSUME NEW i \in DOMAIN walSST, write \in walSST[i] PROVE Durable(write)'
    <3>1. i \in DOMAIN walSST' /\ write \in walSST'[i]
      BY <1>3, <2>3, Zenon
    <3>2. i \in Nat /\ manifest'.core.last \in Nat
      <4>1. TypeOK'
        BY <1>0, TypeStep, Zenon DEF IInv, Order
      <4> QED
        BY <1>0, <4>1, ManifestTypes, ZenonT(60) DEF TypeOK, Manifest, Core
    <3>3. CASE i <= manifest'.core.last
      BY <1>4, <3>1, <3>3, Zenon DEF LevelsCover, Durable
    <3>4. CASE i > manifest'.core.last
      BY <3>1, <3>4, Zenon DEF Durable
    <3> QED BY <3>2, <3>3, <3>4
  <2> QED BY <1>5, <2>2, <2>3, Zenon DEF Durable
<1>6. Promised'
  <2>1. ASSUME NEW write \in acked' PROVE Durable(write)'
    BY <1>0, <1>5, <2>1, AckStep, Zenon DEF Promised
  <2>2. ASSUME NEW q \in Procs, wtask'[q].pc = "apply" PROVE Durable(wtask[q].write)'
    <3>1. CASE wtask'[q] = wtask[q]
      <4>1. PICK write : write = wtask[q].write
        BY Zenon
      <4>2. Durable(write)
        BY <1>0, <2>2, <3>1, <4>1, Zenon DEF Promised
      <4>3. Durable(write)'
        BY <1>5, <4>2, Zenon
      <4> QED BY <3>1, <4>1, <4>3, Zenon DEF Durable
    <3>2. CASE wtask'[q] # wtask[q]
      <4>1. q = p
        BY <1>0, <3>2, Others, Zenon DEF Same
      <4>2. FlushImmWAL(p) /\ wtask'[p].write = wtask[p].write
        BY <1>0, <2>2, <3>2, <4>1, ApplyStep, Zenon
      <4>3. wtask[p].id > manifest'.core.last
        BY <1>0, <1>1, <4>2, BeyondManifest, ZenonT(60)
      <4>4. wtask[p].id \in DOMAIN walSST' /\ wtask[p].write \in walSST'[wtask[p].id]
        BY <1>1, <4>2, Zenon
      <4> QED BY <4>1, <4>2, <4>3, <4>4, Zenon DEF Durable
    <3> QED BY <3>1, <3>2, Zenon
  <2> QED BY <2>1, <2>2, Zenon DEF Promised
<1>7. ASSUME NEW q \in Procs, Holder(q)' PROVE Recovery(q)'
  <2>0. manifest'.epoch = manifest.epoch \/ manifest'.epoch = manifest.epoch + 1
    BY <1>0, EpochStep, Zenon
  <2>1. CASE q = p /\ BumpPut(p)
    <3>1. ~PutManifest(p) /\ ~PutManifestFails(p)
      BY <1>0, <2>1, ZenonT(60) DEF BumpPut, PutManifest, PutManifestFails, Order, Running
    <3>2. stored[p] = manifest
      BY <1>0, <2>1, <3>1, WhatLands, ZenonT(60)
    <3> QED BY <1>0, <2>1, <3>2, RecoveryStarts, Zenon
  <2>2. CASE q = p /\ ~BumpPut(p)
    <3>1. Keeps(p)
      BY <1>0, <2>2, KeepsOwn, Zenon
    <3>2. Holder(p)
      BY <1>0, <1>7, <2>0, <2>2, <3>1, HolderWas, ZenonT(60)
    <3> QED
      BY <1>0, <1>7, <2>2, <3>2, RecoveryOwn, Zenon DEF Holder
  <2>3. CASE q # p
    <3>1. Same(q) /\ Fenced(q) /\ Order(q)
      BY <1>0, <2>3, Others, Zenon DEF Fencing, IInv
    <3>2. Holder(q)
      BY <1>0, <1>7, <2>0, <3>1, HolderWas, ZenonT(60) DEF Same, Keeps, Opened
    <3>3. walSST' = walSST
      BY <1>0, <1>1, <1>2, <2>3, <3>2, OneHolder, ZenonT(60)
    <3>4. Recovery(q)
      BY <3>2, ZenonT(60) DEF Recoverable
    <3> QED BY <3>1, <3>3, <3>4, RecoveryStays, Zenon DEF Same
  <2> QED BY <2>1, <2>2, <2>3, Zenon
<1> QED BY <1>4, <1>6, <1>7 DEF Recoverable

-----------------------------------------------------------------------------
(* late, once set, stays set. *)
LEMMA LateStays ==
  ASSUME Next
  PROVE  ~late' => ~late
<1>1. ASSUME NEW p \in Procs, StoreWAL(p) PROVE ~late' => ~late
  BY <1>1, ZenonT(60) DEF StoreWAL
<1> QED
  BY <1>1, ZenonT(60) DEF Next, Open, WalTask, MemTask, Crash, OpenLoad, BumpExists, BumpPut,
     BumpPutFails, ListWALs, ReplayWAL, ReplayDone, FreezeWAL, FlushImmWAL,
     FlushImmWALFails, NotifyWALFlushed, FlushImmMemtable, LoadManifest, WriteManifest,
     PutManifest, PutManifestFails, Reset, walVars

LEMMA InitRecoverable ==
  ASSUME Init
  PROVE  Recoverable
BY DEF Init, Recoverable, LevelsCover, Promised, Holder, Opened, NoWAL

(* The inductive invariant behind DurableUnlessLate. *)
THEOREM DInvariance == Spec => []DInv
<1>1. Init => DInv
  BY InitInv, InitRecoverable DEF DInv
<1>2. DInv /\ [Next]_vars => DInv'
  <2> SUFFICES ASSUME DInv, [Next]_vars PROVE DInv'
    OBVIOUS
  <2>1. IInv /\ IInv'
    BY StepInv DEF DInv
  <2>2. CASE UNCHANGED vars
    BY <2>1, <2>2, ZenonT(60) DEF DInv, Recoverable, LevelsCover, Promised, Durable, Holder,
       Recovery, Absorbs, Opened, Running, vars, storeVars, openVars, walVars, memVars
  <2>3. CASE Next
    BY <2>1, <2>3, OverwroteStays, LateStays, RecoverableStep DEF DInv
  <2> QED BY <2>2, <2>3
<1> QED BY <1>1, <1>2, PTL DEF Spec

(* What flushImmWAL acknowledged is found by the next Open, in the WALs     *)
(* that replayWAL reads or in the levels, whichever processes open the      *)
(* database and end, unless an Upload replaces a manifest or a replaced     *)
(* writer uploads a WAL.                                                    *)
THEOREM AckedIsDurable == Spec => []DurableUnlessLate
<1>1. DInv => DurableUnlessLate
  BY DEF DInv, Recoverable, Promised, DurableUnlessLate
<1> QED BY <1>1, DInvariance, PTL

=============================================================================
