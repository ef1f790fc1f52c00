--------------------------- MODULE WritePathSteps ---------------------------
(***************************************************************************)
(* Every step of WritePath keeps Inv.                                      *)
(***************************************************************************)
EXTENDS WritePathInv

(* Leaves are for Zenon, unless they name another prover. *)
USE Zenon

-----------------------------------------------------------------------------
(* Goroutines *)

-----------------------------------------------------------------------------
(* Frames: what a step leaves alone *)

LEMMA WalsShrink ==
  ASSUME TypeInv, NEW t \in WalThreads, NEW r \in WGoroutine, w' = [w EXCEPT ![t] = r],
         \A j \in DOMAIN immWALs' : immWALs'[j] \in Wals,
         r.pc \in Busy => r.imm \in Wals
  PROVE  Wals' \subseteq Wals
<1>1. w \in [WalThreads -> WGoroutine]
  BY DEF TypeInv
<1>2. w'[t] = r /\ \A u \in WalThreads : u # t => w'[u] = w[u]
  BY <1>1, WChange
<1>3. \A u \in WalThreads : w'[u].pc \in Busy => w'[u].imm \in Wals
  BY <1>2 DEF Wals
<1> QED
  BY <1>3 DEF Wals

LEMMA WalFrame ==
  ASSUME TypeInv, WalInv, status = "open", status' \in {"open", "panicked"}, UNCHANGED walSST,
         Wals' \subseteq Wals, core'.nextWalSstID = core.nextWalSstID
  PROVE  WalInv'
<1>1. OpenWals
  BY DEF WalInv
<1>2. OpenWals'
  BY <1>1 DEF OpenWals
<1> QED
  BY <1>2 DEF WalInv

LEMMA WalStore ==
  ASSUME TypeInv, WalInv, status = "open", status' = "open", NEW x \in ImmWAL, x \in Wals,
         StoreWAL(x), Wals' \subseteq Wals, core'.nextWalSstID = core.nextWalSstID
  PROVE  /\ WalInv'
         /\ \A i \in DOMAIN walSST : i \in DOMAIN walSST' /\ walSST'[i] = walSST[i]
<1>0. OpenWals
  BY DEF WalInv
<1>1. /\ DOMAIN walSST' = DOMAIN walSST \cup {x.id}
      /\ walSST'[x.id] = x.tab
      /\ \A i \in DOMAIN walSST : i # x.id => walSST'[i] = walSST[i]
  BY StoreIs
<1>2. \A i \in DOMAIN walSST : walSST'[i] = walSST[i]
  BY <1>0, <1>1 DEF OpenWals
<1>3. \A i \in DOMAIN walSST' : i < core'.nextWalSstID
  BY <1>0, <1>1 DEF OpenWals
<1>4. \A y \in Wals : y.id \in DOMAIN walSST' => walSST'[y.id] = y.tab
  BY <1>0, <1>1, <1>2 DEF OpenWals
<1>5. OpenWals'
  BY <1>0, <1>3, <1>4 DEF OpenWals
<1>6. x.id > 0
  <2>1. 0 < x.id /\ x.id \in Nat
    BY <1>0 DEF OpenWals, ImmWAL
  <2> QED
    BY <2>1, SMT
<1>7. \A i \in DOMAIN walSST' : i > 0
  BY <1>1, <1>6 DEF WalInv
<1> QED
  BY <1>1, <1>2, <1>5, <1>7 DEF WalInv

(* A step of FlushWAL that leaves the queue of WALs, the memtables and the  *)
(* manifests alone.                                                         *)
LEMMA LastsFrame ==
  ASSUME LastsSeen, UNCHANGED <<manifest, core, replayed, memtable, immMemtables, m>>,
         DOMAIN walSST \subseteq DOMAIN walSST'
  PROVE  LastsSeen'
BY LatestSame DEF LastsSeen, Seen

LEMMA FrozenWalSide ==
  ASSUME TypeInv, FrozenInv, status = "open", status' \in {"open", "panicked"},
         UNCHANGED <<m, ch, immMemtables, flushFailed>>,
         NEW t \in WalThreads, NEW r \in WGoroutine, w' = [w EXCEPT ![t] = r],
         w[t].pc # "send"
  PROVE  FrozenInv'
<1>1. w'[t] = r /\ \A u \in WalThreads : u # t => w'[u] = w[u]
  BY WChange DEF TypeInv
<1>2. Pending => Pending'
  BY <1>1 DEF Pending
<1> QED
  BY <1>2 DEF FrozenInv

LEMMA RefWalSide ==
  ASSUME TypeInv, RefInv, UNCHANGED <<kvt, memtable, immMemtables, m>>,
         NEW t \in WalThreads, NEW r \in WGoroutine, w' = [w EXCEPT ![t] = r], r.pc # "apply"
  PROVE  RefInv'
<1>1. w'[t] = r /\ \A u \in WalThreads : u # t => w'[u] = w[u]
  BY WChange DEF TypeInv
<1> QED
  BY <1>1 DEF RefInv

LEMMA QueueSide ==
  ASSUME TypeInv, QueueInv, status = "open", UNCHANGED <<overlapped, immWALs>>,
         core'.nextWalSstID = core.nextWalSstID, DOMAIN walSST \subseteq DOMAIN walSST',
         ~overlapped => NoGaps' /\ LastsSeen',
         NEW t \in WalThreads, NEW r \in WGoroutine, w' = [w EXCEPT ![t] = r],
         r.pc \in {"upload", "pop"} => w[t].pc \in {"upload", "pop"} /\ r.imm = w[t].imm,
         ~overlapped /\ r.pc \in Busy \ {"upload"} => r.imm.id \in DOMAIN walSST'
  PROVE  QueueInv'
<1> SUFFICES ASSUME ~overlapped PROVE HandsSeen' /\ InTurn'
  BY DEF QueueInv
<1>1. w'[t] = r /\ \A u \in WalThreads : u # t => w'[u] = w[u]
  BY WChange DEF TypeInv
<1>2. HandsSeen /\ InTurn
  BY DEF QueueInv
<1>3. HandsSeen'
  BY <1>1, <1>2 DEF HandsSeen
<1>4. \A u \in WalThreads : w'[u].pc \in {"upload", "pop"} =>
        w[u].pc \in {"upload", "pop"} /\ w'[u].imm = w[u].imm
  BY <1>1
<1>5. \A u \in WalThreads :
        w'[u].pc \in {"upload", "pop"} => immWALs' # <<>> /\ w'[u].imm = Head(immWALs')
  BY <1>2, <1>4 DEF InTurn
<1>6. \A u, v \in WalThreads :
        w'[u].pc \in {"upload", "pop"} /\ w'[v].pc \in {"upload", "pop"} => u = v
  BY <1>2, <1>4 DEF InTurn
<1>7. \A i \in 1..core'.nextWalSstID - 1 :
        i \in DOMAIN walSST' \/ \E j \in DOMAIN immWALs' : immWALs'[j].id = i
  BY <1>2 DEF InTurn
<1> QED
  BY <1>2, <1>3, <1>5, <1>6, <1>7 DEF InTurn

-----------------------------------------------------------------------------
(* FlushWAL *)

(* The oldest WAL is stored: no gap arises. *)
LEMMA StoreNoGap ==
  ASSUME TypeInv, WalInv, QueueInv, status = "open", ~overlapped, NEW t \in WalThreads,
         w[t].pc = "upload", StoreWAL(w[t].imm)
  PROVE  NoGaps'
<1>0. NoGaps /\ InTurn /\ OpenWals /\ w[t].imm \in ImmWAL /\ w[t].imm.id \in Nat
  BY HandTypes DEF QueueInv, WalInv
<1>1. DOMAIN walSST' = DOMAIN walSST \cup {w[t].imm.id}
  BY <1>0, StoreIs
<1>2. immWALs # <<>> /\ w[t].imm = Head(immWALs)
  BY <1>0 DEF InTurn
<1>3. w[t].imm = immWALs[1] /\ 1 \in DOMAIN immWALs
  BY <1>2, QueueTypes
<1>4. w[t].imm.id < core.nextWalSstID /\ core.nextWalSstID \in Nat
  <2>1. core.nextWalSstID \in Nat
    BY CoreFields DEF TypeInv, ValidCore
  <2> QED
    BY <1>0, <2>1, HandTypes DEF OpenWals, Busy
<1>5. ASSUME NEW j \in 1..w[t].imm.id, j # w[t].imm.id PROVE j \in DOMAIN walSST
  <2>1. j \in 1..core.nextWalSstID - 1 /\ j < w[t].imm.id
    BY <1>0, <1>4, <1>5, SMT
  <2>2. ASSUME NEW i \in DOMAIN immWALs, immWALs[i].id = j PROVE FALSE
    <3>1. i = 1 \/ 1 < i
      <4>1. immWALs \in Seq(ImmWAL)
        BY DEF TypeInv
      <4> QED
        BY <4>1, SMT
    <3>2. 1 < i => w[t].imm.id < j
      BY <1>0, <1>3, <2>2 DEF InTurn
    <3>3. ~(w[t].imm.id < j)
      BY <1>0, <2>1, SMT
    <3> QED
      BY <1>3, <1>5, <2>2, <3>1, <3>2, <3>3
  <2> QED
    BY <1>0, <2>1, <2>2 DEF InTurn
<1> QED
  BY <1>0, <1>1, <1>5 DEF NoGaps

LEMMA FlushImmWALStep ==
  ASSUME Inv, NEW t \in WalThreads, FlushImmWAL(t)
  PROVE  Inv'
<1>0. TypeInv /\ RefInv /\ WalInv /\ QueueInv /\ FrozenInv
  BY DEF Inv
<1>1. /\ status = "open" /\ w[t].pc = "upload"
      /\ StoreWAL(w[t].imm)
      /\ WGoto(t, "pop")
      /\ UNCHANGED <<ssts, manifest, status, stateVars, replayed, m, stored, ch, shutdown,
                     closing, histVars>>
  BY DEF FlushImmWAL
<1>2. UNCHANGED <<wal, immWALs, kvt, memtable, immMemtables, core, issued, log, acked, notified,
                  mark, flushFailed, overlapped, opens>>
  BY <1>1 DEF stateVars, histVars
<1>3. w[t].imm \in ImmWAL /\ w[t].imm \in Wals
  BY <1>0, <1>1, HandTypes DEF Busy
<1>4. /\ w' \in [WalThreads -> WGoroutine]
      /\ \E r \in WGoroutine :
           /\ w' = [w EXCEPT ![t] = r]
           /\ r.pc = "pop" /\ r.imm = w[t].imm /\ r.tab = w[t].tab /\ r.final = w[t].final
  <2>1. "pop" \in WalPc
    BY DEF WalPc
  <2> QED
    BY <1>0, <1>1, <2>1, WGotoSide
<1>5. PICK r \in WGoroutine : w' = [w EXCEPT ![t] = r] /\ r.pc = "pop" /\ r.imm = w[t].imm
  BY <1>4
<1>6. /\ walSST' \in [DOMAIN walSST' -> Table] /\ DOMAIN walSST' \subseteq Nat
      /\ DOMAIN walSST' = DOMAIN walSST \cup {w[t].imm.id}
  BY <1>0, <1>1, <1>3, StoreIs
<1>7. TypeInv'
  BY <1>0, <1>1, <1>2, <1>4, <1>6 DEF TypeInv
<1>8. RefInv'
  BY <1>0, <1>1, <1>2, <1>5, RefWalSide
<1>9. WalInv'
  <2>1. Wals' \subseteq Wals
    BY <1>0, <1>2, <1>3, <1>5, QueueTypes, WalsShrink
  <2> QED
    BY <1>0, <1>1, <1>2, <1>3, <2>1, WalStore
<1>10. QueueInv'
  <2>1. ~overlapped => NoGaps'
    BY <1>0, <1>1, StoreNoGap
  <2>2. ~overlapped => LastsSeen'
    BY <1>0, <1>1, <1>2, <1>6, LastsFrame DEF QueueInv
  <2> QED
    BY <1>0, <1>1, <1>2, <1>5, <1>6, <2>1, <2>2, QueueSide
<1>11. FrozenInv'
  BY <1>0, <1>1, <1>2, <1>5, FrozenWalSide
<1> QED
  BY <1>7, <1>8, <1>9, <1>10, <1>11 DEF Inv

(* The upload fails, stored or not; or the size is looked at. *)
LEMMA WalMove ==
  ASSUME Inv, status = "open", status' = "open", NEW t \in WalThreads, NEW r \in WGoroutine,
         w' = [w EXCEPT ![t] = r], w[t].pc # "send", r.pc \notin {"upload", "pop", "apply"},
         r.pc \in Busy => w[t].pc \in Busy \ {"upload"} /\ r.imm = w[t].imm,
         UNCHANGED <<walSST, manifest, immWALs, kvt, memtable, immMemtables, core, replayed, m,
                     ch, flushFailed, overlapped>>
  PROVE  RefInv' /\ WalInv' /\ QueueInv' /\ FrozenInv'
<1>0. TypeInv /\ RefInv /\ WalInv /\ QueueInv /\ FrozenInv
  BY DEF Inv
<1>1. RefInv'
  BY <1>0, RefWalSide
<1>2. FrozenInv'
  BY <1>0, FrozenWalSide
<1>3. WalInv'
  <2>1. r.pc \in Busy => r.imm \in Wals
    BY <1>0, HandTypes
  <2>2. Wals' \subseteq Wals
    BY <1>0, <2>1, QueueTypes, WalsShrink
  <2> QED
    BY <1>0, <2>2, WalFrame
<1>4. QueueInv'
  <2>1. ~overlapped => NoGaps' /\ LastsSeen'
    BY <1>0, LastsFrame DEF QueueInv, NoGaps
  <2>2. ~overlapped /\ r.pc \in Busy \ {"upload"} => r.imm.id \in DOMAIN walSST'
    BY <1>0 DEF QueueInv, HandsSeen
  <2> QED
    BY <1>0, <2>1, <2>2, QueueSide
<1> QED
  BY <1>1, <1>2, <1>3, <1>4

LEMMA FlushImmWALFailsStep ==
  ASSUME Inv, NEW t \in WalThreads, FlushImmWALFails(t)
  PROVE  Inv'
<1>0. TypeInv /\ RefInv /\ WalInv /\ QueueInv /\ FrozenInv
  BY DEF Inv
<1>1. /\ status = "open" /\ w[t].pc = "upload"
      /\ StoreWAL(w[t].imm) \/ UNCHANGED walSST
      /\ w' = [w EXCEPT ![t] = WReturned(@)]
      /\ UNCHANGED <<ssts, manifest, status, stateVars, replayed, m, stored, ch, shutdown,
                     closing, histVars>>
  BY DEF FlushImmWALFails
<1>2. UNCHANGED <<wal, immWALs, kvt, memtable, immMemtables, core, issued, log, acked, notified,
                  mark, flushFailed, overlapped, opens>>
  BY <1>1 DEF stateVars, histVars
<1> DEFINE r == WReturned(w[t])
<1>3. r \in WGoroutine /\ r.pc \in {"idle", "done"} /\ r.pc \notin Busy
  BY <1>0, Returned
<1>4. w' = [w EXCEPT ![t] = r]
  BY <1>1
<1> HIDE DEF r
<1>5. w' \in [WalThreads -> WGoroutine]
  BY <1>0, <1>3, <1>4, WChange DEF TypeInv
<1>6. w[t].imm \in ImmWAL /\ w[t].imm \in Wals /\ w[t].pc # "send"
  BY <1>0, <1>1, HandTypes DEF Busy
<1>7. r.pc \notin {"upload", "pop", "apply"}
  BY <1>3
<1>8. CASE UNCHANGED walSST
  <2>1. TypeInv'
    BY <1>0, <1>1, <1>2, <1>5, <1>8 DEF TypeInv
  <2>2. RefInv' /\ WalInv' /\ QueueInv' /\ FrozenInv'
    BY <1>1, <1>2, <1>3, <1>4, <1>6, <1>7, <1>8, WalMove
  <2> QED
    BY <2>1, <2>2 DEF Inv
<1>9. CASE StoreWAL(w[t].imm)
  <2>1. /\ walSST' \in [DOMAIN walSST' -> Table] /\ DOMAIN walSST' \subseteq Nat
        /\ DOMAIN walSST' = DOMAIN walSST \cup {w[t].imm.id}
    BY <1>0, <1>9, <1>6, StoreIs
  <2>2. TypeInv'
    BY <1>0, <1>1, <1>2, <1>5, <2>1 DEF TypeInv
  <2>3. RefInv'
    BY <1>0, <1>2, <1>1, <1>3, <1>4, <1>7, RefWalSide
  <2>4. WalInv'
    <3>1. Wals' \subseteq Wals
      BY <1>0, <1>2, <1>3, <1>4, QueueTypes, WalsShrink
    <3> QED
      BY <1>0, <1>1, <1>2, <1>6, <1>9, <3>1, WalStore
  <2>5. QueueInv'
    <3>1. ~overlapped => NoGaps'
      BY <1>0, <1>1, <1>9, StoreNoGap
    <3>2. ~overlapped => LastsSeen'
      BY <1>0, <1>1, <1>2, <2>1, LastsFrame DEF QueueInv
    <3> QED
      BY <1>0, <1>1, <1>2, <1>3, <1>4, <1>7, <2>1, <3>1, <3>2, QueueSide
  <2>6. FrozenInv'
    BY <1>0, <1>1, <1>2, <1>3, <1>4, <1>6, FrozenWalSide
  <2> QED
    BY <2>2, <2>3, <2>4, <2>5, <2>6 DEF Inv
<1> QED
  BY <1>1, <1>8, <1>9

(* A panic leaves everything as it is. *)
LEMMA PanicStep ==
  ASSUME Inv, status = "open", Panic
  PROVE  Inv'
<1>0. TypeInv /\ RefInv /\ WalInv /\ QueueInv /\ FrozenInv
  BY DEF Inv
<1>1. /\ status' = "panicked"
      /\ UNCHANGED <<walSST, ssts, manifest, wal, immWALs, kvt, memtable, immMemtables, core,
                     replayed, w, m, stored, ch, shutdown, closing, issued, log, acked, notified,
                     mark, flushFailed, overlapped, opens>>
  BY DEF Panic, storeVars, stateVars, taskVars, histVars
<1>2. TypeInv'
  BY <1>0, <1>1 DEF TypeInv
<1>3. RefInv'
  BY <1>0, <1>1 DEF RefInv
<1>4. WalInv'
  BY <1>0, <1>1 DEF WalInv
<1>5. QueueInv'
  BY <1>0, <1>1, LastsFrame DEF QueueInv, NoGaps, HandsSeen
<1>6. FrozenInv'
  BY <1>0, <1>1 DEF FrozenInv
<1> QED
  BY <1>2, <1>3, <1>4, <1>5, <1>6 DEF Inv

(* The oldest WAL, which is stored, leaves the queue. *)
LEMMA PopInTurn ==
  ASSUME TypeInv, InTurn, HandsSeen, immWALs # <<>>, immWALs' = Tail(immWALs),
         UNCHANGED walSST, core'.nextWalSstID = core.nextWalSstID,
         NEW t \in WalThreads, NEW r \in WGoroutine, w' = [w EXCEPT ![t] = r],
         w[t].pc = "pop", r.pc = "apply"
  PROVE  InTurn'
<1>0. immWALs \in Seq(ImmWAL)
  BY DEF TypeInv
<1>1. w'[t] = r /\ \A u \in WalThreads : u # t => w'[u] = w[u]
  BY WChange DEF TypeInv
<1>2. \A u \in WalThreads : w'[u].pc \notin {"upload", "pop"}
  <2>1. \A u \in WalThreads : u # t => w[u].pc \notin {"upload", "pop"}
    BY DEF InTurn
  <2> QED
    BY <1>1, <2>1
<1>3. /\ immWALs[1] = w[t].imm
      /\ \A j \in DOMAIN Tail(immWALs) :
           j + 1 \in DOMAIN immWALs /\ Tail(immWALs)[j] = immWALs[j + 1]
  BY QueueTypes DEF InTurn
<1>4. w[t].imm.id \in DOMAIN walSST
  BY DEF HandsSeen, Busy
<1>5. ASSUME NEW i \in 1..core'.nextWalSstID - 1
      PROVE  i \in DOMAIN walSST' \/ \E j \in DOMAIN immWALs' : immWALs'[j].id = i
  <2>1. i \in DOMAIN walSST \/ \E j \in DOMAIN immWALs : immWALs[j].id = i
    BY <1>5 DEF InTurn
  <2>2. ASSUME NEW j \in DOMAIN immWALs, immWALs[j].id = i, j # 1
        PROVE  \E k \in DOMAIN immWALs' : immWALs'[k].id = i
    <3>1. j - 1 \in DOMAIN Tail(immWALs) /\ Tail(immWALs)[j - 1] = immWALs[j]
      BY <1>0, <2>2, SMT
    <3> QED
      BY <2>2, <3>1
  <2> QED
    BY <1>3, <1>4, <2>1, <2>2
<1>6. ASSUME NEW i \in DOMAIN immWALs', NEW j \in DOMAIN immWALs', i < j
      PROVE  immWALs'[i].id < immWALs'[j].id
  <2>1. i \in Nat /\ j \in Nat /\ i + 1 < j + 1
    <3>1. i \in Nat /\ j \in Nat
      BY <1>0, SMT
    <3> QED
      BY <1>6, <3>1, SMT
  <2> QED
    BY <1>3, <2>1 DEF InTurn
<1> QED
  BY <1>2, <1>5, <1>6 DEF InTurn

LEMMA PopImmWALStep ==
  ASSUME Inv, NEW t \in WalThreads, PopImmWAL(t)
  PROVE  Inv'
<1>0. TypeInv /\ RefInv /\ WalInv /\ QueueInv /\ FrozenInv
  BY DEF Inv
<1>1. status = "open" /\ w[t].pc = "pop"
  BY DEF PopImmWAL
<1>2. CASE Panic
  BY <1>1, <1>2, PanicStep
<1>3. CASE /\ immWALs # <<>>
           /\ immWALs' = Tail(immWALs)
           /\ w' = [w EXCEPT ![t].pc = "apply", ![t].tab = memtable.tab]
           /\ UNCHANGED <<storeVars, status, wal, kvt, memtable, immMemtables, core, replayed,
                          m, stored, ch, shutdown, closing, histVars>>
  <2>1. UNCHANGED <<walSST, ssts, manifest, status, wal, kvt, memtable, immMemtables, core,
                    replayed, m, stored, ch, shutdown, closing, issued, log, acked, notified,
                    mark, flushFailed, overlapped, opens>>
    BY <1>3 DEF storeVars, histVars
  <2>2. PICK r \in WGoroutine :
           /\ w' = [w EXCEPT ![t] = r]
           /\ r.pc = "apply" /\ r.imm = w[t].imm /\ r.tab = memtable.tab
    BY <1>0, <1>3, PopIs
  <2>3. w' \in [WalThreads -> WGoroutine] /\ w'[t] = r /\ \A u \in WalThreads : u # t => w'[u] = w[u]
    BY <1>0, <2>2, WChange DEF TypeInv
  <2>4. immWALs' \in Seq(ImmWAL) /\ \A j \in DOMAIN immWALs' : immWALs'[j] \in Wals
    BY <1>0, <1>3, QueueTypes
  <2>5. w[t].imm \in Wals /\ r.pc \in Busy /\ w[t].pc # "send"
    BY <1>0, <1>1, <2>2, HandTypes DEF Busy
  <2>6. TypeInv'
    BY <1>0, <2>1, <2>3, <2>4 DEF TypeInv
  <2>7. RefInv'
    BY <1>0, <2>1, <2>2, <2>3 DEF RefInv
  <2>8. WalInv'
    <3>1. Wals' \subseteq Wals
      BY <1>0, <2>2, <2>4, <2>5, WalsShrink
    <3> QED
      BY <1>0, <1>1, <2>1, <3>1, WalFrame
  <2>9. QueueInv'
    <3> SUFFICES ASSUME ~overlapped PROVE NoGaps' /\ LastsSeen' /\ HandsSeen' /\ InTurn'
      BY <2>1 DEF QueueInv
    <3>1. NoGaps /\ LastsSeen /\ HandsSeen /\ InTurn
      BY <1>0, <1>1 DEF QueueInv
    <3>2. NoGaps' /\ LastsSeen'
      BY <2>1, <3>1, LastsFrame DEF NoGaps
    <3>3. HandsSeen'
      <4>1. w[t].imm.id \in DOMAIN walSST
        BY <1>1, <3>1 DEF HandsSeen, Busy
      <4> QED
        BY <2>1, <2>2, <2>3, <3>1, <4>1 DEF HandsSeen
    <3>4. InTurn'
      BY <1>0, <1>1, <1>3, <2>1, <2>2, <3>1, PopInTurn
    <3> QED
      BY <3>2, <3>3, <3>4
  <2>10. FrozenInv'
    BY <1>0, <1>1, <2>1, <2>2, <2>5, FrozenWalSide
  <2> QED
    BY <2>6, <2>7, <2>8, <2>9, <2>10 DEF Inv
<1> QED
  BY <1>2, <1>3 DEF PopImmWAL

LEMMA FlushImmWALToMemtableStep ==
  ASSUME Inv, NEW t \in WalThreads, FlushImmWALToMemtable(t)
  PROVE  Inv'
<1>0. TypeInv /\ RefInv /\ WalInv /\ QueueInv /\ FrozenInv
  BY DEF Inv
<1>1. /\ status = "open" /\ w[t].pc = "apply"
      /\ kvt' = [kvt EXCEPT ![w[t].tab] = PutAll(w[t].imm.tab, @)]
      /\ memtable' = IF memtable.tab = w[t].tab THEN [memtable EXCEPT !.last = w[t].imm.id]
                     ELSE memtable
      /\ WGoto(t, "check")
      /\ UNCHANGED <<walSST, ssts, manifest, status, wal, immWALs, immMemtables, core, replayed,
                     m, stored, ch, shutdown, closing, issued, log, acked, notified, mark,
                     flushFailed, overlapped, opens>>
  BY DEF FlushImmWALToMemtable, storeVars, histVars
<1>2. /\ w[t].imm \in Wals /\ w[t].imm.id \in Nat /\ w[t].imm.tab \in Table
      /\ w[t].tab \in DOMAIN kvt /\ kvt \in Seq(Table) /\ memtable \in MemRef
  BY <1>0, <1>1, HandTypes DEF Busy, RefInv, TypeInv
<1>3. kvt' \in Seq(Table) /\ DOMAIN kvt' = DOMAIN kvt
  <2>1. kvt[w[t].tab] \in Table
    BY <1>2, SMT
  <2>2. PutAll(w[t].imm.tab, kvt[w[t].tab]) \in Table
    BY <1>2, <2>1, TablesType
  <2>3. kvt' = [kvt EXCEPT ![w[t].tab] = PutAll(w[t].imm.tab, kvt[w[t].tab])]
    BY <1>1, <1>2
  <2> QED
    BY <1>2, <2>2, <2>3, KvtPut
<1>4. /\ memtable' \in MemRef /\ memtable'.tab = memtable.tab
      /\ memtable'.last \in {memtable.last, w[t].imm.id}
  BY <1>1, <1>2, SMT DEF MemRef
<1>5. /\ w' \in [WalThreads -> WGoroutine]
      /\ \E r \in WGoroutine :
           /\ w' = [w EXCEPT ![t] = r]
           /\ r.pc = "check" /\ r.imm = w[t].imm /\ r.tab = w[t].tab /\ r.final = w[t].final
  <2>1. "check" \in WalPc
    BY DEF WalPc
  <2> QED
    BY <1>0, <1>1, <2>1, WGotoSide
<1>6. PICK r \in WGoroutine : w' = [w EXCEPT ![t] = r] /\ r.pc = "check" /\ r.imm = w[t].imm
  BY <1>5
<1>7. w'[t] = r /\ \A u \in WalThreads : u # t => w'[u] = w[u]
  BY <1>0, <1>6, WChange DEF TypeInv
<1>8. TypeInv'
  BY <1>0, <1>1, <1>3, <1>4, <1>5 DEF TypeInv
<1>9. RefInv'
  BY <1>0, <1>1, <1>3, <1>4, <1>6, <1>7 DEF RefInv
<1>10. WalInv'
  <2>1. Wals' \subseteq Wals
    BY <1>0, <1>1, <1>2, <1>6, QueueTypes, WalsShrink
  <2> QED
    BY <1>0, <1>1, <2>1, WalFrame
<1>11. QueueInv'
  <2>1. ~overlapped => w[t].imm.id \in DOMAIN walSST
    BY <1>0, <1>1 DEF QueueInv, HandsSeen, Busy
  <2>2. ~overlapped => LastsSeen'
    <3> SUFFICES ASSUME ~overlapped PROVE LastsSeen'
      BY SMT
    <3>1. LastsSeen
      BY <1>0 DEF QueueInv
    <3>2. Seen(memtable'.last)
      BY <1>4, <2>1, <3>1 DEF LastsSeen, Seen
    <3> QED
      BY <1>1, <3>1, <3>2, LatestSame DEF LastsSeen, Seen
  <2>3. ~overlapped => NoGaps'
    BY <1>0, <1>1 DEF QueueInv, NoGaps
  <2>4. r.pc \notin {"upload", "pop"}
    BY <1>6
  <2>5. ~overlapped => r.imm.id \in DOMAIN walSST'
    BY <1>1, <1>6, <2>1
  <2> QED
    BY <1>0, <1>1, <1>6, <2>2, <2>3, <2>4, <2>5, QueueSide
<1>12. FrozenInv'
  <2>1. w[t].pc # "send"
    BY <1>1
  <2> QED
    BY <1>0, <1>1, <1>6, <2>1, FrozenWalSide
<1> QED
  BY <1>8, <1>9, <1>10, <1>11, <1>12 DEF Inv

LEMMA CheckMemtableSizeStep ==
  ASSUME Inv, NEW t \in WalThreads, CheckMemtableSize(t)
  PROVE  Inv'
<1>0. TypeInv
  BY DEF Inv
<1>1. /\ status = "open" /\ w[t].pc = "check"
      /\ WGoto(t, IF Size(kvt[memtable.tab]) < L0Size THEN "notify" ELSE "freeze")
      /\ UNCHANGED <<walSST, ssts, manifest, status, wal, immWALs, kvt, memtable, immMemtables,
                     core, replayed, m, stored, ch, shutdown, closing, issued, log, acked,
                     notified, mark, flushFailed, overlapped, opens>>
  BY DEF CheckMemtableSize, storeVars, stateVars, histVars
<1>2. PICK pc \in {"notify", "freeze"} : WGoto(t, pc)
  BY <1>1
<1>3. pc \in WalPc
  BY <1>2 DEF WalPc
<1>4. /\ w' \in [WalThreads -> WGoroutine]
      /\ \E r \in WGoroutine :
           /\ w' = [w EXCEPT ![t] = r]
           /\ r.pc = pc /\ r.imm = w[t].imm /\ r.tab = w[t].tab /\ r.final = w[t].final
  BY <1>0, <1>2, <1>3, WGotoSide
<1>5. PICK r \in WGoroutine : w' = [w EXCEPT ![t] = r] /\ r.pc = pc /\ r.imm = w[t].imm
  BY <1>4
<1>6. r.pc \notin {"upload", "pop", "apply"} /\ w[t].pc \in Busy \ {"upload"} /\ w[t].pc # "send"
  BY <1>1, <1>2, <1>5 DEF Busy
<1>7. TypeInv'
  BY <1>0, <1>1, <1>4 DEF TypeInv
<1>8. RefInv' /\ WalInv' /\ QueueInv' /\ FrozenInv'
  BY <1>1, <1>5, <1>6, WalMove
<1> QED
  BY <1>7, <1>8 DEF Inv

(* The memtable ends with a WAL that is stored. *)
LEMMA FreezeSeen ==
  ASSUME LastsSeen, NEW n, Seen(n), UNCHANGED <<manifest, core, replayed, m>>, memtable'.last = 0,
         DOMAIN walSST \subseteq DOMAIN walSST',
         \A i \in DOMAIN immMemtables' :
           \/ i \in DOMAIN immMemtables /\ immMemtables'[i] = immMemtables[i]
           \/ immMemtables'[i].last = n
  PROVE  LastsSeen'
<1>1. \A i \in DOMAIN immMemtables' : Seen(immMemtables'[i].last)
  BY DEF LastsSeen
<1>2. Seen(memtable'.last)
  BY DEF Seen
<1> QED
  BY <1>1, <1>2, LatestSame DEF LastsSeen, Seen

LEMMA MaybeFreezeMemtableStep ==
  ASSUME Inv, NEW t \in WalThreads, MaybeFreezeMemtable(t)
  PROVE  Inv'
<1>0. TypeInv /\ RefInv /\ WalInv /\ QueueInv /\ FrozenInv
  BY DEF Inv
<1>1. /\ status = "open" /\ w[t].pc = "freeze"
      /\ FreezeMemtable(kvt, w[t].imm.id)
      /\ WGoto(t, "send")
      /\ UNCHANGED <<walSST, ssts, manifest, status, wal, immWALs, core, replayed, m, stored, ch,
                     shutdown, closing, issued, log, acked, notified, mark, flushFailed,
                     overlapped, opens>>
  BY DEF MaybeFreezeMemtable, storeVars, histVars
<1>2. w[t].imm \in Wals /\ w[t].imm.id \in Nat /\ kvt \in Seq(Table)
  BY <1>0, <1>1, HandTypes DEF Busy, TypeInv
<1>3. /\ kvt' \in Seq(Table) /\ immMemtables' \in Seq(MemRef) /\ memtable' \in MemRef
      /\ DOMAIN kvt \subseteq DOMAIN kvt' /\ memtable'.tab \in DOMAIN kvt'
      /\ memtable'.last = 0
      /\ \A i \in DOMAIN immMemtables' :
           \/ i \in DOMAIN immMemtables /\ immMemtables'[i] = immMemtables[i]
           \/ immMemtables'[i].tab = memtable.tab /\ immMemtables'[i].last = w[t].imm.id
      /\ \A i \in DOMAIN immMemtables' : immMemtables'[i].tab \in DOMAIN kvt'
  BY <1>0, <1>1, <1>2, FreezeIs
<1>4. /\ w' \in [WalThreads -> WGoroutine]
      /\ \E r \in WGoroutine :
           /\ w' = [w EXCEPT ![t] = r]
           /\ r.pc = "send" /\ r.imm = w[t].imm /\ r.tab = w[t].tab /\ r.final = w[t].final
  <2>1. "send" \in WalPc
    BY DEF WalPc
  <2> QED
    BY <1>0, <1>1, <2>1, WGotoSide
<1>5. PICK r \in WGoroutine : w' = [w EXCEPT ![t] = r] /\ r.pc = "send" /\ r.imm = w[t].imm
  BY <1>4
<1>6. w'[t] = r /\ \A u \in WalThreads : u # t => w'[u] = w[u]
  BY <1>0, <1>5, WChange DEF TypeInv
<1>7. TypeInv'
  BY <1>0, <1>1, <1>3, <1>4 DEF TypeInv
<1>8. RefInv'
  <2>1. \A u \in WalThreads : w'[u].pc = "apply" => w'[u].tab \in DOMAIN kvt'
    BY <1>0, <1>3, <1>5, <1>6 DEF RefInv
  <2>2. \A u \in MemThreads : m'[u].pc = "upload" => m'[u].imm.tab \in DOMAIN kvt'
    BY <1>0, <1>1, <1>3 DEF RefInv
  <2> QED
    BY <1>3, <2>1, <2>2 DEF RefInv
<1>9. WalInv'
  <2>1. Wals' \subseteq Wals
    BY <1>0, <1>1, <1>2, <1>5, QueueTypes, WalsShrink
  <2> QED
    BY <1>0, <1>1, <2>1, WalFrame
<1>10. QueueInv'
  <2>1. ~overlapped => w[t].imm.id \in DOMAIN walSST
    BY <1>0, <1>1 DEF QueueInv, HandsSeen, Busy
  <2>2. ~overlapped => LastsSeen'
    BY <1>0, <1>1, <1>3, <2>1, FreezeSeen DEF QueueInv, Seen
  <2>3. ~overlapped => NoGaps'
    BY <1>0, <1>1 DEF QueueInv, NoGaps
  <2>4. r.pc \notin {"upload", "pop"}
    BY <1>5
  <2>5. ~overlapped => r.imm.id \in DOMAIN walSST'
    BY <1>1, <1>5, <2>1
  <2> QED
    BY <1>0, <1>1, <1>5, <2>2, <2>3, <2>4, <2>5, QueueSide
<1>11. FrozenInv'
  <2>1. Pending'
    BY <1>5, <1>6 DEF Pending
  <2> QED
    BY <1>0, <1>1, <2>1 DEF FrozenInv
<1> QED
  BY <1>7, <1>8, <1>9, <1>10, <1>11 DEF Inv

LEMMA SendFlushStep ==
  ASSUME Inv, NEW t \in WalThreads, SendFlush(t)
  PROVE  Inv'
<1>0. TypeInv /\ RefInv /\ WalInv /\ QueueInv /\ FrozenInv
  BY DEF Inv
<1>1. /\ status = "open" /\ w[t].pc = "send"
      /\ ch' = Append(ch, "flush")
      /\ WGoto(t, "notify")
      /\ UNCHANGED <<walSST, ssts, manifest, status, wal, immWALs, kvt, memtable, immMemtables,
                     core, replayed, m, stored, shutdown, closing, issued, log, acked, notified,
                     mark, flushFailed, overlapped, opens>>
  BY DEF SendFlush, storeVars, stateVars, histVars
<1>2. ch' \in Seq({"flush", "shutdown"}) /\ \E i \in DOMAIN ch' : ch'[i] = "flush"
  <2>1. ch \in Seq({"flush", "shutdown"}) /\ "flush" \in {"flush", "shutdown"}
    BY <1>0 DEF TypeInv
  <2> QED
    BY <1>1, <2>1, ChAppend
<1>3. w[t].imm \in Wals
  BY <1>0, <1>1, HandTypes DEF Busy
<1>4. /\ w' \in [WalThreads -> WGoroutine]
      /\ \E r \in WGoroutine :
           /\ w' = [w EXCEPT ![t] = r]
           /\ r.pc = "notify" /\ r.imm = w[t].imm /\ r.tab = w[t].tab /\ r.final = w[t].final
  <2>1. "notify" \in WalPc
    BY DEF WalPc
  <2> QED
    BY <1>0, <1>1, <2>1, WGotoSide
<1>5. PICK r \in WGoroutine : w' = [w EXCEPT ![t] = r] /\ r.pc = "notify" /\ r.imm = w[t].imm
  BY <1>4
<1>6. r.pc \notin {"upload", "pop", "apply"} /\ r.pc # "apply"
  BY <1>5
<1>7. TypeInv'
  BY <1>0, <1>1, <1>2, <1>4 DEF TypeInv
<1>8. RefInv'
  BY <1>0, <1>1, <1>5, <1>6, RefWalSide
<1>9. WalInv'
  <2>1. Wals' \subseteq Wals
    BY <1>0, <1>1, <1>3, <1>5, QueueTypes, WalsShrink
  <2> QED
    BY <1>0, <1>1, <2>1, WalFrame
<1>10. QueueInv'
  <2>1. ~overlapped => NoGaps' /\ LastsSeen'
    BY <1>0, <1>1, LastsFrame DEF QueueInv, NoGaps
  <2>2. ~overlapped => r.imm.id \in DOMAIN walSST'
    BY <1>0, <1>1, <1>5 DEF QueueInv, HandsSeen, Busy
  <2> QED
    BY <1>0, <1>1, <1>5, <1>6, <2>1, <2>2, QueueSide
<1>11. FrozenInv'
  <2>1. Pending'
    BY <1>2 DEF Pending
  <2> QED
    BY <1>0, <1>1, <2>1 DEF FrozenInv
<1> QED
  BY <1>7, <1>8, <1>9, <1>10, <1>11 DEF Inv

LEMMA NoOverlap ==
  ASSUME NoteOverlap, ~overlapped'
  PROVE  /\ ~overlapped
         /\ \A t, u \in WalThreads :
              w'[t].pc \in {"upload", "pop"} /\ w'[u].pc \in {"upload", "pop"} => t = u
<1>1. /\ ~overlapped
      /\ \A t, u \in WalThreads : t = u \/ ~({w'[t].pc, w'[u].pc} \subseteq {"upload", "pop"})
  BY DEF NoteOverlap
<1>2. ASSUME NEW t \in WalThreads, NEW u \in WalThreads,
             w'[t].pc \in {"upload", "pop"}, w'[u].pc \in {"upload", "pop"}
      PROVE  t = u
  <2>1. {w'[t].pc, w'[u].pc} \subseteq {"upload", "pop"}
    BY <1>2
  <2> QED
    BY <1>1, <2>1
<1> QED
  BY <1>1, <1>2

(* A FlushWAL takes the oldest WAL of the queue, which may have grown. *)
LEMMA TurnNext ==
  ASSUME TypeInv, InTurn, NoteOverlap, ~overlapped',
         NEW t \in WalThreads, NEW r \in WGoroutine, w' = [w EXCEPT ![t] = r],
         \/ r.pc \in {"idle", "done"}
         \/ r.pc = "upload" /\ immWALs' # <<>> /\ r.imm = Head(immWALs'),
         immWALs # <<>> => immWALs' # <<>> /\ Head(immWALs') = Head(immWALs),
         \A i \in 1..core'.nextWalSstID - 1 :
           i \in DOMAIN walSST' \/ \E j \in DOMAIN immWALs' : immWALs'[j].id = i,
         \A i, j \in DOMAIN immWALs' : i < j => immWALs'[i].id < immWALs'[j].id
  PROVE  InTurn'
<1>1. w'[t] = r /\ \A u \in WalThreads : u # t => w'[u] = w[u]
  BY WChange DEF TypeInv
<1>2. \A u \in WalThreads :
        w[u].pc \in {"upload", "pop"} => immWALs' # <<>> /\ w[u].imm = Head(immWALs')
  BY DEF InTurn
<1>3. r.pc \in {"upload", "pop"} => immWALs' # <<>> /\ r.imm = Head(immWALs')
  OBVIOUS
<1>4. \A u \in WalThreads :
        w'[u].pc \in {"upload", "pop"} => immWALs' # <<>> /\ w'[u].imm = Head(immWALs')
  BY <1>1, <1>2, <1>3
<1>5. \A u, v \in WalThreads :
        w'[u].pc \in {"upload", "pop"} /\ w'[v].pc \in {"upload", "pop"} => u = v
  BY NoOverlap
<1> QED
  BY <1>4, <1>5 DEF InTurn

LEMMA HandsNext ==
  ASSUME TypeInv, HandsSeen, UNCHANGED walSST,
         NEW t \in WalThreads, NEW r \in WGoroutine, w' = [w EXCEPT ![t] = r],
         r.pc \in {"idle", "done", "upload"}
  PROVE  HandsSeen'
<1>1. w'[t] = r /\ \A u \in WalThreads : u # t => w'[u] = w[u]
  BY WChange DEF TypeInv
<1>2. r.pc \notin Busy \ {"upload"}
  BY DEF Busy
<1> QED
  BY <1>1, <1>2 DEF HandsSeen

LEMMA NotifyWALFlushedStep ==
  ASSUME Inv, NEW t \in WalThreads, NotifyWALFlushed(t)
  PROVE  Inv'
<1>0. TypeInv /\ RefInv /\ WalInv /\ QueueInv /\ FrozenInv
  BY DEF Inv
<1>1. status = "open" /\ w[t].pc = "notify"
  BY DEF NotifyWALFlushed
<1>2. CASE Panic
  BY <1>1, <1>2, PanicStep
<1>3. CASE /\ notified' = notified \cup {w[t].imm.id}
           /\ acked' = [k \in Keys |-> IF w[t].imm.tab[k] > acked[k] THEN w[t].imm.tab[k]
                                       ELSE acked[k]]
           /\ w' = [w EXCEPT ![t] = OldestImmWAL([WIdle("idle") EXCEPT !.final = w[t].final], immWALs)]
           /\ NoteOverlap
           /\ UNCHANGED <<storeVars, status, stateVars, replayed, m, stored, ch, shutdown,
                          closing, issued, log, mark, flushFailed, opens>>
  <2>1. UNCHANGED <<walSST, ssts, manifest, status, wal, immWALs, kvt, memtable, immMemtables,
                    core, replayed, m, stored, ch, shutdown, closing, issued, log, mark,
                    flushFailed, opens>>
    BY <1>3 DEF storeVars, stateVars
  <2>2. /\ w[t].imm.id \in Nat /\ w[t].imm.tab \in Table /\ w[t].final \in BOOLEAN
        /\ immWALs \in Seq(ImmWAL) /\ acked \in Table /\ notified \subseteq Nat
    BY <1>0, HandTypes DEF TypeInv
  <2>3. [WIdle("idle") EXCEPT !.final = w[t].final] \in WGoroutine
    <3>1. WIdle("idle") \in WGoroutine
      BY IdleTypes DEF WalPc
    <3> QED
      BY <2>2, <3>1, SMT DEF WGoroutine
  <2> DEFINE r == OldestImmWAL([WIdle("idle") EXCEPT !.final = w[t].final], immWALs)
  <2>4. /\ r \in WGoroutine
        /\ \/ r.pc \in {"idle", "done"} /\ r.pc \notin Busy
           \/ r.pc = "upload" /\ immWALs # <<>> /\ r.imm = Head(immWALs)
    BY <2>2, <2>3, OldestIs
  <2>5. w' = [w EXCEPT ![t] = r]
    BY <1>3
  <2> HIDE DEF r
  <2>6. w' \in [WalThreads -> WGoroutine]
    BY <1>0, <2>4, <2>5, WChange DEF TypeInv
  <2>7. acked' \in Table /\ notified' \subseteq Nat /\ overlapped' \in BOOLEAN
    <3>1. notified' \subseteq Nat
      BY <1>3, <2>2
    <3>2. acked' \in Table
      BY <1>3, <2>2 DEF Table
    <3>3. overlapped' \in BOOLEAN
      BY <1>3 DEF NoteOverlap
    <3> QED
      BY <3>1, <3>2, <3>3
  <2>8. TypeInv'
    BY <1>0, <2>1, <2>6, <2>7 DEF TypeInv
  <2>9. r.pc \in {"idle", "done", "upload"} /\ r.pc # "apply" /\ w[t].pc # "send"
    BY <1>1, <2>4
  <2>10. RefInv'
    BY <1>0, <2>1, <2>4, <2>5, <2>9, RefWalSide
  <2>11. WalInv'
    <3>1. r.pc \in Busy => r.imm \in Wals
      BY <1>0, <2>4, QueueTypes
    <3>2. Wals' \subseteq Wals
      BY <1>0, <2>1, <2>4, <2>5, <3>1, QueueTypes, WalsShrink
    <3> QED
      BY <1>0, <1>1, <2>1, <3>2, WalFrame
  <2>12. QueueInv'
    <3> SUFFICES ASSUME ~overlapped' PROVE NoGaps' /\ LastsSeen' /\ HandsSeen' /\ InTurn'
      BY DEF QueueInv
    <3>1. NoGaps /\ LastsSeen /\ HandsSeen /\ InTurn
      BY <1>0, <1>1, <1>3, NoOverlap DEF QueueInv
    <3>2. NoGaps' /\ LastsSeen'
      BY <2>1, <3>1, LastsFrame DEF NoGaps
    <3>3. HandsSeen'
      BY <1>0, <2>1, <2>4, <2>5, <2>9, <3>1, HandsNext
    <3>4. /\ \A i \in 1..core'.nextWalSstID - 1 :
               i \in DOMAIN walSST' \/ \E j \in DOMAIN immWALs' : immWALs'[j].id = i
          /\ \A i, j \in DOMAIN immWALs' : i < j => immWALs'[i].id < immWALs'[j].id
      BY <2>1, <3>1 DEF InTurn
    <3>5. InTurn'
      BY <1>0, <1>3, <2>1, <2>4, <2>5, <3>1, <3>4, TurnNext
    <3> QED
      BY <3>2, <3>3, <3>5
  <2>13. FrozenInv'
    BY <1>0, <1>1, <2>1, <2>4, <2>5, <2>9, FrozenWalSide
  <2> QED
    BY <2>8, <2>10, <2>11, <2>12, <2>13 DEF Inv
<1> QED
  BY <1>2, <1>3 DEF NotifyWALFlushed

(* The WALs after FreezeWAL: x is new, with an id that no other has had. *)
LEMMA FreezeOpenWals ==
  ASSUME OpenWals, core.nextWalSstID \in Nat, core'.nextWalSstID = core.nextWalSstID + 1,
         0 < core.nextWalSstID, DOMAIN walSST \subseteq Nat, \A y \in Wals : y.id \in Nat,
         NEW x, x.id = core.nextWalSstID, Wals' \subseteq Wals \cup {x}, UNCHANGED walSST
  PROVE  OpenWals'
<1> DEFINE n == core.nextWalSstID
<1>1. \A i \in Nat : i < n => i < core'.nextWalSstID /\ i # n
  BY SMT
<1>2. n < core'.nextWalSstID
  BY SMT
<1>3. n \notin DOMAIN walSST /\ \A y \in Wals : y.id # n
  BY <1>1 DEF OpenWals
<1>4. \A i \in DOMAIN walSST' : i < core'.nextWalSstID
  BY <1>1 DEF OpenWals
<1>5. \A y \in Wals' : 0 < y.id /\ y.id < core'.nextWalSstID
  BY <1>1, <1>2 DEF OpenWals
<1>6. \A y, z \in Wals' : y.id = z.id => y.tab = z.tab
  BY <1>3 DEF OpenWals
<1>7. \A y \in Wals' : y.id \in DOMAIN walSST' => walSST'[y.id] = y.tab
  BY <1>3 DEF OpenWals
<1> QED
  BY <1>4, <1>5, <1>6, <1>7 DEF OpenWals

LEMMA FreezeTurn ==
  ASSUME TypeInv, InTurn, OpenWals, NEW x \in ImmWAL, x.id = core.nextWalSstID,
         immWALs' = Append(immWALs, x), core'.nextWalSstID = core.nextWalSstID + 1,
         core.nextWalSstID \in Nat, UNCHANGED walSST
  PROVE  /\ \A i \in 1..core'.nextWalSstID - 1 :
              i \in DOMAIN walSST' \/ \E j \in DOMAIN immWALs' : immWALs'[j].id = i
         /\ \A i, j \in DOMAIN immWALs' : i < j => immWALs'[i].id < immWALs'[j].id
<1> DEFINE n == core.nextWalSstID
           l == Len(immWALs) + 1
<1>0. immWALs \in Seq(ImmWAL)
  BY DEF TypeInv
<1>1. /\ \A j \in DOMAIN immWALs : j \in DOMAIN immWALs' /\ immWALs'[j] = immWALs[j]
      /\ l \in DOMAIN immWALs' /\ immWALs'[l] = x
      /\ \A j \in DOMAIN immWALs' : j \in DOMAIN immWALs \/ j = l
      /\ \A j \in DOMAIN immWALs : ~(l < j)
      /\ ~(l < l)
  BY <1>0, QueueGrows
<1>2. \A i \in 1..core'.nextWalSstID - 1 : i = n \/ i \in 1..n - 1
  BY SMT
<1>3. \A i \in 1..core'.nextWalSstID - 1 :
        i \in DOMAIN walSST' \/ \E j \in DOMAIN immWALs' : immWALs'[j].id = i
  BY <1>1, <1>2 DEF InTurn
<1>4. \A j \in DOMAIN immWALs : immWALs[j].id < n
  BY QueueTypes DEF OpenWals
<1>5. ASSUME NEW i \in DOMAIN immWALs', NEW j \in DOMAIN immWALs', i < j
      PROVE  immWALs'[i].id < immWALs'[j].id
  <2>1. CASE j \in DOMAIN immWALs
    <3>1. i \in DOMAIN immWALs
      BY <1>1, <1>5, <2>1
    <3> QED
      BY <1>1, <1>5, <2>1, <3>1 DEF InTurn
  <2>2. CASE j = l
    <3>1. i \in DOMAIN immWALs
      BY <1>1, <1>5, <2>2
    <3> QED
      BY <1>1, <1>4, <2>2, <3>1
  <2> QED
    BY <1>1, <2>1, <2>2
<1> QED
  BY <1>3, <1>5

LEMMA FreezeWALStep ==
  ASSUME Inv, NEW t \in WalThreads, NEW last \in BOOLEAN, FreezeWAL(t, last)
  PROVE  Inv'
<1>0. TypeInv /\ RefInv /\ WalInv /\ QueueInv /\ FrozenInv
  BY DEF Inv
<1> DEFINE x == [id |-> core.nextWalSstID, tab |-> wal]
           frozen == IF Size(wal) = 0 THEN immWALs ELSE Append(immWALs, x)
           r == OldestImmWAL([w[t] EXCEPT !.final = last], frozen)
<1>1. /\ status = "open" /\ w[t].pc = "idle"
      /\ immWALs' = frozen
      /\ w' = [w EXCEPT ![t] = OldestImmWAL([@ EXCEPT !.final = last], frozen)]
      /\ NoteOverlap
      /\ wal' = EmptyTable
      /\ core' = IF Size(wal) = 0 THEN core ELSE [core EXCEPT !.nextWalSstID = @ + 1]
      /\ UNCHANGED <<walSST, ssts, manifest, status, kvt, memtable, immMemtables, replayed, m,
                     stored, ch, shutdown, closing, issued, log, acked, notified, mark,
                     flushFailed, opens>>
  BY DEF FreezeWAL, storeVars
<1>2. /\ core \in ValidCore /\ immWALs \in Seq(ImmWAL) /\ wal \in Table
      /\ core.nextWalSstID \in Nat /\ w[t] \in WGoroutine /\ OpenWals
  BY <1>0, <1>1, CoreFields DEF TypeInv, ValidCore, WalInv
<1>3. x \in ImmWAL /\ x.id = core.nextWalSstID
  BY <1>2 DEF ImmWAL
<1>4. w' = [w EXCEPT ![t] = r]
  BY <1>0, <1>1 DEF TypeInv
<1>5. \/ immWALs' = immWALs /\ core' = core
      \/ immWALs' = Append(immWALs, x) /\ core' = [core EXCEPT !.nextWalSstID = @ + 1]
  BY <1>1
<1>6. immWALs' \in Seq(ImmWAL)
  BY <1>2, <1>3, <1>5, QueueGrows
<1>7. /\ r \in WGoroutine
      /\ \/ r.pc \in {"idle", "done"} /\ r.pc \notin Busy
         \/ r.pc = "upload" /\ immWALs' # <<>> /\ r.imm = Head(immWALs')
  <2>1. [w[t] EXCEPT !.final = last] \in WGoroutine
    BY <1>2, SMT DEF WGoroutine
  <2>2. frozen \in Seq(ImmWAL) /\ immWALs' = frozen
    BY <1>1, <1>6
  <2> HIDE DEF frozen
  <2>3. /\ r \in WGoroutine
        /\ \/ r.pc \in {"idle", "done"} /\ r.pc \notin Busy
           \/ r.pc = "upload" /\ frozen # <<>> /\ r.imm = Head(frozen)
    BY <2>1, <2>2, OldestIs
  <2> QED
    BY <2>2, <2>3
<1> HIDE DEF r, x, frozen
<1>8. /\ core' \in ValidCore /\ core'.lastCompactedWalSSTID = core.lastCompactedWalSSTID
      /\ \/ immWALs' = immWALs /\ core' = core
         \/ immWALs' = Append(immWALs, x) /\ core'.nextWalSstID = core.nextWalSstID + 1
      /\ 0 < core.nextWalSstID
  BY <1>2, <1>5, BumpNext
<1>9. w' \in [WalThreads -> WGoroutine] /\ overlapped' \in BOOLEAN /\ wal' \in Table
  BY <1>0, <1>1, <1>4, <1>7, WChange, TablesType DEF TypeInv, NoteOverlap
<1>10. TypeInv'
  BY <1>0, <1>1, <1>6, <1>8, <1>9 DEF TypeInv
<1>11. /\ r.pc \in {"idle", "done", "upload"} /\ r.pc # "apply" /\ w[t].pc # "send"
       /\ immWALs # <<>> => immWALs' # <<>> /\ Head(immWALs') = Head(immWALs)
       /\ \A j \in DOMAIN immWALs' : immWALs'[j] \in Wals \cup {x}
  <2>1. r.pc \in {"idle", "done", "upload"} /\ r.pc # "apply" /\ w[t].pc # "send"
    BY <1>1, <1>7
  <2>2. immWALs # <<>> => immWALs' # <<>> /\ Head(immWALs') = Head(immWALs)
    BY <1>2, <1>3, <1>5, QueueGrows
  <2>3. CASE immWALs' = immWALs
    BY <1>0, <2>1, <2>2, <2>3, QueueTypes
  <2>4. CASE immWALs' = Append(immWALs, x)
    <3>1. \A j \in DOMAIN immWALs' :
            \/ j \in DOMAIN immWALs /\ immWALs'[j] = immWALs[j]
            \/ immWALs'[j] = x
      BY <1>2, <1>3, <2>4, QueueGrows
    <3> QED
      BY <1>0, <2>1, <2>2, <3>1, QueueTypes
  <2> QED
    BY <1>5, <2>3, <2>4
<1>12. RefInv'
  BY <1>0, <1>1, <1>4, <1>7, <1>11, RefWalSide
<1>13. WalInv'
  <2>1. r.pc \in Busy => r.imm \in {immWALs'[j] : j \in DOMAIN immWALs'}
    <3>1. ASSUME immWALs' # <<>> PROVE 1 \in DOMAIN immWALs' /\ Head(immWALs') = immWALs'[1]
      BY <1>6, <3>1, SMT
    <3> QED
      BY <1>7, <3>1
  <2>2. w'[t] = r /\ \A u \in WalThreads : u # t => w'[u] = w[u]
    BY <1>0, <1>4, <1>7, WChange DEF TypeInv
  <2>3. \A u \in WalThreads : w'[u].pc \in Busy => w'[u].imm \in Wals \cup {x}
    <3>1. r.pc \in Busy => r.imm \in Wals \cup {x}
      BY <1>11, <2>1
    <3>2. \A u \in WalThreads : w[u].pc \in Busy => w[u].imm \in Wals
      BY DEF Wals
    <3> QED
      BY <2>2, <3>1, <3>2
  <2>4. Wals' \subseteq Wals \cup {x}
    BY <1>11, <2>3 DEF Wals
  <2>5. CASE immWALs' = immWALs /\ core' = core
    <3>1. r.pc \in Busy => r.imm \in Wals
      BY <1>0, <2>1, <2>5, QueueTypes
    <3>2. Wals' \subseteq Wals
      BY <1>0, <1>4, <1>7, <2>5, <3>1, QueueTypes, WalsShrink
    <3> QED
      BY <1>0, <1>1, <2>5, <3>2, WalFrame
  <2>6. CASE core'.nextWalSstID = core.nextWalSstID + 1
    <3>1. \A y \in Wals : y.id \in Nat
      BY <1>0, QueueTypes, HandTypes DEF Wals, ImmWAL
    <3>2. DOMAIN walSST \subseteq Nat
      BY <1>0 DEF TypeInv
    <3>3. OpenWals'
      BY <1>1, <1>2, <1>3, <1>8, <2>4, <2>6, <3>1, <3>2, FreezeOpenWals
    <3> QED
      BY <1>0, <1>1, <3>3 DEF WalInv
  <2> QED
    BY <1>8, <2>5, <2>6
<1>14. QueueInv'
  <2> SUFFICES ASSUME ~overlapped' PROVE NoGaps' /\ LastsSeen' /\ HandsSeen' /\ InTurn'
    BY DEF QueueInv
  <2>1. NoGaps /\ LastsSeen /\ HandsSeen /\ InTurn
    BY <1>0, <1>1, NoOverlap DEF QueueInv
  <2>2. NoGaps' /\ LastsSeen'
    BY <1>1, <1>8, <2>1, LatestSame DEF NoGaps, LastsSeen, Seen
  <2>3. HandsSeen'
    BY <1>0, <1>1, <1>4, <1>7, <1>11, <2>1, HandsNext
  <2>4. /\ \A i \in 1..core'.nextWalSstID - 1 :
             i \in DOMAIN walSST' \/ \E j \in DOMAIN immWALs' : immWALs'[j].id = i
        /\ \A i, j \in DOMAIN immWALs' : i < j => immWALs'[i].id < immWALs'[j].id
    <3>1. CASE immWALs' = immWALs /\ core' = core
      BY <1>1, <2>1, <3>1 DEF InTurn
    <3>2. CASE immWALs' = Append(immWALs, x) /\ core'.nextWalSstID = core.nextWalSstID + 1
      BY <1>0, <1>1, <1>2, <1>3, <2>1, <3>2, FreezeTurn
    <3> QED
      BY <1>8, <3>1, <3>2
  <2>5. InTurn'
    <3>1. \/ r.pc \in {"idle", "done"}
          \/ r.pc = "upload" /\ immWALs' # <<>> /\ r.imm = Head(immWALs')
      BY <1>7
    <3>2. r \in WGoroutine /\ NoteOverlap
      BY <1>1, <1>7
    <3> QED
      BY <1>0, <1>4, <1>11, <2>1, <2>4, <3>1, <3>2, TurnNext, ZenonT(60)
  <2> QED
    BY <2>2, <2>3, <2>5
<1>15. FrozenInv'
  BY <1>0, <1>1, <1>4, <1>7, <1>11, FrozenWalSide
<1> QED
  BY <1>10, <1>12, <1>13, <1>14, <1>15 DEF Inv

LEMMA WalPutStep ==
  ASSUME Inv, NEW k \in Keys, WalPut(k)
  PROVE  Inv'
<1>0. TypeInv /\ RefInv /\ WalInv /\ QueueInv /\ FrozenInv
  BY DEF Inv
<1>1. /\ status = "open" /\ issued' = issued + 1
      /\ wal' = [wal EXCEPT ![k] = issued + 1]
      /\ log' = Append(log, [key |-> k, num |-> issued + 1])
      /\ UNCHANGED <<walSST, ssts, manifest, status, immWALs, kvt, memtable, immMemtables, core,
                     replayed, w, m, stored, ch, shutdown, closing, acked, notified, mark,
                     flushFailed, overlapped, opens>>
  BY DEF WalPut, storeVars, taskVars
<1>2. issued' \in Nat /\ wal' \in Table /\ log' \in Seq([key : Keys, num : Nat])
  <2>1. wal \in Table /\ log \in Seq([key : Keys, num : Nat]) /\ issued \in Nat
    BY <1>0 DEF TypeInv
  <2>2. issued + 1 \in Nat
    BY <2>1, SMT
  <2>3. [key |-> k, num |-> issued + 1] \in [key : Keys, num : Nat]
    BY <2>2
  <2>4. log' \in Seq([key : Keys, num : Nat])
    BY <1>1, <2>1, <2>3, SMT
  <2> QED
    BY <1>1, <2>1, <2>2, <2>4 DEF Table
<1>3. TypeInv'
  BY <1>0, <1>1, <1>2 DEF TypeInv
<1>4. RefInv'
  BY <1>0, <1>1 DEF RefInv
<1>5. WalInv'
  BY <1>0, <1>1, WalsSame, WalFrame
<1>6. QueueInv'
  BY <1>0, <1>1, LastsFrame DEF QueueInv, NoGaps, HandsSeen, InTurn
<1>7. FrozenInv'
  BY <1>0, <1>1 DEF FrozenInv, Pending
<1> QED
  BY <1>3, <1>4, <1>5, <1>6, <1>7 DEF Inv

LEMMA WalStepInv ==
  ASSUME Inv, NEW t \in WalThreads, WalStep(t)
  PROVE  Inv'
<1>1. TRUE \in BOOLEAN /\ FALSE \in BOOLEAN
  OBVIOUS
<1> QED
  BY <1>1, FreezeWALStep, FlushImmWALStep, FlushImmWALFailsStep, PopImmWALStep,
     FlushImmWALToMemtableStep, CheckMemtableSizeStep, MaybeFreezeMemtableStep, SendFlushStep,
     NotifyWALFlushedStep DEF WalStep

-----------------------------------------------------------------------------
(* MemtableFlusher *)

(* A step of a flusher: what it may do to the memtables and the levels. *)
LEMMA MemSide ==
  ASSUME Inv, status = "open", status' = "open", NEW t \in MemThreads,
         NEW r \in MGoroutine(ValidManifest), m' = [m EXCEPT ![t] = r],
         UNCHANGED <<walSST, immWALs, w, replayed, overlapped>>,
         core'.nextWalSstID = core.nextWalSstID,
         DOMAIN kvt \subseteq DOMAIN kvt', memtable'.tab \in DOMAIN kvt',
         \A i \in DOMAIN immMemtables' : immMemtables'[i].tab \in DOMAIN kvt',
         r.pc = "upload" => r.imm.tab \in DOMAIN kvt',
         ~overlapped =>
           /\ Seen(Latest'.core.lastCompactedWalSSTID) /\ Seen(core'.lastCompactedWalSSTID)
           /\ Seen(memtable'.last)
           /\ \A i \in DOMAIN immMemtables' : Seen(immMemtables'[i].last)
           /\ Seen(r.imm.last) /\ Seen(r.man.core.lastCompactedWalSSTID),
         r.pc \in {"idle", "done"} => r.why # "flush",
         immMemtables' # <<>> /\ ~flushFailed' => Pending'
  PROVE  RefInv' /\ WalInv' /\ QueueInv' /\ FrozenInv'
<1>0. TypeInv /\ RefInv /\ WalInv /\ QueueInv /\ FrozenInv
  BY DEF Inv
<1>1. m'[t] = r /\ \A u \in MemThreads : u # t => m'[u] = m[u]
  BY <1>0, MChange DEF TypeInv
<1>2. RefInv'
  <2>1. \A u \in MemThreads : m'[u].pc = "upload" => m'[u].imm.tab \in DOMAIN kvt'
    BY <1>0, <1>1 DEF RefInv
  <2>2. \A u \in WalThreads : w'[u].pc = "apply" => w'[u].tab \in DOMAIN kvt'
    BY <1>0 DEF RefInv
  <2> QED
    BY <2>1, <2>2 DEF RefInv
<1>3. WalInv'
  BY <1>0, WalsSame, WalFrame
<1>4. QueueInv'
  <2> SUFFICES ASSUME ~overlapped PROVE NoGaps' /\ LastsSeen' /\ HandsSeen' /\ InTurn'
    BY DEF QueueInv
  <2>1. NoGaps /\ LastsSeen /\ HandsSeen /\ InTurn
    BY <1>0 DEF QueueInv
  <2>2. NoGaps' /\ HandsSeen' /\ InTurn'
    BY <2>1 DEF NoGaps, HandsSeen, InTurn
  <2>3. \A u \in MemThreads : Seen(m'[u].imm.last) /\ Seen(m'[u].man.core.lastCompactedWalSSTID)
    BY <1>1, <2>1 DEF LastsSeen
  <2>4. LastsSeen'
    BY <2>1, <2>3 DEF LastsSeen, Seen
  <2> QED
    BY <2>2, <2>4
<1>5. FrozenInv'
  BY <1>0, <1>1 DEF FrozenInv
<1> QED
  BY <1>2, <1>3, <1>4, <1>5

(* Pending survives the step of a flusher that goes on. *)
LEMMA PendingKept ==
  ASSUME TypeInv, Pending, UNCHANGED <<w, ch>>, NEW t \in MemThreads,
         NEW r \in MGoroutine(ValidManifest), m' = [m EXCEPT ![t] = r],
         m[t].why = "flush" => r.why = "flush"
  PROVE  Pending'
<1>1. m'[t] = r /\ \A u \in MemThreads : u # t => m'[u] = m[u]
  BY MChange DEF TypeInv
<1>2. \A u \in MemThreads : m[u].why = "flush" => m'[u].why = "flush"
  BY <1>1
<1> QED
  BY <1>2 DEF Pending

(* What the state before a flusher's step says. *)
LEMMA MemNow ==
  ASSUME Inv, status = "open", NEW t \in MemThreads
  PROVE  /\ memtable.tab \in DOMAIN kvt
         /\ \A i \in DOMAIN immMemtables : immMemtables[i].tab \in DOMAIN kvt
         /\ m[t].pc = "upload" => m[t].imm.tab \in DOMAIN kvt
         /\ ~overlapped =>
              /\ Seen(Latest.core.lastCompactedWalSSTID) /\ Seen(core.lastCompactedWalSSTID)
              /\ Seen(memtable.last)
              /\ \A i \in DOMAIN immMemtables : Seen(immMemtables[i].last)
              /\ Seen(m[t].imm.last) /\ Seen(m[t].man.core.lastCompactedWalSSTID)
         /\ m[t].pc \in {"idle", "done"} => m[t].why # "flush"
         /\ immMemtables # <<>> /\ ~flushFailed => Pending
BY DEF Inv, RefInv, QueueInv, LastsSeen, FrozenInv

(* The same when the step leaves the memtables, the levels and the          *)
(* manifests alone.                                                         *)
LEMMA MemMove ==
  ASSUME Inv, status = "open", NEW t \in MemThreads,
         NEW r \in MGoroutine(ValidManifest), m' = [m EXCEPT ![t] = r],
         UNCHANGED <<walSST, manifest, status, immWALs, kvt, memtable, immMemtables, core,
                     replayed, w, ch, overlapped>>,
         r.pc = "upload" => r.imm.tab \in DOMAIN kvt,
         ~overlapped => Seen(r.imm.last) /\ Seen(r.man.core.lastCompactedWalSSTID),
         r.pc \in {"idle", "done"} => r.why # "flush",
         ~flushFailed' => ~flushFailed,
         m[t].why = "flush" => r.why = "flush" \/ flushFailed' \/ immMemtables = <<>>
  PROVE  RefInv' /\ WalInv' /\ QueueInv' /\ FrozenInv'
<1>0. TypeInv /\ Latest' = Latest
  BY LatestSame DEF Inv
<1>1. immMemtables' # <<>> /\ ~flushFailed' => Pending'
  BY <1>0, MemNow, PendingKept
<1>2. ~overlapped =>
        /\ Seen(Latest'.core.lastCompactedWalSSTID) /\ Seen(core'.lastCompactedWalSSTID)
        /\ Seen(memtable'.last)
        /\ \A i \in DOMAIN immMemtables' : Seen(immMemtables'[i].last)
        /\ Seen(r.imm.last) /\ Seen(r.man.core.lastCompactedWalSSTID)
  BY <1>0, MemNow
<1>3. /\ DOMAIN kvt \subseteq DOMAIN kvt' /\ memtable'.tab \in DOMAIN kvt'
      /\ \A i \in DOMAIN immMemtables' : immMemtables'[i].tab \in DOMAIN kvt'
      /\ r.pc = "upload" => r.imm.tab \in DOMAIN kvt'
  BY MemNow
<1> QED
  BY <1>1, <1>2, <1>3, MemSide, ZenonT(60)

(* The task turns to the manifest: a tick, or its end. *)
LEMMA TaskToManifest ==
  ASSUME Inv, status = "open", NEW t \in MemThreads, m[t].pc = "idle",
         NEW why \in {"poll", "final"},
         m' = [m EXCEPT ![t].pc = "load", ![t].why = why],
         UNCHANGED <<storeVars, status, stateVars, replayed, w, stored, ch, shutdown, closing,
                     histVars>>
  PROVE  Inv'
<1>0. TypeInv
  BY DEF Inv
<1>1. UNCHANGED <<walSST, ssts, manifest, status, wal, immWALs, kvt, memtable, immMemtables, core,
                  replayed, w, stored, ch, shutdown, closing, issued, log, acked, notified, mark,
                  flushFailed, overlapped, opens>>
  BY DEF storeVars, stateVars, histVars
<1>2. "load" \in MemPc /\ why # "flush"
  BY DEF MemPc
<1> DEFINE r == [m[t] EXCEPT !.pc = "load", !.why = why]
<1>3. /\ r \in MGoroutine(ValidManifest)
      /\ m' = [m EXCEPT ![t] = r]
      /\ r.pc = "load" /\ r.why = why /\ r.imm = m[t].imm /\ r.man = m[t].man
  <2>1. m[t] \in MGoroutine(ValidManifest)
    BY <1>0, MemTypes
  <2>2. m' = [m EXCEPT ![t] = r]
    BY <2>1
  <2> QED
    BY <1>2, <2>1, <2>2 DEF MGoroutine
<1> HIDE DEF r
<1>4. m' \in [MemThreads -> MGoroutine(ValidManifest)]
  BY <1>0, <1>3, MChange DEF TypeInv
<1>5. TypeInv'
  BY <1>0, <1>1, <1>4 DEF TypeInv
<1>6. r.pc # "upload" /\ r.pc \notin {"idle", "done"} /\ m[t].why # "flush"
  BY <1>0, <1>3, MemNow
<1>7. ~overlapped => Seen(r.imm.last) /\ Seen(r.man.core.lastCompactedWalSSTID)
  BY <1>0, <1>3, MemNow
<1>8. RefInv' /\ WalInv' /\ QueueInv' /\ FrozenInv'
  BY <1>0, <1>1, <1>3, <1>6, <1>7, MemMove
<1> QED
  BY <1>5, <1>8 DEF Inv

LEMMA PollManifestStep ==
  ASSUME Inv, PollManifest
  PROVE  Inv'
<1>1. "poll" \in {"poll", "final"} /\ MemTask \in MemThreads
  BY DEF MemThreads
<1> QED
  BY <1>1, TaskToManifest DEF PollManifest

LEMMA MemTaskExitStep ==
  ASSUME Inv, MemTaskExit
  PROVE  Inv'
<1>1. "final" \in {"poll", "final"} /\ MemTask \in MemThreads
  BY DEF MemThreads
<1> QED
  BY <1>1, TaskToManifest DEF MemTaskExit

(* FlushMemtableToL0: the id that is read is that of a WAL stored. *)
LEMMA FlushMemtableToL0Step ==
  ASSUME Inv, NEW t \in MemThreads, FlushMemtableToL0(t)
  PROVE  Inv'
<1>0. TypeInv
  BY DEF Inv
<1>1. /\ status = "open" /\ m[t].pc = "idle"
      /\ m' = [m EXCEPT ![t].pc = "freeze", ![t].why = "flush", ![t].imm.last = memtable.last]
      /\ UNCHANGED <<walSST, ssts, manifest, status, wal, immWALs, kvt, memtable, immMemtables,
                     core, replayed, w, stored, ch, shutdown, closing, issued, log, acked,
                     notified, mark, flushFailed, overlapped, opens>>
  BY DEF FlushMemtableToL0, storeVars, stateVars, histVars
<1> DEFINE imm == [m[t].imm EXCEPT !.last = memtable.last]
           r == [m[t] EXCEPT !.pc = "freeze", !.why = "flush", !.imm = imm]
<1>2. /\ m[t] \in MGoroutine(ValidManifest) /\ m[t].imm \in MemRef /\ memtable.last \in Nat
      /\ "freeze" \in MemPc
  BY <1>0, MemTypes DEF TypeInv, MemRef, MemPc
<1>3. imm \in MemRef /\ imm.last = memtable.last
  BY <1>2, SMTT(30) DEF MemRef
<1>4. m' = [m EXCEPT ![t] = r]
  BY <1>1, <1>2, ZenonT(60)
<1> HIDE DEF imm
<1>5. /\ r \in MGoroutine(ValidManifest) /\ r.pc = "freeze" /\ r.why = "flush" /\ r.imm = imm
      /\ r.man = m[t].man
  BY <1>2, <1>3 DEF MGoroutine
<1> HIDE DEF r
<1>6. m' \in [MemThreads -> MGoroutine(ValidManifest)]
  BY <1>0, <1>4, <1>5, MChange DEF TypeInv
<1>7. TypeInv'
  BY <1>0, <1>1, <1>6 DEF TypeInv
<1>8. r.pc # "upload" /\ r.pc \notin {"idle", "done"}
  BY <1>5
<1>9. ~overlapped => Seen(r.imm.last) /\ Seen(r.man.core.lastCompactedWalSSTID)
  BY <1>1, <1>3, <1>5, MemNow
<1>10. RefInv' /\ WalInv' /\ QueueInv' /\ FrozenInv'
  BY <1>1, <1>4, <1>5, <1>8, <1>9, MemMove
<1> QED
  BY <1>7, <1>10 DEF Inv

LEMMA NothingSeen ==
  Seen(0) /\ Seen(NoMem.last) /\ Seen(NoManifest.core.lastCompactedWalSSTID)
BY DEF Seen, NoMem, NoManifest, NewCoreDBState

LEMMA ReceiveMsgStep ==
  ASSUME Inv, ReceiveMsg
  PROVE  Inv'
<1>0. TypeInv /\ RefInv /\ WalInv /\ QueueInv /\ FrozenInv
  BY DEF Inv
<1>1. /\ status = "open" /\ m[MemTask].pc = "idle" /\ ch # <<>> /\ ch' = Tail(ch)
      /\ UNCHANGED <<walSST, ssts, manifest, status, wal, immWALs, kvt, memtable, immMemtables,
                     core, replayed, w, stored, closing, issued, log, acked, notified, mark,
                     overlapped, opens>>
  BY DEF ReceiveMsg, storeVars, stateVars
<1>2. /\ ch' \in Seq({"flush", "shutdown"})
      /\ Head(ch) = "shutdown" /\ (\E i \in DOMAIN ch : ch[i] = "flush")
           => \E i \in DOMAIN ch' : ch'[i] = "flush"
  BY <1>0, <1>1, ChTail DEF TypeInv
<1>3. CASE Head(ch) = "shutdown" /\ shutdown' = TRUE /\ UNCHANGED <<m, flushFailed>>
  <2>1. TypeInv'
    BY <1>0, <1>1, <1>2, <1>3 DEF TypeInv
  <2>2. RefInv'
    BY <1>0, <1>1, <1>3 DEF RefInv
  <2>3. WalInv'
    BY <1>0, <1>1, WalsSame, WalFrame
  <2>4. QueueInv'
    BY <1>0, <1>1, <1>3, LastsFrame DEF QueueInv, NoGaps, HandsSeen, InTurn
  <2>5. Pending => Pending'
    BY <1>1, <1>2, <1>3 DEF Pending
  <2>6. FrozenInv'
    BY <1>0, <1>1, <1>3, <2>5 DEF FrozenInv
  <2> QED
    BY <2>1, <2>2, <2>3, <2>4, <2>6 DEF Inv
<1>4. CASE /\ m' = [m EXCEPT ![MemTask] = OldestImmMemtable(immMemtables)]
           /\ flushFailed' = FALSE
           /\ UNCHANGED shutdown
  <2>1. immMemtables \in Seq(MemRef) /\ MemTask \in MemThreads /\ Latest' = Latest
    BY <1>0, <1>1, LatestSame DEF TypeInv, MemThreads
  <2>2. PICK t \in MemThreads : t = MemTask
    BY <2>1
  <2>3. PICK r : r = OldestImmMemtable(immMemtables)
    OBVIOUS
  <2>4. /\ r \in MGoroutine(ValidManifest) /\ r.man = NoManifest
        /\ \/ immMemtables = <<>> /\ r.pc = "idle" /\ r.why = "poll" /\ r.imm = NoMem
           \/ /\ immMemtables # <<>> /\ r.pc = "upload" /\ r.why = "flush"
              /\ 1 \in DOMAIN immMemtables /\ r.imm = immMemtables[1]
    BY <2>1, <2>3, OldestMemIs
  <2>5. m' = [m EXCEPT ![t] = r]
    BY <1>4, <2>2, <2>3
  <2>6. m' \in [MemThreads -> MGoroutine(ValidManifest)] /\ m'[t] = r
    BY <1>0, <2>2, <2>4, <2>5, MChange DEF TypeInv
  <2>7. TypeInv'
    BY <1>0, <1>1, <1>2, <1>4, <2>6 DEF TypeInv
  <2>8. immMemtables' # <<>> => Pending'
    <3>1. immMemtables' # <<>> => m'[t].why = "flush"
      BY <1>1, <2>4, <2>6
    <3> QED
      BY <2>2, <3>1 DEF Pending
  <2>9. ~overlapped => Seen(r.imm.last) /\ Seen(r.man.core.lastCompactedWalSSTID)
    BY <1>1, <2>2, <2>4, MemNow, NothingSeen
  <2>10. /\ r.pc = "upload" => r.imm.tab \in DOMAIN kvt'
         /\ r.pc \in {"idle", "done"} => r.why # "flush"
    BY <1>1, <2>2, <2>4, MemNow
  <2>11. ~overlapped =>
           /\ Seen(Latest'.core.lastCompactedWalSSTID) /\ Seen(core'.lastCompactedWalSSTID)
           /\ Seen(memtable'.last)
           /\ \A i \in DOMAIN immMemtables' : Seen(immMemtables'[i].last)
           /\ Seen(r.imm.last) /\ Seen(r.man.core.lastCompactedWalSSTID)
    BY <1>1, <2>1, <2>2, <2>9, MemNow
  <2>12. /\ DOMAIN kvt \subseteq DOMAIN kvt' /\ memtable'.tab \in DOMAIN kvt'
         /\ \A i \in DOMAIN immMemtables' : immMemtables'[i].tab \in DOMAIN kvt'
    BY <1>1, <2>2, MemNow
  <2>13. RefInv' /\ WalInv' /\ QueueInv' /\ FrozenInv'
    BY <1>1, <2>2, <2>4, <2>5, <2>8, <2>10, <2>11, <2>12, MemSide, ZenonT(60)
  <2> QED
    BY <2>7, <2>13 DEF Inv
<1> QED
  BY <1>3, <1>4 DEF ReceiveMsg

LEMMA FlushMemtableFreezesStep ==
  ASSUME Inv, NEW t \in MemThreads, FlushMemtableFreezes(t)
  PROVE  Inv'
<1>0. TypeInv /\ RefInv /\ WalInv /\ QueueInv /\ FrozenInv
  BY DEF Inv
<1>1. /\ status = "open" /\ m[t].pc = "freeze"
      /\ FreezeMemtable(kvt, m[t].imm.last)
      /\ m' = [m EXCEPT ![t] = OldestImmMemtable(immMemtables')]
      /\ flushFailed' = FALSE
      /\ UNCHANGED <<walSST, ssts, manifest, status, wal, immWALs, core, replayed, w, stored, ch,
                     shutdown, closing, issued, log, acked, notified, mark, overlapped, opens>>
  BY DEF FlushMemtableFreezes, storeVars
<1>2. m[t].imm.last \in Nat /\ kvt \in Seq(Table) /\ Latest' = Latest
  BY <1>0, <1>1, MemTypes, LatestSame DEF TypeInv
<1>3. /\ kvt' \in Seq(Table) /\ immMemtables' \in Seq(MemRef) /\ memtable' \in MemRef
      /\ DOMAIN kvt \subseteq DOMAIN kvt' /\ memtable'.tab \in DOMAIN kvt'
      /\ memtable'.last = 0 /\ immMemtables' # <<>>
      /\ \A i \in DOMAIN immMemtables' :
           \/ i \in DOMAIN immMemtables /\ immMemtables'[i] = immMemtables[i]
           \/ immMemtables'[i].tab = memtable.tab /\ immMemtables'[i].last = m[t].imm.last
      /\ \A i \in DOMAIN immMemtables' : immMemtables'[i].tab \in DOMAIN kvt'
  BY <1>0, <1>1, <1>2, FreezeIs
<1>4. PICK r : r = OldestImmMemtable(immMemtables')
  OBVIOUS
<1>5. /\ r \in MGoroutine(ValidManifest) /\ r.man = NoManifest
      /\ r.pc = "upload" /\ r.why = "flush"
      /\ 1 \in DOMAIN immMemtables' /\ r.imm = immMemtables'[1]
  BY <1>3, <1>4, OldestMemIs
<1>6. m' = [m EXCEPT ![t] = r]
  BY <1>1, <1>4
<1>7. m' \in [MemThreads -> MGoroutine(ValidManifest)] /\ m'[t] = r
  BY <1>0, <1>5, <1>6, MChange DEF TypeInv
<1>8. TypeInv'
  BY <1>0, <1>1, <1>3, <1>7 DEF TypeInv
<1>9. Pending'
  BY <1>5, <1>7 DEF Pending
<1>10. ~overlapped =>
         /\ Seen(Latest'.core.lastCompactedWalSSTID) /\ Seen(core'.lastCompactedWalSSTID)
         /\ Seen(memtable'.last)
         /\ \A i \in DOMAIN immMemtables' : Seen(immMemtables'[i].last)
         /\ Seen(r.imm.last) /\ Seen(r.man.core.lastCompactedWalSSTID)
  <2> SUFFICES ASSUME ~overlapped
               PROVE  /\ Seen(Latest'.core.lastCompactedWalSSTID)
                      /\ Seen(core'.lastCompactedWalSSTID)
                      /\ Seen(memtable'.last)
                      /\ \A i \in DOMAIN immMemtables' : Seen(immMemtables'[i].last)
                      /\ Seen(r.imm.last) /\ Seen(r.man.core.lastCompactedWalSSTID)
    OBVIOUS
  <2>1. \A i \in DOMAIN immMemtables' : Seen(immMemtables'[i].last)
    BY <1>1, <1>3, MemNow
  <2> QED
    BY <1>1, <1>2, <1>3, <1>5, <2>1, MemNow, NothingSeen
<1>11. r.pc = "upload" => r.imm.tab \in DOMAIN kvt'
  BY <1>3, <1>5
<1>12. r.pc \notin {"idle", "done"}
  BY <1>5
<1>13. RefInv' /\ WalInv' /\ QueueInv' /\ FrozenInv'
  BY <1>1, <1>3, <1>5, <1>6, <1>9, <1>10, <1>11, <1>12, MemSide, ZenonT(60)
<1> QED
  BY <1>8, <1>13 DEF Inv

LEMMA FlushImmMemtableStep ==
  ASSUME Inv, NEW t \in MemThreads, FlushImmMemtable(t)
  PROVE  Inv'
<1>0. TypeInv /\ RefInv
  BY DEF Inv
<1>1. /\ status = "open" /\ m[t].pc = "upload"
      /\ ssts' = Append(ssts, kvt[m[t].imm.tab])
      /\ m' = [m EXCEPT ![t].pc = "move", ![t].sst = Len(ssts) + 1]
      /\ UNCHANGED <<walSST, manifest, status, wal, immWALs, kvt, memtable, immMemtables, core,
                     replayed, w, stored, ch, shutdown, closing, issued, log, acked, notified,
                     mark, flushFailed, overlapped, opens>>
  BY DEF FlushImmMemtable, stateVars, histVars
<1>2. /\ m[t] \in MGoroutine(ValidManifest) /\ ssts \in Seq(Table) /\ kvt \in Seq(Table)
      /\ m[t].imm.tab \in DOMAIN kvt /\ "move" \in MemPc
  BY <1>0, <1>1, MemTypes DEF TypeInv, RefInv, MemPc
<1>3. ssts' \in Seq(Table) /\ Len(ssts) + 1 \in Nat
  BY <1>1, <1>2, SMTT(30)
<1> DEFINE r == [m[t] EXCEPT !.pc = "move", !.sst = Len(ssts) + 1]
<1>4. m' = [m EXCEPT ![t] = r]
  BY <1>1, <1>2
<1>5. /\ r \in MGoroutine(ValidManifest) /\ r.pc = "move" /\ r.why = m[t].why /\ r.imm = m[t].imm
      /\ r.man = m[t].man
  BY <1>2, <1>3, ZenonT(60) DEF MGoroutine
<1> HIDE DEF r
<1>6. m' \in [MemThreads -> MGoroutine(ValidManifest)]
  BY <1>0, <1>4, <1>5, MChange DEF TypeInv
<1>7. TypeInv'
  BY <1>0, <1>1, <1>3, <1>6 DEF TypeInv
<1>8. r.pc # "upload" /\ r.pc \notin {"idle", "done"}
  BY <1>5
<1>9. ~overlapped => Seen(r.imm.last) /\ Seen(r.man.core.lastCompactedWalSSTID)
  BY <1>1, <1>5, MemNow
<1>10. RefInv' /\ WalInv' /\ QueueInv' /\ FrozenInv'
  BY <1>1, <1>4, <1>5, <1>8, <1>9, MemMove
<1> QED
  BY <1>7, <1>10 DEF Inv

LEMMA FlushFailsStep ==
  ASSUME Inv, NEW t \in MemThreads, FlushFails(t)
  PROVE  Inv'
<1>0. TypeInv
  BY DEF Inv
<1>1. /\ status = "open"
      /\ m' = [m EXCEPT ![t] = MReturned(@)]
      /\ flushFailed' = (flushFailed \/ m[t].why = "flush")
      /\ UNCHANGED <<walSST, ssts, manifest, status, wal, immWALs, kvt, memtable, immMemtables,
                     core, replayed, w, stored, ch, shutdown, closing, issued, log, acked,
                     notified, mark, overlapped, opens>>
  BY DEF FlushFails, MFails, storeVars, stateVars
<1>2. PICK r : r = MReturned(m[t])
  OBVIOUS
<1>3. /\ r \in MGoroutine(ValidManifest) /\ r.pc \in {"idle", "done"} /\ r.why = "poll"
      /\ r.imm = NoMem /\ r.man = NoManifest
  BY <1>2, MReturnedIs
<1>4. m' = [m EXCEPT ![t] = r]
  BY <1>1, <1>2
<1>5. m' \in [MemThreads -> MGoroutine(ValidManifest)] /\ flushFailed' \in BOOLEAN
  BY <1>0, <1>1, <1>3, <1>4, MChange DEF TypeInv
<1>6. TypeInv'
  BY <1>0, <1>1, <1>5 DEF TypeInv
<1>7. r.pc # "upload" /\ r.why # "flush"
  BY <1>3
<1>8. Seen(r.imm.last) /\ Seen(r.man.core.lastCompactedWalSSTID)
  BY <1>3, NothingSeen
<1>9. (~flushFailed' => ~flushFailed) /\ (m[t].why = "flush" => flushFailed')
  BY <1>1
<1>10. RefInv' /\ WalInv' /\ QueueInv' /\ FrozenInv'
  BY <1>1, <1>3, <1>4, <1>7, <1>8, <1>9, MemMove
<1> QED
  BY <1>6, <1>10 DEF Inv

LEMMA MoveImmMemtableToL0Step ==
  ASSUME Inv, NEW t \in MemThreads, MoveImmMemtableToL0(t)
  PROVE  Inv'
<1>0. TypeInv /\ RefInv
  BY DEF Inv
<1>1. status = "open" /\ m[t].pc = "move"
  BY DEF MoveImmMemtableToL0
<1>2. CASE Panic
  BY <1>1, <1>2, PanicStep
<1>3. CASE /\ immMemtables # <<>>
           /\ immMemtables' = Tail(immMemtables)
           /\ core' = [core EXCEPT !.l0 = <<m[t].sst>> \o @,
                                   !.lastCompactedWalSSTID = m[t].imm.last]
           /\ MGoto(t, "load")
           /\ UNCHANGED <<storeVars, status, wal, immWALs, kvt, memtable, replayed, w, stored,
                          ch, shutdown, closing, histVars>>
  <2>1. UNCHANGED <<walSST, ssts, manifest, status, wal, immWALs, kvt, memtable, replayed, w,
                    stored, ch, shutdown, closing, issued, log, acked, notified, mark,
                    flushFailed, overlapped, opens>>
    BY <1>3 DEF storeVars, histVars
  <2>2. /\ core \in ValidCore /\ m[t].sst \in Nat /\ m[t].imm.last \in Nat
        /\ immMemtables \in Seq(MemRef) /\ "load" \in MemPc /\ Latest' = Latest
    BY <1>0, <2>1, MemTypes, LatestSame DEF TypeInv, MemPc
  <2>3. /\ core' \in ValidCore /\ core'.nextWalSstID = core.nextWalSstID
        /\ core'.lastCompactedWalSSTID = m[t].imm.last
    <3>1. core \in CoreState /\ core.nextWalSstID > 0 /\ core.l0 \in Seq(Nat)
      BY <2>2, CoreFields DEF ValidCore
    <3>2. <<m[t].sst>> \o core.l0 \in Seq(Nat)
      BY <2>2, <3>1, SMTT(30)
    <3>3. /\ core' \in CoreState /\ core'.nextWalSstID = core.nextWalSstID
          /\ core'.lastCompactedWalSSTID = m[t].imm.last
      BY <1>3, <2>2, <3>1, <3>2 DEF CoreState
    <3> QED
      BY <3>1, <3>3 DEF ValidCore
  <2>4. /\ immMemtables' \in Seq(MemRef)
        /\ \A i \in DOMAIN immMemtables' :
             i + 1 \in DOMAIN immMemtables /\ immMemtables'[i] = immMemtables[i + 1]
    BY <1>3, <2>2, MemsTail
  <2>5. PICK r \in MGoroutine(ValidManifest) :
           /\ m' = [m EXCEPT ![t] = r]
           /\ r.pc = "load" /\ r.why = m[t].why /\ r.imm = m[t].imm /\ r.man = m[t].man
    BY <1>0, <1>3, <2>2, MGotoSide
  <2>6. m' \in [MemThreads -> MGoroutine(ValidManifest)]
    BY <1>0, <2>5, MChange DEF TypeInv
  <2>7. TypeInv'
    BY <1>0, <2>1, <2>3, <2>4, <2>6 DEF TypeInv
  <2>8. immMemtables' # <<>> /\ ~flushFailed' => Pending'
    BY <1>0, <1>1, <1>3, <2>1, <2>5, MemNow, PendingKept
  <2>9. ~overlapped =>
          /\ Seen(Latest'.core.lastCompactedWalSSTID) /\ Seen(core'.lastCompactedWalSSTID)
          /\ Seen(memtable'.last)
          /\ \A i \in DOMAIN immMemtables' : Seen(immMemtables'[i].last)
          /\ Seen(r.imm.last) /\ Seen(r.man.core.lastCompactedWalSSTID)
    BY <1>1, <2>1, <2>2, <2>3, <2>4, <2>5, MemNow
  <2>10. /\ DOMAIN kvt \subseteq DOMAIN kvt' /\ memtable'.tab \in DOMAIN kvt'
         /\ \A i \in DOMAIN immMemtables' : immMemtables'[i].tab \in DOMAIN kvt'
    BY <1>1, <2>1, <2>4, MemNow
  <2>11. r.pc # "upload" /\ r.pc \notin {"idle", "done"}
    BY <2>5
  <2>12. RefInv' /\ WalInv' /\ QueueInv' /\ FrozenInv'
    BY <1>1, <2>1, <2>3, <2>5, <2>8, <2>9, <2>10, <2>11, MemSide, ZenonT(60)
  <2> QED
    BY <2>7, <2>12 DEF Inv
<1> QED
  BY <1>2, <1>3 DEF MoveImmMemtableToL0

LEMMA LoadManifestStep ==
  ASSUME Inv, NEW t \in MemThreads, LoadManifest(t)
  PROVE  Inv'
<1>0. TypeInv /\ Latest \in ValidManifest
  BY LatestValid DEF Inv
<1>1. /\ status = "open" /\ m[t].pc = "load"
      /\ stored' = Latest
      /\ m' = [m EXCEPT ![t].pc = "merge", ![t].man = Latest]
      /\ UNCHANGED <<walSST, ssts, manifest, status, wal, immWALs, kvt, memtable, immMemtables,
                     core, replayed, w, ch, shutdown, closing, issued, log, acked, notified,
                     mark, flushFailed, overlapped, opens>>
  BY DEF LoadManifest, storeVars, stateVars, histVars
<1>2. m[t] \in MGoroutine(ValidManifest) /\ "merge" \in MemPc
  BY <1>0, MemTypes DEF MemPc
<1> DEFINE r == [m[t] EXCEPT !.pc = "merge", !.man = Latest]
<1>3. m' = [m EXCEPT ![t] = r]
  BY <1>1, <1>2
<1>4. /\ r \in MGoroutine(ValidManifest) /\ r.pc = "merge" /\ r.why = m[t].why /\ r.imm = m[t].imm
      /\ r.man = Latest
  BY <1>0, <1>2, ZenonT(60) DEF MGoroutine
<1> HIDE DEF r
<1>5. m' \in [MemThreads -> MGoroutine(ValidManifest)]
  BY <1>0, <1>3, <1>4, MChange DEF TypeInv
<1>6. TypeInv'
  BY <1>0, <1>1, <1>5 DEF TypeInv
<1>7. r.pc # "upload" /\ r.pc \notin {"idle", "done"}
  BY <1>4
<1>8. ~overlapped => Seen(r.imm.last) /\ Seen(r.man.core.lastCompactedWalSSTID)
  BY <1>1, <1>4, MemNow
<1>9. RefInv' /\ WalInv' /\ QueueInv' /\ FrozenInv'
  BY <1>1, <1>3, <1>4, <1>7, <1>8, MemMove
<1> QED
  BY <1>6, <1>9 DEF Inv

(* The merge changes the levels only. *)
LEMMA MergeManifestStep ==
  ASSUME Inv, LeastElement, NEW t \in MemThreads, MergeManifest(t)
  PROVE  Inv'
<1>0. TypeInv
  BY DEF Inv
<1>1. /\ status = "open" /\ m[t].pc = "merge"
      /\ core' = RefreshDBState(core, m[t].man.core)
      /\ UNCHANGED <<walSST, ssts, manifest, status, wal, immWALs, kvt, memtable, immMemtables,
                     replayed, w, stored, ch, shutdown, closing, issued, log, acked, notified,
                     mark, flushFailed, overlapped, opens>>
  BY DEF MergeManifest, storeVars, histVars
<1>2. /\ core \in ValidCore /\ m[t].man.core \in ValidCore
      /\ core \in CoreState /\ m[t].man.core \in CoreState /\ Latest' = Latest
  BY <1>0, <1>1, MemTypes, ValidManifestTypes, LatestSame DEF TypeInv, ValidCore
<1>3. /\ core' \in ValidCore /\ core'.nextWalSstID = core.nextWalSstID
      /\ core'.lastCompactedWalSSTID = core.lastCompactedWalSSTID
  BY <1>1, <1>2, MergeValid, Merge
<1>4. PICK r \in MGoroutine(ValidManifest) :
         /\ m' = [m EXCEPT ![t] = r]
         /\ r.pc # "upload" /\ (r.pc \in {"idle", "done"} => r.why # "flush")
         /\ m[t].why = "flush" => r.why = "flush"
         /\ r.imm \in {NoMem, m[t].imm} /\ r.man = NoManifest
  <2>1. CASE m[t].why = "poll" /\ m' = [m EXCEPT ![t] = MReturned(@)]
    <3>1. PICK r : r = MReturned(m[t])
      OBVIOUS
    <3>2. /\ r \in MGoroutine(ValidManifest) /\ r.pc \in {"idle", "done"} /\ r.why = "poll"
          /\ r.imm = NoMem /\ r.man = NoManifest
      BY <3>1, MReturnedIs
    <3>3. m' = [m EXCEPT ![t] = r]
      BY <2>1, <3>1
    <3>4. r.pc # "upload" /\ r.why # "flush" /\ m[t].why # "flush"
      BY <2>1, <3>2
    <3> QED
      BY <3>2, <3>3, <3>4
  <2>2. CASE m' = [m EXCEPT ![t].pc = "write", ![t].man = NoManifest]
    <3>1. m[t] \in MGoroutine(ValidManifest) /\ "write" \in MemPc /\ NoManifest \in ValidManifest
      BY <1>0, MemTypes, IdleTypes DEF MemPc
    <3> DEFINE r == [m[t] EXCEPT !.pc = "write", !.man = NoManifest]
    <3>2. m' = [m EXCEPT ![t] = r]
      BY <2>2, <3>1
    <3>3. /\ r \in MGoroutine(ValidManifest) /\ r.pc = "write" /\ r.why = m[t].why
          /\ r.imm = m[t].imm /\ r.man = NoManifest
      BY <3>1 DEF MGoroutine
    <3> HIDE DEF r
    <3>4. r.pc # "upload" /\ r.pc \notin {"idle", "done"}
      BY <3>3
    <3> QED
      BY <3>2, <3>3, <3>4
  <2> QED
    BY <2>1, <2>2 DEF MergeManifest
<1>5. m' \in [MemThreads -> MGoroutine(ValidManifest)]
  BY <1>0, <1>4, MChange DEF TypeInv
<1>6. TypeInv'
  BY <1>0, <1>1, <1>3, <1>5 DEF TypeInv
<1>7. immMemtables' # <<>> /\ ~flushFailed' => Pending'
  BY <1>0, <1>1, <1>4, MemNow, PendingKept
<1>8. ~overlapped => Seen(r.imm.last) /\ Seen(r.man.core.lastCompactedWalSSTID)
  BY <1>1, <1>4, MemNow, NothingSeen
<1>9. ~overlapped =>
        /\ Seen(Latest'.core.lastCompactedWalSSTID) /\ Seen(core'.lastCompactedWalSSTID)
        /\ Seen(memtable'.last)
        /\ \A i \in DOMAIN immMemtables' : Seen(immMemtables'[i].last)
        /\ Seen(r.imm.last) /\ Seen(r.man.core.lastCompactedWalSSTID)
  BY <1>1, <1>2, <1>3, <1>8, MemNow
<1>10. /\ DOMAIN kvt \subseteq DOMAIN kvt' /\ memtable'.tab \in DOMAIN kvt'
       /\ \A i \in DOMAIN immMemtables' : immMemtables'[i].tab \in DOMAIN kvt'
  BY <1>1, MemNow
<1>11. RefInv' /\ WalInv' /\ QueueInv' /\ FrozenInv'
  BY <1>1, <1>3, <1>4, <1>7, <1>9, <1>10, MemSide, ZenonT(60)
<1> QED
  BY <1>6, <1>11 DEF Inv

LEMMA WriteManifestStep ==
  ASSUME Inv, NEW t \in MemThreads, WriteManifest(t)
  PROVE  Inv'
<1>0. TypeInv
  BY DEF Inv
<1>1. /\ status = "open" /\ m[t].pc = "write"
      /\ UNCHANGED <<walSST, ssts, manifest, status, wal, immWALs, kvt, memtable, immMemtables,
                     core, replayed, w, stored, ch, shutdown, closing, issued, log, acked,
                     notified, mark, flushFailed, overlapped, opens>>
  BY DEF WriteManifest, storeVars, stateVars, histVars
<1>2. m[t] \in MGoroutine(ValidManifest) /\ "load" \in MemPc /\ "put" \in MemPc
  BY <1>0, MemTypes DEF MemPc
<1>3. PICK r \in MGoroutine(ValidManifest) :
         /\ m' = [m EXCEPT ![t] = r]
         /\ r.pc \in {"load", "put"} /\ r.why = m[t].why /\ r.imm = m[t].imm
         /\ \/ r.man = m[t].man
            \/ r.man.core = core
  <2>1. CASE MGoto(t, "load")
    <3>1. PICK r \in MGoroutine(ValidManifest) :
           /\ m' = [m EXCEPT ![t] = r]
           /\ r.pc = "load" /\ r.why = m[t].why /\ r.imm = m[t].imm /\ r.man = m[t].man
      BY <1>0, <1>2, <2>1, MGotoSide
    <3> QED
      BY <3>1
  <2>2. CASE m' = [m EXCEPT ![t].pc = "put", ![t].man = [id |-> stored.id + 1, core |-> core]]
    <3> DEFINE man == [id |-> stored.id + 1, core |-> core]
               r == [m[t] EXCEPT !.pc = "put", !.man = man]
    <3>1. man \in ValidManifest /\ man.core = core
      <4>1. stored.id \in Nat /\ core \in ValidCore
        BY <1>0, ValidManifestTypes DEF TypeInv
      <4>2. stored.id + 1 \in Nat
        BY <4>1, SMT
      <4> QED
        BY <4>1, <4>2 DEF ValidManifest
    <3>2. m' = [m EXCEPT ![t] = r]
      BY <1>2, <2>2
    <3> HIDE DEF man
    <3>3. /\ r \in MGoroutine(ValidManifest) /\ r.pc = "put" /\ r.why = m[t].why
          /\ r.imm = m[t].imm /\ r.man = man
      BY <1>2, <3>1 DEF MGoroutine
    <3> HIDE DEF r
    <3> QED
      BY <3>1, <3>2, <3>3
  <2> QED
    BY <2>1, <2>2 DEF WriteManifest
<1>4. m' \in [MemThreads -> MGoroutine(ValidManifest)]
  BY <1>0, <1>3, MChange DEF TypeInv
<1>5. TypeInv'
  BY <1>0, <1>1, <1>4 DEF TypeInv
<1>6. r.pc # "upload" /\ r.pc \notin {"idle", "done"}
  BY <1>3
<1>7. ~overlapped => Seen(r.imm.last) /\ Seen(r.man.core.lastCompactedWalSSTID)
  BY <1>1, <1>3, MemNow
<1>8. RefInv' /\ WalInv' /\ QueueInv' /\ FrozenInv'
  BY <1>1, <1>3, <1>6, <1>7, MemMove
<1> QED
  BY <1>5, <1>8 DEF Inv

LEMMA PutManifestStep ==
  ASSUME Inv, NEW t \in MemThreads, PutManifest(t)
  PROVE  Inv'
<1>0. TypeInv
  BY DEF Inv
<1>1. /\ status = "open" /\ m[t].pc = "put"
      /\ Land(m[t].man) /\ stored' = m[t].man
      /\ m' = [m EXCEPT ![t] = IF @.why = "final" THEN MReturned(@)
                                ELSE OldestImmMemtable(immMemtables)]
      /\ UNCHANGED <<walSST, ssts, status, wal, immWALs, kvt, memtable, immMemtables, core,
                     replayed, w, ch, shutdown, closing, issued, log, acked, notified, mark,
                     flushFailed, overlapped, opens>>
  BY DEF PutManifest, stateVars, histVars
<1>2. m[t].man \in ValidManifest /\ immMemtables \in Seq(MemRef)
  BY <1>0, MemTypes DEF TypeInv
<1>3. /\ manifest' \in [id : Nat, core : ManifestV1]
      /\ Latest' \in {m[t].man, Latest}
  BY <1>0, <1>1, <1>2, LandIs
<1>4. PICK r \in MGoroutine(ValidManifest) :
         /\ m' = [m EXCEPT ![t] = r]
         /\ r.pc = "upload" => r.imm.tab \in DOMAIN kvt
         /\ r.pc \in {"idle", "done"} => r.why # "flush"
         /\ m[t].why = "flush" /\ immMemtables # <<>> => r.why = "flush"
         /\ r.man = NoManifest
         /\ r.imm = NoMem \/ (1 \in DOMAIN immMemtables /\ r.imm = immMemtables[1])
  <2>1. CASE m[t].why = "final"
    <3>1. PICK r : r = MReturned(m[t])
      OBVIOUS
    <3>2. /\ r \in MGoroutine(ValidManifest) /\ r.pc \in {"idle", "done"} /\ r.why = "poll"
          /\ r.imm = NoMem /\ r.man = NoManifest
      BY <3>1, MReturnedIs
    <3>3. m' = [m EXCEPT ![t] = r]
      BY <1>1, <2>1, <3>1
    <3>4. r.pc # "upload" /\ r.why # "flush" /\ m[t].why # "flush"
      BY <2>1, <3>2
    <3> QED
      BY <3>2, <3>3, <3>4
  <2>2. CASE m[t].why # "final"
    <3>1. PICK r : r = OldestImmMemtable(immMemtables)
      OBVIOUS
    <3>2. /\ r \in MGoroutine(ValidManifest) /\ r.man = NoManifest
          /\ \/ immMemtables = <<>> /\ r.pc = "idle" /\ r.why = "poll" /\ r.imm = NoMem
             \/ /\ immMemtables # <<>> /\ r.pc = "upload" /\ r.why = "flush"
                /\ 1 \in DOMAIN immMemtables /\ r.imm = immMemtables[1]
      BY <1>2, <3>1, OldestMemIs
    <3>3. m' = [m EXCEPT ![t] = r]
      BY <1>1, <2>2, <3>1
    <3>4. /\ r.pc = "upload" => r.imm.tab \in DOMAIN kvt
          /\ r.pc \in {"idle", "done"} => r.why # "flush"
          /\ immMemtables # <<>> => r.why = "flush"
          /\ r.imm = NoMem \/ (1 \in DOMAIN immMemtables /\ r.imm = immMemtables[1])
      BY <1>1, <3>2, MemNow
    <3> QED
      BY <3>2, <3>3, <3>4
  <2> QED
    BY <2>1, <2>2
<1>5. m' \in [MemThreads -> MGoroutine(ValidManifest)]
  BY <1>0, <1>4, MChange DEF TypeInv
<1>6. TypeInv'
  BY <1>0, <1>1, <1>2, <1>3, <1>5 DEF TypeInv
<1>7. immMemtables' # <<>> /\ ~flushFailed' => Pending'
  BY <1>0, <1>1, <1>4, MemNow, PendingKept
<1>8. ~overlapped => Seen(r.imm.last) /\ Seen(r.man.core.lastCompactedWalSSTID)
  BY <1>1, <1>4, MemNow, NothingSeen
<1>9. ~overlapped =>
        /\ Seen(Latest'.core.lastCompactedWalSSTID) /\ Seen(core'.lastCompactedWalSSTID)
        /\ Seen(memtable'.last)
        /\ \A i \in DOMAIN immMemtables' : Seen(immMemtables'[i].last)
        /\ Seen(r.imm.last) /\ Seen(r.man.core.lastCompactedWalSSTID)
  BY <1>1, <1>3, <1>8, MemNow
<1>10. /\ DOMAIN kvt \subseteq DOMAIN kvt' /\ memtable'.tab \in DOMAIN kvt'
       /\ \A i \in DOMAIN immMemtables' : immMemtables'[i].tab \in DOMAIN kvt'
  BY <1>1, MemNow
<1>11. RefInv' /\ WalInv' /\ QueueInv' /\ FrozenInv'
  BY <1>1, <1>4, <1>7, <1>9, <1>10, MemSide, ZenonT(60)
<1> QED
  BY <1>6, <1>11 DEF Inv

LEMMA PutManifestFailsStep ==
  ASSUME Inv, NEW t \in MemThreads, PutManifestFails(t)
  PROVE  Inv'
<1>0. TypeInv
  BY DEF Inv
<1>1. /\ status = "open"
      /\ Land(m[t].man) \/ UNCHANGED manifest
      /\ m' = [m EXCEPT ![t] = MReturned(@)]
      /\ flushFailed' = (flushFailed \/ m[t].why = "flush")
      /\ UNCHANGED <<walSST, ssts, status, wal, immWALs, kvt, memtable, immMemtables, core,
                     replayed, w, stored, ch, shutdown, closing, issued, log, acked, notified,
                     mark, overlapped, opens>>
  BY DEF PutManifestFails, MFails, stateVars
<1>2. m[t].man \in ValidManifest /\ manifest \in [id : Nat, core : ManifestV1]
  BY <1>0, MemTypes DEF TypeInv
<1>3. manifest' \in [id : Nat, core : ManifestV1] /\ Latest' \in {m[t].man, Latest}
  BY <1>0, <1>1, <1>2, LandIs, LatestSame
<1>4. PICK r : r = MReturned(m[t])
  OBVIOUS
<1>5. /\ r \in MGoroutine(ValidManifest) /\ r.pc \in {"idle", "done"} /\ r.why = "poll"
      /\ r.imm = NoMem /\ r.man = NoManifest
  BY <1>4, MReturnedIs
<1>6. m' = [m EXCEPT ![t] = r]
  BY <1>1, <1>4
<1>7. m' \in [MemThreads -> MGoroutine(ValidManifest)] /\ flushFailed' \in BOOLEAN
  BY <1>0, <1>1, <1>5, <1>6, MChange DEF TypeInv
<1>8. TypeInv'
  BY <1>0, <1>1, <1>3, <1>7 DEF TypeInv
<1>9. r.pc # "upload" /\ r.why # "flush"
  BY <1>5
<1>10. immMemtables' # <<>> /\ ~flushFailed' => Pending'
  BY <1>0, <1>1, <1>5, <1>6, MemNow, PendingKept
<1>11. ~overlapped =>
         /\ Seen(Latest'.core.lastCompactedWalSSTID) /\ Seen(core'.lastCompactedWalSSTID)
         /\ Seen(memtable'.last)
         /\ \A i \in DOMAIN immMemtables' : Seen(immMemtables'[i].last)
         /\ Seen(r.imm.last) /\ Seen(r.man.core.lastCompactedWalSSTID)
  BY <1>1, <1>3, <1>5, MemNow, NothingSeen
<1>12. /\ DOMAIN kvt \subseteq DOMAIN kvt' /\ memtable'.tab \in DOMAIN kvt'
       /\ \A i \in DOMAIN immMemtables' : immMemtables'[i].tab \in DOMAIN kvt'
  BY <1>1, MemNow
<1>13. RefInv' /\ WalInv' /\ QueueInv' /\ FrozenInv'
  BY <1>1, <1>5, <1>6, <1>9, <1>10, <1>11, <1>12, MemSide, ZenonT(60)
<1> QED
  BY <1>8, <1>13 DEF Inv

LEMMA MemStepInv ==
  ASSUME Inv, LeastElement, NEW t \in MemThreads, MemStep(t)
  PROVE  Inv'
BY FlushImmMemtableStep, FlushFailsStep, MoveImmMemtableToL0Step, LoadManifestStep,
   MergeManifestStep, WriteManifestStep, PutManifestStep, PutManifestFailsStep DEF MemStep

-----------------------------------------------------------------------------
(* Open, a crash, and Close *)

(* The process is down: only the object store counts. *)
LEMMA DownInv ==
  ASSUME status = "down", immWALs = <<>>, kvt = <<EmptyTable>>,
         memtable = [tab |-> 1, last |-> 0], immMemtables = <<>>, core = NewCoreDBState,
         replayed = 0, w = IdleW, m = IdleM,
         \A i \in DOMAIN walSST : i > 0,
         ~overlapped => NoGaps /\ Seen(Latest.core.lastCompactedWalSSTID)
  PROVE  RefInv /\ WalInv /\ QueueInv /\ FrozenInv
<1>1. RefInv
  <2>1. memtable.tab \in DOMAIN kvt /\ DOMAIN immMemtables = {}
    BY FreshTypes
  <2>2. /\ \A t \in WalThreads : w[t].pc # "apply"
        /\ \A t \in MemThreads : m[t].pc # "upload"
    BY IdleIs
  <2> QED
    BY <2>1, <2>2 DEF RefInv
<1>2. WalInv
  BY DEF WalInv
<1>3. QueueInv
  <2> SUFFICES ASSUME ~overlapped PROVE NoGaps /\ LastsSeen /\ HandsSeen
    BY DEF QueueInv
  <2>1. DOMAIN immMemtables = {} /\ core.lastCompactedWalSSTID = 0 /\ memtable.last = 0
    BY FreshTypes
  <2>2. \A t \in MemThreads : Seen(m[t].imm.last) /\ Seen(m[t].man.core.lastCompactedWalSSTID)
    BY IdleIs, NothingSeen
  <2>3. LastsSeen
    BY <2>1, <2>2, NothingSeen DEF LastsSeen
  <2>4. HandsSeen
    BY IdleIs DEF HandsSeen
  <2> QED
    BY <2>3, <2>4
<1>4. FrozenInv
  <2>1. \A t \in MemThreads : m[t].why # "flush"
    BY IdleIs
  <2> QED
    BY <2>1 DEF FrozenInv
<1> QED
  BY <1>1, <1>2, <1>3, <1>4

LEMMA InitInv ==
  ASSUME Init
  PROVE  Inv
<1>1. /\ walSST = [i \in {} |-> EmptyTable] /\ ssts = <<>> /\ manifest = ManifestFile(NoManifest)
      /\ status = "down" /\ wal = EmptyTable /\ immWALs = <<>> /\ kvt = <<EmptyTable>>
      /\ memtable = [tab |-> 1, last |-> 0] /\ immMemtables = <<>> /\ core = NewCoreDBState
      /\ replayed = 0 /\ w = IdleW /\ m = IdleM /\ stored = NoManifest /\ ch = <<>>
      /\ shutdown = FALSE /\ closing = "no" /\ issued = 0 /\ log = <<>> /\ acked = EmptyTable
      /\ notified = {} /\ mark = 0 /\ flushFailed = FALSE /\ overlapped = FALSE /\ opens = 0
  BY DEF Init
<1>2. walSST \in [DOMAIN walSST -> Table] /\ DOMAIN walSST = {} /\ 0 \in Nat
  BY <1>1, SMT
<1>3. /\ manifest \in [id : Nat, core : ManifestV1]
      /\ Latest = NoManifest
  BY <1>1, FreshTypes, FileRoundTrip DEF Latest
<1>4. ssts \in Seq(Table) /\ log \in Seq([key : Keys, num : Nat])
  BY <1>1, SMT
<1>5. TypeInv
  BY <1>1, <1>2, <1>3, <1>4, FreshTypes, IdleIs DEF TypeInv
<1>6. NoGaps /\ Seen(Latest.core.lastCompactedWalSSTID) /\ \A i \in DOMAIN walSST : i > 0
  BY <1>2, <1>3, NothingSeen DEF NoGaps
<1>7. RefInv /\ WalInv /\ QueueInv /\ FrozenInv
  BY <1>1, <1>6, DownInv
<1> QED
  BY <1>5, <1>7 DEF Inv

(* The end of the process keeps the object store, and forgets the rest. *)
LEMMA HaltStep ==
  ASSUME Inv, SubsetSize, Halt, UNCHANGED <<storeVars, issued, acked, overlapped, opens>>
  PROVE  Inv'
<1>0. TypeInv /\ WalInv /\ QueueInv
  BY DEF Inv
<1>1. /\ status' = "down" /\ wal' = EmptyTable /\ immWALs' = <<>> /\ kvt' = <<EmptyTable>>
      /\ memtable' = [tab |-> 1, last |-> 0] /\ immMemtables' = <<>> /\ core' = NewCoreDBState
      /\ replayed' = 0 /\ w' = IdleW /\ m' = IdleM /\ stored' = NoManifest /\ ch' = <<>>
      /\ shutdown' = FALSE /\ closing' = "no" /\ notified' = {} /\ mark' = 0
      /\ flushFailed' = FALSE /\ log' = SubSeq(log, 1, DurableCount)
      /\ UNCHANGED <<walSST, ssts, manifest, issued, acked, overlapped, opens>>
  BY DEF Halt, storeVars
<1>2. log' \in Seq([key : Keys, num : Nat])
  <2>1. log \in Seq([key : Keys, num : Nat])
    BY <1>0 DEF TypeInv
  <2>2. DurableCount \in 0..Len(log)
    BY <2>1, DurableCountType
  <2>3. PICK n \in 0..Len(log) : n = DurableCount
    BY <2>2
  <2>4. SubSeq(log, 1, n) \in Seq([key : Keys, num : Nat])
    BY <2>1, <2>3, Prefix
  <2> QED
    BY <1>1, <2>3, <2>4
<1>3. 0 \in Nat
  BY SMT
<1>4. TypeInv'
  BY <1>0, <1>1, <1>2, <1>3, FreshTypes, IdleIs DEF TypeInv
<1>5. /\ \A i \in DOMAIN walSST' : i > 0
      /\ ~overlapped' => NoGaps' /\ Seen(Latest.core.lastCompactedWalSSTID)'
  <2>1. \A i \in DOMAIN walSST' : i > 0
    BY <1>0, <1>1 DEF WalInv
  <2>2. ASSUME ~overlapped' PROVE NoGaps' /\ Seen(Latest.core.lastCompactedWalSSTID)'
    <3>1. ~overlapped
      BY <1>1, <2>2, SMT
    <3>2. NoGaps /\ Seen(Latest.core.lastCompactedWalSSTID)
      BY <1>0, <3>1 DEF QueueInv, LastsSeen
    <3>3. Latest' = Latest /\ walSST' = walSST
      BY <1>1, LatestSame
    <3> QED
      BY <3>2, <3>3 DEF NoGaps, Seen
  <2> QED
    BY <2>1, <2>2
<1>6. RefInv' /\ WalInv' /\ QueueInv' /\ FrozenInv'
  <2>1. (/\ status = "down" /\ immWALs = <<>> /\ kvt = <<EmptyTable>>
         /\ memtable = [tab |-> 1, last |-> 0] /\ immMemtables = <<>> /\ core = NewCoreDBState
         /\ replayed = 0 /\ w = IdleW /\ m = IdleM
         /\ \A i \in DOMAIN walSST : i > 0
         /\ ~overlapped => NoGaps /\ Seen(Latest.core.lastCompactedWalSSTID))'
    BY <1>1, <1>5
  <2> QED
    BY <2>1, DownInv, PTL
<1> QED
  BY <1>4, <1>6 DEF Inv

LEMMA CreateManifestStep ==
  ASSUME Inv, CreateManifest
  PROVE  Inv'
<1>0. TypeInv /\ RefInv /\ WalInv /\ QueueInv /\ FrozenInv
  BY DEF Inv
<1>1. /\ status = "down"
      /\ manifest' = ManifestFile([id |-> 1, core |-> NewCoreDBState])
      /\ UNCHANGED <<walSST, ssts, status, wal, immWALs, kvt, memtable, immMemtables, core,
                     replayed, w, m, stored, ch, shutdown, closing, issued, log, acked, notified,
                     mark, flushFailed, overlapped, opens>>
  BY DEF CreateManifest, stateVars, taskVars, histVars
<1>2. PICK man \in ValidManifest : man = [id |-> 1, core |-> NewCoreDBState]
  <2>1. 1 \in Nat
    BY SMT
  <2> QED
    BY <2>1, FreshTypes DEF ValidManifest
<1>3. man.core.lastCompactedWalSSTID = 0
  BY <1>2, FreshTypes
<1>4. manifest' \in [id : Nat, core : ManifestV1] /\ Latest' = man
  BY <1>1, <1>2, FileRoundTrip DEF Latest
<1>5. TypeInv'
  BY <1>0, <1>1, <1>4 DEF TypeInv
<1>6. RefInv'
  BY <1>0, <1>1 DEF RefInv
<1>7. WalInv'
  BY <1>0, <1>1 DEF WalInv
<1>8. QueueInv'
  <2> SUFFICES ASSUME ~overlapped' PROVE NoGaps' /\ LastsSeen' /\ HandsSeen'
    BY <1>1 DEF QueueInv
  <2>1. ~overlapped
    BY <1>1, SMT
  <2>2. NoGaps /\ LastsSeen /\ HandsSeen
    BY <1>0, <2>1 DEF QueueInv
  <2>3. LastsSeen'
    BY <1>1, <1>3, <1>4, <2>2 DEF LastsSeen, Seen
  <2> QED
    BY <1>1, <2>2, <2>3 DEF NoGaps, HandsSeen
<1>9. FrozenInv'
  BY <1>0, <1>1 DEF FrozenInv
<1> QED
  BY <1>5, <1>6, <1>7, <1>8, <1>9 DEF Inv

LEMMA OpenManifestStep ==
  ASSUME Inv, OpenManifest
  PROVE  Inv'
<1>0. TypeInv /\ RefInv /\ WalInv /\ QueueInv /\ FrozenInv
  BY DEF Inv
<1>1. /\ status = "down" /\ opens' = opens + 1
      /\ stored' = [Latest EXCEPT !.id = @ + 1]
      /\ manifest' = ManifestFile(stored')
      /\ core' = Latest.core /\ replayed' = Latest.core.lastCompactedWalSSTID
      /\ status' = "replaying"
      /\ UNCHANGED <<walSST, ssts, wal, immWALs, kvt, memtable, immMemtables, w, m, ch,
                     shutdown, closing, issued, log, acked, notified, mark, flushFailed,
                     overlapped>>
  BY DEF OpenManifest
<1>2. Latest \in ValidManifest /\ Latest.core \in ValidCore
      /\ Latest.core.lastCompactedWalSSTID \in Nat
  BY <1>0, LatestValid, ValidManifestTypes, CoreFields
<1>3. stored' \in ValidManifest /\ stored'.core = Latest.core
  BY <1>1, <1>2, BumpID
<1>4. manifest' \in [id : Nat, core : ManifestV1] /\ Latest' = stored'
  BY <1>1, <1>3, FileRoundTrip DEF Latest
<1>5. opens' \in Nat
  <2>1. opens \in Nat
    BY <1>0 DEF TypeInv
  <2> QED
    BY <1>1, <2>1, SMT
<1>6. TypeInv'
  BY <1>0, <1>1, <1>2, <1>3, <1>4, <1>5 DEF TypeInv
<1>7. RefInv'
  BY <1>0, <1>1 DEF RefInv
<1>8. WalInv'
  BY <1>0, <1>1 DEF WalInv
<1>9. QueueInv'
  <2> SUFFICES ASSUME ~overlapped' PROVE NoGaps' /\ LastsSeen' /\ HandsSeen'
    BY <1>1 DEF QueueInv
  <2>1. ~overlapped
    BY <1>1, SMT
  <2>2. NoGaps /\ LastsSeen /\ HandsSeen
    BY <1>0, <2>1 DEF QueueInv
  <2>3. LastsSeen'
    BY <1>1, <1>3, <1>4, <2>2 DEF LastsSeen, Seen
  <2> QED
    BY <1>1, <2>2, <2>3 DEF NoGaps, HandsSeen
<1>10. FrozenInv'
  BY <1>0, <1>1 DEF FrozenInv
<1> QED
  BY <1>6, <1>7, <1>8, <1>9, <1>10 DEF Inv

LEMMA ReplayWALStep ==
  ASSUME Inv, NEW id \in DOMAIN walSST, ReplayWAL(id)
  PROVE  Inv'
<1>0. TypeInv /\ RefInv /\ WalInv /\ QueueInv /\ FrozenInv
  BY DEF Inv
<1>1. /\ status = "replaying"
      /\ \E entries \in ReadWAL(id) : ReplayEntries(id, entries)
      /\ core' = IF core.nextWalSstID = id THEN [core EXCEPT !.nextWalSstID = @ + 1] ELSE core
      /\ replayed' = id
      /\ UNCHANGED <<walSST, ssts, manifest, status, wal, immWALs, w, m, stored, shutdown,
                     closing, issued, log, acked, notified, mark, flushFailed, overlapped, opens>>
  BY DEF ReplayWAL, storeVars, histVars
<1>2. id \in Nat /\ walSST[id] \in Table /\ core \in ValidCore
  BY <1>0 DEF TypeInv
<1>3. PICK entries \in Table : ReplayEntries(id, entries)
  <2>1. ReadWAL(id) \subseteq Table
    BY <1>2, TablesType DEF ReadWAL
  <2> QED
    BY <1>1, <2>1
<1>4. /\ kvt' \in Seq(Table) /\ immMemtables' \in Seq(MemRef) /\ memtable' \in MemRef
      /\ ch' \in Seq({"flush", "shutdown"})
      /\ DOMAIN kvt \subseteq DOMAIN kvt' /\ memtable'.tab \in DOMAIN kvt'
      /\ \A i \in DOMAIN immMemtables' : immMemtables'[i].tab \in DOMAIN kvt'
      /\ memtable'.last \in {0, memtable.last}
      /\ \A i \in DOMAIN immMemtables' :
           \/ i \in DOMAIN immMemtables /\ immMemtables'[i] = immMemtables[i]
           \/ immMemtables'[i].last = id
      /\ \/ UNCHANGED <<immMemtables, ch>>
         \/ \E i \in DOMAIN ch' : ch'[i] = "flush"
  BY <1>0, <1>2, <1>3, ReplayEntriesIs
<1>5. core' \in ValidCore /\ core'.lastCompactedWalSSTID = core.lastCompactedWalSSTID
  BY <1>1, <1>2, BumpNext
<1>6. TypeInv'
  BY <1>0, <1>1, <1>2, <1>4, <1>5 DEF TypeInv
<1>7. RefInv'
  BY <1>0, <1>1, <1>4 DEF RefInv
<1>8. WalInv'
  BY <1>0, <1>1 DEF WalInv
<1>9. QueueInv'
  <2> SUFFICES ASSUME ~overlapped' PROVE NoGaps' /\ LastsSeen' /\ HandsSeen'
    BY <1>1 DEF QueueInv
  <2>1. ~overlapped
    BY <1>1, SMT
  <2>2. NoGaps /\ LastsSeen /\ HandsSeen
    BY <1>0, <2>1 DEF QueueInv
  <2>3. /\ Seen(id) /\ Seen(memtable'.last)
        /\ \A i \in DOMAIN immMemtables' : Seen(immMemtables'[i].last)
    BY <1>4, <2>2 DEF LastsSeen, Seen
  <2>4. LastsSeen'
    BY <1>1, <1>5, <2>2, <2>3, LatestSame DEF LastsSeen, Seen
  <2> QED
    BY <1>1, <2>2, <2>4 DEF NoGaps, HandsSeen
<1>10. FrozenInv'
  <2>1. immMemtables' # <<>> /\ ~flushFailed => Pending'
    BY <1>0, <1>1, <1>4 DEF FrozenInv, Pending
  <2> QED
    BY <1>0, <1>1, <2>1 DEF FrozenInv
<1> QED
  BY <1>6, <1>7, <1>8, <1>9, <1>10 DEF Inv

(* The assertion at the end of the replay is what makes the next id new. *)
LEMMA ReplayDoneStep ==
  ASSUME Inv, ReplayDone
  PROVE  Inv'
<1>0. TypeInv /\ RefInv /\ WalInv /\ QueueInv /\ FrozenInv
  BY DEF Inv
<1>1. /\ status = "replaying" /\ \A j \in DOMAIN walSST : j <= replayed
      /\ status' = IF replayed + 1 = core.nextWalSstID THEN "open" ELSE "panicked"
      /\ UNCHANGED <<walSST, ssts, manifest, wal, immWALs, kvt, memtable, immMemtables, core,
                     replayed, w, m, stored, ch, shutdown, closing, issued, log, acked, notified,
                     mark, flushFailed, overlapped, opens>>
  BY DEF ReplayDone, storeVars, stateVars, taskVars, histVars
<1>2. replayed \in Nat /\ DOMAIN walSST \subseteq Nat /\ status' \in {"open", "panicked"}
      /\ (status' = "open" => replayed + 1 = core.nextWalSstID)
  BY <1>0, <1>1 DEF TypeInv
<1>3. immWALs = <<>> /\ w = IdleW
  BY <1>0, <1>1 DEF WalInv
<1>4. \A t \in WalThreads : w[t].pc = "idle" /\ w[t].pc \notin Busy
  BY <1>3, IdleIs
<1>5. TypeInv'
  BY <1>0, <1>1, <1>2 DEF TypeInv
<1>6. RefInv'
  BY <1>0, <1>1 DEF RefInv
<1>7. WalInv'
  <2>1. Wals = {}
    BY <1>3, <1>4, FreshTypes DEF Wals
  <2>2. status' = "open" => \A i \in DOMAIN walSST : i < core.nextWalSstID
    <3>1. ASSUME status' = "open", NEW i \in DOMAIN walSST PROVE i < core.nextWalSstID
      <4>1. i \in Nat /\ i <= replayed /\ replayed + 1 = core.nextWalSstID
        BY <1>1, <1>2, <3>1
      <4> QED
        BY <1>2, <4>1, SMT
    <3> QED
      BY <3>1
  <2>3. Wals' = {}
    BY <1>1, <2>1, WalsSame
  <2>4. status' = "open" => OpenWals'
    BY <1>1, <2>2, <2>3 DEF OpenWals
  <2> QED
    BY <1>0, <1>1, <1>2, <2>4 DEF WalInv
<1>8. QueueInv'
  <2> SUFFICES ASSUME ~overlapped'
               PROVE  NoGaps' /\ LastsSeen' /\ HandsSeen' /\ (status' = "open" => InTurn')
    BY DEF QueueInv
  <2>1. ~overlapped
    BY <1>1, SMT
  <2>2. NoGaps /\ LastsSeen /\ HandsSeen
    BY <1>0, <2>1 DEF QueueInv
  <2>3. NoGaps' /\ LastsSeen' /\ HandsSeen'
    BY <1>1, <2>2, LastsFrame DEF NoGaps, HandsSeen
  <2>4. ASSUME status' = "open" PROVE InTurn'
    <3>1. replayed = core.nextWalSstID - 1
      <4>1. replayed + 1 = core.nextWalSstID
        BY <1>2, <2>4
      <4> QED
        BY <1>2, <4>1, SMT
    <3>2. \A i \in 1..replayed : i \in DOMAIN walSST
      <4>1. replayed \in {0} \/ replayed \in DOMAIN walSST
        BY <2>2 DEF LastsSeen, Seen
      <4>2. replayed = 0 => 1..replayed = {}
        BY SMT
      <4> QED
        BY <2>2, <4>1, <4>2 DEF NoGaps
    <3>3. \A i \in 1..core'.nextWalSstID - 1 : i \in DOMAIN walSST'
      BY <1>1, <3>1, <3>2
    <3>4. DOMAIN immWALs' = {}
      BY <1>1, <1>3, FreshTypes
    <3>5. \A t \in WalThreads : w'[t].pc \notin {"upload", "pop"}
      BY <1>1, <1>4
    <3> QED
      BY <3>3, <3>4, <3>5 DEF InTurn
  <2> QED
    BY <2>3, <2>4
<1>9. FrozenInv'
  BY <1>0, <1>1, <1>2 DEF FrozenInv, Pending
<1> QED
  BY <1>5, <1>6, <1>7, <1>8, <1>9 DEF Inv

-----------------------------------------------------------------------------
(* Close, and all steps together *)

LEMMA CloseStep ==
  ASSUME Inv, CloseStart \/ CloseShutdown
  PROVE  Inv'
<1>0. TypeInv /\ RefInv /\ WalInv /\ QueueInv /\ FrozenInv
  BY DEF Inv
<1>1. /\ closing' \in {"wal", "mem", "late"}
      /\ mark' = mark \/ mark' = Len(log)
      /\ ch' = ch \/ ch' = Append(ch, "shutdown")
      /\ UNCHANGED <<walSST, ssts, manifest, status, wal, immWALs, kvt, memtable, immMemtables,
                     core, replayed, w, m, stored, shutdown, issued, log, acked, notified,
                     flushFailed, overlapped, opens>>
  BY DEF CloseStart, CloseShutdown, storeVars, stateVars, histVars
<1>2. /\ ch' \in Seq({"flush", "shutdown"})
      /\ \A i \in DOMAIN ch : i \in DOMAIN ch' /\ ch'[i] = ch[i]
  <2>1. ch \in Seq({"flush", "shutdown"}) /\ "shutdown" \in {"flush", "shutdown"}
    BY <1>0 DEF TypeInv
  <2> QED
    BY <1>1, <2>1, ChAppend
<1>3. mark' \in Nat
  <2>1. mark \in Nat /\ log \in Seq([key : Keys, num : Nat])
    BY <1>0 DEF TypeInv
  <2>2. Len(log) \in Nat
    BY <2>1, SMT
  <2> QED
    BY <1>1, <2>1, <2>2
<1>4. closing' \in {"no", "wal", "mem", "late"}
  BY <1>1
<1>5. TypeInv'
  BY <1>0, <1>1, <1>2, <1>3, <1>4 DEF TypeInv
<1>6. RefInv'
  BY <1>0, <1>1 DEF RefInv
<1>7. WalInv'
  BY <1>0, <1>1, WalsSame DEF WalInv, OpenWals
<1>8. QueueInv'
  <2> SUFFICES ASSUME ~overlapped'
               PROVE  NoGaps' /\ LastsSeen' /\ HandsSeen' /\ (status' = "open" => InTurn')
    BY DEF QueueInv
  <2>1. ~overlapped
    BY <1>1, SMT
  <2>2. NoGaps /\ LastsSeen /\ HandsSeen /\ (status = "open" => InTurn)
    BY <1>0, <2>1 DEF QueueInv
  <2> QED
    BY <1>1, <2>2, LastsFrame DEF NoGaps, HandsSeen, InTurn
<1>9. FrozenInv'
  <2>1. Pending => Pending'
    BY <1>1, <1>2 DEF Pending
  <2> QED
    BY <1>0, <1>1, <2>1 DEF FrozenInv
<1> QED
  BY <1>5, <1>6, <1>7, <1>8, <1>9 DEF Inv

(* The compactor changes the manifest and adds an SST.  That these are of   *)
(* their types depends on what the levels name.                             *)
LEMMA CompactStep ==
  ASSUME Inv, NEW i, Compact(i), ssts' \in Seq(Table),
         manifest' \in [id : Nat, core : ManifestV1],
         Latest'.core.lastCompactedWalSSTID = Latest.core.lastCompactedWalSSTID
  PROVE  Inv'
<1>0. TypeInv /\ RefInv /\ WalInv /\ QueueInv /\ FrozenInv
  BY DEF Inv
<1>1. UNCHANGED <<walSST, status, wal, immWALs, kvt, memtable, immMemtables, core, replayed, w, m,
                  stored, ch, shutdown, closing, issued, log, acked, notified, mark, flushFailed,
                  overlapped, opens>>
  BY DEF Compact, stateVars, taskVars, histVars
<1>3. TypeInv'
  BY <1>0, <1>1 DEF TypeInv
<1>4. RefInv'
  BY <1>0, <1>1 DEF RefInv
<1>5. WalInv'
  BY <1>0, <1>1, WalsSame DEF WalInv, OpenWals
<1>6. QueueInv'
  <2> SUFFICES ASSUME ~overlapped'
               PROVE  NoGaps' /\ LastsSeen' /\ HandsSeen' /\ (status' = "open" => InTurn')
    BY DEF QueueInv
  <2>1. ~overlapped
    BY <1>1, SMT
  <2>2. NoGaps /\ LastsSeen /\ HandsSeen /\ (status = "open" => InTurn)
    BY <1>0, <2>1 DEF QueueInv
  <2>3. LastsSeen'
    BY <1>1, <2>2 DEF LastsSeen, Seen
  <2> QED
    BY <1>1, <2>2, <2>3 DEF NoGaps, HandsSeen, InTurn
<1>7. FrozenInv'
  BY <1>0, <1>1 DEF FrozenInv, Pending
<1> QED
  BY <1>3, <1>4, <1>5, <1>6, <1>7 DEF Inv

(* Every step but the compactor's. *)
LEMMA InvNext ==
  ASSUME Inv, LeastElement, SubsetSize, [Next]_vars, \A i \in DOMAIN Latest.core.l0 : ~Compact(i)
  PROVE  Inv'
<1>0. MemCallers \subseteq MemThreads
  BY DEF MemThreads
<1>1. CASE CreateManifest \/ OpenManifest
  BY <1>1, CreateManifestStep, OpenManifestStep
<1>2. ASSUME NEW id \in DOMAIN walSST, ReplayWAL(id) PROVE Inv'
  BY <1>2, ReplayWALStep
<1>3. CASE ReplayDone
  BY <1>3, ReplayDoneStep
<1>4. CASE Crash \/ CloseDone
  <2>1. Halt /\ UNCHANGED <<storeVars, issued, acked, overlapped, opens>>
    BY <1>4 DEF Crash, CloseDone
  <2> QED
    BY <2>1, HaltStep
<1>5. ASSUME NEW k \in Keys, WalPut(k) PROVE Inv'
  BY <1>5, WalPutStep
<1>6. ASSUME NEW t \in WalThreads, WalStep(t) PROVE Inv'
  BY <1>6, WalStepInv
<1>7. CASE PollManifest \/ ReceiveMsg \/ MemTaskExit
  BY <1>7, PollManifestStep, ReceiveMsgStep, MemTaskExitStep
<1>8. ASSUME NEW t \in MemThreads,
             FlushMemtableToL0(t) \/ FlushMemtableFreezes(t) \/ MemStep(t)
      PROVE  Inv'
  BY <1>8, FlushMemtableToL0Step, FlushMemtableFreezesStep, MemStepInv
<1>9. CASE CloseStart \/ CloseShutdown
  BY <1>9, CloseStep
<1>10. CASE UNCHANGED vars
  <2>1. UNCHANGED <<walSST, ssts, manifest, status, wal, immWALs, kvt, memtable, immMemtables,
                    core, replayed, w, m, stored, ch, shutdown, closing, issued, log, acked,
                    notified, mark, flushFailed, overlapped, opens>>
    BY <1>10 DEF vars, storeVars, stateVars, taskVars, histVars
  <2>2. TypeInv' /\ RefInv'
    BY <2>1 DEF Inv, TypeInv, RefInv
  <2>3. WalInv' /\ FrozenInv'
    BY <2>1, WalsSame DEF Inv, WalInv, OpenWals, FrozenInv, Pending
  <2>4. QueueInv'
    <3> SUFFICES ASSUME ~overlapped'
                 PROVE  NoGaps' /\ LastsSeen' /\ HandsSeen' /\ (status' = "open" => InTurn')
      BY DEF QueueInv
    <3>1. ~overlapped
      BY <2>1, SMT
    <3>2. NoGaps /\ LastsSeen /\ HandsSeen /\ (status = "open" => InTurn)
      BY <3>1 DEF Inv, QueueInv
    <3> QED
      BY <2>1, <3>2, LastsFrame DEF NoGaps, HandsSeen, InTurn
  <2> QED
    BY <2>2, <2>3, <2>4 DEF Inv
<1> QED
  BY <1>0, <1>1, <1>2, <1>3, <1>4, <1>5, <1>6, <1>7, <1>8, <1>9, <1>10 DEF Next

=============================================================================
