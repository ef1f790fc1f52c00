---------------------------- MODULE WritePathInv ----------------------------
(***************************************************************************)
(* The inductive invariant of WritePath, for any number of goroutines that *)
(* flush, any bounds and any events.                                       *)
(*                                                                         *)
(* WalInv: the WALs that are queued, or that a FlushWAL has at hand, have  *)
(* ids below the next one, and two of them with one id have one table,     *)
(* which is also that of the WAL SST with this id, if there is one.  So    *)
(* the upload of a WAL, even a second one, never changes a WAL SST.        *)
(*                                                                         *)
(* QueueInv: as long as no two FlushWALs have been at the same WAL, the    *)
(* goroutine that uploads has the oldest WAL, the WAL SSTs have no gaps,   *)
(* and the memtables, the levels and the manifests reach up to WALs that   *)
(* are stored.                                                             *)
(*                                                                         *)
(* FrozenInv: what FrozenWillBeFlushed says holds from the replay on.      *)
(*                                                                         *)
(* SSTInv: the levels and the manifests name SSTs that are there.          *)
(***************************************************************************)
EXTENDS WritePath, CoreProofs

(* Leaves are for Zenon, unless they name another prover. *)
USE Zenon

TypeInv ==
  /\ walSST \in [DOMAIN walSST -> Table] /\ DOMAIN walSST \subseteq Nat
  /\ ssts \in Seq(Table)
  /\ manifest \in [id : Nat, core : ManifestV1]
  /\ status \in {"down", "replaying", "open", "panicked"}
  /\ wal \in Table
  /\ immWALs \in Seq(ImmWAL)
  /\ kvt \in Seq(Table)
  /\ memtable \in MemRef
  /\ immMemtables \in Seq(MemRef)
  /\ core \in ValidCore
  /\ replayed \in Nat
  /\ w \in [WalThreads -> WGoroutine]
  /\ m \in [MemThreads -> MGoroutine(ValidManifest)]
  /\ stored \in ValidManifest
  /\ ch \in Seq({"flush", "shutdown"})
  /\ shutdown \in BOOLEAN
  /\ closing \in {"no", "wal", "mem", "late"}
  /\ issued \in Nat
  /\ log \in Seq([key : Keys, num : Nat])
  /\ acked \in Table
  /\ notified \subseteq Nat
  /\ mark \in Nat
  /\ flushFailed \in BOOLEAN
  /\ overlapped \in BOOLEAN
  /\ opens \in Nat

(* Every memtable that will be read or filled has a KVTable. *)
RefInv ==
  /\ memtable.tab \in DOMAIN kvt
  /\ \A i \in DOMAIN immMemtables : immMemtables[i].tab \in DOMAIN kvt
  /\ \A t \in WalThreads : w[t].pc = "apply" => w[t].tab \in DOMAIN kvt
  /\ \A t \in MemThreads : m[t].pc = "upload" => m[t].imm.tab \in DOMAIN kvt

(* A FlushWAL that has a WAL at hand. *)
Busy == {"upload", "pop", "apply", "check", "freeze", "send", "notify"}

Wals == {immWALs[j] : j \in DOMAIN immWALs}
          \cup {w[t].imm : t \in {u \in WalThreads : w[u].pc \in Busy}}

OpenWals ==
  /\ \A i \in DOMAIN walSST : i < core.nextWalSstID
  /\ \A x \in Wals : 0 < x.id /\ x.id < core.nextWalSstID
  /\ \A x, y \in Wals : x.id = y.id => x.tab = y.tab
  /\ \A x \in Wals : x.id \in DOMAIN walSST => walSST[x.id] = x.tab

WalInv ==
  /\ status \in {"down", "replaying"} => immWALs = <<>> /\ w = IdleW /\ m = IdleM
  /\ \A i \in DOMAIN walSST : i > 0
  /\ status = "open" => OpenWals

Seen(i) == i \in {0} \cup DOMAIN walSST

NoGaps == \A i \in DOMAIN walSST : \A j \in 1..i : j \in DOMAIN walSST

(* The memtables and the manifests reach up to WALs that are stored, and    *)
(* so is a WAL that a FlushWAL has uploaded.                                *)
LastsSeen ==
  /\ Seen(Latest.core.lastCompactedWalSSTID) /\ Seen(core.lastCompactedWalSSTID)
  /\ Seen(replayed) /\ Seen(memtable.last)
  /\ \A i \in DOMAIN immMemtables : Seen(immMemtables[i].last)
  /\ \A t \in MemThreads : Seen(m[t].imm.last) /\ Seen(m[t].man.core.lastCompactedWalSSTID)

HandsSeen == \A t \in WalThreads : w[t].pc \in Busy \ {"upload"} => w[t].imm.id \in DOMAIN walSST

(* One FlushWAL at a time takes the WALs of the queue, in order. *)
InTurn ==
  /\ \A i \in 1..core.nextWalSstID - 1 :
       i \in DOMAIN walSST \/ \E j \in DOMAIN immWALs : immWALs[j].id = i
  /\ \A i, j \in DOMAIN immWALs : i < j => immWALs[i].id < immWALs[j].id
  /\ \A t \in WalThreads :
       w[t].pc \in {"upload", "pop"} => immWALs # <<>> /\ w[t].imm = Head(immWALs)
  /\ \A t, u \in WalThreads :
       w[t].pc \in {"upload", "pop"} /\ w[u].pc \in {"upload", "pop"} => t = u

QueueInv == ~overlapped => NoGaps /\ LastsSeen /\ HandsSeen /\ (status = "open" => InTurn)

(* A message or a flusher is on the way. *)
Pending ==
  \/ \E i \in DOMAIN ch : ch[i] = "flush"
  \/ \E t \in WalThreads : w[t].pc = "send"
  \/ \E t \in MemThreads : m[t].why = "flush"

FrozenInv ==
  /\ \A t \in MemThreads : m[t].pc \in {"idle", "done"} => m[t].why # "flush"
  /\ status = "down" => immMemtables = <<>>
  /\ status \in {"replaying", "open"} /\ immMemtables # <<>> /\ ~flushFailed => Pending

Inv == TypeInv /\ RefInv /\ WalInv /\ QueueInv /\ FrozenInv

(* The levels, and the manifests that the flushers have at hand. *)
SSTInv ==
  /\ SSTsOf(Latest.core) \subseteq DOMAIN ssts
  /\ SSTsOf(core) \subseteq DOMAIN ssts
  /\ \A t \in MemThreads :
       /\ SSTsOf(m[t].man.core) \subseteq DOMAIN ssts
       /\ m[t].pc = "move" => m[t].sst \in DOMAIN ssts

(* The size of a set of positions, as the proofs need it; a hypothesis of   *)
(* the lemmas, like LeastElement.                                           *)
SubsetSize == \A n \in Nat : \A S \in SUBSET (1..n) : Cardinality(S) \in 0..n

-----------------------------------------------------------------------------
(* What the steps do *)

LEMMA TablesType ==
  /\ EmptyTable \in Table
  /\ \A s, t \in Table : PutAll(s, t) \in Table
BY SMT DEF EmptyTable, Table, PutAll

LEMMA IdleTypes ==
  /\ NoWAL \in ImmWAL /\ NoMem \in MemRef /\ NoManifest \in ValidManifest
  /\ \A pc \in WalPc : WIdle(pc) \in WGoroutine
  /\ \A pc \in MemPc : MIdle(pc) \in MGoroutine(ValidManifest)
<1>1. NoWAL \in ImmWAL /\ NoMem \in MemRef /\ 0 \in Nat
  BY TablesType, SMT DEF NoWAL, NoMem, ImmWAL, MemRef
<1>2. NoManifest \in ValidManifest
  BY <1>1, NewCoreValid DEF NoManifest, ValidManifest
<1>3. \A pc \in WalPc : WIdle(pc) \in WGoroutine
  BY <1>1 DEF WIdle, WGoroutine
<1>4. \A pc \in MemPc : MIdle(pc) \in MGoroutine(ValidManifest)
  BY <1>1, <1>2 DEF MIdle, MGoroutine
<1> QED
  BY <1>1, <1>2, <1>3, <1>4

LEMMA IdleFields ==
  ASSUME NEW pc
  PROVE  /\ WIdle(pc).pc = pc /\ WIdle(pc).imm = NoWAL /\ WIdle(pc).final = FALSE
         /\ MIdle(pc).pc = pc /\ MIdle(pc).why = "poll" /\ MIdle(pc).imm = NoMem
         /\ MIdle(pc).man = NoManifest
BY DEF WIdle, MIdle

(* A goroutine moves on. *)
LEMMA WChange ==
  ASSUME w \in [WalThreads -> WGoroutine], NEW t \in WalThreads, NEW r \in WGoroutine,
         w' = [w EXCEPT ![t] = r]
  PROVE  /\ w' \in [WalThreads -> WGoroutine]
         /\ w'[t] = r
         /\ \A u \in WalThreads : u # t => w'[u] = w[u]
OBVIOUS

LEMMA MChange ==
  ASSUME m \in [MemThreads -> MGoroutine(ValidManifest)], NEW t \in MemThreads,
         NEW r \in MGoroutine(ValidManifest), m' = [m EXCEPT ![t] = r]
  PROVE  /\ m' \in [MemThreads -> MGoroutine(ValidManifest)]
         /\ m'[t] = r
         /\ \A u \in MemThreads : u # t => m'[u] = m[u]
OBVIOUS

LEMMA WGotoIs ==
  ASSUME w \in [WalThreads -> WGoroutine], NEW t \in WalThreads, NEW pc \in WalPc, WGoto(t, pc)
  PROVE  LET r == [w[t] EXCEPT !.pc = pc]
         IN  /\ r \in WGoroutine
             /\ w' = [w EXCEPT ![t] = r]
             /\ r.pc = pc /\ r.imm = w[t].imm /\ r.tab = w[t].tab /\ r.final = w[t].final
<1>1. w[t] \in WGoroutine
  OBVIOUS
<1> QED
  BY <1>1, SMT DEF WGoto, WGoroutine

LEMMA MGotoIs ==
  ASSUME m \in [MemThreads -> MGoroutine(ValidManifest)], NEW t \in MemThreads,
         NEW pc \in MemPc, MGoto(t, pc)
  PROVE  LET r == [m[t] EXCEPT !.pc = pc]
         IN  /\ r \in MGoroutine(ValidManifest)
             /\ m' = [m EXCEPT ![t] = r]
             /\ r.pc = pc /\ r.why = m[t].why /\ r.imm = m[t].imm /\ r.man = m[t].man
<1>1. m[t] \in MGoroutine(ValidManifest)
  OBVIOUS
<1> QED
  BY <1>1, SMT DEF MGoto, MGoroutine

LEMMA WalsSame ==
  ASSUME UNCHANGED <<immWALs, w>>
  PROVE  Wals' = Wals
BY DEF Wals

(* A step that stores a WAL leaves the other WAL SSTs alone, and this one   *)
(* too if it was there.                                                     *)
LEMMA StoreIs ==
  ASSUME TypeInv, NEW x \in ImmWAL, StoreWAL(x)
  PROVE  /\ DOMAIN walSST' = DOMAIN walSST \cup {x.id}
         /\ walSST'[x.id] = x.tab
         /\ \A i \in DOMAIN walSST : i # x.id => walSST'[i] = walSST[i]
         /\ walSST' \in [DOMAIN walSST' -> Table] /\ DOMAIN walSST' \subseteq Nat
<1>1. /\ DOMAIN walSST' = DOMAIN walSST \cup {x.id}
      /\ \A i \in DOMAIN walSST' : walSST'[i] = IF i = x.id THEN x.tab ELSE walSST[i]
  BY DEF StoreWAL
<1>2. x.id \in Nat /\ x.tab \in Table
  BY DEF ImmWAL
<1>3. \A i \in DOMAIN walSST : walSST[i] \in Table /\ i \in Nat
  BY DEF TypeInv
<1>4. walSST' \in [DOMAIN walSST' -> Table]
  <2>1. \A i \in DOMAIN walSST' : walSST'[i] \in Table
    BY <1>1, <1>2, <1>3
  <2>2. walSST' = [i \in DOMAIN walSST \cup {x.id} |-> IF i = x.id THEN x.tab ELSE walSST[i]]
    BY DEF StoreWAL
  <2> QED
    BY <1>1, <2>1, <2>2
<1> QED
  BY <1>1, <1>2, <1>3, <1>4

LEMMA LatestSame ==
  ASSUME UNCHANGED manifest
  PROVE  Latest' = Latest
BY DEF Latest

(* The goroutine after a WGoto. *)
LEMMA WGotoSide ==
  ASSUME TypeInv, NEW t \in WalThreads, NEW pc \in WalPc, WGoto(t, pc)
  PROVE  /\ w' \in [WalThreads -> WGoroutine]
         /\ \E r \in WGoroutine :
              /\ w' = [w EXCEPT ![t] = r]
              /\ r.pc = pc /\ r.imm = w[t].imm /\ r.tab = w[t].tab /\ r.final = w[t].final
<1>1. w \in [WalThreads -> WGoroutine]
  BY DEF TypeInv
<1> DEFINE r == [w[t] EXCEPT !.pc = pc]
<1>2. /\ r \in WGoroutine
      /\ w' = [w EXCEPT ![t] = r]
      /\ r.pc = pc /\ r.imm = w[t].imm /\ r.tab = w[t].tab /\ r.final = w[t].final
  BY <1>1, WGotoIs
<1> HIDE DEF r
<1>3. w' \in [WalThreads -> WGoroutine]
  BY <1>1, <1>2, WChange
<1> QED
  BY <1>2, <1>3

LEMMA HandTypes ==
  ASSUME TypeInv, NEW t \in WalThreads
  PROVE  /\ w[t] \in WGoroutine /\ w[t].pc \in WalPc /\ w[t].imm \in ImmWAL
         /\ w[t].imm.id \in Nat /\ w[t].imm.tab \in Table /\ w[t].tab \in Nat
         /\ w[t].final \in BOOLEAN
         /\ w[t].pc \in Busy => w[t].imm \in Wals
BY DEF TypeInv, WGoroutine, ImmWAL, Wals

LEMMA QueueTypes ==
  ASSUME TypeInv
  PROVE  /\ \A j \in DOMAIN immWALs : immWALs[j] \in ImmWAL /\ immWALs[j] \in Wals
         /\ immWALs # <<>> =>
              /\ Head(immWALs) = immWALs[1] /\ 1 \in DOMAIN immWALs
              /\ Tail(immWALs) \in Seq(ImmWAL)
              /\ \A j \in DOMAIN Tail(immWALs) :
                   j + 1 \in DOMAIN immWALs /\ Tail(immWALs)[j] = immWALs[j + 1]
<1>1. immWALs \in Seq(ImmWAL)
  BY DEF TypeInv
<1>2. \A j \in DOMAIN immWALs : immWALs[j] \in ImmWAL
  BY <1>1, SMT
<1>3. ASSUME immWALs # <<>>
      PROVE  /\ Head(immWALs) = immWALs[1] /\ 1 \in DOMAIN immWALs
             /\ Tail(immWALs) \in Seq(ImmWAL)
             /\ \A j \in DOMAIN Tail(immWALs) :
                  j + 1 \in DOMAIN immWALs /\ Tail(immWALs)[j] = immWALs[j + 1]
  BY <1>1, <1>3, SMT
<1> QED
  BY <1>2, <1>3 DEF Wals

LEMMA Returned ==
  ASSUME TypeInv, NEW t \in WalThreads
  PROVE  /\ WReturned(w[t]) \in WGoroutine
         /\ WReturned(w[t]).pc \in {"idle", "done"}
         /\ WReturned(w[t]).pc \notin Busy
<1>1. \A pc \in {"idle", "done"} : pc \in WalPc /\ pc \notin Busy
  BY DEF WalPc, Busy
<1>2. PICK pc \in {"idle", "done"} : WReturned(w[t]) = WIdle(pc)
  BY DEF WReturned
<1> QED
  BY <1>1, <1>2, IdleTypes, IdleFields

(* The two fields that PopImmWAL sets. *)
LEMMA PopIs ==
  ASSUME TypeInv, NEW t \in WalThreads, w' = [w EXCEPT ![t].pc = "apply", ![t].tab = memtable.tab]
  PROVE  \E r \in WGoroutine :
           /\ w' = [w EXCEPT ![t] = r]
           /\ r.pc = "apply" /\ r.imm = w[t].imm /\ r.tab = memtable.tab
<1>1. w[t] \in WGoroutine /\ memtable.tab \in Nat /\ "apply" \in WalPc
  BY DEF TypeInv, MemRef, WalPc
<1> DEFINE r == [w[t] EXCEPT !.pc = "apply", !.tab = memtable.tab]
<1>2. r \in WGoroutine /\ r.pc = "apply" /\ r.imm = w[t].imm /\ r.tab = memtable.tab
  BY <1>1 DEF WGoroutine
<1>3. w' = [w EXCEPT ![t] = r]
  BY <1>1
<1> HIDE DEF r
<1> QED
  BY <1>2, <1>3

(* Entries are put into one KVTable. *)
LEMMA KvtPut ==
  ASSUME kvt \in Seq(Table), NEW i \in DOMAIN kvt, NEW x \in Table,
         NEW tabs, tabs = [kvt EXCEPT ![i] = x]
  PROVE  tabs \in Seq(Table) /\ DOMAIN tabs = DOMAIN kvt
BY SMTT(30)

(* FreezeMemtable *)
LEMMA FreezeIs ==
  ASSUME TypeInv, RefInv, NEW tabs \in Seq(Table), DOMAIN tabs = DOMAIN kvt, NEW n \in Nat,
         FreezeMemtable(tabs, n)
  PROVE  /\ kvt' \in Seq(Table) /\ immMemtables' \in Seq(MemRef) /\ memtable' \in MemRef
         /\ DOMAIN kvt \subseteq DOMAIN kvt' /\ memtable'.tab \in DOMAIN kvt'
         /\ memtable'.last = 0
         /\ immMemtables' # <<>>
         /\ \A i \in DOMAIN immMemtables' :
              \/ i \in DOMAIN immMemtables /\ immMemtables'[i] = immMemtables[i]
              \/ immMemtables'[i].tab = memtable.tab /\ immMemtables'[i].last = n
         /\ \A i \in DOMAIN immMemtables' : immMemtables'[i].tab \in DOMAIN kvt'
<1>1. /\ kvt \in Seq(Table) /\ immMemtables \in Seq(MemRef) /\ memtable.tab \in Nat
      /\ memtable.tab \in DOMAIN kvt /\ EmptyTable \in Table
      /\ \A i \in DOMAIN immMemtables : immMemtables[i].tab \in DOMAIN kvt
  BY TablesType DEF TypeInv, RefInv, MemRef
<1>2. /\ immMemtables' = Append(immMemtables, [tab |-> memtable.tab, last |-> n])
      /\ kvt' = Append(tabs, EmptyTable)
      /\ memtable' = [tab |-> Len(tabs) + 1, last |-> 0]
  BY DEF FreezeMemtable
<1>3. kvt' \in Seq(Table) /\ DOMAIN kvt \subseteq DOMAIN kvt' /\ Len(tabs) + 1 \in DOMAIN kvt'
  BY <1>1, <1>2, SMT
<1>4. memtable' \in MemRef /\ memtable'.tab \in DOMAIN kvt' /\ memtable'.last = 0
  <2>1. Len(tabs) + 1 \in Nat /\ 0 \in Nat
    BY SMT
  <2> QED
    BY <1>2, <1>3, <2>1 DEF MemRef
<1>5. [tab |-> memtable.tab, last |-> n] \in MemRef
  BY <1>1 DEF MemRef
<1>6. /\ immMemtables' \in Seq(MemRef) /\ immMemtables' # <<>>
      /\ \A i \in DOMAIN immMemtables' :
           \/ i \in DOMAIN immMemtables /\ immMemtables'[i] = immMemtables[i]
           \/ immMemtables'[i] = [tab |-> memtable.tab, last |-> n]
  BY <1>1, <1>2, <1>5, SMTT(30)
<1>7. \A i \in DOMAIN immMemtables' :
        \/ i \in DOMAIN immMemtables /\ immMemtables'[i] = immMemtables[i]
        \/ immMemtables'[i].tab = memtable.tab /\ immMemtables'[i].last = n
  BY <1>6, SMT
<1>8. \A i \in DOMAIN immMemtables' : immMemtables'[i].tab \in DOMAIN kvt'
  BY <1>1, <1>3, <1>7
<1> QED
  BY <1>3, <1>4, <1>6, <1>7, <1>8

LEMMA ChAppend ==
  ASSUME ch \in Seq({"flush", "shutdown"}), NEW msg \in {"flush", "shutdown"},
         ch' = Append(ch, msg)
  PROVE  /\ ch' \in Seq({"flush", "shutdown"})
         /\ \A i \in DOMAIN ch : i \in DOMAIN ch' /\ ch'[i] = ch[i]
         /\ \E i \in DOMAIN ch' : ch'[i] = msg
<1>1. ch' \in Seq({"flush", "shutdown"})
  BY SMT
<1>2. \A i \in DOMAIN ch : i \in DOMAIN ch' /\ ch'[i] = ch[i]
  BY SMT
<1>3. Len(ch) + 1 \in DOMAIN ch' /\ ch'[Len(ch) + 1] = msg
  BY SMTT(30)
<1> QED
  BY <1>1, <1>2, <1>3

(* The head of the loop. *)
LEMMA OldestIs ==
  ASSUME NEW r0 \in WGoroutine, NEW wals \in Seq(ImmWAL), NEW r, r = OldestImmWAL(r0, wals)
  PROVE  /\ r \in WGoroutine
         /\ \/ r.pc \in {"idle", "done"} /\ r.pc \notin Busy
            \/ r.pc = "upload" /\ wals # <<>> /\ r.imm = Head(wals)
<1>1. CASE wals = <<>>
  <2>1. \A pc \in {"idle", "done"} : pc \in WalPc /\ pc \notin Busy
    BY DEF WalPc, Busy
  <2>2. PICK pc \in {"idle", "done"} : r = WIdle(pc)
    BY <1>1 DEF WReturned, OldestImmWAL
  <2> QED
    BY <2>1, <2>2, IdleTypes, IdleFields
<1>2. CASE wals # <<>>
  <2>1. r = [r0 EXCEPT !.pc = "upload", !.imm = Head(wals)]
    BY <1>2 DEF OldestImmWAL
  <2>2. Head(wals) \in ImmWAL /\ "upload" \in WalPc
    BY <1>2, SMT DEF WalPc
  <2>3. r \in WGoroutine /\ r.pc = "upload" /\ r.imm = Head(wals)
    BY <2>1, <2>2 DEF WGoroutine
  <2> QED
    BY <1>2, <2>3
<1> QED
  BY <1>1, <1>2

LEMMA QueueGrows ==
  ASSUME immWALs \in Seq(ImmWAL), NEW x \in ImmWAL, immWALs' = Append(immWALs, x)
  PROVE  /\ immWALs' \in Seq(ImmWAL) /\ immWALs' # <<>>
         /\ immWALs # <<>> => Head(immWALs') = Head(immWALs)
         /\ \A j \in DOMAIN immWALs : j \in DOMAIN immWALs' /\ immWALs'[j] = immWALs[j]
         /\ Len(immWALs) + 1 \in DOMAIN immWALs' /\ immWALs'[Len(immWALs) + 1] = x
         /\ \A j \in DOMAIN immWALs' : j \in DOMAIN immWALs \/ j = Len(immWALs) + 1
         /\ \A j \in DOMAIN immWALs : j < Len(immWALs) + 1 /\ ~(Len(immWALs) + 1 < j)
         /\ ~(Len(immWALs) + 1 < Len(immWALs) + 1)
<1>1. immWALs' \in Seq(ImmWAL) /\ immWALs' # <<>>
  BY SMT
<1>2. immWALs # <<>> => Head(immWALs') = Head(immWALs)
  BY SMT
<1>3. \A j \in DOMAIN immWALs : j \in DOMAIN immWALs' /\ immWALs'[j] = immWALs[j]
  BY SMT
<1>4. Len(immWALs) + 1 \in DOMAIN immWALs' /\ immWALs'[Len(immWALs) + 1] = x
  BY SMT
<1>5. \A j \in DOMAIN immWALs' : j \in DOMAIN immWALs \/ j = Len(immWALs) + 1
  BY SMT
<1>6. /\ \A j \in DOMAIN immWALs : j < Len(immWALs) + 1 /\ ~(Len(immWALs) + 1 < j)
      /\ ~(Len(immWALs) + 1 < Len(immWALs) + 1)
  BY SMT
<1> QED
  BY <1>1, <1>2, <1>3, <1>4, <1>5, <1>6

LEMMA BumpNext ==
  ASSUME NEW c \in ValidCore, NEW d, d = [c EXCEPT !.nextWalSstID = @ + 1]
  PROVE  /\ d \in ValidCore /\ d.nextWalSstID = c.nextWalSstID + 1 /\ c.nextWalSstID \in Nat
         /\ d.nextWalSstID \in Nat /\ 0 < c.nextWalSstID
         /\ d.lastCompactedWalSSTID = c.lastCompactedWalSSTID
         /\ d.l0 = c.l0 /\ d.l0LastCompacted = c.l0LastCompacted /\ d.compacted = c.compacted
<1>1. c \in CoreState /\ c.nextWalSstID > 0 /\ c.nextWalSstID \in Nat
  BY CoreFields DEF ValidCore
<1>2. /\ c.nextWalSstID + 1 \in Nat /\ c.nextWalSstID + 1 > 0 /\ 0 < c.nextWalSstID
  BY <1>1, SMT
<1>3. /\ d \in CoreState /\ d.nextWalSstID = c.nextWalSstID + 1
      /\ d.lastCompactedWalSSTID = c.lastCompactedWalSSTID
      /\ d.l0 = c.l0 /\ d.l0LastCompacted = c.l0LastCompacted /\ d.compacted = c.compacted
  BY <1>1, <1>2 DEF CoreState
<1> QED
  BY <1>1, <1>2, <1>3 DEF ValidCore

LEMMA MemTypes ==
  ASSUME TypeInv, NEW t \in MemThreads
  PROVE  /\ m[t] \in MGoroutine(ValidManifest)
         /\ m[t].pc \in MemPc /\ m[t].why \in {"poll", "flush", "final"} /\ m[t].imm \in MemRef
         /\ m[t].imm.tab \in Nat /\ m[t].imm.last \in Nat /\ m[t].sst \in Nat
         /\ m[t].man \in ValidManifest
BY DEF TypeInv, MGoroutine, MemRef

LEMMA MGotoSide ==
  ASSUME TypeInv, NEW t \in MemThreads, NEW pc \in MemPc, MGoto(t, pc)
  PROVE  \E r \in MGoroutine(ValidManifest) :
           /\ m' = [m EXCEPT ![t] = r]
           /\ r.pc = pc /\ r.why = m[t].why /\ r.imm = m[t].imm /\ r.man = m[t].man
<1> DEFINE r == [m[t] EXCEPT !.pc = pc]
<1>1. /\ r \in MGoroutine(ValidManifest)
      /\ m' = [m EXCEPT ![t] = r]
      /\ r.pc = pc /\ r.why = m[t].why /\ r.imm = m[t].imm /\ r.man = m[t].man
  BY MGotoIs DEF TypeInv
<1> HIDE DEF r
<1> QED
  BY <1>1

(* The head of the loop of flushImmMemtablesToL0. *)
LEMMA OldestMemIs ==
  ASSUME NEW mems \in Seq(MemRef), NEW r, r = OldestImmMemtable(mems)
  PROVE  /\ r \in MGoroutine(ValidManifest)
         /\ r.man = NoManifest
         /\ \/ mems = <<>> /\ r.pc = "idle" /\ r.why = "poll" /\ r.imm = NoMem
            \/ /\ mems # <<>> /\ r.pc = "upload" /\ r.why = "flush"
               /\ 1 \in DOMAIN mems /\ r.imm = mems[1]
<1>0. "idle" \in MemPc /\ "upload" \in MemPc
  BY DEF MemPc
<1>1. CASE mems = <<>>
  <2>1. r = MIdle("idle")
    BY <1>1 DEF OldestImmMemtable
  <2>2. MIdle("idle") \in MGoroutine(ValidManifest) /\ MIdle("idle").pc = "idle"
        /\ MIdle("idle").man = NoManifest /\ MIdle("idle").why = "poll"
        /\ MIdle("idle").imm = NoMem
    BY <1>0, IdleTypes, IdleFields
  <2> HIDE DEF MIdle
  <2> QED
    BY <1>1, <2>1, <2>2
<1>2. CASE mems # <<>>
  <2>1. r = [MIdle("upload") EXCEPT !.why = "flush", !.imm = Head(mems)]
    BY <1>2 DEF OldestImmMemtable
  <2>2. Head(mems) \in MemRef /\ 1 \in DOMAIN mems /\ Head(mems) = mems[1]
    BY <1>2, SMT
  <2>3. MIdle("upload") \in MGoroutine(ValidManifest) /\ MIdle("upload").pc = "upload"
        /\ MIdle("upload").man = NoManifest
    BY <1>0, IdleTypes, IdleFields
  <2> HIDE DEF MIdle
  <2>4. /\ r \in MGoroutine(ValidManifest) /\ r.pc = "upload" /\ r.why = "flush"
        /\ r.imm = Head(mems) /\ r.man = NoManifest
    BY <2>1, <2>2, <2>3, ZenonT(60) DEF MGoroutine
  <2> QED
    BY <1>2, <2>2, <2>4
<1> QED
  BY <1>1, <1>2

LEMMA MReturnedIs ==
  ASSUME NEW r0, NEW r, r = MReturned(r0)
  PROVE  /\ r \in MGoroutine(ValidManifest) /\ r.pc \in {"idle", "done"} /\ r.why = "poll"
         /\ r.imm = NoMem /\ r.man = NoManifest
<1>1. PICK pc \in {"idle", "done"} : r = MIdle(pc)
  BY DEF MReturned
<1>2. pc \in MemPc
  BY <1>1 DEF MemPc
<1> QED
  BY <1>1, <1>2, IdleTypes, IdleFields

(* The oldest message leaves the channel. *)
LEMMA ChTail ==
  ASSUME ch \in Seq({"flush", "shutdown"}), ch # <<>>, ch' = Tail(ch)
  PROVE  /\ ch' \in Seq({"flush", "shutdown"})
         /\ Head(ch) = "shutdown" /\ (\E i \in DOMAIN ch : ch[i] = "flush")
              => \E i \in DOMAIN ch' : ch'[i] = "flush"
<1>1. ch' \in Seq({"flush", "shutdown"})
  BY SMTT(30)
<1>2. ASSUME Head(ch) = "shutdown", NEW i \in DOMAIN ch, ch[i] = "flush"
      PROVE  \E j \in DOMAIN ch' : ch'[j] = "flush"
  <2>1. i # 1
    <3>1. Head(ch) = ch[1]
      BY SMTT(30)
    <3> QED
      BY <1>2, <3>1, SMTT(30)
  <2>2. i - 1 \in DOMAIN ch' /\ ch'[i - 1] = ch[i]
    BY <2>1, SMTT(30)
  <2> QED
    BY <1>2, <2>2
<1> QED
  BY <1>1, <1>2

LEMMA MemsTail ==
  ASSUME immMemtables \in Seq(MemRef), immMemtables # <<>>, immMemtables' = Tail(immMemtables)
  PROVE  /\ immMemtables' \in Seq(MemRef)
         /\ \A i \in DOMAIN immMemtables' :
              i + 1 \in DOMAIN immMemtables /\ immMemtables'[i] = immMemtables[i + 1]
BY SMTT(30)

LEMMA LatestValid ==
  ASSUME TypeInv
  PROVE  Latest \in ValidManifest /\ Latest.id = manifest.id
<1>1. Latest \in ValidManifest
  BY ReadValid DEF TypeInv, Latest
<1>2. Latest.id = manifest.id
  BY DEF Latest, ReadManifest
<1> QED
  BY <1>1, <1>2

(* A put of a manifest: the latest one is the one put, or remains. *)
LEMMA LandIs ==
  ASSUME TypeInv, NEW man \in ValidManifest, Land(man)
  PROVE  /\ manifest' \in [id : Nat, core : ManifestV1]
         /\ Latest' \in {man, Latest}
<1>1. CASE manifest' = ManifestFile(man)
  <2>1. ManifestFile(man) \in [id : Nat, core : ManifestV1] /\ ReadManifest(ManifestFile(man)) = man
    BY FileRoundTrip
  <2> QED
    BY <1>1, <2>1 DEF Latest
<1>2. CASE manifest' = manifest
  BY <1>2 DEF Latest, TypeInv
<1> QED
  BY <1>1, <1>2 DEF Land

LEMMA IdleIs ==
  /\ IdleW \in [WalThreads -> WGoroutine] /\ IdleM \in [MemThreads -> MGoroutine(ValidManifest)]
  /\ \A t \in WalThreads : IdleW[t].pc = "idle" /\ IdleW[t].pc \notin Busy
  /\ \A t \in MemThreads : /\ IdleM[t].pc = "idle" /\ IdleM[t].why = "poll"
                           /\ IdleM[t].imm = NoMem /\ IdleM[t].man = NoManifest
<1>1. "idle" \in WalPc /\ "idle" \in MemPc /\ "idle" \notin Busy
  BY DEF WalPc, MemPc, Busy
<1>2. WIdle("idle") \in WGoroutine /\ MIdle("idle") \in MGoroutine(ValidManifest)
  BY <1>1, IdleTypes
<1>3. /\ WIdle("idle").pc = "idle" /\ MIdle("idle").pc = "idle" /\ MIdle("idle").why = "poll"
      /\ MIdle("idle").imm = NoMem /\ MIdle("idle").man = NoManifest
  BY IdleFields
<1>4. IdleW \in [WalThreads -> WGoroutine] /\ IdleM \in [MemThreads -> MGoroutine(ValidManifest)]
  BY <1>2 DEF IdleW, IdleM
<1>5. /\ \A t \in WalThreads : IdleW[t] = WIdle("idle")
      /\ \A t \in MemThreads : IdleM[t] = MIdle("idle")
  BY DEF IdleW, IdleM
<1> QED
  BY <1>1, <1>3, <1>4, <1>5

LEMMA DurableCountType ==
  ASSUME SubsetSize, log \in Seq([key : Keys, num : Nat])
  PROVE  DurableCount \in 0..Len(log)
<1>1. Len(log) \in Nat /\ DOMAIN log = 1..Len(log)
  BY SMT
<1>2. {i \in DOMAIN log : \E j \in i..Len(log) : Recovered(log[j].key) = log[j].num}
        \in SUBSET (1..Len(log))
  BY <1>1
<1> QED
  BY <1>1, <1>2 DEF DurableCount, SubsetSize

(* What a process starts with, and what a crash leaves. *)
LEMMA FreshTypes ==
  /\ EmptyTable \in Table /\ <<>> \in Seq(ImmWAL) /\ <<EmptyTable>> \in Seq(Table)
  /\ [tab |-> 1, last |-> 0] \in MemRef /\ [tab |-> 1, last |-> 0].tab = 1
  /\ [tab |-> 1, last |-> 0].last = 0
  /\ 1 \in DOMAIN <<EmptyTable>>
  /\ <<>> \in Seq(MemRef) /\ <<>> \in Seq({"flush", "shutdown"})
  /\ NewCoreDBState \in ValidCore /\ NewCoreDBState.lastCompactedWalSSTID = 0
  /\ NoManifest \in ValidManifest
  /\ DOMAIN <<>> = {}
<1>1. EmptyTable \in Table
  BY TablesType
<1>2. /\ <<>> \in Seq(ImmWAL) /\ <<>> \in Seq(MemRef) /\ <<>> \in Seq({"flush", "shutdown"})
      /\ DOMAIN <<>> = {}
  BY SMT
<1>3. <<EmptyTable>> \in Seq(Table) /\ 1 \in DOMAIN <<EmptyTable>>
  BY <1>1, SMT
<1>4. [tab |-> 1, last |-> 0] \in MemRef
  BY SMT DEF MemRef
<1>5. NewCoreDBState \in ValidCore /\ NewCoreDBState.lastCompactedWalSSTID = 0
      /\ NoManifest \in ValidManifest
  BY NewCoreValid, IdleTypes DEF NewCoreDBState
<1> QED
  BY <1>1, <1>2, <1>3, <1>4, <1>5

(* One turn of the replay, in terms of the KVTables and the memtables. *)
LEMMA ReplayEntriesIs ==
  ASSUME TypeInv, RefInv, NEW id \in Nat, NEW entries \in Table, ReplayEntries(id, entries)
  PROVE  /\ kvt' \in Seq(Table) /\ immMemtables' \in Seq(MemRef) /\ memtable' \in MemRef
         /\ ch' \in Seq({"flush", "shutdown"})
         /\ DOMAIN kvt \subseteq DOMAIN kvt' /\ memtable'.tab \in DOMAIN kvt'
         /\ \A i \in DOMAIN immMemtables' : immMemtables'[i].tab \in DOMAIN kvt'
         /\ memtable'.last \in {0, memtable.last}
         /\ \A i \in DOMAIN immMemtables' :
              \/ i \in DOMAIN immMemtables /\ immMemtables'[i] = immMemtables[i]
              \/ immMemtables'[i].last = id
         /\ \/ UNCHANGED <<immMemtables, ch>>
            \/ \E i \in DOMAIN ch' : ch'[i] = "flush"
<1> DEFINE t == PutAll(entries, kvt[memtable.tab])
           tabs == [kvt EXCEPT ![memtable.tab] = t]
<1>1. /\ kvt \in Seq(Table) /\ memtable.tab \in DOMAIN kvt /\ ch \in Seq({"flush", "shutdown"})
      /\ memtable \in MemRef /\ immMemtables \in Seq(MemRef)
      /\ \A i \in DOMAIN immMemtables : immMemtables[i].tab \in DOMAIN kvt
      /\ "flush" \in {"flush", "shutdown"}
  BY DEF TypeInv, RefInv
<1>2. t \in Table
  <2>1. kvt[memtable.tab] \in Table
    BY <1>1, SMT
  <2> QED
    BY <2>1, TablesType
<1>3. \/ kvt' = tabs /\ UNCHANGED <<memtable, immMemtables, ch>>
      \/ FreezeMemtable(tabs, id) /\ ch' = Append(ch, "flush")
  BY DEF ReplayEntries
<1> HIDE DEF t
<1>4. tabs \in Seq(Table) /\ DOMAIN tabs = DOMAIN kvt
  BY <1>1, <1>2, KvtPut
<1> HIDE DEF tabs
<1>5. CASE kvt' = tabs /\ UNCHANGED <<memtable, immMemtables, ch>>
  BY <1>1, <1>4, <1>5
<1>6. CASE FreezeMemtable(tabs, id) /\ ch' = Append(ch, "flush")
  <2>1. ch' \in Seq({"flush", "shutdown"}) /\ \E i \in DOMAIN ch' : ch'[i] = "flush"
    BY <1>1, <1>6, ChAppend
  <2>2. /\ kvt' \in Seq(Table) /\ immMemtables' \in Seq(MemRef) /\ memtable' \in MemRef
        /\ DOMAIN kvt \subseteq DOMAIN kvt' /\ memtable'.tab \in DOMAIN kvt'
        /\ memtable'.last = 0
        /\ \A i \in DOMAIN immMemtables' :
             \/ i \in DOMAIN immMemtables /\ immMemtables'[i] = immMemtables[i]
             \/ immMemtables'[i].tab = memtable.tab /\ immMemtables'[i].last = id
        /\ \A i \in DOMAIN immMemtables' : immMemtables'[i].tab \in DOMAIN kvt'
    BY <1>4, <1>6, FreezeIs
  <2> QED
    BY <2>1, <2>2
<1> QED
  BY <1>3, <1>5, <1>6

=============================================================================
