----------------------------- MODULE StoreProofs -----------------------------
(***************************************************************************)
(* Proofs about the two kinds of object the store holds:                   *)
(*  - the rows and blocks of an SST (SSTFormat), for any number of rows;   *)
(*    they speak of the code for keys of less than 2^16 bytes, whose       *)
(*    lengths fit into the 16 bits that a row has for them;                *)
(*  - the manifests (ManifestStore), for any sets of writers and           *)
(*    compactors and any bound on the ids.                                 *)
(***************************************************************************)
EXTENDS SSTFormat, ManifestStore, SequenceTheorems, WellFoundedInduction, TLAPS

-----------------------------------------------------------------------------
(* Rows and blocks *)

Key == Seq(Nat)

(* computePrefixLen finds a prefix that both keys have. *)
LEMMA PrefixLen ==
  ASSUME NEW lhs \in Key, NEW rhs \in Key
  PROVE  /\ ComputePrefixLen(lhs, rhs) \in 0..Len(rhs)
         /\ CommonPrefix(lhs, rhs, ComputePrefixLen(lhs, rhs))
<1> DEFINE T == {n \in Nat : ~CommonPrefix(lhs, rhs, n + 1)}
<1>0. Len(lhs) \in Nat /\ Len(rhs) \in Nat
  BY DEF Key
<1>1. Len(rhs) \in T
  BY <1>0 DEF CommonPrefix
<1>2. \E x \in T : \A y \in T : ~(<<y, x>> \in OpToRel(<, Nat))
  BY <1>1, WFMin, NatLessThanWellFounded, Zenon
<1>3. PICK x \in T : \A y \in T : ~(<<y, x>> \in OpToRel(<, Nat))
  BY <1>2, Zenon
<1>4. \A y \in T : ~(y < x)
  BY <1>3, Zenon DEF OpToRel
<1>5. CommonPrefix(lhs, rhs, x)
  <2>1. CASE x = 0
    BY <1>0, <2>1 DEF CommonPrefix
  <2>2. CASE x # 0
    <3>1. x - 1 \in Nat /\ x - 1 < x /\ (x - 1) + 1 = x
      BY <2>2
    <3> QED
      BY <1>4, <3>1
  <2> QED BY <2>1, <2>2, Zenon
<1>6. x \in 0..Len(rhs)
  BY <1>0, <1>5 DEF CommonPrefix
<1>7. \E n \in 0..Len(rhs) : CommonPrefix(lhs, rhs, n) /\ ~CommonPrefix(lhs, rhs, n + 1)
  BY <1>3, <1>5, <1>6, Zenon
<1> QED
  BY <1>7 DEF ComputePrefixLen

(* A key is put together again from what it shares with the first key of    *)
(* its block and from its own suffix (v0FullKey after Encode), as long as   *)
(* its length fits into 16 bits.                                            *)
THEOREM RowRoundTrip ==
  ASSUME NEW firstKey \in Key, NEW e, e.key \in Key
  PROVE  FullKey(EncodeRow(firstKey, e), firstKey) = e.key
<1> DEFINE key == e.key
<1> DEFINE n == ComputePrefixLen(firstKey, key)
<1>1. key \in Seq(Nat) /\ firstKey \in Seq(Nat) /\ Len(key) \in Nat /\ Len(firstKey) \in Nat
  BY DEF Key
<1>2. n \in 0..Len(key) /\ CommonPrefix(firstKey, key, n)
  BY PrefixLen, Zenon
<1>3. FullKey(EncodeRow(firstKey, e), firstKey) =
        SubSeq(firstKey, 1, n) \o SubSeq(key, n + 1, Len(key))
  BY Zenon DEF FullKey, EncodeRow
<1> HIDE DEF key, n
<1>4. /\ n \in Int /\ n <= Len(firstKey) /\ n <= Len(key)
      /\ \A i \in 1..n : firstKey[i] = key[i]
  <2>1. n <= Len(firstKey) /\ n <= Len(key) /\ \A i \in 1..n : firstKey[i] = key[i]
    BY <1>2, Zenon DEF CommonPrefix
  <2>2. n \in Int
    BY <1>1, <1>2
  <2> QED
    BY <2>1, <2>2, Zenon
<1>5. SubSeq(firstKey, 1, n) = SubSeq(key, 1, n)
  <2>1. /\ SubSeq(firstKey, 1, n) \in Seq(Nat)
        /\ Len(SubSeq(firstKey, 1, n)) = n
        /\ \A i \in 1..n : SubSeq(firstKey, 1, n)[i] = firstKey[i]
    BY <1>1, <1>2, <1>4
  <2>2. /\ SubSeq(key, 1, n) \in Seq(Nat)
        /\ Len(SubSeq(key, 1, n)) = n
        /\ \A i \in 1..n : SubSeq(key, 1, n)[i] = key[i]
    BY <1>1, <1>2, <1>4
  <2> QED
    BY <1>4, <2>1, <2>2, SeqEqual, Zenon
<1>6. SubSeq(key, 1, n) \o SubSeq(key, n + 1, Len(key)) = SubSeq(key, 1, Len(key))
  <2>1. 1 \in 1..Len(key) + 1 /\ n \in 1 - 1..Len(key) /\ Len(key) \in n..Len(key)
    BY <1>1, <1>2
  <2> QED
    BY <1>1, <2>1, ConcatAdjacentSubSeq, Zenon
<1>7. SubSeq(key, 1, Len(key)) = key
  BY <1>1, SubSeqFull
<1> QED
  BY <1>3, <1>5, <1>6, <1>7, Zenon DEF key

-----------------------------------------------------------------------------
Entry == [key : Key, kind : {"put", "tomb"}, value : Nat]
Row == [keyPrefixLen : Nat, keySuffix : Key, tombstone : BOOLEAN, value : Nat]

(* What is kept of an entry: a tombstone has no value. *)
Kept(e) == [key |-> e.key, kind |-> e.kind, value |-> IF e.kind = "tomb" THEN 0 ELSE e.value]

LEMMA EncodeRowType ==
  ASSUME NEW firstKey \in Key, NEW e \in Entry
  PROVE  EncodeRow(firstKey, e) \in Row
<1> DEFINE n == ComputePrefixLen(firstKey, e.key)
<1>1. e.key \in Key /\ e.kind \in {"put", "tomb"} /\ e.value \in Nat
  BY DEF Entry
<1>2. n \in 0..Len(e.key) /\ Len(e.key) \in Nat
  BY <1>1, PrefixLen DEF Key
<1>3. SubSeq(e.key, n + 1, Len(e.key)) \in Key
  <2> HIDE DEF n
  <2>1. /\ n + 1 \in Int /\ Len(e.key) \in Int
        /\ \A i \in n + 1..Len(e.key) : e.key[i] \in Nat
    BY <1>1, <1>2, SMTT(30) DEF Key
  <2> QED BY <2>1, SubSeqProperties, Zenon DEF Key
<1> QED
  BY <1>1, <1>2, <1>3 DEF EncodeRow, Row

(* A row decodes to its entry, given the first key it was encoded with. *)
LEMMA RowDecodes ==
  ASSUME NEW firstKey \in Key, NEW e \in Entry
  PROVE  DecodeRow(EncodeRow(firstKey, e), firstKey) = Kept(e)
<1>1. e.key \in Key /\ e.kind \in {"put", "tomb"}
  BY DEF Entry
<1>2. FullKey(EncodeRow(firstKey, e), firstKey) = e.key
  BY <1>1, RowRoundTrip
<1>3. /\ EncodeRow(firstKey, e).tombstone = (e.kind = "tomb")
      /\ EncodeRow(firstKey, e).value = IF e.kind = "tomb" THEN 0 ELSE e.value
  BY DEF EncodeRow
<1> QED
  BY <1>1, <1>2, <1>3, Zenon DEF DecodeRow, Kept

(* The first row of a block shares nothing, so its suffix is its key,       *)
(* whatever first key it is decoded with (firstFullKey).                    *)
LEMMA FirstRow ==
  ASSUME NEW e \in Entry, NEW firstKey \in Key
  PROVE  FullKey(EncodeRow(<<>>, e), firstKey) = e.key
<1> DEFINE row == EncodeRow(<<>>, e)
<1>1. e.key \in Key /\ <<>> \in Key
  BY DEF Entry, Key
<1>2. ComputePrefixLen(<<>>, e.key) = 0
  <2> DEFINE n == ComputePrefixLen(<<>>, e.key)
  <2>1. n \in 0..Len(e.key) /\ CommonPrefix(<<>>, e.key, n)
    BY <1>1, PrefixLen, Zenon
  <2> HIDE DEF n
  <2>2. n \in Nat /\ n <= Len(<<>>) /\ Len(<<>>) = 0
    BY <1>1, <2>1 DEF CommonPrefix, Key
  <2> QED BY <2>2 DEF n
<1>3. row.keyPrefixLen = 0
  BY <1>2 DEF EncodeRow
<1>4. FullKey(row, <<>>) = e.key
  BY <1>1, RowRoundTrip
<1> HIDE DEF row
<1>5. SubSeq(firstKey, 1, 0) = <<>> /\ SubSeq(<<>>, 1, 0) = <<>>
  BY SubSeqEmpty
<1> QED
  BY <1>3, <1>4, <1>5 DEF FullKey, row

(* A block that was given these entries (Builder.Add of block.go): all rows *)
(* but the first are encoded with the key of the first.                     *)
BlockOf(b, entries) ==
  /\ b.rows \in Seq(Row) /\ Len(b.rows) = Len(entries)
  /\ b.firstKey = IF entries = <<>> THEN <<>> ELSE entries[1].key
  /\ \A i \in 1..Len(entries) :
       b.rows[i] = EncodeRow(IF i = 1 THEN <<>> ELSE entries[1].key, entries[i])

(* A new block holds nothing (NewBuilder of block.go). *)
LEMMA NewBlockOf == BlockOf(NewBlock, <<>>)
BY DEF BlockOf, NewBlock

(* Adding an entry keeps the form of the block: together with NewBlockOf,   *)
(* a block has it after any number of Adds.                                 *)
LEMMA BlockAddOf ==
  ASSUME NEW b, NEW entries \in Seq(Entry), BlockOf(b, entries), NEW e \in Entry
  PROVE  BlockOf(BlockAdd(b, e), Append(entries, e))
<1> DEFINE n == Len(entries)
<1> DEFINE more == Append(entries, e)
<1> DEFINE row == EncodeRow(b.firstKey, e)
<1>1. n \in Nat /\ (n = 0 <=> entries = <<>>) /\ (n = 0 <=> b.rows = <<>>)
  BY DEF BlockOf
<1>2. /\ Len(more) = n + 1 /\ more # <<>> /\ more[n + 1] = e
      /\ \A i \in 1..n : more[i] = entries[i]
  BY AppendProperties
<1>3. e.key \in Key /\ \A i \in 1..n : entries[i].key \in Key
  <2>1. \A i \in 1..n : entries[i] \in Entry
    OBVIOUS
  <2> QED BY <2>1 DEF Entry
<1>4. b.firstKey \in Key
  BY <1>1, <1>3 DEF BlockOf, Key
<1>5. row \in Row
  BY <1>4, EncodeRowType, Zenon
<1>6. /\ BlockAdd(b, e).rows = Append(b.rows, row)
      /\ BlockAdd(b, e).firstKey = IF b.rows = <<>> THEN e.key ELSE b.firstKey
  BY DEF BlockAdd
<1>7. row = EncodeRow(IF n + 1 = 1 THEN <<>> ELSE more[1].key, e)
  <2>1. b.firstKey = IF n + 1 = 1 THEN <<>> ELSE more[1].key
    <3> HIDE DEF more
    <3> QED BY <1>1, <1>2 DEF BlockOf
  <2> QED BY <2>1
<1> HIDE DEF row, more, n
<1>8. /\ Append(b.rows, row) \in Seq(Row) /\ Len(Append(b.rows, row)) = n + 1
      /\ Append(b.rows, row)[n + 1] = row
      /\ \A i \in 1..n : Append(b.rows, row)[i] = b.rows[i]
  BY <1>5, AppendProperties DEF BlockOf, n
<1>9. BlockAdd(b, e).firstKey = more[1].key
  BY <1>1, <1>2, <1>6 DEF BlockOf, n
<1>10. ASSUME NEW i \in 1..n + 1
       PROVE  Append(b.rows, row)[i] = EncodeRow(IF i = 1 THEN <<>> ELSE more[1].key, more[i])
  <2>1. CASE i = n + 1
    BY <1>2, <1>7, <1>8, <2>1, Zenon
  <2>2. CASE i # n + 1
    <3>1. i \in 1..n /\ 1 \in 1..n
      BY <1>1, <2>2
    <3>2. b.rows[i] = EncodeRow(IF i = 1 THEN <<>> ELSE entries[1].key, entries[i])
      BY <3>1 DEF BlockOf, n
    <3>3. more[1] = entries[1] /\ more[i] = entries[i]
      BY <1>2, <3>1, Zenon
    <3> QED BY <1>8, <3>1, <3>2, <3>3, Zenon
  <2> QED BY <2>1, <2>2, Zenon
<1>11. BlockOf(BlockAdd(b, e), more)
  BY <1>2, <1>6, <1>8, <1>9, <1>10, ZenonT(60) DEF BlockOf
<1> QED BY <1>11 DEF more

(* The entries of a block come back as they were added, all of them and in  *)
(* their order (Iterator.NextEntry of block/iterator.go after Builder.Add), *)
(* whichever prefixes their keys share, as long as these have less than     *)
(* 2^16 bytes.                                                              *)
THEOREM BlockRoundTrip ==
  ASSUME NEW b, NEW entries \in Seq(Entry), BlockOf(b, entries)
  PROVE  DecodeBlock(b.rows) = [i \in 1..Len(entries) |-> Kept(entries[i])]
<1> DEFINE n == Len(entries)
<1>1. DOMAIN b.rows = 1..n /\ n \in Nat
  BY LenProperties DEF BlockOf
<1>2. ASSUME NEW i \in 1..n
      PROVE  DecodeRow(b.rows[i], FullKey(b.rows[1], <<>>)) = Kept(entries[i])
  <2> DEFINE first == entries[1]
  <2>1. 1 \in 1..n /\ first \in Entry /\ entries[i] \in Entry /\ <<>> \in Key
    BY <1>1 DEF Key
  <2>2. first.key \in Key
    BY <2>1 DEF Entry
  <2>3. /\ b.rows[1] = EncodeRow(<<>>, first)
        /\ b.rows[i] = EncodeRow(IF i = 1 THEN <<>> ELSE first.key, entries[i])
    BY <2>1 DEF BlockOf
  <2> HIDE DEF first
  <2>4. FullKey(b.rows[1], <<>>) = first.key
    BY <2>1, <2>3, FirstRow, Zenon
  <2>5. CASE i # 1
    BY <2>1, <2>2, <2>3, <2>4, <2>5, RowDecodes, Zenon
  <2>6. CASE i = 1
    <3>1. FullKey(b.rows[1], first.key) = FullKey(b.rows[1], <<>>)
      BY <2>1, <2>2, <2>3, <2>4, FirstRow, Zenon
    <3>2. DecodeRow(b.rows[1], first.key) = DecodeRow(b.rows[1], <<>>)
      BY <3>1 DEF DecodeRow
    <3>3. DecodeRow(b.rows[1], <<>>) = Kept(first)
      BY <2>1, <2>3, RowDecodes
    <3> QED BY <2>4, <2>6, <3>2, <3>3, Zenon DEF first
  <2> QED BY <2>5, <2>6
<1> QED
  BY <1>1, <1>2, Zenon DEF DecodeBlock

-----------------------------------------------------------------------------
(* Manifests *)

(* c holds a manifest that it has read or written. *)
Holds(c) ==
  \/ pc[c] \in {"bump", "idle", "refreshing", "panicked"}
  \/ pc[c] \in {"exists", "upload"} /\ pending[c].why # "create"

(* A put goes to id 1 or to the id after the one held, which is there.      *)
Placed(c) ==
  /\ Holds(c) => sid[c] \in DOMAIN manifests
  /\ pc[c] \in {"opening", "refreshing"} => listed[c] \in DOMAIN manifests
  /\ pc[c] \in {"exists", "upload"} =>
       pending[c].id = IF pending[c].why = "create" THEN 1 ELSE sid[c] + 1

(* What c holds is what the bucket holds, what it writes next follows from  *)
(* it, and its epoch is not above the stored one.                           *)
Faithful(c) ==
  /\ Holds(c) => /\ stored[c] = manifests[sid[c]]
                 /\ localEpoch[c] <= Epoch(c, stored[c])
  /\ ~Holds(c) => localEpoch[c] = 0
  /\ pc[c] = "refreshing" => sid[c] <= listed[c]
  /\ pc[c] \in {"exists", "upload"} =>
       pending[c].manifest = CASE pending[c].why = "create" -> NoManifest
                               [] pending[c].why = "bump" -> BumpEpoch(c, stored[c])
                               [] OTHER -> stored[c]
  /\ pc[c] # "panicked"

IdsInv ==
  /\ TypeOK
  /\ IdsConsecutive
  /\ \A c \in Clients : Placed(c)

EpochInv ==
  /\ IdsInv
  /\ ~overwrote => \A c \in Clients : Faithful(c)
  /\ EpochsMonotone
  /\ EpochsUnique

-----------------------------------------------------------------------------
(* Types *)

LEMMA TypedManifests ==
  /\ NoManifest \in Manifest
  /\ NoPut \in Put
  /\ \A c, m : m \in Manifest => Epoch(c, m) \in Nat /\ BumpEpoch(c, m) \in Manifest
BY DEF NoManifest, NoPut, Manifest, Put, Epoch, BumpEpoch

LEMMA TypePutFails ==
  ASSUME TypeOK, NEW c \in Clients, PutFails(c)
  PROVE  /\ pc' \in [Clients -> PCs]
         /\ sid' \in [Clients -> Nat]
         /\ stored' \in [Clients -> Manifest]
         /\ localEpoch' \in [Clients -> Nat]
         /\ listed' \in [Clients -> Nat]
         /\ pending' \in [Clients -> Put]
BY TypedManifests DEF TypeOK, PutFails, Forget, Goto, PCs, Resting

LEMMA TypeLand ==
  ASSUME TypeOK, NEW c \in Clients, Land(c)
  PROVE  /\ manifests' \in [DOMAIN manifests' -> Manifest]
         /\ DOMAIN manifests' \subseteq Nat
         /\ overwrote' \in BOOLEAN
<1>1. pending[c].id \in Nat /\ pending[c].manifest \in Manifest
  BY DEF TypeOK, Put
<1>2. /\ manifests' \in [DOMAIN manifests' -> Manifest]
      /\ DOMAIN manifests' \subseteq Nat
  BY <1>1 DEF TypeOK, Land
<1>3. overwrote' \in BOOLEAN
  BY Zenon DEF TypeOK, Land
<1> QED
  BY <1>2, <1>3

(* A step of c that leaves the bucket alone. *)
LEMMA LocalStep ==
  ASSUME IdsInv, NEW c \in Clients, TypeOK', UNCHANGED manifests, Placed(c)',
         \A d \in Clients \ {c} : /\ pc'[d] = pc[d]
                                  /\ sid'[d] = sid[d]
                                  /\ listed'[d] = listed[d]
                                  /\ pending'[d] = pending[d]
  PROVE  IdsInv'
<1>1. IdsConsecutive'
  BY DEF IdsInv, IdsConsecutive
<1>2. ASSUME NEW d \in Clients
      PROVE  Placed(d)'
  BY DEF IdsInv, Placed, Holds
<1> QED
  BY <1>1, <1>2 DEF IdsInv

LEMMA PutFailsPlaced ==
  ASSUME IdsInv, NEW c \in Clients, PutFails(c), pc[c] \in {"exists", "upload"},
         DOMAIN manifests \subseteq DOMAIN manifests'
  PROVE  \A d \in Clients : Placed(d)'
<1>1. ASSUME NEW d \in Clients, d # c
      PROVE  Placed(d)'
  BY <1>1 DEF IdsInv, TypeOK, Placed, Holds, PutFails, Forget, Goto
<1>2. Placed(c)'
  BY DEF IdsInv, TypeOK, Placed, Holds, PutFails, Forget, Goto, NoPut
<1> QED
  BY <1>1, <1>2

(* An upload adds the id after one that is there, or id 1. *)
LEMMA LandConsecutive ==
  ASSUME IdsInv, NEW c \in Clients, Land(c), pc[c] = "upload"
  PROVE  /\ IdsConsecutive'
         /\ DOMAIN manifests' = DOMAIN manifests \cup {pending[c].id}
<1>1. DOMAIN manifests' = DOMAIN manifests \cup {pending[c].id}
  BY DEF Land
<1>2. pending[c].id = 1 \/ (sid[c] \in DOMAIN manifests /\ pending[c].id = sid[c] + 1)
  BY DEF IdsInv, Placed, Holds
<1>3. DOMAIN manifests \subseteq Nat
  BY DEF IdsInv, TypeOK
<1>4. ASSUME NEW i \in DOMAIN manifests'
      PROVE  i >= 1 /\ \A j \in 1 .. i : j \in DOMAIN manifests'
  <2>1. CASE i \in DOMAIN manifests
    BY <1>1, <1>3, <2>1 DEF IdsInv, IdsConsecutive
  <2>2. CASE i = 1
    BY <1>1, <2>2
  <2>3. CASE sid[c] \in DOMAIN manifests /\ i = sid[c] + 1
    <3>1. \A j \in 1 .. sid[c] : j \in DOMAIN manifests
      BY <2>3 DEF IdsInv, IdsConsecutive
    <3>2. sid[c] \in Nat
      BY <1>3, <2>3
    <3> QED
      BY <1>1, <2>3, <3>1, <3>2
  <2> QED
    BY <1>1, <1>2, <2>1, <2>2, <2>3
<1> QED
  BY <1>1, <1>4 DEF IdsConsecutive

LEMMA IdsStep ==
  ASSUME IdsInv, [Next]_vars
  PROVE  IdsInv'
<1> USE DEF Goto
<1>1. ASSUME NEW c \in Clients, OpenList(c)
      PROVE  IdsInv'
  <2>1. TypeOK'
    BY <1>1, ZenonT(60) DEF IdsInv, TypeOK, OpenList, IsLatest, PCs
  <2>2. Placed(c)'
    BY <1>1 DEF IdsInv, TypeOK, OpenList, Placed, Holds
  <2> QED
    BY <1>1, <2>1, <2>2, LocalStep, Zenon DEF IdsInv, TypeOK, OpenList
<1>2. ASSUME NEW c \in Clients, OpenGet(c)
      PROVE  IdsInv'
  <2>1. listed[c] \in DOMAIN manifests
    BY <1>2 DEF IdsInv, Placed, OpenGet
  <2>2. TypeOK'
    BY <1>2, <2>1 DEF IdsInv, TypeOK, OpenGet, PCs, Resting
  <2>3. Placed(c)'
    BY <1>2, <2>1, Zenon DEF IdsInv, TypeOK, OpenGet, Placed, Holds
  <2> QED
    BY <1>2, <2>2, <2>3, LocalStep DEF IdsInv, TypeOK, OpenGet
<1>3. ASSUME NEW c \in Clients, Create(c)
      PROVE  IdsInv'
  <2>1. TypeOK'
    BY <1>3, TypedManifests, Zenon DEF IdsInv, TypeOK, Create, PCs, Put
  <2>2. Placed(c)'
    BY <1>3, Zenon DEF IdsInv, TypeOK, Create, Placed, Holds
  <2> QED
    BY <1>3, <2>1, <2>2, LocalStep, Zenon DEF IdsInv, TypeOK, Create
<1>4. ASSUME NEW c \in Clients, Bump(c)
      PROVE  IdsInv'
  <2>1. [id |-> sid[c] + 1, manifest |-> BumpEpoch(c, stored[c]), why |-> "bump"] \in Put
    BY TypedManifests DEF IdsInv, TypeOK, Put
  <2>2. TypeOK'
    BY <1>4, <2>1, Zenon DEF IdsInv, TypeOK, Bump, PCs
  <2>3. Placed(c)'
    BY <1>4, Zenon DEF IdsInv, TypeOK, Bump, Placed, Holds
  <2> QED
    BY <1>4, <2>2, <2>3, LocalStep DEF IdsInv, TypeOK, Bump
<1>5. ASSUME NEW c \in Clients, RefreshList(c)
      PROVE  IdsInv'
  <2>1. TypeOK'
    BY <1>5 DEF IdsInv, TypeOK, RefreshList, IsLatest, PCs
  <2>2. Placed(c)'
    BY <1>5, Zenon DEF IdsInv, TypeOK, RefreshList, Placed, Holds
  <2> QED
    BY <1>5, <2>1, <2>2, LocalStep, Zenon DEF IdsInv, TypeOK, RefreshList
<1>6. ASSUME NEW c \in Clients, RefreshGet(c)
      PROVE  IdsInv'
  <2>1. listed[c] \in DOMAIN manifests
    BY <1>6 DEF IdsInv, Placed, RefreshGet
  <2>2. TypeOK'
    BY <1>6, <2>1 DEF IdsInv, TypeOK, RefreshGet, PCs, Resting
  <2>3. Placed(c)'
    BY <1>6, <2>1, Zenon DEF IdsInv, TypeOK, RefreshGet, Placed, Holds
  <2> QED
    BY <1>6, <2>2, <2>3, LocalStep, Zenon DEF IdsInv, TypeOK, RefreshGet
<1>7. ASSUME NEW c \in Clients, UpdateDBState(c)
      PROVE  IdsInv'
  <2>1. [id |-> sid[c] + 1, manifest |-> stored[c], why |-> "update"] \in Put
    BY DEF IdsInv, TypeOK, Put
  <2>2. TypeOK'
    BY <1>7, <2>1, ZenonT(60) DEF IdsInv, TypeOK, UpdateDBState, PCs, Resting
  <2>3. Placed(c)'
    BY <1>7 DEF IdsInv, TypeOK, UpdateDBState, Placed, Holds
  <2> QED
    BY <1>7, <2>2, <2>3, LocalStep, Zenon DEF IdsInv, TypeOK, UpdateDBState
<1>8. ASSUME NEW c \in Clients, Exists(c)
      PROVE  IdsInv'
  <2>1. CASE PutFails(c)
    <3>1. TypeOK'
      BY <1>8, <2>1, TypePutFails DEF IdsInv, TypeOK, Exists
    <3>2. \A d \in Clients : Placed(d)'
      BY <1>8, <2>1, PutFailsPlaced, Zenon DEF Exists
    <3> QED
      BY <1>8, <3>1, <3>2 DEF IdsInv, IdsConsecutive, Exists
  <2>2. CASE /\ pc' = [pc EXCEPT ![c] = "upload"]
             /\ UNCHANGED <<sid, stored, localEpoch, listed, pending>>
    <3>1. TypeOK'
      BY <1>8, <2>2, Zenon DEF IdsInv, TypeOK, Exists, PCs
    <3>2. Placed(c)'
      BY <1>8, <2>2 DEF IdsInv, TypeOK, Exists, Placed, Holds
    <3> QED
      BY <1>8, <2>2, <3>1, <3>2, LocalStep DEF IdsInv, TypeOK, Exists
  <2> QED
    BY <1>8, <2>1, <2>2 DEF Exists
<1>9. ASSUME NEW c \in Clients, Upload(c)
      PROVE  IdsInv'
  <2>1. pending[c] \in Put /\ pending[c].id \in Nat /\ pending[c].manifest \in Manifest
    BY Zenon DEF IdsInv, TypeOK, Put
  <2>2. TypeOK'
    <3>1. Epoch(c, pending[c].manifest) \in Nat
      BY <2>1, TypedManifests, Zenon
    <3>2. /\ pc' \in [Clients -> PCs]
          /\ sid' \in [Clients -> Nat]
          /\ stored' \in [Clients -> Manifest]
          /\ localEpoch' \in [Clients -> Nat]
          /\ listed' \in [Clients -> Nat]
          /\ pending' \in [Clients -> Put]
      BY <1>9, <2>1, <3>1, TypedManifests DEF IdsInv, TypeOK, Upload, PCs, Resting
    <3> QED
      BY <1>9, <3>2, TypeLand DEF IdsInv, TypeOK, Upload
  <2>3. /\ IdsConsecutive'
        /\ DOMAIN manifests' = DOMAIN manifests \cup {pending[c].id}
    BY <1>9, LandConsecutive, Zenon DEF Upload
  <2>4. ASSUME NEW d \in Clients
        PROVE  Placed(d)'
    BY <1>9, <2>3 DEF IdsInv, TypeOK, Upload, Placed, Holds, NoPut
  <2> QED
    BY <2>2, <2>3, <2>4 DEF IdsInv
<1>10. ASSUME NEW c \in Clients, UploadError(c)
       PROVE  IdsInv'
  <2>1. /\ IdsConsecutive'
        /\ DOMAIN manifests \subseteq DOMAIN manifests'
        /\ manifests' \in [DOMAIN manifests' -> Manifest]
        /\ DOMAIN manifests' \subseteq Nat
        /\ overwrote' \in BOOLEAN
    <3>1. CASE Land(c)
      BY <1>10, <3>1, LandConsecutive, TypeLand, Zenon DEF IdsInv, UploadError
    <3>2. CASE UNCHANGED <<manifests, overwrote>>
      BY <3>2 DEF IdsInv, IdsConsecutive, TypeOK
    <3> QED
      BY <1>10, <3>1, <3>2 DEF UploadError
  <2>2. TypeOK'
    BY <1>10, <2>1, TypePutFails DEF IdsInv, TypeOK, UploadError
  <2>3. \A d \in Clients : Placed(d)'
    BY <1>10, <2>1, PutFailsPlaced DEF UploadError
  <2> QED
    BY <2>1, <2>2, <2>3 DEF IdsInv
<1>11. ASSUME NEW c \in Clients, CallError(c)
       PROVE  IdsInv'
  <2>1. CASE pc[c] = "exists" /\ PutFails(c)
    <3>1. TypeOK'
      BY <1>11, <2>1, TypePutFails DEF IdsInv, TypeOK, CallError
    <3>2. \A d \in Clients : Placed(d)'
      BY <1>11, <2>1, PutFailsPlaced, Zenon DEF CallError
    <3> QED
      BY <1>11, <3>1, <3>2, Zenon DEF IdsInv, IdsConsecutive, CallError
  <2>2. CASE pc[c] # "exists"
    <3>1. TypeOK'
      BY <1>11, <2>2, TypedManifests DEF IdsInv, TypeOK, CallError, Forget, PCs, Resting
    <3>2. Placed(c)'
      BY <1>11, <2>2 DEF IdsInv, TypeOK, CallError, Forget, Placed, Holds
    <3> QED
      BY <1>11, <2>2, <3>1, <3>2, LocalStep, Zenon DEF IdsInv, TypeOK, CallError, Forget
  <2> QED
    BY <1>11, <2>1, <2>2 DEF CallError
<1>12. ASSUME NEW c \in Clients, Crash(c)
       PROVE  IdsInv'
  <2>1. TypeOK'
    BY <1>12, TypedManifests, Zenon DEF IdsInv, TypeOK, Crash, Forget, PCs, Resting
  <2>2. Placed(c)'
    BY <1>12, Zenon DEF IdsInv, TypeOK, Crash, Forget, Placed, Holds
  <2> QED
    BY <1>12, <2>1, <2>2, LocalStep, Zenon DEF IdsInv, TypeOK, Crash, Forget
<1>13. CASE UNCHANGED vars
  BY <1>13 DEF IdsInv, TypeOK, IdsConsecutive, Placed, Holds, vars
<1> QED
  BY <1>1, <1>2, <1>3, <1>4, <1>5, <1>6, <1>7, <1>8, <1>9, <1>10, <1>11, <1>12, <1>13
     DEF Next

LEMMA IdsInit == Init => IdsInv
<1> SUFFICES ASSUME Init PROVE IdsInv
  OBVIOUS
<1>1. DOMAIN manifests = {}
  BY DEF Init
<1>2. TypeOK
  BY <1>1, TypedManifests, Zenon DEF Init, TypeOK, PCs, Resting
<1>3. \A c \in Clients : Placed(c)
  BY DEF Init, Placed, Holds
<1> QED
  BY <1>1, <1>2, <1>3 DEF IdsInv, IdsConsecutive

(* Every variable keeps its type, for any number of clients. *)
THEOREM TypeCorrect == Spec => []TypeOK
<1>1. Spec => []IdsInv
  BY IdsInit, IdsStep, PTL DEF Spec
<1>2. IdsInv => TypeOK
  BY DEF IdsInv
<1> QED
  BY <1>1, <1>2, PTL

(* The ids in the bucket stay consecutive from 1, even when uploads race    *)
(* (updateManifest takes "the next consecutive id").                        *)
THEOREM IdsAreConsecutive == Spec => []IdsConsecutive
<1>1. Spec => []IdsInv
  BY IdsInit, IdsStep, PTL DEF Spec
<1>2. IdsInv => IdsConsecutive
  BY DEF IdsInv
<1> QED
  BY <1>1, <1>2, PTL

-----------------------------------------------------------------------------
(* Fencing.  All of it is about behaviours in which no upload has replaced  *)
(* a manifest; putIfNotExists itself does not ensure that. *)

(* Epochs of the manifests i <= j, for one client. *)
LEMMA EpochOrder ==
  ASSUME IdsInv, EpochsMonotone, ~overwrote, NEW c,
         NEW i \in DOMAIN manifests, NEW j \in DOMAIN manifests, i <= j
  PROVE  Epoch(c, manifests[i]) <= Epoch(c, manifests[j])
BY DEF EpochsMonotone, Epoch

LEMMA BumpRaises ==
  ASSUME NEW c, NEW m \in Manifest
  PROVE  /\ Epoch(c, BumpEpoch(c, m)) = Epoch(c, m) + 1
         /\ m.writer <= BumpEpoch(c, m).writer
         /\ m.compactor <= BumpEpoch(c, m).compactor
BY DEF Manifest, Epoch, BumpEpoch

(* A step of c that leaves the bucket alone and gives c no new epoch. *)
LEMMA LocalEpochStep ==
  ASSUME EpochInv, NEW c \in Clients, IdsInv', UNCHANGED <<manifests, overwrote>>,
         ~overwrote => Faithful(c)',
         localEpoch'[c] \in {0, localEpoch[c]},
         \A d \in Clients \ {c} : /\ pc'[d] = pc[d]
                                  /\ sid'[d] = sid[d]
                                  /\ stored'[d] = stored[d]
                                  /\ localEpoch'[d] = localEpoch[d]
                                  /\ listed'[d] = listed[d]
                                  /\ pending'[d] = pending[d]
  PROVE  EpochInv'
<1>1. EpochsMonotone'
  BY DEF EpochInv, EpochsMonotone
<1>2. EpochsUnique'
  BY DEF EpochInv, EpochsUnique, IsOpen
<1>3. ASSUME ~overwrote, NEW d \in Clients \ {c}
      PROVE  Faithful(d)'
  BY <1>3 DEF EpochInv, Faithful, Holds
<1> QED
  BY <1>1, <1>2, <1>3 DEF EpochInv

LEMMA PutFailsFaithful ==
  ASSUME EpochInv, ~overwrote, NEW c \in Clients, PutFails(c),
         pc[c] \in {"exists", "upload"},
         \A i \in DOMAIN manifests : i \in DOMAIN manifests' /\ manifests'[i] = manifests[i]
  PROVE  /\ \A d \in Clients : Faithful(d)'
         /\ EpochsUnique'
<1>1. ASSUME NEW d \in Clients, d # c
      PROVE  Faithful(d)'
  BY <1>1 DEF EpochInv, IdsInv, TypeOK, Placed, Faithful, Holds, PutFails, Forget, Goto
<1>2. Faithful(c)'
  BY DEF EpochInv, IdsInv, TypeOK, Placed, Faithful, Holds, PutFails, Forget, Goto, NoPut
<1>3. EpochsUnique'
  BY ZenonT(60) DEF EpochInv, IdsInv, TypeOK, EpochsUnique, IsOpen, PutFails, Forget
<1> QED
  BY <1>1, <1>2, <1>3, Zenon

(* An upload that replaces nothing extends the manifest its client holds,   *)
(* which is then the latest.                                                *)
LEMMA LandLatest ==
  ASSUME EpochInv, NEW c \in Clients, pc[c] = "upload", Land(c), ~overwrote'
  PROVE  /\ ~overwrote
         /\ pending[c].id \notin DOMAIN manifests
         /\ manifests'[pending[c].id] = pending[c].manifest
         /\ \A i \in DOMAIN manifests : i \in DOMAIN manifests' /\ manifests'[i] = manifests[i]
         /\ IF pending[c].why = "create" THEN DOMAIN manifests = {}
            ELSE sid[c] \in DOMAIN manifests /\ \A i \in DOMAIN manifests : i <= sid[c]
<1>1. ~overwrote /\ pending[c].id \notin DOMAIN manifests
  BY Zenon DEF Land
<1>2. /\ manifests'[pending[c].id] = pending[c].manifest
      /\ \A i \in DOMAIN manifests : i \in DOMAIN manifests' /\ manifests'[i] = manifests[i]
  BY <1>1 DEF Land
<1>3. CASE pending[c].why = "create"
  <2>1. pending[c].id = 1
    BY <1>3 DEF EpochInv, IdsInv, Placed
  <2>2. ASSUME NEW i \in DOMAIN manifests
        PROVE  FALSE
    <3>1. i \in Nat /\ 1 \in 1 .. i
      BY DEF EpochInv, IdsInv, TypeOK, IdsConsecutive
    <3> QED
      BY <1>1, <2>1, <3>1 DEF EpochInv, IdsInv, IdsConsecutive
  <2> QED
    BY <1>1, <1>2, <1>3, <2>2, Zenon
<1>4. CASE pending[c].why # "create"
  <2>1. sid[c] \in DOMAIN manifests /\ pending[c].id = sid[c] + 1 /\ sid[c] \in Nat
    BY <1>4, Zenon DEF EpochInv, IdsInv, TypeOK, Placed, Holds
  <2>2. ASSUME NEW i \in DOMAIN manifests, i > sid[c]
        PROVE  FALSE
    <3>1. i \in Nat /\ sid[c] + 1 \in 1 .. i
      BY <2>1, <2>2 DEF EpochInv, IdsInv, TypeOK
    <3> QED
      BY <1>1, <2>1, <3>1 DEF EpochInv, IdsInv, IdsConsecutive
  <2> QED
    BY <1>1, <1>2, <1>4, <2>1, <2>2 DEF EpochInv, IdsInv, TypeOK
<1> QED
  BY <1>3, <1>4

LEMMA LandMonotone ==
  ASSUME EpochInv, NEW c \in Clients, pc[c] = "upload", Land(c), ~overwrote'
  PROVE  EpochsMonotone'
<1> DEFINE p == pending[c]
<1>1. DOMAIN manifests' = DOMAIN manifests \cup {p.id}
  BY DEF Land
<1>2. /\ p.id \in Nat
      /\ p.manifest \in Manifest
      /\ stored[c] \in Manifest
      /\ DOMAIN manifests \subseteq Nat
      /\ \A i \in DOMAIN manifests : manifests[i] \in Manifest
  BY Zenon DEF EpochInv, IdsInv, TypeOK, Put
<1>3. ASSUME NEW i \in DOMAIN manifests
      PROVE  /\ p.id > i
             /\ manifests[i].writer <= p.manifest.writer
             /\ manifests[i].compactor <= p.manifest.compactor
  <2>1. p.why # "create" /\ sid[c] \in DOMAIN manifests /\ i <= sid[c]
    BY LandLatest
  <2>2. p.id = sid[c] + 1 /\ Holds(c)
    BY <2>1 DEF EpochInv, IdsInv, Placed, Holds
  <2>3. /\ stored[c] = manifests[sid[c]]
        /\ p.manifest = stored[c] \/ p.manifest = BumpEpoch(c, stored[c])
    BY <2>1, <2>2, LandLatest, Zenon DEF EpochInv, Faithful
  <2>4. /\ stored[c].writer <= p.manifest.writer
        /\ stored[c].compactor <= p.manifest.compactor
        /\ stored[c].writer \in Nat /\ stored[c].compactor \in Nat
        /\ p.manifest.writer \in Nat /\ p.manifest.compactor \in Nat
    BY <1>2, <2>3, BumpRaises DEF Manifest
  <2>5. /\ manifests[i].writer <= stored[c].writer
        /\ manifests[i].compactor <= stored[c].compactor
        /\ manifests[i].writer \in Nat /\ manifests[i].compactor \in Nat
    BY <1>2, <2>1, <2>3, LandLatest, Zenon DEF EpochInv, EpochsMonotone, Manifest
  <2>6. p.id > i
    BY <1>2, <2>1, <2>2
  <2> QED
    BY <2>4, <2>5, <2>6
<1>4. ASSUME NEW i \in DOMAIN manifests', NEW j \in DOMAIN manifests', i <= j
      PROVE  /\ manifests'[i].writer <= manifests'[j].writer
             /\ manifests'[i].compactor <= manifests'[j].compactor
  <2>1. CASE i \in DOMAIN manifests /\ j \in DOMAIN manifests
    BY <1>4, <2>1, LandLatest, Zenon DEF EpochInv, EpochsMonotone
  <2>2. CASE i \in DOMAIN manifests /\ j = p.id
    BY <1>3, <2>2, LandLatest, Zenon
  <2>3. CASE i = p.id /\ j \in DOMAIN manifests
    BY <1>2, <1>3, <1>4, <2>3
  <2>4. CASE i = p.id /\ j = p.id
    BY <1>2, <2>4, LandLatest DEF Manifest
  <2> QED
    BY <1>1, <2>1, <2>2, <2>3, <2>4, Zenon
<1> QED
  BY <1>4 DEF EpochsMonotone

(* After an upload that replaces nothing every other client is as faithful *)
(* to the bucket as before.                                                *)
LEMMA LandOthers ==
  ASSUME EpochInv, NEW c \in Clients, pc[c] = "upload", Land(c), ~overwrote',
         NEW d \in Clients,
         pc'[d] = pc[d], sid'[d] = sid[d], stored'[d] = stored[d],
         localEpoch'[d] = localEpoch[d], listed'[d] = listed[d],
         pending'[d] = pending[d]
  PROVE  Faithful(d)'
<1>1. Faithful(d) /\ Placed(d)
  BY LandLatest, Zenon DEF EpochInv, IdsInv
<1>2. \A i \in DOMAIN manifests : manifests'[i] = manifests[i]
  BY LandLatest, Zenon
<1> QED
  BY <1>1, <1>2 DEF Faithful, Placed, Holds

(* The epoch that a bump takes is above every epoch held in its role. *)
LEMMA BumpIsFresh ==
  ASSUME EpochInv, NEW c \in Clients, pc[c] = "upload", Land(c), ~overwrote',
         pending[c].why = "bump",
         NEW d \in Clients, (c \in Writers) = (d \in Writers)
  PROVE  localEpoch[d] < Epoch(c, pending[c].manifest)
<1>1. /\ ~overwrote
      /\ sid[c] \in DOMAIN manifests
      /\ \A i \in DOMAIN manifests : i <= sid[c]
  BY LandLatest, Zenon
<1>2. /\ Faithful(c) /\ Faithful(d) /\ Placed(d) /\ Holds(c)
      /\ stored[c] \in Manifest /\ stored[d] \in Manifest
      /\ localEpoch[d] \in Nat
  BY <1>1 DEF EpochInv, IdsInv, TypeOK, Holds
<1>3. Epoch(c, pending[c].manifest) = Epoch(c, stored[c]) + 1 /\ Epoch(c, stored[c]) \in Nat
  BY <1>2, BumpRaises, TypedManifests, Zenon DEF Faithful
<1>4. localEpoch[d] <= Epoch(c, stored[c])
  <2>1. CASE ~Holds(d)
    BY <1>2, <1>3, <2>1 DEF Faithful
  <2>2. CASE Holds(d)
    <3>1. sid[d] \in DOMAIN manifests /\ sid[d] <= sid[c]
      BY <1>1, <1>2, <2>2, Zenon DEF Placed
    <3>2. Epoch(d, manifests[sid[d]]) <= Epoch(d, manifests[sid[c]])
      BY <1>1, <3>1, EpochOrder DEF EpochInv
    <3>3. /\ stored[d] = manifests[sid[d]] /\ localEpoch[d] <= Epoch(d, stored[d])
          /\ stored[c] = manifests[sid[c]]
      BY <1>2, <2>2, Zenon DEF Faithful
    <3>4. Epoch(d, stored[c]) = Epoch(c, stored[c]) /\ Epoch(d, stored[d]) \in Nat
      BY <1>2, TypedManifests, Zenon DEF Epoch
    <3> QED
      BY <1>2, <1>3, <3>2, <3>3, <3>4
  <2> QED
    BY <2>1, <2>2
<1> QED
  BY <1>2, <1>3, <1>4

LEMMA EpochStep ==
  ASSUME EpochInv, [Next]_vars
  PROVE  EpochInv'
<1> USE DEF Goto
<1>0. IdsInv /\ IdsInv'
  BY IdsStep DEF EpochInv
<1>1. ASSUME NEW c \in Clients, OpenList(c)
      PROVE  EpochInv'
  <2>1. ASSUME ~overwrote
        PROVE  Faithful(c)'
    BY <1>1, <2>1, <1>0, ZenonT(60) DEF EpochInv, IdsInv, TypeOK, OpenList, Faithful, Holds, Placed
  <2> QED
    BY <1>1, <2>1, <1>0, LocalEpochStep, Zenon DEF EpochInv, IdsInv, TypeOK, OpenList
<1>2. ASSUME NEW c \in Clients, OpenGet(c)
      PROVE  EpochInv'
  <2>1. ASSUME ~overwrote
        PROVE  Faithful(c)'
    <3>1. localEpoch[c] = 0 /\ manifests[listed[c]] \in Manifest
      BY <1>2, <2>1, Zenon DEF EpochInv, IdsInv, TypeOK, Placed, Faithful, Holds, OpenGet
    <3>2. 0 <= Epoch(c, manifests[listed[c]])
      BY <3>1, TypedManifests
    <3> QED
      BY <1>2, <3>1, <3>2, Zenon DEF EpochInv, IdsInv, TypeOK, OpenGet, Faithful, Holds
  <2> QED
    BY <1>2, <2>1, <1>0, LocalEpochStep, Zenon DEF EpochInv, IdsInv, TypeOK, OpenGet
<1>3. ASSUME NEW c \in Clients, Create(c)
      PROVE  EpochInv'
  <2>1. ASSUME ~overwrote
        PROVE  Faithful(c)'
    BY <1>3, <2>1, <1>0, Zenon DEF EpochInv, IdsInv, TypeOK, Create, Faithful, Holds, Placed
  <2> QED
    BY <1>3, <2>1, <1>0, LocalEpochStep, Zenon DEF EpochInv, IdsInv, TypeOK, Create
<1>4. ASSUME NEW c \in Clients, Bump(c)
      PROVE  EpochInv'
  <2>1. ASSUME ~overwrote
        PROVE  Faithful(c)'
    BY <1>4, <2>1, <1>0, Zenon DEF EpochInv, IdsInv, TypeOK, Bump, Faithful, Holds, Placed
  <2> QED
    BY <1>4, <2>1, <1>0, LocalEpochStep, Zenon DEF EpochInv, IdsInv, TypeOK, Bump
<1>5. ASSUME NEW c \in Clients, RefreshList(c)
      PROVE  EpochInv'
  <2>1. ASSUME ~overwrote
        PROVE  Faithful(c)'
    BY <1>5, <2>1, <1>0 DEF EpochInv, IdsInv, TypeOK, RefreshList, Faithful, Holds, Placed, IsLatest
  <2> QED
    BY <1>5, <2>1, <1>0, LocalEpochStep, Zenon DEF EpochInv, IdsInv, TypeOK, RefreshList
<1>6. ASSUME NEW c \in Clients, RefreshGet(c)
      PROVE  EpochInv'
  <2>1. ASSUME ~overwrote
        PROVE  Faithful(c)'
    <3>1. /\ sid[c] \in DOMAIN manifests /\ listed[c] \in DOMAIN manifests
          /\ sid[c] <= listed[c]
          /\ localEpoch[c] <= Epoch(c, manifests[sid[c]])
          /\ localEpoch[c] \in Nat
      BY <1>6, <2>1, Zenon DEF EpochInv, IdsInv, TypeOK, Placed, Faithful, Holds, RefreshGet
    <3>2. /\ Epoch(c, manifests[sid[c]]) \in Nat
          /\ Epoch(c, manifests[listed[c]]) \in Nat
      BY <3>1, TypedManifests, Zenon DEF EpochInv, IdsInv, TypeOK
    <3>3. Epoch(c, manifests[sid[c]]) <= Epoch(c, manifests[listed[c]])
      BY <2>1, <3>1, EpochOrder, Zenon DEF EpochInv
    <3>4. localEpoch[c] <= Epoch(c, manifests[listed[c]]) /\ ~EpochPanic(c, manifests[listed[c]])
      BY <3>1, <3>2, <3>3 DEF EpochPanic
    <3> QED
      BY <1>6, <3>4, Zenon DEF EpochInv, IdsInv, TypeOK, RefreshGet, Faithful, Holds
  <2> QED
    BY <1>6, <2>1, <1>0, LocalEpochStep, Zenon DEF EpochInv, IdsInv, TypeOK, RefreshGet
<1>7. ASSUME NEW c \in Clients, UpdateDBState(c)
      PROVE  EpochInv'
  <2>1. ASSUME ~overwrote
        PROVE  Faithful(c)'
    <3>1. localEpoch[c] <= Epoch(c, stored[c]) /\ stored[c] = manifests[sid[c]]
      BY <1>7, <2>1, Zenon DEF EpochInv, Faithful, Holds, UpdateDBState
    <3>2. localEpoch[c] \in Nat /\ Epoch(c, stored[c]) \in Nat
      BY TypedManifests, Zenon DEF EpochInv, IdsInv, TypeOK
    <3>3. ~EpochPanic(c, stored[c])
      BY <3>1, <3>2 DEF EpochPanic
    <3> QED
      BY <1>7, <3>1, <3>3 DEF EpochInv, IdsInv, TypeOK, UpdateDBState, Faithful, Holds
  <2> QED
    BY <1>7, <2>1, <1>0, LocalEpochStep, Zenon DEF EpochInv, IdsInv, TypeOK, UpdateDBState
<1>8. ASSUME NEW c \in Clients, Exists(c)
      PROVE  EpochInv'
  <2>1. CASE PutFails(c)
    BY <1>8, <2>1, <1>0, PutFailsFaithful, Zenon DEF EpochInv, EpochsMonotone, EpochsUnique, Exists
  <2>2. CASE /\ pc' = [pc EXCEPT ![c] = "upload"]
             /\ UNCHANGED <<sid, stored, localEpoch, listed, pending>>
    <3>1. ASSUME ~overwrote
          PROVE  Faithful(c)'
      BY <1>8, <2>2, <3>1 DEF EpochInv, IdsInv, TypeOK, Exists, Faithful, Holds
    <3> QED
      BY <1>8, <2>2, <3>1, <1>0, LocalEpochStep, Zenon DEF EpochInv, IdsInv, TypeOK, Exists
  <2> QED
    BY <1>8, <2>1, <2>2 DEF Exists
<1>9. ASSUME NEW c \in Clients, Upload(c)
      PROVE  EpochInv'
  <2>1. SUFFICES ASSUME ~overwrote'
                 PROVE  /\ \A d \in Clients : Faithful(d)'
                        /\ EpochsMonotone'
                        /\ EpochsUnique'
    BY <1>0, Zenon DEF EpochInv, EpochsMonotone, EpochsUnique
  <2>2. EpochsMonotone'
    BY <1>9, <2>1, LandMonotone, Zenon DEF Upload
  <2>3. ASSUME NEW d \in Clients, d # c
        PROVE  Faithful(d)'
    BY <1>9, <2>1, <2>3, LandOthers, Zenon DEF EpochInv, IdsInv, TypeOK, Upload
  <2>4. Faithful(c) /\ manifests'[pending[c].id] = pending[c].manifest
    BY <1>9, <2>1, LandLatest, Zenon DEF EpochInv, Upload
  <2>5. Faithful(c)'
    <3>1. /\ localEpoch'[c] <= Epoch(c, pending[c].manifest)
      <4>1. /\ localEpoch[c] \in Nat /\ stored[c] \in Manifest
            /\ pending[c].manifest \in Manifest
            /\ pending[c].why \in {"create", "bump", "update"}
        BY Zenon DEF EpochInv, IdsInv, TypeOK, Put
      <4>2. Epoch(c, pending[c].manifest) \in Nat
        BY <4>1, TypedManifests, Zenon
      <4>3. CASE pending[c].why = "create"
        BY <1>9, <2>4, <4>1, <4>2, <4>3 DEF Upload, Faithful, Holds
      <4>4. CASE pending[c].why = "bump"
        BY <1>9, <4>2, <4>4 DEF Upload, EpochInv, IdsInv, TypeOK
      <4>5. CASE pending[c].why = "update"
        BY <1>9, <2>4, <4>5, Zenon DEF Upload, Faithful, Holds
      <4> QED
        BY <4>1, <4>3, <4>4, <4>5, Zenon
    <3>2. /\ pc'[c] \in {"bump", "idle"}
          /\ sid'[c] = pending[c].id
          /\ stored'[c] = pending[c].manifest
      BY <1>9 DEF Upload, EpochInv, IdsInv, TypeOK
    <3> QED
      BY <2>4, <3>1, <3>2, Zenon DEF Faithful, Holds, Epoch
  <2>6. EpochsUnique'
    <3>1. CASE pending[c].why = "bump"
      <4>1. \A d \in Clients : (c \in Writers) = (d \in Writers) =>
              localEpoch[d] < Epoch(c, pending[c].manifest)
        BY <1>9, <2>1, <3>1, BumpIsFresh, Zenon DEF Upload
      <4>2. /\ localEpoch'[c] = Epoch(c, pending[c].manifest)
            /\ \A d \in Clients : d # c => localEpoch'[d] = localEpoch[d]
            /\ \A d \in Clients : localEpoch[d] \in Nat
            /\ Epoch(c, pending[c].manifest) \in Nat
        BY <1>9, <3>1, TypedManifests, Zenon DEF Upload, EpochInv, IdsInv, TypeOK, Put
      <4> QED
        BY <4>1, <4>2, <1>9, <2>1, LandLatest DEF EpochInv, EpochsUnique, IsOpen, Upload
    <3>2. CASE pending[c].why # "bump"
      BY <1>9, <2>1, <3>2, LandLatest DEF EpochInv, EpochsUnique, IsOpen, Upload
    <3> QED
      BY <3>1, <3>2, Zenon
  <2> QED
    BY <2>2, <2>3, <2>5, <2>6, Zenon
<1>10. ASSUME NEW c \in Clients, UploadError(c)
       PROVE  EpochInv'
  <2>1. CASE Land(c)
    <3>1. SUFFICES ASSUME ~overwrote'
                   PROVE  /\ \A d \in Clients : Faithful(d)'
                          /\ EpochsMonotone'
                          /\ EpochsUnique'
      BY <1>0 DEF EpochInv, EpochsMonotone, EpochsUnique
    <3>2. EpochsMonotone'
      BY <1>10, <2>1, <3>1, LandMonotone, Zenon DEF UploadError
    <3> QED
      BY <1>10, <2>1, <3>1, <3>2, LandLatest, PutFailsFaithful, Zenon DEF UploadError
  <2>2. CASE UNCHANGED <<manifests, overwrote>>
    BY <1>10, <2>2, <1>0, PutFailsFaithful, Zenon
       DEF EpochInv, EpochsMonotone, EpochsUnique, UploadError
  <2> QED
    BY <1>10, <2>1, <2>2, Zenon DEF UploadError
<1>11. ASSUME NEW c \in Clients, CallError(c)
       PROVE  EpochInv'
  <2>1. CASE pc[c] = "exists" /\ PutFails(c)
    BY <1>11, <2>1, <1>0, PutFailsFaithful, Zenon
       DEF EpochInv, EpochsMonotone, EpochsUnique, CallError
  <2>2. CASE pc[c] # "exists"
    <3>1. ASSUME ~overwrote
          PROVE  Faithful(c)'
      BY <1>11, <2>2, <3>1, ZenonT(60) DEF EpochInv, IdsInv, TypeOK, CallError, Forget, Faithful,
         Holds
    <3> QED
      BY <1>11, <2>2, <3>1, <1>0, LocalEpochStep, Zenon
         DEF EpochInv, IdsInv, TypeOK, CallError, Forget
  <2> QED
    BY <1>11, <2>1, <2>2 DEF CallError
<1>12. ASSUME NEW c \in Clients, Crash(c)
       PROVE  EpochInv'
  <2>1. Faithful(c)'
    BY <1>12, Zenon DEF EpochInv, IdsInv, TypeOK, Crash, Forget, Faithful, Holds
  <2> QED
    BY <1>12, <2>1, <1>0, LocalEpochStep, ZenonT(60) DEF EpochInv, IdsInv, TypeOK, Crash, Forget
<1>13. CASE UNCHANGED vars
  BY <1>0, <1>13 DEF EpochInv, EpochsMonotone, EpochsUnique, IsOpen, Faithful, Holds, vars
<1> QED
  BY <1>1, <1>2, <1>3, <1>4, <1>5, <1>6, <1>7, <1>8, <1>9, <1>10, <1>11, <1>12, <1>13
     DEF Next

LEMMA EpochInit == Init => EpochInv
<1> SUFFICES ASSUME Init PROVE EpochInv
  OBVIOUS
<1>1. IdsInv
  BY IdsInit
<1>2. \A c \in Clients : Faithful(c)
  BY Zenon DEF Init, Faithful, Holds
<1>3. EpochsMonotone /\ EpochsUnique
  BY DEF Init, EpochsMonotone, EpochsUnique, IsOpen
<1> QED
  BY <1>1, <1>2, <1>3 DEF EpochInv

(* As long as no upload replaces a manifest, neither epoch decreases along  *)
(* the manifest ids: a fenced handle's update never lands after the update  *)
(* that fenced it (checkEpoch, updateManifest).                             *)
THEOREM EpochsNeverDecrease == Spec => []EpochsMonotone
<1>1. Spec => []EpochInv
  BY EpochInit, EpochStep, PTL DEF Spec
<1>2. EpochInv => EpochsMonotone
  BY DEF EpochInv
<1> QED
  BY <1>1, <1>2, PTL

(* As long as no upload replaces a manifest, no two open handles of a role  *)
(* hold the same epoch (NewWriterFenceableManifest,                         *)
(* NewCompactorFenceableManifest).                                          *)
THEOREM EpochsAreUnique == Spec => []EpochsUnique
<1>1. Spec => []EpochInv
  BY EpochInit, EpochStep, PTL DEF Spec
<1>2. EpochInv => EpochsUnique
  BY DEF EpochInv
<1> QED
  BY <1>1, <1>2, PTL

(* As long as no upload replaces a manifest, checkEpoch does not panic. *)
THEOREM CheckEpochNeverPanics == Spec => []NoEpochPanic
<1>1. Spec => []EpochInv
  BY EpochInit, EpochStep, PTL DEF Spec
<1>2. EpochInv => NoEpochPanic
  BY DEF EpochInv, Faithful, NoEpochPanic
<1> QED
  BY <1>1, <1>2, PTL
=============================================================================
