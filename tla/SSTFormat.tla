----------------------------- MODULE SSTFormat -----------------------------
(***************************************************************************)
(* The SST: how rows are encoded (internal/sstable/block/row.go), how the  *)
(* builders put them into blocks and the blocks into a table with an index *)
(* of first keys (internal/sstable/block/block.go, internal/sstable/       *)
(* builder.go), and how the iterators find and decode them again           *)
(* (internal/sstable/block/iterator.go, internal/sstable/iterator.go).     *)
(*                                                                         *)
(* A key is a sequence of bytes.  A value is a number that stands for its  *)
(* bytes, all values having ValueLen of them.  Of a row the two lengths,   *)
(* the suffix, the tombstone flag and the value are kept; Seq is 0 and     *)
(* ExpireAt and CreatedAt are unset in every row that is written.  Row     *)
(* offsets are positions, and compression and checksums are left out: a    *)
(* block is read as it was written or not at all.                          *)
(***************************************************************************)
EXTENDS Naturals, Sequences

CONSTANTS BlockSize,  \* sstable.Config.BlockSize, in bytes
          ValueLen    \* the bytes of a value

(* bytes.Compare(a, b) < 0 *)
KeyLess(a, b) ==
  \E n \in 0..Len(a) :
    /\ n < Len(b)
    /\ \A i \in 1..n : a[i] = b[i]
    /\ n < Len(a) => a[n + 1] < b[n + 1]

-----------------------------------------------------------------------------
(* Rows.  An entry is a key, its kind ("put" or "tomb") and its value.      *)

CommonPrefix(lhs, rhs, n) ==
  n <= Len(lhs) /\ n <= Len(rhs) /\ \A i \in 1..n : lhs[i] = rhs[i]

(* The lengths of a row have 16 bits: keys have less than 2^16 bytes. *)
ComputePrefixLen(lhs, rhs) ==
  CHOOSE n \in 0..Len(rhs) : CommonPrefix(lhs, rhs, n) /\ ~CommonPrefix(lhs, rhs, n + 1)

(* The key without what it shares with the first key of the block. *)
EncodeRow(firstKey, e) ==
  LET n == ComputePrefixLen(firstKey, e.key)
  IN  [keyPrefixLen |-> n, keySuffix |-> SubSeq(e.key, n + 1, Len(e.key)),
       tombstone |-> e.kind = "tomb", value |-> IF e.kind = "tomb" THEN 0 ELSE e.value]

FullKey(row, firstKey) == SubSeq(firstKey, 1, row.keyPrefixLen) \o row.keySuffix

DecodeRow(row, firstKey) ==
  [key |-> FullKey(row, firstKey), kind |-> IF row.tombstone THEN "tomb" ELSE "put",
   value |-> row.value]

RowSize(row) == 13 + Len(row.keySuffix) + IF row.tombstone THEN 0 ELSE 4 + ValueLen

-----------------------------------------------------------------------------
(* Blocks *)

NewBlock == [rows |-> <<>>, dataLen |-> 0, firstKey |-> <<>>]

(* A row that would make the block too large is refused, unless it is the   *)
(* first.  A row costs an offset, the block a count of them.                *)
Fits(b, row) ==
  b.rows = <<>> \/ 2 + 2 * Len(b.rows) + b.dataLen + 2 + RowSize(row) <= BlockSize

(* Mutant: the prefix is taken from the row before. *)
BlockAddLastKey(b, e) ==
  LET row == EncodeRow(b.firstKey, e)
  IN  [rows |-> Append(b.rows, row), dataLen |-> b.dataLen + RowSize(row), firstKey |-> e.key]

BlockAdd(b, e) ==
  LET row == EncodeRow(b.firstKey, e)
  IN  [rows |-> Append(b.rows, row), dataLen |-> b.dataLen + RowSize(row),
       firstKey |-> IF b.rows = <<>> THEN e.key ELSE b.firstKey]

(* The block iterator takes the first key from the first row. *)
DecodeBlock(rows) ==
  [i \in DOMAIN rows |-> DecodeRow(rows[i], FullKey(rows[1], <<>>))]

(* NewIteratorAtKey: from a key on, or from the next greater one.  The      *)
(* search begins at the first row that has a full key.                      *)
BlockFromKey(rows, key) ==
  LET first == CHOOSE i \in DOMAIN rows :
                 rows[i].keyPrefixLen = 0 /\ \A j \in 1..i - 1 : rows[j].keyPrefixLen # 0
      Entry(i) == DecodeRow(rows[i], rows[first].keySuffix)
      from == CHOOSE i \in first..Len(rows) + 1 :
                /\ i <= Len(rows) => ~KeyLess(Entry(i).key, key)
                /\ \A j \in first..i - 1 : KeyLess(Entry(j).key, key)
  IN  [i \in 1..Len(rows) + 1 - from |-> Entry(from + i - 1)]

-----------------------------------------------------------------------------
(* Tables *)

NewBuilder == [blocks |-> <<>>, index |-> <<>>, block |-> NewBlock, firstKey |-> <<>>,
               filter |-> {}]

FinishBlock(b) ==
  IF b.block.rows = <<>> THEN b
  ELSE [b EXCEPT !.blocks = Append(@, b.block.rows), !.index = Append(@, b.block.firstKey),
                 !.block = NewBlock]

(* Of a bloom filter the keys that it was given are kept. *)
FilterAdd(filter, key) == filter \cup {key}

BuilderAdd(b, e) ==
  LET c == IF Fits(b.block, EncodeRow(b.block.firstKey, e)) THEN b ELSE FinishBlock(b)
  IN  [c EXCEPT !.block = BlockAdd(@, e), !.firstKey = IF @ = <<>> THEN e.key ELSE @,
                !.filter = FilterAdd(@, e.key)]

(* The table: blocks, index, Info.FirstKey and the keys the bloom filter    *)
(* was given.                                                               *)
Build(b) ==
  LET c == FinishBlock(b)
  IN  [blocks |-> c.blocks, index |-> c.index, firstKey |-> c.firstKey, filter |-> c.filter]

(* firstBlockIncludingOrAfterKey: a binary search of the index.  Blocks are *)
(* numbered from 0, as in the code; high is one more than there, so that it *)
(* is a natural number.                                                     *)
FirstBlock(sst, key) ==
  LET n == Len(sst.index)
      search[low \in 0..n, high \in 0..n, found \in 0..n] ==
        LET mid == low + (high - 1 - low) \div 2
            midKey == sst.index[mid + 1]
        IN  IF low >= high THEN found
            ELSE IF midKey = key THEN mid
            ELSE IF KeyLess(midKey, key) THEN search[mid + 1, high, mid]
            ELSE IF mid > 0 THEN search[low, mid, found]
            ELSE found
  IN  search[0, n, 0]

=============================================================================
