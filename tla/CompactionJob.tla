--------------------------- MODULE CompactionJob ---------------------------
(***************************************************************************)
(* The contents of SSTs, and one job of the compaction executor: how       *)
(* flushImmTable writes an SST (slatedb/flush.go), how Get finds a key in  *)
(* the L0 SSTs and in a sorted run (slatedb/db.go, slatedb/compacted), and *)
(* how executeCompaction merges L0 SSTs into a sorted run                  *)
(* (slatedb/compaction/executor.go, internal/iter/merge.go) while reads of *)
(* blocks and uploads may fail.  SSTFormat has the layout of an SST.       *)
(*                                                                         *)
(* A value is the number of the memtable it comes from.                    *)
(***************************************************************************)
EXTENDS SSTFormat, FiniteSets, SequencesExt

CONSTANTS Keys,       \* the keys, sequences of bytes
          Kinds,      \* what an entry may be: "put", "empty" (value), "tomb"
          NumSources, \* the L0 SSTs of the job
          MaxSSTSize  \* CompactorOptions.MaxSSTSize, in bytes of keys and values

ASSUME JobAssumption ==
  /\ \A key \in Keys : key \in Seq(Nat) \ {<<>>} /\ Len(key) < 2^16
  /\ Kinds \subseteq {"put", "empty", "tomb"}
  /\ NumSources \in Nat \ {0}
  /\ BlockSize \in Nat
  /\ ValueLen \in Nat \ {0}
  /\ MaxSSTSize \in Nat

VARIABLES
  mems,    \* ImmMemtables, newest first
  ssts,    \* L0, newest first: the SSTs of the oldest memtables
  pc,      \* "flush", then, of the job, "load", "merge" and "done"
  iters,   \* per source: the next block, the rest of the current one
  heap,    \* MergeSort.heap: the entries at hand, with their iterators
  lastKey, \* MergeSort.lastKey, <<>>: none yet
  warn,    \* the warnings: blocks of some source could not be read
  writer,  \* the builder of currentWriter
  size,    \* currentSize
  out,     \* outputSSTs
  result   \* what is sent on resultCh: "ok" or "error"

vars == <<mems, ssts, pc, iters, heap, lastKey, warn, writer, size, out, result>>

Sources == 1..NumSources

-----------------------------------------------------------------------------
(* Writing an SST *)

(* A memtable: its keys, each with a kind. *)
Memtable == UNION {[ks -> Kinds] : ks \in SUBSET Keys \ {{}}}

(* AddValue takes an entry whose value is empty for a tombstone. *)
AddValue(key, kind, src) ==
  [key |-> key, kind |-> IF kind = "put" THEN "put" ELSE "tomb",
   value |-> IF kind = "put" THEN src ELSE 0]

(* flushImmTable: the entries in the order of the keys. *)
FlushImmTable(mem, src) ==
  LET entries == {AddValue(key, mem[key], src) : key \in DOMAIN mem}
      sorted == SetToSortSeq(entries, LAMBDA d, e : KeyLess(d.key, e.key))
  IN  Build(FoldLeft(BuilderAdd, NewBuilder, sorted))

-----------------------------------------------------------------------------
(* Looking up a key *)

NotFound == [key |-> <<>>, kind |-> "tomb", value |-> 0]

(* The iterator at a key, and its first entry: each block it comes to is    *)
(* searched from that key on.                                               *)
IteratorAtKey(sst, key) ==
  LET From(b) == BlockFromKey(sst.blocks[b], key)
      rest == {b \in FirstBlock(sst, key) + 1..Len(sst.blocks) : From(b) # <<>>}
  IN  IF rest = {} THEN NotFound ELSE Head(From(Min(rest)))

Match(e, key) == IF e.key = key THEN e ELSE NotFound

(* The bloom filter says yes to every key of the SST and to some others.    *)
(* anyKey: it does, or there is no filter, or it cannot be read.            *)
HasKey(filter, key, anyKey) == anyKey \/ key \in filter

RangeCoversKey(sst, key) == sst.firstKey # <<>> /\ ~KeyLess(key, sst.firstKey)

SSTMayIncludeKey(sst, key, anyKey) ==
  RangeCoversKey(sst, key) /\ HasKey(sst.filter, key, anyKey)

(* Get in L0, newest SST first. *)
GetL0(l0, key, anyKey) ==
  LET hits == {i \in DOMAIN l0 : /\ SSTMayIncludeKey(l0[i], key, anyKey)
                                 /\ IteratorAtKey(l0[i], key).key = key}
  IN  IF hits = {} THEN NotFound ELSE IteratorAtKey(l0[Min(hits)], key)

(* indexOfSSTWithKey: the SST before the first one that starts after key;   *)
(* 0: none.                                                                 *)
IndexOfSSTWithKey(run, key) ==
  Min({i \in DOMAIN run : KeyLess(key, run[i].firstKey)} \cup {Len(run) + 1}) - 1

SRMayIncludeKey(run, key, anyKey) ==
  LET i == IndexOfSSTWithKey(run, key)
  IN  i # 0 /\ HasKey(run[i].filter, key, anyKey)

(* Get in a sorted run: the SST with the key from the key on, and then the  *)
(* SST after it from its start.                                             *)
GetRun(run, key, anyKey) ==
  LET i == IndexOfSSTWithKey(run, key)
      e == IteratorAtKey(run[i], key)
  IN  IF ~SRMayIncludeKey(run, key, anyKey) THEN NotFound
      ELSE IF e = NotFound /\ i < Len(run) THEN Match(DecodeBlock(run[i + 1].blocks[1])[1], key)
      ELSE Match(e, key)

(* Get in the immutable memtables that are not flushed yet, and then in L0. *)
Get(key, anyKey) ==
  LET hits == {i \in 1..NumSources - Len(ssts) : key \in DOMAIN mems[i]}
      kind == mems[Min(hits)][key]
  IN  IF hits = {} THEN GetL0(ssts, key, anyKey)
      ELSE [key |-> key, kind |-> kind, value |-> IF kind = "put" THEN Min(hits) ELSE 0]

-----------------------------------------------------------------------------
(* The iterators of a job.  sstable.Iterator.NextEntry fetches a block when *)
(* the one before is used up.  A block that cannot be fetched ends the      *)
(* iteration with a warning.                                                *)

(* ReadBlocks: the entries of one block, or an error. *)
ReadBlock(sst, b) == {<<DecodeBlock(sst.blocks[b])>>, <<>>}

NewIterator == [block |-> 1, rest |-> <<>>, warn |-> FALSE]

(* Mutant: iterators counted from 0. *)
ItemFromZero(i, next) == {[entry |-> e, index |-> i - 1] : e \in ToSet(next.entry)}

(* What NextEntry of source i may return: the iterator afterwards and the   *)
(* entry, if any.                                                           *)
NextEntry(i, it) ==
  IF it.rest # <<>>
  THEN {[it |-> [it EXCEPT !.rest = Tail(@)], entry |-> <<Head(it.rest)>>]}
  ELSE IF it.block > Len(ssts[i].blocks) THEN {[it |-> it, entry |-> <<>>]}
  ELSE {IF read = <<>> THEN [it |-> [it EXCEPT !.warn = TRUE], entry |-> <<>>]
        ELSE [it |-> [it EXCEPT !.block = @ + 1, !.rest = Tail(read[1])],
              entry |-> <<Head(read[1])>>] : read \in ReadBlock(ssts[i], it.block)}

Item(i, next) == {[entry |-> e, index |-> i] : e \in ToSet(next.entry)}

(* heapItem.Compare: by key, and then by the place of the iterator. *)
Less(x, y) == KeyLess(x.entry.key, y.entry.key)
              \/ (x.entry.key = y.entry.key /\ x.index < y.index)

-----------------------------------------------------------------------------
Init ==
  /\ mems \in [Sources -> Memtable]
  /\ ssts = <<>>
  /\ pc = "flush"
  /\ iters = [i \in Sources |-> NewIterator]
  /\ heap = {}
  /\ lastKey = <<>>
  /\ warn = FALSE
  /\ writer = NewBuilder
  /\ size = 0
  /\ out = <<>>
  /\ result = "none"

(* The oldest memtable becomes the newest SST of L0.  When there are enough *)
(* of them a job is started.                                                *)
FlushImmMemtable ==
  LET i == NumSources - Len(ssts)
  IN  /\ pc = "flush"
      /\ ssts' = <<FlushImmTable(mems[i], i)>> \o ssts
      /\ pc' = IF i = 1 THEN "load" ELSE "flush"
      /\ UNCHANGED <<mems, iters, heap, lastKey, warn, writer, size, out, result>>

(* loadIterators: NewMergeSort takes the first entry of each iterator. *)
LoadIterators ==
  /\ pc = "load"
  /\ \E next \in [Sources -> UNION {NextEntry(i, NewIterator) : i \in Sources}] :
       /\ \A i \in Sources : next[i] \in NextEntry(i, NewIterator)
       /\ iters' = [i \in Sources |-> next[i].it]
       /\ heap' = UNION {Item(i, next[i]) : i \in Sources}
       /\ warn' = \E i \in Sources : next[i].it.warn
  /\ pc' = "merge"
  /\ UNCHANGED <<mems, ssts, lastKey, writer, size, out, result>>

(* The index of a source cannot be read, or an SST cannot be encoded or     *)
(* uploaded: the job ends with an error.                                    *)
JobFails ==
  /\ pc = "load" \/ (pc = "merge" /\ (heap # {} \/ size > 0))
  /\ pc' = "done"
  /\ result' = "error"
  /\ UNCHANGED <<mems, ssts, iters, heap, lastKey, warn, writer, size, out>>

EntrySize(e) == Len(e.key) + IF e.kind = "put" THEN ValueLen ELSE 0

(* An entry that the merge returns goes to currentWriter.  Once that is     *)
(* large enough it is closed and a new one takes its place.                 *)
Write(e) ==
  LET full == size + EntrySize(e) > MaxSSTSize
      added == BuilderAdd(writer, e)
  IN  /\ out' = IF full THEN Append(out, Build(added)) ELSE out
      /\ writer' = IF full THEN NewBuilder ELSE added
      /\ size' = IF full THEN 0 ELSE size + EntrySize(e)

(* Mutant: a key that was returned before is returned again. *)
MergeNextAgain ==
  /\ pc = "merge"
  /\ \E x \in heap :
       /\ \A y \in heap \ {x} : Less(x, y)
       /\ \E next \in NextEntry(x.index, iters[x.index]) :
            /\ iters' = [iters EXCEPT ![x.index] = next.it]
            /\ heap' = (heap \ {x}) \cup Item(x.index, next)
            /\ warn' = (warn \/ next.it.warn)
       /\ lastKey' = x.entry.key
       /\ Write(x.entry)
  /\ UNCHANGED <<mems, ssts, pc, result>>

(* MergeSort.NextEntry takes the least item, puts the next entry of the     *)
(* same iterator into the heap and drops a key it has returned before.      *)
MergeNext ==
  /\ pc = "merge"
  /\ \E x \in heap :
       /\ \A y \in heap \ {x} : Less(x, y)
       /\ \E next \in NextEntry(x.index, iters[x.index]) :
            /\ iters' = [iters EXCEPT ![x.index] = next.it]
            /\ heap' = (heap \ {x}) \cup Item(x.index, next)
            /\ warn' = (warn \/ next.it.warn)
       /\ \/ /\ x.entry.key # lastKey
             /\ lastKey' = x.entry.key
             /\ Write(x.entry)
          \/ /\ x.entry.key = lastKey
             /\ UNCHANGED <<lastKey, writer, size, out>>
  /\ UNCHANGED <<mems, ssts, pc, result>>

(* Mutant: the warnings are only logged. *)
JobDoneUnwarned ==
  /\ pc = "merge"
  /\ heap = {}
  /\ out' = IF size > 0 THEN Append(out, Build(writer)) ELSE out
  /\ result' = "ok"
  /\ pc' = "done"
  /\ UNCHANGED <<mems, ssts, iters, heap, lastKey, warn, writer, size>>

(* Mutant: the last writer is closed although it may hold nothing. *)
JobDoneCloses ==
  /\ pc = "merge"
  /\ heap = {}
  /\ out' = Append(out, Build(writer))
  /\ result' = IF warn THEN "error" ELSE "ok"
  /\ pc' = "done"
  /\ UNCHANGED <<mems, ssts, iters, heap, lastKey, warn, writer, size>>

(* The merge is exhausted: the last writer is closed, and the warnings make *)
(* the job fail.                                                            *)
JobDone ==
  /\ pc = "merge"
  /\ heap = {}
  /\ out' = IF size > 0 THEN Append(out, Build(writer)) ELSE out
  /\ result' = IF warn THEN "error" ELSE "ok"
  /\ pc' = "done"
  /\ UNCHANGED <<mems, ssts, iters, heap, lastKey, warn, writer, size>>

Next == FlushImmMemtable \/ LoadIterators \/ JobFails \/ MergeNext \/ JobDone

Spec == Init /\ [][Next]_vars

-----------------------------------------------------------------------------
Entry == [key : Keys, kind : {"put", "tomb"}, value : Sources \cup {0}]
Row == [keyPrefixLen : Nat, keySuffix : Seq(Nat), tombstone : BOOLEAN, value : Sources \cup {0}]
SST == [blocks : Seq(Seq(Row)), index : Seq(Keys), firstKey : Keys \cup {<<>>},
        filter : SUBSET Keys]

TypeOK ==
  /\ DOMAIN mems = Sources /\ \A i \in Sources : mems[i] \in Memtable
  /\ ssts \in Seq(SST) /\ Len(ssts) <= NumSources
  /\ pc \in {"flush", "load", "merge", "done"}
  /\ iters \in [Sources -> [block : Nat, rest : Seq(Entry), warn : BOOLEAN]]
  /\ heap \subseteq [entry : Entry, index : Sources]
  /\ lastKey \in Keys \cup {<<>>}
  /\ warn \in BOOLEAN
  /\ writer.blocks \in Seq(Seq(Row)) /\ writer.block.rows \in Seq(Row)
  /\ size \in Nat
  /\ out \in Seq(SST)
  /\ result \in {"none", "ok", "error"}

(* What a reader should see: the entry of the newest memtable with the key, *)
(* as AddValue stores it.                                                   *)
Newest(key) ==
  LET with == {i \in Sources : key \in DOMAIN mems[i]}
  IN  IF with = {} THEN NotFound ELSE AddValue(key, mems[Min(with)][key], Min(with))

(* While memtables become SSTs, Get finds the newest entry of every key     *)
(* through the filter, the block index, the prefix-compressed rows and the  *)
(* iterators, wherever the blocks begin and end.  That an empty value is    *)
(* read as a deleted key once it is flushed is AddValue's doing.  The job   *)
(* changes neither memtables nor L0.                                        *)
FlushPreservesReads ==
  pc \in {"flush", "load"} =>
    \A key \in Keys, anyKey \in BOOLEAN :
      LET e == Get(key, anyKey)
      IN  (IF e = NotFound THEN e ELSE AddValue(e.key, e.kind, e.value)) = Newest(key)

(* A job that reports success has lost no entry, whatever reads failed on   *)
(* the way: Get finds in its sorted run what it found in its sources.       *)
CompactionPreservesReads ==
  result = "ok" =>
    \A key \in Keys, anyKey \in BOOLEAN : GetRun(out, key, anyKey) = Newest(key)

(* No SST of a sorted run is empty, also when the last entry is the one     *)
(* that fills an SST: indexOfSSTWithKey asserts that each has a first key.  *)
NoEmptySST == \A i \in DOMAIN out : out[i].blocks # <<>> /\ out[i].firstKey # <<>>

(* The sorted run is sorted, without duplicates, across its SSTs and their  *)
(* blocks: what indexOfSSTWithKey and the block index search is searchable. *)
RunIsSorted ==
  LET blocks == FlattenSeq([i \in DOMAIN out |-> out[i].blocks])
      run == FlattenSeq([i \in DOMAIN blocks |-> DecodeBlock(blocks[i])])
  IN  \A i, j \in DOMAIN run : i < j => KeyLess(run[i].key, run[j].key)

=============================================================================
