CONSTANTS
  Keys <- ShortKeys
  Kinds = {"put", "empty"}
  NumSources = 2
  BlockSize = 56
  ValueLen = 1
  MaxSSTSize = 3
SPECIFICATION Spec
INVARIANTS TypeOK FlushPreservesReads CompactionPreservesReads NoEmptySST RunIsSorted
\* A job ends.
CHECK_DEADLOCK FALSE
