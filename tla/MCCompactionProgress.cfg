CONSTANTS
  L0Threshold = 2
  MaxBatches = 4
  MaxOpens = 1
  Events = {"crash", "fail", "jobfail", "close"}
SPECIFICATION FairSpec
INVARIANT SortedRunsInIDOrder
PROPERTIES ShutdownCompletes FullL0Compacted
\* The compactor may be closed with nothing left to flush.
CHECK_DEADLOCK FALSE
