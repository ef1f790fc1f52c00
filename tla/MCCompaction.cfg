CONSTANTS
  L0Threshold = 2
  MaxBatches = 3
  MaxOpens = 2
  Events = {"crash", "fail", "jobfail", "close"}
SPECIFICATION Spec
INVARIANTS TypeOK NothingLost NewestWins SourcesAreOldest OneJob
\* The compactor may be closed with nothing left to flush.
CHECK_DEADLOCK FALSE
