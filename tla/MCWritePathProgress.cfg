CONSTANTS
  Keys = {k1}
  WalCallers = {}
  MemCallers = {}
  L0Size = 1
  ChCap = 1
  MaxWrites = 2
  MaxOpens = 2
  Events = {"fail", "close", "compact"}
SPECIFICATION FairSpec
INVARIANT CloseFlushes
PROPERTIES WritesAcknowledged CloseReturns
\* A database may stay closed, and the bounds end every behaviour.
CHECK_DEADLOCK FALSE
