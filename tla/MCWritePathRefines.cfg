CONSTANTS
  Keys = {k1, k2}
  WalCallers = {}
  MemCallers = {}
  L0Size = 2
  ChCap = 1
  MaxWrites = 3
  MaxOpens = 3
  Events = {"crash", "fail", "poll", "compact"}
SPECIFICATION Spec
INVARIANT CrashConsistency
PROPERTY ImplementsDurableKV
\* A database may stay closed, and the bounds end every behaviour.
CHECK_DEADLOCK FALSE
