CONSTANTS
  Keys = {k1, k2}
  WalCallers = {wc}
  MemCallers = {mc}
  L0Size = 2
  ChCap = 1
  MaxWrites = 2
  MaxOpens = 1
  Events = {"fail"}
SPECIFICATION Spec
INVARIANT QueuedUntilStored
PROPERTY WALsImmutable
\* A database may stay closed, and the bounds end every behaviour.
CHECK_DEADLOCK FALSE
