CONSTANTS
  Keys = {k1, k2}
  WalCallers = {}
  MemCallers = {}
  L0Size = 1
  ChCap = 1
  MaxWrites = 2
  MaxOpens = 2
  Events = {"crash", "readfail"}
SPECIFICATION Spec
INVARIANT Durability
\* A database may stay closed, and the bounds end every behaviour.
CHECK_DEADLOCK FALSE
