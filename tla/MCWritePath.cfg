CONSTANTS
  Keys = {k1}
  WalCallers = {}
  MemCallers = {}
  L0Size = 1
  ChCap = 1
  MaxWrites = 3
  MaxOpens = 2
  Events = {"crash", "fail", "poll", "compact"}
SPECIFICATION Spec
INVARIANTS TypeOK NoDanglingSST Durability CommittedReads UncommittedReads LastCompactedIsFlushed FrozenWillBeFlushed OpenBlocksOnlyWhenFull
PROPERTIES CommittedMonotone WALsImmutable
\* A database may stay closed, and the bounds end every behaviour.
CHECK_DEADLOCK FALSE
