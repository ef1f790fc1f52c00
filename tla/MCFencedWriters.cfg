CONSTANTS
  Procs = {p1, p2}
  MaxWrites = 2
  MaxOpens = 2
SPECIFICATION FairSpec
INVARIANTS TypeOK DurableUnlessLate
PROPERTIES LevelsOnlyGrow FencedIsNoticed
\* The bounds end every behaviour in which all processes are down.
CHECK_DEADLOCK FALSE
