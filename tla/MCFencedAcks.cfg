CONSTANTS
  Procs = {p1, p2}
  MaxWrites = 2
  MaxOpens = 2
SPECIFICATION Spec
INVARIANT AckedWritesSurvive
\* The bounds end every behaviour in which all processes are down.
CHECK_DEADLOCK FALSE
