SPECIFICATION Spec
CONSTANTS
  Procs = {p1, p2, p3}
  MaxCycle = 2
  None = None
INVARIANTS
  TypeOK
  LaunchExact
PROPERTIES
  CancelKept
  CancelSettles
CHECK_DEADLOCK FALSE
