SPECIFICATION Spec
CONSTANTS
  Procs = {p1, p2}
  MaxCycle = 2
  None = None
PROPERTY
  MissingUnitTerminal
CHECK_DEADLOCK FALSE
