SPECIFICATION Spec
CONSTANTS
  MaxCand = 2
  MaxLen = 4
PROPERTIES
  PendingMoveResolves
CHECK_DEADLOCK FALSE
