SPECIFICATION MCSpec
CONSTANTS
  MaxDebt = 3
  Foreign = {x}
  DebtLimit = 2
  AloneEvents = 3
  AloneFaults = 2
  AloneComments = 0
  MinimalEvents = 4
  MinimalFaults = 1
  MinimalComments = 1
  BesideEvents = 2
  BesideFaults = 1
INVARIANTS
  ProjectionExact
  PinHeld
PROPERTIES
  InOrder
  DebtSettles
  ProjectionSettles
CHECK_DEADLOCK FALSE
