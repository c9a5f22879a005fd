SPECIFICATION Spec
CONSTANTS
  Targets = {t1, t2}
  Limit = 3
  MaxCycle = 4
  MaxAttempt = 1
  None = None
INVARIANT NextCycleUnused
CHECK_DEADLOCK FALSE
