SPECIFICATION Spec
CONSTANTS
  Targets = {t1, t2}
  Limit = 2
  MaxCycle = 4
  MaxAttempt = 2
  None = None
SYMMETRY TargetSymmetry
INVARIANTS
  TypeOK
  RelatedState
  EvidenceExact
  NothingStale
  LandingAuthorized
  AutomaticCycleLimit
PROPERTIES
  LegalTransition
  ExternalAuthorityKept
CHECK_DEADLOCK FALSE
