SPECIFICATION MCSpec
CONSTANTS
  MaxCand = 3
  MaxLen = 6
  Kinds = {"github", "gitlab"}
  Starts = {"gates", "uncertain"}
  CycleLimit = 2
  MaxCommits = 3
  MaxProviderCand = 4
  MaxFaults = 1
INVARIANTS
  TypesOK
  LandedOnBase
  ReleaseRecorded
PROPERTIES
  LandsOnce
  LandedKnown
  ProviderExact
  ProviderSettles
CHECK_DEADLOCK FALSE
