SPECIFICATION MCSpec
CONSTANTS
  Parts = {"queue", "submission", "lease", "registration"}
  MaxItem = 3
  Targets = {t1}
  Sources = {s1, s2}
  ClockSteps = FALSE
  Developers = {p1, p2}
  MaxSub = 2
  MaxCommit = 1
  MaxEdits = 2
  MaxSubStops = 1
  MaxRemoves = 1
  Operations = {p1, p2}
  Ttl = 6
  Poll = 2
  LeaseReserve = 2
  Grace = 2
  MaxTime = 9
  MaxBusy = 6
  MaxStalls = 1
  MaxOpStops = 1
  r3 = r3
  Registrars = {p1, p2, r3}
  here = here
  there = there
  Storage <- TwoRoots
  Shas = {c1, c2}
  MaxCrash = 2
  MaxKey = 2
  None = None
SYMMETRY Symmetry
INVARIANTS
  Draining
  CommandExact
  RegistrationExact
PROPERTIES
  QueueOrder
  SubmissionExact
CHECK_DEADLOCK FALSE
