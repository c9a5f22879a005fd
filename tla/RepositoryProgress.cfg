SPECIFICATION MCFairSpec
CONSTANTS
  Parts = {"queue", "submission", "registration"}
  MaxItem = 2
  Targets = {t1, t2}
  Sources = {s1}
  ClockSteps = FALSE
  Developers = {d1}
  MaxSub = 2
  MaxCommit = 1
  MaxEdits = 2
  MaxSubStops = 1
  MaxRemoves = 1
  Operations = {o1}
  Ttl = 6
  Poll = 2
  LeaseReserve = 2
  Grace = 2
  MaxTime = 1
  MaxBusy = 0
  MaxStalls = 0
  MaxOpStops = 0
  r3 = r3
  Registrars = {r1, r3}
  here = here
  there = there
  Storage <- TwoRoots
  Shas = {c1, c2}
  MaxCrash = 1
  MaxKey = 2
  None = None
PROPERTIES
  HeadServed
  SubmissionFinishes
  Registers
CHECK_DEADLOCK FALSE
