SPECIFICATION MCSpec
CONSTANTS
  Parts = {"lease", "migration", "start", "crowd", "watcher", "alerts"}
  Openers = {p1, p2}
  Sharers = {s1}
  Migrators = {m1, m2}
  MaxInode = 3
  MaxStop = 2
  Commands = {p1, p2}
  MaxCommandStop = 4
  MaxDamage = 2
  MaxWork = 1
  Daemons = {p1, p2}
  MaxStarts = 4
  Clients = {p1, p2}
  Kinds = {"watch", "call", "bad"}
  CanFail = TRUE
  OneClient = {c1}
  MaxWatched = 4
  Dispatchers = {c1}
  Server = dm
  Backends = {b1, b2}
  Configs = {{}, {b1}, {b2}, {b1, b2}}
  MaxAlerts = 1
  MaxTries = 2
  MaxRedeliver = 1
  MaxDispatcherStop = 1
  None = None
SYMMETRY Symmetry
INVARIANT NotifiedOnce
PROPERTIES
  LeaseExact
  MigrationExact
  DaemonExact
  ApiExact
CHECK_DEADLOCK FALSE
