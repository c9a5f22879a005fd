SPECIFICATION MCFairSpec
CONSTANTS
  Parts = {"migration", "start", "crowd", "alerts"}
  Openers = {p1, p2}
  Sharers = {}
  Migrators = {}
  MaxInode = 1
  MaxStop = 0
  Commands = {p1, p2}
  MaxCommandStop = 4
  MaxDamage = 2
  MaxWork = 1
  Daemons = {p1, p2}
  MaxStarts = 4
  Clients = {p1, p2}
  Kinds = {"watch", "silent"}
  CanFail = FALSE
  OneClient = {c1}
  MaxWatched = 3
  Dispatchers = {}
  Server = dm
  Backends = {b1}
  Configs = {{b1}}
  MaxAlerts = 1
  MaxTries = 2
  MaxRedeliver = 1
  MaxDispatcherStop = 1
  None = None
PROPERTIES
  Migrates
  DeliveriesSettle
  DaemonStops
CHECK_DEADLOCK FALSE
