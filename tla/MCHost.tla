------------------------------- MODULE MCHost -------------------------------
(* What the repositories of one host share: the database, its lease            *)
(* (DatabaseLease) and its migration (DatabaseMigration), and the daemon, its  *)
(* start (DaemonStart), its server (ControlApi) and its alerts                 *)
(* (Notifications).  A behaviour is about one of them and the others stay as   *)
(* they were at first: DatabaseMigration and DaemonStart use the leases as     *)
(* the modules of the leases show them to be.                                  *)
EXTENDS DatabaseLease, TLC

CONSTANTS
  Parts,                                                        \* what behaviours are about
  Commands, MaxCommandStop, MaxDamage, MaxWork,                 \* DatabaseMigration
  Daemons, MaxStarts,                                           \* DaemonStart
  Clients, Kinds, CanFail, OneClient, MaxWatched,               \* ControlApi
  Dispatchers, Server, Backends, Configs, MaxAlerts, MaxTries, MaxRedeliver, MaxDispatcherStop, \* Notifications
  None

VARIABLES
  part,
  origin, db, stamp, backup, stale, pub, cand, holder, inUse, command, commandStops, damages,
  d, lock, sock, listens, started, starts,
  last, loop, asked, requested, streams, active, failed, daemon, con, cli,
  enabled, old, deliveries, purged, procs, runs, shown, redelivered, dispatcherStops

migrationVars == <<origin, db, stamp, backup, stale, pub, cand, holder, inUse, command, commandStops, damages>>
startVars == <<d, lock, sock, listens, started, starts>>
apiVars == <<last, loop, asked, requested, streams, active, failed, daemon, con, cli>>
alertVars == <<enabled, old, deliveries, purged, procs, runs, shown, redelivered, dispatcherStops>>

Migration == INSTANCE DatabaseMigration
  WITH Procs <- Commands, MaxStop <- MaxCommandStop, daemon <- inUse, proc <- command, stops <- commandStops

Starting == INSTANCE DaemonStart

\* Clients of every kind that meet a full server, after a truncated history.
Crowd == INSTANCE ControlApi
  WITH MaxClients <- 1, QueueBound <- 1, Room <- 1, Limit <- 1, Oldest <- 3, MaxEvents <- MaxWatched, Start <- {2},
       MaxConnects <- 1, CanStall <- TRUE

\* One client that watches, is cut off and resumes.
Watcher == INSTANCE ControlApi
  WITH Clients <- OneClient, Kinds <- {"watch"}, CanFail <- TRUE, MaxClients <- 1, QueueBound <- 1, Room <- 1,
       Limit <- 2, Oldest <- 3, MaxEvents <- 7, Start <- {0, 1, 2}, MaxConnects <- 3, CanStall <- TRUE

\* The configuration files name any backends; in the fair runs the daemon's name them all.
Alerts == INSTANCE Notifications
  WITH Commands <- Dispatchers, Daemon <- Server, MaxEvents <- MaxAlerts, MaxAttempts <- MaxTries,
       MaxStops <- MaxDispatcherStop, starts <- runs, stops <- dispatcherStops

\* What the proofs about these parts assume of their constants.
ASSUME AlertsAssumption == Alerts!ConstantsOK
ASSUME StartAssumption == Starting!ConstantsOK
ASSUME MigrationAssumption == Migration!ConstantsOK
ASSUME ApiAssumption == Crowd!ConstantsOK /\ Watcher!ConstantsOK

MCInit ==
  /\ part \in Parts
  /\ Init /\ Migration!Init /\ Starting!Init /\ Alerts!Init
  /\ IF part = "watcher" THEN Watcher!Init ELSE Crowd!Init
  /\ part # "lease" => path = 0
  /\ part # "migration" => origin = 3

MCNext ==
  \/ part = "lease" /\ Next /\ UNCHANGED <<part, migrationVars, startVars, apiVars, alertVars>>
  \/ part = "migration" /\ Migration!Next /\ UNCHANGED <<part, vars, startVars, apiVars, alertVars>>
  \/ part = "start" /\ Starting!Next /\ UNCHANGED <<part, vars, migrationVars, apiVars, alertVars>>
  \/ part = "crowd" /\ Crowd!Next /\ UNCHANGED <<part, vars, migrationVars, startVars, alertVars>>
  \/ part = "watcher" /\ Watcher!Next /\ UNCHANGED <<part, vars, migrationVars, startVars, alertVars>>
  \/ part = "alerts" /\ Alerts!Next /\ UNCHANGED <<part, vars, migrationVars, startVars, apiVars>>

MCSpec == MCInit /\ [][MCNext]_<<part, vars, migrationVars, startVars, apiVars, alertVars>>

InCrowd(A) == part = "crowd" /\ A
InAlerts(A) == part = "alerts" /\ A

\* The fairness of the modules.
MCFairSpec ==
  /\ MCSpec
  /\ \A p \in Commands : SF_migrationVars(part = "migration" /\ Migration!Step(p))
  /\ \A x \in Daemons : /\ WF_startVars(part = "start" /\ Starting!Step(x))
                        /\ WF_startVars(part = "start" /\ Starting!Delivered(x))
  /\ WF_apiVars(InCrowd(Crowd!Loop)) /\ WF_apiVars(InCrowd(Crowd!Daemon))
  /\ \A c \in Clients : WF_apiVars(InCrowd(Crowd!Worker(c))) /\ WF_apiVars(InCrowd(Crowd!ProducerStops(c)))
  /\ WF_alertVars(InAlerts(Alerts!StartDaemon(Backends)))
  /\ WF_alertVars(InAlerts(Alerts!Dispatch(Server)))
  /\ \A e \in 1..MaxAlerts : WF_alertVars(InAlerts(Alerts!Age(e)))
  /\ \A r \in 1..Alerts!MaxRows : WF_alertVars(InAlerts(Alerts!Due(r)))

\* The same two processes open the database, migrate it, are daemons and clients, and are
\* compared for equality only.
Symmetry == Permutations(Openers)

-----------------------------------------------------------------------------
\* Whatever stops, the path or the candidate has a readable database, every migrated
\* one has its backup, the next command can recover and work that was committed stays
\* (migrate_schema3 to 5, recover_schema3_publication).
MigrationExact == Migration!Exact

\* One daemon serves at a time, the socket path leads to it, and it never takes a
\* delivery of a living daemon for abandoned (DaemonApiLease, run_daemon).
DaemonExact == Starting!Exact

\* Permits, streams and errors are accounted for until the server has returned, and a
\* client that resumes misses no event and reads none twice (serve, stream_events).
ApiExact ==
  /\ [](part = "crowd" => Crowd!TypeOK /\ Crowd!Exact)
  /\ [](part = "watcher" => Watcher!TypeOK /\ Watcher!Exact)

\* An alert is shown once for each delivery, by one process, within its attempts, and
\* not under an item that is purged (dispatch_once, recover_deliveries).
NotifiedOnce == Alerts!Exact

\* A migration that is repeated ends with the current schema.
Migrates == part = "migration" => Migration!Migrates

\* Every notification delivery is settled.
DeliveriesSettle == part = "alerts" => Alerts!Settles

\* The daemon begins its cycle once it has the lease, and its server ends with every
\* worker when it is told to or when one of them fails.
DaemonStops ==
  /\ part = "start" => Starting!Begins
  /\ part = "crowd" => Crowd!Stops /\ Crowd!Leaves
=============================================================================
