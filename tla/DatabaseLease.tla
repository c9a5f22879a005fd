---------------------------- MODULE DatabaseLease ----------------------------
(***************************************************************************)
(* The process fence of the queue database (src/src/control_store.rs       *)
(* DatabaseProcessLease) and the opening of a database under it            *)
(* (src/src/lib.rs SqliteQueue::open, publish_fresh_database).             *)
(*                                                                         *)
(* The fence is a lock file that may not exist yet, so the database file   *)
(* itself is locked first; a migration exchanges that file for another.    *)
(* flock locks belong to the inode a process has opened, not to the path.  *)
(*                                                                         *)
(* Abstractions.                                                           *)
(*  - A lock wait of five seconds ends in TimeOut at any moment.           *)
(*  - The snapshot copied for validation is one reading of the file: its   *)
(*    copies are compared and repeated until nothing changed.              *)
(*  - A migration here is one exchange; its steps are DatabaseMigration.   *)
(***************************************************************************)
EXTENDS Naturals, FiniteSets

CONSTANTS
  Openers,    \* processes that open the database for use
  Sharers,    \* processes that open it and keep a lease: daemon, operations
  Migrators,  \* offline migrations
  MaxInode,   \* bound on the database files created
  MaxStop     \* bound on stops and timeouts

ASSUME LeaseAssumption == MaxInode \in Nat \ {0} /\ MaxStop \in Nat

Procs == Openers \cup Sharers \cup Migrators

VARIABLES
  path,      \* inode of the database file, 0 when there is none
  schema,    \* schema of each database file
  created,   \* number of database files created
  lockFile,  \* the lock file exists
  dbLocks,   \* locks on database files: <<process, inode, mode>>
  ctlLocks,  \* locks on the lock file: <<process, mode>>
  written,   \* database files in which work was committed
  proc,
  stops

vars == <<path, schema, created, lockFile, dbLocks, ctlLocks, written, proc, stops>>

Inodes == 1..MaxInode

Proc == [pc : {"idle", "temp", "lock", "look", "fence", "validate", "stabilize", "handoff", "opened",
               "runtime", "kept", "migrating"},
         file : 0..MaxInode,   \* inode of the database file it opened
         on : {"none", "database", "fence"},  \* what its lease is a lock of
         validated : 0..MaxInode]  \* inode of the database it validated

Idle == [pc |-> "idle", file |-> 0, on |-> "none", validated |-> 0]

Init ==
  /\ path \in {0, 1}  \* none, or one of schema 3
  /\ created = path
  /\ schema = [i \in Inodes |-> 3]
  /\ lockFile = FALSE
  /\ dbLocks = {} /\ ctlLocks = {}
  /\ written = {}
  /\ proc = [p \in Procs |-> Idle]
  /\ stops = 0

At(p, pc) == proc[p].pc = pc
Goto(p, pc) == proc' = [proc EXCEPT ![p].pc = pc]

Mode(p) == IF p \in Migrators THEN "exclusive" ELSE "shared"

\* flock on an inode: a shared lock excludes exclusive ones, an exclusive one all.
DbFree(p, i, mode) ==
  \A l \in dbLocks : l[1] # p /\ l[2] = i => mode = "shared" /\ l[3] = "shared"

CtlFree(p, mode) ==
  \A l \in ctlLocks : l[1] # p => mode = "shared" /\ l[2] = "shared"

\* Drop: the locks of a process are released.
Released(p) ==
  /\ dbLocks' = {l \in dbLocks : l[1] # p}
  /\ ctlLocks' = {l \in ctlLocks : l[1] # p}

End(p) ==
  /\ proc' = [proc EXCEPT ![p] = Idle]
  /\ Released(p)

-----------------------------------------------------------------------------
(* A fresh database *)

\* publish_fresh_database: a complete database under a private name.
CreateTemp(p) ==
  /\ At(p, "idle") /\ p \in Openers
  /\ path = 0
  /\ created < MaxInode
  /\ created' = created + 1
  /\ schema' = [schema EXCEPT ![created'] = 6]
  /\ proc' = [proc EXCEPT ![p].pc = "temp", ![p].file = created']
  /\ UNCHANGED <<path, lockFile, dbLocks, ctlLocks, written, stops>>

\* publish_database_noreplace: the loser removes its file and uses the other.
PublishTemp(p) ==
  /\ At(p, "temp")
  /\ path' = IF path = 0 THEN proc[p].file ELSE path
  /\ proc' = [proc EXCEPT ![p] = Idle]
  /\ UNCHANGED <<schema, created, lockFile, dbLocks, ctlLocks, written, stops>>

-----------------------------------------------------------------------------
(* The lease *)

\* The database file is opened and compared with the path before the wait.
OpenFile(p) ==
  /\ At(p, "idle")
  /\ path # 0
  /\ proc' = [proc EXCEPT ![p].pc = "lock", ![p].file = path]
  /\ UNCHANGED <<path, schema, created, lockFile, dbLocks, ctlLocks, written, stops>>

\* acquire_file on the database.
LockDatabase(p) ==
  /\ At(p, "lock")
  /\ DbFree(p, proc[p].file, Mode(p))
  /\ dbLocks' = dbLocks \cup {<<p, proc[p].file, Mode(p)>>}
  /\ Goto(p, IF p \in Openers THEN "look" ELSE "fence")
  /\ UNCHANGED <<path, schema, created, lockFile, ctlLocks, written, stops>>

\* Mutant of LookForFence: without a lock file the database is not kept locked.
LookForFenceUnlocked(p) ==
  /\ At(p, "look")
  /\ IF lockFile
     THEN Goto(p, "fence") /\ UNCHANGED dbLocks
     ELSE /\ proc' = [proc EXCEPT ![p].pc = "validate", ![p].on = "database"]
          /\ dbLocks' = {l \in dbLocks : l[1] # p}
  /\ UNCHANGED <<path, schema, created, lockFile, ctlLocks, written, stops>>

\* acquire_existing: without a lock file the locked database is the lease.
LookForFence(p) ==
  /\ At(p, "look")
  /\ IF lockFile
     THEN Goto(p, "fence")
     ELSE proc' = [proc EXCEPT ![p].pc = "validate", ![p].on = "database"]
  /\ UNCHANGED <<path, schema, created, lockFile, dbLocks, ctlLocks, written, stops>>

\* The lock file beside the database; it is never removed.
CreateFence == lockFile' = TRUE

\* acquire_with_mode and acquire_existing: the lock file, created when absent, is
\* locked before the database is unlocked.
LockFence(p) ==
  /\ At(p, "fence")
  /\ CtlFree(p, Mode(p))
  /\ CreateFence
  /\ ctlLocks' = ctlLocks \cup {<<p, Mode(p)>>}
  /\ dbLocks' = {l \in dbLocks : l[1] # p}
  /\ proc' = [proc EXCEPT ![p].on = "fence",
       ![p].pc = IF p \in Openers THEN "validate" ELSE IF p \in Sharers THEN "kept" ELSE "migrating"]
  /\ UNCHANGED <<path, schema, created, written, stops>>

-----------------------------------------------------------------------------
(* Opening under the lease *)

\* verify_authority: a lease on the database is one on the file at the path.
Authority(p) == proc[p].on = "database" => proc[p].file = path

\* require_current_schema_version of the snapshot copied under the lease.
SnapshotAccepted == schema[path] = 6

\* PrimaryDatabaseIdentity::open and validate_database_snapshot_under_lease; only
\* the current schema is accepted.
Validate(p) ==
  /\ At(p, "validate")
  /\ IF Authority(p) /\ SnapshotAccepted
     THEN proc' = [proc EXCEPT ![p].pc = "stabilize", ![p].validated = path]
          /\ UNCHANGED <<dbLocks, ctlLocks>>
     ELSE End(p)
  /\ UNCHANGED <<path, schema, created, lockFile, written, stops>>

\* stabilize: a lease on the database becomes one on the lock file.
Stabilize(p) ==
  /\ At(p, "stabilize")
  /\ \/ /\ proc[p].on = "fence"
        /\ Goto(p, "handoff")
        /\ UNCHANGED <<lockFile, dbLocks, ctlLocks>>
     \/ /\ proc[p].on = "database"
        /\ Authority(p)
        /\ CtlFree(p, "shared")
        /\ CreateFence
        /\ ctlLocks' = ctlLocks \cup {<<p, "shared">>}
        /\ dbLocks' = {l \in dbLocks : l[1] # p}
        /\ proc' = [proc EXCEPT ![p].pc = "handoff", ![p].on = "fence"]
  /\ UNCHANGED <<path, schema, created, written, stops>>

\* verify_authoritative: the file validated is the one at the path.
Authoritative(p) == proc[p].validated = path

\* The database is opened under the stable lease.
Handoff(p) ==
  /\ At(p, "handoff")
  /\ IF Authoritative(p)
     THEN Goto(p, "opened") /\ UNCHANGED <<dbLocks, ctlLocks>>
     ELSE End(p)
  /\ UNCHANGED <<path, schema, created, lockFile, written, stops>>

\* SqliteQueue::open returns the authority and drops the lease.
DropLease(p) ==
  /\ At(p, "opened")
  /\ proc' = [proc EXCEPT ![p].pc = "runtime", ![p].on = "none"]
  /\ Released(p)
  /\ UNCHANGED <<path, schema, created, lockFile, written, stops>>

\* ValidatedDatabaseAuthority::open_connection: verify_path, then a transaction.
Use(p) ==
  /\ At(p, "runtime")
  /\ Authoritative(p)
  /\ written' = written \cup {path}
  /\ UNCHANGED <<path, schema, created, lockFile, dbLocks, ctlLocks, proc, stops>>

\* The process is finished.
Leave(p) ==
  /\ proc[p].pc \in {"runtime", "kept"}
  /\ End(p)
  /\ UNCHANGED <<path, schema, created, lockFile, written, stops>>

-----------------------------------------------------------------------------
(* A migration *)

\* exchange_database_files: another file at the path, of the current schema; a
\* database that is current is left alone.
Migrate(p) ==
  /\ At(p, "migrating")
  /\ \/ /\ schema[path] # 6
        /\ created < MaxInode
        /\ created' = created + 1
        /\ path' = created'
        /\ schema' = [schema EXCEPT ![created'] = 6]
     \/ schema[path] = 6 /\ UNCHANGED <<path, schema, created>>
  /\ End(p)
  /\ UNCHANGED <<lockFile, written, stops>>

\* The wait for a lock ends, an error ends the process, or it stops: the kernel
\* releases its locks.
Stop(p) ==
  /\ ~At(p, "idle")
  /\ stops < MaxStop
  /\ stops' = stops + 1
  /\ End(p)
  /\ UNCHANGED <<path, schema, created, lockFile, written>>

Step(p) ==
  \/ CreateTemp(p) \/ PublishTemp(p) \/ OpenFile(p) \/ LockDatabase(p) \/ LookForFence(p)
  \/ LockFence(p) \/ Validate(p) \/ Stabilize(p) \/ Handoff(p) \/ DropLease(p) \/ Use(p) \/ Leave(p)
  \/ Migrate(p)

Next == \E p \in Procs : Step(p) \/ Stop(p)

Spec == Init /\ [][Next]_vars

-----------------------------------------------------------------------------
(* Properties *)

\* Types of the files, the locks and the processes.
TypeOK ==
  /\ path \in 0..MaxInode /\ created \in 0..MaxInode /\ path <= created
  /\ schema \in [Inodes -> {3, 6}]
  /\ lockFile \in BOOLEAN
  /\ dbLocks \subseteq Procs \X Inodes \X {"shared", "exclusive"}
  /\ ctlLocks \subseteq Procs \X {"shared", "exclusive"}
  /\ written \subseteq Inodes
  /\ proc \in [Procs -> Proc]
  /\ stops \in 0..MaxStop

\* Processes that have a lease, on the database or on the lock file.
Sharing == {p \in Procs : proc[p].pc \in {"validate", "stabilize", "handoff", "opened", "kept"}}
Excluding == {p \in Procs : At(p, "migrating")}

\* A migration has the database alone although leases are locks of two files, one of
\* which it replaces and the other of which may be missing (DatabaseProcessLease).
MigratesAlone ==
  \A p \in Excluding : Sharing = {} /\ Excluding = {p}

Lease == INSTANCE ProcessLease WITH shared <- Sharing, exclusive <- Excluding

\* The two-file fence implements the lease.
IsLease == Lease!Spec

\* While a process opens the database, the file it validated is the one at the path
\* and of the current schema.
OpenedIsCurrent ==
  \A p \in Procs : proc[p].pc \in {"handoff", "opened"} =>
    proc[p].validated = path /\ schema[path] = 6

\* Work committed by any process is in the database at the path: no migration and no
\* second fresh database puts it aside (publish_database_noreplace, open_connection).
WorkStays == written \subseteq {path}

\* A migration has the database alone, and what others opened and wrote is the database
\* at the path; the fence is a lease of processes (DatabaseProcessLease, SqliteQueue::open).
LeaseExact == [](TypeOK /\ MigratesAlone /\ OpenedIsCurrent /\ WorkStays) /\ IsLease
=============================================================================
