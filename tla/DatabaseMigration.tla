-------------------------- MODULE DatabaseMigration --------------------------
(***************************************************************************)
(* Offline migration of the queue database from schema 3, 4 or 5 to 6      *)
(* (src/src/lib.rs migrate_schema3, migrate_schema4, migrate_schema5):     *)
(* backup, private candidate, conversion, exchange of the two files and    *)
(* validation, and for schema 3 the publication state file from which the  *)
(* next command recovers.                                                  *)
(*                                                                         *)
(* Abstractions.                                                           *)
(*  - A database file is its schema and the work committed in it; schema 0 *)
(*    is one that cannot be validated (a candidate half written, a file    *)
(*    damaged).  The conversion of rows is not modelled.                   *)
(*  - The digest of a schema-3 source covers times and inode, so a source  *)
(*    that was exchanged twice has another: stamp.                         *)
(*  - A candidate that no publication state names has a name of its own    *)
(*    and is never read again.                                             *)
(*  - The lease is the one DatabaseLease implements.                       *)
(***************************************************************************)
EXTENDS Integers

CONSTANTS
  Procs,      \* migration commands
  MaxStop,    \* bound on commands that stop or fail
  MaxDamage,  \* bound on published files that cannot be read back
  MaxWork,    \* bound on the work of the daemon
  None

VARIABLES
  origin,   \* schema of the database at first
  db,       \* the file at the path of the database
  stamp,    \* identity of the source file
  backup,   \* backup of each schema: 0, or the stamp of its source
  stale,    \* stamp of a backup of another source, quarantined, or 0
  pub,      \* the publication state file of schema 3
  cand,     \* schema of the file in the candidate directory
  holder,   \* the command that has the exclusive lease
  daemon,   \* a daemon uses the database
  proc,
  stops, damages

vars == <<origin, db, stamp, backup, stale, pub, cand, holder, daemon, proc, stops, damages>>
disk == <<origin, db, stamp, backup, stale, pub, cand>>

Source == 3..5
Current == 6
Broken == 0

Pub == [phase : {"prepared", "exchanged", "validated", "complete"}, stamp : 1..(1 + MaxDamage)]

Proc == [pc : {"idle", "recover", "mark", "forget", "inspect", "copy", "backup", "replace", "convert",
               "prepare", "exchange", "exchanged", "validate", "remove", "complete", "finish", "done"},
         want : Source, cmd : Source]

\* None is no value of a row or of a file.
ConstantsOK ==
  /\ MaxStop \in Nat /\ MaxDamage \in Nat /\ MaxWork \in Nat
  /\ None \notin Procs /\ None \notin Pub /\ None \notin Broken..Current

Init ==
  /\ origin \in Source
  /\ db = [schema |-> origin, work |-> 0]
  /\ stamp = 1
  /\ backup = [v \in Source |-> 0]
  /\ stale = 0
  /\ pub = None /\ cand = None /\ holder = None
  /\ daemon = FALSE
  /\ \E want \in [Procs -> {origin} \cup (IF origin = 4 THEN {5} ELSE {})] :
       /\ \E p \in Procs : want[p] = origin
       /\ proc = [p \in Procs |-> [pc |-> "idle", want |-> want[p], cmd |-> want[p]]]
  /\ stops = 0 /\ damages = 0

At(p, pc) == proc[p].pc = pc
Goto(p, pc) == proc' = [proc EXCEPT ![p].pc = pc]
Is(p, cmd) == proc[p].cmd = cmd

\* The command ends: its lease is dropped.
Ended(p, pc) ==
  /\ proc' = [proc EXCEPT ![p].pc = pc, ![p].cmd = proc[p].want]
  /\ holder' = None

-----------------------------------------------------------------------------
(* The start of a command *)

\* acquire_exclusive: the daemon and other commands hold the lease meanwhile.
Acquire(p) ==
  /\ At(p, "idle")
  /\ holder = None /\ ~daemon
  /\ holder' = p
  /\ Goto(p, IF Is(p, 3) THEN "recover" ELSE "inspect")
  /\ UNCHANGED <<disk, daemon, stops, damages>>

\* validate_schema3_backup with the digest of the state file.
BackupIsExact == backup[3] = pub.stamp

\* Mutant of Recover: a publication that was not validated is undone.
RecoverBack(p) ==
  /\ At(p, "recover")
  /\ \/ pub = None /\ Goto(p, "inspect") /\ UNCHANGED <<db, stamp, cand, holder>>
     \/ /\ pub # None /\ BackupIsExact
        /\ \/ /\ db.schema = Current /\ cand = None
              /\ Goto(p, "mark") /\ UNCHANGED <<db, stamp, cand, holder>>
           \/ /\ db.schema = 3
              /\ cand' = None
              /\ Goto(p, "forget") /\ UNCHANGED <<db, stamp, holder>>
           \/ /\ db.schema # 3 /\ cand = 3
              /\ db' = [schema |-> 3, work |-> 0]
              /\ stamp' = stamp + 1
              /\ cand' = None
              /\ Goto(p, "forget") /\ UNCHANGED holder
  /\ UNCHANGED <<origin, backup, stale, pub, daemon, stops, damages>>

\* recover_schema3_publication: a published database is kept and the source beside
\* it removed; a source that was not exchanged is kept and the candidate removed;
\* otherwise the source comes back from the candidate.
Recover(p) ==
  /\ At(p, "recover")
  /\ \/ pub = None /\ Goto(p, "inspect") /\ UNCHANGED <<db, stamp, cand, holder>>
     \/ /\ pub # None /\ BackupIsExact
        /\ \/ /\ db.schema = Current /\ cand \in {3, None}
              /\ cand' = None
              /\ Goto(p, "mark") /\ UNCHANGED <<db, stamp, holder>>
           \/ /\ db.schema = 3
              /\ cand' = None
              /\ Goto(p, "forget") /\ UNCHANGED <<db, stamp, holder>>
           \/ /\ db.schema = Broken /\ cand = 3
              /\ db' = [schema |-> 3, work |-> 0]
              /\ stamp' = stamp + 1
              /\ cand' = None
              /\ Goto(p, "forget") /\ UNCHANGED holder
  /\ UNCHANGED <<origin, backup, stale, pub, daemon, stops, damages>>

\* write_migration_publication_state Complete.
RecoverMark(p) ==
  /\ At(p, "mark")
  /\ pub' = [pub EXCEPT !.phase = "complete"]
  /\ Goto(p, "inspect")
  /\ UNCHANGED <<origin, db, stamp, backup, stale, cand, holder, daemon, stops, damages>>

\* remove_migration_publication_state.
RecoverForget(p) ==
  /\ At(p, "forget")
  /\ pub' = None
  /\ Goto(p, "inspect")
  /\ UNCHANGED <<origin, db, stamp, backup, stale, cand, holder, daemon, stops, damages>>

\* A schema-4 database already at 5 is continued by migrate_schema5, under a lease
\* of its own.
Chain(p) ==
  /\ proc' = [proc EXCEPT ![p].pc = "idle", ![p].cmd = 5]
  /\ holder' = None

\* Mutant of Inspect: a database the command of schema 4 left at 5 is refused.
InspectNoChain(p) ==
  /\ At(p, "inspect")
  /\ \/ db.schema = proc[p].cmd /\ Goto(p, IF Is(p, 3) THEN "copy" ELSE "backup") /\ UNCHANGED holder
     \/ db.schema # proc[p].cmd /\ Ended(p, "done")
  /\ UNCHANGED <<disk, daemon, stops, damages>>

\* The version read under the lease decides: done already, half done, or to do.
Inspect(p) ==
  /\ At(p, "inspect")
  /\ \/ db.schema = Current /\ backup[proc[p].cmd] # 0 /\ Ended(p, "done")
     \/ Is(p, 4) /\ db.schema = 5 /\ backup[4] # 0 /\ Chain(p)
     \/ db.schema = proc[p].cmd /\ Goto(p, IF Is(p, 3) THEN "copy" ELSE "backup") /\ UNCHANGED holder
     \/ ~(db.schema = Current /\ backup[proc[p].cmd] # 0)
        /\ ~(Is(p, 4) /\ db.schema = 5 /\ backup[4] # 0)
        /\ db.schema # proc[p].cmd /\ Ended(p, "done")
  /\ UNCHANGED <<disk, daemon, stops, damages>>

-----------------------------------------------------------------------------
(* Backup and candidate *)

\* schema3_source_digest: length, bytes and identity of the files of the database.
SameFamily == backup[3] \in {0, stamp}

\* create_schema3_backup: one that exists is compared with the source, and
\* quarantined when it is of another.
CreateBackup(p) ==
  /\ At(p, "backup") /\ Is(p, 3)
  /\ \/ /\ SameFamily
        /\ backup' = [backup EXCEPT ![3] = stamp]
        /\ Goto(p, "convert")
        /\ UNCHANGED stale
     \/ /\ ~SameFamily
        /\ backup' = [backup EXCEPT ![3] = 0]
        /\ stale' = backup[3]
        /\ Goto(p, "replace")
  /\ UNCHANGED <<origin, db, stamp, pub, cand, holder, daemon, stops, damages>>

\* validate_schema5_backup: the bytes are those of the source.
SameBytes(v) == backup[v] \in {0, stamp}

\* ensure_schema4_backup, ensure_schema5_backup: one that exists must have the
\* bytes of the source.
EnsureBackup(p) ==
  /\ At(p, "backup") /\ ~Is(p, 3)
  /\ SameBytes(proc[p].cmd)
  /\ backup' = [backup EXCEPT ![proc[p].cmd] = stamp]
  /\ Goto(p, "copy")
  /\ UNCHANGED <<origin, db, stamp, stale, pub, cand, holder, daemon, stops, damages>>

\* The new backup is published under the name of the quarantined one.
ReplaceBackup(p) ==
  /\ At(p, "replace")
  /\ backup' = [backup EXCEPT ![3] = stamp]
  /\ stale' = 0
  /\ Goto(p, "convert")
  /\ UNCHANGED <<origin, db, stamp, pub, cand, holder, daemon, stops, damages>>

\* PrivateDatabaseCandidate::new and copy_database_file.
Copy(p) ==
  /\ At(p, "copy")
  /\ cand' = db.schema
  /\ Goto(p, IF Is(p, 3) THEN "backup" ELSE "convert")
  /\ UNCHANGED <<origin, db, stamp, backup, stale, pub, holder, daemon, stops, damages>>

\* The transaction on the candidate commits; a schema-4 database becomes a 5.
Convert(p) ==
  /\ At(p, "convert")
  /\ cand' = IF Is(p, 4) THEN 5 ELSE Current
  /\ Goto(p, IF Is(p, 3) THEN "prepare" ELSE "exchange")
  /\ UNCHANGED <<origin, db, stamp, backup, stale, pub, holder, daemon, stops, damages>>

-----------------------------------------------------------------------------
(* Publication *)

Phase(p, phase, pc) ==
  /\ pub' = [phase |-> phase, stamp |-> stamp]
  /\ Goto(p, pc)
  /\ UNCHANGED <<origin, db, stamp, backup, stale, cand, holder, daemon, stops, damages>>

Prepare(p) == At(p, "prepare") /\ Phase(p, "prepared", "exchange")

\* exchange_database_files: the source is in the candidate directory afterwards.
Exchange(p) ==
  /\ At(p, "exchange")
  /\ db' = [schema |-> cand, work |-> 0]
  /\ cand' = db.schema
  /\ Goto(p, IF Is(p, 3) THEN "exchanged" ELSE "validate")
  /\ UNCHANGED <<origin, stamp, backup, stale, pub, holder, daemon, stops, damages>>

\* The files are synced before the state says so.
MarkExchanged(p) == At(p, "exchanged") /\ Phase(p, "exchanged", "validate")

\* The published file is opened and its identity read.
MarkValidated(p) ==
  /\ At(p, "validate") /\ Is(p, 3)
  /\ db.schema = Current
  /\ Phase(p, "validated", "remove")

ValidatePublished(p) ==
  /\ At(p, "validate") /\ ~Is(p, 3)
  /\ Goto(p, "remove")
  /\ UNCHANGED <<disk, holder, daemon, stops, damages>>

\* A published file that cannot be read back is exchanged again (schemas 4 and 5).
ExchangeBack(p) ==
  /\ At(p, "validate") /\ ~Is(p, 3)
  /\ damages < MaxDamage
  /\ db' = [schema |-> cand, work |-> 0]
  /\ cand' = None
  /\ damages' = damages + 1
  /\ Ended(p, "idle")
  /\ UNCHANGED <<origin, stamp, backup, stale, pub, daemon, stops>>

\* PrivateDatabaseCandidate::remove.
RemoveCandidate(p) ==
  /\ At(p, "remove")
  /\ cand' = None
  /\ Goto(p, IF Is(p, 3) THEN "complete" ELSE "finish")
  /\ UNCHANGED <<origin, db, stamp, backup, stale, pub, holder, daemon, stops, damages>>

MarkComplete(p) == At(p, "complete") /\ Phase(p, "complete", "finish")

Finish(p) ==
  /\ At(p, "finish")
  /\ IF Is(p, 4) THEN Chain(p) ELSE Ended(p, "done")
  /\ UNCHANGED <<disk, daemon, stops, damages>>

-----------------------------------------------------------------------------
(* Environment *)

\* Between the exchange and the end of a command the candidate is kept.
Preserved(p) == Is(p, 3) /\ proc[p].pc \in {"exchanged", "validate", "remove"}

\* An error: Drop removes the candidate unless it was preserved for recovery, and a
\* quarantined backup takes its name again.
Fail(p) ==
  /\ holder = p
  /\ stops < MaxStop
  /\ stops' = stops + 1
  /\ cand' = IF proc[p].pc \in {"recover", "mark", "forget", "inspect"} \/ Preserved(p) THEN cand ELSE None
  /\ IF At(p, "replace")
       THEN backup' = [backup EXCEPT ![3] = stale] /\ stale' = 0
       ELSE UNCHANGED <<backup, stale>>
  /\ Ended(p, "idle")
  /\ UNCHANGED <<origin, db, stamp, pub, daemon, damages>>

\* The command stops: the kernel drops its lease and its files stay.
Stop(p) ==
  /\ holder = p
  /\ stops < MaxStop
  /\ stops' = stops + 1
  /\ cand' = IF pub = None THEN None ELSE cand
  /\ Ended(p, "idle")
  /\ UNCHANGED <<origin, db, stamp, backup, stale, pub, daemon, damages>>

\* A published file that was not validated yet turns out unreadable (schema 3).
Damage ==
  /\ damages < MaxDamage
  /\ ~daemon
  /\ pub # None /\ pub.phase \in {"prepared", "exchanged"}
  /\ db = [schema |-> Current, work |-> 0] /\ cand = 3
  /\ db' = [schema |-> Broken, work |-> 0]
  /\ damages' = damages + 1
  /\ UNCHANGED <<origin, stamp, backup, stale, pub, cand, holder, daemon, proc, stops>>

\* A command that found the published file unreadable fails; the next one recovers.
FindDamage(p) ==
  /\ At(p, "validate") /\ Is(p, 3)
  /\ db.schema = Broken
  /\ Ended(p, "idle")
  /\ UNCHANGED <<disk, daemon, stops, damages>>

\* The daemon accepts the current schema only, whatever the publication state says.
StartDaemon ==
  /\ holder = None /\ ~daemon
  /\ db.schema = Current
  /\ daemon' = TRUE
  /\ UNCHANGED <<disk, holder, proc, stops, damages>>

Work ==
  /\ daemon /\ db.work < MaxWork
  /\ db' = [db EXCEPT !.work = @ + 1]
  /\ UNCHANGED <<origin, stamp, backup, stale, pub, cand, holder, daemon, proc, stops, damages>>

StopDaemon ==
  /\ daemon
  /\ daemon' = FALSE
  /\ UNCHANGED <<disk, holder, proc, stops, damages>>

Step(p) ==
  \/ Acquire(p) \/ Recover(p) \/ RecoverMark(p) \/ RecoverForget(p) \/ Inspect(p)
  \/ CreateBackup(p) \/ EnsureBackup(p) \/ ReplaceBackup(p) \/ Copy(p) \/ Convert(p) \/ Prepare(p) \/ Exchange(p)
  \/ MarkExchanged(p) \/ MarkValidated(p) \/ ValidatePublished(p) \/ ExchangeBack(p)
  \/ RemoveCandidate(p) \/ MarkComplete(p) \/ Finish(p) \/ FindDamage(p)

Next ==
  \/ \E p \in Procs : Step(p) \/ Fail(p) \/ Stop(p)
  \/ Damage \/ StartDaemon \/ Work \/ StopDaemon

Spec == Init /\ [][Next]_vars

\* A command runs on; one that stopped is repeated, and finds the daemon stopped.
FairSpec == Spec /\ \A p \in Procs : SF_vars(Step(p))

-----------------------------------------------------------------------------
(* Properties *)

\* Types of the files, the commands and the state file.
TypeOK ==
  /\ origin \in Source
  /\ db \in [schema : {Broken, Current} \cup Source, work : 0..MaxWork]
  /\ stamp \in 1..(1 + MaxDamage)
  /\ backup \in [Source -> 0..(1 + MaxDamage)]
  /\ stale \in 0..(1 + MaxDamage)
  /\ pub \in Pub \cup {None}
  /\ cand \in Source \cup {Current, None}
  /\ holder \in Procs \cup {None}
  /\ daemon \in BOOLEAN
  /\ proc \in [Procs -> Proc]
  /\ stops \in 0..MaxStop /\ damages \in 0..MaxDamage

\* At every moment, whatever stopped, the path has a database that validates, or the
\* exact source is in the candidate the recovery looks at (exchange_database_files).
NothingLost ==
  db.schema = Broken => cand = 3 /\ pub # None

\* A migrated database has an exact backup of its source, at every stop.
BackedUp ==
  /\ origin = 3 /\ db.schema = Current => backup[3] = stamp
  /\ origin = 4 /\ db.schema > 4 => backup[4] # 0
  /\ origin > 3 /\ db.schema = Current => backup[5] # 0

\* A recovery never meets a state it cannot resolve: the backup is the one the state
\* file names, and the files are one of the cases recover_schema3_publication knows.
RecoveryDecides ==
  pub # None /\ holder = None =>
    /\ BackupIsExact
    /\ db.schema = Current => cand \in {3, None}
    /\ db.schema = Broken => cand = 3

\* Once the published database is in use, no recovery and no repeated command takes
\* it back to its source: the schema stays and committed work stays, whatever the
\* publication state still says.
WorkKept ==
  [][db.work > 0 => db'.schema = Current /\ db'.work >= db.work]_vars

\* What the operator relies on, at every stop.
Exact == [](TypeOK /\ NothingLost /\ BackedUp /\ RecoveryDecides) /\ WorkKept

\* The migration the operator asks for ends with the current schema.
Migrates == <>[](db.schema = Current)
=============================================================================
