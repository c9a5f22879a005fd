----------------------------- MODULE HostProofs -----------------------------
(***************************************************************************)
(* Proofs about what the repositories of one host share (MCHost).          *)
(*                                                                         *)
(* The process fence of the database (DatabaseLease): a migration has the  *)
(* database alone, whatever the number of processes, and work stays in the *)
(* database at the path.  The argument rests on one fact about the two     *)
(* files.  A process may lease the database file only while there is no    *)
(* lock file; until then no migration can have exchanged the file, so that *)
(* all who are on their way to the fence queue at the file it leased       *)
(* (NoDetour).                                                             *)
(*                                                                         *)
(* The alerts (Notifications): an alert is shown once for each delivery,   *)
(* whoever dispatches and whatever dies.  A dispatcher whose command may   *)
(* have run finds its row as it left it, or given up by a daemon that      *)
(* started (DispatchersExact), and a row that is given up is never tried   *)
(* again; what an operator has delivered again is a chain of which only    *)
(* the last row can be open (Chained).                                     *)
(*                                                                         *)
(* The start of the daemons (DaemonStart): one daemon serves, the path     *)
(* leads to it, and no delivery of a daemon that lives is taken for        *)
(* abandoned.  Whoever is past the lease has it (LeaseHeld), so that what  *)
(* is at the path is not touched by another.                               *)
(*                                                                         *)
(* The migration (DatabaseMigration): the path has a database that         *)
(* validates or the source is where the recovery finds it, a migrated      *)
(* database has the backup of its source, and work committed in it stays.  *)
(* The files are tied to the step the one command under way is at          *)
(* (FromThree, FromFour); when none is under way they are in a state that  *)
(* a recovery resolves (FilesExact).                                       *)
(*                                                                         *)
(* The API of a repository (ControlApi): what ApiProofs proves of it holds *)
(* of both instances, the one with many clients and the one that watches.  *)
(***************************************************************************)
EXTENDS MCHost, Sequences, Integers, FiniteSetTheorems, TLAPS

(***************************************************************************)
(* The lease of the database.                                              *)
(***************************************************************************)

\* A process that has its lock and waits for the fence, or has a lease, owns the lock
\* that the lease is made of.
LocksHeld ==
  \A p \in Procs :
    /\ proc[p].pc \in {"look", "fence"} \/ proc[p].on = "database" =>
         <<p, proc[p].file, Mode(p)>> \in dbLocks
    /\ proc[p].on = "fence" => \E m \in {"shared", "exclusive"} : <<p, m>> \in ctlLocks
    /\ At(p, "migrating") => <<p, "exclusive">> \in ctlLocks

\* Locks of one file are compatible.
Compatible ==
  /\ \A l, m \in dbLocks : l[1] # m[1] /\ l[2] = m[2] => l[3] = "shared" /\ m[3] = "shared"
  /\ \A l, m \in ctlLocks : l[1] # m[1] => l[2] = "shared" /\ m[2] = "shared"

\* The steps at which a process has which lease.
LeaseOfStep ==
  \A p \in Procs :
    /\ proc[p].pc \in {"handoff", "opened", "kept", "migrating"} => proc[p].on = "fence"
    /\ proc[p].pc \in {"validate", "stabilize"} => proc[p].on \in {"database", "fence"}
    /\ proc[p].pc \in {"idle", "temp", "lock", "look", "fence", "runtime"} => proc[p].on = "none"

\* A process has a file that was created; past its opening there is a database.
FilesCreated ==
  \A p \in Procs :
    /\ ~At(p, "idle") => proc[p].file \in 1..created
    /\ proc[p].pc \notin {"idle", "temp"} => path # 0

\* The lock file is there once it was locked.
FenceMade == ctlLocks # {} => lockFile

\* While there is no lock file, or someone leases the database file instead, all who
\* are on their way to the fence have opened the file at the path.
NoDetour ==
  /\ ~lockFile \/ (\E p \in Procs : proc[p].on = "database") =>
       \A q \in Procs : proc[q].pc \in {"lock", "look", "fence"} => proc[q].file = path
  /\ \A p \in Procs : proc[p].on = "database" => proc[p].file = path

\* What was validated is at the path until the lease is dropped, and stays current.
ValidatedCurrent ==
  \A p \in Procs :
    /\ proc[p].pc \in {"stabilize", "handoff", "opened"} => proc[p].validated = path /\ schema[path] = 6
    /\ At(p, "runtime") => proc[p].validated \in 1..created /\ schema[proc[p].validated] = 6

\* Work is in the database at the path, which no migration exchanges any more.
WorkCurrent == WorkStays /\ (written # {} => path # 0 /\ schema[path] = 6)

LeaseInv ==
  /\ TypeOK /\ LocksHeld /\ Compatible /\ LeaseOfStep /\ FilesCreated /\ FenceMade /\ NoDetour
  /\ MigratesAlone /\ ValidatedCurrent /\ WorkCurrent

-----------------------------------------------------------------------------
(* Every action keeps the invariant *)

LEMMA IdleTyped == Idle \in Proc
  BY LeaseAssumption DEF Idle, Proc

\* CreateTemp (publish_fresh_database) keeps the invariant.
LEMMA CreateTempKeeps == ASSUME LeaseInv, NEW p \in Procs, CreateTemp(p) PROVE LeaseInv'
  <1>1. /\ TypeOK /\ LocksHeld /\ Compatible /\ LeaseOfStep /\ FilesCreated /\ FenceMade /\ NoDetour
        /\ MigratesAlone /\ ValidatedCurrent /\ WorkCurrent
    BY DEF LeaseInv
  <1>2. /\ proc \in [Procs -> Proc] /\ schema \in [Inodes -> {3, 6}]
        /\ created \in Nat /\ path \in Nat /\ path <= created /\ created <= MaxInode
    BY <1>1 DEF TypeOK
  <1>3. \A q \in Procs : q # p => proc'[q] = proc[q]
    BY <1>2 DEF CreateTemp
  <1>4. /\ proc'[p].pc = "temp" /\ proc'[p].file = created'
        /\ proc'[p].on = proc[p].on /\ proc'[p].validated = proc[p].validated
    BY <1>2 DEF CreateTemp
  <1>5. created' = created + 1 /\ created' \in Inodes
    BY <1>2, LeaseAssumption DEF Inodes, CreateTemp
  <1>6. \A i \in Inodes : schema'[i] = IF i = created' THEN 6 ELSE schema[i]
    BY <1>2 DEF CreateTemp
  <1>7. UNCHANGED <<path, lockFile, dbLocks, ctlLocks, written, stops>>
    BY DEF CreateTemp
  <1>8. proc[p].pc = "idle" /\ path = 0
    BY DEF At, CreateTemp
  <1>9. proc' \in [Procs -> Proc]
    <2>1. created' \in 0..MaxInode /\ proc[p] \in Proc
      BY <1>2, <1>5 DEF Inodes
    <2>2. [proc[p] EXCEPT !.pc = "temp", !.file = created'] \in Proc
      BY <2>1 DEF Proc
    <2> QED BY <1>2, <2>2 DEF CreateTemp
  <1>10. TypeOK'
    <2>1. created' \in 0..MaxInode /\ path' <= created'
      BY <1>2, <1>5, <1>7 DEF Inodes
    <2>2. schema' \in [Inodes -> {3, 6}]
      BY <1>2 DEF CreateTemp
    <2> QED BY <1>1, <1>7, <1>9, <2>1, <2>2 DEF TypeOK
  <1>11. LocksHeld'
    BY <1>1, <1>2, <1>3, <1>4, <1>5, <1>6, <1>7, <1>8, LeaseAssumption DEF LocksHeld, LeaseOfStep,
       At, Mode
  <1>12. Compatible'
    BY <1>1, <1>7 DEF Compatible
  <1>13. LeaseOfStep'
    BY <1>1, <1>3, <1>4, <1>8 DEF LeaseOfStep
  <1>14. FilesCreated'
    BY <1>1, <1>2, <1>3, <1>4, <1>5, <1>8 DEF FilesCreated, At
  <1>15. FenceMade'
    BY <1>1, <1>7 DEF FenceMade
  <1>16. NoDetour'
    BY <1>1, <1>3, <1>4, <1>7, <1>8 DEF NoDetour, LeaseOfStep
  <1>17. MigratesAlone'
    BY <1>1, <1>3, <1>4 DEF MigratesAlone, Sharing, Excluding, At
  <1>18. ValidatedCurrent'
    BY <1>1, <1>3, <1>4, <1>8 DEF ValidatedCurrent, FilesCreated, At
  <1>19. WorkCurrent'
    BY <1>1, <1>7, <1>8 DEF WorkCurrent, WorkStays
  <1> QED BY <1>10, <1>11, <1>12, <1>13, <1>14, <1>15, <1>16, <1>17, <1>18, <1>19 DEF LeaseInv

\* PublishTemp (publish_database_noreplace) keeps the invariant.
LEMMA PublishTempKeeps == ASSUME LeaseInv, NEW p \in Procs, PublishTemp(p) PROVE LeaseInv'
  <1>1. /\ TypeOK /\ LocksHeld /\ Compatible /\ LeaseOfStep /\ FilesCreated /\ FenceMade /\ NoDetour
        /\ MigratesAlone /\ ValidatedCurrent /\ WorkCurrent
    BY DEF LeaseInv
  <1>2. /\ proc \in [Procs -> Proc] /\ schema \in [Inodes -> {3, 6}]
        /\ created \in Nat /\ path \in Nat /\ path <= created /\ created <= MaxInode
    BY <1>1 DEF TypeOK
  <1>3. \A q \in Procs : q # p => proc'[q] = proc[q]
    BY DEF PublishTemp
  <1>4. /\ proc'[p].pc = "idle" /\ proc'[p].file = 0
        /\ proc'[p].on = "none" /\ proc'[p].validated = 0
    BY <1>2 DEF Idle, PublishTemp
  <1>5. path' = IF path = 0 THEN proc[p].file ELSE path
    BY DEF PublishTemp
  <1>6. UNCHANGED <<schema, created, lockFile, dbLocks, ctlLocks, written, stops>>
    BY DEF PublishTemp
  <1>7. proc[p].pc = "temp"
    BY DEF At, PublishTemp
  <1>8. proc' \in [Procs -> Proc]
    <2>1. proc'[p] \in Proc
      BY <1>2, LeaseAssumption DEF Proc, Idle, PublishTemp
    <2> QED BY <1>2, <2>1 DEF PublishTemp
  <1>9. TypeOK'
    BY <1>1, <1>5, <1>6, <1>7, <1>8, LeaseAssumption DEF TypeOK, FilesCreated, At
  <1>10. LocksHeld'
    BY <1>1, <1>2, <1>3, <1>4, <1>5, <1>6, <1>7, LeaseAssumption DEF LocksHeld, LeaseOfStep, At,
       Mode
  <1>11. Compatible'
    BY <1>1, <1>6 DEF Compatible
  <1>12. LeaseOfStep'
    BY <1>1, <1>3, <1>4 DEF LeaseOfStep
  <1>13. FilesCreated'
    BY <1>1, <1>3, <1>4, <1>5, <1>6 DEF FilesCreated, At
  <1>14. FenceMade'
    BY <1>1, <1>6 DEF FenceMade
  <1>15. NoDetour'
    BY <1>1, <1>3, <1>4, <1>5, <1>6 DEF NoDetour, LeaseOfStep, FilesCreated
  <1>16. MigratesAlone'
    BY <1>1, <1>3, <1>4 DEF MigratesAlone, Sharing, Excluding, At
  <1>17. ValidatedCurrent'
    BY <1>1, <1>3, <1>4, <1>5, <1>6 DEF ValidatedCurrent, FilesCreated, At
  <1>18. WorkCurrent'
    BY <1>1, <1>5, <1>6 DEF WorkCurrent, WorkStays
  <1> QED BY <1>9, <1>10, <1>11, <1>12, <1>13, <1>14, <1>15, <1>16, <1>17, <1>18 DEF LeaseInv

\* OpenFile (the opening of the file) keeps the invariant.
LEMMA OpenFileKeeps == ASSUME LeaseInv, NEW p \in Procs, OpenFile(p) PROVE LeaseInv'
  <1>1. /\ TypeOK /\ LocksHeld /\ Compatible /\ LeaseOfStep /\ FilesCreated /\ FenceMade /\ NoDetour
        /\ MigratesAlone /\ ValidatedCurrent /\ WorkCurrent
    BY DEF LeaseInv
  <1>2. /\ proc \in [Procs -> Proc] /\ schema \in [Inodes -> {3, 6}]
        /\ created \in Nat /\ path \in Nat /\ path <= created /\ created <= MaxInode
    BY <1>1 DEF TypeOK
  <1>3. \A q \in Procs : q # p => proc'[q] = proc[q]
    BY <1>2 DEF OpenFile
  <1>4. /\ proc'[p].pc = "lock" /\ proc'[p].file = path
        /\ proc'[p].on = proc[p].on /\ proc'[p].validated = proc[p].validated
    BY <1>2 DEF OpenFile
  <1>5. UNCHANGED <<path, schema, created, lockFile, dbLocks, ctlLocks, written, stops>>
    BY DEF OpenFile
  <1>6. proc[p].pc = "idle" /\ path # 0
    BY DEF At, OpenFile
  <1>7. proc' \in [Procs -> Proc]
    <2>1. path \in 0..MaxInode /\ proc[p] \in Proc
      BY <1>2, LeaseAssumption
    <2>2. [proc[p] EXCEPT !.pc = "lock", !.file = path] \in Proc
      BY <2>1 DEF Proc
    <2> QED BY <1>2, <2>2 DEF OpenFile
  <1>8. TypeOK'
    BY <1>1, <1>5, <1>7 DEF TypeOK
  <1>9. LocksHeld'
    BY <1>1, <1>2, <1>3, <1>4, <1>5, <1>6, LeaseAssumption DEF LocksHeld, LeaseOfStep, At, Mode
  <1>10. Compatible'
    BY <1>1, <1>5 DEF Compatible
  <1>11. LeaseOfStep'
    BY <1>1, <1>3, <1>4, <1>6 DEF LeaseOfStep
  <1>12. FilesCreated'
    BY <1>1, <1>2, <1>3, <1>4, <1>5, <1>6 DEF FilesCreated, At
  <1>13. FenceMade'
    BY <1>1, <1>5 DEF FenceMade
  <1>14. NoDetour'
    BY <1>1, <1>3, <1>4, <1>5 DEF NoDetour
  <1>15. MigratesAlone'
    BY <1>1, <1>3, <1>4 DEF MigratesAlone, Sharing, Excluding, At
  <1>16. ValidatedCurrent'
    BY <1>1, <1>3, <1>4, <1>5 DEF ValidatedCurrent, At
  <1>17. WorkCurrent'
    BY <1>1, <1>5 DEF WorkCurrent, WorkStays
  <1> QED BY <1>8, <1>9, <1>10, <1>11, <1>12, <1>13, <1>14, <1>15, <1>16, <1>17 DEF LeaseInv

\* LockDatabase (acquire_file on the database) keeps the invariant.
LEMMA LockDatabaseKeeps == ASSUME LeaseInv, NEW p \in Procs, LockDatabase(p) PROVE LeaseInv'
  <1>1. /\ TypeOK /\ LocksHeld /\ Compatible /\ LeaseOfStep /\ FilesCreated /\ FenceMade /\ NoDetour
        /\ MigratesAlone /\ ValidatedCurrent /\ WorkCurrent
    BY DEF LeaseInv
  <1>2. /\ proc \in [Procs -> Proc] /\ schema \in [Inodes -> {3, 6}]
        /\ created \in Nat /\ path \in Nat /\ path <= created /\ created <= MaxInode
    BY <1>1 DEF TypeOK
  <1>3. \A q \in Procs : q # p => proc'[q] = proc[q]
    BY DEF Goto, LockDatabase
  <1>4. /\ proc'[p].pc = (IF p \in Openers THEN "look" ELSE "fence") /\ proc'[p].file = proc[p].file
        /\ proc'[p].on = proc[p].on /\ proc'[p].validated = proc[p].validated
    BY <1>2 DEF Goto, LockDatabase
  <1>5. dbLocks' = dbLocks \cup {<<p, proc[p].file, Mode(p)>>}
    BY DEF LockDatabase
  <1>6. UNCHANGED <<path, schema, created, lockFile, ctlLocks, written, stops>>
    BY DEF LockDatabase
  <1>7. proc[p].pc = "lock" /\ DbFree(p, proc[p].file, Mode(p))
    BY DEF At, LockDatabase
  <1>8. proc' \in [Procs -> Proc]
    <2>1. proc'[p] \in Proc
      BY <1>1, <1>2, LeaseAssumption DEF FilesCreated, Inodes, Proc, Idle, At, End, Goto,
         LockDatabase
    <2> QED BY <1>2, <2>1 DEF Goto, LockDatabase
  <1>9. TypeOK'
    BY <1>1, <1>5, <1>6, <1>7, <1>8, LeaseAssumption DEF TypeOK, FilesCreated, Inodes, Mode, At
  <1>10. LocksHeld'
    BY <1>1, <1>2, <1>3, <1>4, <1>5, <1>6, <1>7, LeaseAssumption DEF LocksHeld, LeaseOfStep, At,
       Mode
  <1>11. Compatible'
    BY <1>1, <1>5, <1>6, <1>7 DEF Compatible, DbFree
  <1>12. LeaseOfStep'
    BY <1>1, <1>3, <1>4, <1>7 DEF LeaseOfStep
  <1>13. FilesCreated'
    BY <1>1, <1>3, <1>4, <1>6, <1>7 DEF FilesCreated, At
  <1>14. FenceMade'
    BY <1>1, <1>6 DEF FenceMade
  <1>15. NoDetour'
    BY <1>1, <1>3, <1>4, <1>6, <1>7 DEF NoDetour
  <1>16. MigratesAlone'
    BY <1>1, <1>3, <1>4 DEF MigratesAlone, Sharing, Excluding, At
  <1>17. ValidatedCurrent'
    BY <1>1, <1>3, <1>4, <1>6 DEF ValidatedCurrent, At
  <1>18. WorkCurrent'
    BY <1>1, <1>6 DEF WorkCurrent, WorkStays
  <1> QED BY <1>9, <1>10, <1>11, <1>12, <1>13, <1>14, <1>15, <1>16, <1>17, <1>18 DEF LeaseInv

\* LookForFence (acquire_existing) keeps the invariant.
LEMMA LookForFenceKeeps == ASSUME LeaseInv, NEW p \in Procs, LookForFence(p) PROVE LeaseInv'
  <1>1. /\ TypeOK /\ LocksHeld /\ Compatible /\ LeaseOfStep /\ FilesCreated /\ FenceMade /\ NoDetour
        /\ MigratesAlone /\ ValidatedCurrent /\ WorkCurrent
    BY DEF LeaseInv
  <1>2. /\ proc \in [Procs -> Proc] /\ schema \in [Inodes -> {3, 6}]
        /\ created \in Nat /\ path \in Nat /\ path <= created /\ created <= MaxInode
    BY <1>1 DEF TypeOK
  <1>3. \A q \in Procs : q # p => proc'[q] = proc[q]
    BY <1>2 DEF Goto, LookForFence
  <1>4. \/ lockFile /\ proc'[p].pc = "fence" /\ proc'[p].file = proc[p].file
                     /\ proc'[p].on = proc[p].on /\ proc'[p].validated = proc[p].validated
        \/ ~lockFile /\ proc'[p].pc = "validate" /\ proc'[p].file = proc[p].file
                      /\ proc'[p].on = "database" /\ proc'[p].validated = proc[p].validated
    BY <1>2 DEF Proc, Goto, LookForFence
  <1>5. UNCHANGED <<path, schema, created, lockFile, dbLocks, ctlLocks, written, stops>>
    BY DEF LookForFence
  <1>6. proc[p].pc = "look"
    BY DEF At, LookForFence
  <1>7. proc' \in [Procs -> Proc]
    <2>1. proc'[p] \in Proc
      BY <1>1, <1>2, LeaseAssumption DEF FilesCreated, Inodes, Proc, Idle, At, End, Goto,
         LookForFence
    <2> QED BY <1>2, <2>1 DEF Goto, LookForFence
  <1>8. TypeOK'
    BY <1>1, <1>5, <1>7 DEF TypeOK
  <1>9. LocksHeld'
    BY <1>1, <1>2, <1>3, <1>4, <1>5, <1>6, LeaseAssumption DEF LocksHeld, LeaseOfStep, At, Mode
  <1>10. Compatible'
    BY <1>1, <1>5 DEF Compatible
  <1>11. LeaseOfStep'
    BY <1>1, <1>3, <1>4, <1>6 DEF LeaseOfStep
  <1>12. FilesCreated'
    BY <1>1, <1>3, <1>4, <1>5, <1>6 DEF FilesCreated, At
  <1>13. FenceMade'
    BY <1>1, <1>5 DEF FenceMade
  <1>14. NoDetour'
    BY <1>1, <1>3, <1>4, <1>5, <1>6 DEF NoDetour
  <1>15. MigratesAlone'
    <2>1. Excluding' = Excluding
      BY <1>3, <1>4, <1>6 DEF Excluding, At
    <2>2. lockFile => Sharing' = Sharing
      BY <1>3, <1>4, <1>6 DEF Sharing
    <2>3. ~lockFile => Excluding = {}
      BY <1>1 DEF FenceMade, LocksHeld, Excluding
    <2> QED BY <1>1, <2>1, <2>2, <2>3 DEF MigratesAlone
  <1>16. ValidatedCurrent'
    BY <1>1, <1>3, <1>4, <1>5 DEF ValidatedCurrent, At
  <1>17. WorkCurrent'
    BY <1>1, <1>5 DEF WorkCurrent, WorkStays
  <1> QED BY <1>8, <1>9, <1>10, <1>11, <1>12, <1>13, <1>14, <1>15, <1>16, <1>17 DEF LeaseInv

\* LockFence (acquire_with_mode) keeps the invariant.
LEMMA LockFenceKeeps == ASSUME LeaseInv, NEW p \in Procs, LockFence(p) PROVE LeaseInv'
  <1>1. /\ TypeOK /\ LocksHeld /\ Compatible /\ LeaseOfStep /\ FilesCreated /\ FenceMade /\ NoDetour
        /\ MigratesAlone /\ ValidatedCurrent /\ WorkCurrent
    BY DEF LeaseInv
  <1>2. /\ proc \in [Procs -> Proc] /\ schema \in [Inodes -> {3, 6}]
        /\ created \in Nat /\ path \in Nat /\ path <= created /\ created <= MaxInode
    BY <1>1 DEF TypeOK
  <1>3. \A q \in Procs : q # p => proc'[q] = proc[q]
    BY <1>2 DEF LockFence
  <1>4. /\ proc'[p].pc = (IF p \in Openers THEN "validate" ELSE IF p \in Sharers THEN "kept" ELSE "migrating") /\ proc'[p].file = proc[p].file
        /\ proc'[p].on = "fence" /\ proc'[p].validated = proc[p].validated
    BY <1>2 DEF LockFence
  <1>5. /\ ctlLocks' = ctlLocks \cup {<<p, Mode(p)>>}
        /\ dbLocks' = {l \in dbLocks : l[1] # p}
        /\ lockFile' = TRUE
    BY DEF CreateFence, LockFence
  <1>6. UNCHANGED <<path, schema, created, written, stops>>
    BY DEF LockFence
  <1>7. proc[p].pc = "fence" /\ CtlFree(p, Mode(p))
    BY DEF At, LockFence
  <1>8. proc' \in [Procs -> Proc]
    <2>1. proc'[p] \in Proc
      BY <1>2 DEF Proc, At, LockFence
    <2> QED BY <1>2, <2>1 DEF LockFence
  <1>9. TypeOK'
    BY <1>1, <1>5, <1>6, <1>8 DEF TypeOK, Mode
  <1>10. LocksHeld'
    <2> SUFFICES ASSUME NEW q \in Procs
                 PROVE  /\ proc'[q].pc \in {"look", "fence"} \/ proc'[q].on = "database" =>
                             <<q, proc'[q].file, Mode(q)>> \in dbLocks'
                        /\ proc'[q].on = "fence" => \E m \in {"shared", "exclusive"} : <<q, m>> \in ctlLocks'
                        /\ proc'[q].pc = "migrating" => <<q, "exclusive">> \in ctlLocks'
      BY DEF LocksHeld, At, Mode
    <2>1. CASE q = p
      <3>1. proc'[p].pc = "migrating" => p \in Migrators
        BY <1>4 DEF Procs
      <3>2. Mode(p) \in {"shared", "exclusive"} /\ <<p, Mode(p)>> \in ctlLocks'
        BY <1>5 DEF Mode
      <3> QED BY <1>4, <2>1, <3>1, <3>2 DEF Mode
    <2>2. CASE q # p
      BY <1>1, <1>3, <1>5, <2>2 DEF LocksHeld, At
    <2> QED BY <2>1, <2>2
  <1>11. Compatible'
    BY <1>1, <1>5, <1>7 DEF Compatible, CtlFree
  <1>12. LeaseOfStep'
    BY <1>1, <1>3, <1>4 DEF LeaseOfStep
  <1>13. FilesCreated'
    BY <1>1, <1>3, <1>4, <1>6, <1>7 DEF FilesCreated, At
  <1>14. FenceMade'
    BY <1>5 DEF FenceMade
  <1>15. NoDetour'
    BY <1>1, <1>3, <1>4, <1>5, <1>6 DEF NoDetour
  <1>16. MigratesAlone'
    <2> SUFFICES ASSUME NEW m \in Excluding' PROVE Sharing' = {} /\ Excluding' = {m}
      BY DEF MigratesAlone
    <2>1. m \in Procs /\ proc'[m].pc = "migrating"
      BY DEF Excluding, At
    <2>2. CASE m = p
      <3>1. Mode(p) = "exclusive"
        BY <1>4, <2>1, <2>2 DEF Procs, Mode
      <3>2. \A q \in Procs : q # p => proc[q].on # "fence"
        BY <1>1, <1>7, <3>1 DEF LocksHeld, CtlFree
      <3>3. \A q \in Procs : q # p => proc[q].on # "database"
        <4> SUFFICES ASSUME NEW q \in Procs, q # p, proc[q].on = "database" PROVE FALSE
          OBVIOUS
        <4>1. proc[p].file = path /\ proc[q].file = path
          BY <1>1, <1>7 DEF NoDetour
        <4>2. <<p, path, "exclusive">> \in dbLocks /\ <<q, path, Mode(q)>> \in dbLocks
          BY <1>1, <1>7, <3>1, <4>1 DEF LocksHeld
        <4> QED BY <1>1, <4>2 DEF Compatible
      <3>4. \A q \in Procs : q # p => q \notin Sharing' /\ q \notin Excluding'
        BY <1>1, <1>3, <3>2, <3>3 DEF LeaseOfStep, Sharing, Excluding, At
      <3> QED BY <2>1, <3>4 DEF Sharing, Excluding
    <2>3. CASE m # p
      <3>1. m \in Excluding /\ <<m, "exclusive">> \in ctlLocks
        BY <1>1, <1>3, <2>1, <2>3 DEF LocksHeld, Excluding, At
      <3> QED BY <1>7, <2>3, <3>1 DEF CtlFree
    <2> QED BY <2>2, <2>3
  <1>17. ValidatedCurrent'
    BY <1>1, <1>3, <1>4, <1>6 DEF ValidatedCurrent, At
  <1>18. WorkCurrent'
    BY <1>1, <1>6 DEF WorkCurrent, WorkStays
  <1> QED BY <1>9, <1>10, <1>11, <1>12, <1>13, <1>14, <1>15, <1>16, <1>17, <1>18 DEF LeaseInv

\* Validate (validate_database_snapshot_under_lease) keeps the invariant.
LEMMA ValidateKeeps == ASSUME LeaseInv, NEW p \in Procs, Validate(p) PROVE LeaseInv'
  <1>1. /\ TypeOK /\ LocksHeld /\ Compatible /\ LeaseOfStep /\ FilesCreated /\ FenceMade /\ NoDetour
        /\ MigratesAlone /\ ValidatedCurrent /\ WorkCurrent
    BY DEF LeaseInv
  <1>2. /\ proc \in [Procs -> Proc] /\ schema \in [Inodes -> {3, 6}]
        /\ created \in Nat /\ path \in Nat /\ path <= created /\ created <= MaxInode
    BY <1>1 DEF TypeOK
  <1>3. \A q \in Procs : q # p => proc'[q] = proc[q]
    BY <1>2 DEF End, Validate
  <1>4. \/ /\ proc'[p].pc = "stabilize" /\ proc'[p].file = proc[p].file
           /\ proc'[p].on = proc[p].on /\ proc'[p].validated = path
           /\ schema[path] = 6 /\ UNCHANGED <<dbLocks, ctlLocks>>
        \/ /\ proc'[p].pc = "idle" /\ proc'[p].file = 0
           /\ proc'[p].on = "none" /\ proc'[p].validated = 0
           /\ dbLocks' = {l \in dbLocks : l[1] # p}
           /\ ctlLocks' = {l \in ctlLocks : l[1] # p}
    BY <1>2 DEF Proc, End, Idle, Released, SnapshotAccepted, Validate
  <1>5. UNCHANGED <<path, schema, created, lockFile, written, stops>>
    BY DEF Validate
  <1>6. proc[p].pc = "validate"
    BY DEF At, Validate
  <1>7. proc' \in [Procs -> Proc]
    <2>1. path \in 0..MaxInode /\ proc[p] \in Proc
      BY <1>2, LeaseAssumption
    <2>2. [proc[p] EXCEPT !.pc = "stabilize", !.validated = path] \in Proc
      BY <2>1 DEF Proc
    <2> QED BY <1>2, <2>2, IdleTyped DEF Validate, End
  <1>8. TypeOK'
    BY <1>1, <1>4, <1>5, <1>7 DEF TypeOK
  <1>9. LocksHeld'
    BY <1>1, <1>2, <1>3, <1>4, <1>5, <1>6, LeaseAssumption DEF LocksHeld, LeaseOfStep, At, Mode
  <1>10. Compatible'
    BY <1>1, <1>4 DEF Compatible
  <1>11. LeaseOfStep'
    BY <1>1, <1>3, <1>4, <1>6 DEF LeaseOfStep
  <1>12. FilesCreated'
    BY <1>1, <1>3, <1>4, <1>5, <1>6 DEF FilesCreated, At
  <1>13. FenceMade'
    BY <1>1, <1>4, <1>5 DEF FenceMade
  <1>14. NoDetour'
    BY <1>1, <1>3, <1>4, <1>5 DEF NoDetour
  <1>15. MigratesAlone'
    BY <1>1, <1>3, <1>4, <1>6 DEF MigratesAlone, Sharing, Excluding, At
  <1>16. ValidatedCurrent'
    BY <1>1, <1>3, <1>4, <1>5 DEF ValidatedCurrent, At
  <1>17. WorkCurrent'
    BY <1>1, <1>5 DEF WorkCurrent, WorkStays
  <1> QED BY <1>8, <1>9, <1>10, <1>11, <1>12, <1>13, <1>14, <1>15, <1>16, <1>17 DEF LeaseInv

\* Stabilize (stabilize) keeps the invariant.
LEMMA StabilizeKeeps == ASSUME LeaseInv, NEW p \in Procs, Stabilize(p) PROVE LeaseInv'
  <1>1. /\ TypeOK /\ LocksHeld /\ Compatible /\ LeaseOfStep /\ FilesCreated /\ FenceMade /\ NoDetour
        /\ MigratesAlone /\ ValidatedCurrent /\ WorkCurrent
    BY DEF LeaseInv
  <1>2. /\ proc \in [Procs -> Proc] /\ schema \in [Inodes -> {3, 6}]
        /\ created \in Nat /\ path \in Nat /\ path <= created /\ created <= MaxInode
    BY <1>1 DEF TypeOK
  <1>3. \A q \in Procs : q # p => proc'[q] = proc[q]
    BY <1>2 DEF Goto, Stabilize
  <1>4. \/ /\ proc'[p].pc = "handoff" /\ proc'[p].file = proc[p].file
           /\ proc'[p].on = "fence" /\ proc'[p].validated = proc[p].validated
           /\ proc[p].on = "fence" /\ UNCHANGED <<lockFile, dbLocks, ctlLocks>>
        \/ /\ proc'[p].pc = "handoff" /\ proc'[p].file = proc[p].file
           /\ proc'[p].on = "fence" /\ proc'[p].validated = proc[p].validated
           /\ CtlFree(p, "shared") /\ lockFile' = TRUE
           /\ ctlLocks' = ctlLocks \cup {<<p, "shared">>} /\ dbLocks' = {l \in dbLocks : l[1] # p}
    BY <1>2 DEF Proc, Goto, Stabilize
  <1>5. UNCHANGED <<path, schema, created, written, stops>>
    BY DEF Stabilize
  <1>6. proc[p].pc = "stabilize"
    BY DEF At, Stabilize
  <1>7. proc' \in [Procs -> Proc]
    <2>1. proc'[p] \in Proc
      BY <1>2 DEF Proc, Goto, Stabilize
    <2> QED BY <1>2, <2>1 DEF Goto, Stabilize
  <1>8. TypeOK'
    <2>1. dbLocks' \subseteq Procs \X Inodes \X {"shared", "exclusive"}
      BY <1>1, <1>4 DEF TypeOK
    <2>2. ctlLocks' \subseteq Procs \X {"shared", "exclusive"}
      BY <1>1, <1>4 DEF TypeOK
    <2>3. lockFile' \in BOOLEAN
      BY <1>1, <1>4 DEF TypeOK
    <2> QED BY <1>1, <1>5, <1>7, <2>1, <2>2, <2>3 DEF TypeOK
  <1>9. LocksHeld'
    BY <1>1, <1>2, <1>3, <1>4, <1>5, <1>6, LeaseAssumption DEF LocksHeld, LeaseOfStep, At, Mode
  <1>10. Compatible'
    BY <1>1, <1>4 DEF Compatible, CtlFree
  <1>11. LeaseOfStep'
    BY <1>1, <1>3, <1>4 DEF LeaseOfStep
  <1>12. FilesCreated'
    BY <1>1, <1>3, <1>4, <1>5, <1>6 DEF FilesCreated, At
  <1>13. FenceMade'
    BY <1>1, <1>4 DEF FenceMade
  <1>14. NoDetour'
    BY <1>1, <1>3, <1>4, <1>5 DEF NoDetour
  <1>15. MigratesAlone'
    BY <1>1, <1>3, <1>4, <1>6 DEF MigratesAlone, Sharing, Excluding, At
  <1>16. ValidatedCurrent'
    BY <1>1, <1>3, <1>4, <1>5, <1>6 DEF ValidatedCurrent, At
  <1>17. WorkCurrent'
    BY <1>1, <1>5 DEF WorkCurrent, WorkStays
  <1> QED BY <1>8, <1>9, <1>10, <1>11, <1>12, <1>13, <1>14, <1>15, <1>16, <1>17 DEF LeaseInv

\* Handoff (verify_authoritative) keeps the invariant.
LEMMA HandoffKeeps == ASSUME LeaseInv, NEW p \in Procs, Handoff(p) PROVE LeaseInv'
  <1>1. /\ TypeOK /\ LocksHeld /\ Compatible /\ LeaseOfStep /\ FilesCreated /\ FenceMade /\ NoDetour
        /\ MigratesAlone /\ ValidatedCurrent /\ WorkCurrent
    BY DEF LeaseInv
  <1>2. /\ proc \in [Procs -> Proc] /\ schema \in [Inodes -> {3, 6}]
        /\ created \in Nat /\ path \in Nat /\ path <= created /\ created <= MaxInode
    BY <1>1 DEF TypeOK
  <1>3. \A q \in Procs : q # p => proc'[q] = proc[q]
    BY <1>2 DEF End, Goto, Handoff
  <1>4. \/ /\ proc'[p].pc = "opened" /\ proc'[p].file = proc[p].file
           /\ proc'[p].on = proc[p].on /\ proc'[p].validated = proc[p].validated
           /\ UNCHANGED <<dbLocks, ctlLocks>>
        \/ /\ proc'[p].pc = "idle" /\ proc'[p].file = 0
           /\ proc'[p].on = "none" /\ proc'[p].validated = 0
           /\ dbLocks' = {l \in dbLocks : l[1] # p}
           /\ ctlLocks' = {l \in ctlLocks : l[1] # p}
    BY <1>2 DEF Proc, End, Goto, Idle, Released, Handoff
  <1>5. UNCHANGED <<path, schema, created, lockFile, written, stops>>
    BY DEF Handoff
  <1>6. proc[p].pc = "handoff"
    BY DEF At, Handoff
  <1>7. proc' \in [Procs -> Proc]
    <2>1. proc[p] \in Proc
      BY <1>2
    <2>2. [proc[p] EXCEPT !.pc = "opened"] \in Proc
      BY <2>1 DEF Proc
    <2> QED BY <1>2, <2>2, IdleTyped DEF Handoff, End, Goto
  <1>8. TypeOK'
    BY <1>1, <1>4, <1>5, <1>7 DEF TypeOK
  <1>9. LocksHeld'
    BY <1>1, <1>2, <1>3, <1>4, <1>5, <1>6, LeaseAssumption DEF LocksHeld, LeaseOfStep, At, Mode
  <1>10. Compatible'
    BY <1>1, <1>4 DEF Compatible
  <1>11. LeaseOfStep'
    BY <1>1, <1>3, <1>4, <1>6 DEF LeaseOfStep
  <1>12. FilesCreated'
    BY <1>1, <1>3, <1>4, <1>5, <1>6 DEF FilesCreated, At
  <1>13. FenceMade'
    BY <1>1, <1>4, <1>5 DEF FenceMade
  <1>14. NoDetour'
    BY <1>1, <1>3, <1>4, <1>5 DEF NoDetour
  <1>15. MigratesAlone'
    BY <1>1, <1>3, <1>4, <1>6 DEF MigratesAlone, Sharing, Excluding, At
  <1>16. ValidatedCurrent'
    BY <1>1, <1>3, <1>4, <1>5, <1>6 DEF ValidatedCurrent, At
  <1>17. WorkCurrent'
    BY <1>1, <1>5 DEF WorkCurrent, WorkStays
  <1> QED BY <1>8, <1>9, <1>10, <1>11, <1>12, <1>13, <1>14, <1>15, <1>16, <1>17 DEF LeaseInv

\* DropLease (the end of SqliteQueue::open) keeps the invariant.
LEMMA DropLeaseKeeps == ASSUME LeaseInv, NEW p \in Procs, DropLease(p) PROVE LeaseInv'
  <1>1. /\ TypeOK /\ LocksHeld /\ Compatible /\ LeaseOfStep /\ FilesCreated /\ FenceMade /\ NoDetour
        /\ MigratesAlone /\ ValidatedCurrent /\ WorkCurrent
    BY DEF LeaseInv
  <1>2. /\ proc \in [Procs -> Proc] /\ schema \in [Inodes -> {3, 6}]
        /\ created \in Nat /\ path \in Nat /\ path <= created /\ created <= MaxInode
    BY <1>1 DEF TypeOK
  <1>3. \A q \in Procs : q # p => proc'[q] = proc[q]
    BY <1>2 DEF DropLease
  <1>4. /\ proc'[p].pc = "runtime" /\ proc'[p].file = proc[p].file
        /\ proc'[p].on = "none" /\ proc'[p].validated = proc[p].validated
        /\ dbLocks' = {l \in dbLocks : l[1] # p}
        /\ ctlLocks' = {l \in ctlLocks : l[1] # p}
    BY <1>2 DEF Released, DropLease
  <1>5. UNCHANGED <<path, schema, created, lockFile, written, stops>>
    BY DEF DropLease
  <1>6. proc[p].pc = "opened"
    BY DEF At, DropLease
  <1>7. proc' \in [Procs -> Proc]
    <2>1. proc'[p] \in Proc
      BY <1>1, <1>2, LeaseAssumption DEF FilesCreated, Inodes, Proc, Idle, At, End, Goto, DropLease
    <2> QED BY <1>2, <2>1 DEF DropLease
  <1>8. TypeOK'
    BY <1>1, <1>4, <1>5, <1>7 DEF TypeOK
  <1>9. LocksHeld'
    BY <1>1, <1>2, <1>3, <1>4, <1>5, <1>6, LeaseAssumption DEF LocksHeld, LeaseOfStep, At, Mode
  <1>10. Compatible'
    BY <1>1, <1>4 DEF Compatible
  <1>11. LeaseOfStep'
    BY <1>1, <1>3, <1>4 DEF LeaseOfStep
  <1>12. FilesCreated'
    BY <1>1, <1>3, <1>4, <1>5, <1>6 DEF FilesCreated, At
  <1>13. FenceMade'
    BY <1>1, <1>4, <1>5 DEF FenceMade
  <1>14. NoDetour'
    BY <1>1, <1>3, <1>4, <1>5 DEF NoDetour
  <1>15. MigratesAlone'
    BY <1>1, <1>3, <1>4 DEF MigratesAlone, Sharing, Excluding, At
  <1>16. ValidatedCurrent'
    BY <1>1, <1>2, <1>3, <1>4, <1>5, <1>6 DEF ValidatedCurrent, FilesCreated, At
  <1>17. WorkCurrent'
    BY <1>1, <1>5 DEF WorkCurrent, WorkStays
  <1> QED BY <1>8, <1>9, <1>10, <1>11, <1>12, <1>13, <1>14, <1>15, <1>16, <1>17 DEF LeaseInv

\* Leave (the end of the process) keeps the invariant.
LEMMA LeaveKeeps == ASSUME LeaseInv, NEW p \in Procs, Leave(p) PROVE LeaseInv'
  <1>1. /\ TypeOK /\ LocksHeld /\ Compatible /\ LeaseOfStep /\ FilesCreated /\ FenceMade /\ NoDetour
        /\ MigratesAlone /\ ValidatedCurrent /\ WorkCurrent
    BY DEF LeaseInv
  <1>2. /\ proc \in [Procs -> Proc] /\ schema \in [Inodes -> {3, 6}]
        /\ created \in Nat /\ path \in Nat /\ path <= created /\ created <= MaxInode
    BY <1>1 DEF TypeOK
  <1>3. \A q \in Procs : q # p => proc'[q] = proc[q]
    BY DEF End, Leave
  <1>4. /\ proc'[p].pc = "idle" /\ proc'[p].file = 0
        /\ proc'[p].on = "none" /\ proc'[p].validated = 0
        /\ dbLocks' = {l \in dbLocks : l[1] # p}
        /\ ctlLocks' = {l \in ctlLocks : l[1] # p}
    BY <1>2 DEF End, Idle, Released, Leave
  <1>5. UNCHANGED <<path, schema, created, lockFile, written, stops>>
    BY DEF Leave
  <1>6. proc' \in [Procs -> Proc]
    <2>1. proc'[p] \in Proc
      BY <1>2, LeaseAssumption DEF Proc, Idle, End, Leave
    <2> QED BY <1>2, <2>1 DEF End, Leave
  <1>7. TypeOK'
    BY <1>1, <1>4, <1>5, <1>6 DEF TypeOK
  <1>8. LocksHeld'
    BY <1>1, <1>2, <1>3, <1>4, <1>5, LeaseAssumption DEF LocksHeld, LeaseOfStep, At, Mode, Leave
  <1>9. Compatible'
    BY <1>1, <1>4 DEF Compatible
  <1>10. LeaseOfStep'
    BY <1>1, <1>3, <1>4 DEF LeaseOfStep
  <1>11. FilesCreated'
    BY <1>1, <1>3, <1>4, <1>5 DEF FilesCreated, At
  <1>12. FenceMade'
    BY <1>1, <1>4, <1>5 DEF FenceMade
  <1>13. NoDetour'
    BY <1>1, <1>3, <1>4, <1>5 DEF NoDetour
  <1>14. MigratesAlone'
    BY <1>1, <1>3, <1>4 DEF MigratesAlone, Sharing, Excluding, At
  <1>15. ValidatedCurrent'
    BY <1>1, <1>3, <1>4, <1>5 DEF ValidatedCurrent, At
  <1>16. WorkCurrent'
    BY <1>1, <1>5 DEF WorkCurrent, WorkStays
  <1> QED BY <1>7, <1>8, <1>9, <1>10, <1>11, <1>12, <1>13, <1>14, <1>15, <1>16 DEF LeaseInv

\* Migrate (exchange_database_files) keeps the invariant.
LEMMA MigrateKeeps == ASSUME LeaseInv, NEW p \in Procs, Migrate(p) PROVE LeaseInv'
  <1>1. /\ TypeOK /\ LocksHeld /\ Compatible /\ LeaseOfStep /\ FilesCreated /\ FenceMade /\ NoDetour
        /\ MigratesAlone /\ ValidatedCurrent /\ WorkCurrent
    BY DEF LeaseInv
  <1>2. /\ proc \in [Procs -> Proc] /\ schema \in [Inodes -> {3, 6}]
        /\ created \in Nat /\ path \in Nat /\ path <= created /\ created <= MaxInode
    BY <1>1 DEF TypeOK
  <1>3. \A q \in Procs : q # p => proc'[q] = proc[q]
    BY DEF End, Migrate
  <1>4. /\ proc'[p].pc = "idle" /\ proc'[p].file = 0
        /\ proc'[p].on = "none" /\ proc'[p].validated = 0
        /\ dbLocks' = {l \in dbLocks : l[1] # p}
        /\ ctlLocks' = {l \in ctlLocks : l[1] # p}
    BY <1>2 DEF End, Idle, Released, Migrate
  <1>5. \/ /\ created' = created + 1 /\ created' \in Inodes /\ path' = created' /\ schema[path] # 6
           /\ \A i \in Inodes : schema'[i] = IF i = created' THEN 6 ELSE schema[i]
        \/ UNCHANGED <<path, schema, created>>
    BY <1>2, LeaseAssumption DEF Inodes, Migrate
  <1>6. UNCHANGED <<lockFile, written, stops>>
    BY DEF Migrate
  <1>7. proc[p].pc = "migrating"
    BY DEF At, Migrate
  <1>8. proc' \in [Procs -> Proc]
    <2>1. proc'[p] \in Proc
      BY <1>2, LeaseAssumption DEF Proc, Idle, End, Migrate
    <2> QED BY <1>2, <2>1 DEF End, Migrate
  <1>9. TypeOK'
    <2>1. created' \in 0..MaxInode /\ path' \in 0..MaxInode /\ path' <= created'
      <3>1. CASE created' = created + 1 /\ created' \in Inodes /\ path' = created'
        BY <3>1 DEF Inodes
      <3>2. CASE UNCHANGED <<path, created>>
        BY <1>2, <3>2, LeaseAssumption
      <3> QED BY <1>5, <3>1, <3>2
    <2>2. schema' \in [Inodes -> {3, 6}]
      BY <1>2 DEF Migrate
    <2>3. /\ dbLocks' \subseteq Procs \X Inodes \X {"shared", "exclusive"}
          /\ ctlLocks' \subseteq Procs \X {"shared", "exclusive"}
      BY <1>1, <1>4 DEF TypeOK
    <2> QED BY <1>1, <1>6, <1>8, <2>1, <2>2, <2>3 DEF TypeOK
  <1>10. LocksHeld'
    BY <1>1, <1>2, <1>3, <1>4, <1>5, <1>6, <1>7, LeaseAssumption DEF LocksHeld, LeaseOfStep, At,
       Mode
  <1>11. Compatible'
    BY <1>1, <1>4 DEF Compatible
  <1>12. LeaseOfStep'
    BY <1>1, <1>3, <1>4 DEF LeaseOfStep
  <1>13. FilesCreated'
    BY <1>1, <1>2, <1>3, <1>4, <1>5 DEF FilesCreated, At
  <1>14. FenceMade'
    BY <1>1, <1>4, <1>6 DEF FenceMade
  <1>15. NoDetour'
    <2>1. lockFile' /\ lockFile
      BY <1>1, <1>6, <1>7 DEF FenceMade, LocksHeld, At
    <2>2. \A q \in Procs : proc[q].on # "database"
      <3>1. Sharing = {} /\ Excluding = {p}
        BY <1>1, <1>7 DEF MigratesAlone, Excluding, At
      <3>2. \A q \in Procs : proc[q].pc \notin {"validate", "stabilize", "handoff", "opened", "kept"}
        BY <3>1 DEF Sharing
      <3>3. \A q \in Procs : proc[q].pc \in {"idle", "temp", "lock", "look", "fence", "runtime", "migrating"}
        BY <1>2, <3>2 DEF Proc
      <3> QED BY <1>1, <3>3 DEF LeaseOfStep
    <2>3. \A q \in Procs : proc'[q].on # "database"
      BY <1>3, <1>4, <2>2
    <2> QED BY <2>1, <2>3 DEF NoDetour
  <1>16. MigratesAlone'
    BY <1>1, <1>3, <1>4, <1>7 DEF MigratesAlone, Excluding, At
  <1>17. ValidatedCurrent'
    BY <1>1, <1>2, <1>3, <1>4, <1>5, LeaseAssumption DEF ValidatedCurrent, At, Inodes
  <1>18. WorkCurrent'
    BY <1>1, <1>5, <1>6 DEF WorkCurrent, WorkStays
  <1> QED BY <1>9, <1>10, <1>11, <1>12, <1>13, <1>14, <1>15, <1>16, <1>17, <1>18 DEF LeaseInv

\* Stop (a process that stops) keeps the invariant.
LEMMA StopKeeps == ASSUME LeaseInv, NEW p \in Procs, Stop(p) PROVE LeaseInv'
  <1>1. /\ TypeOK /\ LocksHeld /\ Compatible /\ LeaseOfStep /\ FilesCreated /\ FenceMade /\ NoDetour
        /\ MigratesAlone /\ ValidatedCurrent /\ WorkCurrent
    BY DEF LeaseInv
  <1>2. /\ proc \in [Procs -> Proc] /\ schema \in [Inodes -> {3, 6}]
        /\ created \in Nat /\ path \in Nat /\ path <= created /\ created <= MaxInode
    BY <1>1 DEF TypeOK
  <1>3. \A q \in Procs : q # p => proc'[q] = proc[q]
    BY DEF End, Stop
  <1>4. /\ proc'[p].pc = "idle" /\ proc'[p].file = 0
        /\ proc'[p].on = "none" /\ proc'[p].validated = 0
        /\ dbLocks' = {l \in dbLocks : l[1] # p}
        /\ ctlLocks' = {l \in ctlLocks : l[1] # p}
    BY <1>2 DEF End, Idle, Released, Stop
  <1>5. UNCHANGED <<path, schema, created, lockFile, written>>
    BY DEF Stop
  <1>6. proc' \in [Procs -> Proc]
    <2>1. proc'[p] \in Proc
      BY <1>2, LeaseAssumption DEF Proc, Idle, End, Stop
    <2> QED BY <1>2, <2>1 DEF End, Stop
  <1>7. TypeOK'
    BY <1>1, <1>4, <1>6, LeaseAssumption DEF TypeOK, Stop
  <1>8. LocksHeld'
    BY <1>1, <1>2, <1>3, <1>4, <1>5, LeaseAssumption DEF LocksHeld, LeaseOfStep, At, Mode
  <1>9. Compatible'
    BY <1>1, <1>4 DEF Compatible
  <1>10. LeaseOfStep'
    BY <1>1, <1>3, <1>4 DEF LeaseOfStep
  <1>11. FilesCreated'
    BY <1>1, <1>3, <1>4, <1>5 DEF FilesCreated, At
  <1>12. FenceMade'
    BY <1>1, <1>4, <1>5 DEF FenceMade
  <1>13. NoDetour'
    BY <1>1, <1>3, <1>4, <1>5 DEF NoDetour
  <1>14. MigratesAlone'
    BY <1>1, <1>3, <1>4 DEF MigratesAlone, Sharing, Excluding, At
  <1>15. ValidatedCurrent'
    BY <1>1, <1>3, <1>4, <1>5 DEF ValidatedCurrent, At
  <1>16. WorkCurrent'
    BY <1>1, <1>5 DEF WorkCurrent, WorkStays
  <1> QED BY <1>7, <1>8, <1>9, <1>10, <1>11, <1>12, <1>13, <1>14, <1>15, <1>16 DEF LeaseInv

\* Use (open_connection) keeps the invariant.
LEMMA UseKeeps == ASSUME LeaseInv, NEW p \in Procs, Use(p) PROVE LeaseInv'
  <1>1. TypeOK /\ FilesCreated /\ ValidatedCurrent /\ WorkCurrent
    BY DEF LeaseInv
  <1>2. /\ UNCHANGED <<path, schema, created, lockFile, dbLocks, ctlLocks, proc, stops>>
        /\ written' = written \cup {path} /\ path # 0 /\ schema[path] = 6
    BY <1>1 DEF Use, Authoritative, ValidatedCurrent
  <1>3. TypeOK'
    BY <1>1, <1>2 DEF TypeOK, Inodes
  <1>4. WorkCurrent'
    BY <1>1, <1>2 DEF WorkCurrent, WorkStays
  <1> QED BY <1>2, <1>3, <1>4 DEF LeaseInv, LocksHeld, Compatible, LeaseOfStep, FilesCreated,
            FenceMade, NoDetour, MigratesAlone, ValidatedCurrent, Sharing, Excluding, At

-----------------------------------------------------------------------------
(* The theorems *)

LEMMA LeaseInit == Init => LeaseInv
  <1> SUFFICES ASSUME Init PROVE LeaseInv
    OBVIOUS
  <1>1. TypeOK
    <2>1. path \in 0..MaxInode /\ created \in 0..MaxInode /\ path <= created
      BY LeaseAssumption DEF Init
    <2>2. stops \in 0..MaxStop
      BY LeaseAssumption DEF Init
    <2> QED BY <2>1, <2>2, IdleTyped DEF Init, TypeOK
  <1>2. \A p \in Procs : proc[p] = Idle
    BY DEF Init
  <1> QED BY <1>1 DEF Init, LeaseInv, LocksHeld, Compatible, LeaseOfStep, FilesCreated, FenceMade,
            NoDetour, MigratesAlone, ValidatedCurrent, WorkCurrent, WorkStays, Excluding, Idle, At

LEMMA LeaseNext == LeaseInv /\ [Next]_vars => LeaseInv'
  <1> SUFFICES ASSUME LeaseInv, [Next]_vars PROVE LeaseInv'
    OBVIOUS
  <1>1. CASE Next
    <2> PICK p \in Procs : Step(p) \/ Stop(p)
      BY <1>1 DEF Next
    <2> QED BY CreateTempKeeps, PublishTempKeeps, OpenFileKeeps, LockDatabaseKeeps,
              LookForFenceKeeps, LockFenceKeeps, ValidateKeeps, StabilizeKeeps, HandoffKeeps,
              DropLeaseKeeps, UseKeeps, LeaveKeeps, MigrateKeeps, StopKeeps DEF Step
  <1>2. CASE UNCHANGED vars
    BY <1>2 DEF vars, LeaseInv, TypeOK, LocksHeld, Compatible, LeaseOfStep, FilesCreated, FenceMade,
       NoDetour, MigratesAlone, ValidatedCurrent, WorkCurrent, WorkStays, Sharing, Excluding, At
  <1> QED BY <1>1, <1>2

\* One process moves at a time, and none goes from one kind of lease to the other.
LEMMA OneMoves ==
  ASSUME LeaseInv, Next
  PROVE  \E p \in Procs :
           /\ \A q \in Procs : q # p => proc'[q] = proc[q]
           /\ p \in Excluding => p \notin Sharing'
           /\ p \in Sharing => p \notin Excluding'
  <1> PICK p \in Procs : Step(p) \/ Stop(p)
    BY DEF Next
  <1>1. \A q \in Procs : q # p => proc'[q] = proc[q]
    BY DEF LeaseInv, TypeOK, Step, CreateTemp, PublishTemp, OpenFile, LockDatabase, LookForFence,
           LockFence, Validate, Stabilize, Handoff, DropLease, Use, Leave, Migrate, Stop, End, Goto
  <1>2. proc'[p].pc = "migrating" => proc[p].pc \in {"fence", "migrating"}
    BY DEF LeaseInv, TypeOK, Proc, Idle, Step, CreateTemp, PublishTemp, OpenFile, LockDatabase,
           LookForFence, LockFence, Validate, Stabilize, Handoff, DropLease, Use, Leave, Migrate,
           Stop, End, Goto
  <1>3. proc[p].pc = "migrating" => proc'[p].pc \in {"idle", "migrating"}
    BY DEF LeaseInv, TypeOK, Idle, Step, CreateTemp, PublishTemp, OpenFile, LockDatabase,
           LookForFence, LockFence, Validate, Stabilize, Handoff, DropLease, Use, Leave, Migrate,
           Stop, End, At
  <1> QED BY <1>1, <1>2, <1>3 DEF Sharing, Excluding, At

\* A step of the fence is a step of the lease, or none.
LEMMA StepIsLeaseStep ==
  ASSUME LeaseInv, LeaseInv', [Next]_vars
  PROVE  [Lease!Change]_(Lease!vars)
  <1>1. CASE Next
    <2> PICK p \in Procs : /\ \A q \in Procs : q # p => proc'[q] = proc[q]
                           /\ p \in Excluding => p \notin Sharing'
                           /\ p \in Sharing => p \notin Excluding'
      BY <1>1, OneMoves
    <2>1. MigratesAlone /\ MigratesAlone'
      BY DEF LeaseInv
    <2>2. Sharing' \subseteq Procs /\ Excluding' \subseteq Procs
      BY DEF Sharing, Excluding
    <2>3. \A q \in Procs : q # p => (q \in Sharing' <=> q \in Sharing) /\ (q \in Excluding' <=> q \in Excluding)
      BY DEF Sharing, Excluding, At
    <2>4. Sharing \subseteq Procs /\ Excluding \subseteq Procs
      BY DEF Sharing, Excluding
    <2>5. Sharing' # {} => Excluding' = {}
      BY <2>1 DEF MigratesAlone
    <2>6. \A q, r \in Excluding' : q = r
      BY <2>1 DEF MigratesAlone
    <2>7. Sharing' \ Sharing # {} => Excluding = {}
      BY <2>2, <2>3, <2>4, <2>5
    <2>8. Excluding' \ Excluding # {} => Sharing = {} /\ Excluding = {}
      BY <2>2, <2>3, <2>4, <2>5, <2>6
    <2> QED BY <2>2, <2>5, <2>6, <2>7, <2>8 DEF Lease!Change
  <1>2. CASE UNCHANGED vars
    BY <1>2 DEF vars, Lease!vars, Sharing, Excluding, At
  <1> QED BY <1>1, <1>2

\* A migration has the database alone; what a process validated is what it opens; work
\* stays in the database at the path (DatabaseProcessLease, SqliteQueue::open).
THEOREM MigrationAlone == Spec => [](TypeOK /\ MigratesAlone /\ OpenedIsCurrent /\ WorkStays)
  <1>1. LeaseInv => TypeOK /\ MigratesAlone /\ OpenedIsCurrent /\ WorkStays
    BY DEF LeaseInv, ValidatedCurrent, OpenedIsCurrent, WorkCurrent
  <1> QED BY LeaseInit, LeaseNext, <1>1, PTL DEF Spec

\* The locks on two files, one of which is exchanged and the other of which is created
\* late, implement a lease of processes (DatabaseProcessLease).
THEOREM FenceIsLease == Spec => IsLease
  <1>1. Init => Lease!Init
    BY DEF Init, Lease!Init, Sharing, Excluding, At, Idle
  <1>2. LeaseInv /\ LeaseInv' /\ [Next]_vars => [Lease!Change]_(Lease!vars)
    BY StepIsLeaseStep
  <1> QED BY <1>1, <1>2, LeaseInit, LeaseNext, PTL DEF Spec, IsLease, Lease!Spec

\* Both together are what the run checks of the fence.
THEOREM FenceExact == Spec => LeaseExact
  BY MigrationAlone, FenceIsLease DEF LeaseExact

(***************************************************************************)
(* The alerts.                                                             *)
(***************************************************************************)

\* Steps at which a dispatcher has a command that may show the alert.
AtCommand == {"started", "succeeded", "refused"}

\* The tables of the deliveries; rows are bounded by the events, the backends and what
\* the operator asked for.
AlertTypes ==
  /\ enabled \in SUBSET Backends
  /\ old \in Seq(BOOLEAN) /\ Len(old) <= MaxAlerts
  /\ purged \subseteq DOMAIN old
  /\ redelivered \in 0..MaxRedeliver
  /\ deliveries \in Seq(Alerts!Delivery)
  /\ Len(deliveries) <= Len(old) * Cardinality(Backends) + redelivered
  /\ runs \in Seq(Nat) /\ shown \in Seq(Nat)
  /\ Len(runs) = Len(deliveries) /\ Len(shown) = Len(deliveries)
  /\ procs \in [Alerts!Procs -> Alerts!Proc]

\* What a delivery says of its command: it has a claim exactly while it is claimed or
\* running, starts are counted, an attempt is left while it can be tried again, and it
\* is not tried again once its alert was shown.
RowExact(row, count, times) ==
  /\ (row.claim # None) = (row.state \in {"claimed", "running"})
  /\ count = row.attempts + (IF row.state \in {"running", "delivery_unknown"} THEN 1 ELSE 0)
  /\ row.state \in Alerts!Open \cup {"delivery_unknown", "expired"} => row.attempts < MaxTries
  /\ times \in {0, 1}
  /\ times = 1 => row.state \in {"running", "delivered", "delivery_unknown"}

RowsExact == \A r \in DOMAIN deliveries : RowExact(deliveries[r], runs[r], shown[r])

\* A delivery is of an event there was, which is not purged before it is over.
EventsKept ==
  \A r \in DOMAIN deliveries :
    /\ deliveries[r].event \in DOMAIN old
    /\ deliveries[r].state \in Alerts!Open \cup {"delivery_unknown"} => deliveries[r].event \notin purged

\* A dispatcher has a row from its claim on; while its command may run, the row is
\* running under its claim or was given up by a daemon that started, and the command is
\* the only one for the row and has shown nothing unless it succeeded.
DispatchersExact ==
  /\ \A p \in Alerts!Procs : procs[p].pc \in AtCommand \cup {"claimed"} => procs[p].row \in DOMAIN deliveries
  /\ \A p \in Alerts!Procs : procs[p].pc \in AtCommand =>
       LET row == deliveries[procs[p].row]
       IN  (row.state = "running" /\ row.claim = p) \/ row.state = "delivery_unknown"
  /\ \A p \in Alerts!Procs : procs[p].pc \in {"started", "refused"} => shown[procs[p].row] = 0
  /\ Alerts!OneRunner

\* The deliveries of an event to a backend are a chain: all but the last are over and
\* were delivered again.
Chained ==
  \A q, r \in DOMAIN deliveries :
    deliveries[q].event = deliveries[r].event /\ deliveries[q].backend = deliveries[r].backend /\ q < r =>
      deliveries[q].state \notin Alerts!Open /\ \E s \in DOMAIN deliveries : deliveries[s].of = q

AlertInv == AlertTypes /\ RowsExact /\ EventsKept /\ DispatchersExact /\ Chained

(* Facts about the tables. *)

\* The module of the alerts counts as this one does.
LEMMA SameCount ==
  ASSUME NEW S
  PROVE  /\ Alerts!IsFiniteSet(S) = IsFiniteSet(S)
         /\ Alerts!Cardinality(S) = Cardinality(S)
  <1>1. Alerts!IsFiniteSet(S) = IsFiniteSet(S)
    BY DEF Alerts!IsFiniteSet, IsFiniteSet
  <1>2. Alerts!Cardinality(S) = Cardinality(S)
    BY DEF Alerts!Cardinality, Cardinality
  <1> QED BY <1>1, <1>2

LEMMA AlertConstants ==
  /\ MaxTries \in Nat \ {0} /\ MaxAlerts \in Nat /\ MaxRedeliver \in Nat
  /\ IsFiniteSet(Backends) /\ Cardinality(Backends) \in Nat
  /\ Configs \subseteq SUBSET Backends
  /\ None \notin Alerts!Procs
  /\ Alerts!MaxRows = MaxAlerts * Cardinality(Backends) + MaxRedeliver
  /\ Alerts!MaxRows \in Nat
  <1>1. IsFiniteSet(Backends)
    BY AlertsAssumption, SameCount DEF Alerts!ConstantsOK
  <1>2. Cardinality(Backends) \in Nat
    BY <1>1, FS_CardinalityType
  <1>3. Alerts!MaxRows = MaxAlerts * Cardinality(Backends) + MaxRedeliver
    BY SameCount DEF Alerts!MaxRows
  <1>4. /\ MaxTries \in Nat \ {0} /\ MaxAlerts \in Nat /\ MaxRedeliver \in Nat
        /\ Configs \subseteq SUBSET Backends
        /\ None \notin Alerts!Procs
    BY AlertsAssumption DEF Alerts!ConstantsOK, Alerts!Procs
  <1>5. MaxAlerts * Cardinality(Backends) \in Nat
    BY <1>2, <1>4
  <1> QED BY <1>1, <1>2, <1>3, <1>4, <1>5

LEMMA RowsBounded ==
  ASSUME AlertTypes
  PROVE  /\ Len(deliveries) \in Nat /\ DOMAIN deliveries = 1..Len(deliveries)
         /\ Len(deliveries) <= Alerts!MaxRows /\ Alerts!MaxRows \in Nat
         /\ Len(old) \in Nat /\ DOMAIN old = 1..Len(old)
         /\ DOMAIN runs = DOMAIN deliveries /\ DOMAIN shown = DOMAIN deliveries
  <1> DEFINE n == Len(old)
             c == Cardinality(Backends)
  <1>1. c \in Nat /\ MaxAlerts \in Nat /\ MaxRedeliver \in Nat
    BY AlertConstants
  <1>2. n \in Nat /\ n <= MaxAlerts /\ redelivered \in 0..MaxRedeliver
    BY DEF AlertTypes
  <1> HIDE DEF n, c
  <1>3. n * c <= MaxAlerts * c /\ n * c \in Nat /\ MaxAlerts * c \in Nat
    BY <1>1, <1>2
  <1>4. Alerts!MaxRows = MaxAlerts * c + MaxRedeliver
    BY AlertConstants DEF c
  <1>5. Len(deliveries) <= n * c + redelivered
    BY DEF AlertTypes, n, c
  <1>6. Len(deliveries) \in Nat /\ Len(old) \in Nat
    BY DEF AlertTypes
  <1>7. Len(deliveries) <= Alerts!MaxRows /\ Alerts!MaxRows \in Nat
    BY <1>1, <1>2, <1>3, <1>4, <1>5, <1>6
  <1> QED BY <1>6, <1>7 DEF AlertTypes

\* One delivery changes and its event, its backend and its link do not: a chain stays a
\* chain when no delivery that is over opens again.
LEMMA RowChanges ==
  ASSUME AlertTypes, EventsKept, Chained,
         NEW r \in DOMAIN deliveries, NEW row \in Alerts!Delivery,
         row.event = deliveries[r].event, row.backend = deliveries[r].backend, row.of = deliveries[r].of,
         row.state \in Alerts!Open \cup {"delivery_unknown"} => deliveries[r].state \in Alerts!Open,
         deliveries' = [deliveries EXCEPT ![r] = row], UNCHANGED <<old, purged>>
  PROVE  /\ deliveries' \in Seq(Alerts!Delivery)
         /\ Len(deliveries') = Len(deliveries) /\ DOMAIN deliveries' = DOMAIN deliveries
         /\ deliveries'[r] = row
         /\ \A q \in DOMAIN deliveries : q # r => deliveries'[q] = deliveries[q]
         /\ EventsKept' /\ Chained'
  <1>1. /\ deliveries' \in Seq(Alerts!Delivery)
        /\ Len(deliveries') = Len(deliveries) /\ DOMAIN deliveries' = DOMAIN deliveries
    BY DEF AlertTypes
  <1>2. /\ deliveries'[r] = row
        /\ \A q \in DOMAIN deliveries : q # r => deliveries'[q] = deliveries[q]
    BY DEF AlertTypes
  <1>3. \A q \in DOMAIN deliveries :
          /\ deliveries'[q].event = deliveries[q].event
          /\ deliveries'[q].backend = deliveries[q].backend
          /\ deliveries'[q].of = deliveries[q].of
          /\ deliveries'[q].state \in Alerts!Open \cup {"delivery_unknown"} =>
               deliveries[q].state \in Alerts!Open \cup {"delivery_unknown"}
          /\ deliveries'[q].state \in Alerts!Open => deliveries[q].state \in Alerts!Open
    BY <1>2
  <1>4. EventsKept'
    BY <1>1, <1>3 DEF EventsKept
  <1>5. Chained'
    BY <1>1, <1>3 DEF Chained
  <1> QED BY <1>1, <1>2, <1>4, <1>5

(* The steps. *)

LEMMA AlertInit == Alerts!Init => AlertInv
  <1> SUFFICES ASSUME Alerts!Init PROVE AlertInv
    OBVIOUS
  <1>1. Cardinality(Backends) \in Nat /\ MaxAlerts \in Nat /\ MaxRedeliver \in Nat /\ Alerts!MaxRows \in Nat
    BY AlertConstants
  <1>2. Alerts!Off \in Alerts!Proc /\ Alerts!Off.pc = "off" /\ Alerts!Off.row = 0
    <2>1. 0 \in 0..Alerts!MaxRows
      BY <1>1
    <2> QED BY <2>1 DEF Alerts!Off, Alerts!Proc
  <1>3. AlertTypes
    BY <1>1, <1>2 DEF AlertTypes, Alerts!Init
  <1>4. DispatchersExact
    BY <1>2 DEF Alerts!Init, DispatchersExact, AtCommand, Alerts!OneRunner
  <1> QED BY <1>3, <1>4 DEF AlertInv, Alerts!Init, RowsExact, EventsKept, Chained

\* Steps that leave the deliveries and the dispatchers alone.
LEMMA QuietStep ==
  ASSUME AlertInv,
         \/ \E e \in 1..MaxAlerts : Alerts!Purge(e) \/ Alerts!Age(e)
         \/ UNCHANGED Alerts!vars
  PROVE  AlertInv'
  <1>1. AlertTypes /\ RowsExact /\ EventsKept /\ DispatchersExact /\ Chained
    BY DEF AlertInv
  <1>2. UNCHANGED <<enabled, deliveries, procs, runs, shown, redelivered>>
    BY DEF Alerts!Purge, Alerts!Age, Alerts!vars
  <1>3. RowsExact' /\ DispatchersExact' /\ Chained'
    BY <1>1, <1>2 DEF RowsExact, RowExact, DispatchersExact, Alerts!OneRunner, Chained
  <1>4. old' \in Seq(BOOLEAN) /\ Len(old') = Len(old) /\ DOMAIN old' = DOMAIN old
    <2>1. CASE UNCHANGED old
      BY <1>1, <2>1 DEF AlertTypes
    <2>2. CASE \E e \in DOMAIN old : old' = [old EXCEPT ![e] = TRUE]
      BY <1>1, <2>2 DEF AlertTypes
    <2> QED BY <2>1, <2>2 DEF Alerts!Purge, Alerts!Age, Alerts!vars
  <1>5. purged' \subseteq DOMAIN old
    BY <1>1 DEF Alerts!Purge, Alerts!Age, Alerts!vars, AlertTypes
  <1>6. AlertTypes'
    BY <1>1, <1>2, <1>4, <1>5 DEF AlertTypes
  <1>7. \A r \in DOMAIN deliveries :
          deliveries[r].state \in Alerts!Open \cup {"delivery_unknown"} => deliveries[r].event \notin purged'
    BY <1>1 DEF Alerts!Purge, Alerts!Age, Alerts!vars, EventsKept, Alerts!Rows, Alerts!Open
  <1>8. EventsKept'
    BY <1>1, <1>2, <1>4, <1>7 DEF EventsKept
  <1> QED BY <1>3, <1>6, <1>8 DEF AlertInv

\* Steps of one process that leave the deliveries alone and end what it did.
LEMMA ProcessEnds ==
  ASSUME AlertInv, NEW p \in Alerts!Procs, NEW state \in Alerts!Proc,
         procs' = [procs EXCEPT ![p] = state], state.pc \in {"off", "idle"},
         UNCHANGED <<enabled, old, deliveries, purged, runs, shown, redelivered>>
  PROVE  AlertInv'
  <1>1. AlertTypes /\ RowsExact /\ EventsKept /\ DispatchersExact /\ Chained
    BY DEF AlertInv
  <1>2. AlertTypes'
    BY <1>1 DEF AlertTypes
  <1>3. RowsExact' /\ EventsKept' /\ Chained'
    BY <1>1 DEF RowsExact, RowExact, EventsKept, Chained
  <1>4. procs'[p].pc \notin AtCommand \cup {"claimed"} /\ \A q \in Alerts!Procs : q # p => procs'[q] = procs[q]
    BY <1>1 DEF AlertTypes, AtCommand
  <1>5. DispatchersExact'
    BY <1>1, <1>4 DEF DispatchersExact, Alerts!OneRunner, AtCommand
  <1> QED BY <1>2, <1>3, <1>5 DEF AlertInv

LEMMA ProcessStep ==
  ASSUME AlertInv, NEW p \in Alerts!Procs,
         \/ Alerts!Stop(p) \/ Alerts!EndCommand(p) \/ Alerts!Unconfigured(p)
         \/ \E config \in Configs : Alerts!StartCommand(p, config)
  PROVE  AlertInv'
  <1>1. procs \in [Alerts!Procs -> Alerts!Proc] /\ Alerts!MaxRows \in Nat /\ Configs \subseteq SUBSET Backends
    BY AlertConstants DEF AlertInv, AlertTypes
  <1>2. 0 \in 0..Alerts!MaxRows
    BY <1>1
  <1>3. UNCHANGED <<enabled, old, deliveries, purged, runs, shown, redelivered>>
    BY DEF Alerts!Stop, Alerts!EndCommand, Alerts!Unconfigured, Alerts!StartCommand
  <1>4. CASE Alerts!Stop(p) \/ Alerts!EndCommand(p)
    <2>1. Alerts!Off \in Alerts!Proc /\ Alerts!Off.pc = "off"
      BY <1>2 DEF Alerts!Off, Alerts!Proc
    <2>2. procs' = [procs EXCEPT ![p] = Alerts!Off]
      BY <1>4 DEF Alerts!Stop, Alerts!EndCommand
    <2> QED BY <1>3, <2>1, <2>2, ProcessEnds
  <1>5. CASE Alerts!Unconfigured(p)
    <2> DEFINE state == [pc |-> "idle", config |-> procs[p].config, row |-> 0]
    <2>1. state \in Alerts!Proc /\ state.pc = "idle"
      BY <1>1, <1>2 DEF Alerts!Proc
    <2>2. procs' = [procs EXCEPT ![p] = state]
      BY <1>5 DEF Alerts!Unconfigured, Alerts!Idle
    <2> HIDE DEF state
    <2> QED BY <1>3, <2>1, <2>2, ProcessEnds
  <1>6. CASE \E config \in Configs : Alerts!StartCommand(p, config)
    <2>1. PICK config \in Configs : Alerts!StartCommand(p, config)
      BY <1>6
    <2> DEFINE state == [pc |-> "idle", config |-> config, row |-> 0]
    <2>2. state \in Alerts!Proc /\ state.pc = "idle"
      BY <1>1, <1>2 DEF Alerts!Proc
    <2>3. procs' = [procs EXCEPT ![p] = state]
      BY <2>1 DEF Alerts!StartCommand
    <2> HIDE DEF state
    <2> QED BY <1>3, <2>2, <2>3, ProcessEnds
  <1> QED BY <1>4, <1>5, <1>6

LEMMA DueStep ==
  ASSUME AlertInv, NEW r \in DOMAIN deliveries, Alerts!Due(r)
  PROVE  AlertInv'
  <1>1. AlertTypes /\ RowsExact /\ EventsKept /\ DispatchersExact /\ Chained
    BY DEF AlertInv
  <1>2. deliveries[r] \in Alerts!Delivery
    BY <1>1 DEF AlertTypes
  <1> DEFINE row == [deliveries[r] EXCEPT !.due = TRUE]
  <1>3. /\ row \in Alerts!Delivery
        /\ row.event = deliveries[r].event /\ row.backend = deliveries[r].backend /\ row.of = deliveries[r].of
        /\ row.state = deliveries[r].state /\ row.claim = deliveries[r].claim /\ row.attempts = deliveries[r].attempts
        /\ deliveries[r].state = "pending"
    BY <1>2 DEF Alerts!Delivery, Alerts!Due
  <1>4. deliveries' = [deliveries EXCEPT ![r] = row]
    BY <1>1 DEF Alerts!Due, AlertTypes
  <1>5. UNCHANGED <<enabled, old, purged, procs, runs, shown, redelivered>>
    BY DEF Alerts!Due
  <1> HIDE DEF row
  <1>6. /\ deliveries' \in Seq(Alerts!Delivery)
        /\ Len(deliveries') = Len(deliveries) /\ DOMAIN deliveries' = DOMAIN deliveries
        /\ deliveries'[r] = row
        /\ \A q \in DOMAIN deliveries : q # r => deliveries'[q] = deliveries[q]
        /\ EventsKept' /\ Chained'
    BY <1>1, <1>3, <1>4, <1>5, RowChanges DEF Alerts!Open
  <1>7. AlertTypes'
    BY <1>1, <1>5, <1>6 DEF AlertTypes
  <1>8. RowsExact'
    BY <1>1, <1>3, <1>5, <1>6 DEF RowsExact, RowExact
  <1>9. DispatchersExact'
    BY <1>1, <1>3, <1>5, <1>6 DEF DispatchersExact, Alerts!OneRunner, AtCommand
  <1> QED BY <1>6, <1>7, <1>8, <1>9 DEF AlertInv

LEMMA ClaimStep ==
  ASSUME AlertInv, NEW p \in Alerts!Procs, NEW r \in DOMAIN deliveries, Alerts!Claim(p, r)
  PROVE  AlertInv'
  <1>1. AlertTypes /\ RowsExact /\ EventsKept /\ DispatchersExact /\ Chained
    BY DEF AlertInv
  <1>2. /\ deliveries[r] \in Alerts!Delivery /\ procs[p] \in Alerts!Proc
        /\ r \in 0..Alerts!MaxRows
    BY <1>1, RowsBounded DEF AlertTypes
  <1> DEFINE row == [deliveries[r] EXCEPT !.state = "claimed", !.claim = p]
             state == [procs[p] EXCEPT !.pc = "claimed", !.row = r]
  <1>3. /\ row \in Alerts!Delivery
        /\ row.event = deliveries[r].event /\ row.backend = deliveries[r].backend /\ row.of = deliveries[r].of
        /\ row.state = "claimed" /\ row.claim = p /\ row.attempts = deliveries[r].attempts
        /\ deliveries[r].state = "pending"
    BY <1>2 DEF Alerts!Delivery, Alerts!Claim, Alerts!Open
  <1>4. state \in Alerts!Proc /\ state.pc = "claimed" /\ state.row = r
    BY <1>2 DEF Alerts!Proc
  <1>5. /\ deliveries' = [deliveries EXCEPT ![r] = row]
        /\ procs' = [procs EXCEPT ![p] = state]
    BY <1>1 DEF Alerts!Claim, AlertTypes
  <1>6. enabled' = procs[p].config /\ UNCHANGED <<old, purged, runs, shown, redelivered>>
    BY DEF Alerts!Claim
  <1> HIDE DEF row, state
  <1>7. /\ deliveries' \in Seq(Alerts!Delivery)
        /\ Len(deliveries') = Len(deliveries) /\ DOMAIN deliveries' = DOMAIN deliveries
        /\ deliveries'[r] = row
        /\ \A q \in DOMAIN deliveries : q # r => deliveries'[q] = deliveries[q]
        /\ EventsKept' /\ Chained'
    BY <1>1, <1>3, <1>5, <1>6, RowChanges DEF Alerts!Open
  <1>8. procs'[p] = state /\ \A q \in Alerts!Procs : q # p => procs'[q] = procs[q]
    BY <1>1, <1>5 DEF AlertTypes
  <1>9. procs[p].config \in SUBSET Backends
    BY <1>2 DEF Alerts!Proc
  <1>10. AlertTypes'
    BY <1>1, <1>4, <1>5, <1>6, <1>7, <1>9 DEF AlertTypes
  <1>11. RowExact(row, runs'[r], shown'[r])
    BY <1>1, <1>3, <1>6, AlertConstants DEF RowsExact, RowExact, Alerts!Open
  <1>12. RowsExact'
    BY <1>1, <1>6, <1>7, <1>11 DEF RowsExact, RowExact
  <1>13. \A q \in Alerts!Procs : procs[q].pc \in AtCommand => procs[q].row # r
    BY <1>1, <1>3 DEF DispatchersExact
  <1>14. DispatchersExact'
    BY <1>1, <1>4, <1>6, <1>7, <1>8, <1>13 DEF DispatchersExact, Alerts!OneRunner, AtCommand
  <1> QED BY <1>7, <1>10, <1>12, <1>14 DEF AlertInv

\* The row of a dispatcher settles, or waits for another attempt, under its claim.
LEMMA PutStep ==
  ASSUME AlertInv, NEW p \in Alerts!Procs, procs[p].pc \in AtCommand \cup {"claimed"},
         NEW to \in {"pending", "delivered", "failed", "expired"}, NEW attempts \in 0..MaxTries,
         Alerts!Put(p, to, attempts, FALSE), Alerts!Idle(p),
         Alerts!Row(p).claim = p, Alerts!Row(p).state \in {"claimed", "running"},
         attempts = Alerts!Row(p).attempts + (IF Alerts!Row(p).state = "running" THEN 1 ELSE 0),
         to \in {"pending", "expired"} => attempts < MaxTries,
         to # "delivered" => shown[procs[p].row] = 0,
         UNCHANGED <<enabled, old, purged, runs, shown, redelivered>>
  PROVE  AlertInv'
  <1>1. AlertTypes /\ RowsExact /\ EventsKept /\ DispatchersExact /\ Chained
    BY DEF AlertInv
  <1>2. procs[p].row \in DOMAIN deliveries /\ procs[p] \in Alerts!Proc
    BY <1>1 DEF AlertTypes, DispatchersExact
  <1>3. PICK r \in DOMAIN deliveries : r = procs[p].row
    BY <1>2
  <1>4. deliveries[r] \in Alerts!Delivery /\ None \in Alerts!Procs \cup {None} /\ 0 \in 0..Alerts!MaxRows
    BY <1>1, AlertConstants DEF AlertTypes
  <1> DEFINE row == [deliveries[r] EXCEPT !.state = to, !.claim = None, !.attempts = attempts, !.due = FALSE]
             state == [pc |-> "idle", config |-> procs[p].config, row |-> 0]
  <1>5. /\ row \in Alerts!Delivery
        /\ row.event = deliveries[r].event /\ row.backend = deliveries[r].backend /\ row.of = deliveries[r].of
        /\ row.state = to /\ row.claim = None /\ row.attempts = attempts
    BY <1>4 DEF Alerts!Delivery, Alerts!Open, Alerts!Settled
  <1>6. state \in Alerts!Proc /\ state.pc = "idle"
    BY <1>2, <1>4 DEF Alerts!Proc
  <1>7. deliveries[r].claim = p /\ deliveries[r].state \in {"claimed", "running"}
    BY <1>3 DEF Alerts!Row
  <1>8. /\ deliveries' = [deliveries EXCEPT ![r] = row]
        /\ procs' = [procs EXCEPT ![p] = state]
    BY <1>1, <1>3 DEF Alerts!Put, Alerts!Idle, AlertTypes
  <1> HIDE DEF row, state
  <1>9. /\ deliveries' \in Seq(Alerts!Delivery)
        /\ Len(deliveries') = Len(deliveries) /\ DOMAIN deliveries' = DOMAIN deliveries
        /\ deliveries'[r] = row
        /\ \A q \in DOMAIN deliveries : q # r => deliveries'[q] = deliveries[q]
        /\ EventsKept' /\ Chained'
    BY <1>1, <1>5, <1>7, <1>8, RowChanges DEF Alerts!Open
  <1>10. procs'[p] = state /\ \A q \in Alerts!Procs : q # p => procs'[q] = procs[q]
    BY <1>1, <1>8 DEF AlertTypes
  <1>11. AlertTypes'
    BY <1>1, <1>6, <1>8, <1>9 DEF AlertTypes
  <1>12. RowExact(row, runs'[r], shown'[r])
    BY <1>1, <1>3, <1>4, <1>5, <1>7 DEF RowsExact, RowExact, Alerts!Open, Alerts!Row
  <1>13. RowsExact'
    BY <1>1, <1>9, <1>12 DEF RowsExact, RowExact
  <1>14. \A q \in Alerts!Procs : q # p /\ procs[q].pc \in AtCommand => procs[q].row # r
    BY <1>1, <1>7 DEF DispatchersExact
  <1>15. DispatchersExact'
    BY <1>1, <1>6, <1>9, <1>10, <1>14 DEF DispatchersExact, Alerts!OneRunner, AtCommand
  <1> QED BY <1>9, <1>11, <1>13, <1>15 DEF AlertInv

\* The claim was taken away meanwhile: the dispatcher just goes on.
LEMMA LostStep ==
  ASSUME AlertInv, NEW p \in Alerts!Procs, Alerts!Idle(p),
         UNCHANGED <<enabled, old, deliveries, purged, runs, shown, redelivered>>
  PROVE  AlertInv'
  <1> DEFINE state == [pc |-> "idle", config |-> procs[p].config, row |-> 0]
  <1>1. procs[p] \in Alerts!Proc /\ 0 \in 0..Alerts!MaxRows
    BY AlertConstants DEF AlertInv, AlertTypes
  <1>2. state \in Alerts!Proc /\ state.pc = "idle"
    BY <1>1 DEF Alerts!Proc
  <1>3. procs' = [procs EXCEPT ![p] = state]
    BY DEF Alerts!Idle
  <1> HIDE DEF state
  <1> QED BY <1>2, <1>3, ProcessEnds

LEMMA ExpireStep ==
  ASSUME AlertInv, NEW p \in Alerts!Procs, Alerts!Expire(p)
  PROVE  AlertInv'
  <1>1. /\ procs[p].pc = "claimed" /\ Alerts!Idle(p)
        /\ UNCHANGED <<enabled, old, purged, runs, shown, redelivered>>
    BY DEF Alerts!Expire, Alerts!At
  <1>2. CASE Alerts!Owned(p, "claimed")
    <2>1. Alerts!Put(p, "expired", Alerts!Row(p).attempts, FALSE)
      BY <1>2 DEF Alerts!Expire
    <2>2. Alerts!Row(p).claim = p /\ Alerts!Row(p).state = "claimed"
      BY <1>2 DEF Alerts!Owned
    <2>3. procs[p].row \in DOMAIN deliveries
      BY <1>1 DEF AlertInv, DispatchersExact
    <2>4. deliveries[procs[p].row] \in Alerts!Delivery
      BY <2>3 DEF AlertInv, AlertTypes
    <2>5. PICK n \in 0..MaxTries : n = Alerts!Row(p).attempts
      BY <2>4 DEF Alerts!Delivery, Alerts!Row
    <2>6. n < MaxTries /\ shown[procs[p].row] = 0
      BY <2>2, <2>3, <2>5 DEF AlertInv, RowsExact, RowExact, Alerts!Row, Alerts!Open
    <2>7. n = Alerts!Row(p).attempts + (IF Alerts!Row(p).state = "running" THEN 1 ELSE 0)
      BY <2>2, <2>5
    <2>8. Alerts!Put(p, "expired", n, FALSE)
      BY <2>1, <2>5
    <2> QED BY <1>1, <2>2, <2>6, <2>7, <2>8, PutStep
  <1>3. CASE ~Alerts!Owned(p, "claimed")
    BY <1>1, <1>3, LostStep DEF Alerts!Expire
  <1> QED BY <1>2, <1>3

LEMMA RecordStep ==
  ASSUME AlertInv, NEW p \in Alerts!Procs, Alerts!Record(p)
  PROVE  AlertInv'
  <1>1. /\ procs[p].pc \in {"succeeded", "refused"} /\ Alerts!Idle(p)
        /\ UNCHANGED <<enabled, old, purged, runs, shown, redelivered>>
    BY DEF Alerts!Record
  <1>2. CASE Alerts!Owned(p, "running")
    <2>1. Alerts!Row(p).claim = p /\ Alerts!Row(p).state = "running"
      BY <1>2 DEF Alerts!Owned
    <2>2. procs[p].row \in DOMAIN deliveries
      BY <1>1 DEF AlertInv, DispatchersExact, AtCommand
    <2>3. deliveries[procs[p].row] \in Alerts!Delivery
      BY <2>2 DEF AlertInv, AlertTypes
    <2>4. Alerts!Row(p).attempts \in 0..MaxTries /\ Alerts!Row(p).attempts < MaxTries /\ MaxTries \in Nat
      BY <2>1, <2>2, <2>3, AlertConstants DEF AlertInv, RowsExact, RowExact, Alerts!Row, Alerts!Open, Alerts!Delivery
    <2>5. PICK n \in 0..MaxTries : n = Alerts!Row(p).attempts + 1
      BY <2>4
    <2>6. n = Alerts!Row(p).attempts + (IF Alerts!Row(p).state = "running" THEN 1 ELSE 0)
      BY <2>1, <2>5
    <2>7. /\ procs[p].pc = "succeeded" => Alerts!Put(p, "delivered", n, FALSE)
          /\ procs[p].pc # "succeeded" /\ n < MaxTries => Alerts!Put(p, "pending", n, FALSE)
          /\ procs[p].pc # "succeeded" /\ ~(n < MaxTries) => Alerts!Put(p, "failed", n, FALSE)
      BY <1>2, <2>5 DEF Alerts!Record, Alerts!At
    <2>8. procs[p].pc # "succeeded" => shown[procs[p].row] = 0
      BY <1>1 DEF AlertInv, DispatchersExact
    <2>9. procs[p].pc \in AtCommand \cup {"claimed"} /\ Alerts!Row(p).state \in {"claimed", "running"}
      BY <1>1, <2>1 DEF AtCommand
    <2>10. CASE procs[p].pc = "succeeded"
      BY <1>1, <2>1, <2>6, <2>7, <2>9, <2>10, PutStep
    <2>11. CASE procs[p].pc # "succeeded" /\ n < MaxTries
      BY <1>1, <2>1, <2>6, <2>7, <2>8, <2>9, <2>11, PutStep
    <2>12. CASE procs[p].pc # "succeeded" /\ ~(n < MaxTries)
      BY <1>1, <2>1, <2>6, <2>7, <2>8, <2>9, <2>12, PutStep
    <2> QED BY <2>10, <2>11, <2>12
  <1>3. CASE ~Alerts!Owned(p, "running")
    BY <1>1, <1>3, LostStep DEF Alerts!Record
  <1> QED BY <1>2, <1>3

LEMMA BeginStep ==
  ASSUME AlertInv, NEW p \in Alerts!Procs, Alerts!Begin(p)
  PROVE  AlertInv'
  <1>1. AlertTypes /\ RowsExact /\ EventsKept /\ DispatchersExact /\ Chained
    BY DEF AlertInv
  <1>2. procs[p].pc = "claimed" /\ UNCHANGED <<enabled, old, purged, shown, redelivered>>
    BY DEF Alerts!Begin, Alerts!At
  <1>3. CASE ~Alerts!Owned(p, "claimed")
    BY <1>2, <1>3, LostStep DEF Alerts!Begin
  <1>4. CASE Alerts!Owned(p, "claimed")
    <2>1. PICK r \in DOMAIN deliveries : r = procs[p].row
      BY <1>1, <1>2 DEF DispatchersExact
    <2>2. deliveries[r].claim = p /\ deliveries[r].state = "claimed"
      BY <1>4, <2>1 DEF Alerts!Owned, Alerts!Row
    <2>3. deliveries[r] \in Alerts!Delivery /\ procs[p] \in Alerts!Proc
      BY <1>1 DEF AlertTypes
    <2> DEFINE row == [deliveries[r] EXCEPT !.state = "running"]
               state == [procs[p] EXCEPT !.pc = "started"]
    <2>4. /\ row \in Alerts!Delivery
          /\ row.event = deliveries[r].event /\ row.backend = deliveries[r].backend /\ row.of = deliveries[r].of
          /\ row.state = "running" /\ row.claim = p /\ row.attempts = deliveries[r].attempts
      BY <2>2, <2>3 DEF Alerts!Delivery, Alerts!Open
    <2>5. state \in Alerts!Proc /\ state.pc = "started" /\ state.row = r
      BY <2>1, <2>3 DEF Alerts!Proc
    <2>6. /\ deliveries' = [deliveries EXCEPT ![r] = row]
          /\ runs' = [runs EXCEPT ![r] = runs[r] + 1]
          /\ procs' = [procs EXCEPT ![p] = state]
      BY <1>1, <1>4, <2>1 DEF Alerts!Begin, Alerts!Goto, AlertTypes
    <2> HIDE DEF row, state
    <2>7. /\ deliveries' \in Seq(Alerts!Delivery)
          /\ Len(deliveries') = Len(deliveries) /\ DOMAIN deliveries' = DOMAIN deliveries
          /\ deliveries'[r] = row
          /\ \A q \in DOMAIN deliveries : q # r => deliveries'[q] = deliveries[q]
          /\ EventsKept' /\ Chained'
      BY <1>1, <1>2, <2>2, <2>4, <2>6, RowChanges DEF Alerts!Open
    <2>8. /\ runs' \in Seq(Nat) /\ Len(runs') = Len(runs)
          /\ runs'[r] = runs[r] + 1
          /\ \A q \in DOMAIN deliveries : q # r => runs'[q] = runs[q]
      <3>1. runs[r] \in Nat /\ DOMAIN runs = DOMAIN deliveries
        BY <1>1, RowsBounded DEF AlertTypes
      <3> QED BY <1>1, <2>6, <3>1 DEF AlertTypes
    <2>9. procs'[p] = state /\ \A q \in Alerts!Procs : q # p => procs'[q] = procs[q]
      BY <1>1, <2>6 DEF AlertTypes
    <2>10. AlertTypes'
      BY <1>1, <1>2, <2>5, <2>6, <2>7, <2>8 DEF AlertTypes
    <2>11. RowExact(row, runs'[r], shown'[r]) /\ shown[r] = 0
      <3>1. deliveries[r].attempts \in Nat
        BY <2>3, AlertConstants DEF Alerts!Delivery
      <3> QED BY <1>1, <1>2, <2>2, <2>4, <2>8, <3>1, AlertConstants DEF RowsExact, RowExact, Alerts!Open
    <2>12. RowsExact'
      BY <1>1, <1>2, <2>7, <2>8, <2>11 DEF RowsExact, RowExact
    <2>13. \A q \in Alerts!Procs : procs[q].pc \in AtCommand => procs[q].row # r
      BY <1>1, <2>2 DEF DispatchersExact
    <2>14. DispatchersExact'
      BY <1>1, <1>2, <2>4, <2>5, <2>7, <2>9, <2>11, <2>13 DEF DispatchersExact, Alerts!OneRunner, AtCommand
    <2> QED BY <2>7, <2>10, <2>12, <2>14 DEF AlertInv
  <1> QED BY <1>3, <1>4

LEMMA RunBackendStep ==
  ASSUME AlertInv, NEW p \in Alerts!Procs, NEW ok \in BOOLEAN, Alerts!RunBackend(p, ok)
  PROVE  AlertInv'
  <1>1. AlertTypes /\ RowsExact /\ EventsKept /\ DispatchersExact /\ Chained
    BY DEF AlertInv
  <1>2. procs[p].pc = "started" /\ UNCHANGED <<enabled, old, deliveries, purged, runs, redelivered>>
    BY DEF Alerts!RunBackend, Alerts!At
  <1>3. PICK r \in DOMAIN deliveries : r = procs[p].row
    BY <1>1, <1>2 DEF DispatchersExact, AtCommand
  <1>4. /\ shown[r] = 0 /\ deliveries[r].state \in {"running", "delivery_unknown"}
        /\ DOMAIN shown = DOMAIN deliveries
    BY <1>1, <1>2, <1>3, RowsBounded DEF DispatchersExact, AtCommand
  <1> DEFINE state == [procs[p] EXCEPT !.pc = IF ok THEN "succeeded" ELSE "refused"]
  <1>5. procs[p] \in Alerts!Proc
    BY <1>1 DEF AlertTypes
  <1>6. state \in Alerts!Proc /\ state.pc = (IF ok THEN "succeeded" ELSE "refused") /\ state.row = r
    BY <1>3, <1>5 DEF Alerts!Proc
  <1>7. /\ procs' = [procs EXCEPT ![p] = state]
        /\ shown' = IF ok THEN [shown EXCEPT ![r] = 1] ELSE shown
    BY <1>1, <1>3, <1>4 DEF Alerts!RunBackend, Alerts!Goto, AlertTypes
  <1> HIDE DEF state
  <1>8. /\ shown' \in Seq(Nat) /\ Len(shown') = Len(shown)
        /\ shown'[r] = (IF ok THEN 1 ELSE 0)
        /\ \A q \in DOMAIN deliveries : q # r => shown'[q] = shown[q]
    BY <1>1, <1>4, <1>7 DEF AlertTypes
  <1>9. procs'[p] = state /\ \A q \in Alerts!Procs : q # p => procs'[q] = procs[q]
    BY <1>1, <1>7 DEF AlertTypes
  <1>10. AlertTypes'
    BY <1>1, <1>2, <1>6, <1>7, <1>8 DEF AlertTypes
  <1>11. RowsExact'
    BY <1>1, <1>2, <1>4, <1>8 DEF RowsExact, RowExact
  <1>12. \A q \in Alerts!Procs : q # p /\ procs[q].pc \in AtCommand => procs[q].row # r
    BY <1>1, <1>2, <1>3 DEF DispatchersExact, Alerts!OneRunner, AtCommand
  <1>13. DispatchersExact'
    BY <1>1, <1>2, <1>3, <1>6, <1>8, <1>9, <1>12 DEF DispatchersExact, Alerts!OneRunner, AtCommand
  <1>14. EventsKept' /\ Chained'
    BY <1>1, <1>2 DEF EventsKept, Chained
  <1> QED BY <1>10, <1>11, <1>13, <1>14 DEF AlertInv

LEMMA StartDaemonStep ==
  ASSUME AlertInv, NEW config \in Configs, Alerts!StartDaemon(config)
  PROVE  AlertInv'
  <1>1. AlertTypes /\ RowsExact /\ EventsKept /\ DispatchersExact /\ Chained
    BY DEF AlertInv
  <1>2. enabled' = config /\ config \in SUBSET Backends /\ UNCHANGED <<old, purged, runs, shown, redelivered>>
    BY AlertConstants DEF Alerts!StartDaemon
  <1>3. Server \in Alerts!Procs /\ 0 \in 0..Alerts!MaxRows
    BY AlertConstants DEF Alerts!Procs
  <1> DEFINE state == [pc |-> "idle", config |-> config, row |-> 0]
  <1>4. state \in Alerts!Proc /\ state.pc = "idle" /\ procs' = [procs EXCEPT ![Server] = state]
    BY <1>2, <1>3 DEF Alerts!Proc, Alerts!StartDaemon
  <1> HIDE DEF state
  <1>5. procs'[Server] = state /\ \A q \in Alerts!Procs : q # Server => procs'[q] = procs[q]
    BY <1>1, <1>3, <1>4 DEF AlertTypes
  <1>6. deliveries' = [r \in DOMAIN deliveries |-> Alerts!AfterRestart(deliveries[r])]
    BY DEF Alerts!StartDaemon, Alerts!Rows
  <1>7. ASSUME NEW row \in Alerts!Delivery
        PROVE  /\ Alerts!AfterRestart(row) \in Alerts!Delivery
               /\ Alerts!AfterRestart(row).event = row.event
               /\ Alerts!AfterRestart(row).backend = row.backend
               /\ Alerts!AfterRestart(row).of = row.of
               /\ Alerts!AfterRestart(row).attempts = row.attempts
               /\ Alerts!AfterRestart(row).state =
                    (IF row.state = "claimed" THEN "pending"
                     ELSE IF row.state = "running" THEN "delivery_unknown" ELSE row.state)
               /\ Alerts!AfterRestart(row).claim = (IF row.state \in {"claimed", "running"} THEN None ELSE row.claim)
    BY DEF Alerts!AfterRestart, Alerts!Delivery, Alerts!Open, Alerts!Settled
  <1>8. /\ deliveries' \in Seq(Alerts!Delivery)
        /\ Len(deliveries') = Len(deliveries) /\ DOMAIN deliveries' = DOMAIN deliveries
    BY <1>1, <1>6, <1>7 DEF AlertTypes
  <1>9. \A r \in DOMAIN deliveries :
          /\ deliveries[r] \in Alerts!Delivery
          /\ deliveries'[r].event = deliveries[r].event
          /\ deliveries'[r].backend = deliveries[r].backend
          /\ deliveries'[r].of = deliveries[r].of
          /\ deliveries'[r].attempts = deliveries[r].attempts
          /\ deliveries'[r].state = (IF deliveries[r].state = "claimed" THEN "pending"
                                     ELSE IF deliveries[r].state = "running" THEN "delivery_unknown"
                                     ELSE deliveries[r].state)
          /\ deliveries'[r].claim = (IF deliveries[r].state \in {"claimed", "running"} THEN None
                                     ELSE deliveries[r].claim)
    BY <1>1, <1>6, <1>7 DEF AlertTypes
  <1>10. AlertTypes'
    BY <1>1, <1>2, <1>4, <1>8 DEF AlertTypes
  <1>11. RowsExact'
    BY <1>1, <1>2, <1>8, <1>9 DEF RowsExact, RowExact, Alerts!Open
  <1>12. EventsKept'
    BY <1>1, <1>2, <1>8, <1>9 DEF EventsKept, Alerts!Open
  <1>13. Chained'
    BY <1>1, <1>8, <1>9 DEF Chained, Alerts!Open
  <1>14. DispatchersExact'
    BY <1>1, <1>2, <1>4, <1>5, <1>8, <1>9 DEF DispatchersExact, Alerts!OneRunner, AtCommand
  <1> QED BY <1>10, <1>11, <1>12, <1>13, <1>14 DEF AlertInv

\* A delivery is delivered again only at the end of its chain, and the chain goes on
\* with the new one.
LEMMA RedeliverStep ==
  ASSUME AlertInv, NEW r \in DOMAIN deliveries, Alerts!Redeliver(r)
  PROVE  AlertInv'
  <1>1. AlertTypes /\ RowsExact /\ EventsKept /\ DispatchersExact /\ Chained
    BY DEF AlertInv
  <1>2. /\ redelivered' = redelivered + 1 /\ redelivered < MaxRedeliver
        /\ UNCHANGED <<enabled, old, purged, procs>>
        /\ deliveries[r].state \notin Alerts!Open
        /\ deliveries[r].event \notin purged
        /\ \A q \in DOMAIN deliveries : deliveries[q].of # r
    BY DEF Alerts!Redeliver, Alerts!Live, Alerts!Rows, Alerts!Open
  <1> DEFINE n == Len(deliveries) + 1
             row == Alerts!Fresh(deliveries[r].event, deliveries[r].backend, r)
  <1>3. /\ Len(deliveries) \in Nat /\ DOMAIN deliveries = 1..Len(deliveries)
        /\ r \in 0..Alerts!MaxRows /\ MaxTries \in Nat \ {0} /\ MaxRedeliver \in Nat
    BY <1>1, RowsBounded, AlertConstants
  <1>4. deliveries[r] \in Alerts!Delivery
    BY <1>1 DEF AlertTypes
  <1>5. /\ row \in Alerts!Delivery /\ row.event = deliveries[r].event /\ row.backend = deliveries[r].backend
        /\ row.of = r /\ row.state = "pending" /\ row.claim = None /\ row.attempts = 0
    BY <1>3, <1>4 DEF Alerts!Fresh, Alerts!Delivery, Alerts!Open
  <1>6. /\ deliveries' = Append(deliveries, row)
        /\ runs' = Append(runs, 0) /\ shown' = Append(shown, 0)
    BY DEF Alerts!Redeliver
  <1> HIDE DEF row
  <1>7. /\ deliveries' \in Seq(Alerts!Delivery) /\ Len(deliveries') = n
        /\ DOMAIN deliveries' = 1..n /\ n \notin DOMAIN deliveries
        /\ deliveries'[n] = row /\ \A q \in DOMAIN deliveries : q < n /\ deliveries'[q] = deliveries[q]
    BY <1>1, <1>3, <1>5, <1>6 DEF AlertTypes
  <1>8. /\ runs' \in Seq(Nat) /\ Len(runs') = n /\ runs'[n] = 0
        /\ shown' \in Seq(Nat) /\ Len(shown') = n /\ shown'[n] = 0
        /\ \A q \in DOMAIN deliveries : runs'[q] = runs[q] /\ shown'[q] = shown[q]
    BY <1>1, <1>3, <1>6 DEF AlertTypes
  <1>9. /\ DOMAIN deliveries' = DOMAIN deliveries \cup {n}
        /\ \A q \in DOMAIN deliveries : q \in Nat /\ q < n
    BY <1>3, <1>7
  <1>10. AlertTypes'
    <2>1. Len(deliveries) <= Len(old) * Cardinality(Backends) + redelivered
      BY <1>1 DEF AlertTypes
    <2>2. Len(old) \in Nat /\ Cardinality(Backends) \in Nat /\ redelivered \in 0..MaxRedeliver
      BY <1>1, AlertConstants DEF AlertTypes
    <2>3. PICK k \in Nat : k = Len(old) * Cardinality(Backends)
      BY <2>2
    <2>4. n <= k + redelivered'
      BY <1>2, <1>3, <2>1, <2>2, <2>3
    <2>5. Len(deliveries') <= Len(old') * Cardinality(Backends) + redelivered' /\ redelivered' \in 0..MaxRedeliver
      BY <1>2, <1>3, <1>7, <2>2, <2>3, <2>4
    <2> QED BY <1>1, <1>2, <1>7, <1>8, <2>5 DEF AlertTypes
  <1> HIDE DEF n
  <1>11. RowExact(row, 0, 0)
    BY <1>3, <1>5 DEF RowExact
  <1>12. RowsExact'
    <2>1. \A q \in DOMAIN deliveries : RowExact(deliveries'[q], runs'[q], shown'[q])
      BY <1>1, <1>7, <1>8 DEF RowsExact
    <2>2. RowExact(deliveries'[n], runs'[n], shown'[n])
      BY <1>7, <1>8, <1>11
    <2>3. \A q \in DOMAIN deliveries' : RowExact(deliveries'[q], runs'[q], shown'[q])
      BY <1>9, <2>1, <2>2
    <2> QED BY <2>3 DEF RowsExact, RowExact
  <1>13. EventsKept'
    BY <1>1, <1>2, <1>5, <1>7, <1>9 DEF EventsKept
  <1>14. DispatchersExact'
    <2>1. \A q \in Alerts!Procs : procs[q].pc \in AtCommand \cup {"claimed"} =>
            /\ procs[q].row \in DOMAIN deliveries
            /\ deliveries'[procs[q].row] = deliveries[procs[q].row]
            /\ shown'[procs[q].row] = shown[procs[q].row]
      BY <1>1, <1>7, <1>8 DEF DispatchersExact
    <2> QED BY <1>1, <1>2, <1>9, <2>1 DEF DispatchersExact, Alerts!OneRunner, AtCommand
  <1>15. \A q \in DOMAIN deliveries :
           deliveries[q].event = row.event /\ deliveries[q].backend = row.backend =>
             deliveries[q].state \notin Alerts!Open /\ \E s \in DOMAIN deliveries' : deliveries'[s].of = q
    <2> SUFFICES ASSUME NEW q \in DOMAIN deliveries,
                        deliveries[q].event = row.event, deliveries[q].backend = row.backend
                 PROVE  deliveries[q].state \notin Alerts!Open /\ \E s \in DOMAIN deliveries' : deliveries'[s].of = q
      OBVIOUS
    <2>1. CASE q = r
      BY <1>2, <1>5, <1>7, <1>9, <2>1
    <2>2. CASE q < r
      <3>1. deliveries[q].state \notin Alerts!Open
        BY <1>1, <1>5, <2>2 DEF Chained
      <3>2. PICK s \in DOMAIN deliveries : deliveries[s].of = q
        BY <1>1, <1>5, <2>2 DEF Chained
      <3>3. s \in DOMAIN deliveries' /\ deliveries'[s].of = q
        BY <1>7, <1>9, <3>2
      <3> QED BY <3>1, <3>3
    <2>3. ~(r < q)
      BY <1>1, <1>2, <1>5 DEF Chained
    <2> QED BY <1>3, <2>1, <2>2, <2>3
  <1>16. Chained'
    <2> SUFFICES ASSUME NEW q \in DOMAIN deliveries', NEW t \in DOMAIN deliveries',
                        deliveries'[q].event = deliveries'[t].event, deliveries'[q].backend = deliveries'[t].backend, q < t
                 PROVE  deliveries'[q].state \notin Alerts!Open /\ \E s \in DOMAIN deliveries' : deliveries'[s].of = q
      BY DEF Chained
    <2>1. q \in DOMAIN deliveries
      BY <1>3, <1>7, <1>9 DEF n
    <2>2. CASE t = n
      BY <1>7, <1>15, <2>1, <2>2
    <2>3. CASE t \in DOMAIN deliveries
      BY <1>1, <1>7, <1>9, <2>1, <2>3 DEF Chained
    <2> QED BY <1>9, <2>2, <2>3
  <1> QED BY <1>10, <1>12, <1>13, <1>14, <1>16 DEF AlertInv

\* The rows of an event: one for each backend, in some order.
LEMMA RowsForBackends ==
  ASSUME NEW e, NEW bs \in SUBSET Backends
  PROVE  /\ Cardinality(bs) \in Nat /\ Cardinality(bs) <= Cardinality(Backends)
         /\ \E order \in [1..Cardinality(bs) -> bs] :
              /\ \A i, j \in 1..Cardinality(bs) : order[i] = order[j] => i = j
              /\ Alerts!RowsFor(e, bs) = [i \in 1..Cardinality(bs) |-> Alerts!Fresh(e, order[i], 0)]
  <1> DEFINE n == Alerts!Cardinality(bs)
             first == CHOOSE f \in [1..n -> bs] : \A b \in bs : \E i \in 1..n : f[i] = b
  <1>1. IsFiniteSet(bs) /\ n <= Cardinality(Backends) /\ n \in Nat
    BY AlertConstants, SameCount, FS_Subset, FS_CardinalityType
  <1>2. ExistsBijection(1..n, bs)
    BY <1>1, SameCount, FS_CardinalityType
  <1>3. \E f \in [1..n -> bs] : \A b \in bs : \E i \in 1..n : f[i] = b
    BY <1>2 DEF ExistsBijection, Bijection, Surjection
  <1>4. first \in [1..n -> bs] /\ \A b \in bs : \E i \in 1..n : first[i] = b
    BY <1>3
  <1>5. first \in Surjection(1..n, bs)
    BY <1>4 DEF Surjection
  <1>6. IsFiniteSet(1..n) /\ Cardinality(1..n) = n
    BY <1>1, FS_Interval
  <1>7. first \in Injection(1..n, bs)
    BY <1>5, <1>6, SameCount, FS_SurjSameCardinalityImpliesInj
  <1>8. \A i, j \in 1..n : first[i] = first[j] => i = j
    BY <1>7 DEF Injection, IsInjective
  <1>9. Alerts!RowsFor(e, bs) = [i \in 1..n |-> Alerts!Fresh(e, first[i], 0)]
    BY DEF Alerts!RowsFor
  <1>10. n = Cardinality(bs)
    BY SameCount DEF n
  <1> HIDE DEF n, first
  <1> QED BY <1>1, <1>4, <1>8, <1>9, <1>10

\* What is in two sequences one after the other.
LEMMA Concatenated ==
  ASSUME NEW S, NEW s \in Seq(S), NEW t \in Seq(S)
  PROVE  /\ s \o t \in Seq(S) /\ Len(s \o t) = Len(s) + Len(t)
         /\ \A q \in 1..Len(s) : (s \o t)[q] = s[q]
         /\ \A q \in (Len(s) + 1)..(Len(s) + Len(t)) : q - Len(s) \in 1..Len(t) /\ (s \o t)[q] = t[q - Len(s)]
  <1>1. s \o t \in Seq(S)
    OBVIOUS
  <1>2. Len(s \o t) = Len(s) + Len(t)
    OBVIOUS
  <1>3. \A q \in 1..Len(s) : (s \o t)[q] = s[q]
    OBVIOUS
  <1>4. \A q \in (Len(s) + 1)..(Len(s) + Len(t)) : q - Len(s) \in 1..Len(t) /\ (s \o t)[q] = t[q - Len(s)]
    OBVIOUS
  <1> QED BY <1>1, <1>2, <1>3, <1>4

\* The histories of new rows begin with nothing.
LEMMA ZerosAdded ==
  ASSUME NEW s \in Seq(Nat), NEW zeros \in Seq(Nat), \A i \in 1..Len(zeros) : zeros[i] = 0
  PROVE  /\ s \o zeros \in Seq(Nat) /\ Len(s \o zeros) = Len(s) + Len(zeros)
         /\ \A q \in 1..Len(s) : (s \o zeros)[q] = s[q]
         /\ \A q \in (Len(s) + 1)..(Len(s) + Len(zeros)) : (s \o zeros)[q] = 0
  <1>1. s \o zeros \in Seq(Nat) /\ Len(s \o zeros) = Len(s) + Len(zeros)
    OBVIOUS
  <1>2. \A q \in 1..Len(s) : (s \o zeros)[q] = s[q]
    OBVIOUS
  <1>3. \A q \in (Len(s) + 1)..(Len(s) + Len(zeros)) : (s \o zeros)[q] = 0
    OBVIOUS
  <1> QED BY <1>1, <1>2, <1>3

LEMMA AlertStep ==
  ASSUME AlertInv, Alerts!Alert
  PROVE  AlertInv'
  <1>1. AlertTypes /\ RowsExact /\ EventsKept /\ DispatchersExact /\ Chained
    BY DEF AlertInv
  <1>2. PICK e \in Nat : e = Len(old) + 1
    BY <1>1 DEF AlertTypes
  <1>3. PICK n \in Nat : n = Len(deliveries)
    BY <1>1 DEF AlertTypes
  <1>4. PICK k \in Nat : k = Cardinality(enabled) /\ k <= Cardinality(Backends)
    BY <1>1, RowsForBackends DEF AlertTypes
  <1>5. PICK order \in [1..k -> enabled] :
          /\ \A i, j \in 1..k : order[i] = order[j] => i = j
          /\ Alerts!RowsFor(e, enabled) = [i \in 1..k |-> Alerts!Fresh(e, order[i], 0)]
    <2>1. enabled \in SUBSET Backends
      BY <1>1 DEF AlertTypes
    <2>2. \E order \in [1..Cardinality(enabled) -> enabled] :
            /\ \A i, j \in 1..Cardinality(enabled) : order[i] = order[j] => i = j
            /\ Alerts!RowsFor(e, enabled) = [i \in 1..Cardinality(enabled) |-> Alerts!Fresh(e, order[i], 0)]
      BY <2>1, RowsForBackends
    <2> QED BY <1>4, <2>2
  <1>6. PICK new : new = [i \in 1..k |-> Alerts!Fresh(e, order[i], 0)]
    OBVIOUS
  <1>7. /\ Len(old) < MaxAlerts /\ old' = Append(old, FALSE)
        /\ deliveries' = deliveries \o new
        /\ runs' = runs \o [i \in 1..k |-> 0] /\ shown' = shown \o [i \in 1..k |-> 0]
        /\ UNCHANGED <<enabled, purged, procs, redelivered>>
    BY <1>2, <1>4, <1>5, <1>6, SameCount DEF Alerts!Alert
  <1>8. /\ Len(old) \in Nat /\ DOMAIN old = 1..Len(old) /\ DOMAIN deliveries = 1..n
        /\ DOMAIN runs = 1..n /\ DOMAIN shown = 1..n /\ Alerts!MaxRows \in Nat
        /\ MaxTries \in Nat \ {0} /\ MaxAlerts \in Nat /\ Cardinality(Backends) \in Nat
    BY <1>1, <1>3, RowsBounded, AlertConstants
  <1>9. old' \in Seq(BOOLEAN) /\ Len(old') = e /\ DOMAIN old' = 1..e /\ e \in 1..MaxAlerts
    BY <1>1, <1>2, <1>7, <1>8 DEF AlertTypes
  <1>10. \A i \in 1..k :
           /\ new[i] \in Alerts!Delivery /\ new[i].event = e /\ new[i].backend = order[i]
           /\ new[i].state = "pending" /\ new[i].claim = None /\ new[i].attempts = 0
    <2> SUFFICES ASSUME NEW i \in 1..k
                 PROVE  /\ new[i] \in Alerts!Delivery /\ new[i].event = e /\ new[i].backend = order[i]
                        /\ new[i].state = "pending" /\ new[i].claim = None /\ new[i].attempts = 0
      OBVIOUS
    <2>1. order[i] \in Backends /\ new[i] = Alerts!Fresh(e, order[i], 0)
      BY <1>1, <1>6 DEF AlertTypes
    <2>2. 0 \in 0..Alerts!MaxRows /\ 0 \in 0..MaxTries
      BY <1>8
    <2> QED BY <1>9, <2>1, <2>2 DEF Alerts!Fresh, Alerts!Delivery, Alerts!Open
  <1>11. new \in Seq(Alerts!Delivery) /\ Len(new) = k
    BY <1>6, <1>10
  <1>12. PICK zeros : /\ zeros \in Seq(Nat) /\ Len(zeros) = k /\ \A i \in 1..Len(zeros) : zeros[i] = 0
                      /\ runs' = runs \o zeros /\ shown' = shown \o zeros
    <2>1. PICK z : z = [i \in 1..k |-> 0]
      OBVIOUS
    <2>2. z \in Seq(Nat) /\ Len(z) = k
      BY <2>1
    <2>3. \A i \in 1..Len(z) : z[i] = 0
      BY <2>1, <2>2
    <2>4. runs' = runs \o z /\ shown' = shown \o z
      BY <1>7, <2>1
    <2> QED BY <2>2, <2>3, <2>4
  <1>13. /\ deliveries' \in Seq(Alerts!Delivery) /\ Len(deliveries') = n + k /\ DOMAIN deliveries' = 1..(n + k)
         /\ \A q \in 1..n : deliveries'[q] = deliveries[q]
         /\ \A q \in (n + 1)..(n + k) : \E i \in 1..k : i = q - n /\ deliveries'[q] = new[i]
    <2>1. deliveries \in Seq(Alerts!Delivery)
      BY <1>1 DEF AlertTypes
    <2>2. /\ deliveries \o new \in Seq(Alerts!Delivery) /\ Len(deliveries \o new) = n + k
          /\ \A q \in 1..n : (deliveries \o new)[q] = deliveries[q]
          /\ \A q \in (n + 1)..(n + k) : q - n \in 1..k /\ (deliveries \o new)[q] = new[q - n]
      BY <1>3, <1>11, <2>1, Concatenated
    <2>3. /\ deliveries' \in Seq(Alerts!Delivery) /\ Len(deliveries') = n + k
          /\ \A q \in 1..n : deliveries'[q] = deliveries[q]
          /\ \A q \in (n + 1)..(n + k) : q - n \in 1..k /\ deliveries'[q] = new[q - n]
      BY <1>7, <2>2
    <2>4. DOMAIN deliveries' = 1..(n + k)
      BY <2>3
    <2> QED BY <2>3, <2>4
  <1>14. /\ runs' \in Seq(Nat) /\ Len(runs') = n + k
         /\ \A q \in 1..n : runs'[q] = runs[q]
         /\ \A q \in (n + 1)..(n + k) : runs'[q] = 0
    <2>1. runs \in Seq(Nat) /\ Len(runs) = n
      BY <1>1, <1>3 DEF AlertTypes
    <2>2. /\ runs \o zeros \in Seq(Nat) /\ Len(runs \o zeros) = Len(runs) + Len(zeros)
          /\ \A q \in 1..Len(runs) : (runs \o zeros)[q] = runs[q]
          /\ \A q \in (Len(runs) + 1)..(Len(runs) + Len(zeros)) : (runs \o zeros)[q] = 0
      BY <1>12, <2>1, ZerosAdded
    <2> QED BY <1>12, <2>1, <2>2
  <1>15. /\ shown' \in Seq(Nat) /\ Len(shown') = n + k
         /\ \A q \in 1..n : shown'[q] = shown[q]
         /\ \A q \in (n + 1)..(n + k) : shown'[q] = 0
    <2>1. shown \in Seq(Nat) /\ Len(shown) = n
      BY <1>1, <1>3 DEF AlertTypes
    <2>2. /\ shown \o zeros \in Seq(Nat) /\ Len(shown \o zeros) = Len(shown) + Len(zeros)
          /\ \A q \in 1..Len(shown) : (shown \o zeros)[q] = shown[q]
          /\ \A q \in (Len(shown) + 1)..(Len(shown) + Len(zeros)) : (shown \o zeros)[q] = 0
      BY <1>12, <2>1, ZerosAdded
    <2> QED BY <1>12, <2>1, <2>2
  <1>16. \A q \in 1..(n + k) : q \in 1..n \/ q \in (n + 1)..(n + k)
    OBVIOUS
  <1>17. AlertTypes'
    <2>1. n <= Len(old) * Cardinality(Backends) + redelivered /\ redelivered \in 0..MaxRedeliver /\ MaxRedeliver \in Nat
      BY <1>1, <1>3, AlertConstants DEF AlertTypes
    <2>2. PICK c \in Nat : c = Cardinality(Backends)
      BY <1>8
    <2>3. e * c = (e - 1) * c + c /\ (e - 1) * c \in Nat /\ e - 1 = Len(old)
      BY <1>2, <1>8
    <2>4. n + k <= e * c + redelivered
      <3>1. PICK x \in Nat : x = (e - 1) * c
        BY <2>3
      <3>2. n <= x + redelivered /\ k <= c /\ redelivered \in Nat
        BY <1>4, <2>1, <2>2, <2>3, <3>1
      <3>3. n + k <= (x + c) + redelivered
        BY <3>2
      <3> QED BY <2>3, <3>1, <3>3
    <2>5. Len(deliveries') <= Len(old') * Cardinality(Backends) + redelivered'
      BY <1>7, <1>9, <1>13, <2>2, <2>4
    <2>6. purged' \subseteq DOMAIN old'
      BY <1>1, <1>2, <1>7, <1>8, <1>9 DEF AlertTypes
    <2>7. Len(old') <= MaxAlerts
      BY <1>9
    <2> QED BY <1>1, <1>7, <1>9, <1>13, <1>14, <1>15, <2>1, <2>5, <2>6, <2>7 DEF AlertTypes
  <1>18. RowsExact'
    <2>1. \A q \in 1..n : RowExact(deliveries'[q], runs'[q], shown'[q])
      BY <1>1, <1>8, <1>13, <1>14, <1>15 DEF RowsExact
    <2>2. \A q \in (n + 1)..(n + k) : RowExact(deliveries'[q], runs'[q], shown'[q])
      <3> SUFFICES ASSUME NEW q \in (n + 1)..(n + k)
                   PROVE  RowExact(deliveries'[q], runs'[q], shown'[q])
        OBVIOUS
      <3>1. PICK i \in 1..k : deliveries'[q] = new[i]
        BY <1>13
      <3>2. deliveries'[q].state = "pending" /\ deliveries'[q].claim = None /\ deliveries'[q].attempts = 0
        BY <1>10, <3>1
      <3>3. runs'[q] = 0 /\ shown'[q] = 0
        BY <1>14, <1>15
      <3> QED BY <1>8, <3>2, <3>3 DEF RowExact
    <2>3. \A q \in DOMAIN deliveries' : RowExact(deliveries'[q], runs'[q], shown'[q])
      BY <1>13, <1>16, <2>1, <2>2
    <2> QED BY <2>3 DEF RowsExact, RowExact
  <1>19. EventsKept'
    <2>1. \A q \in 1..n : deliveries[q].event \in 1..Len(old)
      BY <1>1, <1>8 DEF EventsKept
    <2>2. e \notin purged
      BY <1>1, <1>2, <1>8 DEF AlertTypes
    <2>3. \A q \in 1..n : /\ deliveries'[q].event \in DOMAIN old'
                          /\ deliveries'[q].state \in Alerts!Open \cup {"delivery_unknown"} =>
                               deliveries'[q].event \notin purged'
      <3>1. DOMAIN old \subseteq DOMAIN old'
        BY <1>2, <1>8, <1>9
      <3> QED BY <1>1, <1>7, <1>8, <1>13, <3>1 DEF EventsKept
    <2>4. \A q \in (n + 1)..(n + k) : deliveries'[q].event = e
      BY <1>10, <1>13
    <2>5. e \in DOMAIN old'
      BY <1>9
    <2>6. \A q \in (n + 1)..(n + k) : /\ deliveries'[q].event \in DOMAIN old'
                                      /\ deliveries'[q].event \notin purged'
      BY <1>7, <2>2, <2>4, <2>5
    <2> QED BY <1>13, <1>16, <2>3, <2>6 DEF EventsKept
  <1>20. DispatchersExact'
    <2>1. \A q \in Alerts!Procs : procs[q].pc \in AtCommand \cup {"claimed"} =>
            /\ procs[q].row \in DOMAIN deliveries'
            /\ deliveries'[procs[q].row] = deliveries[procs[q].row]
            /\ shown'[procs[q].row] = shown[procs[q].row]
      BY <1>1, <1>8, <1>13, <1>15 DEF DispatchersExact
    <2> QED BY <1>1, <1>7, <2>1 DEF DispatchersExact, Alerts!OneRunner, AtCommand
  <1>21. Chained'
    <2> SUFFICES ASSUME NEW q \in DOMAIN deliveries', NEW t \in DOMAIN deliveries',
                        deliveries'[q].event = deliveries'[t].event, deliveries'[q].backend = deliveries'[t].backend, q < t
                 PROVE  deliveries'[q].state \notin Alerts!Open /\ \E s \in DOMAIN deliveries' : deliveries'[s].of = q
      BY DEF Chained
    <2>1. \A x \in 1..n : deliveries'[x].event \in 1..Len(old)
      BY <1>1, <1>8, <1>13 DEF EventsKept
    <2>2. \A x \in (n + 1)..(n + k) : deliveries'[x].event = e
      BY <1>10, <1>13
    <2>3. CASE t \in 1..n
      <3>1. q \in 1..n
        BY <1>13, <2>3
      <3>2. deliveries[q].state \notin Alerts!Open /\ \E s \in DOMAIN deliveries : deliveries[s].of = q
        BY <1>1, <1>8, <1>13, <2>3, <3>1 DEF Chained
      <3>3. PICK s \in 1..n : deliveries[s].of = q
        BY <1>8, <3>2
      <3>6. s \in DOMAIN deliveries' /\ deliveries'[s] = deliveries[s]
        BY <1>13
      <3>4. s \in DOMAIN deliveries' /\ deliveries'[s].of = q
        BY <3>3, <3>6
      <3>5. deliveries'[q].state \notin Alerts!Open
        BY <1>13, <3>1, <3>2
      <3> QED BY <3>4, <3>5
    <2>4. CASE t \in (n + 1)..(n + k)
      <3>1. q \in (n + 1)..(n + k)
        BY <1>2, <1>8, <1>13, <1>16, <2>1, <2>2, <2>4
      <3>2. PICK i \in 1..k : i = q - n /\ deliveries'[q] = new[i]
        BY <1>13, <3>1
      <3>3. PICK j \in 1..k : j = t - n /\ deliveries'[t] = new[j]
        BY <1>13, <2>4
      <3>4. order[i] = order[j]
        BY <1>10, <3>2, <3>3
      <3>5. i = j
        BY <1>5, <3>4
      <3> QED BY <2>4, <3>1, <3>2, <3>3, <3>5
    <2> QED BY <1>13, <1>16, <2>3, <2>4
  <1> QED BY <1>17, <1>18, <1>19, <1>20, <1>21 DEF AlertInv

LEMMA AlertNext == AlertInv /\ [Alerts!Next]_(Alerts!vars) => AlertInv'
  <1> SUFFICES ASSUME AlertInv, [Alerts!Next]_(Alerts!vars)
               PROVE  AlertInv'
    OBVIOUS
  <1>1. CASE UNCHANGED Alerts!vars
    BY <1>1, QuietStep
  <1>2. CASE Alerts!Alert
    BY <1>2, AlertStep
  <1>3. CASE \E e \in 1..MaxAlerts : Alerts!Purge(e) \/ Alerts!Age(e)
    BY <1>3, QuietStep
  <1>4. CASE \E r \in Alerts!Rows : Alerts!Due(r) \/ Alerts!Redeliver(r)
    BY <1>4, DueStep, RedeliverStep DEF Alerts!Rows
  <1>5. CASE \E c \in Configs : Alerts!StartDaemon(c)
    BY <1>5, StartDaemonStep
  <1>6. ASSUME NEW p \in Alerts!Procs, Alerts!Dispatch(p)
        PROVE  AlertInv'
    BY <1>6, ClaimStep, ExpireStep, ProcessStep, BeginStep, RecordStep, RunBackendStep DEF Alerts!Dispatch, Alerts!Rows
  <1>7. ASSUME NEW p \in Alerts!Procs,
               Alerts!Stop(p) \/ Alerts!EndCommand(p) \/ \E c \in Configs : Alerts!StartCommand(p, c)
        PROVE  AlertInv'
    BY <1>7, ProcessStep
  <1> QED BY <1>1, <1>2, <1>3, <1>4, <1>5, <1>6, <1>7 DEF Alerts!Next

LEMMA AlertInvExact == AlertInv => Alerts!Exact
  <1> SUFFICES ASSUME AlertInv PROVE Alerts!Exact
    OBVIOUS
  <1>1. AlertTypes /\ RowsExact /\ EventsKept /\ DispatchersExact /\ Chained
    BY DEF AlertInv
  <1>2. Alerts!TypeOK
    BY <1>1 DEF AlertTypes, RowsExact, RowExact, Alerts!TypeOK, Alerts!Rows
  <1>3. \A r \in DOMAIN deliveries : deliveries[r].attempts \in 0..MaxTries
    <2>1. \A r \in DOMAIN deliveries : deliveries[r] \in Alerts!Delivery
      BY <1>1 DEF AlertTypes
    <2> QED BY <2>1 DEF Alerts!Delivery
  <1>4. Alerts!ShownOnce /\ Alerts!AttemptsCounted
    BY <1>1, <1>3, AlertConstants DEF RowsExact, RowExact, Alerts!ShownOnce, Alerts!AttemptsCounted, Alerts!Rows, Alerts!Open
  <1>5. Alerts!OneRunner
    BY <1>1 DEF DispatchersExact
  <1>6. DOMAIN deliveries \subseteq Nat
    BY <1>1 DEF AlertTypes
  <1>7. Alerts!OneOpen
    <2> SUFFICES ASSUME NEW q \in DOMAIN deliveries, NEW r \in DOMAIN deliveries,
                        deliveries[q].event = deliveries[r].event, deliveries[q].backend = deliveries[r].backend,
                        deliveries[q].state \in Alerts!Open, deliveries[r].state \in Alerts!Open
                 PROVE  q = r
      BY DEF Alerts!OneOpen, Alerts!Live, Alerts!Rows
    <2>1. ~(q < r) /\ ~(r < q)
      BY <1>1 DEF Chained
    <2> QED BY <1>6, <2>1
  <1>8. Alerts!PurgeWaits
    BY <1>1 DEF DispatchersExact, EventsKept, AtCommand, Alerts!PurgeWaits, Alerts!Live, Alerts!Rows, Alerts!Open
  <1> QED BY <1>2, <1>4, <1>5, <1>7, <1>8 DEF Alerts!Exact

\* For any number of processes, backends, events and attempts, whatever dies and whoever
\* dispatches: an alert is shown at most once for each delivery, its commands are
\* counted, one process runs one of them, an event has one open delivery for each
\* backend and is not purged under a command (dispatch_once, recover_deliveries).
THEOREM AlertsExact == Alerts!Spec => []Alerts!Exact
  BY AlertInit, AlertNext, AlertInvExact, PTL DEF Alerts!Spec

\* The same for the behaviours of the host, of which the alerts are a part.
THEOREM HostNotifiesOnce == MCSpec => []NotifiedOnce
  <1>1. MCInit => Alerts!Init
    BY DEF MCInit
  <1>2. [MCNext]_<<part, vars, migrationVars, startVars, apiVars, alertVars>> => [Alerts!Next]_(Alerts!vars)
    BY DEF MCNext, alertVars, Alerts!vars
  <1>3. MCSpec => Alerts!Spec
    BY <1>1, <1>2, PTL DEF MCSpec, Alerts!Spec
  <1> QED BY <1>3, AlertsExact DEF NotifiedOnce
-----------------------------------------------------------------------------
(* The start of a daemon (DaemonStart).                                     *)

DaemonPcs == {"off", "lease", "probe", "remove", "bind", "chmod", "mark", "serve", "running", "lifetime"}
DaemonRow == [pc : DaemonPcs, once : BOOLEAN]

StartTypes ==
  /\ d \in [Daemons -> DaemonRow] /\ lock \in Daemons \cup {None} /\ listens \in [Daemons -> Nat]
  /\ sock.by \in Daemons \cup {None} /\ sock.mode \in {"none", "umask", "0600"}
  /\ sock = [by |-> sock.by, mode |-> sock.mode, nr |-> sock.nr]
  /\ started \in Daemons \cup {None} /\ starts \in 0..MaxStarts

\* The lease is held from Acquire to the end of the process.
LeaseHeld == \A x \in Daemons : d[x].pc \notin {"off", "lease"} <=> lock = x

\* A listener is open between Bind and the end of the server only, and the path leads to it.
ListenerOpen ==
  \A x \in Daemons : listens[x] # 0 =>
    d[x].pc \in {"chmod", "mark", "serve", "running"} /\ sock.by = x /\ sock.nr = listens[x]

StartInv == StartTypes /\ LeaseHeld /\ ListenerOpen

LEMMA DaemonConstants == None \notin Daemons /\ MaxStarts \in Nat
  BY StartAssumption DEF Starting!ConstantsOK

LEMMA StartInit == Starting!Init => StartInv
  <1> SUFFICES ASSUME Starting!Init PROVE StartInv
    OBVIOUS
  <1>1. Starting!Off \in DaemonRow /\ Starting!Off.pc = "off"
    BY DEF Starting!Off, DaemonRow, DaemonPcs
  <1>2. StartTypes
    BY <1>1, DaemonConstants DEF Starting!Init, Starting!NoSocket, StartTypes
  <1>3. LeaseHeld /\ ListenerOpen
    BY <1>1, DaemonConstants DEF Starting!Init, LeaseHeld, ListenerOpen
  <1> QED BY <1>2, <1>3 DEF StartInv

\* The end of a process ends its lease and its listener.
LEMMA ExitKeeps ==
  ASSUME StartInv, NEW x \in Daemons, Starting!Exit(x), UNCHANGED <<sock, starts>>, UNCHANGED started
  PROVE  StartInv'
  <1>1. Starting!Off \in DaemonRow /\ Starting!Off.pc = "off"
    BY DEF Starting!Off, DaemonRow, DaemonPcs
  <1>2. /\ d' = [d EXCEPT ![x] = Starting!Off] /\ lock' = (IF lock = x THEN None ELSE lock)
        /\ listens' = [listens EXCEPT ![x] = 0]
    BY DEF Starting!Exit
  <1>3. StartTypes'
    BY <1>1, <1>2 DEF StartInv, StartTypes
  <1>4. LeaseHeld'
    BY <1>1, <1>2, DaemonConstants DEF StartInv, StartTypes, LeaseHeld
  <1>5. ListenerOpen'
    BY <1>1, <1>2 DEF StartInv, StartTypes, ListenerOpen
  <1> QED BY <1>3, <1>4, <1>5 DEF StartInv

\* A step of a daemon that has the lease and keeps it.
LEMMA HolderKeeps ==
  ASSUME StartInv, NEW x \in Daemons, NEW pc \in DaemonPcs \ {"off", "lease"}, Starting!Goto(x, pc),
         d[x].pc \notin {"off", "lease"}, UNCHANGED lock, starts' = starts, started' \in Daemons \cup {None},
         listens' \in [Daemons -> Nat], \A y \in Daemons : y # x => listens'[y] = listens[y],
         listens'[x] # 0 => pc \in {"chmod", "mark", "serve", "running"} /\ sock'.by = x /\ sock'.nr = listens'[x],
         sock'.by \in Daemons \cup {None}, sock'.mode \in {"none", "umask", "0600"},
         sock' = [by |-> sock'.by, mode |-> sock'.mode, nr |-> sock'.nr]
  PROVE  StartInv'
  <1>1. /\ d' \in [Daemons -> DaemonRow] /\ d'[x].pc = pc /\ \A y \in Daemons : y # x => d'[y] = d[y]
    BY DEF StartInv, StartTypes, Starting!Goto, DaemonRow
  <1>2. lock = x /\ \A y \in Daemons : y # x => d[y].pc \in {"off", "lease"} /\ listens[y] = 0
    BY DEF StartInv, LeaseHeld, ListenerOpen
  <1>3. StartTypes'
    BY <1>1 DEF StartInv, StartTypes
  <1>4. LeaseHeld'
    BY <1>1, <1>2 DEF StartInv, LeaseHeld
  <1>5. ListenerOpen'
    BY <1>1, <1>2 DEF ListenerOpen
  <1> QED BY <1>3, <1>4, <1>5 DEF StartInv

\* What a daemon with the lease knows of the listeners.
LEMMA HolderListens ==
  ASSUME StartInv, NEW x \in Daemons, d[x].pc \notin {"off", "lease"}
  PROVE  /\ lock = x /\ listens \in [Daemons -> Nat]
         /\ listens[x] # 0 => d[x].pc \in {"chmod", "mark", "serve", "running"} /\ sock.by = x /\ sock.nr = listens[x]
         /\ sock.by \in Daemons \cup {None} /\ sock.mode \in {"none", "umask", "0600"}
         /\ sock = [by |-> sock.by, mode |-> sock.mode, nr |-> sock.nr]
         /\ started \in Daemons \cup {None}
  BY DEF StartInv, StartTypes, LeaseHeld, ListenerOpen

LEMMA StartDaemonKeeps ==
  ASSUME StartInv, NEW x \in Daemons, NEW once \in BOOLEAN, Starting!StartDaemon(x, once)
  PROVE  StartInv'
  <1>1. /\ d[x].pc = "off" /\ d' = [d EXCEPT ![x] = [pc |-> "lease", once |-> once]] /\ starts < MaxStarts
        /\ starts' = starts + 1 /\ UNCHANGED <<lock, sock, listens, started>>
    BY DEF Starting!StartDaemon, Starting!Opened
  <1>2. [pc |-> "lease", once |-> once] \in DaemonRow
    BY DEF DaemonRow, DaemonPcs
  <1>3. d' \in [Daemons -> DaemonRow] /\ d'[x].pc = "lease" /\ \A y \in Daemons : y # x => d'[y] = d[y]
    BY <1>1, <1>2 DEF StartInv, StartTypes
  <1>4. starts' \in 0..MaxStarts
    BY <1>1, DaemonConstants DEF StartInv, StartTypes
  <1>5. StartTypes'
    BY <1>1, <1>3, <1>4 DEF StartInv, StartTypes
  <1>6. LeaseHeld' /\ ListenerOpen'
    BY <1>1, <1>3 DEF StartInv, LeaseHeld, ListenerOpen
  <1> QED BY <1>5, <1>6 DEF StartInv

LEMMA AcquireKeeps ==
  ASSUME StartInv, NEW x \in Daemons, Starting!Acquire(x)
  PROVE  StartInv'
  <1>1. CASE lock = None
    <2>1. /\ d[x].pc = "lease" /\ lock' = x /\ d' = [d EXCEPT ![x].pc = "probe"]
          /\ UNCHANGED <<listens, sock, started, starts>>
      BY <1>1 DEF Starting!Acquire, Starting!Goto
    <2>2. d' \in [Daemons -> DaemonRow] /\ d'[x].pc = "probe" /\ \A y \in Daemons : y # x => d'[y] = d[y]
      BY <2>1 DEF StartInv, StartTypes, DaemonRow, DaemonPcs
    <2>3. \A y \in Daemons : d[y].pc \in {"off", "lease"}
      BY <1>1, DaemonConstants DEF StartInv, LeaseHeld
    <2>4. StartTypes'
      BY <2>1, <2>2 DEF StartInv, StartTypes
    <2>5. LeaseHeld' /\ ListenerOpen'
      BY <2>1, <2>2, <2>3 DEF StartInv, LeaseHeld, ListenerOpen
    <2> QED BY <2>4, <2>5 DEF StartInv
  <1>2. CASE lock # None
    BY <1>2, ExitKeeps DEF Starting!Acquire
  <1> QED BY <1>1, <1>2

LEMMA ProbeKeeps ==
  ASSUME StartInv, NEW x \in Daemons, Starting!Probe(x)
  PROVE  StartInv'
  <1>1. CASE sock = Starting!NoSocket \/ (sock.mode = "0600" /\ ~Starting!Live)
    <2>1. d[x].pc = "probe" /\ Starting!Goto(x, "remove") /\ UNCHANGED <<lock, listens, sock, started, starts>>
      BY <1>1 DEF Starting!Probe
    <2> QED BY <2>1, HolderListens, HolderKeeps DEF DaemonPcs
  <1>2. CASE ~(sock = Starting!NoSocket \/ (sock.mode = "0600" /\ ~Starting!Live))
    BY <1>2, ExitKeeps DEF Starting!Probe
  <1> QED BY <1>1, <1>2

LEMMA RemoveKeeps ==
  ASSUME StartInv, NEW x \in Daemons, Starting!Remove(x)
  PROVE  StartInv'
  <1>1. /\ d[x].pc = "remove" /\ sock' = [by |-> None, mode |-> "none", nr |-> 0] /\ Starting!Goto(x, "bind")
        /\ UNCHANGED <<lock, listens, started, starts>>
    BY DEF Starting!Remove, Starting!NoSocket
  <1>2. listens[x] = 0
    BY <1>1, HolderListens
  <1> QED BY <1>1, <1>2, HolderListens, HolderKeeps DEF DaemonPcs

LEMMA BindKeeps ==
  ASSUME StartInv, NEW x \in Daemons, Starting!Bind(x)
  PROVE  StartInv'
  <1>1. CASE sock = Starting!NoSocket
    <2>1. /\ d[x].pc = "bind" /\ sock' = [by |-> x, mode |-> "umask", nr |-> starts] /\ Starting!Goto(x, "chmod")
          /\ listens' = [listens EXCEPT ![x] = starts] /\ UNCHANGED <<lock, started, starts>>
      BY <1>1 DEF Starting!Bind
    <2>2. starts \in Nat
      BY DEF StartInv, StartTypes
    <2>3. listens' \in [Daemons -> Nat] /\ listens'[x] = starts /\ \A y \in Daemons : y # x => listens'[y] = listens[y]
      BY <2>1, <2>2, HolderListens
    <2> QED BY <2>1, <2>3, HolderListens, HolderKeeps DEF DaemonPcs
  <1>2. CASE sock # Starting!NoSocket
    BY <1>2, ExitKeeps DEF Starting!Bind
  <1> QED BY <1>1, <1>2

LEMMA ChmodKeeps ==
  ASSUME StartInv, NEW x \in Daemons, Starting!Chmod(x)
  PROVE  StartInv'
  <1>1. /\ d[x].pc = "chmod" /\ sock' = [sock EXCEPT !.mode = "0600"] /\ Starting!Goto(x, "mark")
        /\ UNCHANGED <<lock, listens, started, starts>>
    BY DEF Starting!Chmod
  <1>2. sock' = [by |-> sock.by, mode |-> "0600", nr |-> sock.nr]
    BY <1>1, HolderListens
  <1> QED BY <1>1, <1>2, HolderListens, HolderKeeps DEF DaemonPcs

LEMMA MarkKeeps ==
  ASSUME StartInv, NEW x \in Daemons, Starting!Mark(x)
  PROVE  StartInv'
  <1>1. d[x].pc = "mark" /\ started' = None /\ Starting!Goto(x, "serve") /\ UNCHANGED <<lock, sock, listens, starts>>
    BY DEF Starting!Mark
  <1> QED BY <1>1, HolderListens, HolderKeeps DEF DaemonPcs

LEMMA ServeKeeps ==
  ASSUME StartInv, NEW x \in Daemons, Starting!Serve(x)
  PROVE  StartInv'
  <1>1. /\ d[x].pc = "serve" /\ listens' = [listens EXCEPT ![x] = IF d[x].once THEN 0 ELSE @]
        /\ Starting!Goto(x, "running") /\ UNCHANGED <<lock, sock, started, starts>>
    BY DEF Starting!Serve
  <1>2. listens' \in [Daemons -> Nat] /\ listens'[x] \in {0, listens[x]} /\ \A y \in Daemons : y # x => listens'[y] = listens[y]
    BY <1>1, HolderListens
  <1> QED BY <1>1, <1>2, HolderListens, HolderKeeps DEF DaemonPcs

LEMMA UnwindKeeps ==
  ASSUME StartInv, NEW x \in Daemons, Starting!Unwind(x)
  PROVE  StartInv'
  <1>1. CASE d[x].pc = "running"
    <2>1. /\ listens' = [listens EXCEPT ![x] = 0] /\ Starting!Goto(x, "lifetime") /\ UNCHANGED <<lock, sock, started, starts>>
      BY <1>1 DEF Starting!Unwind
    <2>2. listens' \in [Daemons -> Nat] /\ listens'[x] = 0 /\ \A y \in Daemons : y # x => listens'[y] = listens[y]
      BY <1>1, <2>1, HolderListens
    <2> QED BY <1>1, <2>1, <2>2, HolderListens, HolderKeeps DEF DaemonPcs
  <1>2. CASE d[x].pc # "running"
    BY <1>2, ExitKeeps DEF Starting!Unwind
  <1> QED BY <1>1, <1>2

LEMMA StartNext == StartInv /\ [Starting!Next]_startVars => StartInv'
  <1> SUFFICES ASSUME StartInv, [Starting!Next]_startVars PROVE StartInv'
    OBVIOUS
  <1>1. CASE UNCHANGED startVars
    BY <1>1 DEF startVars, StartInv, StartTypes, LeaseHeld, ListenerOpen
  <1>2. ASSUME NEW x \in Daemons, Starting!Deliver(x) \/ Starting!Delivered(x)
        PROVE  StartInv'
    BY <1>2 DEF Starting!Deliver, Starting!Delivered, StartInv, StartTypes, LeaseHeld, ListenerOpen
  <1>3. ASSUME NEW x \in Daemons, Starting!Kill(x)
        PROVE  StartInv'
    BY <1>3, ExitKeeps DEF Starting!Kill
  <1> QED BY <1>1, <1>2, <1>3, StartDaemonKeeps, AcquireKeeps, ProbeKeeps, RemoveKeeps, BindKeeps, ChmodKeeps, MarkKeeps,
             ServeKeeps, UnwindKeeps DEF Starting!Next, Starting!Step

LEMMA StartInvSays == StartInv => Starting!TypeOK /\ Starting!OneDaemon /\ Starting!PathKept
  <1> SUFFICES ASSUME StartInv PROVE Starting!TypeOK /\ Starting!OneDaemon /\ Starting!PathKept
    OBVIOUS
  <1>1. Starting!TypeOK
    BY DEF StartInv, StartTypes, LeaseHeld, DaemonRow, DaemonPcs, Starting!TypeOK
  <1>2. Starting!OneDaemon
    BY DEF StartInv, LeaseHeld, ListenerOpen, Starting!OneDaemon, Starting!Busy
  <1>3. Starting!PathKept
    BY DEF StartInv, ListenerOpen, Starting!PathKept
  <1> QED BY <1>1, <1>2, <1>3

\* Two daemons are not at work at once, so that what is marked or delivered is one's own or a dead daemon's.
LEMMA DeliveryStep ==
  ASSUME StartInv, Starting!Next, NEW x \in Daemons, started = x, d[x].pc = "running", started' # x
  PROVE  Starting!Delivered(x)
  <1>1. \A y \in Daemons : ~Starting!Mark(y)
    BY DEF StartInv, LeaseHeld, Starting!Mark
  <1>2. \A y \in Daemons : ~Starting!Deliver(y)
    BY DaemonConstants DEF Starting!Deliver
  <1>3. PICK y \in Daemons : Starting!Delivered(y)
    BY <1>1, <1>2 DEF Starting!Next, Starting!Step, Starting!StartDaemon, Starting!Opened, Starting!Acquire, Starting!Probe,
       Starting!Remove, Starting!Bind, Starting!Chmod, Starting!Serve, Starting!Unwind, Starting!Kill
  <1>4. y = x
    BY <1>3 DEF Starting!Delivered
  <1> QED BY <1>3, <1>4

\* DaemonsAlone: of any number of daemons that are started beside each other and killed at any step one serves, the
\* path leads to it, and no delivery of a daemon that lives is taken for abandoned (DaemonApiLease, run_daemon).
THEOREM DaemonsAlone == MCSpec => DaemonExact
  <1>1. MCInit => StartInv
    BY StartInit DEF MCInit
  <1>2. [MCNext]_<<part, vars, migrationVars, startVars, apiVars, alertVars>> => [Starting!Next]_startVars
    BY DEF MCNext
  <1>3. StartInv /\ [Starting!Next]_startVars =>
          [\A x \in Daemons : started = x /\ d[x].pc = "running" /\ started' # x => Starting!Delivered(x)]_(Starting!vars)
    BY DeliveryStep DEF startVars, Starting!vars
  <1> QED BY <1>1, <1>2, <1>3, StartNext, StartInvSays, PTL DEF MCSpec, DaemonExact, Starting!Exact, Starting!DeliveryKept

-----------------------------------------------------------------------------
(* The migration of the database (DatabaseMigration).                       *)

CommandPcs == {"idle", "recover", "mark", "forget", "inspect", "copy", "backup", "replace", "convert",
               "prepare", "exchange", "exchanged", "validate", "remove", "complete", "finish", "done"}

\* The lease is held by the one command under way, and not beside a daemon.
CommandAlone ==
  /\ \A p \in Commands : command[p].pc \notin {"idle", "done"} <=> holder = p
  /\ inUse => holder = None

\* A command migrates from the schema there was or from one that migration passes.
Fits(v) == v \in IF origin = 3 THEN {3} ELSE origin..5
CommandFits == \A p \in Commands : Fits(command[p].want) /\ Fits(command[p].cmd)

\* What is on disk.  A database in use is current; a source that came back was preceded by a damage; the publication
\* state names the backup there is; the source is at hand when the published file cannot be read.
FilesExact ==
  /\ inUse \/ db.work > 0 => db.schema = 6
  /\ stamp <= 1 + damages /\ (db.schema = 0 => stamp <= damages)
  /\ IF origin = 3
       THEN /\ db.schema \in {0, 3, 6}
            /\ db.schema = 6 => backup[3] = stamp
            /\ db.schema = 0 => cand = 3 /\ pub # None
            /\ pub # None => backup[3] = pub.stamp /\ (db.schema = 6 => cand \in {3, None})
       ELSE /\ pub = None /\ db.schema \in origin..6
            /\ db.schema > origin => backup[origin] # 0
            /\ db.schema = 6 => backup[5] # 0

\* Where a command from schema 3 is: the source is in the candidate directory from the exchange until the published
\* file is validated, and the publication state tells of it.
FromThree(p) ==
  /\ command[p].pc = "mark" => pub # None /\ db.schema = 6 /\ cand = None
  /\ command[p].pc = "forget" => pub # None /\ db.schema = 3
  /\ command[p].pc = "inspect" /\ pub # None => db.schema = 6 /\ pub.phase = "complete"
  /\ command[p].pc \in {"copy", "backup", "replace", "convert", "prepare"} => pub = None /\ db.schema = 3
  /\ command[p].pc \in {"convert", "prepare", "exchange"} => backup[3] = stamp
  /\ command[p].pc \in {"prepare", "exchange"} => cand = 6
  /\ command[p].pc = "exchange" => pub # None /\ db.schema = 3
  /\ command[p].pc \in {"exchanged", "validate"} =>
       pub # None /\ db.schema \in {0, 6} /\ cand = 3 /\ backup[3] = stamp
  /\ command[p].pc = "remove" => pub # None /\ pub.phase = "validated" /\ db.schema = 6 /\ cand = 3
  /\ command[p].pc \in {"complete", "finish"} => pub # None /\ db.schema = 6 /\ cand = None

\* Where a command from schema 4 or 5 is: it has its backup before it converts.
Result(v) == IF v = 4 THEN 5 ELSE 6
FromFour(p) ==
  /\ command[p].pc \notin {"recover", "mark", "forget", "replace", "prepare", "exchanged", "complete"}
  /\ command[p].pc \in {"backup", "copy", "convert", "exchange"} => db.schema = command[p].cmd
  /\ command[p].pc \in {"copy", "convert", "exchange", "validate"} => backup[command[p].cmd] # 0
  /\ command[p].pc = "exchange" => cand = Result(command[p].cmd)
  /\ command[p].pc = "validate" => cand = command[p].cmd /\ db.schema = Result(command[p].cmd) /\ db.work = 0

CommandExactly(p) == IF origin = 3 THEN FromThree(p) ELSE FromFour(p)

MigrationInv ==
  Migration!TypeOK /\ CommandAlone /\ CommandFits /\ FilesExact /\ \A p \in Commands : CommandExactly(p)

LEMMA MigrationConstants ==
  /\ MaxCommandStop \in Nat /\ MaxDamage \in Nat /\ MaxWork \in Nat
  /\ None \notin Commands /\ None \notin Migration!Pub /\ None \notin 0..6
  BY MigrationAssumption DEF Migration!ConstantsOK, Migration!Broken, Migration!Current

\* How a command moves on: to another step, with its lease, or to its end.
Moved(p, pc, v) ==
  /\ command' \in [Commands -> Migration!Proc]
  /\ command'[p].pc = pc /\ command'[p].cmd = v /\ command'[p].want = command[p].want
  /\ \A q \in Commands \ {p} : command'[q] = command[q]

LEMMA GotoMoves ==
  ASSUME Migration!TypeOK, NEW p \in Commands, NEW pc \in CommandPcs, Migration!Goto(p, pc)
  PROVE  Moved(p, pc, command[p].cmd)
  <1>1. command \in [Commands -> Migration!Proc]
    BY DEF Migration!TypeOK
  <1>2. command' = [command EXCEPT ![p] = [command[p] EXCEPT !.pc = pc]]
    BY DEF Migration!Goto
  <1>3. command[p] \in Migration!Proc
    BY <1>1
  <1>4. [command[p] EXCEPT !.pc = pc] \in Migration!Proc
    BY <1>3 DEF Migration!Proc, CommandPcs
  <1>5. /\ [command[p] EXCEPT !.pc = pc].pc = pc
        /\ [command[p] EXCEPT !.pc = pc].cmd = command[p].cmd
        /\ [command[p] EXCEPT !.pc = pc].want = command[p].want
    BY <1>3 DEF Migration!Proc
  <1>6. command'[p] = [command[p] EXCEPT !.pc = pc]
    BY <1>1, <1>2
  <1> QED BY <1>1, <1>2, <1>4, <1>5, <1>6 DEF Moved

LEMMA EndMoves ==
  ASSUME Migration!TypeOK, NEW p \in Commands, NEW pc \in CommandPcs, NEW v \in Migration!Source,
         command' = [command EXCEPT ![p].pc = pc, ![p].cmd = v]
  PROVE  Moved(p, pc, v)
  <1> DEFINE r == [command[p] EXCEPT !.pc = pc, !.cmd = v]
  <1>1. command \in [Commands -> Migration!Proc]
    BY DEF Migration!TypeOK
  <1>2. command' = [command EXCEPT ![p] = r]
    BY <1>1
  <1>3. command[p] \in Migration!Proc
    BY <1>1
  <1>4. r \in Migration!Proc /\ r.pc = pc /\ r.cmd = v /\ r.want = command[p].want
    BY <1>3 DEF Migration!Proc, CommandPcs
  <1> HIDE DEF r
  <1>5. command'[p] = r
    BY <1>1, <1>2
  <1> QED BY <1>1, <1>2, <1>4, <1>5 DEF Moved

\* The types of the files and of a command.
LEMMA FileTypes ==
  ASSUME Migration!TypeOK
  PROVE  /\ origin \in 3..5 /\ db.schema \in 0..6 /\ db.work \in 0..MaxWork /\ stamp \in 1..(1 + MaxDamage)
         /\ backup \in [3..5 -> 0..(1 + MaxDamage)] /\ damages \in 0..MaxDamage /\ damages \in Int
         /\ db = [schema |-> db.schema, work |-> db.work]
         /\ \A p \in Commands : command[p].cmd \in 3..5 /\ command[p].want \in 3..5 /\ command[p].pc \in CommandPcs
  <1>1. db \in [schema : {0, 6} \cup 3..5, work : 0..MaxWork]
    BY DEF Migration!TypeOK, Migration!Source, Migration!Broken, Migration!Current
  <1>2. \A p \in Commands : command[p] \in Migration!Proc
    BY DEF Migration!TypeOK
  <1>3. \A p \in Commands : command[p].cmd \in 3..5 /\ command[p].want \in 3..5 /\ command[p].pc \in CommandPcs
    BY <1>2 DEF Migration!Proc, Migration!Source, CommandPcs
  <1>4. /\ origin \in 3..5 /\ stamp \in 1..(1 + MaxDamage)
        /\ backup \in [3..5 -> 0..(1 + MaxDamage)] /\ damages \in 0..MaxDamage
    BY DEF Migration!TypeOK, Migration!Source
  <1> QED BY <1>1, <1>3, <1>4, MigrationConstants

\* A command that moves to another step keeps its lease, and the others are not under way.
LEMMA StepKeeps ==
  ASSUME MigrationInv, NEW p \in Commands, holder = p, NEW pc \in CommandPcs \ {"idle", "done"},
         Moved(p, pc, command[p].cmd), UNCHANGED <<origin, holder, inUse>>
  PROVE  /\ CommandAlone' /\ CommandFits' /\ \A q \in Commands \ {p} : CommandExactly(q)'
         /\ CommandExactly(p)' => \A q \in Commands : CommandExactly(q)'
  <1>1. CommandAlone'
    BY MigrationConstants DEF MigrationInv, CommandAlone, Moved
  <1>2. CommandFits'
    BY DEF MigrationInv, CommandFits, Fits, Moved
  <1>3. ASSUME NEW q \in Commands \ {p} PROVE CommandExactly(q)'
    <2>1. command'[q].pc \in {"idle", "done"}
      BY DEF MigrationInv, CommandAlone, Moved
    <2> QED BY <2>1 DEF CommandExactly, FromThree, FromFour
  <1> QED BY <1>1, <1>2, <1>3

\* A command that ends drops its lease, and no command is under way.
LEMMA EndKeeps ==
  ASSUME MigrationInv, NEW p \in Commands, holder = p, NEW pc \in {"idle", "done"}, NEW v \in Migration!Source, Fits(v),
         Moved(p, pc, v), UNCHANGED <<origin, inUse>>, holder' = None
  PROVE  CommandAlone' /\ CommandFits' /\ \A q \in Commands : CommandExactly(q)'
  <1>1. CommandAlone'
    BY MigrationConstants DEF MigrationInv, CommandAlone, Moved
  <1>2. CommandFits'
    BY DEF MigrationInv, CommandFits, Fits, Moved
  <1>3. ASSUME NEW q \in Commands PROVE CommandExactly(q)'
    <2>1. command'[q].pc \in {"idle", "done"}
      BY DEF MigrationInv, CommandAlone, Moved
    <2> QED BY <2>1 DEF CommandExactly, FromThree, FromFour
  <1> QED BY <1>1, <1>2, <1>3

LEMMA EndedKeeps ==
  ASSUME MigrationInv, NEW p \in Commands, holder = p, NEW pc \in {"idle", "done"}, Migration!Ended(p, pc),
         UNCHANGED <<origin, inUse>>
  PROVE  /\ CommandAlone' /\ CommandFits' /\ \A q \in Commands : CommandExactly(q)'
         /\ command' \in [Commands -> Migration!Proc] /\ holder' = None
  <1>1. command[p].want \in Migration!Source /\ pc \in CommandPcs
    BY FileTypes DEF MigrationInv, Migration!Source, CommandPcs
  <1>2. Moved(p, pc, command[p].want)
    BY <1>1, EndMoves DEF MigrationInv, Migration!Ended
  <1>3. Fits(command[p].want)
    BY DEF MigrationInv, CommandFits
  <1>4. holder' = None
    BY DEF Migration!Ended
  <1>5. CommandAlone' /\ CommandFits' /\ \A q \in Commands : CommandExactly(q)'
    BY <1>1, <1>2, <1>3, <1>4, EndKeeps
  <1> QED BY <1>2, <1>4, <1>5 DEF Moved

LEMMA MovesOn ==
  ASSUME MigrationInv, NEW p \in Commands, command[p].pc \notin {"idle", "done"}, NEW pc \in CommandPcs \ {"idle", "done"},
         Migration!Goto(p, pc), UNCHANGED <<origin, holder, inUse>>, CommandExactly(p)'
  PROVE  /\ CommandAlone' /\ CommandFits' /\ \A q \in Commands : CommandExactly(q)'
         /\ command' \in [Commands -> Migration!Proc]
  <1>1. holder = p
    BY DEF MigrationInv, CommandAlone
  <1>2. Moved(p, pc, command[p].cmd)
    BY GotoMoves DEF MigrationInv
  <1>3. CommandAlone' /\ CommandFits' /\ \A q \in Commands : CommandExactly(q)'
    BY <1>1, <1>2, StepKeeps
  <1> QED BY <1>2, <1>3 DEF Moved

LEMMA GotoSays ==
  ASSUME MigrationInv, NEW p \in Commands, NEW pc \in CommandPcs, Migration!Goto(p, pc)
  PROVE  command'[p].pc = pc /\ command'[p].cmd = command[p].cmd
  BY GotoMoves DEF MigrationInv, Moved

\* A command from schema 3 is one of a database that was at 3.
LEMMA CommandOrigin ==
  ASSUME MigrationInv, NEW p \in Commands
  PROVE  /\ command[p].cmd = 3 <=> origin = 3
         /\ origin \in 3..5 /\ command[p].cmd \in origin..5
         /\ Migration!Is(p, 3) <=> origin = 3
         /\ Migration!Is(p, 4) <=> command[p].cmd = 4
  <1>1. origin \in 3..5 /\ Fits(command[p].cmd)
    BY FileTypes DEF MigrationInv, CommandFits
  <1> QED BY <1>1 DEF Fits, Migration!Is

LEMMA MigrationStart == Migration!Init => MigrationInv
  <1> SUFFICES ASSUME Migration!Init PROVE MigrationInv
    OBVIOUS
  <1>1. PICK want \in [Commands -> {origin} \cup (IF origin = 4 THEN {5} ELSE {})] :
          command = [p \in Commands |-> [pc |-> "idle", want |-> want[p], cmd |-> want[p]]]
    BY DEF Migration!Init
  <1>2. origin \in 3..5
    BY DEF Migration!Init, Migration!Source
  <1>3. \A p \in Commands : want[p] \in {origin} \cup (IF origin = 4 THEN {5} ELSE {})
    BY <1>1
  <1>4. \A p \in Commands : want[p] \in 3..5 /\ Fits(want[p])
    BY <1>2, <1>3 DEF Fits
  <1>5. \A p \in Commands : command[p] = [pc |-> "idle", want |-> want[p], cmd |-> want[p]]
    BY <1>1
  <1>6. ASSUME NEW p \in Commands
        PROVE  command[p].pc = "idle" /\ command[p].want = want[p] /\ command[p].cmd = want[p]
    <2>1. command[p] = [pc |-> "idle", want |-> want[p], cmd |-> want[p]]
      BY <1>5
    <2>2. [pc |-> "idle", want |-> want[p], cmd |-> want[p]].pc = "idle"
      OBVIOUS
    <2>3. [pc |-> "idle", want |-> want[p], cmd |-> want[p]].want = want[p]
      OBVIOUS
    <2>4. [pc |-> "idle", want |-> want[p], cmd |-> want[p]].cmd = want[p]
      OBVIOUS
    <2> QED BY <2>1, <2>2, <2>3, <2>4
  <1>7. command \in [Commands -> Migration!Proc]
    BY <1>1, <1>4 DEF Migration!Proc, Migration!Source
  <1>8. /\ db = [schema |-> origin, work |-> 0] /\ db.schema = origin /\ db.work = 0 /\ stamp = 1 /\ damages = 0
        /\ backup = [v \in 3..5 |-> 0] /\ stale = 0 /\ pub = None /\ cand = None /\ holder = None /\ inUse = FALSE
        /\ commandStops = 0
    BY DEF Migration!Init, Migration!Source
  <1>14. db \in [schema : {0, 6} \cup 3..5, work : 0..MaxWork]
    BY <1>2, <1>8, MigrationConstants
  <1>15. backup \in [3..5 -> 0..(1 + MaxDamage)]
    BY <1>8, MigrationConstants
  <1>16. /\ stamp \in 1..(1 + MaxDamage) /\ stale \in 0..(1 + MaxDamage) /\ 0 \in 0..MaxCommandStop /\ 0 \in 0..MaxDamage
    BY <1>8, MigrationConstants
  <1>9. Migration!TypeOK
    BY <1>2, <1>7, <1>8, <1>14, <1>15, <1>16 DEF Migration!TypeOK, Migration!Source, Migration!Broken, Migration!Current
  <1>10. FilesExact
    BY <1>2, <1>8 DEF FilesExact
  <1>11. CommandAlone
    BY <1>6, <1>8, MigrationConstants DEF CommandAlone
  <1>12. CommandFits
    BY <1>4, <1>6 DEF CommandFits
  <1>13. \A p \in Commands : CommandExactly(p)
    BY <1>6 DEF CommandExactly, FromThree, FromFour
  <1> QED BY <1>9, <1>10, <1>11, <1>12, <1>13 DEF MigrationInv

LEMMA AcquireCommand ==
  ASSUME MigrationInv, NEW p \in Commands, Migration!Acquire(p)
  PROVE  MigrationInv'
  <1> DEFINE pc == IF Migration!Is(p, 3) THEN "recover" ELSE "inspect"
  <1>1. Moved(p, pc, command[p].cmd)
    BY GotoMoves DEF MigrationInv, Migration!Acquire, CommandPcs
  <1>2. \A q \in Commands : command[q].pc \in {"idle", "done"}
    BY MigrationConstants DEF MigrationInv, CommandAlone, Migration!Acquire
  <1>3. UNCHANGED <<origin, db, stamp, backup, stale, pub, cand, inUse, commandStops, damages>> /\ holder' = p /\ ~inUse
    BY DEF Migration!Acquire, Migration!disk
  <1>4. Migration!TypeOK'
    BY <1>1, <1>3 DEF MigrationInv, Migration!TypeOK, Moved
  <1>5. CommandAlone'
    BY <1>1, <1>2, <1>3 DEF CommandAlone, Moved
  <1>6. CommandFits'
    BY <1>1, <1>3 DEF MigrationInv, CommandFits, Fits, Moved
  <1>7. FilesExact'
    BY <1>3 DEF MigrationInv, FilesExact
  <1>8. ASSUME NEW q \in Commands PROVE CommandExactly(q)'
    <2>1. CASE q # p
      <3>1. command'[q].pc \in {"idle", "done"}
        BY <1>1, <1>2, <2>1 DEF Moved
      <3> QED BY <3>1 DEF CommandExactly, FromThree, FromFour
    <2>2. CASE q = p
      <3>1. command'[p].pc = IF origin = 3 THEN "recover" ELSE "inspect"
        BY <1>1, CommandOrigin DEF Moved
      <3> QED BY <1>3, <2>2, <3>1 DEF CommandExactly, FromThree, FromFour
    <2> QED BY <2>1, <2>2
  <1> QED BY <1>4, <1>5, <1>6, <1>7, <1>8 DEF MigrationInv

LEMMA RecoverCommand ==
  ASSUME MigrationInv, NEW p \in Commands, Migration!Recover(p)
  PROVE  MigrationInv'
  <1> USE DEF Migration!Broken, Migration!Current
  <1>1. /\ origin = 3 /\ command[p].pc = "recover"
        /\ UNCHANGED <<origin, backup, stale, pub, holder, inUse, commandStops, damages>>
    BY FileTypes, CommandOrigin DEF MigrationInv, CommandExactly, FromFour, Migration!Recover, Migration!At
  <1>2. PICK pc \in {"inspect", "mark", "forget"} :
          /\ Migration!Goto(p, pc)
          /\ \/ pc = "inspect" /\ pub = None /\ UNCHANGED <<db, stamp, cand>>
             \/ pc = "mark" /\ pub # None /\ db.schema = 6 /\ cand' = None /\ UNCHANGED <<db, stamp>>
             \/ pc = "forget" /\ pub # None /\ db.schema = 3 /\ cand' = None /\ UNCHANGED <<db, stamp>>
             \/ /\ pc = "forget" /\ pub # None /\ db.schema = 0 /\ cand' = None
                /\ db' = [schema |-> 3, work |-> 0] /\ stamp' = stamp + 1
    BY DEF Migration!Recover
  <1>3. command'[p].pc = pc /\ command'[p].cmd = command[p].cmd
    BY <1>2, GotoSays DEF CommandPcs
  <1>4. /\ db' \in [schema : {0, 6} \cup 3..5, work : 0..MaxWork] /\ stamp' \in 1..(1 + MaxDamage)
        /\ cand' \in 3..5 \cup {6, None}
    <2>1. db \in [schema : {0, 6} \cup 3..5, work : 0..MaxWork] /\ cand \in 3..5 \cup {6, None}
      BY DEF MigrationInv, Migration!TypeOK, Migration!Source
    <2>2. db.schema = 0 => stamp + 1 \in 1..(1 + MaxDamage)
      BY FileTypes, MigrationConstants DEF MigrationInv, FilesExact
    <2>3. [schema |-> 3, work |-> 0] \in [schema : {0, 6} \cup 3..5, work : 0..MaxWork]
      BY MigrationConstants
    <2> QED BY <1>2, <2>1, <2>2, <2>3, FileTypes DEF MigrationInv
  <1>5. FilesExact'
    BY <1>1, <1>2, FileTypes DEF MigrationInv, FilesExact
  <1>6. CommandExactly(p)'
    BY <1>1, <1>2, <1>3 DEF CommandExactly, FromThree
  <1>7. /\ CommandAlone' /\ CommandFits' /\ \A q \in Commands : CommandExactly(q)'
        /\ command' \in [Commands -> Migration!Proc]
    BY <1>1, <1>2, <1>6, MovesOn DEF CommandPcs
  <1>8. Migration!TypeOK'
    BY <1>1, <1>4, <1>7 DEF MigrationInv, Migration!TypeOK, Migration!Source
  <1> QED BY <1>5, <1>7, <1>8 DEF MigrationInv

LEMMA RecoverMarkCommand ==
  ASSUME MigrationInv, NEW p \in Commands, Migration!RecoverMark(p)
  PROVE  MigrationInv'
  <1>1. /\ origin = 3 /\ command[p].pc = "mark" /\ pub # None /\ db.schema = 6 /\ cand = None
        /\ UNCHANGED <<origin, db, stamp, backup, stale, cand, holder, inUse, commandStops, damages>>
        /\ pub' = [pub EXCEPT !.phase = "complete"] /\ Migration!Goto(p, "inspect")
    BY DEF MigrationInv, CommandExactly, FromFour, FromThree, Migration!RecoverMark, Migration!At
  <1>2. pub \in Migration!Pub
    BY <1>1 DEF MigrationInv, Migration!TypeOK
  <1>3. pub' \in Migration!Pub /\ pub'.stamp = pub.stamp /\ pub'.phase = "complete"
    BY <1>1, <1>2 DEF Migration!Pub
  <1>4. command'[p].pc = "inspect"
    BY <1>1, GotoSays DEF CommandPcs
  <1>5. FilesExact'
    BY <1>1, <1>3, MigrationConstants DEF MigrationInv, FilesExact
  <1>6. CommandExactly(p)'
    BY <1>1, <1>3, <1>4, MigrationConstants DEF CommandExactly, FromThree
  <1>7. /\ CommandAlone' /\ CommandFits' /\ \A q \in Commands : CommandExactly(q)'
        /\ command' \in [Commands -> Migration!Proc]
    BY <1>1, <1>6, MovesOn DEF CommandPcs
  <1>8. Migration!TypeOK'
    BY <1>1, <1>3, <1>7 DEF MigrationInv, Migration!TypeOK
  <1> QED BY <1>5, <1>7, <1>8 DEF MigrationInv

LEMMA RecoverForgetCommand ==
  ASSUME MigrationInv, NEW p \in Commands, Migration!RecoverForget(p)
  PROVE  MigrationInv'
  <1>1. /\ origin = 3 /\ command[p].pc = "forget" /\ db.schema = 3
        /\ UNCHANGED <<origin, db, stamp, backup, stale, cand, holder, inUse, commandStops, damages>>
        /\ pub' = None /\ Migration!Goto(p, "inspect")
    BY DEF MigrationInv, CommandExactly, FromFour, FromThree, Migration!RecoverForget, Migration!At
  <1>2. command'[p].pc = "inspect"
    BY <1>1, GotoSays DEF CommandPcs
  <1>3. FilesExact'
    BY <1>1 DEF MigrationInv, FilesExact
  <1>4. CommandExactly(p)'
    BY <1>1, <1>2 DEF CommandExactly, FromThree
  <1>5. /\ CommandAlone' /\ CommandFits' /\ \A q \in Commands : CommandExactly(q)'
        /\ command' \in [Commands -> Migration!Proc]
    BY <1>1, <1>4, MovesOn DEF CommandPcs
  <1>6. Migration!TypeOK'
    BY <1>1, <1>5 DEF MigrationInv, Migration!TypeOK
  <1> QED BY <1>3, <1>5, <1>6 DEF MigrationInv

LEMMA ChainKeeps ==
  ASSUME MigrationInv, NEW p \in Commands, holder = p, Migration!Is(p, 4), Migration!Chain(p), UNCHANGED <<origin, inUse>>
  PROVE  /\ CommandAlone' /\ CommandFits' /\ \A q \in Commands : CommandExactly(q)'
         /\ command' \in [Commands -> Migration!Proc] /\ holder' = None
  <1>1. 5 \in Migration!Source /\ Fits(5) /\ "idle" \in CommandPcs
    BY CommandOrigin DEF Migration!Source, Fits, CommandPcs
  <1>2. Moved(p, "idle", 5) /\ holder' = None
    BY <1>1, EndMoves DEF MigrationInv, Migration!Chain
  <1>3. CommandAlone' /\ CommandFits' /\ \A q \in Commands : CommandExactly(q)'
    BY <1>1, <1>2, EndKeeps
  <1> QED BY <1>2, <1>3 DEF Moved

LEMMA InspectCommand ==
  ASSUME MigrationInv, NEW p \in Commands, Migration!Inspect(p)
  PROVE  MigrationInv'
  <1>1. /\ command[p].pc = "inspect" /\ holder = p
        /\ UNCHANGED <<origin, db, stamp, backup, stale, pub, cand, inUse, commandStops, damages>>
    BY DEF MigrationInv, CommandAlone, Migration!Inspect, Migration!At, Migration!disk
  <1>2. FilesExact'
    <2>1. FilesExact
      BY DEF MigrationInv
    <2> QED BY <1>1, <2>1 DEF FilesExact
  <1>3. /\ CommandAlone' /\ CommandFits' /\ \A q \in Commands : CommandExactly(q)'
        /\ command' \in [Commands -> Migration!Proc] /\ holder' \in Commands \cup {None}
    <2>1. CASE Migration!Ended(p, "done")
      BY <1>1, <2>1, EndedKeeps
    <2>2. CASE Migration!Is(p, 4) /\ Migration!Chain(p)
      BY <1>1, <2>2, ChainKeeps
    <2>3. CASE /\ db.schema = command[p].cmd /\ Migration!Goto(p, IF Migration!Is(p, 3) THEN "copy" ELSE "backup")
               /\ UNCHANGED holder
      <3> DEFINE pc == IF origin = 3 THEN "copy" ELSE "backup"
      <3>1. Migration!Goto(p, pc)
        BY <2>3, CommandOrigin
      <3>2. command'[p].pc = pc /\ command'[p].cmd = command[p].cmd
        BY <3>1, GotoSays DEF CommandPcs
      <3>3. CommandExactly(p)'
        BY <1>1, <2>3, <3>2, CommandOrigin DEF MigrationInv, CommandExactly, FromThree, FromFour
      <3> QED BY <1>1, <2>3, <3>1, <3>3, MovesOn DEF CommandPcs
    <2> QED BY <2>1, <2>2, <2>3 DEF Migration!Inspect
  <1>4. Migration!TypeOK'
    BY <1>1, <1>3 DEF MigrationInv, Migration!TypeOK
  <1> QED BY <1>2, <1>3, <1>4 DEF MigrationInv

LEMMA CreateBackupCommand ==
  ASSUME MigrationInv, NEW p \in Commands, Migration!CreateBackup(p)
  PROVE  MigrationInv'
  <1>1. /\ origin = 3 /\ command[p].pc = "backup" /\ pub = None /\ db.schema = 3
        /\ UNCHANGED <<origin, db, stamp, pub, cand, holder, inUse, commandStops, damages>>
    BY CommandOrigin DEF MigrationInv, CommandExactly, FromThree, Migration!CreateBackup, Migration!At
  <1>2. PICK pc \in {"convert", "replace"} :
          /\ Migration!Goto(p, pc)
          /\ backup' = [backup EXCEPT ![3] = IF pc = "convert" THEN stamp ELSE 0]
          /\ stale' \in {stale, backup[3]}
    BY DEF Migration!CreateBackup
  <1>3. /\ backup' \in [3..5 -> 0..(1 + MaxDamage)] /\ stale' \in 0..(1 + MaxDamage)
        /\ pc = "convert" => backup'[3] = stamp
    BY <1>2, FileTypes, MigrationConstants DEF MigrationInv, Migration!TypeOK
  <1>4. command'[p].pc = pc
    BY <1>2, GotoSays DEF CommandPcs
  <1>5. FilesExact'
    BY <1>1 DEF MigrationInv, FilesExact
  <1>6. CommandExactly(p)'
    BY <1>1, <1>2, <1>3, <1>4 DEF CommandExactly, FromThree
  <1>7. /\ CommandAlone' /\ CommandFits' /\ \A q \in Commands : CommandExactly(q)'
        /\ command' \in [Commands -> Migration!Proc]
    BY <1>1, <1>2, <1>6, MovesOn DEF CommandPcs
  <1>8. Migration!TypeOK'
    BY <1>1, <1>3, <1>7 DEF MigrationInv, Migration!TypeOK, Migration!Source
  <1> QED BY <1>5, <1>7, <1>8 DEF MigrationInv

LEMMA EnsureBackupCommand ==
  ASSUME MigrationInv, NEW p \in Commands, Migration!EnsureBackup(p)
  PROVE  MigrationInv'
  <1>1. /\ origin # 3 /\ command[p].pc = "backup" /\ db.schema = command[p].cmd /\ Migration!Goto(p, "copy")
        /\ UNCHANGED <<origin, db, stamp, stale, pub, cand, holder, inUse, commandStops, damages>>
        /\ backup' = [backup EXCEPT ![command[p].cmd] = stamp]
    BY CommandOrigin DEF MigrationInv, CommandExactly, FromFour, Migration!EnsureBackup, Migration!At
  <1>2. /\ backup' \in [3..5 -> 0..(1 + MaxDamage)] /\ backup'[command[p].cmd] # 0
        /\ \A v \in 3..5 : backup[v] # 0 => backup'[v] # 0
    BY <1>1, FileTypes, MigrationConstants DEF MigrationInv
  <1>3. command'[p].pc = "copy" /\ command'[p].cmd = command[p].cmd
    BY <1>1, GotoSays DEF CommandPcs
  <1>4. FilesExact'
    <2>1. origin \in 3..5 /\ FilesExact
      BY FileTypes DEF MigrationInv
    <2> QED BY <1>1, <1>2, <2>1 DEF FilesExact
  <1>5. CommandExactly(p)'
    BY <1>1, <1>2, <1>3 DEF CommandExactly, FromFour
  <1>6. /\ CommandAlone' /\ CommandFits' /\ \A q \in Commands : CommandExactly(q)'
        /\ command' \in [Commands -> Migration!Proc]
    BY <1>1, <1>5, MovesOn DEF CommandPcs
  <1>7. Migration!TypeOK'
    BY <1>1, <1>2, <1>6 DEF MigrationInv, Migration!TypeOK, Migration!Source
  <1> QED BY <1>4, <1>6, <1>7 DEF MigrationInv

LEMMA ReplaceBackupCommand ==
  ASSUME MigrationInv, NEW p \in Commands, Migration!ReplaceBackup(p)
  PROVE  MigrationInv'
  <1>1. /\ origin = 3 /\ command[p].pc = "replace" /\ pub = None /\ db.schema = 3 /\ Migration!Goto(p, "convert")
        /\ UNCHANGED <<origin, db, stamp, pub, cand, holder, inUse, commandStops, damages>>
        /\ backup' = [backup EXCEPT ![3] = stamp] /\ stale' = 0
    BY DEF MigrationInv, CommandExactly, FromThree, FromFour, Migration!ReplaceBackup, Migration!At
  <1>2. backup' \in [3..5 -> 0..(1 + MaxDamage)] /\ stale' \in 0..(1 + MaxDamage) /\ backup'[3] = stamp
    BY <1>1, FileTypes, MigrationConstants DEF MigrationInv
  <1>3. command'[p].pc = "convert"
    BY <1>1, GotoSays DEF CommandPcs
  <1>4. FilesExact'
    BY <1>1 DEF MigrationInv, FilesExact
  <1>5. CommandExactly(p)'
    BY <1>1, <1>2, <1>3 DEF CommandExactly, FromThree
  <1>6. /\ CommandAlone' /\ CommandFits' /\ \A q \in Commands : CommandExactly(q)'
        /\ command' \in [Commands -> Migration!Proc]
    BY <1>1, <1>5, MovesOn DEF CommandPcs
  <1>7. Migration!TypeOK'
    BY <1>1, <1>2, <1>6 DEF MigrationInv, Migration!TypeOK, Migration!Source
  <1> QED BY <1>4, <1>6, <1>7 DEF MigrationInv

LEMMA CopyCommand ==
  ASSUME MigrationInv, NEW p \in Commands, Migration!Copy(p)
  PROVE  MigrationInv'
  <1> DEFINE pc == IF origin = 3 THEN "backup" ELSE "convert"
  <1>1. /\ command[p].pc = "copy" /\ cand' = db.schema /\ Migration!Goto(p, pc)
        /\ UNCHANGED <<origin, db, stamp, backup, stale, pub, holder, inUse, commandStops, damages>>
    BY CommandOrigin DEF Migration!Copy, Migration!At
  <1>2. command'[p].pc = pc /\ command'[p].cmd = command[p].cmd /\ pc \in CommandPcs \ {"idle", "done"}
    BY <1>1, GotoSays DEF CommandPcs
  <1>3. /\ db.schema \in 3..5 /\ pub = None /\ CommandExactly(p)
        /\ db.schema = command[p].cmd /\ db.schema # 6 /\ db.schema # 0
    BY <1>1, FileTypes, CommandOrigin DEF MigrationInv, CommandExactly, FromThree, FromFour, FilesExact
  <1>4. FilesExact'
    BY <1>1, <1>3 DEF MigrationInv, FilesExact
  <1>5. CommandExactly(p)'
    BY <1>1, <1>2, <1>3 DEF CommandExactly, FromThree, FromFour
  <1>6. /\ CommandAlone' /\ CommandFits' /\ \A q \in Commands : CommandExactly(q)'
        /\ command' \in [Commands -> Migration!Proc]
    BY <1>1, <1>2, <1>5, MovesOn
  <1>7. Migration!TypeOK'
    BY <1>1, <1>3, <1>6 DEF MigrationInv, Migration!TypeOK, Migration!Source
  <1> QED BY <1>4, <1>6, <1>7 DEF MigrationInv

LEMMA ConvertCommand ==
  ASSUME MigrationInv, NEW p \in Commands, Migration!Convert(p)
  PROVE  MigrationInv'
  <1> DEFINE pc == IF origin = 3 THEN "prepare" ELSE "exchange"
  <1>1. /\ command[p].pc = "convert" /\ cand' = Result(command[p].cmd) /\ Migration!Goto(p, pc)
        /\ UNCHANGED <<origin, db, stamp, backup, stale, pub, holder, inUse, commandStops, damages>>
    BY CommandOrigin DEF Migration!Convert, Migration!At, Migration!Current, Result
  <1>2. command'[p].pc = pc /\ command'[p].cmd = command[p].cmd /\ pc \in CommandPcs \ {"idle", "done"}
    BY <1>1, GotoSays DEF CommandPcs
  <1>3. /\ db.schema \in 3..5 /\ pub = None /\ CommandExactly(p) /\ (origin = 3 => cand' = 6)
        /\ db.schema = command[p].cmd /\ db.schema # 6 /\ db.schema # 0 /\ cand' \in {5, 6}
    BY <1>1, FileTypes, CommandOrigin DEF MigrationInv, CommandExactly, FromThree, FromFour, FilesExact, Result
  <1>4. FilesExact'
    BY <1>1, <1>3 DEF MigrationInv, FilesExact
  <1>5. CommandExactly(p)'
    BY <1>1, <1>2, <1>3 DEF CommandExactly, FromThree, FromFour
  <1>6. /\ CommandAlone' /\ CommandFits' /\ \A q \in Commands : CommandExactly(q)'
        /\ command' \in [Commands -> Migration!Proc]
    BY <1>1, <1>2, <1>5, MovesOn
  <1>7. Migration!TypeOK'
    BY <1>1, <1>3, <1>6 DEF MigrationInv, Migration!TypeOK, Migration!Source, Migration!Current
  <1> QED BY <1>4, <1>6, <1>7 DEF MigrationInv

\* The publication state names the source whose backup there is.
LEMMA PhaseCommand ==
  ASSUME MigrationInv, NEW p \in Commands, NEW phase \in {"prepared", "exchanged", "validated", "complete"},
         NEW pc \in CommandPcs \ {"idle", "done"}, Migration!Phase(p, phase, pc), origin = 3,
         command[p].pc \in {"prepare", "exchanged", "validate", "complete"},
         db.schema = 6 => cand \in {3, None}, backup[3] = stamp,
         CommandExactly(p)'
  PROVE  MigrationInv'
  <1>1. /\ pub' = [phase |-> phase, stamp |-> stamp] /\ Migration!Goto(p, pc)
        /\ UNCHANGED <<origin, db, stamp, backup, stale, cand, holder, inUse, commandStops, damages>>
    BY DEF Migration!Phase
  <1>2. pub' \in Migration!Pub /\ pub'.stamp = stamp
    BY <1>1, FileTypes DEF MigrationInv, Migration!Pub
  <1>3. FilesExact'
    BY <1>1, <1>2, MigrationConstants DEF MigrationInv, FilesExact
  <1>4. /\ CommandAlone' /\ CommandFits' /\ \A q \in Commands : CommandExactly(q)'
        /\ command' \in [Commands -> Migration!Proc]
    BY <1>1, MovesOn
  <1>5. Migration!TypeOK'
    BY <1>1, <1>2, <1>4 DEF MigrationInv, Migration!TypeOK
  <1> QED BY <1>3, <1>4, <1>5 DEF MigrationInv

LEMMA PhaseSays ==
  ASSUME MigrationInv, NEW p \in Commands, NEW phase \in {"prepared", "exchanged", "validated", "complete"},
         NEW pc \in CommandPcs, Migration!Phase(p, phase, pc)
  PROVE  /\ pub' # None /\ pub'.phase = phase /\ command'[p].pc = pc
         /\ UNCHANGED <<origin, db, stamp, backup, cand>>
  <1>1. pub' = [phase |-> phase, stamp |-> stamp] /\ Migration!Goto(p, pc) /\ UNCHANGED <<origin, db, stamp, backup, cand>>
    BY DEF Migration!Phase
  <1>2. pub' \in Migration!Pub /\ pub'.phase = phase
    BY <1>1, FileTypes DEF MigrationInv, Migration!Pub
  <1> QED BY <1>1, <1>2, GotoSays, MigrationConstants

LEMMA PrepareCommand ==
  ASSUME MigrationInv, NEW p \in Commands, Migration!Prepare(p)
  PROVE  MigrationInv'
  <1>1. /\ origin = 3 /\ command[p].pc = "prepare" /\ db.schema = 3 /\ cand = 6 /\ backup[3] = stamp
        /\ Migration!Phase(p, "prepared", "exchange")
    BY DEF MigrationInv, CommandExactly, FromThree, FromFour, Migration!Prepare, Migration!At
  <1>2. CommandExactly(p)'
    BY <1>1, PhaseSays DEF CommandExactly, FromThree, CommandPcs
  <1> QED BY <1>1, <1>2, PhaseCommand DEF CommandPcs

LEMMA MarkExchangedCommand ==
  ASSUME MigrationInv, NEW p \in Commands, Migration!MarkExchanged(p)
  PROVE  MigrationInv'
  <1>1. /\ origin = 3 /\ command[p].pc = "exchanged" /\ db.schema \in {0, 6} /\ cand = 3 /\ backup[3] = stamp
        /\ Migration!Phase(p, "exchanged", "validate")
    BY DEF MigrationInv, CommandExactly, FromThree, FromFour, Migration!MarkExchanged, Migration!At
  <1>2. CommandExactly(p)'
    BY <1>1, PhaseSays DEF CommandExactly, FromThree, CommandPcs
  <1> QED BY <1>1, <1>2, PhaseCommand DEF CommandPcs

LEMMA MarkValidatedCommand ==
  ASSUME MigrationInv, NEW p \in Commands, Migration!MarkValidated(p)
  PROVE  MigrationInv'
  <1>1. /\ origin = 3 /\ command[p].pc = "validate" /\ db.schema = 6 /\ cand = 3 /\ backup[3] = stamp
        /\ Migration!Phase(p, "validated", "remove")
    BY CommandOrigin DEF MigrationInv, CommandExactly, FromThree, Migration!MarkValidated, Migration!At, Migration!Current
  <1>2. CommandExactly(p)'
    BY <1>1, PhaseSays DEF CommandExactly, FromThree, CommandPcs
  <1> QED BY <1>1, <1>2, PhaseCommand DEF CommandPcs

LEMMA MarkCompleteCommand ==
  ASSUME MigrationInv, NEW p \in Commands, Migration!MarkComplete(p)
  PROVE  MigrationInv'
  <1>1. /\ origin = 3 /\ command[p].pc = "complete" /\ db.schema = 6 /\ cand = None /\ backup[3] = stamp
        /\ Migration!Phase(p, "complete", "finish")
    BY DEF MigrationInv, CommandExactly, FromThree, FromFour, FilesExact, Migration!MarkComplete, Migration!At
  <1>2. CommandExactly(p)'
    BY <1>1, PhaseSays DEF CommandExactly, FromThree, CommandPcs
  <1> QED BY <1>1, <1>2, PhaseCommand DEF CommandPcs

LEMMA ExchangeCommand ==
  ASSUME MigrationInv, NEW p \in Commands, Migration!Exchange(p)
  PROVE  MigrationInv'
  <1> DEFINE pc == IF origin = 3 THEN "exchanged" ELSE "validate"
  <1>1. /\ command[p].pc = "exchange" /\ db' = [schema |-> cand, work |-> 0] /\ cand' = db.schema /\ Migration!Goto(p, pc)
        /\ UNCHANGED <<origin, stamp, backup, stale, pub, holder, inUse, commandStops, damages>>
    BY CommandOrigin DEF Migration!Exchange, Migration!At
  <1>2. command'[p].pc = pc /\ command'[p].cmd = command[p].cmd /\ pc \in CommandPcs \ {"idle", "done"}
    BY <1>1, GotoSays DEF CommandPcs
  <1>3. /\ db.schema = command[p].cmd /\ db.schema \in 3..5 /\ cand = Result(command[p].cmd) /\ ~inUse
        /\ origin = 3 => cand = 6 /\ pub # None /\ backup[3] = stamp
        /\ origin # 3 => backup[command[p].cmd] # 0
    <2>1. CommandExactly(p) /\ ~inUse
      BY <1>1, MigrationConstants DEF MigrationInv, CommandAlone
    <2> QED BY <1>1, <2>1, FileTypes, CommandOrigin DEF MigrationInv, CommandExactly, FromThree, FromFour, Result
  <1>4. /\ db' \in [schema : {0, 6} \cup 3..5, work : 0..MaxWork] /\ db'.schema = cand /\ db'.work = 0
        /\ cand \in {5, 6}
    <2>1. cand \in {5, 6}
      BY <1>3 DEF Result
    <2>2. 0 \in 0..MaxWork
      BY MigrationConstants
    <2> QED BY <1>1, <2>1, <2>2
  <1>5. FilesExact'
    <2>1. CASE origin = 3
      BY <1>1, <1>3, <1>4, <2>1 DEF MigrationInv, FilesExact
    <2>2. CASE origin # 3
      <3>1. command[p].cmd \in {4, 5} /\ origin \in {4, 5} /\ origin <= command[p].cmd
        BY <2>2, CommandOrigin
      <3>2. /\ stamp <= 1 + damages /\ pub = None /\ (db.schema > origin => backup[origin] # 0)
        BY <2>2 DEF MigrationInv, FilesExact
      <3>3. backup[origin] # 0
        BY <1>3, <2>2, <3>1, <3>2
      <3>4. cand = 6 => backup[5] # 0
        BY <1>3, <2>2, <3>1 DEF Result
      <3>5. cand \in origin..6
        BY <1>4, <3>1
      <3> QED BY <1>1, <1>3, <1>4, <2>2, <3>2, <3>3, <3>4, <3>5 DEF FilesExact
    <2> QED BY <2>1, <2>2
  <1>6. CommandExactly(p)'
    <2>1. CASE origin = 3
      BY <1>1, <1>2, <1>3, <1>4, <2>1, CommandOrigin DEF CommandExactly, FromThree
    <2>2. CASE origin # 3
      BY <1>1, <1>2, <1>3, <1>4, <2>2 DEF CommandExactly, FromFour
    <2> QED BY <2>1, <2>2
  <1>7. /\ CommandAlone' /\ CommandFits' /\ \A q \in Commands : CommandExactly(q)'
        /\ command' \in [Commands -> Migration!Proc]
    BY <1>1, <1>2, <1>6, MovesOn
  <1>8. Migration!TypeOK'
    BY <1>1, <1>3, <1>4, <1>7 DEF MigrationInv, Migration!TypeOK, Migration!Source, Migration!Current, Migration!Broken
  <1> QED BY <1>5, <1>7, <1>8 DEF MigrationInv

LEMMA ValidatePublishedCommand ==
  ASSUME MigrationInv, NEW p \in Commands, Migration!ValidatePublished(p)
  PROVE  MigrationInv'
  <1>1. /\ command[p].pc = "validate" /\ origin # 3 /\ Migration!Goto(p, "remove")
        /\ UNCHANGED <<origin, db, stamp, backup, stale, pub, cand, holder, inUse, commandStops, damages>>
    BY CommandOrigin DEF Migration!ValidatePublished, Migration!At, Migration!disk
  <1>2. command'[p].pc = "remove"
    BY <1>1, GotoSays DEF CommandPcs
  <1>3. CommandExactly(p)'
    BY <1>1, <1>2 DEF CommandExactly, FromFour
  <1>4. /\ CommandAlone' /\ CommandFits' /\ \A q \in Commands : CommandExactly(q)'
        /\ command' \in [Commands -> Migration!Proc]
    BY <1>1, <1>3, MovesOn DEF CommandPcs
  <1>5. FilesExact'
    BY <1>1 DEF MigrationInv, FilesExact
  <1>6. Migration!TypeOK'
    BY <1>1, <1>4 DEF MigrationInv, Migration!TypeOK
  <1> QED BY <1>4, <1>5, <1>6 DEF MigrationInv

LEMMA ExchangeBackCommand ==
  ASSUME MigrationInv, NEW p \in Commands, Migration!ExchangeBack(p)
  PROVE  MigrationInv'
  <1>1. /\ command[p].pc = "validate" /\ origin # 3 /\ holder = p /\ ~inUse
        /\ damages < MaxDamage /\ damages' = damages + 1 /\ cand' = None
        /\ db' = [schema |-> cand, work |-> 0] /\ Migration!Ended(p, "idle")
        /\ UNCHANGED <<origin, stamp, backup, stale, pub, inUse, commandStops>>
    BY CommandOrigin, MigrationConstants DEF MigrationInv, CommandAlone, Migration!ExchangeBack, Migration!At
  <1>2. cand = command[p].cmd /\ db.schema = Result(command[p].cmd) /\ cand \in 4..5 /\ origin \in 4..5 /\ origin <= cand
    BY <1>1, CommandOrigin DEF MigrationInv, CommandExactly, FromFour
  <1>3. db' \in [schema : {0, 6} \cup 3..5, work : 0..MaxWork] /\ db'.schema = cand /\ db'.work = 0
    <2>1. 0 \in 0..MaxWork /\ cand \in 3..5
      BY <1>2, MigrationConstants
    <2> QED BY <1>1, <2>1
  <1>4. damages \in 0..MaxDamage /\ damages' \in 0..MaxDamage /\ stamp \in Int
    BY <1>1, FileTypes, MigrationConstants DEF MigrationInv
  <1>5. FilesExact'
    <2>1. /\ stamp <= 1 + damages /\ pub = None /\ (db.schema > origin => backup[origin] # 0)
      BY <1>1 DEF MigrationInv, FilesExact
    <2>2. cand > origin => backup[origin] # 0
      BY <1>2, <2>1 DEF Result
    <2> QED BY <1>1, <1>2, <1>3, <1>4, <2>1, <2>2, MigrationConstants DEF FilesExact
  <1>6. /\ CommandAlone' /\ CommandFits' /\ \A q \in Commands : CommandExactly(q)'
        /\ command' \in [Commands -> Migration!Proc] /\ holder' = None
    BY <1>1, EndedKeeps
  <1>7. Migration!TypeOK'
    BY <1>1, <1>3, <1>4, <1>6 DEF MigrationInv, Migration!TypeOK, Migration!Source, Migration!Current, Migration!Broken
  <1> QED BY <1>5, <1>6, <1>7 DEF MigrationInv

LEMMA RemoveCandidateCommand ==
  ASSUME MigrationInv, NEW p \in Commands, Migration!RemoveCandidate(p)
  PROVE  MigrationInv'
  <1> DEFINE pc == IF origin = 3 THEN "complete" ELSE "finish"
  <1>1. /\ command[p].pc = "remove" /\ cand' = None /\ Migration!Goto(p, pc)
        /\ UNCHANGED <<origin, db, stamp, backup, stale, pub, holder, inUse, commandStops, damages>>
    BY CommandOrigin DEF Migration!RemoveCandidate, Migration!At
  <1>2. command'[p].pc = pc /\ pc \in CommandPcs \ {"idle", "done"}
    BY <1>1, GotoSays DEF CommandPcs
  <1>3. origin = 3 => pub # None /\ db.schema = 6
    BY <1>1 DEF MigrationInv, CommandExactly, FromThree
  <1>4. FilesExact'
    BY <1>1, <1>3 DEF MigrationInv, FilesExact
  <1>5. CommandExactly(p)'
    BY <1>1, <1>2, <1>3 DEF CommandExactly, FromThree, FromFour
  <1>6. /\ CommandAlone' /\ CommandFits' /\ \A q \in Commands : CommandExactly(q)'
        /\ command' \in [Commands -> Migration!Proc]
    BY <1>1, <1>2, <1>5, MovesOn
  <1>7. Migration!TypeOK'
    BY <1>1, <1>6 DEF MigrationInv, Migration!TypeOK
  <1> QED BY <1>4, <1>6, <1>7 DEF MigrationInv

\* What ends a command and leaves the database as it is.
LEMMA EndCommand ==
  ASSUME MigrationInv, NEW p \in Commands,
         Migration!Finish(p) \/ Migration!FindDamage(p)
  PROVE  MigrationInv'
  <1>1. /\ holder = p /\ command[p].pc \in {"finish", "validate"}
        /\ UNCHANGED <<origin, db, stamp, backup, stale, pub, cand, inUse, commandStops, damages>>
    BY DEF MigrationInv, CommandAlone, Migration!Finish, Migration!FindDamage, Migration!At, Migration!disk
  <1>2. /\ CommandAlone' /\ CommandFits' /\ \A q \in Commands : CommandExactly(q)'
        /\ command' \in [Commands -> Migration!Proc] /\ holder' = None
    <2>1. CASE Migration!Is(p, 4) /\ Migration!Chain(p)
      BY <1>1, <2>1, ChainKeeps
    <2>2. CASE Migration!Ended(p, "done") \/ Migration!Ended(p, "idle")
      BY <1>1, <2>2, EndedKeeps
    <2> QED BY <2>1, <2>2 DEF Migration!Finish, Migration!FindDamage
  <1>3. FilesExact'
    <2>1. FilesExact
      BY DEF MigrationInv
    <2> QED BY <1>1, <2>1 DEF FilesExact
  <1>4. Migration!TypeOK'
    BY <1>1, <1>2 DEF MigrationInv, Migration!TypeOK
  <1> QED BY <1>2, <1>3, <1>4 DEF MigrationInv

LEMMA FailCommand ==
  ASSUME MigrationInv, NEW p \in Commands, Migration!Fail(p)
  PROVE  MigrationInv'
  <1>1. /\ holder = p /\ Migration!Ended(p, "idle") /\ commandStops < MaxCommandStop /\ commandStops' = commandStops + 1
        /\ cand' \in {cand, None} /\ stale' \in {stale, 0}
        /\ UNCHANGED <<origin, db, stamp, pub, inUse, damages>>
    BY DEF Migration!Fail
  <1>2. commandStops' \in 0..MaxCommandStop
    BY <1>1, MigrationConstants DEF MigrationInv, Migration!TypeOK
  <1>3. \/ backup' = backup
        \/ command[p].pc = "replace" /\ backup' = [backup EXCEPT ![3] = stale]
    BY DEF Migration!Fail, Migration!At
  <1>4. backup' \in [3..5 -> 0..(1 + MaxDamage)] /\ stale' \in 0..(1 + MaxDamage)
    <2>1. stale \in 0..(1 + MaxDamage) /\ 0 \in 0..(1 + MaxDamage)
      BY MigrationConstants DEF MigrationInv, Migration!TypeOK
    <2>2. backup \in [3..5 -> 0..(1 + MaxDamage)]
      BY FileTypes DEF MigrationInv
    <2>3. [backup EXCEPT ![3] = stale] \in [3..5 -> 0..(1 + MaxDamage)]
      BY <2>1, <2>2
    <2> QED BY <1>1, <1>3, <2>1, <2>2, <2>3
  <1>5. command[p].pc \in CommandPcs \ {"idle", "done"} /\ CommandExactly(p)
    BY <1>1, FileTypes DEF MigrationInv, CommandAlone
  <1>6. /\ CommandAlone' /\ CommandFits' /\ \A q \in Commands : CommandExactly(q)'
        /\ command' \in [Commands -> Migration!Proc] /\ holder' = None
    BY <1>1, EndedKeeps
  <1>7. FilesExact'
    <2>1. CASE origin = 3
      <3>1. cand' = cand \/ db.schema # 0
        <4>1. cand' = cand \/ command[p].pc \notin {"recover", "mark", "forget", "inspect", "exchanged", "validate", "remove"}
          BY <2>1, CommandOrigin DEF Migration!Fail, Migration!Preserved
        <4> QED BY <1>5, <2>1, <4>1 DEF CommandExactly, FromThree, CommandPcs
      <3>2. backup' = backup \/ (pub = None /\ db.schema = 3)
        BY <1>3, <1>5, <2>1 DEF CommandExactly, FromThree
      <3> QED BY <1>1, <2>1, <3>1, <3>2 DEF MigrationInv, FilesExact
    <2>2. CASE origin # 3
      <3>1. backup' = backup
        BY <1>3, <1>5, <2>2 DEF CommandExactly, FromFour
      <3> QED BY <1>1, <2>2, <3>1 DEF MigrationInv, FilesExact
    <2> QED BY <2>1, <2>2
  <1>8. Migration!TypeOK'
    BY <1>1, <1>2, <1>4, <1>6 DEF MigrationInv, Migration!TypeOK, Migration!Source
  <1> QED BY <1>6, <1>7, <1>8 DEF MigrationInv

LEMMA StopCommand ==
  ASSUME MigrationInv, NEW p \in Commands, Migration!Stop(p)
  PROVE  MigrationInv'
  <1>1. /\ holder = p /\ Migration!Ended(p, "idle") /\ commandStops < MaxCommandStop /\ commandStops' = commandStops + 1
        /\ cand' = IF pub = None THEN None ELSE cand
        /\ UNCHANGED <<origin, db, stamp, backup, stale, pub, inUse, damages>>
    BY DEF Migration!Stop
  <1>2. commandStops' \in 0..MaxCommandStop
    BY <1>1, MigrationConstants DEF MigrationInv, Migration!TypeOK
  <1>3. /\ CommandAlone' /\ CommandFits' /\ \A q \in Commands : CommandExactly(q)'
        /\ command' \in [Commands -> Migration!Proc] /\ holder' = None
    BY <1>1, EndedKeeps
  <1>4. FilesExact'
    BY <1>1 DEF MigrationInv, FilesExact
  <1>5. Migration!TypeOK'
    BY <1>1, <1>2, <1>3 DEF MigrationInv, Migration!TypeOK
  <1> QED BY <1>3, <1>4, <1>5 DEF MigrationInv

LEMMA DamageCommand ==
  ASSUME MigrationInv, Migration!Damage
  PROVE  MigrationInv'
  <1>1. /\ damages < MaxDamage /\ damages' = damages + 1 /\ ~inUse
        /\ pub # None /\ pub.phase \in {"prepared", "exchanged"} /\ db.schema = 6 /\ cand = 3
        /\ db' = [schema |-> 0, work |-> 0]
        /\ UNCHANGED <<origin, stamp, backup, stale, pub, cand, holder, inUse, command, commandStops>>
    BY DEF Migration!Damage, Migration!Current, Migration!Broken
  <1>2. origin = 3
    BY <1>1 DEF MigrationInv, FilesExact
  <1>3. db' \in [schema : {0, 6} \cup 3..5, work : 0..MaxWork] /\ db'.schema = 0 /\ db'.work = 0
    <2>1. 0 \in 0..MaxWork
      BY MigrationConstants
    <2> QED BY <1>1, <2>1
  <1>4. damages \in 0..MaxDamage /\ damages' \in 0..MaxDamage /\ stamp \in Int
    BY <1>1, FileTypes, MigrationConstants DEF MigrationInv
  <1>5. FilesExact'
    <2>1. stamp <= 1 + damages /\ backup[3] = pub.stamp
      BY <1>1, <1>2 DEF MigrationInv, FilesExact
    <2>2. stamp <= damages' /\ stamp <= 1 + damages'
      BY <1>1, <1>4, <2>1, MigrationConstants
    <2> QED BY <1>1, <1>2, <1>3, <2>1, <2>2 DEF FilesExact
  <1>6. ASSUME NEW p \in Commands PROVE CommandExactly(p)'
    <2>1. FromThree(p)
      BY <1>2 DEF MigrationInv, CommandExactly
    <2>2. FromThree(p)'
      BY <1>1, <1>3, <2>1, MigrationConstants DEF FromThree
    <2> QED BY <1>1, <1>2, <2>2 DEF CommandExactly
  <1>7. CommandAlone' /\ CommandFits'
    BY <1>1 DEF MigrationInv, CommandAlone, CommandFits, Fits
  <1>8. Migration!TypeOK'
    BY <1>1, <1>3, <1>4 DEF MigrationInv, Migration!TypeOK, Migration!Source, Migration!Current, Migration!Broken
  <1> QED BY <1>5, <1>6, <1>7, <1>8 DEF MigrationInv

\* The daemon uses a current database, beside no command.
LEMMA DaemonCommand ==
  ASSUME MigrationInv, Migration!StartDaemon \/ Migration!StopDaemon \/ Migration!Work
  PROVE  MigrationInv'
  <1>1. /\ db.schema = 6 /\ db'.schema = 6 /\ holder = None
        /\ db' \in [schema : {0, 6} \cup 3..5, work : 0..MaxWork] /\ inUse' \in BOOLEAN
        /\ UNCHANGED <<origin, stamp, backup, stale, pub, cand, holder, command, commandStops, damages>>
    <2>1. db \in [schema : {0, 6} \cup 3..5, work : 0..MaxWork]
      BY DEF MigrationInv, Migration!TypeOK, Migration!Source, Migration!Current, Migration!Broken
    <2>2. CASE Migration!Work
      <3>1. db.schema = 6 /\ holder = None /\ db.work < MaxWork /\ db' = [db EXCEPT !.work = @ + 1]
        BY <2>2 DEF MigrationInv, FilesExact, CommandAlone, Migration!Work
      <3>2. db.work + 1 \in 0..MaxWork
        BY <2>1, <3>1, MigrationConstants
      <3>3. db' \in [schema : {0, 6} \cup 3..5, work : 0..MaxWork] /\ db'.schema = 6
        BY <2>1, <3>1, <3>2
      <3> QED BY <2>2, <3>1, <3>3 DEF Migration!Work, MigrationInv, Migration!TypeOK
    <2>3. CASE Migration!StartDaemon
      BY <2>1, <2>3 DEF Migration!StartDaemon, Migration!Current, Migration!disk
    <2>4. CASE Migration!StopDaemon
      BY <2>1, <2>4 DEF Migration!StopDaemon, Migration!disk, MigrationInv, FilesExact, CommandAlone
    <2> QED BY <2>2, <2>3, <2>4
  <1>2. FilesExact'
    BY <1>1 DEF MigrationInv, FilesExact
  <1>3. CommandAlone' /\ CommandFits'
    BY <1>1 DEF MigrationInv, CommandAlone, CommandFits, Fits
  <1>4. ASSUME NEW p \in Commands PROVE CommandExactly(p)'
    <2>1. command'[p].pc \in {"idle", "done"}
      BY <1>1, MigrationConstants DEF MigrationInv, CommandAlone
    <2> QED BY <2>1 DEF CommandExactly, FromThree, FromFour
  <1>5. Migration!TypeOK'
    BY <1>1 DEF MigrationInv, Migration!TypeOK, Migration!Source, Migration!Current, Migration!Broken
  <1> QED BY <1>2, <1>3, <1>4, <1>5 DEF MigrationInv

LEMMA MigrationStep == MigrationInv /\ [Migration!Next]_(Migration!vars) => MigrationInv'
  <1> SUFFICES ASSUME MigrationInv, [Migration!Next]_(Migration!vars) PROVE MigrationInv'
    OBVIOUS
  <1>1. CASE UNCHANGED Migration!vars
    <2>1. Migration!TypeOK'
      BY <1>1 DEF MigrationInv, Migration!TypeOK, Migration!vars
    <2>2. CommandAlone' /\ CommandFits' /\ FilesExact'
      BY <1>1 DEF MigrationInv, CommandAlone, CommandFits, Fits, FilesExact, Migration!vars
    <2>3. \A p \in Commands : CommandExactly(p)'
      BY <1>1 DEF MigrationInv, CommandExactly, FromThree, FromFour, Migration!vars
    <2> QED BY <2>1, <2>2, <2>3 DEF MigrationInv
  <1>2. ASSUME NEW p \in Commands, Migration!Step(p) PROVE MigrationInv'
    BY <1>2, AcquireCommand, RecoverCommand, RecoverMarkCommand, RecoverForgetCommand, InspectCommand,
       CreateBackupCommand, EnsureBackupCommand, ReplaceBackupCommand, CopyCommand, ConvertCommand, PrepareCommand,
       ExchangeCommand, MarkExchangedCommand, MarkValidatedCommand, ValidatePublishedCommand, ExchangeBackCommand,
       RemoveCandidateCommand, MarkCompleteCommand, EndCommand DEF Migration!Step
  <1> QED BY <1>1, <1>2, FailCommand, StopCommand, DamageCommand, DaemonCommand DEF Migration!Next

LEMMA MigrationSays ==
  MigrationInv => Migration!TypeOK /\ Migration!NothingLost /\ Migration!BackedUp /\ Migration!RecoveryDecides
  <1> SUFFICES ASSUME MigrationInv
               PROVE  Migration!TypeOK /\ Migration!NothingLost /\ Migration!BackedUp /\ Migration!RecoveryDecides
    OBVIOUS
  <1> USE DEF Migration!Broken, Migration!Current
  <1>1. Migration!NothingLost
    BY FileTypes DEF MigrationInv, FilesExact, Migration!NothingLost
  <1>2. Migration!BackedUp
    BY FileTypes DEF MigrationInv, FilesExact, Migration!BackedUp
  <1>3. Migration!RecoveryDecides
    BY DEF MigrationInv, FilesExact, Migration!RecoveryDecides, Migration!BackupIsExact
  <1> QED BY <1>1, <1>2, <1>3 DEF MigrationInv

\* The database at the path is changed while no work is in it, or by the work of the daemon.
LEMMA WorkSurvives ==
  ASSUME MigrationInv, Migration!Next, db.work > 0
  PROVE  db'.schema = 6 /\ db'.work >= db.work
  <1>1. db.schema = 6 /\ db.work \in Nat /\ db \in [schema : {0, 6} \cup 3..5, work : 0..MaxWork]
    <2>1. db \in [schema : {0, 6} \cup 3..5, work : 0..MaxWork]
      BY DEF MigrationInv, Migration!TypeOK, Migration!Source, Migration!Broken, Migration!Current
    <2>2. db.work \in Nat
      BY <2>1, MigrationConstants
    <2> QED BY <2>1, <2>2 DEF MigrationInv, FilesExact
  <1>2. CASE db' = db
    BY <1>1, <1>2
  <1>3. CASE Migration!Work
    BY <1>1, <1>3 DEF Migration!Work
  <1>4. ASSUME NEW p \in Commands PROVE ~Migration!Exchange(p) /\ ~Migration!ExchangeBack(p)
    BY <1>1, FileTypes, CommandOrigin
       DEF MigrationInv, CommandExactly, FromThree, FromFour, Migration!Exchange, Migration!ExchangeBack, Migration!At
  <1>5. ASSUME NEW p \in Commands, Migration!Recover(p) PROVE db' = db
    BY <1>1, <1>5 DEF Migration!Recover, Migration!Broken
  <1>6. ~Migration!Damage
    <2>1. SUFFICES ASSUME Migration!Damage PROVE FALSE
      OBVIOUS
    <2>2. db.work = 0
      BY <2>1 DEF Migration!Damage
    <2> QED BY <2>2
  <1>7. ASSUME NEW p \in Commands, Migration!Step(p) PROVE db' = db
    BY <1>4, <1>5, <1>7 DEF Migration!Step, Migration!Acquire, Migration!RecoverMark, Migration!RecoverForget, Migration!Inspect,
       Migration!CreateBackup, Migration!EnsureBackup, Migration!ReplaceBackup, Migration!Copy, Migration!Convert,
       Migration!Prepare, Migration!MarkExchanged, Migration!MarkValidated, Migration!MarkComplete, Migration!Phase,
       Migration!ValidatePublished, Migration!RemoveCandidate, Migration!Finish, Migration!FindDamage, Migration!disk
  <1>8. ASSUME NEW p \in Commands, Migration!Fail(p) \/ Migration!Stop(p) PROVE db' = db
    BY <1>8 DEF Migration!Fail, Migration!Stop
  <1>9. ASSUME Migration!StartDaemon \/ Migration!StopDaemon PROVE db' = db
    BY <1>9 DEF Migration!StartDaemon, Migration!StopDaemon, Migration!disk
  <1> QED BY <1>2, <1>3, <1>6, <1>7, <1>8, <1>9 DEF Migration!Next

\* MigrationsExact: whatever number of migrations is started, fails or stops, and at whatever step, the path has a
\* database that validates or its source is where the recovery finds it, a migrated database has the backup of its
\* source, a recovery meets no state it cannot resolve, and work committed in the migrated database stays
\* (migrate_schema3, migrate_schema4, migrate_schema5, recover_schema3_publication).
THEOREM MigrationsExact == MCSpec => MigrationExact
  <1>1. MCInit => MigrationInv
    BY MigrationStart DEF MCInit
  <1>2. [MCNext]_<<part, vars, migrationVars, startVars, apiVars, alertVars>> => [Migration!Next]_(Migration!vars)
    BY DEF MCNext, migrationVars, Migration!vars
  <1>3. MigrationInv /\ [Migration!Next]_(Migration!vars) =>
          [db.work > 0 => db'.schema = Migration!Current /\ db'.work >= db.work]_(Migration!vars)
    BY WorkSurvives DEF Migration!Current
  <1> QED BY <1>1, <1>2, <1>3, MigrationStep, MigrationSays, PTL
      DEF MCSpec, MigrationExact, Migration!Exact, Migration!WorkKept

-----------------------------------------------------------------------------
(* The server of the API: what ApiProofs proves of ControlApi holds of its    *)
(* two instances.                                                             *)

CrowdProofs == INSTANCE ApiProofs
  WITH MaxClients <- 1, QueueBound <- 1, Room <- 1, Limit <- 1, Oldest <- 3, MaxEvents <- MaxWatched, Start <- {2},
       MaxConnects <- 1, CanStall <- TRUE

WatcherProofs == INSTANCE ApiProofs
  WITH Clients <- OneClient, Kinds <- {"watch"}, CanFail <- TRUE, MaxClients <- 1, QueueBound <- 1, Room <- 1,
       Limit <- 2, Oldest <- 3, MaxEvents <- 7, Start <- {0, 1, 2}, MaxConnects <- 3, CanStall <- TRUE

\* The instances that ApiProofs is about are the ones that are checked.
LEMMA SameCrowd ==
  /\ CrowdProofs!ConstantsOK
  /\ Crowd!Init => CrowdProofs!Init
  /\ Crowd!Next => CrowdProofs!Next
  /\ UNCHANGED apiVars => UNCHANGED CrowdProofs!vars
  /\ CrowdProofs!TypeOK /\ CrowdProofs!Exact => Crowd!TypeOK /\ Crowd!Exact
  <1>1. CrowdProofs!ConstantsOK
    BY ApiAssumption DEF Crowd!ConstantsOK, CrowdProofs!ConstantsOK, Crowd!IsFiniteSet, CrowdProofs!IsFiniteSet
  <1>2. Crowd!Init => CrowdProofs!Init
    BY DEF Crowd!Init, CrowdProofs!Init, Crowd!NoCon, CrowdProofs!NoCon
  <1>3. ASSUME NEW c \in Clients, Crowd!Worker(c) PROVE CrowdProofs!Worker(c)
    BY <1>3 DEF Crowd!Worker, CrowdProofs!Worker, Crowd!SeesShutdown, CrowdProofs!SeesShutdown, Crowd!BadRequest,
       CrowdProofs!BadRequest, Crowd!Call, CrowdProofs!Call, Crowd!WatchExpired, CrowdProofs!WatchExpired,
       Crowd!WatchStart, CrowdProofs!WatchStart, Crowd!Unblock, CrowdProofs!Unblock, Crowd!WriteFails,
       CrowdProofs!WriteFails, Crowd!StopWatch, CrowdProofs!StopWatch, Crowd!Disconnect, CrowdProofs!Disconnect,
       Crowd!SendEvents, CrowdProofs!SendEvents, Crowd!JoinProducer, CrowdProofs!JoinProducer, Crowd!End,
       CrowdProofs!End, Crowd!Write, CrowdProofs!Write, Crowd!Frame, CrowdProofs!Frame, Crowd!Expired,
       CrowdProofs!Expired, Crowd!server, CrowdProofs!server, Crowd!CanWrite, CrowdProofs!CanWrite, Crowd!Send,
       CrowdProofs!Send, Crowd!After, CrowdProofs!After, Crowd!Resume, CrowdProofs!Resume, Crowd!Finish,
       CrowdProofs!Finish
  <1>4. ASSUME NEW c \in Clients, Crowd!Producer(c) PROVE CrowdProofs!Producer(c)
    BY <1>4 DEF Crowd!Producer, CrowdProofs!Producer, Crowd!Produce, CrowdProofs!Produce, Crowd!ProducerFails,
       CrowdProofs!ProducerFails, Crowd!ProducerStops, CrowdProofs!ProducerStops, Crowd!Batch, CrowdProofs!Batch,
       Crowd!Frame, CrowdProofs!Frame, Crowd!server, CrowdProofs!server, Crowd!Last, CrowdProofs!Last
  <1>5. ASSUME NEW c \in Clients
        PROVE  /\ \A kind : Crowd!Connect(c, kind) => CrowdProofs!Connect(c, kind)
               /\ \A how : Crowd!Stall(c, how) => CrowdProofs!Stall(c, how)
               /\ Crowd!ReadFrame(c) => CrowdProofs!ReadFrame(c)
               /\ Crowd!Hangup(c) => CrowdProofs!Hangup(c)
    BY DEF Crowd!Connect, CrowdProofs!Connect, Crowd!ReadFrame, CrowdProofs!ReadFrame, Crowd!Stall, CrowdProofs!Stall,
       Crowd!Hangup, CrowdProofs!Hangup, Crowd!NoCon, CrowdProofs!NoCon, Crowd!server, CrowdProofs!server,
       Crowd!Worker, CrowdProofs!Worker, Crowd!SeesShutdown, CrowdProofs!SeesShutdown, Crowd!BadRequest,
       CrowdProofs!BadRequest, Crowd!Call, CrowdProofs!Call, Crowd!WatchExpired, CrowdProofs!WatchExpired,
       Crowd!WatchStart, CrowdProofs!WatchStart, Crowd!Unblock, CrowdProofs!Unblock, Crowd!WriteFails,
       CrowdProofs!WriteFails, Crowd!StopWatch, CrowdProofs!StopWatch, Crowd!Disconnect, CrowdProofs!Disconnect,
       Crowd!SendEvents, CrowdProofs!SendEvents, Crowd!JoinProducer, CrowdProofs!JoinProducer, Crowd!End,
       CrowdProofs!End, Crowd!Write, CrowdProofs!Write, Crowd!Frame, CrowdProofs!Frame, Crowd!Expired,
       CrowdProofs!Expired, Crowd!CanWrite, CrowdProofs!CanWrite, Crowd!Send, CrowdProofs!Send, Crowd!After,
       CrowdProofs!After, Crowd!Resume, CrowdProofs!Resume, Crowd!Finish, CrowdProofs!Finish
  <1>6. Crowd!Loop => CrowdProofs!Loop
    BY DEF Crowd!Loop, CrowdProofs!Loop, Crowd!StopServing, CrowdProofs!StopServing, Crowd!Return, CrowdProofs!Return,
       Crowd!Accept, CrowdProofs!Accept, Crowd!Refuse, CrowdProofs!Refuse, Crowd!Collect, CrowdProofs!Collect,
       Crowd!NoCon, CrowdProofs!NoCon, Crowd!Admits, CrowdProofs!Admits, Crowd!Registered, CrowdProofs!Registered,
       Crowd!CanWrite, CrowdProofs!CanWrite, Crowd!Frame, CrowdProofs!Frame
  <1>7. Crowd!AppendEvent \/ Crowd!Daemon \/ Crowd!DaemonFails =>
          CrowdProofs!AppendEvent \/ CrowdProofs!Daemon \/ CrowdProofs!DaemonFails
    BY DEF Crowd!AppendEvent, CrowdProofs!AppendEvent, Crowd!Daemon, CrowdProofs!Daemon, Crowd!DaemonFails,
       CrowdProofs!DaemonFails, Crowd!server, CrowdProofs!server, Crowd!Check, CrowdProofs!Check, Crowd!Dropped,
       CrowdProofs!Dropped
  <1>8. Crowd!Next => CrowdProofs!Next
    BY <1>3, <1>4, <1>5, <1>6, <1>7 DEF Crowd!Next, CrowdProofs!Next
  <1>9. UNCHANGED apiVars => UNCHANGED CrowdProofs!vars
    BY DEF apiVars, CrowdProofs!vars
  <1>10. CrowdProofs!TypeOK => Crowd!TypeOK
    BY DEF Crowd!TypeOK, CrowdProofs!TypeOK, Crowd!Pcs, CrowdProofs!Pcs
  <1>11. CrowdProofs!Exact => Crowd!Exact
    BY DEF Crowd!Exact, CrowdProofs!Exact, Crowd!PermitsExact, CrowdProofs!PermitsExact, Crowd!Quiesced,
       CrowdProofs!Quiesced, Crowd!CutOff, CrowdProofs!CutOff, Crowd!NoGap, CrowdProofs!NoGap, Crowd!Running,
       CrowdProofs!Running, Crowd!Cardinality, CrowdProofs!Cardinality, Crowd!Last, CrowdProofs!Last
  <1> QED BY <1>1, <1>2, <1>8, <1>9, <1>10, <1>11

LEMMA SameWatcher ==
  /\ WatcherProofs!ConstantsOK
  /\ Watcher!Init => WatcherProofs!Init
  /\ Watcher!Next => WatcherProofs!Next
  /\ UNCHANGED apiVars => UNCHANGED WatcherProofs!vars
  /\ WatcherProofs!TypeOK /\ WatcherProofs!Exact => Watcher!TypeOK /\ Watcher!Exact
  <1>1. WatcherProofs!ConstantsOK
    BY ApiAssumption DEF Watcher!ConstantsOK, WatcherProofs!ConstantsOK, Watcher!IsFiniteSet, WatcherProofs!IsFiniteSet
  <1>2. Watcher!Init => WatcherProofs!Init
    BY DEF Watcher!Init, WatcherProofs!Init, Watcher!NoCon, WatcherProofs!NoCon
  <1>3. ASSUME NEW c \in OneClient, Watcher!Worker(c) PROVE WatcherProofs!Worker(c)
    BY <1>3 DEF Watcher!Worker, WatcherProofs!Worker, Watcher!SeesShutdown, WatcherProofs!SeesShutdown, Watcher!BadRequest,
       WatcherProofs!BadRequest, Watcher!Call, WatcherProofs!Call, Watcher!WatchExpired,
       WatcherProofs!WatchExpired, Watcher!WatchStart, WatcherProofs!WatchStart, Watcher!Unblock,
       WatcherProofs!Unblock, Watcher!WriteFails, WatcherProofs!WriteFails, Watcher!StopWatch,
       WatcherProofs!StopWatch, Watcher!Disconnect, WatcherProofs!Disconnect, Watcher!SendEvents,
       WatcherProofs!SendEvents, Watcher!JoinProducer, WatcherProofs!JoinProducer, Watcher!End, WatcherProofs!End,
       Watcher!Write, WatcherProofs!Write, Watcher!Frame, WatcherProofs!Frame, Watcher!Expired,
       WatcherProofs!Expired, Watcher!server, WatcherProofs!server, Watcher!CanWrite, WatcherProofs!CanWrite,
       Watcher!Send, WatcherProofs!Send, Watcher!After, WatcherProofs!After, Watcher!Resume, WatcherProofs!Resume,
       Watcher!Finish, WatcherProofs!Finish
  <1>4. ASSUME NEW c \in OneClient, Watcher!Producer(c) PROVE WatcherProofs!Producer(c)
    BY <1>4 DEF Watcher!Producer, WatcherProofs!Producer, Watcher!Produce, WatcherProofs!Produce, Watcher!ProducerFails,
       WatcherProofs!ProducerFails, Watcher!ProducerStops, WatcherProofs!ProducerStops, Watcher!Batch,
       WatcherProofs!Batch, Watcher!Frame, WatcherProofs!Frame, Watcher!server, WatcherProofs!server, Watcher!Last,
       WatcherProofs!Last
  <1>5. ASSUME NEW c \in OneClient
        PROVE  /\ \A kind : Watcher!Connect(c, kind) => WatcherProofs!Connect(c, kind)
               /\ \A how : Watcher!Stall(c, how) => WatcherProofs!Stall(c, how)
               /\ Watcher!ReadFrame(c) => WatcherProofs!ReadFrame(c)
               /\ Watcher!Hangup(c) => WatcherProofs!Hangup(c)
    BY DEF Watcher!Connect, WatcherProofs!Connect, Watcher!ReadFrame, WatcherProofs!ReadFrame, Watcher!Stall,
       WatcherProofs!Stall, Watcher!Hangup, WatcherProofs!Hangup, Watcher!NoCon, WatcherProofs!NoCon,
       Watcher!server, WatcherProofs!server, Watcher!Worker, WatcherProofs!Worker, Watcher!SeesShutdown,
       WatcherProofs!SeesShutdown, Watcher!BadRequest, WatcherProofs!BadRequest, Watcher!Call, WatcherProofs!Call,
       Watcher!WatchExpired, WatcherProofs!WatchExpired, Watcher!WatchStart, WatcherProofs!WatchStart,
       Watcher!Unblock, WatcherProofs!Unblock, Watcher!WriteFails, WatcherProofs!WriteFails, Watcher!StopWatch,
       WatcherProofs!StopWatch, Watcher!Disconnect, WatcherProofs!Disconnect, Watcher!SendEvents,
       WatcherProofs!SendEvents, Watcher!JoinProducer, WatcherProofs!JoinProducer, Watcher!End, WatcherProofs!End,
       Watcher!Write, WatcherProofs!Write, Watcher!Frame, WatcherProofs!Frame, Watcher!Expired,
       WatcherProofs!Expired, Watcher!CanWrite, WatcherProofs!CanWrite, Watcher!Send, WatcherProofs!Send,
       Watcher!After, WatcherProofs!After, Watcher!Resume, WatcherProofs!Resume, Watcher!Finish,
       WatcherProofs!Finish
  <1>6. Watcher!Loop => WatcherProofs!Loop
    BY DEF Watcher!Loop, WatcherProofs!Loop, Watcher!StopServing, WatcherProofs!StopServing, Watcher!Return,
       WatcherProofs!Return, Watcher!Accept, WatcherProofs!Accept, Watcher!Refuse, WatcherProofs!Refuse,
       Watcher!Collect, WatcherProofs!Collect, Watcher!NoCon, WatcherProofs!NoCon, Watcher!Admits,
       WatcherProofs!Admits, Watcher!Registered, WatcherProofs!Registered, Watcher!CanWrite,
       WatcherProofs!CanWrite, Watcher!Frame, WatcherProofs!Frame
  <1>7. Watcher!AppendEvent \/ Watcher!Daemon \/ Watcher!DaemonFails =>
          WatcherProofs!AppendEvent \/ WatcherProofs!Daemon \/ WatcherProofs!DaemonFails
    BY DEF Watcher!AppendEvent, WatcherProofs!AppendEvent, Watcher!Daemon, WatcherProofs!Daemon, Watcher!DaemonFails,
       WatcherProofs!DaemonFails, Watcher!server, WatcherProofs!server, Watcher!Check, WatcherProofs!Check,
       Watcher!Dropped, WatcherProofs!Dropped
  <1>8. Watcher!Next => WatcherProofs!Next
    BY <1>3, <1>4, <1>5, <1>6, <1>7 DEF Watcher!Next, WatcherProofs!Next
  <1>9. UNCHANGED apiVars => UNCHANGED WatcherProofs!vars
    BY DEF apiVars, WatcherProofs!vars
  <1>10. WatcherProofs!TypeOK => Watcher!TypeOK
    BY DEF Watcher!TypeOK, WatcherProofs!TypeOK, Watcher!Pcs, WatcherProofs!Pcs
  <1>11. WatcherProofs!Exact => Watcher!Exact
    BY DEF Watcher!Exact, WatcherProofs!Exact, Watcher!PermitsExact, WatcherProofs!PermitsExact, Watcher!Quiesced,
       WatcherProofs!Quiesced, Watcher!CutOff, WatcherProofs!CutOff, Watcher!NoGap, WatcherProofs!NoGap,
       Watcher!Running, WatcherProofs!Running, Watcher!Cardinality, WatcherProofs!Cardinality, Watcher!Last,
       WatcherProofs!Last
  <1> QED BY <1>1, <1>2, <1>8, <1>9, <1>10, <1>11

\* ApiExactAlways: in a crowd of any number of clients, and for one that is cut off and resumes, permits, streams and
\* errors are accounted for until the server has returned, a shutdown reaches every worker, and a client reads every
\* event once and in order, whatever it or a producer does (serve, stream_events, ApiShutdown).
THEOREM ApiExactAlways == MCSpec => ApiExact
  <1> DEFINE CrowdInv == part = "crowd" => CrowdProofs!ApiInv
             WatcherInv == part = "watcher" => WatcherProofs!ApiInv
  <1>1. MCInit => CrowdInv /\ WatcherInv
    BY SameCrowd, SameWatcher, CrowdProofs!ApiInit, WatcherProofs!ApiInit DEF MCInit
  <1>2. CrowdInv /\ [MCNext]_<<part, vars, migrationVars, startVars, apiVars, alertVars>> => CrowdInv'
    <2>1. [MCNext]_<<part, vars, migrationVars, startVars, apiVars, alertVars>> /\ part' = "crowd" =>
            part = "crowd" /\ [CrowdProofs!Next]_(CrowdProofs!vars)
      BY SameCrowd DEF MCNext
    <2> QED BY <2>1, SameCrowd, CrowdProofs!ApiNext
  <1>3. WatcherInv /\ [MCNext]_<<part, vars, migrationVars, startVars, apiVars, alertVars>> => WatcherInv'
    <2>1. [MCNext]_<<part, vars, migrationVars, startVars, apiVars, alertVars>> /\ part' = "watcher" =>
            part = "watcher" /\ [WatcherProofs!Next]_(WatcherProofs!vars)
      BY SameWatcher DEF MCNext
    <2> QED BY <2>1, SameWatcher, WatcherProofs!ApiNext
  <1>4. CrowdInv => (part = "crowd" => Crowd!TypeOK /\ Crowd!Exact)
    BY SameCrowd, CrowdProofs!ApiSays
  <1>5. WatcherInv => (part = "watcher" => Watcher!TypeOK /\ Watcher!Exact)
    BY SameWatcher, WatcherProofs!ApiSays
  <1> HIDE DEF CrowdInv, WatcherInv
  <1> QED BY <1>1, <1>2, <1>3, <1>4, <1>5, PTL DEF MCSpec, ApiExact
=============================================================================
