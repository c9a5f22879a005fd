-------------------------- MODULE RunnerLaunchProofs --------------------------
(***************************************************************************)
(* Proofs about RunnerLaunch, for every set of processes and number of     *)
(* cycles: an agent that runs and a launcher that may start one are known  *)
(* to a durable row, and what cancellation ended does not come back,       *)
(* whatever process dies and however restarts, cancellations and systemd   *)
(* interleave with a launch.                                               *)
(***************************************************************************)
EXTENDS RunnerLaunch, TLAPS

-----------------------------------------------------------------------------
(* The inductive invariant *)

\* The operation lock: one process at most is not at rest, and what it does is about
\* the current cycle.
OneWorks ==
  \A p \in alive : ~AtRest(p) =>
    /\ proc[p].cycle = eff.cycle /\ eff.cycle \in Cycle
    /\ \A q \in alive : q = p \/ AtRest(q)
    /\ proc[p].pc \notin {"resetting", "consuming"} => launcher[eff.cycle] = p

\* A launch is of a cycle, and the next cycle is one.
CycleExists ==
  /\ eff.state \in {"launching", "running"} => eff.cycle \in Cycle
  /\ eff.state = "ready" => eff.cycle < MaxCycle

\* Nothing is there of the cycles to come.
FutureBlank ==
  \A c \in Cycle : c > eff.cycle => child[c] = "none" /\ unit[c] = "missing" /\ gate[c] = "closed"

\* A debt is of the cancelled cycle.
DebtIsCurrent == debt # None => eff.state = "cancelled" /\ debt.cycle = eff.cycle

\* A running cycle, or the debt of one, had its service started.
StartedIsDone ==
  /\ eff.state = "running" => child[eff.cycle] = "done"
  /\ debt # None /\ debt.kind = "service" => child[eff.cycle] = "done"

\* The cycle that is running, or whose service the debt names.
Accounted(c) ==
  \/ eff.state = "running" /\ eff.cycle = c
  \/ eff.state = "cancelled" /\ debt = [kind |-> "service", cycle |-> c]

\* What a service needs to run its agent, and what holds when it may.
GateExact ==
  \A c \in Cycle :
    /\ Active(c) => child[c] = "done"
    /\ gate[c] = "run" => child[c] = "done"
    /\ unit[c] = "executing" => gate[c] = "run"
    /\ gate[c] = "run" /\ Active(c) => Accounted(c)

\* No gate opens before the start is recorded.
GateShut ==
  /\ eff.state = "launching" => gate[eff.cycle] # "run"
  /\ debt # None /\ debt.kind = "launching" => gate[eff.cycle] # "run"

\* What a live launcher or a restart has found or left behind at each step.
StepOf(p) ==
  LET c == proc[p].cycle IN
  /\ proc[p].pc \in {"prepared", "surrendered", "authorized"} =>
       child[c] = "none" /\ unit[c] = "missing" /\ gate[c] = "closed"
  /\ proc[p].pc \in {"active", "recorded", "consuming"} => child[c] = "done"
  /\ proc[p].pc = "recorded" =>
       \/ Accounted(c)
       \/ eff.state = "cancelled" /\ debt = None /\ ~Active(c)
  /\ proc[p].pc \in {"finishing", "consuming"} => ~Active(c)
  /\ proc[p].pc \in {"supervising", "finishing"} => gate[c] = "run"
  /\ proc[p].pc = "failed" => child[c] # "pending"

StepExact == \A p \in alive : StepOf(p)

\* AuthorityHeld, one kind of step at a time.
AuthorityOf(p) ==
  /\ proc[p].pc = "prepared" =>
       Launching(p, "open") \/ (eff.state = "cancelled" /\ DebtIs(p, "close_requested"))
  /\ proc[p].pc \in {"surrendered", "authorized", "spawned", "active"} =>
       Launching(p, "surrendered") \/ (eff.state = "cancelled" /\ DebtIs(p, "surrendered"))

AuthorityKept == \A p \in alive : AuthorityOf(p)

\* A reconciler that stopped what it read found a service that cannot come back, a
\* launcher that is dead, or spawn authority that is closed.
ReconcilerExact ==
  rec.debt # None =>
    /\ eff.state = "cancelled" /\ rec.debt.cycle = eff.cycle
    /\ rec.debt.kind = "service" =>
         child[eff.cycle] = "done" /\ (rec.stopped => ~Active(eff.cycle))
    /\ (rec.debt.kind = "launching" /\ rec.debt.spawn # "closed" /\ rec.stopped) =>
         launcher[eff.cycle] \notin alive

\* LaunchInv: the strengthening that makes LaunchExact and SpawnClosed inductive.
LaunchInv ==
  /\ TypeOK
  /\ OneWorks /\ CycleExists /\ FutureBlank
  /\ DebtIsCurrent /\ StartedIsDone
  /\ GateExact /\ GateShut
  /\ StepExact
  /\ ReconcilerExact
  /\ AuthorityKept
  /\ SpawnClosed

-----------------------------------------------------------------------------
(* The steps *)

\* A process that is not at rest works on the current cycle, and alone.
LEMMA Worker ==
  ASSUME LaunchInv, NEW p \in Procs, p \in alive, proc[p].pc \notin {"idle", "abandoned"}
  PROVE  /\ proc[p].cycle = eff.cycle /\ eff.cycle \in Cycle
         /\ \A r \in alive : r = p \/ proc[r].pc \in {"idle", "abandoned"}
         /\ proc[p].pc \notin {"resetting", "consuming"} => launcher[eff.cycle] = p
  BY DEF LaunchInv, OneWorks, At, AtRest

\* A move of one process leaves the others and its cycle alone.
LEMMA Moves ==
  ASSUME LaunchInv, NEW p \in Procs, NEW pc \in Step, Goto(p, pc)
  PROVE  /\ proc' \in [Procs -> [pc : Step, cycle : 0..MaxCycle]]
         /\ proc'[p].pc = pc /\ proc'[p].cycle = proc[p].cycle
         /\ \A r \in Procs : r # p => proc'[r] = proc[r]
  BY DEF LaunchInv, TypeOK, Goto

LEMMA InvPrepare ==
  ASSUME LaunchInv, NEW p \in Procs, Prepare(p)
  PROVE  LaunchInv'
  <1> USE MaxCycleAssumption, NoneAssumption DEF LaunchInv, TypeOK
  <1>1. /\ p \in alive /\ \A r \in alive : proc[r].pc \in {"idle", "abandoned"}
        /\ eff.state = "ready" /\ eff.cycle + 1 \in Cycle /\ eff.cycle \in 0..MaxCycle
        /\ eff' = [state |-> "launching", cycle |-> eff.cycle + 1, spawn |-> "open"]
        /\ launcher' = [launcher EXCEPT ![eff.cycle + 1] = p]
        /\ proc' = [proc EXCEPT ![p] = [pc |-> "prepared", cycle |-> eff.cycle + 1]]
        /\ UNCHANGED <<debt, alive, child, unit, gate, rec>>
    BY DEF Prepare, LockFree, At, AtRest, CycleExists, EffortRow, Cycle, system
  <1>2. /\ proc'[p].pc = "prepared" /\ proc'[p].cycle = eff.cycle + 1
        /\ launcher'[eff.cycle + 1] = p
        /\ \A r \in alive : r # p => proc'[r].pc \in {"idle", "abandoned"}
    BY <1>1
  <1>3. eff' \in EffortRow
    BY <1>1 DEF EffortRow, Cycle
  <1>4. proc' \in [Procs -> [pc : Step, cycle : 0..MaxCycle]]
    BY <1>1 DEF Step, Cycle
  <1>5. launcher' \in [Cycle -> Procs \cup {None}]
    BY <1>1
  <1>6. TypeOK'
    BY <1>3, <1>4, <1>5 DEF system, Prepare
  <1>7. SpawnClosed'
    BY DEF SpawnClosed, Active, system, Prepare
  <1>8. OneWorks'
    BY <1>1 DEF OneWorks, At, AtRest
  <1>9. CycleExists'
    BY <1>1 DEF CycleExists
  <1>10. DebtIsCurrent'
    BY <1>1 DEF DebtIsCurrent
  <1>11. FutureBlank'
    BY <1>1 DEF FutureBlank, Cycle
  <1>12. StartedIsDone'
    BY <1>1 DEF StartedIsDone, DebtIsCurrent
  <1>13. GateExact'
    BY <1>1 DEF GateExact, Accounted, Active
  <1>14. GateShut'
    BY <1>1 DEF GateShut, FutureBlank
  <1>15. StepExact'
    <2>1. StepOf(p)'
      BY <1>1 DEF StepOf, FutureBlank
    <2> QED BY <1>1, <2>1 DEF StepExact, StepOf
  <1>16. ReconcilerExact'
    BY <1>1 DEF ReconcilerExact
  <1>17. AuthorityKept'
    BY <1>1 DEF AuthorityKept, AuthorityOf, Launching, Holds
  <1> QED BY <1>6, <1>7, <1>8, <1>9, <1>10, <1>11, <1>12, <1>13, <1>14, <1>15, <1>16, <1>17

LEMMA InvLaunchFails ==
  ASSUME LaunchInv, NEW p \in Procs, LaunchFails(p)
  PROVE  LaunchInv'
  <1> USE MaxCycleAssumption, NoneAssumption DEF LaunchInv, TypeOK, LaunchFails, At, AtRest, Holds,
            Launching, DebtIs, LockFree, Released, durable, system
  <1>1. /\ p \in alive /\ proc[p].pc \notin {"idle", "abandoned"}
        /\ proc[p].cycle = eff.cycle /\ eff.cycle \in Cycle
        /\ \A r \in alive : r = p \/ proc[r].pc \in {"idle", "abandoned"}
        /\ proc[p].pc \notin {"resetting", "consuming"} => launcher[eff.cycle] = p
    BY Worker
  <1>2. /\ proc' \in [Procs -> [pc : Step, cycle : 0..MaxCycle]]
        /\ proc'[p].pc \in {"abandoned"} /\ proc'[p].cycle = proc[p].cycle
        /\ \A r \in Procs : r # p => proc'[r] = proc[r]
    BY Moves DEF Step
  <1>3. gate' \in [Cycle -> {"closed", "held", "run"}]
    BY <1>1
  <1>4. TypeOK'
    BY <1>3, <1>2
  <1>5. CycleExists' /\ DebtIsCurrent' /\ StartedIsDone' /\ ReconcilerExact' /\ SpawnClosed'
    BY DEF CycleExists, DebtIsCurrent, StartedIsDone, ReconcilerExact, Active, SpawnClosed
  <1>6. OneWorks'
    BY <1>2 DEF OneWorks
  <1>7. FutureBlank'
    BY DEF FutureBlank
  <1>8. GateExact'
    BY DEF GateExact, Accounted, Active
  <1>9. GateShut'
    BY DEF GateShut
  <1>10. StepExact'
    <2>1. StepOf(p)'
      BY <1>2 DEF StepOf
    <2>2. \A r \in alive' : r # p => proc'[r].pc \in {"idle", "abandoned"}
      BY <1>1, <1>2
    <2> QED BY <2>1, <2>2 DEF StepExact, StepOf
  <1>11. AuthorityKept'
    <2>1. AuthorityOf(p)'
      BY <1>2 DEF AuthorityOf
    <2>2. \A r \in alive' : r # p => proc'[r].pc \in {"idle", "abandoned"}
      BY <1>1, <1>2
    <2> QED BY <2>1, <2>2 DEF AuthorityKept, AuthorityOf
  <1> QED BY <1>4, <1>5, <1>6, <1>7, <1>8, <1>9, <1>10, <1>11

LEMMA InvSurrender ==
  ASSUME LaunchInv, NEW p \in Procs, Surrender(p)
  PROVE  LaunchInv'
  <1> USE MaxCycleAssumption, NoneAssumption DEF LaunchInv, TypeOK
  <1>1. /\ p \in alive /\ proc[p].pc \notin {"idle", "abandoned"}
        /\ proc[p].cycle = eff.cycle /\ eff.cycle \in Cycle
        /\ \A r \in alive : r = p \/ proc[r].pc \in {"idle", "abandoned"}
        /\ proc[p].pc \notin {"resetting", "consuming"} => launcher[eff.cycle] = p
    BY Worker DEF Surrender, At
  <1>2. /\ proc' \in [Procs -> [pc : Step, cycle : 0..MaxCycle]]
        /\ proc'[p].pc \in {"surrendered", "idle"} /\ proc'[p].cycle = proc[p].cycle
        /\ \A r \in Procs : r # p => proc'[r] = proc[r]
    BY Moves DEF Surrender, Step
  <1>3. /\ eff' \in EffortRow /\ eff'.cycle = eff.cycle /\ eff'.state = eff.state
        /\ \/ /\ proc[p].pc = "prepared" /\ proc'[p].pc = "surrendered" /\ UNCHANGED debt
              /\ eff.state = "launching" /\ eff'.spawn = "surrendered"
           \/ /\ proc[p].pc = "prepared" /\ proc'[p].pc = "idle" /\ UNCHANGED eff
              /\ eff.state = "cancelled"
              /\ debt' = [kind |-> "launching", cycle |-> eff.cycle, spawn |-> "closed"]
        /\ UNCHANGED <<alive, launcher, child, unit, gate, rec>>
    BY <1>1 DEF Surrender, At, Goto, Launching, Holds, DebtIs, EffortRow, system
  <1>4. eff' \in EffortRow
    BY <1>3
  <1>5. debt' \in Debt \cup {None}
    BY <1>1, <1>3 DEF Debt
  <1>6. TypeOK'
    BY <1>4, <1>5, <1>2 DEF system, Surrender
  <1>7. OneWorks'
    BY <1>2, <1>3 DEF OneWorks, At, AtRest
  <1>8. CycleExists'
    BY <1>3 DEF CycleExists
  <1>9. DebtIsCurrent'
    BY <1>3 DEF DebtIsCurrent
  <1>10. FutureBlank'
    BY <1>3 DEF FutureBlank
  <1>11. StartedIsDone'
    BY <1>3 DEF StartedIsDone
  <1>12. GateExact'
    BY <1>1, <1>2, <1>3 DEF GateExact, GateShut, Accounted, Active, Stopped, StepExact, StepOf,
           OneWorks, FutureBlank, StartedIsDone, ReconcilerExact, DebtIsCurrent, Debt, EffortRow,
           Holds, Launching, DebtIs, At, AtRest
  <1>13. GateShut'
    BY <1>1, <1>3 DEF GateShut, StepExact, StepOf
  <1>14. StepExact'
    <2>1. StepOf(p)'
      BY <1>1, <1>2, <1>3 DEF StepExact, StepOf
    <2>2. \A r \in alive' : r # p => proc'[r].pc \in {"idle", "abandoned"}
      BY <1>1, <1>2 DEF Surrender
    <2> QED BY <2>1, <2>2 DEF StepExact, StepOf
  <1>15. ReconcilerExact'
    BY <1>3 DEF ReconcilerExact, Active
  <1>16. AuthorityKept'
    <2>1. AuthorityOf(p)'
      BY <1>1, <1>2, <1>3 DEF AuthorityOf, Holds, Launching
    <2>2. \A r \in alive' : r # p => proc'[r].pc \in {"idle", "abandoned"}
      BY <1>1, <1>2 DEF Surrender
    <2> QED BY <2>1, <2>2 DEF AuthorityKept, AuthorityOf
  <1>17. SpawnClosed'
    BY <1>1, <1>2, <1>3 DEF SpawnClosed, StepExact, StepOf, AuthorityKept, AuthorityOf, OneWorks,
           DebtIsCurrent, Active, Stopped, GateExact, EffortRow, Debt, Holds, Launching, DebtIs, At,
           AtRest
  <1> QED BY <1>6, <1>7, <1>8, <1>9, <1>10, <1>11, <1>12, <1>13, <1>14, <1>15, <1>16, <1>17

LEMMA InvRecheck ==
  ASSUME LaunchInv, NEW p \in Procs, Recheck(p)
  PROVE  LaunchInv'
  <1> USE MaxCycleAssumption, NoneAssumption DEF LaunchInv, TypeOK, Recheck, At, AtRest, Holds,
            Launching, DebtIs, LockFree, Released, durable, system
  <1>1. /\ p \in alive /\ proc[p].pc \notin {"idle", "abandoned"}
        /\ proc[p].cycle = eff.cycle /\ eff.cycle \in Cycle
        /\ \A r \in alive : r = p \/ proc[r].pc \in {"idle", "abandoned"}
        /\ proc[p].pc \notin {"resetting", "consuming"} => launcher[eff.cycle] = p
    BY Worker
  <1>2. /\ proc' \in [Procs -> [pc : Step, cycle : 0..MaxCycle]]
        /\ proc'[p].pc \in {"authorized", "failed"} /\ proc'[p].cycle = proc[p].cycle
        /\ \A r \in Procs : r # p => proc'[r] = proc[r]
    BY Moves DEF Step
  <1>3. TypeOK'
    BY <1>2
  <1>4. /\ CycleExists' /\ DebtIsCurrent' /\ FutureBlank' /\ StartedIsDone' /\ GateExact'
        /\ GateShut' /\ ReconcilerExact' /\ SpawnClosed'
    BY DEF CycleExists, DebtIsCurrent, FutureBlank, StartedIsDone, GateExact, Accounted, Active,
           GateShut, ReconcilerExact, SpawnClosed, durable, system, Recheck, Launching, Holds,
           DebtIs
  <1>5. OneWorks'
    BY <1>2 DEF OneWorks
  <1>6. StepExact'
    <2>1. StepOf(p)'
      BY <1>2 DEF StepExact, StepOf
    <2>2. \A r \in alive' : r # p => proc'[r].pc \in {"idle", "abandoned"}
      BY <1>1, <1>2
    <2> QED BY <2>1, <2>2 DEF StepExact, StepOf
  <1>7. AuthorityKept'
    <2>1. AuthorityOf(p)'
      BY <1>2 DEF AuthorityOf
    <2>2. \A r \in alive' : r # p => proc'[r].pc \in {"idle", "abandoned"}
      BY <1>1, <1>2
    <2> QED BY <2>1, <2>2 DEF AuthorityKept, AuthorityOf
  <1> QED BY <1>3, <1>4, <1>5, <1>6, <1>7

LEMMA InvSpawn ==
  ASSUME LaunchInv, NEW p \in Procs, Spawn(p)
  PROVE  LaunchInv'
  <1> USE MaxCycleAssumption, NoneAssumption DEF LaunchInv, TypeOK
  <1>1. /\ p \in alive /\ proc[p].pc \notin {"idle", "abandoned"}
        /\ proc[p].cycle = eff.cycle /\ eff.cycle \in Cycle
        /\ \A r \in alive : r = p \/ proc[r].pc \in {"idle", "abandoned"}
        /\ proc[p].pc \notin {"resetting", "consuming"} => launcher[eff.cycle] = p
    BY Worker DEF Spawn, At
  <1>2. /\ proc' \in [Procs -> [pc : Step, cycle : 0..MaxCycle]]
        /\ proc'[p].pc \in {"spawned", "failed"} /\ proc'[p].cycle = proc[p].cycle
        /\ \A r \in Procs : r # p => proc'[r] = proc[r]
    BY Moves DEF Spawn, Step
  <1>3. /\ proc[p].pc = "authorized" 
        /\ \/ /\ proc'[p].pc = "spawned"
              /\ child' = [child EXCEPT ![eff.cycle] = "pending"]
              /\ gate' = [gate EXCEPT ![eff.cycle] = "held"]
           \/ proc'[p].pc = "failed" /\ UNCHANGED <<child, gate>>
        /\ UNCHANGED <<eff, debt, alive, launcher, unit, rec>>
    BY <1>1 DEF Spawn, At, Goto, durable
  <1>4. child[eff.cycle] = "none" /\ unit[eff.cycle] = "missing" /\ gate[eff.cycle] = "closed"
    BY <1>1, <1>3 DEF StepExact, StepOf
  <1>5. debt # None => debt = [kind |-> "launching", cycle |-> eff.cycle, spawn |-> "surrendered"]
    BY <1>1, <1>3 DEF AuthorityKept, AuthorityOf, DebtIsCurrent, Launching, Holds, DebtIs
  <1>6. child' \in [Cycle -> {"none", "pending", "done"}]
    BY <1>1, <1>2, <1>3, <1>4, <1>5 DEF Cycle
  <1>7. gate' \in [Cycle -> {"closed", "held", "run"}]
    BY <1>1, <1>2, <1>3, <1>4, <1>5 DEF Cycle
  <1>8. TypeOK'
    BY <1>7, <1>2 DEF durable, Spawn
  <1>9. CycleExists' /\ DebtIsCurrent'
    BY DEF CycleExists, DebtIsCurrent, durable, Spawn
  <1>10. OneWorks'
    BY <1>2, <1>3 DEF OneWorks, At, AtRest
  <1>11. FutureBlank'
    BY <1>1, <1>3 DEF FutureBlank
  <1>12. StartedIsDone'
    BY <1>3, <1>4 DEF StartedIsDone
  <1>13. GateExact'
    BY <1>3, <1>4 DEF GateExact, Accounted, Active
  <1>14. GateShut'
    BY <1>3 DEF GateShut
  <1>15. StepExact'
    <2>1. StepOf(p)'
      BY <1>1, <1>2, <1>3, <1>4 DEF StepOf
    <2>2. \A r \in alive' : r # p => proc'[r].pc \in {"idle", "abandoned"}
      BY <1>1, <1>2 DEF Spawn
    <2> QED BY <2>1, <2>2 DEF StepExact, StepOf
  <1>16. ReconcilerExact'
    BY <1>3, <1>4 DEF ReconcilerExact
  <1>17. AuthorityKept'
    <2>1. AuthorityOf(p)'
      BY <1>1, <1>2, <1>3 DEF AuthorityKept, AuthorityOf, Holds, Launching, DebtIs
    <2>2. \A r \in alive' : r # p => proc'[r].pc \in {"idle", "abandoned"}
      BY <1>1, <1>2 DEF Spawn
    <2> QED BY <2>1, <2>2 DEF AuthorityKept, AuthorityOf
  <1>18. SpawnClosed'
    BY <1>3, <1>5 DEF SpawnClosed, Debt
  <1> QED BY <1>8, <1>9, <1>10, <1>11, <1>12, <1>13, <1>14, <1>15, <1>16, <1>17, <1>18

LEMMA InvWaitForService ==
  ASSUME LaunchInv, NEW p \in Procs, WaitForService(p)
  PROVE  LaunchInv'
  <1> USE MaxCycleAssumption, NoneAssumption DEF LaunchInv, TypeOK
  <1>1. /\ p \in alive /\ proc[p].pc \notin {"idle", "abandoned"}
        /\ proc[p].cycle = eff.cycle /\ eff.cycle \in Cycle
        /\ \A r \in alive : r = p \/ proc[r].pc \in {"idle", "abandoned"}
        /\ proc[p].pc \notin {"resetting", "consuming"} => launcher[eff.cycle] = p
    BY Worker DEF WaitForService, At
  <1>2. /\ proc' \in [Procs -> [pc : Step, cycle : 0..MaxCycle]]
        /\ proc'[p].pc \in {"active", "aborting"} /\ proc'[p].cycle = proc[p].cycle
        /\ \A r \in Procs : r # p => proc'[r] = proc[r]
    BY Moves DEF WaitForService, Step
  <1>3. /\ proc[p].pc = "spawned"
        /\ proc'[p].pc = "aborting" \/ (proc'[p].pc = "active" /\ Active(eff.cycle))
        /\ UNCHANGED <<eff, debt, alive, launcher, child, unit, gate, rec>>
    BY <1>1 DEF WaitForService, At, Goto, durable, system
  <1>4. TypeOK'
    BY <1>2 DEF durable, system, WaitForService
  <1>5. /\ CycleExists' /\ DebtIsCurrent' /\ FutureBlank' /\ StartedIsDone' /\ GateExact'
        /\ GateShut' /\ ReconcilerExact' /\ SpawnClosed'
    BY DEF CycleExists, DebtIsCurrent, FutureBlank, StartedIsDone, GateExact, Accounted, Active,
           GateShut, ReconcilerExact, SpawnClosed, durable, system, WaitForService, Launching,
           Holds, DebtIs
  <1>6. OneWorks'
    BY <1>2, <1>3 DEF OneWorks, At, AtRest
  <1>7. StepExact'
    <2>1. StepOf(p)'
      BY <1>1, <1>2, <1>3 DEF StepOf, GateExact
    <2>2. \A r \in alive' : r # p => proc'[r].pc \in {"idle", "abandoned"}
      BY <1>1, <1>2 DEF WaitForService
    <2> QED BY <2>1, <2>2 DEF StepExact, StepOf
  <1>8. AuthorityKept'
    <2>1. AuthorityOf(p)'
      BY <1>1, <1>2, <1>3 DEF AuthorityKept, AuthorityOf, Holds, Launching, DebtIs
    <2>2. \A r \in alive' : r # p => proc'[r].pc \in {"idle", "abandoned"}
      BY <1>1, <1>2 DEF WaitForService
    <2> QED BY <2>1, <2>2 DEF AuthorityKept, AuthorityOf
  <1> QED BY <1>4, <1>5, <1>6, <1>7, <1>8

LEMMA InvRecordStarted ==
  ASSUME LaunchInv, NEW p \in Procs, RecordStarted(p)
  PROVE  LaunchInv'
  <1> USE MaxCycleAssumption, NoneAssumption DEF LaunchInv, TypeOK
  <1>1. /\ p \in alive /\ proc[p].pc \notin {"idle", "abandoned"}
        /\ proc[p].cycle = eff.cycle /\ eff.cycle \in Cycle
        /\ \A r \in alive : r = p \/ proc[r].pc \in {"idle", "abandoned"}
        /\ proc[p].pc \notin {"resetting", "consuming"} => launcher[eff.cycle] = p
    BY Worker DEF RecordStarted, At
  <1>2. /\ proc' \in [Procs -> [pc : Step, cycle : 0..MaxCycle]]
        /\ proc'[p].pc \in {"recorded", "aborting"} /\ proc'[p].cycle = proc[p].cycle
        /\ \A r \in Procs : r # p => proc'[r] = proc[r]
    BY Moves DEF RecordStarted, Step
  <1>3. /\ proc[p].pc = "active" /\ UNCHANGED <<debt, alive, launcher, child, unit, gate, rec>>
        /\ \/ Launching(p, "surrendered") /\ Goto(p, "recorded")
              /\ eff' = [eff EXCEPT !.state = "running", !.spawn = "none"]
           \/ Goto(p, "aborting") /\ UNCHANGED eff
    BY DEF RecordStarted, At, system
  <1>4. /\ eff' \in EffortRow /\ eff'.cycle = eff.cycle
        /\ UNCHANGED eff \/ (eff'.state = "running" /\ eff.state = "launching")
    BY <1>1, <1>2, <1>3 DEF Launching, Holds, EffortRow
  <1>5. Goto(p, "recorded") => proc'[p].pc = "recorded"
    BY DEF Goto
  <1>6. Goto(p, "aborting") => proc'[p].pc = "aborting"
    BY DEF Goto
  <1>7. \/ proc'[p].pc = "recorded" /\ eff'.state = "running" /\ eff.state = "launching"
        \/ proc'[p].pc = "aborting" /\ UNCHANGED eff
    BY <1>1, <1>2, <1>3, <1>4, <1>5, <1>6 DEF Launching, Holds, EffortRow
  <1>8. eff' \in EffortRow
    BY <1>4
  <1>9. TypeOK'
    BY <1>8, <1>2 DEF system, RecordStarted
  <1>10. SpawnClosed'
    BY DEF SpawnClosed, Active, system, RecordStarted
  <1>11. OneWorks'
    BY <1>2, <1>3, <1>4 DEF OneWorks, At, AtRest
  <1>12. CycleExists'
    BY <1>4 DEF CycleExists
  <1>13. DebtIsCurrent'
    BY <1>3, <1>4 DEF DebtIsCurrent
  <1>14. FutureBlank'
    BY <1>3, <1>4 DEF FutureBlank
  <1>15. StartedIsDone'
    BY <1>1, <1>3, <1>4 DEF StartedIsDone, StepExact, StepOf
  <1>16. GateExact'
    BY <1>3, <1>4 DEF GateExact, Accounted, Active
  <1>17. GateShut'
    BY <1>3, <1>4 DEF GateShut
  <1>18. StepExact'
    <2>1. StepOf(p)'
      BY <1>1, <1>2, <1>3, <1>4, <1>5, <1>6, <1>7 DEF StepExact, StepOf, OneWorks, Accounted,
             Active, Stopped, GateExact, FutureBlank, StartedIsDone, ReconcilerExact, AuthorityKept,
             AuthorityOf, EffortRow, Debt, Step, Cycle, Holds, Launching, DebtIs, At, AtRest
    <2>2. \A r \in alive' : r # p => proc'[r].pc \in {"idle", "abandoned"}
      BY <1>1, <1>2 DEF RecordStarted
    <2> QED BY <2>1, <2>2 DEF StepExact, StepOf
  <1>19. ReconcilerExact'
    BY <1>3, <1>4 DEF ReconcilerExact, Active
  <1>20. AuthorityKept'
    <2>1. AuthorityOf(p)'
      BY <1>7 DEF AuthorityOf
    <2>2. \A r \in alive' : r # p => proc'[r].pc \in {"idle", "abandoned"}
      BY <1>1, <1>2 DEF RecordStarted
    <2> QED BY <2>1, <2>2 DEF AuthorityKept, AuthorityOf
  <1> QED BY <1>9, <1>10, <1>11, <1>12, <1>13, <1>14, <1>15, <1>16, <1>17, <1>18, <1>19, <1>20

LEMMA InvOpenGate ==
  ASSUME LaunchInv, NEW p \in Procs, OpenGate(p)
  PROVE  LaunchInv'
  <1> USE MaxCycleAssumption, NoneAssumption DEF LaunchInv, TypeOK
  <1>1. /\ p \in alive /\ proc[p].pc \notin {"idle", "abandoned"}
        /\ proc[p].cycle = eff.cycle /\ eff.cycle \in Cycle
        /\ \A r \in alive : r = p \/ proc[r].pc \in {"idle", "abandoned"}
        /\ proc[p].pc \notin {"resetting", "consuming"} => launcher[eff.cycle] = p
    BY Worker DEF OpenGate, At
  <1>2. /\ proc' \in [Procs -> [pc : Step, cycle : 0..MaxCycle]]
        /\ proc'[p].pc \in {"supervising", "aborting"} /\ proc'[p].cycle = proc[p].cycle
        /\ \A r \in Procs : r # p => proc'[r] = proc[r]
    BY Moves DEF OpenGate, Step
  <1>3. /\ proc[p].pc = "recorded"
        /\ \/ proc'[p].pc = "supervising" /\ gate' = [gate EXCEPT ![eff.cycle] = "run"]
           \/ proc'[p].pc = "aborting" /\ UNCHANGED gate
        /\ UNCHANGED <<eff, debt, alive, launcher, child, unit, rec>>
    BY <1>1 DEF OpenGate, At, Goto, durable
  <1>4. gate' \in [Cycle -> {"closed", "held", "run"}]
    BY <1>1, <1>2, <1>3 DEF Cycle
  <1>5. TypeOK'
    BY <1>2 DEF durable, OpenGate
  <1>6. CycleExists' /\ DebtIsCurrent' /\ StartedIsDone' /\ ReconcilerExact' /\ SpawnClosed'
    BY DEF CycleExists, DebtIsCurrent, StartedIsDone, ReconcilerExact, Active, SpawnClosed, durable,
           OpenGate
  <1>7. OneWorks'
    BY <1>2, <1>3 DEF OneWorks, At, AtRest
  <1>8. FutureBlank'
    BY <1>1, <1>3 DEF FutureBlank
  <1>9. GateExact'
    BY <1>1, <1>2, <1>3 DEF GateExact, GateShut, Accounted, Active, Stopped, StepExact, StepOf,
           OneWorks, FutureBlank, StartedIsDone, ReconcilerExact, DebtIsCurrent, Debt, EffortRow,
           Holds, Launching, DebtIs, At, AtRest
  <1>10. GateShut'
    BY <1>1, <1>3 DEF GateShut, StepExact, StepOf, DebtIsCurrent, Accounted
  <1>11. StepExact'
    <2>1. StepOf(p)'
      BY <1>1, <1>2, <1>3 DEF StepOf
    <2>2. \A r \in alive' : r # p => proc'[r].pc \in {"idle", "abandoned"}
      BY <1>1, <1>2 DEF OpenGate
    <2> QED BY <2>1, <2>2 DEF StepExact, StepOf
  <1>12. AuthorityKept'
    <2>1. AuthorityOf(p)'
      BY <1>3 DEF AuthorityOf
    <2>2. \A r \in alive' : r # p => proc'[r].pc \in {"idle", "abandoned"}
      BY <1>1, <1>2 DEF OpenGate
    <2> QED BY <2>1, <2>2 DEF AuthorityKept, AuthorityOf
  <1> QED BY <1>5, <1>6, <1>7, <1>8, <1>9, <1>10, <1>11, <1>12

LEMMA InvSupervise ==
  ASSUME LaunchInv, NEW p \in Procs, Supervise(p)
  PROVE  LaunchInv'
  <1> USE MaxCycleAssumption, NoneAssumption DEF LaunchInv, TypeOK, Supervise, At, AtRest, Holds,
            Launching, DebtIs, LockFree, Released, durable, system
  <1>1. /\ p \in alive /\ proc[p].pc \notin {"idle", "abandoned"}
        /\ proc[p].cycle = eff.cycle /\ eff.cycle \in Cycle
        /\ \A r \in alive : r = p \/ proc[r].pc \in {"idle", "abandoned"}
        /\ proc[p].pc \notin {"resetting", "consuming"} => launcher[eff.cycle] = p
    BY Worker
  <1>2. /\ proc' \in [Procs -> [pc : Step, cycle : 0..MaxCycle]]
        /\ proc'[p].pc \in {"idle", "finishing"} /\ proc'[p].cycle = proc[p].cycle
        /\ \A r \in Procs : r # p => proc'[r] = proc[r]
    BY Moves DEF Step
  <1>3. unit' \in [Cycle -> {"missing", "waiting", "executing", "stopped"}]
    BY <1>1 DEF Stopped
  <1>4. TypeOK'
    BY <1>3, <1>2
  <1>5. CycleExists' /\ DebtIsCurrent' /\ StartedIsDone' /\ GateShut'
    BY DEF CycleExists, DebtIsCurrent, StartedIsDone, GateShut
  <1>6. OneWorks'
    BY <1>2 DEF OneWorks
  <1>7. FutureBlank'
    BY <1>1 DEF FutureBlank, Stopped
  <1>8. GateExact'
    BY DEF GateExact, Accounted, Active, Stopped
  <1>9. StepExact'
    <2>1. StepOf(p)'
      BY <1>1, <1>2 DEF StepExact, StepOf, Active, Stopped
    <2>2. \A r \in alive' : r # p => proc'[r].pc \in {"idle", "abandoned"}
      BY <1>1, <1>2
    <2> QED BY <2>1, <2>2 DEF StepExact, StepOf
  <1>10. ReconcilerExact'
    BY DEF ReconcilerExact, Active, Stopped
  <1>11. AuthorityKept'
    <2>1. AuthorityOf(p)'
      BY <1>2 DEF AuthorityOf
    <2>2. \A r \in alive' : r # p => proc'[r].pc \in {"idle", "abandoned"}
      BY <1>1, <1>2
    <2> QED BY <2>1, <2>2 DEF AuthorityKept, AuthorityOf
  <1>12. SpawnClosed'
    BY DEF SpawnClosed, Active, Stopped
  <1> QED BY <1>4, <1>5, <1>6, <1>7, <1>8, <1>9, <1>10, <1>11, <1>12

LEMMA InvSupervisionFails ==
  ASSUME LaunchInv, NEW p \in Procs, SupervisionFails(p)
  PROVE  LaunchInv'
  <1> USE MaxCycleAssumption, NoneAssumption DEF LaunchInv, TypeOK, SupervisionFails, At, AtRest,
            Holds, Launching, DebtIs, LockFree, Released, durable, system
  <1>1. /\ p \in alive /\ proc[p].pc \notin {"idle", "abandoned"}
        /\ proc[p].cycle = eff.cycle /\ eff.cycle \in Cycle
        /\ \A r \in alive : r = p \/ proc[r].pc \in {"idle", "abandoned"}
        /\ proc[p].pc \notin {"resetting", "consuming"} => launcher[eff.cycle] = p
    BY Worker
  <1>2. /\ proc' \in [Procs -> [pc : Step, cycle : 0..MaxCycle]]
        /\ proc'[p].pc \in {"idle"} /\ proc'[p].cycle = proc[p].cycle
        /\ \A r \in Procs : r # p => proc'[r] = proc[r]
    BY Moves DEF Step
  <1>3. TypeOK'
    BY <1>2
  <1>4. /\ CycleExists' /\ DebtIsCurrent' /\ FutureBlank' /\ StartedIsDone' /\ GateExact'
        /\ GateShut' /\ ReconcilerExact' /\ SpawnClosed'
    BY DEF CycleExists, DebtIsCurrent, FutureBlank, StartedIsDone, GateExact, Accounted, Active,
           GateShut, ReconcilerExact, SpawnClosed, durable, system, SupervisionFails, Launching,
           Holds, DebtIs
  <1>5. OneWorks'
    BY <1>2 DEF OneWorks
  <1>6. StepExact'
    <2>1. StepOf(p)'
      BY <1>2 DEF StepOf
    <2>2. \A r \in alive' : r # p => proc'[r].pc \in {"idle", "abandoned"}
      BY <1>1, <1>2
    <2> QED BY <2>1, <2>2 DEF StepExact, StepOf
  <1>7. AuthorityKept'
    <2>1. AuthorityOf(p)'
      BY <1>2 DEF AuthorityOf
    <2>2. \A r \in alive' : r # p => proc'[r].pc \in {"idle", "abandoned"}
      BY <1>1, <1>2
    <2> QED BY <2>1, <2>2 DEF AuthorityKept, AuthorityOf
  <1> QED BY <1>3, <1>4, <1>5, <1>6, <1>7

LEMMA InvFinish ==
  ASSUME LaunchInv, NEW p \in Procs, Finish(p)
  PROVE  LaunchInv'
  <1> USE MaxCycleAssumption, NoneAssumption DEF LaunchInv, TypeOK, Finish, At, AtRest, Holds,
            Launching, DebtIs, LockFree, Released, durable, system
  <1>1. /\ p \in alive /\ proc[p].pc \notin {"idle", "abandoned"}
        /\ proc[p].cycle = eff.cycle /\ eff.cycle \in Cycle
        /\ \A r \in alive : r = p \/ proc[r].pc \in {"idle", "abandoned"}
        /\ proc[p].pc \notin {"resetting", "consuming"} => launcher[eff.cycle] = p
    BY Worker
  <1>2. /\ proc' \in [Procs -> [pc : Step, cycle : 0..MaxCycle]]
        /\ proc'[p].pc \in {"idle"} /\ proc'[p].cycle = proc[p].cycle
        /\ \A r \in Procs : r # p => proc'[r] = proc[r]
    BY Moves DEF Step
  <1>3. eff' \in EffortRow
    BY DEF EffortRow
  <1>4. TypeOK'
    BY <1>3, <1>2
  <1>5. SpawnClosed'
    BY DEF SpawnClosed, Active
  <1>6. OneWorks'
    BY <1>2 DEF OneWorks
  <1>7. CycleExists'
    BY DEF CycleExists
  <1>8. DebtIsCurrent'
    BY DEF DebtIsCurrent
  <1>9. FutureBlank'
    BY DEF FutureBlank
  <1>10. StartedIsDone'
    BY DEF StartedIsDone
  <1>11. GateExact'
    BY DEF GateExact, Accounted, Active, StepExact, StepOf
  <1>12. GateShut'
    BY DEF GateShut
  <1>13. StepExact'
    <2>1. StepOf(p)'
      BY <1>2 DEF StepOf
    <2>2. \A r \in alive' : r # p => proc'[r].pc \in {"idle", "abandoned"}
      BY <1>1, <1>2
    <2> QED BY <2>1, <2>2 DEF StepExact, StepOf
  <1>14. ReconcilerExact'
    BY DEF ReconcilerExact, Active
  <1>15. AuthorityKept'
    <2>1. AuthorityOf(p)'
      BY <1>2 DEF AuthorityOf
    <2>2. \A r \in alive' : r # p => proc'[r].pc \in {"idle", "abandoned"}
      BY <1>1, <1>2
    <2> QED BY <2>1, <2>2 DEF AuthorityKept, AuthorityOf
  <1> QED BY <1>4, <1>5, <1>6, <1>7, <1>8, <1>9, <1>10, <1>11, <1>12, <1>13, <1>14, <1>15

LEMMA InvAbort ==
  ASSUME LaunchInv, NEW p \in Procs, Abort(p)
  PROVE  LaunchInv'
  <1> USE MaxCycleAssumption, NoneAssumption DEF LaunchInv, TypeOK, Abort, At, AtRest, Holds,
            Launching, DebtIs, LockFree, Released, durable, system
  <1>1. /\ p \in alive /\ proc[p].pc \notin {"idle", "abandoned"}
        /\ proc[p].cycle = eff.cycle /\ eff.cycle \in Cycle
        /\ \A r \in alive : r = p \/ proc[r].pc \in {"idle", "abandoned"}
        /\ proc[p].pc \notin {"resetting", "consuming"} => launcher[eff.cycle] = p
    BY Worker
  <1>2. /\ proc' \in [Procs -> [pc : Step, cycle : 0..MaxCycle]]
        /\ proc'[p].pc \in {"aborting", "failed"} /\ proc'[p].cycle = proc[p].cycle
        /\ \A r \in Procs : r # p => proc'[r] = proc[r]
    BY Moves DEF Step
  <1>3. unit' \in [Cycle -> {"missing", "waiting", "executing", "stopped"}]
    BY DEF Stopped
  <1>4. gate' \in [Cycle -> {"closed", "held", "run"}]
    BY <1>1, <1>2 DEF Cycle
  <1>5. TypeOK'
    BY <1>3, <1>2
  <1>6. CycleExists' /\ DebtIsCurrent' /\ StartedIsDone'
    BY DEF CycleExists, DebtIsCurrent, StartedIsDone
  <1>7. OneWorks'
    BY <1>2 DEF OneWorks
  <1>8. FutureBlank'
    BY DEF FutureBlank, Stopped
  <1>9. GateExact'
    BY DEF GateExact, Accounted, Active, Stopped
  <1>10. GateShut'
    BY <1>1 DEF GateShut
  <1>11. StepExact'
    <2>1. StepOf(p)'
      BY <1>2 DEF StepOf
    <2>2. \A r \in alive' : r # p => proc'[r].pc \in {"idle", "abandoned"}
      BY <1>1, <1>2
    <2> QED BY <2>1, <2>2 DEF StepExact, StepOf
  <1>12. ReconcilerExact'
    BY <1>1 DEF ReconcilerExact, Active, Stopped
  <1>13. AuthorityKept'
    <2>1. AuthorityOf(p)'
      BY <1>2 DEF AuthorityOf
    <2>2. \A r \in alive' : r # p => proc'[r].pc \in {"idle", "abandoned"}
      BY <1>1, <1>2
    <2> QED BY <2>1, <2>2 DEF AuthorityKept, AuthorityOf
  <1>14. SpawnClosed'
    BY DEF SpawnClosed, Active, Stopped
  <1> QED BY <1>5, <1>6, <1>7, <1>8, <1>9, <1>10, <1>11, <1>12, <1>13, <1>14

LEMMA InvAcknowledgeFailed ==
  ASSUME LaunchInv, NEW p \in Procs, AcknowledgeFailed(p)
  PROVE  LaunchInv'
  <1> USE MaxCycleAssumption, NoneAssumption DEF LaunchInv, TypeOK, AcknowledgeFailed, At, AtRest,
            Holds, Launching, DebtIs, LockFree, Released, durable, system
  <1>1. /\ p \in alive /\ proc[p].pc \notin {"idle", "abandoned"}
        /\ proc[p].cycle = eff.cycle /\ eff.cycle \in Cycle
        /\ \A r \in alive : r = p \/ proc[r].pc \in {"idle", "abandoned"}
        /\ proc[p].pc \notin {"resetting", "consuming"} => launcher[eff.cycle] = p
    BY Worker
  <1>2. /\ proc' \in [Procs -> [pc : Step, cycle : 0..MaxCycle]]
        /\ proc'[p].pc \in {"idle"} /\ proc'[p].cycle = proc[p].cycle
        /\ \A r \in Procs : r # p => proc'[r] = proc[r]
    BY Moves DEF Step
  <1>3. eff' \in EffortRow
    BY DEF EffortRow
  <1>4. debt' \in Debt \cup {None}
    <2>1. CASE UNCHANGED debt
      BY <2>1
    <2>2. CASE DebtIs(p, "surrendered") /\ debt' = [debt EXCEPT !.spawn = "closed"]
      <3>1. debt' = [kind |-> "launching", cycle |-> eff.cycle, spawn |-> "closed"]
        BY <1>1, <2>2
      <3> QED BY <1>1 DEF Debt
    <2> QED BY <2>2
  <1>5. TypeOK'
    BY <1>3, <1>4, <1>2
  <1>6. OneWorks'
    BY <1>2 DEF OneWorks
  <1>7. CycleExists'
    BY DEF CycleExists
  <1>8. DebtIsCurrent'
    BY <1>1 DEF DebtIsCurrent
  <1>9. FutureBlank'
    BY DEF FutureBlank
  <1>10. StartedIsDone'
    BY DEF StartedIsDone
  <1>11. GateExact'
    BY DEF GateExact, Accounted, Active
  <1>12. GateShut'
    BY <1>1 DEF GateShut, Debt
  <1>13. StepExact'
    <2>1. StepOf(p)'
      BY <1>2 DEF StepOf
    <2>2. \A r \in alive' : r # p => proc'[r].pc \in {"idle", "abandoned"}
      BY <1>1, <1>2
    <2> QED BY <2>1, <2>2 DEF StepExact, StepOf
  <1>14. ReconcilerExact'
    BY DEF ReconcilerExact, Active
  <1>15. AuthorityKept'
    <2>1. AuthorityOf(p)'
      BY <1>2 DEF AuthorityOf
    <2>2. \A r \in alive' : r # p => proc'[r].pc \in {"idle", "abandoned"}
      BY <1>1, <1>2
    <2> QED BY <2>1, <2>2 DEF AuthorityKept, AuthorityOf
  <1>16. SpawnClosed'
    BY DEF SpawnClosed, StepExact, StepOf, Active
  <1> QED BY <1>5, <1>6, <1>7, <1>8, <1>9, <1>10, <1>11, <1>12, <1>13, <1>14, <1>15, <1>16

LEMMA InvAcknowledgeRefused ==
  ASSUME LaunchInv, NEW p \in Procs, AcknowledgeRefused(p)
  PROVE  LaunchInv'
  <1> USE MaxCycleAssumption, NoneAssumption DEF LaunchInv, TypeOK, AcknowledgeRefused, At, AtRest,
            Holds, Launching, DebtIs, LockFree, Released, durable, system
  <1>1. /\ p \in alive /\ proc[p].pc \notin {"idle", "abandoned"}
        /\ proc[p].cycle = eff.cycle /\ eff.cycle \in Cycle
        /\ \A r \in alive : r = p \/ proc[r].pc \in {"idle", "abandoned"}
        /\ proc[p].pc \notin {"resetting", "consuming"} => launcher[eff.cycle] = p
    BY Worker
  <1>2. /\ proc' \in [Procs -> [pc : Step, cycle : 0..MaxCycle]]
        /\ proc'[p].pc \in {"idle"} /\ proc'[p].cycle = proc[p].cycle
        /\ \A r \in Procs : r # p => proc'[r] = proc[r]
    BY Moves DEF Step
  <1>3. TypeOK'
    BY <1>2
  <1>4. /\ CycleExists' /\ DebtIsCurrent' /\ FutureBlank' /\ StartedIsDone' /\ GateExact'
        /\ GateShut' /\ ReconcilerExact' /\ SpawnClosed'
    BY DEF CycleExists, DebtIsCurrent, FutureBlank, StartedIsDone, GateExact, Accounted, Active,
           GateShut, ReconcilerExact, SpawnClosed, durable, system, AcknowledgeRefused, Launching,
           Holds, DebtIs
  <1>5. OneWorks'
    BY <1>2 DEF OneWorks
  <1>6. StepExact'
    <2>1. StepOf(p)'
      BY <1>2 DEF StepOf
    <2>2. \A r \in alive' : r # p => proc'[r].pc \in {"idle", "abandoned"}
      BY <1>1, <1>2
    <2> QED BY <2>1, <2>2 DEF StepExact, StepOf
  <1>7. AuthorityKept'
    <2>1. AuthorityOf(p)'
      BY <1>2 DEF AuthorityOf
    <2>2. \A r \in alive' : r # p => proc'[r].pc \in {"idle", "abandoned"}
      BY <1>1, <1>2
    <2> QED BY <2>1, <2>2 DEF AuthorityKept, AuthorityOf
  <1> QED BY <1>3, <1>4, <1>5, <1>6, <1>7

LEMMA InvResumeStop ==
  ASSUME LaunchInv, NEW q \in Procs, ResumeStop(q)
  PROVE  LaunchInv'
  <1> USE MaxCycleAssumption, NoneAssumption DEF LaunchInv, TypeOK
  <1>1. /\ q \in alive /\ \A r \in alive : proc[r].pc \in {"idle", "abandoned"}
        /\ eff.cycle \in Cycle /\ unit' = Stopped(eff.cycle)
        /\ \/ /\ eff.state = "launching"
              /\ proc' = [proc EXCEPT ![q] = [pc |-> "resetting", cycle |-> eff.cycle]]
           \/ /\ eff.state = "running"
              /\ proc' = [proc EXCEPT ![q] = [pc |-> "consuming", cycle |-> eff.cycle]]
        /\ UNCHANGED <<eff, debt, alive, launcher, child, gate, rec>>
    BY DEF ResumeStop, LockFree, At, AtRest, CycleExists, durable
  <1>2. /\ proc'[q].cycle = eff.cycle
        /\ proc'[q].pc = "resetting" \/ (proc'[q].pc = "consuming" /\ eff.state = "running")
        /\ \A r \in alive : r # q => proc'[r].pc \in {"idle", "abandoned"}
    BY <1>1
  <1>3. proc' \in [Procs -> [pc : Step, cycle : 0..MaxCycle]]
    <2>1. /\ [pc |-> "resetting", cycle |-> eff.cycle] \in [pc : Step, cycle : 0..MaxCycle]
          /\ [pc |-> "consuming", cycle |-> eff.cycle] \in [pc : Step, cycle : 0..MaxCycle]
      BY DEF EffortRow, Step
    <2> QED BY <1>1, <2>1
  <1>4. unit' \in [Cycle -> {"missing", "waiting", "executing", "stopped"}]
    BY <1>1 DEF Stopped
  <1>5. TypeOK'
    BY <1>3, <1>4 DEF durable, ResumeStop
  <1>6. CycleExists' /\ DebtIsCurrent' /\ StartedIsDone' /\ GateShut'
    BY DEF CycleExists, DebtIsCurrent, StartedIsDone, GateShut, durable, ResumeStop
  <1>7. OneWorks'
    BY <1>1 DEF OneWorks, At, AtRest
  <1>8. FutureBlank'
    BY <1>1 DEF FutureBlank, Stopped, Active
  <1>9. GateExact'
    BY <1>1 DEF GateExact, Accounted, Active, Stopped
  <1>10. StepExact'
    <2>1. StepOf(q)'
      BY <1>1 DEF StepOf, StartedIsDone, Stopped, Active
    <2> QED BY <1>1, <1>2, <2>1 DEF StepExact, StepOf
  <1>11. ReconcilerExact'
    BY <1>1 DEF ReconcilerExact
  <1>12. AuthorityKept'
    BY <1>1, <1>2 DEF AuthorityKept, AuthorityOf, OneWorks, DebtIsCurrent, ReconcilerExact,
       EffortRow, Debt, Step, Cycle, Holds, Launching, DebtIs, At, AtRest
  <1>13. SpawnClosed'
    BY <1>1 DEF SpawnClosed, Active, Stopped
  <1> QED BY <1>5, <1>6, <1>7, <1>8, <1>9, <1>10, <1>11, <1>12, <1>13

LEMMA InvResumeRelease ==
  ASSUME LaunchInv, NEW q \in Procs, ResumeRelease(q)
  PROVE  LaunchInv'
  <1> USE MaxCycleAssumption, NoneAssumption DEF LaunchInv, TypeOK, ResumeRelease, At, AtRest,
            Holds, Launching, DebtIs, LockFree, Released, durable, system
  <1>1. /\ q \in alive /\ proc[q].pc \notin {"idle", "abandoned"}
        /\ proc[q].cycle = eff.cycle /\ eff.cycle \in Cycle
        /\ \A r \in alive : r = q \/ proc[r].pc \in {"idle", "abandoned"}
        /\ proc[q].pc \notin {"resetting", "consuming"} => launcher[eff.cycle] = q
    BY Worker
  <1>2. /\ proc' \in [Procs -> [pc : Step, cycle : 0..MaxCycle]]
        /\ proc'[q].pc \in {"idle"} /\ proc'[q].cycle = proc[q].cycle
        /\ \A r \in Procs : r # q => proc'[r] = proc[r]
    BY Moves DEF Step
  <1>3. eff' \in EffortRow
    BY DEF EffortRow
  <1>4. TypeOK'
    BY <1>3, <1>2
  <1>5. SpawnClosed'
    BY DEF SpawnClosed, Active
  <1>6. OneWorks'
    BY <1>2 DEF OneWorks
  <1>7. CycleExists'
    BY DEF CycleExists
  <1>8. DebtIsCurrent'
    BY DEF DebtIsCurrent
  <1>9. FutureBlank'
    BY DEF FutureBlank
  <1>10. StartedIsDone'
    BY DEF StartedIsDone
  <1>11. GateExact'
    BY DEF GateExact, Accounted, Active, StepExact, StepOf
  <1>12. GateShut'
    BY DEF GateShut
  <1>13. StepExact'
    <2>1. StepOf(q)'
      BY <1>2 DEF StepOf
    <2>2. \A r \in alive' : r # q => proc'[r].pc \in {"idle", "abandoned"}
      BY <1>1, <1>2
    <2> QED BY <2>1, <2>2 DEF StepExact, StepOf
  <1>14. ReconcilerExact'
    BY DEF ReconcilerExact, Active
  <1>15. AuthorityKept'
    <2>1. AuthorityOf(q)'
      BY <1>2 DEF AuthorityOf
    <2>2. \A r \in alive' : r # q => proc'[r].pc \in {"idle", "abandoned"}
      BY <1>1, <1>2
    <2> QED BY <2>1, <2>2 DEF AuthorityKept, AuthorityOf
  <1> QED BY <1>4, <1>5, <1>6, <1>7, <1>8, <1>9, <1>10, <1>11, <1>12, <1>13, <1>14, <1>15

LEMMA InvCrash ==
  ASSUME LaunchInv, NEW p \in Procs, Crash(p)
  PROVE  LaunchInv'
  <1> USE MaxCycleAssumption, NoneAssumption DEF LaunchInv, TypeOK, Crash, At, AtRest, Goto, Holds,
            Launching, DebtIs, LockFree, Released, durable, system
  <1>1. alive' \in SUBSET Procs /\ alive' # {}
    OBVIOUS
  <1>2. gate' \in [Cycle -> {"closed", "held", "run"}]
    OBVIOUS
  <1>3. TypeOK'
    OBVIOUS
  <1>4. CycleExists' /\ DebtIsCurrent' /\ StartedIsDone' /\ SpawnClosed'
    BY DEF CycleExists, DebtIsCurrent, StartedIsDone, SpawnClosed, Active
  <1>5. OneWorks'
    BY DEF OneWorks
  <1>6. FutureBlank'
    BY DEF FutureBlank
  <1>7. GateExact'
    BY DEF GateExact, Accounted, Active
  <1>8. GateShut'
    BY DEF GateShut, CycleExists, DebtIsCurrent, Debt
  <1>9. StepExact'
    BY DEF StepExact, StepOf, OneWorks, Accounted, Active
  <1>10. ReconcilerExact'
    BY DEF ReconcilerExact, Active
  <1>11. AuthorityKept'
    BY DEF AuthorityKept, AuthorityOf
  <1> QED BY <1>4, <1>5, <1>6, <1>7, <1>8, <1>9, <1>10, <1>11

LEMMA InvCancel ==
  ASSUME LaunchInv, Cancel
  PROVE  LaunchInv'
  <1> USE MaxCycleAssumption, NoneAssumption DEF LaunchInv, TypeOK, Cancel, At, AtRest, Goto, Holds,
            Launching, DebtIs, LockFree, Released, durable, system
  <1>1. eff' \in EffortRow
    BY DEF EffortRow, Cycle
  <1>2. debt' \in Debt \cup {None}
    BY DEF Debt, CycleExists
  <1>3. TypeOK'
    BY <1>1, <1>2
  <1>4. OneWorks'
    BY DEF OneWorks
  <1>5. CycleExists'
    BY DEF CycleExists
  <1>6. DebtIsCurrent'
    BY DEF DebtIsCurrent
  <1>7. FutureBlank'
    BY DEF FutureBlank
  <1>8. StartedIsDone'
    BY DEF StartedIsDone
  <1>9. GateExact'
    BY DEF GateExact, Accounted, Active
  <1>10. GateShut'
    BY DEF GateShut
  <1>11. StepExact'
    BY DEF StepExact, StepOf, Accounted, Active
  <1>12. ReconcilerExact'
    BY DEF ReconcilerExact
  <1>13. AuthorityKept'
    BY DEF AuthorityKept, AuthorityOf
  <1>14. SpawnClosed'
    BY DEF SpawnClosed, Debt
  <1> QED BY <1>3, <1>4, <1>5, <1>6, <1>7, <1>8, <1>9, <1>10, <1>11, <1>12, <1>13, <1>14

LEMMA InvReconcileLoad ==
  ASSUME LaunchInv, ReconcileLoad
  PROVE  LaunchInv'
  <1> USE MaxCycleAssumption, NoneAssumption DEF LaunchInv, TypeOK, ReconcileLoad, At, AtRest, Goto,
            Holds, Launching, DebtIs, LockFree, Released, durable, system
  <1>1. rec' \in [debt : Debt \cup {None}, stopped : BOOLEAN]
    OBVIOUS
  <1>2. TypeOK'
    OBVIOUS
  <1>3. /\ OneWorks' /\ CycleExists' /\ DebtIsCurrent' /\ FutureBlank' /\ StartedIsDone'
        /\ GateExact' /\ GateShut' /\ StepExact' /\ AuthorityKept' /\ SpawnClosed'
    BY DEF OneWorks, CycleExists, DebtIsCurrent, FutureBlank, StartedIsDone, GateExact, Accounted,
           Active, GateShut, StepExact, StepOf, AuthorityKept, AuthorityOf, SpawnClosed, durable,
           system, ReconcileLoad, Launching, Holds, DebtIs
  <1>4. ReconcilerExact'
    BY DEF ReconcilerExact, DebtIsCurrent, StartedIsDone
  <1> QED BY <1>3, <1>4

LEMMA InvReconcileStop ==
  ASSUME LaunchInv, ReconcileStop
  PROVE  LaunchInv'
  <1> USE MaxCycleAssumption, NoneAssumption DEF LaunchInv, TypeOK, ReconcileStop, At, AtRest, Goto,
            Holds, Launching, DebtIs, LockFree, Released, durable, system
  <1>1. unit' \in [Cycle -> {"missing", "waiting", "executing", "stopped"}]
    BY DEF Stopped, Active, Cycle
  <1>2. rec' \in [debt : Debt \cup {None}, stopped : BOOLEAN]
    BY DEF Debt
  <1>3. TypeOK'
    BY <1>1, <1>2
  <1>4. /\ OneWorks' /\ CycleExists' /\ DebtIsCurrent' /\ StartedIsDone' /\ GateShut'
        /\ AuthorityKept'
    BY DEF OneWorks, CycleExists, DebtIsCurrent, StartedIsDone, GateShut, AuthorityKept, AuthorityOf
  <1>5. FutureBlank'
    BY DEF FutureBlank, Stopped, Active
  <1>6. GateExact'
    BY DEF GateExact, Accounted, Active, Stopped
  <1>7. StepExact'
    BY DEF StepExact, StepOf, Accounted, Active, Stopped
  <1>8. ReconcilerExact'
    BY DEF ReconcilerExact, Active, Stopped, Debt
  <1>9. SpawnClosed'
    BY DEF SpawnClosed, Active, Stopped
  <1> QED BY <1>3, <1>4, <1>5, <1>6, <1>7, <1>8, <1>9

LEMMA InvReconcileDelete ==
  ASSUME LaunchInv, ReconcileDelete
  PROVE  LaunchInv'
  <1> USE MaxCycleAssumption, NoneAssumption DEF LaunchInv, TypeOK, ReconcileDelete, At, AtRest,
            Goto, Holds, Launching, DebtIs, LockFree, Released, durable, system
  <1>1. debt' \in Debt \cup {None}
    OBVIOUS
  <1>2. rec' \in [debt : Debt \cup {None}, stopped : BOOLEAN]
    OBVIOUS
  <1>3. TypeOK'
    OBVIOUS
  <1>4. OneWorks' /\ CycleExists' /\ FutureBlank'
    BY DEF OneWorks, CycleExists, FutureBlank
  <1>5. DebtIsCurrent'
    BY DEF DebtIsCurrent
  <1>6. StartedIsDone'
    BY DEF StartedIsDone
  <1>7. GateExact'
    BY DEF GateExact, Accounted, Active, ReconcilerExact
  <1>8. GateShut'
    BY DEF GateShut
  <1>9. StepExact'
    BY DEF StepExact, StepOf, OneWorks, Accounted, Active, Stopped, GateExact, FutureBlank,
           StartedIsDone, ReconcilerExact, AuthorityKept, AuthorityOf, EffortRow, Debt, Step, Cycle
  <1>10. ReconcilerExact'
    BY DEF ReconcilerExact
  <1>11. AuthorityKept'
    <2> SUFFICES ASSUME NEW p \in alive PROVE AuthorityOf(p)'
      BY DEF AuthorityKept
    <2>1. AuthorityOf(p)
      BY DEF AuthorityKept
    <2>2. CASE debt' = debt
      BY <2>1, <2>2 DEF AuthorityOf
    <2>3. CASE debt = rec.debt /\ rec.debt # None /\ rec.stopped
      <3>1. p \in Procs /\ debt \in Debt /\ eff.state = "cancelled"
        BY <2>3 DEF ReconcilerExact
      <3>2. launcher[eff.cycle] # p \/ debt.kind = "service" \/ debt.spawn = "closed"
        BY <2>3 DEF ReconcilerExact, Debt
      <3>3. proc[p].pc \in {"prepared", "surrendered", "authorized", "spawned", "active"}
              => launcher[eff.cycle] = p
        BY Worker
      <3>4. proc[p].pc \notin {"prepared", "surrendered", "authorized", "spawned", "active"}
        BY <2>1, <3>1, <3>2, <3>3 DEF AuthorityOf
      <3> QED BY <3>4 DEF AuthorityOf
    <2> QED BY <2>2, <2>3
  <1>12. SpawnClosed'
    BY DEF SpawnClosed, Active, Debt
  <1> QED BY <1>4, <1>5, <1>6, <1>7, <1>8, <1>9, <1>10, <1>11, <1>12

LEMMA InvChildStartsUnit ==
  ASSUME LaunchInv, NEW c \in Cycle, ChildStartsUnit(c)
  PROVE  LaunchInv'
  <1> USE MaxCycleAssumption, NoneAssumption DEF LaunchInv, TypeOK, ChildStartsUnit, At, AtRest,
            Goto, Holds, Launching, DebtIs, LockFree, Released, durable, system
  <1>1. child' \in [Cycle -> {"none", "pending", "done"}]
    OBVIOUS
  <1>2. unit' \in [Cycle -> {"missing", "waiting", "executing", "stopped"}]
    OBVIOUS
  <1>3. TypeOK'
    OBVIOUS
  <1>4. OneWorks' /\ CycleExists' /\ DebtIsCurrent' /\ GateShut' /\ AuthorityKept'
    BY DEF OneWorks, CycleExists, DebtIsCurrent, GateShut, AuthorityKept, AuthorityOf
  <1>5. FutureBlank'
    BY DEF FutureBlank
  <1>6. StartedIsDone'
    BY DEF StartedIsDone
  <1>7. GateExact'
    BY DEF GateExact, Accounted, Active
  <1>8. StepExact'
    BY DEF StepExact, StepOf, OneWorks, Accounted, Active, Stopped, GateExact, FutureBlank,
           StartedIsDone, ReconcilerExact, AuthorityKept, AuthorityOf, EffortRow, Debt, Step, Cycle
  <1>9. ReconcilerExact'
    BY DEF ReconcilerExact, Active
  <1>10. SpawnClosed'
    BY DEF SpawnClosed, Active
  <1> QED BY <1>4, <1>5, <1>6, <1>7, <1>8, <1>9, <1>10

LEMMA InvChildFails ==
  ASSUME LaunchInv, NEW c \in Cycle, ChildFails(c)
  PROVE  LaunchInv'
  <1> USE MaxCycleAssumption, NoneAssumption DEF LaunchInv, TypeOK, ChildFails, At, AtRest, Goto,
            Holds, Launching, DebtIs, LockFree, Released, durable, system
  <1>1. child' \in [Cycle -> {"none", "pending", "done"}]
    OBVIOUS
  <1>2. TypeOK'
    OBVIOUS
  <1>3. OneWorks' /\ CycleExists' /\ DebtIsCurrent' /\ GateShut' /\ AuthorityKept'
    BY DEF OneWorks, CycleExists, DebtIsCurrent, GateShut, AuthorityKept, AuthorityOf
  <1>4. FutureBlank'
    BY DEF FutureBlank
  <1>5. StartedIsDone'
    BY DEF StartedIsDone
  <1>6. GateExact'
    BY DEF GateExact, Accounted, Active
  <1>7. StepExact'
    BY DEF StepExact, StepOf, OneWorks, Accounted, Active, Stopped, GateExact, FutureBlank,
           StartedIsDone, ReconcilerExact, AuthorityKept, AuthorityOf, EffortRow, Debt, Step, Cycle
  <1>8. ReconcilerExact'
    BY DEF ReconcilerExact, Active
  <1>9. SpawnClosed'
    BY DEF SpawnClosed, Active
  <1> QED BY <1>3, <1>4, <1>5, <1>6, <1>7, <1>8, <1>9

LEMMA InvHelperReads ==
  ASSUME LaunchInv, NEW c \in Cycle, HelperReads(c)
  PROVE  LaunchInv'
  <1> USE MaxCycleAssumption, NoneAssumption DEF LaunchInv, TypeOK, HelperReads, At, AtRest, Goto,
            Holds, Launching, DebtIs, LockFree, Released, durable, system
  <1>1. unit' \in [Cycle -> {"missing", "waiting", "executing", "stopped"}]
    OBVIOUS
  <1>2. TypeOK'
    OBVIOUS
  <1>3. /\ OneWorks' /\ CycleExists' /\ DebtIsCurrent' /\ StartedIsDone' /\ GateShut'
        /\ AuthorityKept'
    BY DEF OneWorks, CycleExists, DebtIsCurrent, StartedIsDone, GateShut, AuthorityKept, AuthorityOf
  <1>4. FutureBlank'
    BY DEF FutureBlank
  <1>5. GateExact'
    BY DEF GateExact, Accounted, Active
  <1>6. StepExact'
    <2> SUFFICES ASSUME NEW p \in alive PROVE StepOf(p)'
      BY DEF StepExact
    <2>1. StepOf(p) /\ p \in Procs
      BY DEF StepExact
    <2>2. /\ \A d \in Cycle : Active(d)' => Active(d)
          /\ \A d \in Cycle : unit[d] = "missing" => unit'[d] = "missing"
      BY DEF Active
    <2>3. proc[p].pc \notin {"idle", "abandoned"} => proc[p].cycle \in Cycle
      BY Worker
    <2>4. \A d \in Cycle : Accounted(d)' <=> Accounted(d)
      BY DEF Accounted
    <2> QED BY <2>1, <2>2, <2>3, <2>4 DEF StepOf
  <1>7. ReconcilerExact'
    BY DEF ReconcilerExact, Active, Debt
  <1>8. SpawnClosed'
    BY DEF SpawnClosed, Active
  <1> QED BY <1>3, <1>4, <1>5, <1>6, <1>7, <1>8

LEMMA InvUnitExits ==
  ASSUME LaunchInv, NEW c \in Cycle, UnitExits(c)
  PROVE  LaunchInv'
  <1> USE MaxCycleAssumption, NoneAssumption DEF LaunchInv, TypeOK, UnitExits, At, AtRest, Goto,
            Holds, Launching, DebtIs, LockFree, Released, durable, system
  <1>1. unit' \in [Cycle -> {"missing", "waiting", "executing", "stopped"}]
    OBVIOUS
  <1>2. TypeOK'
    OBVIOUS
  <1>3. /\ OneWorks' /\ CycleExists' /\ DebtIsCurrent' /\ StartedIsDone' /\ GateShut'
        /\ AuthorityKept'
    BY DEF OneWorks, CycleExists, DebtIsCurrent, StartedIsDone, GateShut, AuthorityKept, AuthorityOf
  <1>4. FutureBlank'
    BY DEF FutureBlank, Active
  <1>5. GateExact'
    BY DEF GateExact, Accounted, Active
  <1>6. StepExact'
    BY DEF StepExact, StepOf, Accounted, Active
  <1>7. ReconcilerExact'
    BY DEF ReconcilerExact, Active
  <1>8. SpawnClosed'
    BY DEF SpawnClosed, Active
  <1> QED BY <1>3, <1>4, <1>5, <1>6, <1>7, <1>8
-----------------------------------------------------------------------------
(* The theorems *)

LEMMA InvInit == Init => LaunchInv
  <1> SUFFICES ASSUME Init PROVE LaunchInv
    OBVIOUS
  <1> USE MaxCycleAssumption, ProcsAssumption, NoneAssumption DEF Init
  <1>1. TypeOK
    BY DEF TypeOK, EffortRow, Step
  <1>2. OneWorks /\ StepExact /\ AuthorityKept
    BY DEF OneWorks, At, AtRest, StepExact, StepOf, AuthorityKept, AuthorityOf
  <1>3. CycleExists /\ DebtIsCurrent /\ StartedIsDone /\ GateShut /\ ReconcilerExact
    BY DEF CycleExists, DebtIsCurrent, StartedIsDone, GateShut, ReconcilerExact
  <1>4. FutureBlank /\ GateExact
    BY DEF FutureBlank, GateExact, Active
  <1>5. SpawnClosed
    BY DEF SpawnClosed, Active
  <1> QED BY <1>1, <1>2, <1>3, <1>4, <1>5 DEF LaunchInv

LEMMA InvNext == LaunchInv /\ [Next]_vars => LaunchInv'
  <1> SUFFICES ASSUME LaunchInv, [Next]_vars PROVE LaunchInv'
    OBVIOUS
  <1>1. ASSUME NEW p \in Procs,
               \/ Prepare(p) \/ LaunchFails(p) \/ SupervisionFails(p) \/ ResumeStop(p) \/ Crash(p)
        PROVE  LaunchInv'
    BY <1>1, InvPrepare, InvLaunchFails, InvSupervisionFails, InvResumeStop, InvCrash
  <1>2. ASSUME NEW p \in Procs, LaunchStep(p)
        PROVE  LaunchInv'
    BY <1>2, InvSurrender, InvRecheck, InvSpawn, InvWaitForService, InvRecordStarted, InvOpenGate,
       InvSupervise, InvFinish, InvAbort, InvAcknowledgeFailed, InvAcknowledgeRefused,
       InvResumeRelease DEF LaunchStep
  <1>3. CASE Cancel \/ Reconcile
    BY <1>3, InvCancel, InvReconcileLoad, InvReconcileStop, InvReconcileDelete DEF Reconcile
  <1>4. ASSUME NEW c \in Cycle, SystemStep(c) \/ UnitExits(c)
        PROVE  LaunchInv'
    BY <1>4, InvChildStartsUnit, InvChildFails, InvHelperReads, InvUnitExits DEF SystemStep
  <1>5. CASE UNCHANGED vars
    <2>1. TypeOK' /\ OneWorks' /\ CycleExists' /\ DebtIsCurrent' /\ FutureBlank' /\ StartedIsDone'
      BY <1>5 DEF vars, LaunchInv, TypeOK, OneWorks, At, AtRest, CycleExists, DebtIsCurrent,
         FutureBlank, StartedIsDone
    <2>2. GateExact' /\ GateShut' /\ ReconcilerExact' /\ SpawnClosed'
      BY <1>5 DEF vars, LaunchInv, GateExact, GateShut, ReconcilerExact, SpawnClosed, Accounted,
         Active
    <2>3. StepExact' /\ AuthorityKept'
      BY <1>5 DEF vars, LaunchInv, StepExact, StepOf, AuthorityKept, AuthorityOf, Launching, Holds,
         DebtIs, Accounted, Active
    <2> QED BY <2>1, <2>2, <2>3 DEF LaunchInv
  <1> QED BY <1>1, <1>2, <1>3, <1>4, <1>5 DEF Next

LEMMA InvGivesExact == LaunchInv => LaunchExact
  <1> SUFFICES ASSUME LaunchInv PROVE LaunchExact
    OBVIOUS
  <1>1. AgentAccounted
    BY DEF LaunchInv, GateExact, Accounted, AgentAccounted, Active
  <1>2. AuthorityHeld
    <2> SUFFICES ASSUME NEW p \in alive,
                        proc[p].pc \in {"prepared", "surrendered", "authorized", "spawned", "active"}
                 PROVE  LET h == Handoff(proc[p].pc) IN
                        Launching(p, h[1]) \/ (eff.state = "cancelled" /\ DebtIs(p, h[2]))
      BY DEF AuthorityHeld
    <2>1. AuthorityOf(p)
      BY DEF LaunchInv, AuthorityKept
    <2>2. CASE proc[p].pc = "prepared"
      <3>1. Handoff(proc[p].pc)[1] = "open" /\ Handoff(proc[p].pc)[2] = "close_requested"
        BY <2>2 DEF Handoff
      <3> QED BY <2>1, <2>2, <3>1 DEF AuthorityOf
    <2>3. CASE proc[p].pc # "prepared"
      <3>1. Handoff(proc[p].pc)[1] = "surrendered" /\ Handoff(proc[p].pc)[2] = "surrendered"
        BY <2>3 DEF Handoff
      <3> QED BY <2>1, <2>3, <3>1 DEF AuthorityOf
    <2> QED BY <2>2, <2>3
  <1> QED BY <1>1, <1>2 DEF LaunchExact

\* No step finds a cancelled effort and changes it: every transaction reads the state again.
LEMMA CancelStep == LaunchInv /\ [Next]_vars => [eff.state = "cancelled" => eff' = eff]_vars
  <1> SUFFICES ASSUME LaunchInv, Next, eff.state = "cancelled" PROVE eff' = eff
    OBVIOUS
  <1>1. ASSUME NEW p \in Procs,
               \/ Prepare(p) \/ LaunchFails(p) \/ SupervisionFails(p) \/ ResumeStop(p) \/ Crash(p)
        PROVE  eff' = eff
    BY <1>1 DEF Prepare, LaunchFails, SupervisionFails, ResumeStop, Crash, durable
  <1>2. ASSUME NEW p \in Procs, LaunchStep(p)
        PROVE  eff' = eff
    BY <1>2 DEF LaunchStep, Surrender, Recheck, Spawn, WaitForService, RecordStarted, OpenGate,
           Supervise, Finish, Abort, AcknowledgeFailed, AcknowledgeRefused, ResumeRelease, Launching,
           Holds, durable
  <1>3. CASE Cancel \/ Reconcile
    BY <1>3 DEF Cancel, Reconcile, ReconcileLoad, ReconcileStop, ReconcileDelete, durable
  <1>4. ASSUME NEW c \in Cycle, SystemStep(c) \/ UnitExits(c)
        PROVE  eff' = eff
    BY <1>4 DEF SystemStep, ChildStartsUnit, ChildFails, HelperReads, UnitExits, durable
  <1> QED BY <1>1, <1>2, <1>3, <1>4 DEF Next

\* The rows of the effort and its debt, the launch records and the state of systemd are
\* what the code can decode, and some process is left (control_store, agent_runner).
THEOREM LaunchTyped == Spec => []TypeOK
  <1>1. LaunchInv => TypeOK
    BY DEF LaunchInv
  <1> QED BY InvInit, InvNext, <1>1, PTL DEF Spec

\* Whatever process dies, and whoever resumes, resets, cancels or reconciles between two
\* steps of a launch, every agent that runs is one a durable row can stop, and a live
\* launcher finds its record or the debt of its cancellation (run, resume_item_owned,
\* reconcile_cancelled_runner_termination).
THEOREM AgentsAccounted == Spec => []LaunchExact
  BY InvInit, InvNext, InvGivesExact, PTL DEF Spec

\* A cancelled effort stays cancelled, and closed spawn authority stays closed
\* (cancel_effort_transaction, close_surrendered_spawn_authority).
THEOREM CancellationIsFinal == Spec => CancelKept
  <1>1. LaunchInv => SpawnClosed
    BY DEF LaunchInv
  <1> QED BY InvInit, InvNext, CancelStep, <1>1, PTL DEF Spec, CancelKept, CancelFinal
=============================================================================
