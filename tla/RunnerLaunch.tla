---------------------------- MODULE RunnerLaunch ----------------------------
(***************************************************************************)
(* Launching an agent cycle as a systemd user service, and cancelling it   *)
(* (src/src/agent_runner.rs run, src/src/control_store.rs 1469-1863 and    *)
(* 3888-4058, src/src/lib.rs resume_item_owned).                           *)
(*                                                                         *)
(* Processes of iq launch cycles and may die at any step; systemd-run is a *)
(* child that outlives its parent; the service starts some time after it   *)
(* and runs the agent only when it reads "run" from its admission gate.    *)
(* An operator cancels, and cancellation or daemon start reconciles the    *)
(* durable termination debt.  Between two database transactions, or a      *)
(* transaction and a systemctl call, everybody else may act.               *)
(*                                                                         *)
(* Abstractions: a process identity (pid and start ticks) is a process,    *)
(* a dead one never returns; a launch operation, its unit and its cgroup   *)
(* are the cycle.  A process that launches or resumes holds a lock on      *)
(* .git/iq-operation.lock until it returns or dies; cancellation and       *)
(* reconciliation take no lock.                                            *)
(***************************************************************************)
EXTENDS Integers, FiniteSets

CONSTANTS
  Procs,     \* iq processes that can launch a cycle
  MaxCycle,  \* bound on the cycles launched
  None

ASSUME MaxCycleAssumption == MaxCycle \in Nat \ {0}
ASSUME ProcsAssumption == Procs # {}

VARIABLES
  eff,       \* durable effort: state, current cycle and spawn authority
  debt,      \* the runner_termination_debt row, or None
  alive,     \* processes that are running
  proc,      \* what each process does, and for which cycle
  launcher,  \* launcher identity stored with each cycle
  child,     \* systemd-run of each cycle
  unit,      \* service of each cycle
  gate,      \* pipe from the launcher to the service's stdin
  rec        \* the reconciler: the debt it loaded, and whether it stopped it

vars == <<eff, debt, alive, proc, launcher, child, unit, gate, rec>>

durable == <<eff, debt>>
system == <<child, unit, gate>>

Cycle == 1..MaxCycle

EffortRow == [state : {"ready", "launching", "running", "done", "cancelled"},
              cycle : 0..MaxCycle, spawn : {"none", "open", "surrendered"}]

Debt == [kind : {"launching"}, cycle : Cycle,
         spawn : {"close_requested", "surrendered", "closed"}]
          \cup [kind : {"service"}, cycle : Cycle]

ASSUME NoneAssumption == None \notin Debt

Step == {"idle", "prepared", "surrendered", "authorized", "spawned", "active",
         "recorded", "supervising", "finishing", "aborting", "failed",
         "resetting", "consuming", "abandoned"}

Active(c) == unit[c] \in {"waiting", "executing"}

\* stop_and_verify_systemd_unit, stop_exact_runner_service: kill the cgroup and
\* wait until the unit is missing or inactive.
Stopped(c) == [unit EXCEPT ![c] = IF Active(c) THEN "stopped" ELSE unit[c]]

\* The effort after cycle c ended without cancellation.
Released == IF eff.cycle < MaxCycle
            THEN [state |-> "ready", cycle |-> eff.cycle, spawn |-> "none"]
            ELSE [state |-> "done", cycle |-> eff.cycle, spawn |-> "none"]

At(p, pc) == p \in alive /\ proc[p].pc = pc
AtRest(p) == At(p, "idle") \/ At(p, "abandoned")
LockFree == \A q \in alive : AtRest(q)
Goto(p, pc) == proc' = [proc EXCEPT ![p].pc = pc]

Holds(p, state) == eff.state = state /\ eff.cycle = proc[p].cycle
Launching(p, spawn) == Holds(p, "launching") /\ eff.spawn = spawn
DebtIs(p, spawn) == debt = [kind |-> "launching", cycle |-> proc[p].cycle,
                            spawn |-> spawn]

Init ==
  /\ eff = [state |-> "ready", cycle |-> 0, spawn |-> "none"]
  /\ debt = None
  /\ alive = Procs
  /\ proc = [p \in Procs |-> [pc |-> "idle", cycle |-> 0]]
  /\ launcher = [c \in Cycle |-> None]
  /\ child = [c \in Cycle |-> "none"]
  /\ unit = [c \in Cycle |-> "missing"]
  /\ gate = [c \in Cycle |-> "closed"]
  /\ rec = [debt |-> None, stopped |-> FALSE]

-----------------------------------------------------------------------------
(* The launcher: OpenCodeRunner::run with its callbacks *)

\* on_prepared, prepare_cycle_launch.
Prepare(p) ==
  LET c == eff.cycle + 1 IN
  /\ p \in alive /\ LockFree
  /\ eff.state = "ready"
  /\ eff' = [state |-> "launching", cycle |-> c, spawn |-> "open"]
  /\ launcher' = [launcher EXCEPT ![c] = p]
  /\ proc' = [proc EXCEPT ![p] = [pc |-> "prepared", cycle |-> c]]
  /\ UNCHANGED <<debt, alive, system, rec>>

\* The log file, the command line, a transaction or a systemctl call fails: run
\* returns, its end of the pipe closes, and the durable launch stays.
LaunchFails(p) ==
  LET c == proc[p].cycle IN
  /\ p \in alive
  /\ proc[p].pc \in {"prepared", "surrendered", "aborting", "failed"}
  /\ gate' = [gate EXCEPT ![c] = IF @ = "held" THEN "closed" ELSE @]
  /\ Goto(p, "abandoned")
  /\ UNCHANGED <<durable, alive, launcher, child, unit, rec>>

\* surrender_cycle_spawn_authority: the handoff, or the answer to a close
\* request.  (AuthorityHeld shows that there is no third case: the bail here and
\* in authorize_cycle_spawn is never reached.)
Surrender(p) ==
  /\ At(p, "prepared")
  /\ \/ /\ Launching(p, "open")
        /\ eff' = [eff EXCEPT !.spawn = "surrendered"]
        /\ Goto(p, "surrendered")
        /\ UNCHANGED debt
     \/ /\ eff.state = "cancelled"
        /\ DebtIs(p, "close_requested")
        /\ debt' = [debt EXCEPT !.spawn = "closed"]
        /\ Goto(p, "idle")
        /\ UNCHANGED eff
  /\ UNCHANGED <<alive, launcher, system, rec>>

\* authorize_cycle_spawn: the last look before systemd-run.
Recheck(p) ==
  /\ At(p, "surrendered")
  /\ \/ /\ Launching(p, "surrendered")
        /\ Goto(p, "authorized")
     \/ /\ eff.state = "cancelled"
        /\ DebtIs(p, "surrendered")
        /\ Goto(p, "failed")
  /\ UNCHANGED <<durable, alive, launcher, system, rec>>

\* command.spawn.
Spawn(p) ==
  /\ At(p, "authorized")
  /\ \/ /\ child' = [child EXCEPT ![proc[p].cycle] = "pending"]
        /\ gate' = [gate EXCEPT ![proc[p].cycle] = "held"]
        /\ Goto(p, "spawned")
     \/ /\ Goto(p, "failed")
        /\ UNCHANGED <<child, gate>>
  /\ UNCHANGED <<durable, alive, launcher, unit, rec>>

\* wait_for_service polls the unit; it gives up after 100 inspections.
WaitForService(p) ==
  /\ At(p, "spawned")
  /\ \/ Active(proc[p].cycle) /\ Goto(p, "active")
     \/ ~Active(proc[p].cycle) /\ Goto(p, "aborting")
  /\ UNCHANGED <<durable, alive, launcher, system, rec>>

\* on_started, record_cycle_started.  A failure of the transaction aborts.
RecordStarted(p) ==
  /\ At(p, "active")
  /\ \/ /\ Launching(p, "surrendered")
        /\ eff' = [eff EXCEPT !.state = "running", !.spawn = "none"]
        /\ Goto(p, "recorded")
     \/ /\ Goto(p, "aborting")
        /\ UNCHANGED eff
  /\ UNCHANGED <<debt, alive, launcher, system, rec>>

\* The admission gate: the write fails only when nobody reads any more.
OpenGate(p) ==
  /\ At(p, "recorded")
  /\ \/ /\ gate' = [gate EXCEPT ![proc[p].cycle] = "run"]
        /\ Goto(p, "supervising")
     \/ /\ ~Active(proc[p].cycle)
        /\ Goto(p, "aborting")
        /\ UNCHANGED gate
  /\ UNCHANGED <<durable, alive, launcher, child, unit, rec>>

\* The supervision loop: exit, timeout and lost authority (a cancellation, or
\* the repository lease) all end with the service stopped.
Supervise(p) ==
  /\ At(p, "supervising")
  /\ unit' = Stopped(proc[p].cycle)
  /\ \/ Goto(p, "idle")
     \/ eff.state # "cancelled" /\ Goto(p, "finishing")
  /\ UNCHANGED <<durable, alive, launcher, child, gate, rec>>

\* A failed poll ends the loop and leaves the service as it is.
SupervisionFails(p) ==
  /\ At(p, "supervising")
  /\ Goto(p, "idle")
  /\ UNCHANGED <<durable, alive, launcher, system, rec>>

\* classify_agent_result or consume_agent_failure: takes effect only while the
\* cycle is the running one.
Finish(p) ==
  /\ At(p, "finishing")
  /\ eff' = IF Holds(p, "running") THEN Released ELSE eff
  /\ Goto(p, "idle")
  /\ UNCHANGED <<debt, alive, launcher, system, rec>>

\* abort_unrecorded_spawn and terminate_runner_service: stop the unit, close the
\* stdin of systemd-run, and wait for it; it ends after its service.
Abort(p) ==
  LET c == proc[p].cycle IN
  /\ At(p, "aborting")
  /\ \/ /\ gate[c] = "held"
        /\ unit' = Stopped(c)
        /\ gate' = [gate EXCEPT ![c] = "closed"]
        /\ UNCHANGED proc
     \/ /\ gate[c] = "closed"
        /\ child[c] # "pending"
        /\ ~Active(c)
        /\ Goto(p, "failed")
        /\ UNCHANGED <<unit, gate>>
  /\ UNCHANGED <<durable, alive, launcher, child, rec>>

\* Mutant of AcknowledgeFailed: a failed spawn of a cancelled effort is dropped.
AcknowledgeDropped(p) ==
  /\ At(p, "failed")
  /\ eff' = IF Holds(p, "launching") \/ Holds(p, "running") THEN Released ELSE eff
  /\ Goto(p, "idle")
  /\ UNCHANGED <<debt, alive, launcher, system, rec>>

\* on_spawn_failed, acknowledge_cycle_spawn_failed: only with the unit down.
AcknowledgeFailed(p) ==
  /\ At(p, "failed")
  /\ ~Active(proc[p].cycle)
  /\ \/ /\ Launching(p, "surrendered") \/ Holds(p, "running")
        /\ eff' = Released
        /\ UNCHANGED debt
     \/ /\ eff.state = "cancelled"
        /\ DebtIs(p, "surrendered")
        /\ debt' = [debt EXCEPT !.spawn = "closed"]
        /\ UNCHANGED eff
  /\ Goto(p, "idle")
  /\ UNCHANGED <<alive, launcher, system, rec>>

\* The acknowledgement finds that a restart or a cancellation of the running
\* service owns the outcome now.
AcknowledgeRefused(p) ==
  /\ At(p, "failed")
  /\ ~Launching(p, "surrendered")
  /\ ~Holds(p, "running")
  /\ ~DebtIs(p, "surrendered")
  /\ Goto(p, "idle")
  /\ UNCHANGED <<durable, alive, launcher, system, rec>>

-----------------------------------------------------------------------------
(* Recovery: resume_item_owned *)

\* A launch whose launcher is dead, or any running cycle: its unit is stopped.
ResumeStop(q) ==
  /\ q \in alive /\ LockFree
  /\ \/ /\ eff.state = "launching" /\ launcher[eff.cycle] \notin alive
        /\ proc' = [proc EXCEPT ![q] = [pc |-> "resetting", cycle |-> eff.cycle]]
     \/ /\ eff.state = "running"
        /\ proc' = [proc EXCEPT ![q] = [pc |-> "consuming", cycle |-> eff.cycle]]
  /\ unit' = Stopped(eff.cycle)
  /\ UNCHANGED <<durable, alive, launcher, child, gate, rec>>

\* Mutant of ResumeRelease: the state is not read again in the transaction.
ResumeReleaseBlind(q) ==
  /\ At(q, "resetting") \/ At(q, "consuming")
  /\ eff' = Released
  /\ Goto(q, "idle")
  /\ UNCHANGED <<debt, alive, launcher, system, rec>>

\* reset_prepared_launch, consume_cycle_failure or the restart result.
ResumeRelease(q) ==
  /\ At(q, "resetting") \/ At(q, "consuming")
  /\ eff' = IF \/ At(q, "resetting") /\ Holds(q, "launching")
               \/ At(q, "consuming") /\ Holds(q, "running")
            THEN Released ELSE eff
  /\ Goto(q, "idle")
  /\ UNCHANGED <<debt, alive, launcher, system, rec>>

-----------------------------------------------------------------------------
(* Cancellation *)

\* Mutant of Cancel: the debt keeps the launch record as it was.
CancelUnclosed ==
  /\ eff.state \in {"launching", "running"}
  /\ eff' = [eff EXCEPT !.state = "cancelled", !.spawn = "none"]
  /\ debt' = [kind |-> "launching", cycle |-> eff.cycle, spawn |-> eff.spawn]
  /\ UNCHANGED <<alive, proc, launcher, system, rec>>

\* cancel_effort_transaction: an open launch must be closed by its launcher.
Cancel ==
  /\ eff.state \in {"ready", "launching", "running"}
  /\ eff' = [eff EXCEPT !.state = "cancelled", !.spawn = "none"]
  /\ debt' = CASE eff.state = "launching" ->
                    [kind |-> "launching", cycle |-> eff.cycle,
                     spawn |-> IF eff.spawn = "open" THEN "close_requested"
                                                     ELSE "surrendered"]
               [] eff.state = "running" -> [kind |-> "service", cycle |-> eff.cycle]
               [] OTHER -> None
  /\ UNCHANGED <<alive, proc, launcher, system, rec>>

\* reconcile_cancelled_runner_termination reads the debt ...
ReconcileLoad ==
  /\ rec.debt = None
  /\ eff.state = "cancelled"
  /\ debt # None
  /\ rec' = [debt |-> debt, stopped |-> FALSE]
  /\ UNCHANGED <<durable, alive, proc, launcher, system>>

\* Mutant of ReconcileStop: a missing unit is terminal whoever may spawn it.
ReconcileStopBlind ==
  /\ rec.debt # None /\ ~rec.stopped
  /\ unit' = Stopped(rec.debt.cycle)
  /\ rec' = [rec EXCEPT !.stopped = TRUE]
  /\ UNCHANGED <<durable, alive, proc, launcher, child, gate>>

\* ... stops the unit; while the launcher lives and its spawn authority is not
\* closed, a missing unit proves nothing and the debt stays ...
ReconcileStop ==
  /\ rec.debt # None /\ ~rec.stopped
  /\ unit' = Stopped(rec.debt.cycle)
  /\ rec' = IF /\ rec.debt.kind = "launching"
               /\ rec.debt.spawn # "closed"
               /\ launcher[rec.debt.cycle] \in alive
            THEN [debt |-> None, stopped |-> FALSE]
            ELSE [rec EXCEPT !.stopped = TRUE]
  /\ UNCHANGED <<durable, alive, proc, launcher, child, gate>>

\* ... and deletes it if it is still the debt it read.
ReconcileDelete ==
  /\ rec.debt # None /\ rec.stopped
  /\ debt' = IF debt = rec.debt THEN None ELSE debt
  /\ rec' = [debt |-> None, stopped |-> FALSE]
  /\ UNCHANGED <<eff, alive, proc, launcher, system>>

-----------------------------------------------------------------------------
(* Processes and systemd *)

\* A process dies; its end of the pipe closes.  Another one takes over.
Crash(p) ==
  /\ p \in alive
  /\ alive # {p}
  /\ alive' = alive \ {p}
  /\ gate' = [c \in Cycle |->
                IF launcher[c] = p /\ gate[c] = "held" THEN "closed" ELSE gate[c]]
  /\ UNCHANGED <<durable, proc, launcher, child, unit, rec>>

\* systemd-run asks systemd for the service, or fails.
ChildStartsUnit(c) ==
  /\ child[c] = "pending"
  /\ child' = [child EXCEPT ![c] = "done"]
  /\ unit' = [unit EXCEPT ![c] = "waiting"]
  /\ UNCHANGED <<durable, alive, proc, launcher, gate, rec>>

ChildFails(c) ==
  /\ child[c] = "pending"
  /\ child' = [child EXCEPT ![c] = "done"]
  /\ UNCHANGED <<durable, alive, proc, launcher, unit, gate, rec>>

\* The sandbox helper reads its gate: "run" starts the agent, end of file ends
\* the service.
HelperReads(c) ==
  /\ unit[c] = "waiting"
  /\ \/ gate[c] = "run" /\ unit' = [unit EXCEPT ![c] = "executing"]
     \/ gate[c] = "closed" /\ unit' = [unit EXCEPT ![c] = "stopped"]
  /\ UNCHANGED <<durable, alive, proc, launcher, child, gate, rec>>

\* The service ends by itself: the agent is done, or it is killed.
UnitExits(c) ==
  /\ Active(c)
  /\ unit' = [unit EXCEPT ![c] = "stopped"]
  /\ UNCHANGED <<durable, alive, proc, launcher, child, gate, rec>>

-----------------------------------------------------------------------------
LaunchStep(p) ==
  \/ Surrender(p) \/ Recheck(p) \/ Spawn(p) \/ WaitForService(p)
  \/ RecordStarted(p) \/ OpenGate(p) \/ Supervise(p) \/ Finish(p) \/ Abort(p)
  \/ AcknowledgeFailed(p) \/ AcknowledgeRefused(p) \/ ResumeRelease(p)

SystemStep(c) == ChildStartsUnit(c) \/ ChildFails(c) \/ HelperReads(c)

Reconcile == ReconcileLoad \/ ReconcileStop \/ ReconcileDelete

Next ==
  \/ \E p \in Procs : \/ Prepare(p) \/ LaunchFails(p) \/ SupervisionFails(p)
                      \/ LaunchStep(p) \/ ResumeStop(p) \/ Crash(p)
  \/ Cancel \/ Reconcile
  \/ \E c \in Cycle : SystemStep(c) \/ UnitExits(c)

\* A live process goes on with what it began, systemd does what it was asked,
\* and an unfinished cancellation is repeated (by the operator, or by the next
\* start of the daemon).
Fairness ==
  /\ \A p \in Procs : WF_vars(LaunchStep(p))
  /\ \A c \in Cycle : WF_vars(SystemStep(c))
  /\ WF_vars(Reconcile)

Spec == Init /\ [][Next]_vars /\ Fairness

-----------------------------------------------------------------------------
\* TypeOK: effort, debt and launch records are ones the code can decode, and some
\* process is always left to reconcile.
TypeOK ==
  /\ eff \in EffortRow
  /\ debt \in Debt \cup {None}
  /\ alive \in SUBSET Procs /\ alive # {}
  /\ proc \in [Procs -> [pc : Step, cycle : 0..MaxCycle]]
  /\ launcher \in [Cycle -> Procs \cup {None}]
  /\ child \in [Cycle -> {"none", "pending", "done"}]
  /\ unit \in [Cycle -> {"missing", "waiting", "executing", "stopped"}]
  /\ gate \in [Cycle -> {"closed", "held", "run"}]
  /\ rec \in [debt : Debt \cup {None}, stopped : BOOLEAN]

\* An agent runs only for the running cycle, or for a cancelled one whose debt
\* still names its service: whatever process dies, and whoever resumes, resets or
\* cancels between two steps of the launch, no agent runs that no durable row can
\* stop, and never two at once (run's admission gate, record_cycle_started).
AgentAccounted ==
  \A c \in Cycle : unit[c] = "executing" =>
    \/ eff.state = "running" /\ eff.cycle = c
    \/ eff.state = "cancelled" /\ debt = [kind |-> "service", cycle |-> c]

\* The spawn authority a launch record must show while its launcher is at a step.
Handoff(pc) == IF pc = "prepared" THEN <<"open", "close_requested">>
                                  ELSE <<"surrendered", "surrendered">>

\* A live launcher that may still start a service finds its own launch record, or
\* the debt its cancellation left, at every step before the start is recorded: no
\* restart resets it and no reconciliation settles it behind its back
\* (resume_item_owned and reconcile_cancelled_runner_termination ask
\* exact_process_is_alive).
AuthorityHeld ==
  \A p \in alive :
    proc[p].pc \in {"prepared", "surrendered", "authorized", "spawned", "active"} =>
      LET h == Handoff(proc[p].pc) IN
      Launching(p, h[1]) \/ (eff.state = "cancelled" /\ DebtIs(p, h[2]))

\* Closed spawn authority is closed for good: systemd-run of that cycle has ended,
\* or was never started, and its service is down, so that the missing unit the
\* reconciler then sees stays missing (close_requested_spawn_authority,
\* close_surrendered_spawn_authority).
SpawnClosed ==
  \A c \in Cycle : debt = [kind |-> "launching", cycle |-> c, spawn |-> "closed"] =>
    child[c] # "pending" /\ ~Active(c)

\* Cancellation is final: nothing that was under way brings the effort back
\* (reset_prepared_launch, acknowledge_terminated_cycle_spawn,
\* consume_cycle_failure re-read the state in their transaction).
CancelFinal == [][eff.state = "cancelled" => eff' = eff]_vars

\* An agent that runs, and a launcher that may still start one, are known to a durable
\* row that can stop them (run, resume_item_owned, reconcile_cancelled_runner_termination).
LaunchExact == AgentAccounted /\ AuthorityHeld

\* What cancellation ended does not come back: neither the effort nor, once its spawn
\* authority is closed, the service (cancel_item, close_surrendered_spawn_authority).
CancelKept == []SpawnClosed /\ CancelFinal

\* A process that returned from run without closing the authority it still holds.
Stranded == /\ debt # None
            /\ debt.kind = "launching" /\ debt.spawn # "closed"
            /\ At(launcher[debt.cycle], "abandoned")

\* A cancelled effort gets rid of its termination debt when cancellation is
\* repeated, unless its launcher gave up the launch and stays alive: then the
\* debt waits for that process to exit (cancel_item, reconcile).
CancelSettles == eff.state = "cancelled" ~> debt = None \/ Stranded

\* docs/adr/0009: a missing systemd unit is terminal only after spawn authority
\* is closed.  The debt goes only when systemd-run of its cycle can no longer
\* start the service.
MissingUnitTerminal ==
  [][debt # None /\ debt' = None => child[debt.cycle] # "pending"]_vars
=============================================================================
