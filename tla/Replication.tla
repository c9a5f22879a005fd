----------------------------- MODULE Replication -----------------------------
(***************************************************************************)
(* Replication of canonical landings to one target of one replica          *)
(* (src/src/composition.rs reconcile_replication_debt, src/src/lib.rs      *)
(* 4930-5053 and 6582-6847): every landing leaves a debt, debts are        *)
(* numbered, and each is pinned, applied by a push with a lease, verified  *)
(* and cleaned up.                                                         *)
(*                                                                         *)
(* The reconciler stops at any step; its push is a process group of its    *)
(* own and may arrive later, or never; others write to the replica.        *)
(*                                                                         *)
(* Abstractions.                                                           *)
(*  - One reconciler runs at a time: the daemon and the command line take  *)
(*    the operation lock of the repository.                                *)
(*  - The source SHA of a debt is its sequence number; the application id  *)
(*    and the failure text follow from the outcome and are left out.       *)
(*  - Others write commits that were never on the replica before.          *)
(*  - newer_completed_replication never finds a row (FinishedInOrder), so  *)
(*    the supersession of a debt has no action.                            *)
(*  - Draining and leases are not here.                                    *)
(***************************************************************************)
EXTENDS Integers, FiniteSets

CONSTANTS
  MaxDebt,  \* bound on the landings replicated
  Foreign   \* commits others put on the replica

ASSUME MaxDebtAssumption == MaxDebt \in Nat \ {0}
ASSUME ForeignAssumption == Foreign \cap (0..MaxDebt) = {}

VARIABLES
  debts,    \* the replication_debt rows, by sequence
  pins,     \* sequences whose refs/iq/replication/<id> exists
  replica,  \* what the target of the replica points at, 0 when the ref does not exist
  shown,    \* everything the replica has pointed at
  run,      \* where the reconciler is, and what it has read
  flight    \* pushes on their way to the replica

vars == <<debts, pins, replica, shown, run, flight>>

Seqs == 1..MaxDebt
Commits == 0..MaxDebt \cup Foreign

\* absent is a row that was not inserted yet.
Outcome == {"absent", "pinning", "pending", "applying", "uncertain", "applied",
            "succeeded", "failed"}

Row == [op : {"pin_source", "resolve_destination", "advance_exact_target"},
        outcome : Outcome, expected : Commits]

Pc == {"idle", "load", "pinned", "order", "observe", "decide", "push", "pushing",
       "verify", "judge", "cleanup", "cleaned"}

RunRow == [pc : Pc, debt : 0..MaxDebt, seen : Commits, failed : BOOLEAN]

Push == [source : Seqs, expected : Commits]

D == debts[run.debt]

At(pc) == run.pc = pc
Goto(pc) == run' = [run EXCEPT !.pc = pc]
Store(outcome) == debts' = [debts EXCEPT ![run.debt].outcome = outcome]

\* outcome NOT IN ('succeeded','superseded').
Unfinished(d) == debts[d].outcome \notin {"absent", "succeeded"}

Init ==
  /\ debts = [d \in Seqs |-> [op |-> "pin_source", outcome |-> "absent", expected |-> 0]]
  /\ pins = {}
  /\ replica = 0
  /\ shown = {0}
  /\ run = [pc |-> "idle", debt |-> 0, seen |-> 0, failed |-> FALSE]
  /\ flight = {}

-----------------------------------------------------------------------------
(* Debts *)

\* mark_integrated, under the operation lock, inserts a debt with the next sequence.
Land ==
  /\ At("idle")
  /\ \E d \in Seqs : /\ debts[d].outcome = "absent"
                     /\ \A e \in Seqs : e < d => debts[e].outcome # "absent"
                     /\ debts' = [debts EXCEPT ![d].outcome = "pinning"]
  /\ UNCHANGED <<pins, replica, shown, run, flight>>

\* Mutant of Start: failed debt is left alone.
StartUnlessFailed(d) ==
  /\ At("idle")
  /\ Unfinished(d) /\ debts[d].outcome # "failed"
  /\ run' = [pc |-> "load", debt |-> d, seen |-> 0, failed |-> FALSE]
  /\ UNCHANGED <<debts, pins, replica, shown, flight>>

\* reconcile_pending_replication takes the first unfinished debt, iq replication
\* retry any, replicate_canonical_landing pins the one of its item.
Start(d) ==
  /\ At("idle")
  /\ Unfinished(d)
  /\ run' = [pc |-> "load", debt |-> d, seen |-> 0, failed |-> FALSE]
  /\ UNCHANGED <<debts, pins, replica, shown, flight>>

\* Applied debt is cleaned up, other debt that is pinned waits for its turn.
Load ==
  /\ At("load")
  /\ D.op # "pin_source"
  /\ Goto(IF D.outcome = "applied" THEN "cleanup" ELSE "order")
  /\ UNCHANGED <<debts, pins, replica, shown, flight>>

\* publish_replication_source_pin: the object exists, its ref is created or found.
PublishPin ==
  /\ At("load")
  /\ D.op = "pin_source"
  /\ pins' = pins \cup {run.debt}
  /\ Goto("pinned")
  /\ UNCHANGED <<debts, replica, shown, flight>>

\* The object is missing: the debt fails, and so does the observation that
\* follows, for pin_source permits no other command.
PinFails ==
  /\ At("load")
  /\ D.op = "pin_source"
  /\ Store("failed")
  /\ Goto("idle")
  /\ UNCHANGED <<pins, replica, shown, flight>>

\* complete_replication_source_pin.
CompletePin ==
  /\ At("pinned")
  /\ debts' = [debts EXCEPT ![run.debt].op = "resolve_destination",
                            ![run.debt].outcome = "pending"]
  /\ Goto("order")
  /\ UNCHANGED <<pins, replica, shown, flight>>

-----------------------------------------------------------------------------
(* Application *)

\* Mutant of Older: applied debt does not block.
OlderUnapplied ==
  \E d \in Seqs : d < run.debt /\ Unfinished(d) /\ debts[d].outcome # "applied"

\* older_unfinished_replication.
Older == \E d \in Seqs : d < run.debt /\ Unfinished(d)

\* FIFO: debt behind an unfinished one is refused.
Order ==
  /\ At("order")
  /\ Goto(IF Older THEN "idle" ELSE "observe")
  /\ UNCHANGED <<debts, pins, replica, shown, flight>>

\* ls-remote.
Observe ==
  /\ At("observe")
  /\ run' = [run EXCEPT !.pc = "decide", !.seen = replica]
  /\ UNCHANGED <<debts, pins, replica, shown, flight>>

\* The replica cannot be verified or read.
ObserveFails ==
  /\ At("observe")
  /\ Store(IF D.outcome \in {"applying", "uncertain"} THEN "uncertain" ELSE "failed")
  /\ Goto("idle")
  /\ UNCHANGED <<pins, replica, shown, flight>>

\* finish_replication_debt with success: the replica shows the source.
Applied ==
  /\ At("decide") \/ At("judge")
  /\ run.seen = run.debt
  /\ Store("applied")
  /\ Goto("cleanup")
  /\ UNCHANGED <<pins, replica, shown, flight>>

\* mark_replication_uncertain: an application is under way and the replica shows
\* neither what it started from nor what it brings.
Diverged ==
  /\ At("decide")
  /\ run.seen \notin {run.debt, D.expected}
  /\ D.outcome \in {"applying", "uncertain"}
  /\ Store("uncertain")
  /\ Goto("idle")
  /\ UNCHANGED <<pins, replica, shown, flight>>

\* resume_replication_application, with the expected destination it has.
Resume ==
  /\ At("decide")
  /\ run.seen = D.expected
  /\ D.outcome \in {"applying", "uncertain"}
  /\ Store("applying")
  /\ Goto("push")
  /\ UNCHANGED <<pins, replica, shown, flight>>

\* begin_replication_application: intent and expected destination are recorded.
Begin ==
  /\ At("decide")
  /\ run.seen # run.debt
  /\ D.outcome \in {"pending", "failed"}
  /\ debts' = [debts EXCEPT ![run.debt] = [op |-> "advance_exact_target",
                                           outcome |-> "applying", expected |-> run.seen]]
  /\ Goto("push")
  /\ UNCHANGED <<pins, replica, shown, flight>>

\* git push --force-with-lease leaves.
SendPush ==
  /\ At("push")
  /\ flight' = flight \cup {[source |-> run.debt, expected |-> D.expected]}
  /\ Goto("pushing")
  /\ UNCHANGED <<debts, pins, replica, shown>>

\* It cannot be started.
SpawnFails ==
  /\ At("push")
  /\ run' = [run EXCEPT !.pc = "verify", !.failed = TRUE]
  /\ UNCHANGED <<debts, pins, replica, shown, flight>>

\* The push is given up after its timeout.
Timeout ==
  /\ At("pushing")
  /\ run' = [run EXCEPT !.pc = "verify", !.failed = TRUE]
  /\ UNCHANGED <<debts, pins, replica, shown, flight>>

\* ls-remote once more.
Verify ==
  /\ At("verify")
  /\ run' = [run EXCEPT !.pc = "judge", !.seen = replica]
  /\ UNCHANGED <<debts, pins, replica, shown, flight>>

VerifyFails ==
  /\ At("verify")
  /\ Store("uncertain")
  /\ Goto("idle")
  /\ UNCHANGED <<pins, replica, shown, flight>>

\* The push failed and the replica is as before, or nobody knows. A missing ref is
\* not compared with the zero object id it was expected to have.
NotApplied ==
  /\ At("judge")
  /\ run.seen # run.debt
  /\ Store(IF run.seen = D.expected /\ run.seen # 0 /\ run.failed THEN "failed" ELSE "uncertain")
  /\ Goto("idle")
  /\ UNCHANGED <<pins, replica, shown, flight>>

-----------------------------------------------------------------------------
(* Cleanup *)

\* Mutant of DeletePin: cleanup is recorded without deleting the pin.
DeletePinSkipped ==
  /\ At("cleanup")
  /\ Goto("cleaned")
  /\ UNCHANGED <<debts, pins, replica, shown, flight>>

\* compare_and_delete_replication_source_pin, and the check that it is gone.
DeletePin ==
  /\ At("cleanup")
  /\ pins' = pins \ {run.debt}
  /\ Goto("cleaned")
  /\ UNCHANGED <<debts, replica, shown, flight>>

\* complete_replication_source_cleanup.
Succeed ==
  /\ At("cleaned")
  /\ Store("succeeded")
  /\ Goto("idle")
  /\ UNCHANGED <<pins, replica, shown, flight>>

\* The process dies, loses its authority, or a command that must not fail does.
Crash ==
  /\ ~At("idle")
  /\ Goto("idle")
  /\ UNCHANGED <<debts, pins, replica, shown, flight>>

-----------------------------------------------------------------------------
(* The replica *)

\* The run that still waits for this push hears of it.
Answer(m, failures) ==
  IF At("pushing") /\ run.debt = m.source
  THEN \E f \in failures : run' = [run EXCEPT !.pc = "verify", !.failed = f]
  ELSE UNCHANGED run

\* The report of a push that landed may be lost.
PushLands(m) ==
  /\ replica = m.expected
  /\ replica' = m.source
  /\ shown' = shown \cup {m.source}
  /\ flight' = flight \ {m}
  /\ Answer(m, BOOLEAN)
  /\ UNCHANGED <<debts, pins>>

PushRefused(m) ==
  /\ replica # m.expected
  /\ flight' = flight \ {m}
  /\ Answer(m, {TRUE})
  /\ UNCHANGED <<debts, pins, replica, shown>>

PushLost(m) ==
  /\ flight' = flight \ {m}
  /\ Answer(m, {TRUE})
  /\ UNCHANGED <<debts, pins, replica, shown>>

OthersPush(x) ==
  /\ x \notin shown
  /\ replica' = x
  /\ shown' = shown \cup {x}
  /\ UNCHANGED <<debts, pins, run, flight>>

-----------------------------------------------------------------------------
Step ==
  \/ Load \/ PublishPin \/ CompletePin \/ Order \/ Observe \/ Applied \/ Diverged
  \/ Resume \/ Begin \/ SendPush \/ Verify \/ NotApplied \/ DeletePin \/ Succeed

Delivery == \E m \in flight : PushLands(m) \/ PushRefused(m)

Failure ==
  \/ PinFails \/ ObserveFails \/ SpawnFails \/ Timeout \/ VerifyFails \/ Crash
  \/ \E m \in flight : PushLost(m)

Working ==
  \/ Land \/ Step \/ Delivery
  \/ \E d \in Seqs : Start(d)
  \/ \E x \in Foreign : OthersPush(x)

Next == Working \/ Failure

\* The first unfinished debt, which every daemon round takes up.
StartHead ==
  \E d \in Seqs : Start(d) /\ \A e \in Seqs : e < d => ~Unfinished(e)

\* A run goes on until it ends, a push arrives unless it is lost, and the daemon
\* gets its turn between the retries of an operator.
Fairness == WF_vars(Step) /\ WF_vars(Delivery) /\ SF_vars(StartHead)

Spec == Init /\ [][Next]_vars /\ Fairness

-----------------------------------------------------------------------------
(* Properties *)

\* TypeOK: rows satisfy the CHECK constraints of the table, and sequences are
\* handed out without a gap.
TypeOK ==
  /\ debts \in [Seqs -> Row]
  /\ \A d \in Seqs : /\ debts[d].outcome = "pinning" => debts[d].op = "pin_source"
                     /\ debts[d].outcome \in {"applying", "uncertain"} =>
                          debts[d].op = "advance_exact_target"
                     /\ debts[d].outcome # "absent" =>
                          \A e \in Seqs : e < d => debts[e].outcome # "absent"
  /\ pins \subseteq Seqs
  /\ replica \in Commits /\ shown \subseteq Commits /\ replica \in shown
  /\ run \in RunRow /\ (run.pc # "idle" => run.debt \in Seqs)
  /\ flight \subseteq Push

Finished(d) == debts[d].outcome = "succeeded"

\* FinishedInOrder: a debt is finished only after all older ones, whoever retries
\* which debt, so that the table never holds a newer completed debt next to an
\* older open one (older_unfinished_replication).
FinishedInOrder ==
  \A d, e \in Seqs : e < d /\ debts[d].outcome \in {"applying", "uncertain", "applied",
                                                    "succeeded"} => Finished(e)

\* LatePushIsHead: a push that can still change the replica, even one given up
\* long ago and retried since, belongs to a debt that is not finished.
LatePushIsHead ==
  \A m \in flight : m.expected = replica => Unfinished(m.source)

\* NeverBack: the replica never goes back to an older landing: what a push writes
\* is newer than every debt that is applied or finished
\* (docs/repository-policy.md on sequences).
NeverBack ==
  [][replica' \in Seqs /\ replica' # replica =>
       \A d \in Seqs : debts[d].outcome \in {"applied", "succeeded"} => d < replica']_vars

\* AppliedWasShown: a debt counts as applied only when the replica was seen to
\* point at its exact source, never on the word of a push.
AppliedWasShown ==
  \A d \in Seqs : debts[d].outcome \in {"applied", "succeeded"} => d \in shown

\* InOrder: debts are applied in the order of the landings, each because the replica
\* was seen to have it, and neither a late push nor a retry takes the replica back
\* (reconcile_replication_debt).
InOrder == [](TypeOK /\ FinishedInOrder /\ LatePushIsHead /\ AppliedWasShown) /\ NeverBack

\* PinHeld: the source of a debt is pinned from before it may be pushed until its
\* application is durable, and no pin outlives its debt.
PinHeld ==
  /\ \A d \in Seqs : debts[d].outcome \in {"pending", "applying", "uncertain"} => d \in pins
  /\ \A d \in pins : Unfinished(d)

\* An application started on a replica that others have written to since.
Stuck == \E d \in Seqs : /\ debts[d].outcome \in {"applying", "uncertain"}
                         /\ replica \notin {d, debts[d].expected}

\* Failures stop some day.
Calm == <>[][Working]_vars

\* DebtSettles: whatever crashed and got lost before, every debt succeeds once the
\* failures stop, unless others wrote to the replica while it was being applied
\* (reconcile_pending_replication retries failed and uncertain debt).
DebtSettles ==
  Calm => \A d \in Seqs : debts[d].outcome # "absent" ~> Finished(d) \/ Stuck
=============================================================================
