-------------------------------- MODULE Queue --------------------------------
(***************************************************************************)
(* The queue of one repository (src/src/lib.rs SqliteQueue 4302-5155,      *)
(* 6036-6317, Integrator::run_once 15132-15208): admission, the choice of  *)
(* the next item, claim, progress, cancellation, the workspace of an item, *)
(* draining and disabling.                                                 *)
(*                                                                         *)
(* The runner, an admission and the operator who drains hold the operation *)
(* lock of the repository one at a time; cancellation and answers do not.  *)
(* The runner may stop at any step.                                        *)
(*                                                                         *)
(* Abstractions.                                                           *)
(*  - The effort of an item is what project_queue_state shows of it; its   *)
(*    own states are in Effort.  A blocked item waits for the user, for    *)
(*    the provider, or (blocked before it had an effort) for cancellation. *)
(*  - Direct and merge-request admissions differ in their key only: the    *)
(*    source is a branch or a merge-request identity.                      *)
(*  - created_at is a position in time; two admissions never share one.    *)
(*  - The replication debts of one item are one, its own steps are in      *)
(*    Replication.  Development workspaces are in Submission.              *)
(*  - require_item_integration_policy and enforce_item_boundary compare    *)
(*    immutable columns of the registration and never fail here.           *)
(***************************************************************************)
EXTENDS Integers, FiniteSets

CONSTANTS
  MaxItem,     \* bound on the items admitted
  Targets,     \* target refs
  Sources,     \* source branches or merge-request identities
  ClockSteps,  \* the wall clock may step back between two admissions
  None         \* no item, no admission

ASSUME MaxItemAssumption == MaxItem \in Nat \ {0}
ASSUME ClockAssumption == ClockSteps \in BOOLEAN

VARIABLES
  items,    \* the queue_items rows with their admission and debts
  op,       \* operation_state and the obligations it captured
  runner,   \* where run_once is, and the item it has read
  asking,   \* an admission passed its first policy check
  disk      \* items whose Rift workspace exists

vars == <<items, op, runner, asking, disk>>

Items == 1..MaxItem

Status == {"absent", "ready", "merging", "merged", "validating", "integrating",
           "blocked", "integrated", "cancelled"}

Request == [target : Targets, source : Sources]

Item == [status : Status, admission : Request \cup {None}, created : Nat,
         workspace : {"not_created", "creation_intent", "retained", "cleaned"},
         debt : BOOLEAN, replication : BOOLEAN, external : BOOLEAN,
         waits : {"none", "user", "provider", "cancel"}]

OperationState == [state : {"enabled", "draining", "disabled"},
                   items : SUBSET Items, debts : SUBSET Items]

Runner == [pc : {"idle"}, item : {None}]
            \cup [pc : {"picked", "working", "intent", "created"}, item : Items]

Terminal(i) == items[i].status \in {"integrated", "cancelled"}
Active(i) == items[i].status \notin {"absent", "integrated", "cancelled"}

Target(i) == items[i].admission.target

\* create_effort follows set_workspace_identity: an active item has an effort
\* when its workspace is retained.
HasEffort(i) == items[i].workspace = "retained"

\* The runner, or nobody, holds the operation lock.
LockFree == runner.pc = "idle"

Init ==
  /\ items = [i \in Items |->
       [status |-> "absent", admission |-> None, created |-> 0,
        workspace |-> "not_created", debt |-> FALSE, replication |-> FALSE,
        external |-> FALSE, waits |-> "none"]]
  /\ op = [state |-> "enabled", items |-> {}, debts |-> {}]
  /\ runner = [pc |-> "idle", item |-> None]
  /\ asking = FALSE
  /\ disk = {}

-----------------------------------------------------------------------------
(* Policy *)

\* require_new_work.
NewWork == op.state = "enabled"

\* require_obligation of QueueItem.
Obligation(i) == op.state = "enabled" \/ (op.state = "draining" /\ i \in op.items)

-----------------------------------------------------------------------------
(* Admission *)

\* admit_direct_for_target and admit_merge_request: the policy is read before
\* the operation lock is taken and the remote is asked.
BeginAdmission ==
  /\ ~asking
  /\ NewWork
  /\ asking' = TRUE
  /\ UNCHANGED <<items, op, runner, disk>>

\* The remote shows another head, the lock is taken, the client gives up.
DropAdmission ==
  /\ asking
  /\ asking' = FALSE
  /\ UNCHANGED <<items, op, runner, disk>>

\* The active item of the same source and target.
Existing(r) == {i \in Items : Active(i) /\ items[i].admission = r}

Admitted == {i \in Items : items[i].status # "absent"}

\* now(): the clock of the host.
CreatedAt ==
  {t \in Items :
     /\ \A i \in Admitted : items[i].created # t
     /\ ClockSteps \/ t = Cardinality(Admitted) + 1}

\* INSERT INTO queue_items and queue_admissions: items are named in the order of
\* their admission.
Insert(r, t) ==
  LET i == Cardinality(Admitted) + 1
  IN  /\ i \in Items
      /\ items' = [items EXCEPT ![i].status = "ready", ![i].admission = r,
                                ![i].created = t]

\* admit_direct: the active item of the source is answered when its head is the
\* same, and refused otherwise.
Admit(r) ==
  /\ asking /\ LockFree
  /\ NewWork
  /\ IF Existing(r) # {}
     THEN UNCHANGED items
     ELSE \E t \in CreatedAt : Insert(r, t)
  /\ asking' = FALSE
  /\ UNCHANGED <<op, runner, disk>>

-----------------------------------------------------------------------------
(* The choice of the next item *)

Older(j, i) == items[j].created < items[i].created

\* Mutant of TargetHead: a blocked item lets the next of its target pass.
TargetHeadPassing(i) ==
  /\ Active(i)
  /\ \A j \in Items : (Active(j) /\ Target(j) = Target(i) /\ items[j].status # "blocked")
                        => ~Older(j, i)

\* NOT EXISTS an older active item of the same target.
TargetHead(i) ==
  /\ Active(i)
  /\ \A j \in Items : (Active(j) /\ Target(j) = Target(i)) => ~Older(j, i)

Blocked(i) == items[i].status = "blocked"

\* Mutant of OldestActive: the heads are taken by age alone.
OldestActiveByAge(i) ==
  /\ TargetHead(i)
  /\ \A j \in Items : (TargetHead(j) /\ j # i) => Older(i, j)

\* oldest_active_item: the oldest head of a target, heads that are not blocked first.
OldestActive(i) ==
  /\ TargetHead(i)
  /\ \A j \in Items : (TargetHead(j) /\ j # i) =>
       \/ ~Blocked(i) /\ Blocked(j)
       \/ Blocked(i) = Blocked(j) /\ Older(i, j)

\* run_once takes the lock and reads the oldest active item; the item of a
\* draining repository must be one of its obligations.
Pick(i) ==
  /\ LockFree
  /\ op.state # "disabled"
  /\ OldestActive(i)
  /\ Obligation(i)
  /\ ~(Blocked(i) /\ ~HasEffort(i))
  /\ runner' = [pc |-> "picked", item |-> i]
  /\ UNCHANGED <<items, op, asking, disk>>

R == items[runner.item]
At(pc) == runner.pc = pc
Goto(pc) == runner' = [runner EXCEPT !.pc = pc]

Done == runner' = [pc |-> "idle", item |-> None]

\* claim_next_ready_with_authority: the head of the target is read again in the
\* transaction, and is the item claimed.
Claim ==
  /\ At("picked")
  /\ R.status \in {"ready", "cancelled"}
  /\ \E i \in Items : /\ Active(i) /\ Target(i) = R.admission.target /\ TargetHead(i)
                      /\ Obligation(i)
                      /\ items[i].status = "ready"
                      /\ items' = [items EXCEPT ![i].status = "merging"]
                      /\ runner' = [pc |-> "working", item |-> i]
  /\ UNCHANGED <<op, asking, disk>>

\* The target has no active item any more, or its head is not ready.
ClaimNothing ==
  /\ At("picked")
  /\ R.status \in {"ready", "cancelled"}
  /\ ~ \E i \in Items : Active(i) /\ Target(i) = R.admission.target /\ items[i].status = "ready"
                        /\ TargetHead(i)
  /\ Done
  /\ UNCHANGED <<items, op, asking, disk>>

\* resume_item_owned: an item in flight goes on; one that waits for the provider
\* is reconciled; one that waits for the user stays.
Resume ==
  /\ At("picked")
  /\ R.status \notin {"ready", "cancelled"}
  /\ IF Blocked(runner.item) /\ R.waits = "user"
     THEN Done /\ UNCHANGED items
     ELSE /\ items' = IF Blocked(runner.item)
                      THEN [items EXCEPT ![runner.item].status = "integrating",
                                         ![runner.item].waits = "none"]
                      ELSE items
          /\ Goto("working")
  /\ UNCHANGED <<op, asking, disk>>

\* iq resume: any head of a target, chosen by the operator.
ResumeItem(i) ==
  /\ LockFree
  /\ Obligation(i)
  /\ TargetHead(i)
  /\ items[i].status # "ready"
  /\ ~(Blocked(i) /\ ~HasEffort(i))
  /\ runner' = [pc |-> "picked", item |-> i]
  /\ UNCHANGED <<items, op, asking, disk>>

-----------------------------------------------------------------------------
(* The workspace of an item *)

\* merge_item removes what an earlier run left; begin_workspace_creation records
\* the path of an item that is still merging.
BeginWorkspaceCreation ==
  /\ At("working")
  /\ R.status = "merging" /\ ~HasEffort(runner.item)
  /\ items' = [items EXCEPT ![runner.item].workspace = "creation_intent"]
  /\ disk' = disk \ {runner.item}
  /\ Goto("intent")
  /\ UNCHANGED <<op, asking>>

\* create, whose gate is released by authorize_execution_start.
CreateRift ==
  /\ At("intent")
  /\ R.status = "merging"
  /\ Obligation(runner.item)
  /\ disk' = disk \cup {runner.item}
  /\ Goto("created")
  /\ UNCHANGED <<items, op, asking>>

\* set_workspace_identity, then create_effort.
SetWorkspaceIdentity ==
  /\ At("created")
  /\ R.status = "merging" /\ R.workspace = "creation_intent"
  /\ items' = [items EXCEPT ![runner.item].workspace = "retained"]
  /\ Goto("working")
  /\ UNCHANGED <<op, asking, disk>>

\* block_item_owned before there is an effort.
BlockWithoutEffort ==
  /\ At("working")
  /\ R.status = "merging" /\ ~HasEffort(runner.item)
  /\ items' = [items EXCEPT ![runner.item].status = "blocked", ![runner.item].waits = "cancel"]
  /\ Done
  /\ UNCHANGED <<op, asking, disk>>

\* A step of the run finds its item cancelled.
Abandon ==
  /\ runner.pc \in {"working", "intent", "created"}
  /\ R.status = "cancelled"
  /\ Done
  /\ UNCHANGED <<items, op, asking, disk>>

\* A command fails: the cycle ends and the lock is released.  A crash does the same.
EndCycle ==
  /\ ~LockFree
  /\ Done
  /\ UNCHANGED <<items, op, asking, disk>>

-----------------------------------------------------------------------------
(* Progress of an item with an effort *)

Outcome(s, w, e) == [status |-> s, waits |-> w, external |-> e]

\* project_queue_state of the states the effort reaches in one step of a run.
\* external is the landing authority of item_contains_external_landing_authority.
NextOutcome(r) ==
  CASE r.status = "merging"    -> {Outcome("merged", "none", FALSE),
                                   Outcome("blocked", "user", FALSE)}
    [] r.status = "merged"     -> {Outcome("validating", "none", FALSE)}
    [] r.status = "validating" -> {Outcome("integrating", "none", FALSE),
                                   Outcome("merging", "none", FALSE),
                                   Outcome("blocked", "user", FALSE)}
    [] r.status = "integrating" -> {Outcome("blocked", "provider", r.external),
                                    Outcome("merging", "none", FALSE),
                                    Outcome("integrating", "none", TRUE)}
    [] OTHER -> {}

\* update_state and project_queue_state; a blocked item ends the cycle.
Progress ==
  /\ At("working")
  /\ HasEffort(runner.item)
  /\ \E o \in NextOutcome(R) :
       /\ items' = [items EXCEPT ![runner.item].status = o.status,
                                 ![runner.item].waits = o.waits,
                                 ![runner.item].external = o.external]
       /\ IF o.status = "blocked" THEN Done ELSE UNCHANGED runner
  /\ UNCHANGED <<op, asking, disk>>

\* mark_integrated: landing authority, the debts of the landing.
MarkIntegrated ==
  /\ At("working")
  /\ HasEffort(runner.item) /\ R.status = "integrating" /\ R.external
  /\ Obligation(runner.item)
  /\ items' = [items EXCEPT ![runner.item].status = "integrated", ![runner.item].debt = TRUE,
                            ![runner.item].replication = TRUE]
  /\ Done
  /\ UNCHANGED <<op, asking, disk>>

\* An answer or a review over the control API: the effort is ready again.
Answer(i) ==
  /\ Blocked(i) /\ items[i].waits = "user"
  /\ \E s \in {"merging", "merged"} :
       items' = [items EXCEPT ![i].status = s, ![i].waits = "none"]
  /\ UNCHANGED <<op, runner, asking, disk>>

\* cancel_item: no lock, no lease, no obligation; refused once the landing is
\* with the provider.
Cancel(i) ==
  /\ Active(i) /\ ~items[i].external
  /\ items' = [items EXCEPT ![i].status = "cancelled", ![i].waits = "none",
                            ![i].debt = items[i].workspace \in {"creation_intent", "retained"}]
  /\ UNCHANGED <<op, runner, asking, disk>>

-----------------------------------------------------------------------------
(* Debts of terminal items *)

\* cleanup_terminal_item and reconcile_workspaces: the workspace is removed, then
\* the row is marked and the debt completed.  A stop in between repeats the step.
Clean(i) ==
  /\ LockFree
  /\ Terminal(i)
  /\ items[i].workspace # "cleaned"
  /\ \/ /\ disk' = disk \ {i}
        /\ UNCHANGED items
     \/ /\ i \notin disk
        /\ items' = [items EXCEPT ![i].workspace = "cleaned", ![i].debt = FALSE]
        /\ UNCHANGED disk
  /\ UNCHANGED <<op, runner, asking>>

\* reconcile_replication_debt, authorised by require_replication_tx: the debt or
\* its item is an obligation.
Replicate(i) ==
  /\ LockFree
  /\ items[i].replication
  /\ op.state = "enabled" \/ (op.state = "draining" /\ i \in op.items \cup op.debts)
  /\ items' = [items EXCEPT ![i].replication = FALSE]
  /\ UNCHANGED <<op, runner, asking, disk>>

-----------------------------------------------------------------------------
(* Draining *)

\* Mutant of BeginDraining: the debts of items already integrated are forgotten.
BeginDrainingItems ==
  /\ LockFree
  /\ op.state = "enabled"
  /\ op' = [state |-> "draining", items |-> {i \in Items : Active(i)}, debts |-> {}]
  /\ UNCHANGED <<items, runner, asking, disk>>

\* begin_repository_draining, under the lease.
BeginDraining ==
  /\ LockFree
  /\ op.state = "enabled"
  /\ op' = [state |-> "draining", items |-> {i \in Items : Active(i)},
            debts |-> {i \in Items : items[i].replication}]
  /\ UNCHANGED <<items, runner, asking, disk>>

\* disable_drained_repository.
Disable ==
  /\ LockFree
  /\ op.state = "draining"
  /\ \A i \in op.items : /\ Terminal(i)
                         /\ items[i].workspace \in {"not_created", "cleaned"}
                         /\ ~items[i].debt /\ ~items[i].replication
  /\ \A i \in op.debts : ~items[i].replication
  /\ op' = [state |-> "disabled", items |-> {}, debts |-> {}]
  /\ UNCHANGED <<items, runner, asking, disk>>

-----------------------------------------------------------------------------
RunOnce ==
  \/ \E i \in Items : Pick(i)
  \/ Claim \/ ClaimNothing \/ Resume
  \/ BeginWorkspaceCreation \/ CreateRift \/ SetWorkspaceIdentity \/ BlockWithoutEffort
  \/ Abandon \/ Progress \/ MarkIntegrated

Operator ==
  \/ BeginAdmission \/ DropAdmission
  \/ \E r \in Request : Admit(r)
  \/ \E i \in Items : ResumeItem(i) \/ Answer(i) \/ Cancel(i)
  \/ BeginDraining \/ Disable

Debts == \E i \in Items : Clean(i) \/ Replicate(i)

Next == RunOnce \/ EndCycle \/ Operator \/ Debts

Spec == Init /\ [][Next]_vars

\* The daemon runs a cycle again and again; whether a cycle ends well, and
\* everything the operator does, is not promised.
FairSpec == Spec /\ WF_vars(RunOnce) /\ WF_vars(Debts)

-----------------------------------------------------------------------------
(* Properties *)

\* Types of the rows, the operation state and the runner.
TypeOK ==
  /\ items \in [Items -> Item]
  /\ op \in OperationState
  /\ runner \in Runner
  /\ asking \in BOOLEAN
  /\ disk \subseteq Items

InFlight(i) == Active(i) /\ items[i].status # "ready"

\* One target has one item in flight: cancellations, answers, blocked heads and
\* restarts never let a second item of the target be claimed beside it
\* (oldest_active_item, claim_next_ready_with_authority).
OneInFlight ==
  \A i, j \in Items : (i # j /\ InFlight(i) /\ InFlight(j)) => Target(i) # Target(j)

\* A claimed item is the earliest admitted active item of its target, whatever
\* happened between the read that chose it and the transaction that claims it.
StrictFifo ==
  [][\A i \in Items : (items[i].status = "ready" /\ items'[i].status = "merging") =>
       \A j \in Items : (Active(j) /\ j # i /\ Target(j) = Target(i)) => j > i]_vars

\* The same request delivered twice, before and after a lost reply, has one
\* active item (the existing row of admit_direct).
OneItemPerSource ==
  \A i, j \in Items : (i # j /\ Active(i) /\ Active(j)) => items[i].admission # items[j].admission

\* A workspace on disk is named by the row of its item, or by its cleanup debt,
\* whenever the item was cancelled and wherever the runner stopped.
ResidueOwned ==
  \A i \in disk : /\ items[i].workspace \in {"creation_intent", "retained"}
                  /\ Terminal(i) => items[i].debt

\* A disabled repository rejects integration and replication, so nothing may be
\* left of them, whatever was admitted, cancelled or landed while it drained.  The
\* workspaces of items that were terminal before are left to the operator's cleanup.
DisabledIsDone ==
  op.state = "disabled" => \A i \in Items : ~Active(i) /\ ~items[i].replication

\* While a repository drains, every active item can still be worked on: the
\* obligations captured are never fewer than the work there is.
DrainingCoversWork ==
  op.state = "draining" => \A i \in Items : Active(i) => i \in op.items

\* Landing authority given to the provider is never lost by a cancellation.
NoCancelOfLanding ==
  [][\A i \in Items : items[i].external => items'[i].status # "cancelled"]_vars

\* A terminal item stays what it is: no late step of a run brings it back.
TerminalStays ==
  [][\A i \in Items : Terminal(i) => items'[i].status = items[i].status]_vars

\* Items are taken one at a time for each target, in the order of their admission, and
\* what ended or is landing is not touched by a late step of a run or an operator
\* (admit_direct, claim_next_ready_with_authority, cancel_item).
QueueOrder ==
  /\ [](TypeOK /\ OneInFlight /\ OneItemPerSource)
  /\ StrictFifo /\ NoCancelOfLanding /\ TerminalStays

\* Draining and cancellation leave nothing behind: every active item stays an obligation,
\* every workspace has an owner and a disabled repository owes nothing
\* (begin_repository_draining, disable_drained_repository).
Draining == DrainingCoversWork /\ DisabledIsDone /\ ResidueOwned

\* An item goes back to the agent, or the operator wakes one up.
Setback ==
  \/ \E i \in Items : /\ items[i].status \in {"validating", "integrating"}
                      /\ items'[i].status = "merging"
  \/ \E i \in Items : Answer(i) \/ ResumeItem(i)

\* From some time on cycles end well, no target moves and the operator is away.
Settled == <>[][(RunOnce \/ Operator \/ Debts) /\ ~Setback]_vars

\* A head that is ready is claimed or withdrawn although another target is blocked
\* (the order of oldest_active_item).
ReadyServed ==
  Settled => \A i \in Items :
    (TargetHead(i) /\ items[i].status = "ready" /\ Obligation(i)) ~> items[i].status # "ready"

\* A blocked target does not block work for a different target: a head that waits
\* for the provider only is retried, however long another waits for its user.
ProviderRetried ==
  Settled => \A i \in Items :
    (TargetHead(i) /\ Blocked(i) /\ items[i].waits = "provider") ~> items[i].waits # "provider"
=============================================================================
