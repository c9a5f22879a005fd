---------------------------- MODULE MCReplication ----------------------------
(* What IQ owes to repositories of others: the landings a replica must show    *)
(* (Replication), and the issue an item must be shown on (StateProjection).    *)
(* The issue is projected in full by the daemon alone, with minimal            *)
(* visibility, or in full beside the command that admitted the item.           *)
EXTENDS Replication

CONSTANTS DebtLimit, AloneEvents, AloneFaults, AloneComments, MinimalEvents, MinimalFaults, MinimalComments,
          BesideEvents, BesideFaults

VARIABLES part, setup, st, req, log, binding, row, art, debt, due, alerted, issues, posted, receipt, phase, p, faults

IssueSetups ==
  {[full |-> TRUE, cli |-> FALSE, events |-> AloneEvents, faults |-> AloneFaults, comments |-> AloneComments],
   [full |-> FALSE, cli |-> FALSE, events |-> MinimalEvents, faults |-> MinimalFaults, comments |-> MinimalComments],
   [full |-> TRUE, cli |-> TRUE, events |-> BesideEvents, faults |-> BesideFaults, comments |-> 0]}

Issue == INSTANCE StateProjection WITH Setups <- IssueSetups

\* What the proofs about the issue assume of its constants.
ASSUME IssueAssumption == Issue!ConstantsOK

issueVars == <<st, req, log, binding, row, art, debt, due, alerted, issues, posted, receipt, phase, p, faults>>

\* The part a behaviour is not about stays in its initial state.
MCInit ==
  /\ part \in {"replica", "issue"}
  /\ Init /\ Issue!Init
  /\ part = "replica" => setup.full /\ ~setup.cli

MCNext ==
  \/ part = "replica" /\ Next /\ UNCHANGED <<part, setup, issueVars>>
  \/ part = "issue" /\ Issue!Next /\ UNCHANGED <<part, setup, vars>>

Replicating(A) == part = "replica" /\ A
Projecting(A) == part = "issue" /\ A

\* The fairness of the two modules.
MCSpec ==
  /\ MCInit /\ [][MCNext]_<<part, setup, vars, issueVars>>
  /\ WF_vars(Replicating(Step)) /\ WF_vars(Replicating(Delivery)) /\ SF_vars(Replicating(StartHead))
  /\ WF_issueVars(Projecting(Issue!Daemon)) /\ WF_issueVars(Projecting(Issue!Tick))

-----------------------------------------------------------------------------
\* An item has one issue, every event that its visibility shows is on it exactly once,
\* a row that says closed is true and no request is answered twice (project_item,
\* reserve_full_issue, ingest_answers); beside the admitting command no event is lost.
ProjectionExact == Issue!TypeOK /\ (IF setup.cli THEN Issue!ProjectedAll ELSE Issue!Exact)

\* The issue of an effort that ended is closed, or the operator is alerted; with minimal
\* visibility this is so for an integrated effort.
ProjectionSettles ==
  part = "issue" => IF setup.full THEN Issue!TerminalSettles ELSE Issue!IntegratedSettles
=============================================================================
