------------------------------- MODULE Landing -------------------------------
(***************************************************************************)
(* Landing a validated candidate of a direct item on the target branch of  *)
(* the canonical repository (src/src/lib.rs integrate_item and what it     *)
(* calls), with the landing states of the effort in control_store.rs.      *)
(*                                                                         *)
(* The steps of the integrator are git commands and database transactions; *)
(* between two of them the target may move, an operator may cancel or      *)
(* retry, and the process may die.  A push that left it may reach the      *)
(* repository at any later time, or never.                                 *)
(*                                                                         *)
(* Abstractions.                                                           *)
(*  - One process integrates at a time: it holds a lock on                 *)
(*    .git/iq-operation.lock as long as it runs.  Its push is a child in a *)
(*    process group of its own, which outlives it.                         *)
(*  - The branch only grows: a commit on it is its position, and a tip SHA *)
(*    the length of the branch.  A candidate is its number.                *)
(*  - Agent cycles, review and validation are one step, Compose; a move    *)
(*    of the target under review, ref cleanup and the transactions of a    *)
(*    recomposition are in Effort.                                         *)
(***************************************************************************)
EXTENDS Integers, Sequences

CONSTANTS
  MaxCand,  \* bound on the candidates built for the item
  MaxLen    \* bound on the length of the target branch

ASSUME MaxCandAssumption == MaxCand \in Nat \ {0}
ASSUME MaxLenAssumption == MaxLen \in Nat \ {0}

VARIABLES
  line,    \* first-parent history of the target branch
  base,    \* target each candidate was built on, 0 before it is built
  built,   \* number of candidates built so far
  eff,     \* the effort, as far as landing is concerned
  target,  \* target_base_sha of the attempt
  proc,    \* where the integrator is, and what it has read
  flight   \* pushes on their way to the canonical repository

vars == <<line, base, built, eff, target, proc, flight>>

Cand == 1..MaxCand
Pos == 1..MaxLen

\* The state of the effort, suspended (InfrastructureBlocked) or not: composing is
\* everything before the landing gates, gates is Validating at stage Gates, moving
\* is TargetMovePending.
EffRow == [phase : {"composing", "gates", "landing", "uncertain", "moving",
                    "integrated", "cancelled"},
           cand : Cand \cup {0}, expected : Pos \cup {0}, move : Pos \cup {0},
           blocked : BOOLEAN]

Pc == {"idle", "fetch", "decide", "signoff", "begin", "release", "unreleased",
       "push", "confirm", "judge", "refused", "refused_move", "move", "recompose"}

\* What the integrator knows: whether it found the item uncertain, the target it
\* saw, the candidate it lands and the target that overtook its push.
ProcRow == [pc : Pc, fenced : BOOLEAN, seen : Pos \cup {0}, cand : Cand \cup {0},
            moved : Pos \cup {0}]

Push == [cand : Cand, expected : Pos]

Tip == Len(line)
InLine(k, tip) == \E i \in 1..tip : line[i] = k

Is(phase) == eff.phase = phase /\ ~eff.blocked

\* queue_items.status is integrating: commands of integrate_item may start.
Integrating == eff.phase \in {"gates", "landing", "uncertain", "moving"} /\ ~eff.blocked

\* contains_external_landing_authority.
External == eff.phase \in {"uncertain", "integrated"}

Composing == [phase |-> "composing", cand |-> 0, expected |-> 0, move |-> 0,
              blocked |-> FALSE]

At(pc) == proc.pc = pc
Goto(pc) == proc' = [proc EXCEPT !.pc = pc]

Init ==
  /\ line = <<0>>
  /\ base = [k \in Cand |-> 0]
  /\ built = 0
  /\ eff = Composing
  /\ target = 1
  /\ proc = [pc |-> "idle", fenced |-> FALSE, seen |-> 0, cand |-> 0, moved |-> 0]
  /\ flight = {}

-----------------------------------------------------------------------------
(* The rest of the effort *)

\* Agent cycles, review and validation end with a validated candidate.
Compose ==
  /\ At("idle")
  /\ eff.phase = "composing"
  /\ built < MaxCand
  /\ built' = built + 1
  /\ base' = [base EXCEPT ![built + 1] = target]
  /\ eff' = [eff EXCEPT !.phase = "gates", !.cand = built + 1]
  /\ UNCHANGED <<line, target, proc, flight>>

\* block_and_get with Infra, block_infrastructure: the state is suspended, if it
\* is one that can be resumed.
Blocked ==
  IF eff.phase \in {"gates", "landing", "uncertain"}
  THEN [eff EXCEPT !.blocked = TRUE]
  ELSE eff

\* retry_blocked.
Retry ==
  /\ eff.blocked
  /\ eff' = [eff EXCEPT !.blocked = FALSE]
  /\ UNCHANGED <<line, base, built, target, proc, flight>>

\* Mutant of Cancel: the payload of the state stays.
CancelKeepsPayload ==
  /\ ~External
  /\ eff.phase # "cancelled"
  /\ eff' = [eff EXCEPT !.phase = "cancelled"]
  /\ UNCHANGED <<line, base, built, target, proc, flight>>

\* cancel, refused while a push may have left.
Cancel ==
  /\ ~External
  /\ eff.phase # "cancelled"
  /\ eff' = [Composing EXCEPT !.phase = "cancelled"]
  /\ UNCHANGED <<line, base, built, target, proc, flight>>

-----------------------------------------------------------------------------
(* integrate_item *)

\* A run takes the operation lock and reads the item.
Start ==
  /\ At("idle")
  /\ Integrating
  /\ proc' = [pc |-> "fetch", fenced |-> (eff.phase = "uncertain"), seen |-> 0,
              cand |-> eff.cand, moved |-> 0]
  /\ UNCHANGED <<line, base, built, eff, target, flight>>

\* fetch_target_supervised and rev-parse, the first time: its commands start only
\* while the item is integrating.  An item that was uncertain is only reconciled.
Fetch ==
  /\ At("fetch")
  /\ Integrating
  /\ proc' = [proc EXCEPT !.seen = Tip, !.pc = IF proc.fenced THEN "judge" ELSE "decide"]
  /\ UNCHANGED <<line, base, built, eff, target, flight>>

\* A fetch fails, wherever one is made: the item is blocked.
FetchFails ==
  /\ proc.pc \in {"fetch", "signoff", "confirm", "refused"}
  /\ eff' = Blocked
  /\ Goto("idle")
  /\ UNCHANGED <<line, base, built, target, flight>>

\* target_base_sha against the fetched target.
Decide ==
  /\ At("decide")
  /\ Goto(IF target = proc.seen THEN "signoff" ELSE "move")
  /\ UNCHANGED <<line, base, built, eff, target, flight>>

\* Signoff was given; the target is fetched again.
Refetch ==
  /\ At("signoff")
  /\ Integrating
  /\ proc' = [proc EXCEPT !.seen = Tip, !.pc = IF Tip = proc.seen THEN "begin" ELSE "move"]
  /\ UNCHANGED <<line, base, built, eff, target, flight>>

\* Signoff was refused, the candidate graph is wrong or the workspace is dirty:
\* block_and_get with NeedsAgentFix, reject_candidate.
Reject ==
  /\ proc.pc \in {"signoff", "begin"}
  /\ eff' = IF Is("gates") \/ Is("landing") THEN Composing ELSE eff
  /\ Goto("idle")
  /\ UNCHANGED <<line, base, built, target, flight>>

\* begin_landing_owned: prepare landing authority, find it prepared by a run that
\* ended, or find the item cancelled.
BeginLanding ==
  /\ At("begin")
  /\ \/ /\ Is("gates")
        /\ eff' = [eff EXCEPT !.phase = "landing", !.expected = proc.seen]
        /\ Goto("release")
     \/ /\ Is("landing") /\ eff.cand = proc.cand /\ eff.expected = proc.seen
        /\ Goto("release")
        /\ UNCHANGED eff
     \/ /\ eff.phase = "cancelled"
        /\ Goto("idle")
        /\ UNCHANGED eff
  /\ UNCHANGED <<line, base, built, target, flight>>

\* Mutant of Release: the lease of the push names the tip of the moment.
ReleaseAnyTip ==
  /\ At("release")
  /\ Is("landing")
  /\ eff' = [eff EXCEPT !.phase = "uncertain"]
  /\ flight' = flight \cup {[cand |-> proc.cand, expected |-> Tip]}
  /\ Goto("push")
  /\ UNCHANGED <<line, base, built, target>>

\* Mutant of Release: the release is not recorded before the push leaves.
ReleaseUnrecorded ==
  /\ At("release")
  /\ Is("landing")
  /\ flight' = flight \cup {[cand |-> proc.cand, expected |-> proc.seen]}
  /\ Goto("push")
  /\ UNCHANGED <<line, base, built, eff, target>>

\* The command gate: release_landing commits, then git push is spawned, or a last
\* check or the spawn itself fails.
Release ==
  /\ At("release")
  /\ Is("landing")
  /\ eff' = [eff EXCEPT !.phase = "uncertain"]
  /\ \/ /\ flight' = flight \cup {[cand |-> proc.cand, expected |-> proc.seen]}
        /\ Goto("push")
     \/ /\ Goto("confirm")
        /\ UNCHANGED flight
  /\ UNCHANGED <<line, base, built, target>>

\* Preflight fails, or the transaction finds the item cancelled.
ReleaseRefused ==
  /\ At("release")
  /\ Goto("unreleased")
  /\ UNCHANGED <<line, base, built, eff, target, flight>>

\* Still prepared: blocked and retryable.  Otherwise the outcome counts as unknown.
Unreleased ==
  /\ At("unreleased")
  /\ \/ Is("landing") /\ eff' = Blocked /\ Goto("idle")
     \/ ~Is("landing") /\ Goto("confirm") /\ UNCHANGED eff
  /\ UNCHANGED <<line, base, built, target, flight>>

\* The push takes too long, or its supervision fails: git is killed, what it
\* already sent is not.
Timeout ==
  /\ At("push")
  /\ Goto("confirm")
  /\ UNCHANGED <<line, base, built, eff, target, flight>>

\* The fetch after a push that succeeded or whose outcome is unknown.
Confirm ==
  /\ At("confirm")
  /\ Integrating
  /\ proc' = [proc EXCEPT !.seen = Tip, !.pc = "judge"]
  /\ UNCHANGED <<line, base, built, eff, target, flight>>

\* Mutant of Contained: the candidate must be the tip.
ContainedAtTip == line[proc.seen] = proc.cand

\* merge-base --is-ancestor: the fetched target contains the candidate.
Contained == InLine(proc.cand, proc.seen)

\* mark_integrated, in land_exact_candidate and reconcile_fenced_exact_landing.
MarkIntegrated ==
  /\ At("judge")
  /\ Contained
  /\ Is("landing") \/ Is("uncertain")
  /\ eff' = [eff EXCEPT !.phase = "integrated"]
  /\ Goto("idle")
  /\ UNCHANGED <<line, base, built, target, flight>>

\* Mutant of Unresolved: another target is taken for a rejection of the push.
UnresolvedReopens ==
  /\ At("judge")
  /\ ~Contained
  /\ eff' = Composing
  /\ Goto("idle")
  /\ UNCHANGED <<line, base, built, target, flight>>

\* The candidate is not there, yet: observing another target proves nothing.
Unresolved ==
  /\ At("judge")
  /\ ~Contained
  /\ eff' = Blocked
  /\ Goto("idle")
  /\ UNCHANGED <<line, base, built, target, flight>>

-----------------------------------------------------------------------------
(* The target moved: merge_moved_base *)

\* begin_target_move.  A pending movement must name the same target; otherwise,
\* and for a cancelled item, the run fails.
BeginMove ==
  /\ At("move")
  /\ \/ /\ Is("gates") \/ Is("landing")
        /\ eff' = [eff EXCEPT !.phase = "moving", !.move = proc.seen]
        /\ Goto("recompose")
     \/ /\ Is("moving") /\ eff.move = proc.seen
        /\ Goto("recompose")
        /\ UNCHANGED eff
     \/ /\ eff.phase = "moving" => eff.move # proc.seen
        /\ ~Is("gates") /\ ~Is("landing")
        /\ Goto("idle")
        /\ UNCHANGED eff
  /\ UNCHANGED <<line, base, built, target, flight>>

\* recover_definite_cas_rejection: the push of this run was refused as stale.
RefusedFetch ==
  /\ At("refused")
  /\ Integrating
  /\ proc' = [proc EXCEPT !.moved = Tip, !.pc = "refused_move"]
  /\ UNCHANGED <<line, base, built, eff, target, flight>>

\* authorize_definite_landing_rejection and
\* begin_target_move_after_definite_landing_rejection.
BeginRefusedMove ==
  /\ At("refused_move")
  /\ Is("uncertain") /\ eff.expected = proc.seen
  /\ eff' = [eff EXCEPT !.phase = "moving", !.move = proc.moved]
  /\ proc' = [proc EXCEPT !.seen = proc.moved, !.pc = "recompose"]
  /\ UNCHANGED <<line, base, built, target, flight>>

\* The merge, prepare_target_recomposition and complete_target_recomposition.
Recompose ==
  /\ At("recompose")
  /\ Is("moving") /\ eff.move = proc.seen
  /\ eff' = Composing
  /\ target' = eff.move
  /\ Goto("idle")
  /\ UNCHANGED <<line, base, built, flight>>

\* A command of the recomposition fails, or the item was cancelled: a pending
\* movement stays, for block_infrastructure and reject_candidate refuse it.
RecomposeFails ==
  /\ At("recompose")
  /\ Goto("idle")
  /\ UNCHANGED <<line, base, built, eff, target, flight>>

-----------------------------------------------------------------------------
(* Process death and the canonical repository *)

Crash ==
  /\ ~At("idle")
  /\ Goto("idle")
  /\ UNCHANGED <<line, base, built, eff, target, flight>>

\* The answer to push m reaches the run that still waits for it.
Answer(m, pcs) ==
  IF At("push") /\ proc.cand = m.cand
  THEN \E pc \in pcs : Goto(pc)
  ELSE UNCHANGED proc

\* --force-with-lease: the target is still the expected one.
PushLands(m) ==
  /\ Tip = m.expected
  /\ Tip < MaxLen
  /\ line' = Append(line, m.cand)
  /\ flight' = flight \ {m}
  /\ Answer(m, {"confirm"})
  /\ UNCHANGED <<base, built, eff, target>>

\* The target is another one: [rejected] (stale info), if the report gets through.
PushRefused(m) ==
  /\ Tip # m.expected
  /\ flight' = flight \ {m}
  /\ Answer(m, {"refused", "confirm"})
  /\ UNCHANGED <<line, base, built, eff, target>>

PushLost(m) ==
  /\ flight' = flight \ {m}
  /\ Answer(m, {"confirm"})
  /\ UNCHANGED <<line, base, built, eff, target>>

\* Somebody else pushes; room is left for one push of the item.
OthersPush ==
  /\ Tip + 1 < MaxLen
  /\ line' = Append(line, 0)
  /\ UNCHANGED <<base, built, eff, target, proc, flight>>

-----------------------------------------------------------------------------
Step ==
  \/ Fetch \/ FetchFails \/ Decide \/ Refetch \/ Reject
  \/ BeginLanding \/ Release \/ ReleaseRefused \/ Unreleased \/ Timeout
  \/ Confirm \/ MarkIntegrated \/ Unresolved
  \/ BeginMove \/ RefusedFetch \/ BeginRefusedMove \/ Recompose \/ RecomposeFails

Repository ==
  \/ OthersPush
  \/ \E m \in flight : PushLands(m) \/ PushRefused(m) \/ PushLost(m)

Next == Compose \/ Retry \/ Cancel \/ Start \/ Step \/ Crash \/ Repository

\* The daemon takes up an open item again and again, a run goes on until it ends,
\* an operator retries what is blocked, and neither a fetch nor the step after it
\* is cut off every single time.
Fairness ==
  /\ WF_vars(Retry) /\ WF_vars(Start) /\ WF_vars(Step)
  /\ SF_vars(Fetch) /\ SF_vars(Decide) /\ SF_vars(MarkIntegrated)
  /\ SF_vars(BeginMove) /\ SF_vars(Recompose)

Spec == Init /\ [][Next]_vars /\ Fairness

-----------------------------------------------------------------------------
(* Properties *)

\* TypeOK: the rows are well formed, a movement is recorded exactly while it is
\* pending, and from the gates on there is a candidate.
TypeOK ==
  /\ line \in Seq(Cand \cup {0}) /\ Tip \in Pos
  /\ base \in [Cand -> Pos \cup {0}]
  /\ built \in 0..MaxCand
  /\ eff \in EffRow
  /\ eff.phase = "moving" <=> eff.move # 0
  /\ eff.phase \in {"gates", "landing", "uncertain", "moving", "integrated"}
       <=> eff.cand # 0
  /\ eff.blocked => eff.phase \in {"gates", "landing", "uncertain"}
  /\ target \in Pos
  /\ proc \in ProcRow
  /\ flight \subseteq Push

\* LandedOnBase: a candidate that enters the branch is the direct successor of
\* the target it was composed, validated and signed off on, whatever moved in
\* between and however late the push arrives (land_exact_candidate).
LandedOnBase ==
  \A i \in 2..Tip : line[i] # 0 => base[line[i]] = i - 1

\* ReleaseRecorded: a push that can still change the branch, and a candidate on
\* the branch, are known: the effort is uncertain about that very candidate or
\* integrated with it, so that nothing recomposes, rejects or cancels it
\* (release_landing commits before the command gate opens).
ReleaseRecorded ==
  /\ \A m \in flight : m.expected = Tip => eff.phase = "uncertain" /\ eff.cand = m.cand
  /\ \A i \in 2..Tip : line[i] # 0 => External /\ eff.cand = line[i]

\* What the queue shows of the landing.
Outcome == IF eff.phase \in {"integrated", "cancelled"} THEN eff.phase ELSE "open"

Abstract == INSTANCE ExactLanding WITH Candidates <- Cand, outcome <- Outcome

\* LandsOnce: landing implements ExactLanding.  At most one candidate of the item
\* enters the branch, never after its cancellation, and the item is integrated
\* only when one did.
LandsOnce == Abstract!Spec

\* LandedKnown: when a candidate is on the branch the item gets integrated, also
\* when the answer to the push was lost, its process died, the item was blocked
\* in between or others have pushed on top of it
\* (reconcile_fenced_exact_landing).
LandedKnown == Abstract!Landed ~> eff.phase = "integrated"

\* PendingMoveResolves: docs/composition-workspaces.md on a moved target: it
\* "records movement, recomposes, and revalidates".
PendingMoveResolves == eff.phase = "moving" ~> eff.phase # "moving"
=============================================================================
