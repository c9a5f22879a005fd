------------------------------- MODULE Effort -------------------------------
(***************************************************************************)
(* The integration effort: the durable aggregate that carries one queue    *)
(* item from composition to landing (src/src/control_store.rs, its SQL     *)
(* schema, and the attempt row it shares with src/src/lib.rs).             *)
(*                                                                         *)
(* Every public operation of ControlStore runs in one immediate SQLite     *)
(* transaction, so every action below is one operation.  The integrator,   *)
(* the reviewer, the operator and the daemon interleave freely.            *)
(*                                                                         *)
(* Abstractions.                                                           *)
(*  - A cycle id is its cycle number (UNIQUE(effort_id,cycle_number)); the *)
(*    review and the guidance request a cycle opens carry the same number. *)
(*  - A candidate SHA is the commit it names: the cycle that built it, the *)
(*    target it has as parent and its tree.                                *)
(*  - The tree of an accepted result is either the mechanical merge tree   *)
(*    or an edited one.                                                    *)
(*  - The spawn handshake between launcher, service and cancellation,      *)
(*    the event log, receipts and the queue projection are not here.       *)
(*  - require_obligation is omitted: draining captures every item that is  *)
(*    not terminal and disabling needs them terminal (lib.rs 6204-6318).   *)
(*  - The integrator's MAX(cycle_number) query is the variable last.       *)
(***************************************************************************)
EXTENDS Integers, FiniteSets

CONSTANTS
  Targets,     \* commits the canonical target branch can point at
  Limit,       \* AUTOMATIC_CYCLE_LIMIT, 10 in the code
  MaxCycle,    \* largest cycle number, 255 in the code (u8)
  MaxAttempt,  \* bound on replacement attempts of one item
  None         \* SQL NULL

ASSUME LimitAssumption == Limit \in Nat \ {0}
\* The limit fits the cycle identity range (10 and u8 in the code).
ASSUME MaxCycleAssumption == MaxCycle \in Nat /\ Limit <= MaxCycle
ASSUME MaxAttemptAssumption == MaxAttempt \in Nat \ {0}

VARIABLES
  eff,         \* state_json: the tagged state of the effort
  failed,      \* failed_cycles
  attempt,     \* attempt_id
  target,      \* target_sha
  composition, \* composition_json
  last,        \* MAX(cycle_number), 0 without cycles
  cycles,      \* status of the integration_cycles rows
  evidence,    \* the candidate_evidence row
  reviews,     \* the candidate_reviews rows
  guidance,    \* cycle of the open guidance request, or None
  att,         \* evidence columns of the integration_attempts row
  pinDebt      \* candidate of the attempt's landing-ref cleanup debt, or None

vars == <<eff, failed, attempt, target, composition, last, cycles, evidence,
          reviews, guidance, att, pinDebt>>

-----------------------------------------------------------------------------
(* Values *)

CycleNo == 1..MaxCycle

\* The commits an accepted cycle can build: candidate_sha.
Candidate == [cycle : CycleNo, base : Targets, tree : {"mechanical", "edited"}]

CycleStatus == {"absent", "starting", "running", "resolved",
                "guidance_required", "failed", "superseded", "cancelled"}

ReviewStatus == {"required", "approved", "changes_requested", "superseded",
                 "cancelled"}

Review == [attempt : 1..MaxAttempt, target : Targets, candidate : Candidate,
           status : ReviewStatus]

\* The candidate_evidence row.
Evidence == [candidate : Candidate, class : {"mechanical", "semantic"}]

ASSUME NoneAssumption == None \notin CycleNo \cup Candidate \cup Review \cup Evidence

Policy == {"none", "command", "signoff"}

\* Evidence columns of an attempt: the policy snapshot, merge_commit_sha, the
\* candidate of the latest valid validation invocation, validated_commit_sha
\* and the candidate named by signoff_evidence_json.
Attempt == [policy : Policy, candidate : Candidate \cup {None},
            invocation : Candidate \cup {None},
            validated : Candidate \cup {None}, signoff : Candidate \cup {None}]

\* The states ResumeState::capture accepts, with their payloads.
ResumeState ==
  [state : {"agent_ready"}, next_cycle : CycleNo]
    \cup [state : {"candidate_building", "review_required"}, candidate : Candidate]
    \cup [state : {"candidate_ready"}, candidate : Candidate,
          review : {"mechanical", "approved"}]
    \cup [state : {"validating"}, candidate : Candidate, stage : {"running", "gates"}]
    \cup [state : {"landing", "landing_uncertain"}, candidate : Candidate,
          expected : Targets]

\* IntegrationEffortState.
EffortState ==
  ResumeState
    \cup [state : {"agent_launching", "agent_running", "guidance_required"},
          cycle : CycleNo]
    \cup [state : {"infrastructure_blocked", "provider_blocked"},
          resume : ResumeState]
    \cup [state : {"target_move_pending"}, target : Targets,
          previous : ResumeState, cause : {"observed", "stale_landing_lease"}]
    \cup [state : {"integrated"}, candidate : Candidate]
    \cup [state : {"replacement_pending", "cycle_limit_blocked", "cancelled"}]

AgentReady(n) == [state |-> "agent_ready", next_cycle |-> n]

\* Mutant of Classification: the composition is not asked.
ClassificationByTree(comp, tree) ==
  IF tree = "mechanical" THEN "mechanical" ELSE "semantic"

\* CompositionEvidence::candidate_classification.
Classification(comp, tree) ==
  IF comp = "clean" /\ tree = "mechanical" THEN "mechanical" ELSE "semantic"

\* The states ResumeState::capture accepts, by name.
Capturable == {"agent_ready", "candidate_building", "review_required",
               "candidate_ready", "validating", "landing", "landing_uncertain"}

\* IntegrationEffortState::contains_external_landing_authority: a push may have
\* left for the canonical repository and nobody knows its outcome yet.
ExternalAuthority(s) ==
  \/ s.state \in {"landing_uncertain", "integrated"}
  \/ /\ s.state \in {"infrastructure_blocked", "provider_blocked"}
     /\ s.resume.state = "landing_uncertain"

\* update_state_and_count: external landing authority is never dropped here.
UpdateState(s, count) ==
  /\ ExternalAuthority(eff) => ExternalAuthority(s)
  /\ eff' = s
  /\ failed' = count

\* Mutant of HasNextCycle: the range check is missing.
HasNextCycleUnchecked == TRUE

\* next_cycle_number: MAX(cycle_number)+1 must fit the cycle identity range.
HasNextCycle == last < MaxCycle
NextCycle == last + 1

\* Mutant of ResetAttempt: the signoff evidence survives.
ResetAttemptKeepSignoff(c) ==
  [att EXCEPT !.candidate = c, !.invocation = None, !.validated = None]

\* The attempt row after its candidate columns are set to c (None clears them)
\* and its validation invocations are invalidated.
ResetAttempt(c) ==
  [att EXCEPT !.candidate = c, !.invocation = None, !.validated = None,
              !.signoff = None]

FreshAttempt(p) ==
  [policy |-> p, candidate |-> None, invocation |-> None, validated |-> None,
   signoff |-> None]

-----------------------------------------------------------------------------
(* Creation and replacement *)

\* create_effort for a new item: the first composition is clean or conflicted.
Init ==
  /\ eff = AgentReady(1)
  /\ failed = 0
  /\ attempt = 1
  /\ target \in Targets
  /\ composition \in {"clean", "conflicted"}
  /\ last = 0
  /\ cycles = [n \in CycleNo |-> "absent"]
  /\ evidence = None
  /\ reviews = [n \in CycleNo |-> None]
  /\ guidance = None
  /\ \E p \in Policy : att = FreshAttempt(p)
  /\ pinDebt = None

\* mark_effort_replacement_pending: an immutable local replacement was admitted
\* and the old attempt is superseded.
MarkReplacementPending ==
  /\ eff.state = "cycle_limit_blocked"
  /\ UpdateState([state |-> "replacement_pending"], 0)
  /\ UNCHANGED <<attempt, target, composition, last, cycles, evidence, reviews,
                 guidance, att, pinDebt>>

\* create_effort for a replacement: the effort is bound to the new attempt.
RebindReplacement(t, comp, p) ==
  /\ eff.state = "replacement_pending"
  /\ attempt < MaxAttempt
  /\ HasNextCycle
  /\ eff' = AgentReady(NextCycle)
  /\ failed' = 0
  /\ attempt' = attempt + 1
  /\ target' = t
  /\ composition' = comp
  /\ att' = FreshAttempt(p)
  /\ UNCHANGED <<last, cycles, evidence, reviews, guidance, pinDebt>>

-----------------------------------------------------------------------------
(* Agent cycles *)

\* run_agent_cycle and prepare_cycle_launch.  The row must be new: SQL's
\* UNIQUE(effort_id,cycle_number) aborts the transaction otherwise.
PrepareCycleLaunch ==
  /\ eff.state = "agent_ready"
  /\ pinDebt = None
  /\ failed < Limit
  /\ cycles[eff.next_cycle] = "absent"
  /\ cycles' = [cycles EXCEPT ![eff.next_cycle] = "starting"]
  /\ last' = eff.next_cycle
  /\ UpdateState([state |-> "agent_launching", cycle |-> eff.next_cycle], failed)
  /\ UNCHANGED <<attempt, target, composition, evidence, reviews, guidance, att,
                 pinDebt>>

\* record_cycle_started.
RecordCycleStarted ==
  /\ eff.state = "agent_launching"
  /\ cycles' = [cycles EXCEPT ![eff.cycle] = "running"]
  /\ UpdateState([state |-> "agent_running", cycle |-> eff.cycle], failed)
  /\ UNCHANGED <<attempt, target, composition, last, evidence, reviews, guidance,
                 att, pinDebt>>

\* A launch that never became a cycle: the row fails, nothing is counted.
AbandonCycle ==
  /\ HasNextCycle
  /\ cycles' = [cycles EXCEPT ![eff.cycle] = "failed"]
  /\ UpdateState(AgentReady(NextCycle), failed)
  /\ UNCHANGED <<attempt, target, composition, last, evidence, reviews, guidance,
                 att, pinDebt>>

\* reset_prepared_launch: the launcher process died before the cycle ran.
ResetPreparedLaunch == eff.state = "agent_launching" /\ AbandonCycle

\* acknowledge_cycle_spawn_failed: the service is proved not to run.
AcknowledgeSpawnFailed ==
  eff.state \in {"agent_launching", "agent_running"} /\ AbandonCycle

\* consume_cycle_failure: crash, timeout, interruption, invalid or missing
\* result, or a mechanical failure the agent reports.
ConsumeCycleFailure ==
  /\ eff.state = "agent_running"
  /\ HasNextCycle
  /\ cycles' = [cycles EXCEPT ![eff.cycle] = "failed"]
  /\ UpdateState(IF failed + 1 = Limit THEN [state |-> "cycle_limit_blocked"]
                                       ELSE AgentReady(NextCycle),
                 failed + 1)
  /\ UNCHANGED <<attempt, target, composition, last, evidence, reviews, guidance,
                 att, pinDebt>>

\* Mutant of RequireGuidance: the question consumes the last cycle as well.
RequireGuidanceAtLimit ==
  /\ eff.state = "agent_running"
  /\ HasNextCycle
  /\ cycles' = [cycles EXCEPT ![eff.cycle] = "guidance_required"]
  /\ guidance' = eff.cycle
  /\ UpdateState([state |-> "guidance_required", cycle |-> eff.cycle], failed + 1)
  /\ UNCHANGED <<attempt, target, composition, last, evidence, reviews, att,
                 pinDebt>>

\* require_guidance.  CHECK((state='cycle_limit_blocked')=(failed_cycles=10))
\* aborts the transaction when the question consumes the last cycle.
RequireGuidance ==
  /\ eff.state = "agent_running"
  /\ HasNextCycle
  /\ failed + 1 # Limit
  /\ cycles' = [cycles EXCEPT ![eff.cycle] = "guidance_required"]
  /\ guidance' = eff.cycle
  /\ UpdateState([state |-> "guidance_required", cycle |-> eff.cycle], failed + 1)
  /\ UNCHANGED <<attempt, target, composition, last, evidence, reviews, att,
                 pinDebt>>

\* answer_for_effort, the applied case: the answer names request c.
AnswerGuidance(c) ==
  /\ eff.state = "guidance_required"
  /\ eff.cycle = c
  /\ guidance = c
  /\ HasNextCycle
  /\ guidance' = None
  /\ UpdateState(AgentReady(NextCycle), failed)
  /\ UNCHANGED <<attempt, target, composition, last, cycles, evidence, reviews,
                 att, pinDebt>>

-----------------------------------------------------------------------------
(* Candidates and reviews *)

\* accept_resolved_cycle: the intent fixes parents, tree and timestamps, so the
\* commit it describes is already determined.
AcceptResolvedCycle(tree) ==
  /\ eff.state = "agent_running"
  /\ cycles' = [cycles EXCEPT ![eff.cycle] = "resolved"]
  /\ UpdateState([state |-> "candidate_building",
                  candidate |-> [cycle |-> eff.cycle, base |-> target,
                                 tree |-> tree]], failed)
  /\ UNCHANGED <<attempt, target, composition, last, evidence, reviews, guidance,
                 att, pinDebt>>

\* record_candidate: a mechanical candidate is ready at once, a semantic one
\* waits for review; earlier evidence of the attempt is invalidated.
RecordCandidate ==
  LET c == eff.candidate
      class == Classification(composition, c.tree)
  IN /\ eff.state = "candidate_building"
     /\ pinDebt = None
     /\ evidence' = [candidate |-> c, class |-> class]
     /\ att' = ResetAttempt(c)
     /\ \/ /\ class = "mechanical"
           /\ UpdateState([state |-> "candidate_ready", candidate |-> c,
                           review |-> "mechanical"], failed)
           /\ UNCHANGED reviews
        \/ /\ class = "semantic"
           /\ UpdateState([state |-> "review_required", candidate |-> c], failed)
           /\ reviews' = [reviews EXCEPT ![c.cycle] =
                            [attempt |-> attempt, target |-> target,
                             candidate |-> c, status |-> "required"]]
     /\ UNCHANGED <<attempt, target, composition, last, cycles, guidance, pinDebt>>

\* Mutant of ReviewMatches: the decision is taken for the state's review
\* whichever review it names.
ReviewMatchesAny(n) ==
  /\ eff.state = "review_required"
  /\ reviews[n] # None

\* review_candidate_for_effort: a decision on review n applies only when it is
\* the open review of this attempt, target and candidate.
ReviewMatches(n) ==
  /\ eff.state = "review_required"
  /\ reviews[n] # None
  /\ eff.candidate.cycle = n
  /\ reviews[n].attempt = attempt
  /\ reviews[n].target = target
  /\ reviews[n].candidate = eff.candidate
  /\ reviews[n].status = "required"

ApproveCandidate(n) ==
  /\ ReviewMatches(n)
  /\ reviews' = [reviews EXCEPT ![n].status = "approved"]
  /\ UpdateState([state |-> "candidate_ready", candidate |-> eff.candidate,
                  review |-> "approved"], failed)
  /\ UNCHANGED <<attempt, target, composition, last, cycles, evidence, guidance,
                 att, pinDebt>>

RequestChanges(n) ==
  /\ ReviewMatches(n)
  /\ HasNextCycle
  /\ reviews' = [reviews EXCEPT ![n].status = "changes_requested"]
  /\ evidence' = None
  /\ att' = ResetAttempt(None)
  /\ UpdateState(AgentReady(NextCycle), failed)
  /\ UNCHANGED <<attempt, target, composition, last, cycles, guidance, pinDebt>>

\* reject_candidate: a defect found by validation, signoff or landing checks
\* consumes the cycle that built the candidate.  The next cycle is numbered by
\* the failure count.  At the limit the transition trigger accepts
\* cycle_limit_blocked only from validating.
RejectCandidate ==
  /\ eff.state \in {"candidate_ready", "validating", "landing"}
  /\ evidence # None
  /\ evidence.candidate = eff.candidate
  /\ cycles[eff.candidate.cycle] = "resolved"
  /\ failed + 1 = Limit => eff.state = "validating" /\ HasNextCycle
  /\ cycles' = [cycles EXCEPT ![eff.candidate.cycle] = "failed"]
  /\ evidence' = None
  /\ att' = ResetAttempt(None)
  /\ UpdateState(IF failed + 1 = Limit THEN [state |-> "cycle_limit_blocked"]
                                       ELSE AgentReady(failed + 2),
                 failed + 1)
  /\ UNCHANGED <<attempt, target, composition, last, reviews, guidance, pinDebt>>

-----------------------------------------------------------------------------
(* Validation and signoff *)

\* start_validation.
StartValidation ==
  /\ eff.state = "candidate_ready"
  /\ UpdateState([state |-> "validating", candidate |-> eff.candidate,
                  stage |-> "running"], failed)
  /\ UNCHANGED <<attempt, target, composition, last, cycles, evidence, reviews,
                 guidance, att, pinDebt>>

\* record_attempt_validation: the command ended.  Cancellation may have won the
\* race while it ran; its invocation is recorded all the same.
RecordAttemptValidation ==
  /\ att.policy # "none"
  /\ att.candidate # None
  /\ \/ eff.state = "validating" /\ eff.stage = "running"
     \/ eff.state = "cancelled"
  /\ att' = [att EXCEPT !.invocation = att.candidate, !.validated = None]
  /\ UNCHANGED <<eff, failed, attempt, target, composition, last, cycles,
                 evidence, reviews, guidance, pinDebt>>

\* complete_attempt_validation: the newest valid invocation tested the candidate
\* the effort is validating.
CompleteAttemptValidation ==
  /\ att.policy # "none"
  /\ att.invocation # None
  /\ eff.state = "validating" /\ eff.stage = "running"
  /\ eff.candidate = att.invocation
  /\ att.validated = None
  /\ att' = [att EXCEPT !.validated = att.invocation]
  /\ UNCHANGED <<eff, failed, attempt, target, composition, last, cycles,
                 evidence, reviews, guidance, pinDebt>>

\* accept_candidate_without_validation.
AcceptWithoutValidation ==
  /\ att.policy = "none"
  /\ eff.state = "validating" /\ eff.stage = "running"
  /\ att.candidate = eff.candidate
  /\ att.invocation = None /\ att.validated = None /\ att.signoff = None
  /\ att' = [att EXCEPT !.validated = att.candidate]
  /\ UNCHANGED <<eff, failed, attempt, target, composition, last, cycles,
                 evidence, reviews, guidance, pinDebt>>

\* complete_validation.
CompleteValidation ==
  /\ eff.state = "validating" /\ eff.stage = "running"
  /\ att.validated = eff.candidate
  /\ UpdateState([state |-> "validating", candidate |-> eff.candidate,
                  stage |-> "gates"], failed)
  /\ UNCHANGED <<attempt, target, composition, last, cycles, evidence, reviews,
                 guidance, att, pinDebt>>

\* require_exact_policy_signoff, the successful case: the verified evidence for
\* the validated workspace HEAD is stored with the attempt.
SignCandidate ==
  /\ att.policy = "signoff"
  /\ \/ eff.state = "validating" /\ eff.stage = "gates"
     \/ eff.state = "landing"
  /\ att.validated # None
  /\ att' = [att EXCEPT !.signoff = att.validated]
  /\ UNCHANGED <<eff, failed, attempt, target, composition, last, cycles,
                 evidence, reviews, guidance, pinDebt>>

-----------------------------------------------------------------------------
(* Landing *)

\* begin_landing_owned and begin_landing, reached from integrate_item when the
\* fetched target is still the attempt's base and HEAD is the validated commit.
\* Signoff evidence only has to exist: which candidate it names is not compared.
BeginLanding ==
  /\ eff.state = "validating" /\ eff.stage = "gates"
  /\ att.validated = eff.candidate
  /\ att.policy = "signoff" <=> att.signoff # None
  /\ UpdateState([state |-> "landing", candidate |-> eff.candidate,
                  expected |-> target], failed)
  /\ UNCHANGED <<attempt, target, composition, last, cycles, evidence, reviews,
                 guidance, att, pinDebt>>

\* release_landing, in the transaction that opens the command gate.
ReleaseLanding ==
  /\ eff.state = "landing"
  /\ UpdateState([state |-> "landing_uncertain", candidate |-> eff.candidate,
                  expected |-> eff.expected], failed)
  /\ UNCHANGED <<attempt, target, composition, last, cycles, evidence, reviews,
                 guidance, att, pinDebt>>

\* mark_integrated: the landed candidate's ref becomes cleanup debt.
MarkIntegrated ==
  /\ eff.state \in {"landing", "landing_uncertain"}
  /\ pinDebt \in {None, eff.candidate}
  /\ pinDebt' = eff.candidate
  /\ UpdateState([state |-> "integrated", candidate |-> eff.candidate], failed)
  /\ UNCHANGED <<attempt, target, composition, last, cycles, evidence, reviews,
                 guidance, att>>

-----------------------------------------------------------------------------
(* Target movement *)

\* begin_target_move_with_resolution, the part both causes share.
EnterTargetMove(t, cause) ==
  /\ t # target
  /\ eff' = [state |-> "target_move_pending", target |-> t, previous |-> eff,
             cause |-> cause]
  /\ UNCHANGED <<failed, attempt, target, composition, last, evidence, guidance,
                 att, pinDebt>>

\* Mutant of BeginTargetMove: an uncertain landing is taken for a failed one.
BeginTargetMoveUncertain(t) ==
  /\ eff.state \in {"candidate_ready", "validating", "landing", "landing_uncertain"}
  /\ EnterTargetMove(t, "observed")
  /\ UNCHANGED <<cycles, reviews>>

\* begin_target_move: the observed target differs from the one composed on.
BeginTargetMove(t) ==
  /\ eff.state \in {"candidate_ready", "validating", "landing"}
  /\ EnterTargetMove(t, "observed")
  /\ UNCHANGED <<cycles, reviews>>

\* Mutant of BeginTargetMoveUnderReview: the review stays open.
BeginTargetMoveKeepReview(t) ==
  /\ eff.state = "review_required"
  /\ EnterTargetMove(t, "observed")
  /\ UNCHANGED <<cycles, reviews>>

\* begin_target_move under review: the open review and its cycle are superseded.
BeginTargetMoveUnderReview(t) ==
  /\ eff.state = "review_required"
  /\ reviews[eff.candidate.cycle] # None
  /\ reviews[eff.candidate.cycle].status = "required"
  /\ cycles[eff.candidate.cycle] = "resolved"
  /\ EnterTargetMove(t, "observed")
  /\ reviews' = [reviews EXCEPT ![eff.candidate.cycle].status = "superseded"]
  /\ cycles' = [cycles EXCEPT ![eff.candidate.cycle] = "superseded"]

\* begin_target_move_after_definite_landing_rejection: the push reported that
\* its lease on the expected target was stale, so it changed nothing.
BeginTargetMoveAfterRejection(t) ==
  /\ eff.state = "landing_uncertain"
  /\ EnterTargetMove(t, "stale_landing_lease")
  /\ UNCHANGED <<cycles, reviews>>

\* prepare_target_recomposition: the old candidate's ref becomes cleanup debt.
PrepareTargetRecomposition ==
  /\ eff.state = "target_move_pending"
  /\ att.candidate # None
  /\ att.candidate = eff.previous.candidate
  /\ pinDebt \in {None, att.candidate}
  /\ pinDebt' = att.candidate
  /\ UNCHANGED <<eff, failed, attempt, target, composition, last, cycles,
                 evidence, reviews, guidance, att>>

\* complete_private_ref_cleanup: the ref is gone.
CleanLandingRef ==
  /\ pinDebt # None
  /\ pinDebt' = None
  /\ UNCHANGED <<eff, failed, attempt, target, composition, last, cycles,
                 evidence, reviews, guidance, att>>

\* complete_target_recomposition: all evidence of the old target is dropped.
CompleteTargetRecomposition(comp) ==
  /\ eff.state = "target_move_pending"
  /\ att.candidate # None
  /\ att.candidate = eff.previous.candidate
  /\ pinDebt # att.candidate
  /\ HasNextCycle
  /\ cycles' = [n \in CycleNo |->
                  IF cycles[n] = "resolved" THEN "superseded" ELSE cycles[n]]
  /\ evidence' = None
  /\ reviews' = [n \in CycleNo |->
                   IF reviews[n] # None /\ reviews[n].status = "required"
                   THEN [reviews[n] EXCEPT !.status = "superseded"]
                   ELSE reviews[n]]
  /\ att' = ResetAttempt(None)
  /\ target' = eff.target
  /\ composition' = comp
  /\ UpdateState(AgentReady(NextCycle), failed)
  /\ UNCHANGED <<attempt, last, guidance, pinDebt>>

-----------------------------------------------------------------------------
(* Blocking, retrying, cancelling *)

\* block_infrastructure.
BlockInfrastructure ==
  /\ eff.state \in Capturable
  /\ UpdateState([state |-> "infrastructure_blocked", resume |-> eff], failed)
  /\ UNCHANGED <<attempt, target, composition, last, cycles, evidence, reviews,
                 guidance, att, pinDebt>>

\* block_provider: only a landing gate can be blocked on a provider.
BlockProvider ==
  /\ \/ eff.state = "validating" /\ eff.stage = "gates"
     \/ eff.state \in {"landing", "landing_uncertain"}
  /\ UpdateState([state |-> "provider_blocked", resume |-> eff], failed)
  /\ UNCHANGED <<attempt, target, composition, last, cycles, evidence, reviews,
                 guidance, att, pinDebt>>

\* retry_blocked after an operator's repair, and resume_provider_reconciliation:
\* the suspended state is restored.
ResumeBlocked ==
  /\ eff.state \in {"infrastructure_blocked", "provider_blocked"}
  /\ UpdateState(eff.resume, failed)
  /\ UNCHANGED <<attempt, target, composition, last, cycles, evidence, reviews,
                 guidance, att, pinDebt>>

\* retry_blocked at the cycle limit: the operator grants a fresh count.
RetryCycleLimit ==
  /\ eff.state = "cycle_limit_blocked"
  /\ HasNextCycle
  /\ UpdateState(AgentReady(NextCycle), 0)
  /\ UNCHANGED <<attempt, target, composition, last, cycles, evidence, reviews,
                 guidance, att, pinDebt>>

\* cancel_effort_transaction: unfinished cycles and open requests end with it.
CancelEffort ==
  /\ cycles' = [n \in CycleNo |->
                  IF cycles[n] \in {"starting", "running"} THEN "cancelled"
                                                           ELSE cycles[n]]
  /\ guidance' = None
  /\ reviews' = [n \in CycleNo |->
                   IF reviews[n] # None /\ reviews[n].status = "required"
                   THEN [reviews[n] EXCEPT !.status = "cancelled"]
                   ELSE reviews[n]]
  /\ UpdateState([state |-> "cancelled"], 0)
  /\ UNCHANGED <<attempt, target, composition, last, evidence, att, pinDebt>>

\* Mutant of Cancel: a replacement in progress is cancelled too.
CancelReplacement ==
  /\ ~ExternalAuthority(eff)
  /\ eff.state # "cancelled"
  /\ CancelEffort

\* cancel.  The attempt must be active (result IS NULL) and the transition
\* trigger knows no cancellation of a replacement_pending effort.
Cancel ==
  /\ ~ExternalAuthority(eff)
  /\ eff.state \notin {"cancelled", "replacement_pending"}
  /\ CancelEffort

-----------------------------------------------------------------------------
Replacement ==
  \/ MarkReplacementPending
  \/ \E t \in Targets, comp \in {"clean", "conflicted"}, p \in Policy :
       RebindReplacement(t, comp, p)

AgentCycle ==
  \/ PrepareCycleLaunch \/ RecordCycleStarted
  \/ ResetPreparedLaunch \/ AcknowledgeSpawnFailed
  \/ ConsumeCycleFailure \/ RequireGuidance
  \/ \E c \in CycleNo : AnswerGuidance(c)

CandidateStep ==
  \/ \E tree \in {"mechanical", "edited"} : AcceptResolvedCycle(tree)
  \/ RecordCandidate
  \/ \E n \in CycleNo : ApproveCandidate(n) \/ RequestChanges(n)
  \/ RejectCandidate

ValidationStep ==
  \/ StartValidation \/ RecordAttemptValidation \/ CompleteAttemptValidation
  \/ AcceptWithoutValidation \/ CompleteValidation \/ SignCandidate

LandingStep == BeginLanding \/ ReleaseLanding \/ MarkIntegrated

TargetMove ==
  \/ \E t \in Targets : \/ BeginTargetMove(t)
                        \/ BeginTargetMoveUnderReview(t)
                        \/ BeginTargetMoveAfterRejection(t)
  \/ PrepareTargetRecomposition \/ CleanLandingRef
  \/ \E comp \in {"target_moved", "conflicted"} : CompleteTargetRecomposition(comp)

Operator ==
  BlockInfrastructure \/ BlockProvider \/ ResumeBlocked \/ RetryCycleLimit \/ Cancel

Next ==
  Replacement \/ AgentCycle \/ CandidateStep \/ ValidationStep \/ LandingStep
    \/ TargetMove \/ Operator

Spec == Init /\ [][Next]_vars

-----------------------------------------------------------------------------
(* Properties *)

\* TypeOK: every stored state is one that control_domain.rs can decode, and
\* cycle numbers and the failure count stay in their ranges (u8, limit).
TypeOK ==
  /\ eff \in EffortState
  /\ failed \in 0..Limit
  /\ attempt \in 1..MaxAttempt
  /\ target \in Targets
  /\ composition \in {"clean", "conflicted", "target_moved"}
  /\ last \in 0..MaxCycle
  /\ cycles \in [CycleNo -> CycleStatus]
  /\ evidence \in Evidence \cup {None}
  /\ reviews \in [CycleNo -> Review \cup {None}]
  /\ guidance \in CycleNo \cup {None}
  /\ att \in Attempt
  /\ pinDebt \in Candidate \cup {None}

\* The state of the work itself: a blocked effort has the one it will resume.
Active(s) ==
  IF s.state \in {"infrastructure_blocked", "provider_blocked"} THEN s.resume ELSE s

HasEvidence(c) == evidence # None /\ evidence.candidate = c

\* An answered review of exactly this attempt, target and candidate.
HasApproval(c) ==
  reviews[c.cycle] = [attempt |-> attempt, target |-> target, candidate |-> c,
                      status |-> "approved"]

Related(s) ==
  /\ s.state = "agent_launching" => cycles[s.cycle] = "starting"
  /\ s.state = "agent_running" => cycles[s.cycle] = "running"
  /\ s.state = "candidate_building" => cycles[s.candidate.cycle] = "resolved"
  /\ s.state = "review_required" =>
       /\ HasEvidence(s.candidate) /\ evidence.class = "semantic"
       /\ reviews[s.candidate.cycle] =
            [attempt |-> attempt, target |-> target, candidate |-> s.candidate,
             status |-> "required"]
  /\ s.state = "candidate_ready" =>
       /\ HasEvidence(s.candidate)
       /\ \/ s.review = "mechanical" /\ evidence.class = "mechanical"
          \/ /\ s.review = "approved" /\ evidence.class = "semantic"
             /\ HasApproval(s.candidate)
  /\ s.state \in {"validating", "landing", "landing_uncertain", "integrated"} =>
       /\ HasEvidence(s.candidate)
       /\ evidence.class = "mechanical" \/ HasApproval(s.candidate)
  /\ s.state = "target_move_pending" => HasEvidence(s.previous.candidate)
  /\ s.state = "guidance_required" => guidance = s.cycle

\* RelatedState: trigger integration_effort_related_state_update never has to
\* abort an operation, not even the resumption of a state suspended long ago:
\* cycle row, evidence and review stay the ones the (suspended) state names.
RelatedState == Related(Active(eff))

\* ReviewNotSkipped: a candidate goes unreviewed only when git's own merge of
\* the current target produced exactly its tree; what the agent edited, and
\* everything composed again after a target move, is reviewed.
ReviewNotSkipped ==
  evidence # None /\ evidence.class = "mechanical" =>
    composition = "clean" /\ evidence.candidate.tree = "mechanical"

\* NoOrphanRequest: nobody is asked about work that is gone.  An open review,
\* an open question and an unfinished cycle belong to the state the effort is
\* in, or will resume.
NoOrphanRequest ==
  /\ \A n \in CycleNo :
       /\ reviews[n] # None /\ reviews[n].status = "required" =>
            /\ Active(eff).state = "review_required"
            /\ Active(eff).candidate.cycle = n
       /\ cycles[n] \in {"starting", "running"} =>
            /\ eff.state \in {"agent_launching", "agent_running"}
            /\ eff.cycle = n
  /\ guidance # None => eff.state = "guidance_required" /\ eff.cycle = guidance

\* EvidenceCurrent: candidate, validation and signoff columns of the attempt
\* never mix two candidates, they follow the candidate the effort works on, and
\* that candidate is built on the target the effort is composed with.
EvidenceCurrent ==
  LET s == Active(eff) IN
  /\ {att.invocation, att.validated, att.signoff} \subseteq {None, att.candidate}
  /\ s.state \in {"candidate_building", "review_required", "candidate_ready",
                  "validating", "landing", "landing_uncertain", "integrated"} =>
       s.candidate.base = target
  /\ s.state \in {"review_required", "candidate_ready", "validating", "landing",
                  "landing_uncertain", "integrated"} => att.candidate = s.candidate
  /\ s.state = "validating" /\ s.stage = "gates" => att.validated = s.candidate
  /\ s.state = "target_move_pending" => att.candidate = s.previous.candidate

\* LandingAuthorized: from landing on, and while landing is suspended, the
\* candidate is the one that was recorded, reviewed, validated and, where the
\* policy asks for it, signed off, and its parent is the target to be replaced.
LandingAuthorized ==
  LET s == Active(eff) IN
  s.state \in {"landing", "landing_uncertain", "integrated"} =>
    /\ HasEvidence(s.candidate)
    /\ evidence.class = "mechanical" \/ HasApproval(s.candidate)
    /\ att.validated = s.candidate
    /\ att.policy = "signoff" => att.signoff = s.candidate
    /\ s.candidate.base = target
    /\ s.state # "integrated" => s.expected = target

\* CleanupBeforeReuse: a landing ref waits for deletion only while its
\* candidate can no longer land, so cleanup never removes a ref in use.
CleanupBeforeReuse ==
  pinDebt # None => eff.state \in {"target_move_pending", "integrated", "cancelled"}

\* AutomaticCycleLimit: the SQL CHECK that the failure count is at the limit
\* exactly while the effort is blocked for it.
AutomaticCycleLimit == eff.state = "cycle_limit_blocked" <=> failed = Limit

\* CountedOnce: failed_cycles never exceeds the cycles that really ended in a
\* failure or a question: neither a crash nor a late result counts one twice.
CountedOnce ==
  failed <= Cardinality({n \in CycleNo : cycles[n] \in {"failed", "guidance_required"}})

\* EvidenceExact: what the attempt knows is about the candidate the effort works on, and
\* a candidate nobody reviewed is git's own merge (record_candidate, reset_attempt).
EvidenceExact == ReviewNotSkipped /\ EvidenceCurrent

\* NothingStale: work that is gone leaves no open request, no unfinished cycle, no debt
\* on a ref in use and no failure counted twice (reject_candidate, begin_target_move,
\* complete_target_recomposition).
NothingStale == NoOrphanRequest /\ CleanupBeforeReuse /\ CountedOnce

\* The transitions trigger integration_effort_legal_transition accepts.
Successors ==
  [replacement_pending |-> {"agent_ready"},
   agent_ready |-> {"agent_launching", "infrastructure_blocked", "cancelled"},
   agent_launching |-> {"agent_ready", "agent_running", "infrastructure_blocked",
                        "cancelled"},
   agent_running |-> {"candidate_building", "agent_ready", "guidance_required",
                      "infrastructure_blocked", "cycle_limit_blocked", "cancelled"},
   candidate_building |-> {"review_required", "candidate_ready", "agent_ready",
                           "infrastructure_blocked", "cancelled"},
   review_required |-> {"candidate_ready", "agent_ready", "target_move_pending",
                        "infrastructure_blocked", "cancelled"},
   candidate_ready |-> {"validating", "agent_ready", "target_move_pending",
                        "infrastructure_blocked", "cancelled"},
   validating |-> {"landing", "agent_ready", "target_move_pending",
                   "guidance_required", "infrastructure_blocked",
                   "provider_blocked", "cycle_limit_blocked", "cancelled"},
   guidance_required |-> {"agent_ready", "cancelled"},
   infrastructure_blocked |-> {"agent_ready", "candidate_building",
                               "review_required", "candidate_ready", "validating",
                               "landing", "landing_uncertain", "cancelled"},
   cycle_limit_blocked |-> {"replacement_pending", "agent_ready", "cancelled"},
   provider_blocked |-> {"validating", "landing", "landing_uncertain",
                         "agent_ready", "cancelled"},
   landing |-> {"landing_uncertain", "target_move_pending", "integrated",
                "agent_ready", "provider_blocked", "infrastructure_blocked",
                "cancelled"},
   landing_uncertain |-> {"target_move_pending", "integrated", "landing",
                          "agent_ready", "provider_blocked",
                          "infrastructure_blocked"},
   target_move_pending |-> {"agent_ready", "cancelled"},
   integrated |-> {},
   cancelled |-> {}]

\* LegalTransition: no operation attempts a transition that the trigger aborts;
\* in particular an integrated or cancelled effort never moves again.
LegalTransition ==
  [][eff'.state # eff.state => eff'.state \in Successors[eff.state]]_vars

\* ExternalAuthorityKept: once a push may have reached the target, the effort
\* keeps that very candidate uncertain, blocked or not, until it is integrated
\* or git has said that the push was refused.
ExternalAuthorityKept ==
  [][Active(eff).state = "landing_uncertain" =>
       \/ Active(eff') = Active(eff)
       \/ eff' = [state |-> "integrated", candidate |-> Active(eff).candidate]
       \/ /\ eff.state = "landing_uncertain"
          /\ eff'.state = "target_move_pending"
          /\ eff'.cause = "stale_landing_lease"
          /\ eff'.previous = eff]_vars

\* NextCycleUnused: the agent_ready row of the state matrix promises the next
\* cycle number, one that prepare_cycle_launch can insert.
NextCycleUnused ==
  eff.state = "agent_ready" => cycles[eff.next_cycle] = "absent"

\* GuidanceConsumed: the result contract lets a running cycle end with a
\* question, whatever the count of failed cycles.
GuidanceConsumed ==
  eff.state = "agent_running" /\ HasNextCycle => ENABLED RequireGuidance
=============================================================================
