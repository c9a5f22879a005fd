---------------------------- MODULE EffortProofs ----------------------------
(***************************************************************************)
(* Proofs about Effort, for every set of targets, limit and cycle range.   *)
(***************************************************************************)
EXTENDS Effort, FiniteSetTheorems, TLAPS

-----------------------------------------------------------------------------
(* What the tag of a stored state says about its payload *)

LEMMA ResumeTag ==
  ASSUME NEW s \in EffortState, s.state \in Capturable
  PROVE  s \in ResumeState
  BY DEF EffortState, ResumeState, Capturable

LEMMA BlockedTag ==
  ASSUME NEW s \in EffortState,
         s.state \in {"infrastructure_blocked", "provider_blocked"}
  PROVE  s.resume \in ResumeState
  BY DEF EffortState, ResumeState

LEMMA CandidateTag ==
  ASSUME NEW s \in EffortState,
         s.state \in {"candidate_building", "review_required", "candidate_ready",
                      "validating", "landing", "landing_uncertain", "integrated"}
  PROVE  s.candidate \in Candidate
  BY DEF EffortState, ResumeState

LEMMA LandingTag ==
  ASSUME NEW s \in EffortState, s.state \in {"landing", "landing_uncertain"}
  PROVE  s.expected \in Targets
  BY DEF EffortState, ResumeState

LEMMA CycleTag ==
  ASSUME NEW s \in EffortState,
         s.state \in {"agent_launching", "agent_running", "guidance_required"}
  PROVE  s.cycle \in CycleNo
  BY DEF EffortState, ResumeState

LEMMA ReadyTag ==
  ASSUME NEW s \in EffortState, s.state = "agent_ready"
  PROVE  s.next_cycle \in CycleNo
  BY DEF EffortState, ResumeState

LEMMA MoveTag ==
  ASSUME NEW s \in EffortState, s.state = "target_move_pending"
  PROVE  s.target \in Targets /\ s.previous \in ResumeState
  BY DEF EffortState, ResumeState

LEMMA ResumeIsEffort == ResumeState \subseteq EffortState
  BY DEF EffortState

LEMMA ReadyState ==
  ASSUME NEW n \in CycleNo
  PROVE  AgentReady(n) \in EffortState
  BY DEF EffortState, ResumeState, AgentReady

-----------------------------------------------------------------------------
(* Type correctness *)

TypeInv == TypeOK /\ AutomaticCycleLimit

LEMMA TypeInit == Init => TypeInv
  <1> SUFFICES ASSUME Init PROVE TypeInv
    OBVIOUS
  <1>1. 1 \in CycleNo /\ 0 \in 0..Limit /\ 0 # Limit /\ 1 \in 1..MaxAttempt
    BY LimitAssumption, MaxCycleAssumption, MaxAttemptAssumption DEF CycleNo
  <1>2. eff \in EffortState
    BY <1>1, ReadyState DEF Init
  <1>3. att \in Attempt
    BY DEF Init, FreshAttempt, Attempt
  <1> QED
    BY <1>1, <1>2, <1>3, MaxCycleAssumption
    DEF Init, TypeInv, TypeOK, AutomaticCycleLimit, CycleStatus, AgentReady

LEMMA TypeReplacement ==
  ASSUME TypeInv, Replacement
  PROVE  TypeInv'
  <1>1. CASE MarkReplacementPending
    BY <1>1, LimitAssumption
    DEF MarkReplacementPending, UpdateState, TypeInv, TypeOK, AutomaticCycleLimit,
        EffortState
  <1>2. ASSUME NEW t \in Targets, NEW comp \in {"clean", "conflicted"},
               NEW p \in Policy, RebindReplacement(t, comp, p)
        PROVE  TypeInv'
    <2>1. NextCycle \in CycleNo /\ attempt + 1 \in 1..MaxAttempt
      BY <1>2, MaxCycleAssumption, MaxAttemptAssumption, LimitAssumption
      DEF RebindReplacement, TypeInv, TypeOK, HasNextCycle, NextCycle, CycleNo
    <2>2. FreshAttempt(p) \in Attempt
      BY DEF FreshAttempt, Attempt
    <2> QED
      BY <1>2, <2>1, <2>2, ReadyState, LimitAssumption
      DEF RebindReplacement, TypeInv, TypeOK, AutomaticCycleLimit, AgentReady
  <1> QED
    BY <1>1, <1>2 DEF Replacement

LEMMA TypeAgentCycle ==
  ASSUME TypeInv, AgentCycle
  PROVE  TypeInv'
  <1> USE DEF TypeInv, TypeOK, AutomaticCycleLimit
  <1>1. HasNextCycle => NextCycle \in CycleNo
    BY MaxCycleAssumption, LimitAssumption DEF HasNextCycle, NextCycle, CycleNo
  <1>2. CASE PrepareCycleLaunch
    <2>1. eff.next_cycle \in CycleNo /\ eff.next_cycle \in 0..MaxCycle
      BY <1>2, ReadyTag DEF PrepareCycleLaunch, CycleNo
    <2>2. [state |-> "agent_launching", cycle |-> eff.next_cycle] \in EffortState
      BY <2>1 DEF EffortState
    <2> QED
      BY <1>2, <2>1, <2>2 DEF PrepareCycleLaunch, UpdateState, CycleStatus
  <1>3. CASE RecordCycleStarted
    <2>1. eff.cycle \in CycleNo
      BY <1>3, CycleTag DEF RecordCycleStarted
    <2>2. [state |-> "agent_running", cycle |-> eff.cycle] \in EffortState
      BY <2>1 DEF EffortState
    <2> QED
      BY <1>3, <2>1, <2>2 DEF RecordCycleStarted, UpdateState, CycleStatus
  <1>4. CASE ResetPreparedLaunch \/ AcknowledgeSpawnFailed
    BY <1>4, <1>1, ReadyState
    DEF ResetPreparedLaunch, AcknowledgeSpawnFailed, AbandonCycle, UpdateState,
        CycleStatus, AgentReady
  <1>5. CASE ConsumeCycleFailure
    <2>1. failed + 1 \in 0..Limit /\ failed # Limit
      BY <1>5, LimitAssumption DEF ConsumeCycleFailure
    <2>2. CASE failed + 1 = Limit
      BY <1>5, <2>1, <2>2
      DEF ConsumeCycleFailure, UpdateState, CycleStatus, EffortState
    <2>3. CASE failed + 1 # Limit
      BY <1>5, <1>1, <2>1, <2>3, ReadyState
      DEF ConsumeCycleFailure, UpdateState, CycleStatus, AgentReady
    <2> QED
      BY <2>2, <2>3
  <1>6. CASE RequireGuidance
    <2>1. failed + 1 \in 0..Limit
      BY <1>6, LimitAssumption DEF RequireGuidance
    <2>2. eff.cycle \in CycleNo
      BY <1>6, CycleTag DEF RequireGuidance
    <2>3. [state |-> "guidance_required", cycle |-> eff.cycle] \in EffortState
      BY <2>2 DEF EffortState
    <2> QED
      BY <1>6, <2>1, <2>2, <2>3 DEF RequireGuidance, UpdateState, CycleStatus
  <1>7. ASSUME NEW c \in CycleNo, AnswerGuidance(c)
        PROVE  TypeInv'
    BY <1>7, <1>1, ReadyState DEF AnswerGuidance, UpdateState, AgentReady
  <1> QED
    BY <1>2, <1>3, <1>4, <1>5, <1>6, <1>7 DEF AgentCycle

LEMMA TypeCandidateStep ==
  ASSUME TypeInv, CandidateStep
  PROVE  TypeInv'
  <1> USE DEF TypeInv, TypeOK, AutomaticCycleLimit
  <1>1. HasNextCycle => NextCycle \in CycleNo
    BY MaxCycleAssumption, LimitAssumption DEF HasNextCycle, NextCycle, CycleNo
  <1>2. ASSUME NEW tree \in {"mechanical", "edited"}, AcceptResolvedCycle(tree)
        PROVE  TypeInv'
    <2>1. eff.cycle \in CycleNo
      BY <1>2, CycleTag DEF AcceptResolvedCycle
    <2>2. [cycle |-> eff.cycle, base |-> target, tree |-> tree] \in Candidate
      BY <2>1 DEF Candidate
    <2>3. [state |-> "candidate_building",
           candidate |-> [cycle |-> eff.cycle, base |-> target, tree |-> tree]]
            \in EffortState
      BY <2>2 DEF EffortState, ResumeState
    <2> QED
      BY <1>2, <2>1, <2>3 DEF AcceptResolvedCycle, UpdateState, CycleStatus
  <1>3. CASE RecordCandidate
    <2> DEFINE c == eff.candidate
               class == Classification(composition, c.tree)
    <2>1. c \in Candidate /\ c.cycle \in CycleNo
      BY <1>3, CandidateTag DEF RecordCandidate, Candidate
    <2>2. class \in {"mechanical", "semantic"}
      BY DEF Classification
    <2>3. evidence' \in Evidence /\ att' \in Attempt
      BY <1>3, <2>1, <2>2 DEF RecordCandidate, Evidence, ResetAttempt, Attempt
    <2>4. [state |-> "candidate_ready", candidate |-> c, review |-> "mechanical"]
            \in EffortState
      BY <2>1 DEF EffortState, ResumeState
    <2>5. [state |-> "review_required", candidate |-> c] \in EffortState
      BY <2>1 DEF EffortState, ResumeState
    <2>6. [attempt |-> attempt, target |-> target, candidate |-> c,
           status |-> "required"] \in Review
      BY <2>1 DEF Review, ReviewStatus
    <2>7. reviews' \in [CycleNo -> Review \cup {None}]
      BY <1>3, <2>1, <2>6 DEF RecordCandidate
    <2>8. failed # Limit
      BY <1>3 DEF RecordCandidate
    <2>9. eff' \in EffortState /\ failed' = failed
            /\ eff'.state # "cycle_limit_blocked"
      BY <1>3, <2>4, <2>5 DEF RecordCandidate, UpdateState
    <2> QED
      BY <1>3, <2>3, <2>7, <2>8, <2>9 DEF RecordCandidate
  <1>4. ASSUME NEW n \in CycleNo, ApproveCandidate(n)
        PROVE  TypeInv'
    <2>1. eff.candidate \in Candidate /\ eff.state = "review_required"
      BY <1>4, CandidateTag DEF ApproveCandidate, ReviewMatches
    <2>2. [state |-> "candidate_ready", candidate |-> eff.candidate,
           review |-> "approved"] \in EffortState
      BY <2>1 DEF EffortState, ResumeState
    <2>3. reviews' \in [CycleNo -> Review \cup {None}]
      BY <1>4 DEF ApproveCandidate, ReviewMatches, Review, ReviewStatus
    <2> QED
      BY <1>4, <2>1, <2>2, <2>3 DEF ApproveCandidate, UpdateState
  <1>5. ASSUME NEW n \in CycleNo, RequestChanges(n)
        PROVE  TypeInv'
    <2>1. reviews' \in [CycleNo -> Review \cup {None}]
      BY <1>5 DEF RequestChanges, ReviewMatches, Review, ReviewStatus
    <2>2. att' \in Attempt
      BY <1>5 DEF RequestChanges, ResetAttempt, Attempt
    <2> QED
      BY <1>5, <1>1, <2>1, <2>2, ReadyState
      DEF RequestChanges, ReviewMatches, UpdateState, AgentReady
  <1>6. CASE RejectCandidate
    <2>1. eff.candidate \in Candidate /\ eff.candidate.cycle \in CycleNo
      BY <1>6, CandidateTag DEF RejectCandidate, Candidate
    <2>2. failed + 1 \in 0..Limit
      BY <1>6, LimitAssumption DEF RejectCandidate
    <2>3. att' \in Attempt
      BY <1>6 DEF RejectCandidate, ResetAttempt, Attempt
    <2>4. cycles' \in [CycleNo -> CycleStatus]
      BY <1>6, <2>1 DEF RejectCandidate, CycleStatus
    <2>5. CASE failed + 1 = Limit
      BY <1>6, <2>2, <2>3, <2>4, <2>5 DEF RejectCandidate, UpdateState, EffortState
    <2>6. CASE failed + 1 # Limit
      <3>1. failed + 2 \in CycleNo
        BY <2>2, <2>6, LimitAssumption, MaxCycleAssumption DEF CycleNo
      <3> QED
        BY <1>6, <2>2, <2>3, <2>4, <2>6, <3>1, ReadyState
        DEF RejectCandidate, UpdateState, AgentReady
    <2> QED
      BY <2>5, <2>6
  <1> QED
    BY <1>2, <1>3, <1>4, <1>5, <1>6 DEF CandidateStep

LEMMA TypeValidationStep ==
  ASSUME TypeInv, ValidationStep
  PROVE  TypeInv'
  <1> USE DEF TypeInv, TypeOK, AutomaticCycleLimit
  <1>1. CASE StartValidation
    <2>1. [state |-> "validating", candidate |-> eff.candidate, stage |-> "running"]
            \in EffortState
      BY <1>1, CandidateTag DEF StartValidation, EffortState, ResumeState
    <2> QED
      BY <1>1, <2>1 DEF StartValidation, UpdateState
  <1>2. CASE RecordAttemptValidation
    BY <1>2 DEF RecordAttemptValidation, Attempt
  <1>3. CASE CompleteAttemptValidation
    BY <1>3 DEF CompleteAttemptValidation, Attempt
  <1>4. CASE AcceptWithoutValidation
    BY <1>4 DEF AcceptWithoutValidation, Attempt
  <1>5. CASE CompleteValidation
    <2>1. [state |-> "validating", candidate |-> eff.candidate, stage |-> "gates"]
            \in EffortState
      BY <1>5, CandidateTag DEF CompleteValidation, EffortState, ResumeState
    <2> QED
      BY <1>5, <2>1 DEF CompleteValidation, UpdateState
  <1>6. CASE SignCandidate
    BY <1>6 DEF SignCandidate, Attempt
  <1> QED
    BY <1>1, <1>2, <1>3, <1>4, <1>5, <1>6 DEF ValidationStep

LEMMA TypeLandingStep ==
  ASSUME TypeInv, LandingStep
  PROVE  TypeInv'
  <1> USE DEF TypeInv, TypeOK, AutomaticCycleLimit
  <1>1. CASE BeginLanding
    <2>1. [state |-> "landing", candidate |-> eff.candidate, expected |-> target]
            \in EffortState
      BY <1>1, CandidateTag DEF BeginLanding, EffortState, ResumeState
    <2> QED
      BY <1>1, <2>1 DEF BeginLanding, UpdateState
  <1>2. CASE ReleaseLanding
    <2>1. [state |-> "landing_uncertain", candidate |-> eff.candidate,
           expected |-> eff.expected] \in EffortState
      BY <1>2, CandidateTag, LandingTag DEF ReleaseLanding, EffortState, ResumeState
    <2> QED
      BY <1>2, <2>1 DEF ReleaseLanding, UpdateState
  <1>3. CASE MarkIntegrated
    <2>1. eff.candidate \in Candidate
      BY <1>3, CandidateTag DEF MarkIntegrated
    <2>2. [state |-> "integrated", candidate |-> eff.candidate] \in EffortState
      BY <2>1 DEF EffortState
    <2> QED
      BY <1>3, <2>1, <2>2 DEF MarkIntegrated, UpdateState
  <1> QED
    BY <1>1, <1>2, <1>3 DEF LandingStep

LEMMA TypeTargetMove ==
  ASSUME TypeInv, TargetMove
  PROVE  TypeInv'
  <1> USE DEF TypeInv, TypeOK, AutomaticCycleLimit
  <1>1. ASSUME NEW t \in Targets, NEW cause \in {"observed", "stale_landing_lease"},
               EnterTargetMove(t, cause), eff.state \in Capturable
        PROVE  eff' \in EffortState /\ eff'.state = "target_move_pending"
                 /\ failed # Limit
    <2>1. eff \in ResumeState
      BY <1>1, ResumeTag
    <2>2. [state |-> "target_move_pending", target |-> t, previous |-> eff,
           cause |-> cause] \in EffortState
      BY <2>1 DEF EffortState
    <2> QED
      BY <1>1, <2>2 DEF EnterTargetMove, Capturable
  <1>2. ASSUME NEW t \in Targets, BeginTargetMove(t)
        PROVE  TypeInv'
    BY <1>1, <1>2 DEF BeginTargetMove, EnterTargetMove, Capturable
  <1>3. ASSUME NEW t \in Targets, BeginTargetMoveUnderReview(t)
        PROVE  TypeInv'
    <2>1. eff.candidate.cycle \in CycleNo
      BY <1>3, CandidateTag DEF BeginTargetMoveUnderReview, Candidate
    <2>2. reviews' \in [CycleNo -> Review \cup {None}]
      BY <1>3, <2>1 DEF BeginTargetMoveUnderReview, Review, ReviewStatus
    <2>3. cycles' \in [CycleNo -> CycleStatus]
      BY <1>3, <2>1 DEF BeginTargetMoveUnderReview, CycleStatus
    <2> QED
      BY <1>1, <1>3, <2>2, <2>3
      DEF BeginTargetMoveUnderReview, EnterTargetMove, Capturable
  <1>4. ASSUME NEW t \in Targets, BeginTargetMoveAfterRejection(t)
        PROVE  TypeInv'
    BY <1>1, <1>4 DEF BeginTargetMoveAfterRejection, EnterTargetMove, Capturable
  <1>5. CASE PrepareTargetRecomposition
    BY <1>5 DEF PrepareTargetRecomposition, Attempt
  <1>6. CASE CleanLandingRef
    BY <1>6 DEF CleanLandingRef
  <1>7. ASSUME NEW comp \in {"target_moved", "conflicted"},
               CompleteTargetRecomposition(comp)
        PROVE  TypeInv'
    <2>1. NextCycle \in CycleNo
      BY <1>7, MaxCycleAssumption, LimitAssumption
      DEF CompleteTargetRecomposition, HasNextCycle, NextCycle, CycleNo
    <2>2. eff.target \in Targets
      BY <1>7, MoveTag DEF CompleteTargetRecomposition
    <2>3. cycles' \in [CycleNo -> CycleStatus]
      BY <1>7 DEF CompleteTargetRecomposition, CycleStatus
    <2>4. reviews' \in [CycleNo -> Review \cup {None}]
      BY <1>7 DEF CompleteTargetRecomposition, Review, ReviewStatus
    <2>5. att' \in Attempt
      BY <1>7 DEF CompleteTargetRecomposition, ResetAttempt, Attempt
    <2> QED
      BY <1>7, <2>1, <2>2, <2>3, <2>4, <2>5, ReadyState
      DEF CompleteTargetRecomposition, UpdateState, AgentReady
  <1> QED
    BY <1>2, <1>3, <1>4, <1>5, <1>6, <1>7 DEF TargetMove

LEMMA TypeOperator ==
  ASSUME TypeInv, Operator
  PROVE  TypeInv'
  <1> USE DEF TypeInv, TypeOK, AutomaticCycleLimit
  <1>1. CASE BlockInfrastructure
    <2>1. [state |-> "infrastructure_blocked", resume |-> eff] \in EffortState
      BY <1>1, ResumeTag DEF BlockInfrastructure, EffortState
    <2> QED
      BY <1>1, <2>1 DEF BlockInfrastructure, UpdateState, Capturable
  <1>2. CASE BlockProvider
    <2>1. [state |-> "provider_blocked", resume |-> eff] \in EffortState
      BY <1>2, ResumeTag DEF BlockProvider, EffortState, Capturable
    <2> QED
      BY <1>2, <2>1 DEF BlockProvider, UpdateState
  <1>3. CASE ResumeBlocked
    <2>1. eff.resume \in EffortState /\ eff.resume.state \in Capturable
      BY <1>3, BlockedTag, ResumeIsEffort DEF ResumeBlocked, ResumeState, Capturable
    <2> QED
      BY <1>3, <2>1 DEF ResumeBlocked, UpdateState, Capturable
  <1>4. CASE RetryCycleLimit
    <2>1. NextCycle \in CycleNo
      BY <1>4, MaxCycleAssumption, LimitAssumption
      DEF RetryCycleLimit, HasNextCycle, NextCycle, CycleNo
    <2> QED
      BY <1>4, <2>1, ReadyState, LimitAssumption
      DEF RetryCycleLimit, UpdateState, AgentReady
  <1>5. CASE Cancel
    <2>1. cycles' \in [CycleNo -> CycleStatus]
      BY <1>5 DEF Cancel, CancelEffort, CycleStatus
    <2>2. reviews' \in [CycleNo -> Review \cup {None}]
      BY <1>5 DEF Cancel, CancelEffort, Review, ReviewStatus
    <2> QED
      BY <1>5, <2>1, <2>2, LimitAssumption
      DEF Cancel, CancelEffort, UpdateState, EffortState
  <1> QED
    BY <1>1, <1>2, <1>3, <1>4, <1>5 DEF Operator

LEMMA TypeStep ==
  ASSUME TypeInv, [Next]_vars
  PROVE  TypeInv'
  <1>1. CASE UNCHANGED vars
    BY <1>1 DEF vars, TypeInv, TypeOK, AutomaticCycleLimit
  <1> QED
    BY <1>1, TypeReplacement, TypeAgentCycle, TypeCandidateStep, TypeValidationStep,
       TypeLandingStep, TypeTargetMove, TypeOperator
    DEF Next

\* TypeCorrect: every state ControlStore stores decodes again, and cycle numbers
\* and the failure count never leave their ranges, whatever the limits are.
THEOREM TypeCorrect == Spec => []TypeOK
  <1>1. TypeInv => TypeOK
    BY DEF TypeInv
  <1> QED
    BY <1>1, TypeInit, TypeStep, PTL DEF Spec

\* LimitRespected: the failure count is at the automatic limit exactly while the
\* effort is blocked for it, so the SQL CHECK on the row always holds.
THEOREM LimitRespected == Spec => []AutomaticCycleLimit
  <1>1. TypeInv => AutomaticCycleLimit
    BY DEF TypeInv
  <1> QED
    BY <1>1, TypeInit, TypeStep, PTL DEF Spec

-----------------------------------------------------------------------------
(* What a landing candidate has behind it *)

\* Neither part is inductive alone: a suspended landing is restored by
\* ResumeBlocked with the evidence it had, which EvidenceCurrent remembers.
Authority == RelatedState /\ EvidenceCurrent /\ LandingAuthorized

LEMMA AuthorityInit == Init => Authority
  BY DEF Init, Authority, RelatedState, Related, EvidenceCurrent, LandingAuthorized,
         Active, AgentReady, FreshAttempt

\* States that carry no candidate, no cycle and no question.
Quiet == {"agent_ready", "replacement_pending", "cycle_limit_blocked", "cancelled"}

LEMMA QuietAuthority ==
  ASSUME eff'.state \in Quiet,
         {att'.invocation, att'.validated, att'.signoff} \subseteq {None, att'.candidate}
  PROVE  Authority'
  BY DEF Quiet, Authority, RelatedState, Related, EvidenceCurrent,
         LandingAuthorized, Active

LEMMA AuthorityReplacement ==
  ASSUME TypeInv, Authority, Replacement
  PROVE  Authority'
  <1>1. CASE MarkReplacementPending
    BY <1>1, QuietAuthority
    DEF MarkReplacementPending, UpdateState, Quiet, Authority, EvidenceCurrent
  <1>2. ASSUME NEW t \in Targets, NEW comp \in {"clean", "conflicted"},
               NEW p \in Policy, RebindReplacement(t, comp, p)
        PROVE  Authority'
    BY <1>2, QuietAuthority DEF RebindReplacement, Quiet, AgentReady, FreshAttempt
  <1> QED
    BY <1>1, <1>2 DEF Replacement

LEMMA AuthorityAgentCycle ==
  ASSUME TypeInv, Authority, AgentCycle
  PROVE  Authority'
  <1>1. {att.invocation, att.validated, att.signoff} \subseteq {None, att.candidate}
    BY DEF Authority, EvidenceCurrent
  <1>2. CASE PrepareCycleLaunch
    <2>1. eff.next_cycle \in CycleNo
      BY <1>2, ReadyTag DEF PrepareCycleLaunch, TypeInv, TypeOK
    <2> QED
      BY <1>1, <1>2, <2>1
      DEF PrepareCycleLaunch, UpdateState, TypeInv, TypeOK, Authority, RelatedState,
          Related, EvidenceCurrent, LandingAuthorized, Active
  <1>3. CASE RecordCycleStarted
    <2>1. eff.cycle \in CycleNo
      BY <1>3, CycleTag DEF RecordCycleStarted, TypeInv, TypeOK
    <2> QED
      BY <1>1, <1>3, <2>1
      DEF RecordCycleStarted, UpdateState, TypeInv, TypeOK, Authority, RelatedState,
          Related, EvidenceCurrent, LandingAuthorized, Active
  <1>4. CASE ResetPreparedLaunch \/ AcknowledgeSpawnFailed
    BY <1>1, <1>4, QuietAuthority
    DEF ResetPreparedLaunch, AcknowledgeSpawnFailed, AbandonCycle, UpdateState,
        Quiet, AgentReady
  <1>5. CASE ConsumeCycleFailure
    BY <1>1, <1>5, QuietAuthority DEF ConsumeCycleFailure, UpdateState, Quiet, AgentReady
  <1>6. CASE RequireGuidance
    BY <1>1, <1>6
    DEF RequireGuidance, UpdateState, Authority, RelatedState, Related,
        EvidenceCurrent, LandingAuthorized, Active
  <1>7. ASSUME NEW c \in CycleNo, AnswerGuidance(c)
        PROVE  Authority'
    BY <1>1, <1>7, QuietAuthority DEF AnswerGuidance, UpdateState, Quiet, AgentReady
  <1> QED
    BY <1>2, <1>3, <1>4, <1>5, <1>6, <1>7 DEF AgentCycle

LEMMA AuthorityCandidateStep ==
  ASSUME TypeInv, Authority, CandidateStep
  PROVE  Authority'
  <1>1. {att.invocation, att.validated, att.signoff} \subseteq {None, att.candidate}
    BY DEF Authority, EvidenceCurrent
  <1>2. ASSUME NEW tree \in {"mechanical", "edited"}, AcceptResolvedCycle(tree)
        PROVE  Authority'
    <2>1. eff.cycle \in CycleNo
      BY <1>2, CycleTag DEF AcceptResolvedCycle, TypeInv, TypeOK
    <2> QED
      BY <1>1, <1>2, <2>1
      DEF AcceptResolvedCycle, UpdateState, TypeInv, TypeOK, Authority, RelatedState,
          Related, EvidenceCurrent, LandingAuthorized, Active
  <1>3. CASE RecordCandidate
    <2> DEFINE c == eff.candidate
               class == Classification(composition, c.tree)
    <2>1. c \in Candidate /\ c.cycle \in CycleNo
      BY <1>3, CandidateTag DEF RecordCandidate, Candidate, TypeInv, TypeOK
    <2>2. c.base = target
      BY <1>3 DEF RecordCandidate, Authority, EvidenceCurrent, Active
    <2>3. evidence' = [candidate |-> c, class |-> class] /\ evidence' # None
      BY <1>3, <2>1, NoneAssumption DEF RecordCandidate, Evidence, Classification
    <2>4. att'.candidate = c /\ att'.invocation = None /\ att'.validated = None
            /\ att'.signoff = None
      BY <1>3 DEF RecordCandidate, ResetAttempt, Attempt, TypeInv, TypeOK
    <2>5. CASE class = "mechanical"
      BY <1>3, <2>1, <2>2, <2>3, <2>4, <2>5
      DEF RecordCandidate, UpdateState, Authority, RelatedState, Related,
          EvidenceCurrent, LandingAuthorized, Active, HasEvidence
    <2>6. CASE class = "semantic"
      <3>1. reviews'[c.cycle] = [attempt |-> attempt, target |-> target,
                                 candidate |-> c, status |-> "required"]
        BY <1>3, <2>1, <2>6 DEF RecordCandidate, TypeInv, TypeOK
      <3> QED
        BY <1>3, <2>1, <2>2, <2>3, <2>4, <2>6, <3>1
        DEF RecordCandidate, UpdateState, Authority, RelatedState, Related,
            EvidenceCurrent, LandingAuthorized, Active, HasEvidence
    <2> QED
      BY <2>5, <2>6 DEF Classification
  <1>4. ASSUME NEW n \in CycleNo, ApproveCandidate(n)
        PROVE  Authority'
    <2>1. reviews'[n] = [attempt |-> attempt, target |-> target,
                         candidate |-> eff.candidate, status |-> "approved"]
      BY <1>4 DEF ApproveCandidate, ReviewMatches, Review, TypeInv, TypeOK
    <2> QED
      BY <1>1, <1>4, <2>1
      DEF ApproveCandidate, ReviewMatches, UpdateState, Authority, RelatedState,
          Related, EvidenceCurrent, LandingAuthorized, Active, HasEvidence, HasApproval
  <1>5. ASSUME NEW n \in CycleNo, RequestChanges(n)
        PROVE  Authority'
    BY <1>5, QuietAuthority
    DEF RequestChanges, ResetAttempt, Attempt, UpdateState, Quiet, AgentReady,
        TypeInv, TypeOK
  <1>6. CASE RejectCandidate
    BY <1>6, QuietAuthority
    DEF RejectCandidate, ResetAttempt, Attempt, UpdateState, Quiet, AgentReady,
        TypeInv, TypeOK
  <1> QED
    BY <1>2, <1>3, <1>4, <1>5, <1>6 DEF CandidateStep

LEMMA AuthorityValidationStep ==
  ASSUME TypeInv, Authority, ValidationStep
  PROVE  Authority'
  <1> USE DEF Authority, RelatedState, Related, EvidenceCurrent, LandingAuthorized,
              Active, HasEvidence, HasApproval
  <1>1. att \in Attempt
    BY DEF TypeInv, TypeOK
  <1>2. CASE StartValidation
    BY <1>2 DEF StartValidation, UpdateState
  <1>3. CASE RecordAttemptValidation
    BY <1>1, <1>3 DEF RecordAttemptValidation, Attempt
  <1>4. CASE CompleteAttemptValidation
    BY <1>1, <1>4 DEF CompleteAttemptValidation, Attempt
  <1>5. CASE AcceptWithoutValidation
    BY <1>1, <1>5 DEF AcceptWithoutValidation, Attempt
  <1>6. CASE CompleteValidation
    BY <1>6 DEF CompleteValidation, UpdateState
  <1>7. CASE SignCandidate
    BY <1>1, <1>7 DEF SignCandidate, Attempt
  <1> QED
    BY <1>2, <1>3, <1>4, <1>5, <1>6, <1>7 DEF ValidationStep

LEMMA AuthorityLandingStep ==
  ASSUME TypeInv, Authority, LandingStep
  PROVE  Authority'
  <1> USE DEF Authority, RelatedState, Related, EvidenceCurrent, LandingAuthorized,
              Active, HasEvidence, HasApproval
  <1>1. CASE BeginLanding
    BY <1>1 DEF BeginLanding, UpdateState
  <1>2. CASE ReleaseLanding
    BY <1>2 DEF ReleaseLanding, UpdateState
  <1>3. CASE MarkIntegrated
    BY <1>3 DEF MarkIntegrated, UpdateState
  <1> QED
    BY <1>1, <1>2, <1>3 DEF LandingStep

LEMMA AuthorityTargetMove ==
  ASSUME TypeInv, Authority, TargetMove
  PROVE  Authority'
  <1>1. ASSUME NEW t, NEW cause, EnterTargetMove(t, cause),
               eff.state \in {"review_required", "candidate_ready", "validating",
                              "landing", "landing_uncertain"}
        PROVE  Authority'
    BY <1>1
    DEF EnterTargetMove, Authority, RelatedState, Related, EvidenceCurrent,
        LandingAuthorized, Active, HasEvidence
  <1>2. ASSUME NEW t \in Targets,
               \/ BeginTargetMove(t)
               \/ BeginTargetMoveUnderReview(t)
               \/ BeginTargetMoveAfterRejection(t)
        PROVE  Authority'
    BY <1>1, <1>2
    DEF BeginTargetMove, BeginTargetMoveUnderReview, BeginTargetMoveAfterRejection
  <1>3. CASE PrepareTargetRecomposition \/ CleanLandingRef
    BY <1>3
    DEF PrepareTargetRecomposition, CleanLandingRef, Authority, RelatedState, Related,
        EvidenceCurrent, LandingAuthorized, HasEvidence, HasApproval
  <1>4. ASSUME NEW comp \in {"target_moved", "conflicted"},
               CompleteTargetRecomposition(comp)
        PROVE  Authority'
    BY <1>4, QuietAuthority
    DEF CompleteTargetRecomposition, ResetAttempt, Attempt, UpdateState, Quiet,
        AgentReady, TypeInv, TypeOK
  <1> QED
    BY <1>2, <1>3, <1>4 DEF TargetMove

LEMMA AuthorityOperator ==
  ASSUME TypeInv, Authority, Operator
  PROVE  Authority'
  <1>1. {att.invocation, att.validated, att.signoff} \subseteq {None, att.candidate}
    BY DEF Authority, EvidenceCurrent
  <1>2. ASSUME Active(eff') = Active(eff),
               UNCHANGED <<attempt, target, cycles, evidence, reviews, guidance, att>>
        PROVE  Authority'
    BY <1>2
    DEF Authority, RelatedState, Related, EvidenceCurrent, LandingAuthorized,
        HasEvidence, HasApproval
  <1>3. CASE BlockInfrastructure
    BY <1>2, <1>3 DEF BlockInfrastructure, UpdateState, Active, Capturable
  <1>4. CASE BlockProvider
    BY <1>2, <1>4 DEF BlockProvider, UpdateState, Active
  <1>5. CASE ResumeBlocked
    <2>1. eff.resume \in ResumeState
      BY <1>5, BlockedTag DEF ResumeBlocked, TypeInv, TypeOK
    <2>2. eff.resume.state \notin {"infrastructure_blocked", "provider_blocked"}
      BY <2>1 DEF ResumeState
    <2> QED
      BY <1>2, <1>5, <2>2 DEF ResumeBlocked, UpdateState, Active
  <1>6. CASE RetryCycleLimit
    BY <1>1, <1>6, QuietAuthority DEF RetryCycleLimit, UpdateState, Quiet, AgentReady
  <1>7. CASE Cancel
    BY <1>1, <1>7, QuietAuthority DEF Cancel, CancelEffort, UpdateState, Quiet
  <1> QED
    BY <1>3, <1>4, <1>5, <1>6, <1>7 DEF Operator

LEMMA AuthorityStep ==
  ASSUME TypeInv, Authority, [Next]_vars
  PROVE  Authority'
  <1>1. CASE UNCHANGED vars
    BY <1>1
    DEF vars, Authority, RelatedState, Related, EvidenceCurrent, LandingAuthorized,
        HasEvidence, HasApproval
  <1> QED
    BY <1>1, AuthorityReplacement, AuthorityAgentCycle, AuthorityCandidateStep,
       AuthorityValidationStep, AuthorityLandingStep, AuthorityTargetMove,
       AuthorityOperator
    DEF Next

LEMMA AuthorityInvariant == Spec => []Authority
  <1>1. Init => TypeInv /\ Authority
    BY TypeInit, AuthorityInit
  <1>2. TypeInv /\ Authority /\ [Next]_vars => TypeInv' /\ Authority'
    BY TypeStep, AuthorityStep
  <1> QED
    BY <1>1, <1>2, PTL DEF Spec

\* OnlyAuthorizedLands: whatever is landing, may have landed or has landed was
\* recorded, reviewed, validated and signed off as the policy demands, on the
\* target it replaces.  It holds through target moves, suspension and retries.
THEOREM OnlyAuthorizedLands == Spec => []LandingAuthorized
  <1>1. Authority => LandingAuthorized
    BY DEF Authority
  <1> QED
    BY <1>1, AuthorityInvariant, PTL

\* TriggerNeverAborts: the related-state trigger accepts every state the
\* operations of ControlStore write, so no operation is rolled back by it.
THEOREM TriggerNeverAborts == Spec => []RelatedState
  <1>1. Authority => RelatedState
    BY DEF Authority
  <1> QED
    BY <1>1, AuthorityInvariant, PTL

-----------------------------------------------------------------------------
(* Steps *)

\* UncertainLandingKept: no operation drops or replaces the candidate of a push
\* whose outcome is unknown, except on git's word that the push was refused.
THEOREM UncertainLandingKept == Spec => ExternalAuthorityKept
  <1> DEFINE Refused == /\ eff.state = "landing_uncertain"
                        /\ eff'.state = "target_move_pending"
                        /\ eff'.cause = "stale_landing_lease"
                        /\ eff'.previous = eff
             Outcome == \/ Active(eff') = Active(eff)
                        \/ eff' = [state |-> "integrated",
                                   candidate |-> Active(eff).candidate]
                        \/ Refused
  <1>1. ASSUME TypeInv, Next, Active(eff).state = "landing_uncertain"
        PROVE  Outcome
    <2>1. eff.state \in {"landing_uncertain", "infrastructure_blocked",
                         "provider_blocked"}
      BY <1>1 DEF Active
    <2>2. CASE UNCHANGED eff
      BY <2>2
    <2>3. CASE BlockInfrastructure \/ BlockProvider
      BY <2>3 DEF BlockInfrastructure, BlockProvider, UpdateState, Active, Capturable
    <2>4. CASE ResumeBlocked
      <3>1. eff.resume.state \notin {"infrastructure_blocked", "provider_blocked"}
        BY <1>1, <2>4 DEF ResumeBlocked, Active
      <3> QED
        BY <2>4, <3>1 DEF ResumeBlocked, UpdateState, Active
    <2>5. CASE MarkIntegrated
      BY <2>5 DEF MarkIntegrated, UpdateState, Active
    <2>6. ASSUME NEW t \in Targets, BeginTargetMoveAfterRejection(t)
          PROVE  Refused
      BY <2>6 DEF BeginTargetMoveAfterRejection, EnterTargetMove
    <2>7. ~Replacement /\ ~AgentCycle /\ ~CandidateStep
      BY <2>1
      DEF Replacement, MarkReplacementPending, RebindReplacement, AgentCycle,
          PrepareCycleLaunch, RecordCycleStarted, ResetPreparedLaunch,
          AcknowledgeSpawnFailed, ConsumeCycleFailure, RequireGuidance,
          AnswerGuidance, CandidateStep, AcceptResolvedCycle, RecordCandidate,
          ApproveCandidate, RequestChanges, ReviewMatches, RejectCandidate
    <2>8. ValidationStep => UNCHANGED eff
      BY <2>1
      DEF ValidationStep, StartValidation, RecordAttemptValidation,
          CompleteAttemptValidation, AcceptWithoutValidation, CompleteValidation,
          SignCandidate
    <2>9. LandingStep => MarkIntegrated
      BY <2>1 DEF LandingStep, BeginLanding, ReleaseLanding
    <2>10. TargetMove => \/ UNCHANGED eff
                         \/ \E t \in Targets : BeginTargetMoveAfterRejection(t)
      BY <2>1
      DEF TargetMove, BeginTargetMove, BeginTargetMoveUnderReview,
          PrepareTargetRecomposition, CleanLandingRef, CompleteTargetRecomposition
    <2>11. Operator => BlockInfrastructure \/ BlockProvider \/ ResumeBlocked
      <3>1. ExternalAuthority(eff)
        BY <1>1, <2>1 DEF ExternalAuthority, Active
      <3> QED
        BY <2>1, <3>1 DEF Operator, RetryCycleLimit, Cancel
    <2> QED
      BY <1>1, <2>2, <2>3, <2>4, <2>5, <2>6, <2>7, <2>8, <2>9, <2>10, <2>11
      DEF Next
  <1>2. ASSUME TypeInv, [Next]_vars
        PROVE  [Active(eff).state = "landing_uncertain" => Outcome]_vars
    BY <1>1, <1>2
  <1> QED
    BY <1>2, TypeInit, TypeStep, PTL DEF Spec, ExternalAuthorityKept

-----------------------------------------------------------------------------
(* What is left of work that is gone *)

\* No candidate is on record while the agent works and until its commit is recorded:
\* without it, a replacement would inherit evidence of another composition.
EvidenceGone ==
  Active(eff).state \in {"agent_ready", "agent_launching", "agent_running", "guidance_required",
                         "cycle_limit_blocked", "replacement_pending", "candidate_building"}
    => evidence = None

\* The debt of a target move is that of the candidate it gave up.
PinIsCandidate ==
  eff.state = "target_move_pending" /\ pinDebt # None => pinDebt = att.candidate

\* What a provider can block, and so what its reconciliation resumes.
ProviderResumes ==
  eff.state = "provider_blocked" =>
    eff.resume.state \in {"validating", "landing", "landing_uncertain"}

\* Leftover: the strengthening of ReviewNotSkipped, NoOrphanRequest and CleanupBeforeReuse.
Leftover ==
  /\ ReviewNotSkipped /\ EvidenceGone
  /\ NoOrphanRequest
  /\ CleanupBeforeReuse /\ PinIsCandidate
  /\ ProviderResumes

LEMMA LeftoverInit == Init => Leftover
  BY DEF Init, Leftover, ReviewNotSkipped, EvidenceGone, NoOrphanRequest, CleanupBeforeReuse,
         PinIsCandidate, ProviderResumes, AgentReady

LEMMA LeftoverReplacement ==
  ASSUME TypeInv, Leftover, Replacement
  PROVE  Leftover'
  <1> USE DEF Leftover, ReviewNotSkipped, EvidenceGone, NoOrphanRequest, CleanupBeforeReuse,
              PinIsCandidate, ProviderResumes, Active
  <1>1. CASE MarkReplacementPending
    BY <1>1 DEF MarkReplacementPending, UpdateState
  <1>2. ASSUME NEW t \in Targets, NEW comp \in {"clean", "conflicted"},
               NEW p \in Policy, RebindReplacement(t, comp, p)
        PROVE  Leftover'
    BY <1>2 DEF RebindReplacement, AgentReady
  <1> QED
    BY <1>1, <1>2 DEF Replacement

LEMMA LeftoverAgentCycle ==
  ASSUME TypeInv, Leftover, AgentCycle
  PROVE  Leftover'
  <1> USE DEF Leftover, ReviewNotSkipped, EvidenceGone, NoOrphanRequest, CleanupBeforeReuse,
              PinIsCandidate, ProviderResumes, Active
  <1>1. CASE PrepareCycleLaunch
    BY <1>1 DEF PrepareCycleLaunch, UpdateState, TypeInv, TypeOK
  <1>2. CASE RecordCycleStarted
    BY <1>2 DEF RecordCycleStarted, UpdateState, TypeInv, TypeOK
  <1>3. CASE ResetPreparedLaunch \/ AcknowledgeSpawnFailed
    BY <1>3 DEF ResetPreparedLaunch, AcknowledgeSpawnFailed, AbandonCycle, UpdateState, AgentReady,
                TypeInv, TypeOK
  <1>4. CASE ConsumeCycleFailure
    BY <1>4 DEF ConsumeCycleFailure, UpdateState, AgentReady, TypeInv, TypeOK
  <1>5. CASE RequireGuidance
    BY <1>5 DEF RequireGuidance, UpdateState, TypeInv, TypeOK
  <1>6. ASSUME NEW c \in CycleNo, AnswerGuidance(c)
        PROVE  Leftover'
    BY <1>6 DEF AnswerGuidance, UpdateState, AgentReady
  <1> QED
    BY <1>1, <1>2, <1>3, <1>4, <1>5, <1>6 DEF AgentCycle

LEMMA LeftoverCandidateStep ==
  ASSUME TypeInv, Authority, Leftover, CandidateStep
  PROVE  Leftover'
  <1> USE DEF Leftover, ReviewNotSkipped, EvidenceGone, NoOrphanRequest, CleanupBeforeReuse,
              PinIsCandidate, ProviderResumes, Active
  <1>1. ASSUME NEW tree \in {"mechanical", "edited"}, AcceptResolvedCycle(tree)
        PROVE  Leftover'
    BY <1>1 DEF AcceptResolvedCycle, UpdateState, TypeInv, TypeOK
  <1>2. CASE RecordCandidate
    BY <1>2 DEF RecordCandidate, UpdateState, Classification, TypeInv, TypeOK
  <1>3. ASSUME NEW n \in CycleNo, ApproveCandidate(n)
        PROVE  Leftover'
    BY <1>3 DEF ApproveCandidate, ReviewMatches, UpdateState, TypeInv, TypeOK
  <1>4. ASSUME NEW n \in CycleNo, RequestChanges(n)
        PROVE  Leftover'
    BY <1>4 DEF RequestChanges, ReviewMatches, UpdateState, AgentReady, TypeInv, TypeOK
  <1>5. CASE RejectCandidate
    BY <1>5 DEF RejectCandidate, UpdateState, AgentReady, TypeInv, TypeOK
  <1> QED
    BY <1>1, <1>2, <1>3, <1>4, <1>5 DEF CandidateStep

LEMMA LeftoverValidationStep ==
  ASSUME TypeInv, Leftover, ValidationStep
  PROVE  Leftover'
  <1> USE DEF Leftover, ReviewNotSkipped, EvidenceGone, NoOrphanRequest, CleanupBeforeReuse,
              PinIsCandidate, ProviderResumes, Active
  <1>1. CASE StartValidation \/ CompleteValidation
    BY <1>1 DEF StartValidation, CompleteValidation, UpdateState
  <1>2. CASE RecordAttemptValidation \/ CompleteAttemptValidation \/ AcceptWithoutValidation
               \/ SignCandidate
    BY <1>2 DEF RecordAttemptValidation, CompleteAttemptValidation, AcceptWithoutValidation,
                SignCandidate
  <1> QED
    BY <1>1, <1>2 DEF ValidationStep

LEMMA LeftoverLandingStep ==
  ASSUME TypeInv, Leftover, LandingStep
  PROVE  Leftover'
  <1> USE DEF Leftover, ReviewNotSkipped, EvidenceGone, NoOrphanRequest, CleanupBeforeReuse,
              PinIsCandidate, ProviderResumes, Active
  <1>1. CASE BeginLanding \/ ReleaseLanding
    BY <1>1 DEF BeginLanding, ReleaseLanding, UpdateState
  <1>2. CASE MarkIntegrated
    BY <1>2 DEF MarkIntegrated, UpdateState
  <1> QED
    BY <1>1, <1>2 DEF LandingStep

LEMMA LeftoverTargetMove ==
  ASSUME TypeInv, Authority, Leftover, TargetMove
  PROVE  Leftover'
  <1> USE DEF Leftover, ReviewNotSkipped, EvidenceGone, NoOrphanRequest, CleanupBeforeReuse,
              PinIsCandidate, ProviderResumes, Active
  <1>1. ASSUME NEW t \in Targets, BeginTargetMove(t) \/ BeginTargetMoveAfterRejection(t)
        PROVE  Leftover'
    BY <1>1 DEF BeginTargetMove, BeginTargetMoveAfterRejection, EnterTargetMove
  <1>2. ASSUME NEW t \in Targets, BeginTargetMoveUnderReview(t)
        PROVE  Leftover'
    BY <1>2 DEF BeginTargetMoveUnderReview, EnterTargetMove, TypeInv, TypeOK
  <1>3. CASE PrepareTargetRecomposition \/ CleanLandingRef
    BY <1>3 DEF PrepareTargetRecomposition, CleanLandingRef
  <1>4. ASSUME NEW comp \in {"target_moved", "conflicted"}, CompleteTargetRecomposition(comp)
        PROVE  Leftover'
    BY <1>4 DEF CompleteTargetRecomposition, UpdateState, AgentReady, TypeInv, TypeOK
  <1> QED
    BY <1>1, <1>2, <1>3, <1>4 DEF TargetMove

LEMMA LeftoverOperator ==
  ASSUME TypeInv, Leftover, Operator
  PROVE  Leftover'
  <1> USE DEF Leftover, ReviewNotSkipped, EvidenceGone, NoOrphanRequest, CleanupBeforeReuse,
              PinIsCandidate, ProviderResumes, Active
  <1>1. CASE BlockInfrastructure \/ BlockProvider
    BY <1>1 DEF BlockInfrastructure, BlockProvider, Capturable, UpdateState
  <1>2. CASE ResumeBlocked
    <2>1. eff.resume.state \in Capturable
      BY <1>2, BlockedTag DEF ResumeBlocked, TypeInv, TypeOK, ResumeState, Capturable
    <2> QED
      BY <1>2, <2>1 DEF ResumeBlocked, UpdateState, Capturable
  <1>3. CASE RetryCycleLimit
    BY <1>3 DEF RetryCycleLimit, UpdateState, AgentReady
  <1>4. CASE Cancel
    BY <1>4 DEF Cancel, CancelEffort, UpdateState, TypeInv, TypeOK
  <1> QED
    BY <1>1, <1>2, <1>3, <1>4 DEF Operator

-----------------------------------------------------------------------------
(* Failures are counted once *)

Consumed == {n \in CycleNo : cycles[n] \in {"failed", "guidance_required"}}

\* The rows are finitely many, and one that was not consumed counts one more.
LEMMA ConsumedCounts ==
  /\ IsFiniteSet(Consumed) /\ Cardinality(Consumed) \in Nat
  /\ IsFiniteSet(Consumed') /\ Cardinality(Consumed') \in Nat
  /\ Consumed \subseteq Consumed' => Cardinality(Consumed) <= Cardinality(Consumed')
  /\ \A n \in CycleNo : n \notin Consumed /\ Consumed \cup {n} \subseteq Consumed' =>
       Cardinality(Consumed) + 1 <= Cardinality(Consumed')
  <1>1. IsFiniteSet(CycleNo)
    BY FS_Interval, MaxCycleAssumption DEF CycleNo
  <1>2. Consumed \subseteq CycleNo /\ Consumed' \subseteq CycleNo
    BY DEF Consumed
  <1>3. IsFiniteSet(Consumed) /\ IsFiniteSet(Consumed')
    BY <1>1, <1>2, FS_Subset
  <1>4. Cardinality(Consumed) \in Nat /\ Cardinality(Consumed') \in Nat
    BY <1>3, FS_CardinalityType
  <1>5. Consumed \subseteq Consumed' => Cardinality(Consumed) <= Cardinality(Consumed')
    BY <1>3, FS_Subset
  <1>6. ASSUME NEW n \in CycleNo, n \notin Consumed, Consumed \cup {n} \subseteq Consumed'
        PROVE  Cardinality(Consumed) + 1 <= Cardinality(Consumed')
    <2>1. Cardinality(Consumed \cup {n}) = Cardinality(Consumed) + 1
      BY <1>3, <1>6, FS_AddElement
    <2> QED
      BY <1>3, <1>6, <2>1, FS_Subset
  <1> QED
    BY <1>3, <1>4, <1>5, <1>6

\* One step: no consumed row is given back, the count grows by one at most, and only
\* with the row of the current cycle or candidate, which was not consumed.
LEMMA CountStep ==
  ASSUME TypeInv, Authority, Leftover, CountedOnce, Next
  PROVE  CountedOnce'
  <1> USE DEF TypeInv, TypeOK
  <1>1. ASSUME failed' = 0 \/ failed' = failed, Consumed \subseteq Consumed'
        PROVE  CountedOnce'
    <2>1. failed \in Nat /\ failed' \in Nat /\ failed' <= failed
      BY <1>1, LimitAssumption
    <2> QED
      BY <1>1, <2>1, ConsumedCounts DEF CountedOnce, Consumed
  <1>2. ASSUME failed' = failed + 1, NEW n \in CycleNo, n \notin Consumed,
               Consumed \cup {n} \subseteq Consumed'
        PROVE  CountedOnce'
    <2>1. failed \in Nat /\ failed <= Cardinality(Consumed)
      BY LimitAssumption DEF CountedOnce, Consumed
    <2>2. Cardinality(Consumed) + 1 <= Cardinality(Consumed')
      BY <1>2, ConsumedCounts
    <2>3. failed' <= Cardinality(Consumed')
      BY <1>2, <2>1, <2>2, ConsumedCounts
    <2> QED
      BY <2>3 DEF CountedOnce, Consumed
  <1>3. CASE Replacement
    BY <1>1, <1>3 DEF Replacement, MarkReplacementPending, RebindReplacement, UpdateState, Consumed
  <1>4. CASE PrepareCycleLaunch
    <2>1. Consumed \subseteq Consumed'
      BY <1>4 DEF PrepareCycleLaunch, Consumed
    <2> QED
      BY <1>1, <1>4, <2>1 DEF PrepareCycleLaunch, UpdateState
  <1>5. CASE RecordCycleStarted
    <2>1. Consumed \subseteq Consumed'
      BY <1>5 DEF RecordCycleStarted, Consumed, Authority, RelatedState, Related, Active
    <2> QED
      BY <1>1, <1>5, <2>1 DEF RecordCycleStarted, UpdateState
  <1>6. CASE ResetPreparedLaunch \/ AcknowledgeSpawnFailed
    <2>1. Consumed \subseteq Consumed'
      BY <1>6 DEF ResetPreparedLaunch, AcknowledgeSpawnFailed, AbandonCycle, Consumed
    <2> QED
      BY <1>1, <1>6, <2>1 DEF ResetPreparedLaunch, AcknowledgeSpawnFailed, AbandonCycle, UpdateState
  <1>7. CASE ConsumeCycleFailure \/ RequireGuidance
    <2>1. eff.cycle \in CycleNo /\ cycles[eff.cycle] = "running"
      BY <1>7, CycleTag DEF ConsumeCycleFailure, RequireGuidance, Authority, RelatedState, Related,
                            Active
    <2>2. eff.cycle \notin Consumed /\ Consumed \cup {eff.cycle} \subseteq Consumed'
      BY <1>7, <2>1 DEF ConsumeCycleFailure, RequireGuidance, Consumed
    <2> QED
      BY <1>2, <1>7, <2>1, <2>2 DEF ConsumeCycleFailure, RequireGuidance, UpdateState
  <1>8. CASE \E c \in CycleNo : AnswerGuidance(c)
    BY <1>1, <1>8 DEF AnswerGuidance, UpdateState, Consumed
  <1>9. CASE \E tree \in {"mechanical", "edited"} : AcceptResolvedCycle(tree)
    <2>1. eff.cycle \in CycleNo /\ cycles[eff.cycle] = "running"
      BY <1>9, CycleTag DEF AcceptResolvedCycle, Authority, RelatedState, Related, Active
    <2>2. Consumed \subseteq Consumed'
      BY <1>9, <2>1 DEF AcceptResolvedCycle, Consumed
    <2> QED
      BY <1>1, <1>9, <2>2 DEF AcceptResolvedCycle, UpdateState
  <1>10. CASE RecordCandidate \/ \E n \in CycleNo : ApproveCandidate(n) \/ RequestChanges(n)
    BY <1>1, <1>10 DEF RecordCandidate, ApproveCandidate, RequestChanges, UpdateState, Consumed
  <1>11. CASE RejectCandidate
    <2>1. eff.candidate.cycle \in CycleNo /\ cycles[eff.candidate.cycle] = "resolved"
      BY <1>11, CandidateTag DEF RejectCandidate, Candidate
    <2>2. eff.candidate.cycle \notin Consumed /\ Consumed \cup {eff.candidate.cycle} \subseteq Consumed'
      BY <1>11, <2>1 DEF RejectCandidate, Consumed
    <2> QED
      BY <1>2, <1>11, <2>1, <2>2 DEF RejectCandidate, UpdateState
  <1>12. CASE ValidationStep \/ LandingStep
    BY <1>1, <1>12
    DEF ValidationStep, StartValidation, RecordAttemptValidation, CompleteAttemptValidation,
        AcceptWithoutValidation, CompleteValidation, SignCandidate, LandingStep, BeginLanding,
        ReleaseLanding, MarkIntegrated, UpdateState, Consumed
  <1>13. CASE TargetMove
    <2>1. Consumed \subseteq Consumed'
      BY <1>13
      DEF TargetMove, BeginTargetMove, BeginTargetMoveAfterRejection, BeginTargetMoveUnderReview,
          EnterTargetMove, PrepareTargetRecomposition, CleanLandingRef, CompleteTargetRecomposition,
          Consumed
    <2> QED
      BY <1>1, <1>13, <2>1
      DEF TargetMove, BeginTargetMove, BeginTargetMoveAfterRejection, BeginTargetMoveUnderReview,
          EnterTargetMove, PrepareTargetRecomposition, CleanLandingRef, CompleteTargetRecomposition,
          UpdateState
  <1>14. CASE Operator
    <2>1. Consumed \subseteq Consumed'
      BY <1>14
      DEF Operator, BlockInfrastructure, BlockProvider, ResumeBlocked, RetryCycleLimit, Cancel,
          CancelEffort, Consumed
    <2> QED
      BY <1>1, <1>14, <2>1
      DEF Operator, BlockInfrastructure, BlockProvider, ResumeBlocked, RetryCycleLimit, Cancel,
          CancelEffort, UpdateState
  <1> QED
    BY <1>3, <1>4, <1>5, <1>6, <1>7, <1>8, <1>9, <1>10, <1>11, <1>12, <1>13, <1>14
    DEF Next, AgentCycle, CandidateStep

-----------------------------------------------------------------------------
LEMMA LeftoverInvariant == Spec => [](TypeInv /\ Authority /\ Leftover /\ CountedOnce)
  <1>1. Init => TypeInv /\ Authority /\ Leftover /\ CountedOnce
    <2>1. Init => CountedOnce
      <3>1. IsFiniteSet(CycleNo)
        BY FS_Interval, MaxCycleAssumption DEF CycleNo
      <3>2. Consumed \subseteq CycleNo
        BY DEF Consumed
      <3>3. Cardinality(Consumed) \in Nat
        BY <3>1, <3>2, FS_Subset, FS_CardinalityType
      <3> QED
        BY <3>3 DEF Init, CountedOnce, Consumed
    <2> QED
      BY <2>1, TypeInit, AuthorityInit, LeftoverInit
  <1>2. TypeInv /\ Authority /\ Leftover /\ CountedOnce /\ [Next]_vars
          => TypeInv' /\ Authority' /\ Leftover' /\ CountedOnce'
    <2> SUFFICES ASSUME TypeInv, Authority, Leftover, CountedOnce, [Next]_vars
                 PROVE  Leftover' /\ CountedOnce'
      BY TypeStep, AuthorityStep
    <2>1. CASE Next
      BY <2>1, LeftoverReplacement, LeftoverAgentCycle, LeftoverCandidateStep,
         LeftoverValidationStep, LeftoverLandingStep, LeftoverTargetMove, LeftoverOperator, CountStep
      DEF Next
    <2>2. CASE UNCHANGED vars
      BY <2>2 DEF vars, Leftover, ReviewNotSkipped, EvidenceGone, NoOrphanRequest,
                  CleanupBeforeReuse, PinIsCandidate, ProviderResumes, CountedOnce
    <2> QED
      BY <2>1, <2>2
  <1> QED
    BY <1>1, <1>2, PTL DEF Spec

\* EvidenceFollowsCandidate: what the attempt knows is about the candidate the effort
\* works on, and only git's own merge of the current target goes unreviewed, through
\* rejections, target moves, replacements and resumptions (record_candidate,
\* create_effort, complete_target_recomposition).
THEOREM EvidenceFollowsCandidate == Spec => []EvidenceExact
  <1>1. Authority /\ Leftover => EvidenceExact
    BY DEF Authority, Leftover, EvidenceExact
  <1> QED
    BY <1>1, LeftoverInvariant, PTL

\* NoLeftovers: work that is gone leaves no open review, question or cycle, no cleanup
\* debt on a ref in use, and no failure counted twice (reject_candidate,
\* begin_target_move, cancel_effort_transaction, consume_cycle_failure).
THEOREM NoLeftovers == Spec => []NothingStale
  <1>1. Leftover /\ CountedOnce => NothingStale
    BY DEF Leftover, NothingStale
  <1> QED
    BY <1>1, LeftoverInvariant, PTL

-----------------------------------------------------------------------------
(* The transitions *)

\* One step makes a transition the trigger knows, or none.
Legal == eff'.state # eff.state => eff'.state \in Successors[eff.state]

LEMMA LegalStep ==
  ASSUME TypeInv, Leftover, Next
  PROVE  Legal
  <1> USE DEF Legal, Successors, UpdateState
  <1>1. CASE Replacement
    BY <1>1 DEF Replacement, MarkReplacementPending, RebindReplacement, AgentReady
  <1>2. CASE PrepareCycleLaunch \/ RecordCycleStarted
    BY <1>2 DEF PrepareCycleLaunch, RecordCycleStarted
  <1>3. CASE ResetPreparedLaunch \/ AcknowledgeSpawnFailed
    BY <1>3 DEF ResetPreparedLaunch, AcknowledgeSpawnFailed, AbandonCycle, AgentReady
  <1>4. CASE ConsumeCycleFailure \/ RequireGuidance \/ \E c \in CycleNo : AnswerGuidance(c)
    BY <1>4 DEF ConsumeCycleFailure, RequireGuidance, AnswerGuidance, AgentReady
  <1>5. CASE \/ \E tree \in {"mechanical", "edited"} : AcceptResolvedCycle(tree)
             \/ RecordCandidate
    BY <1>5 DEF AcceptResolvedCycle, RecordCandidate
  <1>6. CASE \E n \in CycleNo : ApproveCandidate(n) \/ RequestChanges(n)
    BY <1>6 DEF ApproveCandidate, RequestChanges, ReviewMatches, AgentReady
  <1>7. CASE RejectCandidate
    BY <1>7 DEF RejectCandidate, AgentReady
  <1>8. CASE ValidationStep
    BY <1>8
    DEF ValidationStep, StartValidation, RecordAttemptValidation, CompleteAttemptValidation,
        AcceptWithoutValidation, CompleteValidation, SignCandidate
  <1>9. CASE LandingStep
    BY <1>9 DEF LandingStep, BeginLanding, ReleaseLanding, MarkIntegrated
  <1>10. CASE TargetMove
    BY <1>10
    DEF TargetMove, BeginTargetMove, BeginTargetMoveAfterRejection, BeginTargetMoveUnderReview,
        EnterTargetMove, PrepareTargetRecomposition, CleanLandingRef, CompleteTargetRecomposition,
        AgentReady
  <1>11. CASE BlockInfrastructure
    BY <1>11 DEF BlockInfrastructure, Capturable
  <1>12. CASE BlockProvider \/ RetryCycleLimit
    BY <1>12 DEF BlockProvider, RetryCycleLimit, AgentReady
  <1>13. CASE ResumeBlocked
    <2>1. eff.resume.state \in Capturable
      BY <1>13, BlockedTag DEF ResumeBlocked, TypeInv, TypeOK, ResumeState, Capturable
    <2>2. CASE eff.state = "infrastructure_blocked"
      BY <1>13, <2>1, <2>2 DEF ResumeBlocked, Capturable
    <2>3. CASE eff.state = "provider_blocked"
      BY <1>13, <2>3 DEF ResumeBlocked, Leftover, ProviderResumes
    <2> QED
      BY <1>13, <2>2, <2>3 DEF ResumeBlocked
  <1>14. CASE Cancel
    <2>1. eff.state \in
            {"agent_ready", "candidate_building", "review_required", "candidate_ready", "validating",
             "landing", "agent_launching", "agent_running", "guidance_required",
             "infrastructure_blocked", "provider_blocked", "target_move_pending",
             "cycle_limit_blocked"}
      BY <1>14 DEF Cancel, ExternalAuthority, TypeInv, TypeOK, EffortState, ResumeState
    <2> QED
      BY <1>14, <2>1 DEF Cancel, CancelEffort
  <1> QED
    BY <1>1, <1>2, <1>3, <1>4, <1>5, <1>6, <1>7, <1>8, <1>9, <1>10, <1>11, <1>12, <1>13, <1>14
    DEF Next, AgentCycle, CandidateStep, Operator

\* OnlyLegalTransitions: no operation of ControlStore, in whatever order they come,
\* attempts a transition that trigger integration_effort_legal_transition aborts.
THEOREM OnlyLegalTransitions == Spec => LegalTransition
  <1>1. TypeInv /\ Authority /\ Leftover /\ CountedOnce /\ [Next]_vars =>
          [eff'.state # eff.state => eff'.state \in Successors[eff.state]]_vars
    BY LegalStep DEF Legal
  <1> QED
    BY <1>1, LeftoverInvariant, PTL DEF Spec, LegalTransition
=============================================================================
