--------------------------- MODULE MCBothLandings ---------------------------
(* An item lands directly or through a provider: a behaviour of Landing with  *)
(* three candidates, or of ProviderLanding with either provider, at the gates *)
(* or with a landing that is open.                                            *)
EXTENDS Landing

CONSTANTS Kinds, Starts, CycleLimit, MaxCommits, MaxProviderCand, MaxFaults

VARIABLES policy, commits, mr, providerEff, guar, providerProc, faults

Provider == INSTANCE ProviderLanding
  WITH MaxCand <- MaxProviderCand, eff <- providerEff, proc <- providerProc

\* What the proofs about the provider's landings assume of their constants.
ASSUME ProviderAssumption == Provider!ConstantsOK

providerVars == <<commits, mr, providerEff, guar, providerProc, faults>>

\* The other part stays in one initial state.
MCInit ==
  /\ policy \in {"direct", "provider"}
  /\ Init /\ Provider!Init
  /\ providerEff.phase = "gates" => providerEff.edited = (mr.kind = "gitlab")
  /\ policy = "direct" => providerEff.phase = "gates" /\ mr.kind = "github"

MCNext ==
  \/ policy = "direct" /\ Next /\ UNCHANGED <<policy, providerVars>>
  \/ policy = "provider" /\ Provider!Next /\ UNCHANGED <<policy, vars>>

Direct(A) == policy = "direct" /\ A
ByProvider(A) == policy = "provider" /\ A

\* The fairness of the two modules.
MCSpec ==
  /\ MCInit /\ [][MCNext]_<<policy, vars, providerVars>>
  /\ WF_vars(Direct(Retry)) /\ WF_vars(Direct(Start)) /\ WF_vars(Direct(Step))
  /\ SF_vars(Direct(Fetch)) /\ SF_vars(Direct(Decide)) /\ SF_vars(Direct(MarkIntegrated))
  /\ SF_vars(Direct(BeginMove)) /\ SF_vars(Direct(Recompose))
  /\ WF_providerVars(ByProvider(Provider!Step)) /\ WF_providerVars(ByProvider(Provider!Start))
  /\ WF_providerVars(ByProvider(Provider!Compose)) /\ WF_providerVars(ByProvider(Provider!Retry))

-----------------------------------------------------------------------------
\* The rows of both modules are well formed.
TypesOK == TypeOK /\ Provider!TypeOK

\* What the provider's gates accept and what is recorded as landed is exact, and an
\* open landing is never given up (integrate_provider_item, reconcile_provider_landing).
ProviderExact == Provider!Exact

\* A landing at the provider is recorded in the end, and cycles over a head that moved end.
ProviderSettles == policy = "provider" => Provider!Reconciles /\ Provider!HeadMovedEnds
=============================================================================
