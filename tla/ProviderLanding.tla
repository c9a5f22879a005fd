--------------------------- MODULE ProviderLanding ---------------------------
(***************************************************************************)
(* A merge request item at the landing gates (integrate_provider_item in   *)
(* src/src/lib.rs) and the reconciliation of a landing that an earlier     *)
(* version of the program asked the provider for                           *)
(* (reconcile_provider_landing).  The gates end without a landing: no      *)
(* adapter can pin the base.  A migrated item may already be uncertain.    *)
(*                                                                         *)
(* Every query is a command of its own.  Between two of them people may    *)
(* push to the branch of the merge request, retarget or merge it, rename   *)
(* the repository or push to the target; the item may be cancelled, and    *)
(* the process may die.                                                    *)
(*                                                                         *)
(* Abstractions.                                                           *)
(*  - A commit of the canonical repository is its number.  Its tree is the *)
(*    merge of a head into a base, edited by the agent or not.  The target *)
(*    branch only grows.                                                   *)
(*  - The admitted head is 1.  What a provider says of reviews, checks and *)
(*    statuses is chosen anew for every query.                             *)
(*  - Signoff is required.  merge_resumed events, which nothing records    *)
(*    any more, and revalidate_moved_base, which no call reaches because   *)
(*    merge_moved_base always returns an item, are left out.               *)
(*  - Agent cycles, review and validation are one step, Compose.  The rest *)
(*    of the effort is Effort's, direct landing Landing's.                 *)
(***************************************************************************)
EXTENDS Integers, Sequences, FiniteSets

CONSTANTS
  Kinds,      \* providers: subset of {"github", "gitlab"}
  Starts,     \* phases of the item at the start: subset of {"gates", "uncertain"}
  CycleLimit, \* AUTOMATIC_CYCLE_LIMIT
  MaxCommits, \* bound on the commits of the canonical repository
  MaxCand,    \* bound on the candidates built for the item
  MaxFaults   \* bound on failing commands and process deaths

\* There is a cycle, a commit to build on and the candidate the item begins with.
ConstantsOK ==
  /\ Kinds \subseteq {"github", "gitlab"} /\ Starts \subseteq {"gates", "uncertain"}
  /\ CycleLimit \in Nat \ {0} /\ MaxCommits \in Nat \ {0} /\ MaxCand \in Nat \ {0} /\ MaxFaults \in Nat

VARIABLES
  commits, \* commits of the canonical repository: tree, first parent, head contained, branch
  mr,      \* the merge request: provider, head, target, repository identity, merge commit and method
  eff,     \* the effort with its attempt
  guar,    \* provider_landing_guarantees: the commit, 0 without a row
  proc,    \* where the integrator is, and what it has read
  faults   \* failing commands and process deaths so far

vars == <<commits, mr, eff, guar, proc, faults>>

Commit == 1..MaxCommits
Main == {c \in 1..Len(commits) : commits[c].on = "main"}
Tip == CHOOSE c \in Main : \A d \in Main : d <= c

\* merge: a merge commit; squash: one commit; both: GitLab's squash with a merge commit;
\* rebase: GitHub's copies of the commits; ff: GitLab's fast forward.
MethodsOf(kind) == IF kind = "github" THEN {"merge", "squash", "rebase"} ELSE {"merge", "squash", "both", "ff"}

\* The state of the effort, suspended (block) or not, the target of its attempt, its candidate, the candidate signed
\* off and the landing recorded; for a migrated item the declared merge method and whether its evidence satisfies
\* the policy.
EffRow ==
  [phase : {"composing", "gates", "moving", "uncertain", "integrated", "cancelled"},
   block : {"no", "infra", "provider", "limit"}, target : Commit, cand : 0..MaxCand, edited : BOOLEAN,
   built : 0..MaxCand, signed : 0..MaxCand, move : Commit \cup {0}, fails : 0..CycleLimit,
   landed : Commit \cup {0}, declared : {"none", "merge", "squash"}, proof : BOOLEAN]

Idle == [pc |-> "idle", fetched |-> 0, base |-> 0, landing |-> 0, history |-> "none"]

Init ==
  /\ commits = <<[tree |-> <<0, 0, FALSE>>, parent |-> 0, has |-> 0, on |-> "main"]>>
  /\ \E kind \in Kinds :
       mr = [kind |-> kind, head |-> 1, target |-> "main", same |-> TRUE, merged |-> 0, method |-> "none"]
  /\ \E phase \in Starts, edited, proof \in BOOLEAN, declared \in {"none", "merge", "squash"} :
       /\ phase = "uncertain" <=> declared # "none"
       /\ phase = "gates" => ~proof
       /\ eff = [phase |-> phase, block |-> "no", target |-> 1, cand |-> 1, edited |-> edited, built |-> 1,
                 signed |-> IF proof THEN 1 ELSE 0, move |-> 0, fails |-> 0, landed |-> 0,
                 declared |-> declared, proof |-> proof]
  /\ guar = 0
  /\ proc = Idle
  /\ faults = 0

At(pc) == proc.pc = pc
Goto(pc) == proc' = [proc EXCEPT !.pc = pc]
Stop == proc' = Idle
Is(phase) == eff.phase = phase /\ eff.block = "no"
External == eff.phase \in {"uncertain", "integrated"}

\* Commands of integrate_item start while the item is integrating.
Integrating == eff.phase \in {"gates", "uncertain", "moving"} /\ eff.block = "no"

\* block_infrastructure, block_provider: a state that can be resumed is suspended.  ResumeState::capture refuses a
\* pending movement.
Suspended(kind) == IF eff.phase \in {"gates", "uncertain"} THEN [eff EXCEPT !.block = kind] ELSE eff
Block(kind) == eff' = Suspended(kind) /\ Stop /\ UNCHANGED <<commits, mr, guar, faults>>

\* reject_candidate: another cycle, or the automatic limit.  External landing authority refuses it.
Rejected ==
  IF eff.phase # "gates" THEN eff
  ELSE [eff EXCEPT !.phase = "composing", !.cand = 0, !.signed = 0, !.fails = @ + 1,
                   !.block = IF eff.fails + 1 = CycleLimit THEN "limit" ELSE "no"]
Reject == eff' = Rejected /\ Stop /\ UNCHANGED <<commits, mr, guar, faults>>

-----------------------------------------------------------------------------
(* The rest of the effort *)

Compose ==
  /\ At("idle") /\ Is("composing") /\ eff.built < MaxCand
  /\ \E edited \in BOOLEAN :
       eff' = [eff EXCEPT !.phase = "gates", !.built = @ + 1, !.cand = eff.built + 1, !.edited = edited]
  /\ UNCHANGED <<commits, mr, guar, proc, faults>>

\* retry_blocked.
Retry ==
  /\ eff.block = "infra"
  /\ eff' = [eff EXCEPT !.block = "no"]
  /\ UNCHANGED <<commits, mr, guar, proc, faults>>

Cancel ==
  /\ ~External /\ eff.phase # "cancelled"
  /\ eff' = [eff EXCEPT !.phase = "cancelled", !.block = "no", !.cand = 0, !.move = 0]
  /\ UNCHANGED <<commits, mr, guar, proc, faults>>

\* resume_provider_reconciliation
Resumed == [eff EXCEPT !.block = "no"]

\* resume_item_owned resumes a provider blocker before it calls integrate_item.  A fenced item without its policy
\* evidence goes no further: candidate rejection is refused.
Start ==
  /\ At("idle")
  /\ eff.phase \in {"gates", "moving", "uncertain"} /\ eff.block \in {"no", "provider"}
  /\ eff' = Resumed
  /\ Goto(IF eff.phase # "uncertain" THEN "fetch" ELSE IF eff.proof THEN "r_verify" ELSE "fenced")
  /\ UNCHANGED <<commits, mr, guar, faults>>

FencedInvalid ==
  /\ At("fenced")
  /\ Reject

\* A command finds the item cancelled; block_and_get returns it.
FindCancelled ==
  /\ ~At("idle") /\ eff.phase = "cancelled"
  /\ Stop
  /\ UNCHANGED <<commits, mr, eff, guar, faults>>

-----------------------------------------------------------------------------
(* What the provider answers *)

\* github_gate, on a review decision, a merge state and the checks in their order; a merged request has an unknown
\* merge state.
GithubGate(review, state, checks) ==
  LET bad == {i \in DOMAIN checks : checks[i] # "done"}
  IN  CASE review = "changes" -> "fail"
        [] review = "required" -> "pending"
        [] state = "blocked" -> "pending"
        [] OTHER -> IF bad = {} THEN "pass" ELSE checks[CHOOSE i \in bad : \A j \in bad : i <= j]

\* gitlab_gate
GitlabGate(open, pipeline, approved) ==
  CASE ~open -> "pending"
    [] open /\ pipeline \in {"fail", "pending"} -> pipeline
    [] OTHER -> IF approved THEN "pass" ELSE "pending"

Gates ==
  IF mr.kind = "github"
  THEN {GithubGate(review, state, checks) :
          review \in {"changes", "required", "other"}, state \in {"blocked"} \cup (IF mr.merged = 0 THEN {"clean"} ELSE {}),
          checks \in [1..2 -> {"done", "pending", "fail"}]}
  ELSE {GitlabGate(mr.merged = 0, pipeline, approved) : pipeline \in {"done", "pending", "fail"}, approved \in BOOLEAN}

\* ProviderAdapter::verify_repository: name, identity and object format.
SameRepository == mr.same

\* ProviderAdapter::snapshot: the base may be the one the provider computed last.
Snapshots ==
  {[same |-> mr.same, target |-> mr.target, head |-> mr.head, base |-> base, gate |-> gate] :
     base \in {1, Tip}, gate \in Gates}

\* ProviderAdapter::landing: GitHub names the merge commit alone.
GithubLanding == [commit |-> mr.merged, head |-> mr.head, history |-> "none"]

\* GitLab names a merge commit before a squash commit, and neither for a fast forward.
GitlabLanding ==
  [commit |-> IF mr.method = "ff" THEN 0 ELSE mr.merged, head |-> mr.head,
   history |-> IF mr.method \in {"merge", "both"} THEN "merge" ELSE "squash"]

Landing == IF mr.kind = "github" THEN GithubLanding ELSE GitlabLanding

-----------------------------------------------------------------------------
(* integrate_provider_item, not fenced *)

Fetch ==
  /\ At("fetch") /\ Integrating
  /\ proc' = [proc EXCEPT !.pc = "verify", !.fetched = Tip]
  /\ UNCHANGED <<commits, mr, eff, guar, faults>>

Verify ==
  /\ At("verify") /\ Integrating
  /\ IF SameRepository THEN Goto("snapshot") /\ UNCHANGED <<commits, mr, eff, guar, faults>> ELSE Block("provider")

\* The first snapshot against the admission, the fetched target and the attempt.
Snapshot ==
  /\ At("snapshot") /\ Integrating
  /\ \E s \in Snapshots :
       CASE ~s.same \/ s.target # "main" -> Block("provider")
         [] s.same /\ s.target = "main" /\ s.head # 1 -> Reject
         [] OTHER ->
              IF s.base # proc.fetched \/ s.gate # "pass" THEN Block("provider")
              ELSE /\ proc' = [proc EXCEPT !.base = s.base, !.pc = IF eff.target = s.base THEN "graph" ELSE "move"]
                   /\ UNCHANGED <<commits, mr, eff, guar, faults>>

\* github_signoff_gate: the first required context whose latest status is no success decides.
SignoffGate(latest) ==
  LET bad == {i \in DOMAIN latest : latest[i] # "success"}
  IN  IF bad = {} THEN "pass" ELSE latest[CHOOSE i \in bad : \A j \in bad : i <= j]

\* verify_candidate_graph; require_exact_policy_signoff takes evidence for the exact candidate that is there,
\* sign_candidate signs again.
VerifyGraph ==
  /\ At("graph") /\ Integrating
  /\ \/ Goto("sign") /\ UNCHANGED <<commits, mr, eff, guar, faults>>
     \/ eff.signed = eff.cand /\ Goto("resnapshot") /\ UNCHANGED <<commits, mr, eff, guar, faults>>
     \/ Reject

\* sign_candidate as far as its command: the candidate is pushed, the command may refuse or change it.
SignCandidate ==
  /\ At("sign") /\ Integrating
  /\ (Goto("status") /\ UNCHANGED <<commits, mr, eff, guar, faults>>) \/ Reject

\* The statuses of the exact candidate are asked for, and the event is recorded while the item is integrating.
SignStatus ==
  /\ At("status") /\ Integrating
  /\ \E latest \in [1..2 -> {"success", "missing", "untrusted", "failure"}] :
       CASE SignoffGate(latest) = "failure" -> Reject
         [] SignoffGate(latest) \in {"missing", "untrusted"} -> Block("infra")
         [] OTHER ->
              /\ eff' = [eff EXCEPT !.signed = eff.cand]
              /\ Goto("resnapshot")
              /\ UNCHANGED <<commits, mr, guar, faults>>

\* Mutant of Resnapshot: the base is not compared again.
ResnapshotAnyBase ==
  /\ At("resnapshot") /\ Integrating
  /\ \E s \in Snapshots :
       CASE ~s.same \/ s.target # "main" -> Block("provider")
         [] s.same /\ s.target = "main" /\ s.head # 1 -> Reject
         [] OTHER ->
              IF s.gate # "pass" THEN Block("provider")
              ELSE proc' = [proc EXCEPT !.pc = "ready", !.base = s.base] /\ UNCHANGED <<commits, mr, eff, guar, faults>>

\* The snapshot after signoff: a base that moved makes the evidence stale.
Resnapshot ==
  /\ At("resnapshot") /\ Integrating
  /\ \E s \in Snapshots :
       CASE ~s.same \/ s.target # "main" -> Block("provider")
         [] s.same /\ s.target = "main" /\ s.head # 1 -> Reject
         [] OTHER ->
              IF s.base = proc.base /\ s.gate # "pass" THEN Block("provider")
              ELSE /\ proc' = [proc EXCEPT !.pc = IF s.base = proc.base THEN "ready" ELSE "refetch", !.base = s.base]
                   /\ UNCHANGED <<commits, mr, eff, guar, faults>>

Refetch ==
  /\ At("refetch") /\ Integrating
  /\ IF Tip # proc.base THEN Block("provider")
     ELSE proc' = [proc EXCEPT !.pc = "move", !.fetched = Tip] /\ UNCHANGED <<commits, mr, eff, guar, faults>>

\* atomic_landing_unsupported: blocked before any mutation.
Unsupported ==
  /\ At("ready") /\ Integrating
  /\ Block("provider")

\* merge_moved_base as far as begin_target_move: a pending movement must name the same target.
BeginMove ==
  /\ At("move") /\ Integrating
  /\ \/ /\ Is("gates") \/ (Is("moving") /\ eff.move = proc.base)
        /\ eff' = [eff EXCEPT !.phase = "moving", !.move = proc.base]
        /\ Goto("recompose")
     \/ Is("moving") /\ eff.move # proc.base /\ Stop /\ UNCHANGED eff
  /\ UNCHANGED <<commits, mr, guar, faults>>

\* The rest of merge_moved_base: agent cycle, validation and gates follow.
Recompose ==
  /\ At("recompose") /\ Integrating
  /\ eff' = [eff EXCEPT !.phase = "composing", !.target = proc.base, !.cand = 0, !.signed = 0, !.move = 0]
  /\ Stop
  /\ UNCHANGED <<commits, mr, guar, faults>>

-----------------------------------------------------------------------------
(* reconcile_provider_landing *)

RVerify ==
  /\ proc.pc \in {"r_verify", "r_reverify"} /\ Integrating
  /\ IF SameRepository THEN Goto(IF At("r_verify") THEN "r_landing" ELSE "r_snapshot") /\ UNCHANGED <<commits, mr, eff, guar, faults>>
     ELSE Block("provider")

\* No landing leaves the item unresolved; a landing of another head is an error.
RLanding ==
  /\ At("r_landing") /\ Integrating
  /\ IF Landing.commit = 0 \/ Landing.head # 1 THEN Block("provider")
     ELSE /\ proc' = [proc EXCEPT !.pc = "r_fetch", !.landing = Landing.commit, !.history = Landing.history]
          /\ UNCHANGED <<commits, mr, eff, guar, faults>>

RFetch ==
  /\ At("r_fetch") /\ Integrating
  /\ proc' = [proc EXCEPT !.pc = "r_reverify", !.fetched = Tip]
  /\ UNCHANGED <<commits, mr, eff, guar, faults>>

RSnapshot ==
  /\ At("r_snapshot") /\ Integrating
  /\ \E s \in Snapshots :
       IF s.same /\ s.head = 1 /\ s.target = "main" THEN Goto("r_judge") /\ UNCHANGED <<commits, mr, eff, guar, faults>>
       ELSE Block("provider")

History == IF proc.history = "none" THEN eff.declared ELSE proc.history
CandTree == <<1, eff.target, eff.edited>>

\* The landed tree, its first parent, the history contract and containment in the fetched target.
Verified ==
  LET c == commits[proc.landing]
  IN  /\ c.tree = CandTree
      /\ c.parent = eff.target
      /\ History = eff.declared
      /\ History = "merge" => c.has = 1
      /\ c.on = "main" /\ proc.landing <= proc.fetched

\* Mutant of Recorded: a second row for the item is an error.
RecordedOnce == guar = 0

\* record_provider_landing_guarantee: the row is new or equal.
Recorded == guar \in {0, proc.landing}

RJudge ==
  /\ At("r_judge") /\ Integrating
  /\ IF ~Verified \/ ~Recorded THEN Block("provider")
     ELSE /\ guar' = proc.landing
          /\ Goto("r_mark")
          /\ UNCHANGED <<commits, mr, eff, faults>>

\* The registered checkout, then mark_integrated.
RMark ==
  /\ At("r_mark") /\ Is("uncertain")
  /\ eff' = [eff EXCEPT !.phase = "integrated", !.landed = proc.landing]
  /\ Stop
  /\ UNCHANGED <<commits, mr, guar, faults>>

-----------------------------------------------------------------------------
(* Failures, and the people at the provider *)

\* A command fails, where the program runs one: the item is blocked, except that a recomposition just ends.
CommandFails ==
  /\ proc.pc \notin {"idle", "fenced", "ready", "move", "r_judge"} /\ Integrating /\ faults < MaxFaults
  /\ \E kind \in {"infra"} \cup (IF External \/ proc.pc \in {"sign", "status"} THEN {"provider"} ELSE {}) :
       eff' = IF At("recompose") THEN eff ELSE Suspended(kind)
  /\ faults' = faults + 1
  /\ Stop
  /\ UNCHANGED <<commits, mr, guar>>

Crash ==
  /\ ~At("idle") /\ faults < MaxFaults
  /\ faults' = faults + 1
  /\ Stop
  /\ UNCHANGED <<commits, mr, eff, guar>>

Grow(c) == Len(commits) < MaxCommits /\ commits' = Append(commits, c)

OthersPush ==
  /\ Grow([tree |-> <<0, Tip, FALSE>>, parent |-> Tip, has |-> 0, on |-> "main"])
  /\ UNCHANGED <<mr, eff, guar, proc, faults>>

\* Somebody merges the request.
Merge(method) ==
  /\ mr.merged = 0
  /\ Grow([tree |-> <<mr.head, IF mr.target = "main" THEN Tip ELSE 0, FALSE>>,
           parent |-> IF mr.target = "main" /\ method # "rebase" THEN Tip ELSE 0,
           has |-> IF method \in {"merge", "ff"} THEN mr.head ELSE 0, on |-> mr.target])
  /\ mr' = [mr EXCEPT !.merged = Len(commits) + 1, !.method = method]
  /\ UNCHANGED <<eff, guar, proc, faults>>

Change ==
  /\ mr.merged = 0
  /\ \/ mr.head = 1 /\ mr' = [mr EXCEPT !.head = 2]
     \/ mr.target = "main" /\ mr' = [mr EXCEPT !.target = "other"]
  /\ UNCHANGED <<commits, eff, guar, proc, faults>>

Rename ==
  /\ mr' = [mr EXCEPT !.same = ~@]
  /\ UNCHANGED <<commits, eff, guar, proc, faults>>

-----------------------------------------------------------------------------
Gating ==
  \/ Fetch \/ Verify \/ Snapshot \/ VerifyGraph \/ SignCandidate \/ SignStatus \/ Resnapshot \/ Refetch \/ Unsupported \/ BeginMove \/ Recompose
Reconcile == FencedInvalid \/ RVerify \/ RLanding \/ RFetch \/ RSnapshot \/ RJudge \/ RMark
Step == FindCancelled \/ Gating \/ Reconcile
People == OthersPush \/ Change \/ Rename \/ \E method \in MethodsOf(mr.kind) : Merge(method)

Next == Compose \/ Retry \/ Cancel \/ Start \/ Step \/ CommandFails \/ Crash \/ People

\* A run goes on, the daemon takes the item up again, cycles end and an operator retries what is blocked.
Spec == Init /\ [][Next]_vars /\ WF_vars(Step) /\ WF_vars(Start) /\ WF_vars(Compose) /\ WF_vars(Retry)

-----------------------------------------------------------------------------
(* Properties *)

\* TypeOK: the rows are well formed; there is a candidate from the gates on, and a movement exactly while one is
\* pending.
TypeOK ==
  /\ eff \in EffRow /\ guar \in Commit \cup {0} /\ faults \in 0..MaxFaults
  /\ eff.phase \in {"gates", "moving", "uncertain", "integrated"} => eff.cand # 0
  /\ eff.phase = "moving" <=> eff.move # 0
  /\ eff.signed <= eff.built

\* ReadyExact: when nothing but the landing is missing, the candidate that was signed off is the item's candidate,
\* built on the base the provider named after signoff.
ReadyExact == At("ready") /\ Is("gates") => eff.signed = eff.cand /\ proc.base = eff.target

\* IntegratedExact: an item is integrated by the commit that merged its request, on the target branch, with the
\* validated tree on the validated base, containing the admitted head where the declared method does, and the
\* guarantee that is stored names that commit.
IntegratedExact ==
  eff.phase = "integrated" =>
    LET c == commits[eff.landed]
    IN  /\ eff.landed = mr.merged /\ guar = eff.landed
        /\ c.on = "main" /\ c.tree = CandTree /\ c.parent = eff.target
        /\ mr.head = 1 /\ (eff.declared = "merge" => c.has = 1)

\* AuthorityKept: no block, failure, death or cancellation makes the program give up a landing whose outcome is open.
AuthorityKept == [][External => External']_vars

\* Exact: the three together.
Exact == [](ReadyExact /\ IntegratedExact) /\ AuthorityKept

\* Reconciles: a landing that is exact and stays visible is recorded in the end, whatever died or failed on the way.
Landed ==
  /\ eff.proof /\ mr.same /\ mr.merged # 0 /\ mr.target = "main" /\ mr.head = 1
  /\ commits[mr.merged].tree = CandTree /\ commits[mr.merged].parent = eff.target
  /\ mr.method = eff.declared
Reconciles == (<>[]Landed) => <>(eff.phase = "integrated")

\* HeadMovedEnds: once the head of the request moved, cycles over the admitted head end at the limit; they do not go
\* on for ever.  (A movement that is pending is refused both the rejection and the block; an open landing has no
\* cycles.)
HeadMovedEnds ==
  (<>[](mr.same /\ mr.target = "main" /\ mr.head = 2 /\ ~External))
    => <>[](eff.phase \in {"cancelled", "moving"} \/ eff.block = "limit")

=============================================================================
