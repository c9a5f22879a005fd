----------------------------- MODULE Submission -----------------------------
(***************************************************************************)
(* One development workspace (src/src/composition.rs RepositoryManager,    *)
(* src/src/lib.rs SqliteQueue): it is created, its HEAD is submitted to    *)
(* the queue, submitted again in the place of an item that needs a fix,    *)
(* and removed.  Every command is a process that may fail or stop between  *)
(* two effects and is repeated; the repository guard lets one of them work *)
(* at a time, but submit and remove read the row before they take it.      *)
(*                                                                         *)
(* Abstractions.                                                           *)
(*  - A commit is a number: Base is the recorded target of the workspace,  *)
(*    1..MaxCommit are based on it, Unbased is not, MovedTarget is a later *)
(*    target.                                                              *)
(*  - A submission and its item have one number.  Of the item, only what   *)
(*    local submission asks: whether it has an effort, and whether it is   *)
(*    blocked for an agent fix, landing or ended (Queue, Effort, Landing). *)
(*  - Rift makes and removes a workspace in one step.  Its residue, and    *)
(*    the commands that discard it, are left out.                          *)
(*  - The workspace is an obligation of a draining repository: it exists   *)
(*    before draining, or is never made.                                   *)
(***************************************************************************)
EXTENDS Integers, FiniteSets

CONSTANTS
  Procs,
  MaxSub,     \* bound on submissions
  MaxCommit,  \* bound on the commits of the developer
  MaxEdits,   \* bound on changes of the developer in the workspace
  MaxStops,   \* bound on processes that fail or stop
  MaxRemoves, \* bound on removals asked for
  None

VARIABLES
  ws,      \* the development_workspaces row
  rift,    \* the workspace on disk
  root,    \* the owned root: at the recorded target, or moved on
  subs,    \* the local_submissions rows, with their two refs
  items,   \* the queue items of the submissions
  op,      \* operation_state
  guard,   \* the process that holds the operation lock
  proc,    \* the processes
  asked,   \* an operator asked to remove the active workspace (history)
  late,    \* the developer changed the workspace while it was being removed (history)
  edits, stops, removes

vars == <<ws, rift, root, subs, items, op, guard, proc, asked, late, edits, stops, removes>>

Base == 0
Unbased == -1
MovedTarget == -2
NoCommit == -3

Work == 1..MaxCommit
Commit == Work \cup {Base, Unbased, MovedTarget}
Subs == 1..MaxSub

Row == [status : {"none", "creating", "active", "submitted", "cleanup_pending", "cleanup_failed", "removed"},
        cleanup : {"pending", "operator", "operator_failed", "failed", "complete"},
        identity : BOOLEAN]

Rift == [at : {"absent", "detached", "branch"}, head : Commit, clean : BOOLEAN]

Sub == [state : {"none", "creating", "queued", "integrated", "cancelled", "replaced"},
        commit : Commit \cup {NoCommit}, replaces : Subs \cup {0},
        private : Commit \cup {NoCommit}, staging : Commit \cup {NoCommit}]

Item == [status : {"none", "ready", "blocked", "landing", "integrated", "cancelled"}, effort : BOOLEAN]

Proc == [pc : {"idle", "rift", "branch", "bind", "submit", "intent", "staged", "private", "unstaged", "superseded",
               "remove", "removing", "unlink", "unlinked"},
         sub : Subs \cup {0},   \* the submission, or the item a submit was asked to replace
         row : Row]             \* the row a removal works from

\* Of the constants.
ConstantsOK ==
  /\ MaxSub \in Nat /\ MaxCommit \in Nat /\ MaxEdits \in Nat /\ MaxStops \in Nat /\ MaxRemoves \in Nat
  /\ None \notin Procs

NoRow == [status |-> "none", cleanup |-> "pending", identity |-> FALSE]
Idle == [pc |-> "idle", sub |-> 0, row |-> NoRow]

Init ==
  /\ ws = NoRow
  /\ rift = [at |-> "absent", head |-> Base, clean |-> TRUE]
  /\ root = "base"
  /\ subs = [s \in Subs |-> [state |-> "none", commit |-> NoCommit, replaces |-> 0,
                             private |-> NoCommit, staging |-> NoCommit]]
  /\ items = [s \in Subs |-> [status |-> "none", effort |-> FALSE]]
  /\ op = "enabled"
  /\ guard = None
  /\ proc = [p \in Procs |-> Idle]
  /\ asked = FALSE /\ late = FALSE
  /\ edits = 0 /\ stops = 0 /\ removes = 0

At(p, pc) == proc[p].pc = pc
Goto(p, pc) == proc' = [proc EXCEPT ![p].pc = pc]

\* RepositoryGuard::acquire, and its release when the command ends.
Enter(p, to) == guard = None /\ guard' = p /\ proc' = [proc EXCEPT ![p] = to]
Leave(p) == guard' = None /\ proc' = [proc EXCEPT ![p] = Idle]

bounds == <<late, edits, stops, removes>>

-----------------------------------------------------------------------------
(* create_workspace_checked and resume_workspace_creation *)

\* A new workspace is recorded once the owned root is at its target; a row that is still creating is resumed as it
\* is recorded.
BeginCreate(p) ==
  /\ At(p, "idle")
  /\ Enter(p, [Idle EXCEPT !.pc = "rift"])
  /\ \/ /\ ws.status = "none" /\ op = "enabled"
        /\ ws' = [ws EXCEPT !.status = "creating"]
        /\ root' = "base"
     \/ /\ ws.status = "creating"
        /\ UNCHANGED <<ws, root>>
  /\ UNCHANGED <<rift, subs, items, op, asked, bounds>>

\* The Rift at the expected path is taken, or a copy of the owned root is made.
CreateRift(p) ==
  /\ At(p, "rift")
  /\ rift' = IF rift.at # "absent" THEN rift
             ELSE [at |-> "detached", head |-> IF root = "base" THEN Base ELSE MovedTarget, clean |-> TRUE]
  /\ Goto(p, "branch")
  /\ UNCHANGED <<ws, root, subs, items, op, guard, asked, bounds>>

\* A Rift that is not at the recorded target is preserved: the command fails (Fail).
CreateBranch(p) ==
  /\ At(p, "branch")
  /\ rift.head = Base /\ rift.clean
  /\ rift' = [rift EXCEPT !.at = "branch"]
  /\ Goto(p, "bind")
  /\ UNCHANGED <<ws, root, subs, items, op, guard, asked, bounds>>

\* set_development_workspace_identity.
SetIdentity(p) ==
  /\ At(p, "bind")
  /\ ws.status = "creating"
  /\ ws' = [ws EXCEPT !.status = "active", !.identity = TRUE]
  /\ Leave(p)
  /\ UNCHANGED <<rift, root, subs, items, op, asked, bounds>>

-----------------------------------------------------------------------------
(* submit *)

\* The row and the policy are read before the guard is taken.  A finalized submission that is submitted again is
\* only read.
Submit(p, r) ==
  /\ At(p, "idle")
  /\ op = "enabled"
  /\ IF r = 0 THEN ws.status = "active"
     ELSE ws.status \in {"active", "submitted"} /\ items[r].status # "none"
  /\ proc' = [proc EXCEPT ![p] = [Idle EXCEPT !.pc = "submit", !.sub = r]]
  /\ UNCHANGED <<ws, rift, root, subs, items, op, guard, asked, bounds>>

\* require_workspace_submission_state.
SubmissionState == rift.at = "branch" /\ rift.clean

Creating == {s \in Subs : subs[s].state = "creating"}

\* creating_local_submission: the intent that is there is resumed when it is this one.
ResumeIntent(p) ==
  /\ At(p, "submit")
  /\ \E s \in Creating :
       /\ subs[s].replaces = proc[p].sub
       /\ SubmissionState /\ rift.head = subs[s].commit
       /\ Enter(p, [Idle EXCEPT !.pc = "intent", !.sub = s])
  /\ UNCHANGED <<ws, rift, root, subs, items, op, asked, bounds>>

\* begin_local_submission: what its transaction reads again.
Intended(r) ==
  /\ op = "enabled"
  /\ ws.status = IF r = 0 THEN "active" ELSE "submitted"
  /\ r # 0 => items[r].status = "blocked"

\* The intent records the exact HEAD.
BeginIntent(p) ==
  LET s == Cardinality({t \in Subs : subs[t].state # "none"}) + 1
      r == proc[p].sub
  IN  /\ At(p, "submit")
      /\ Creating = {} /\ s \in Subs
      /\ SubmissionState /\ rift.head \notin {Base, Unbased}
      /\ Intended(r)
      /\ Enter(p, [Idle EXCEPT !.pc = "intent", !.sub = s])
      /\ subs' = [subs EXCEPT ![s].state = "creating", ![s].commit = rift.head, ![s].replaces = r]
      /\ UNCHANGED <<ws, rift, root, items, op, asked, bounds>>

S(p) == subs[proc[p].sub]

\* The commit is fetched to the staging ref, unless a ref has it already.
Stage(p) ==
  /\ At(p, "intent")
  /\ subs' = IF S(p).private = NoCommit THEN [subs EXCEPT ![proc[p].sub].staging = S(p).commit] ELSE subs
  /\ Goto(p, IF S(p).private = NoCommit THEN "staged" ELSE "private")
  /\ UNCHANGED <<ws, rift, root, items, op, guard, asked, bounds>>

\* update-ref with the zero object id.
Publish(p) ==
  /\ At(p, "staged")
  /\ subs' = [subs EXCEPT ![proc[p].sub].private = S(p).staging]
  /\ Goto(p, "private")
  /\ UNCHANGED <<ws, rift, root, items, op, guard, asked, bounds>>

Unstage(p) ==
  /\ At(p, "private")
  /\ subs' = [subs EXCEPT ![proc[p].sub].staging = NoCommit]
  /\ Goto(p, "unstaged")
  /\ UNCHANGED <<ws, rift, root, items, op, guard, asked, bounds>>

\* cancel_local_submission: the submission ends, and its workspace is active again.  Both rows must be as expected.
Cancelled(i) ==
  /\ subs[i].state = "queued" /\ ws.status = "submitted"
  /\ subs' = [subs EXCEPT ![i].state = "cancelled"]
  /\ ws' = [ws EXCEPT !.status = "active", !.cleanup = "pending"]
  /\ items' = [items EXCEPT ![i].status = "cancelled"]

\* Mutant of Supersede: an item that is cancelled already is cancelled again.
SupersedeAgain(p) ==
  /\ At(p, "unstaged")
  /\ LET r == S(p).replaces
     IN  IF r = 0 THEN UNCHANGED <<subs, ws, items>>
         ELSE items[r].effort /\ items[r].status \in {"ready", "blocked"} /\ Cancelled(r)
  /\ Goto(p, "superseded")
  /\ UNCHANGED <<rift, root, op, guard, asked, bounds>>

\* The replaced item is cancelled through its effort; one that is cancelled already is left.
Supersede(p) ==
  /\ At(p, "unstaged")
  /\ LET r == S(p).replaces
     IN  IF r = 0 \/ items[r].status = "cancelled"
         THEN (r # 0 => items[r].effort) /\ UNCHANGED <<subs, ws, items>>
         ELSE items[r].effort /\ items[r].status \in {"ready", "blocked"} /\ Cancelled(r)
  /\ Goto(p, "superseded")
  /\ UNCHANGED <<rift, root, op, guard, asked, bounds>>

\* finalize_local_submission.
Finalize(p) ==
  LET s == proc[p].sub
      r == S(p).replaces
  IN  /\ At(p, "superseded")
      /\ r # 0 => items[r].status = "cancelled"
      /\ ws.status = "active"
      /\ subs' = [t \in Subs |-> IF t = s THEN [subs[t] EXCEPT !.state = "queued"]
                                 ELSE IF t = r THEN [subs[t] EXCEPT !.state = "replaced"] ELSE subs[t]]
      /\ items' = [items EXCEPT ![s].status = "ready"]
      /\ ws' = [ws EXCEPT !.status = "submitted"]
      /\ Leave(p)
      /\ UNCHANGED <<rift, root, op, asked, bounds>>

Live(s) == subs[s].state \in {"queued", "integrated"}

\* replay_finalized_local_submission: a submit of a finalized submission answers its first receipt.
Replayed(s) ==
  /\ Creating = {} /\ {t \in Subs : Live(t)} = {s}
  /\ \/ ws.status = "submitted" /\ subs[s].state = "queued" /\ rift.at # "absent"
     \/ /\ ws.status \in {"cleanup_pending", "cleanup_failed", "removed"} /\ subs[s].state = "integrated"
        /\ ws.status = "removed" => rift.at = "absent"
  /\ rift.at # "absent" => SubmissionState /\ rift.head = subs[s].commit
  /\ subs[s].private = subs[s].commit /\ subs[s].staging = NoCommit

-----------------------------------------------------------------------------
(* remove_workspace and cleanup_repo *)

\* The row is read before the guard is taken.
Remove(p) ==
  /\ At(p, "idle") /\ removes < MaxRemoves
  /\ ws.status # "none"
  /\ proc' = [proc EXCEPT ![p] = [Idle EXCEPT !.pc = "remove", !.row = ws]]
  /\ removes' = removes + 1
  /\ UNCHANGED <<ws, rift, root, subs, items, op, guard, asked, late, edits, stops>>

\* A workspace that was active when it was read is marked for removal, whatever it is now.
Authorize(p) ==
  LET seen == proc[p].row
      row == IF seen.status = "active" THEN [seen EXCEPT !.status = "cleanup_pending", !.cleanup = "operator"]
             ELSE seen
  IN  /\ At(p, "remove")
      /\ Enter(p, [Idle EXCEPT !.pc = "removing", !.row = row])
      /\ ws' = IF seen.status = "active" THEN [ws EXCEPT !.status = row.status, !.cleanup = row.cleanup] ELSE ws
      /\ asked' = (asked \/ seen.status = "active")
      /\ UNCHANGED <<rift, root, subs, items, op, bounds>>

\* cleanup_repo: the row is read under the guard.
Cleanup(p) ==
  /\ At(p, "idle")
  /\ ws.status \in {"cleanup_pending", "cleanup_failed"}
  /\ Enter(p, [Idle EXCEPT !.pc = "removing", !.row = ws])
  /\ UNCHANGED <<ws, rift, root, subs, items, op, asked, bounds>>

\* Mutant of Removable: an ended item is enough, whatever HEAD is.
RemovableAny(row) ==
  \/ row.cleanup \in {"operator", "operator_failed"}
  \/ \E s \in Subs : subs[s].state = "integrated"

\* integrated_submission_sha: without the request of an operator, HEAD is the integrated commit.
Removable(row) ==
  \/ row.cleanup \in {"operator", "operator_failed"}
  \/ \E s \in Subs : subs[s].state = "integrated" /\ rift.head = subs[s].commit

\* A workspace that has no identity and no Rift.
RemoveUnmade(p) ==
  /\ At(p, "removing")
  /\ proc[p].row.status = "creating" /\ rift.at = "absent"
  /\ ws' = [ws EXCEPT !.status = "removed", !.cleanup = "complete"]
  /\ Leave(p)
  /\ UNCHANGED <<rift, root, subs, items, op, asked, bounds>>

Cleaning(p) == At(p, "removing") /\ proc[p].row.status \in {"cleanup_pending", "cleanup_failed"}

\* Changed files are kept.
Preserve(p) ==
  /\ Cleaning(p)
  /\ rift.at # "absent" /\ ~rift.clean
  /\ ws' = [ws EXCEPT !.status = "cleanup_failed",
                      !.cleanup = IF proc[p].row.cleanup = "operator" THEN "operator_failed" ELSE "failed"]
  /\ Leave(p)
  /\ UNCHANGED <<rift, root, subs, items, op, asked, bounds>>

\* remove_workspace_locked: the row says pending from here on.
BeginRemoval(p) ==
  /\ Cleaning(p)
  /\ \/ /\ rift.at # "absent" /\ rift.clean
        /\ Removable(proc[p].row)
        /\ ws' = [ws EXCEPT !.status = "cleanup_pending", !.cleanup = "pending"]
     \/ rift.at = "absent" /\ UNCHANGED ws
  /\ Goto(p, "unlink")
  /\ UNCHANGED <<rift, root, subs, items, op, guard, asked, bounds>>

\* remove_rift: require_clean_childless_rift is asked again.
RemoveRift(p) ==
  /\ At(p, "unlink")
  /\ rift.at # "absent" => rift.clean
  /\ rift' = [rift EXCEPT !.at = "absent"]
  /\ Goto(p, "unlinked")
  /\ UNCHANGED <<ws, root, subs, items, op, guard, asked, bounds>>

CompleteRemoval(p) ==
  /\ At(p, "unlinked")
  /\ ws' = [ws EXCEPT !.status = "removed", !.cleanup = "complete"]
  /\ Leave(p)
  /\ UNCHANGED <<rift, root, subs, items, op, asked, bounds>>

-----------------------------------------------------------------------------
(* Failure *)

\* The guard is held by another, or a check says no: the command ends before its first effect.
GiveUp(p) ==
  /\ proc[p].pc \in {"submit", "remove"}
  /\ proc' = [proc EXCEPT ![p] = Idle]
  /\ UNCHANGED <<ws, rift, root, subs, items, op, guard, asked, bounds>>

\* A removal that finds nothing to do, or is refused.
Refuse(p) ==
  /\ At(p, "removing")
  /\ LET row == proc[p].row
     IN  \/ row.status \notin {"creating", "cleanup_pending", "cleanup_failed"}
         \/ row.status = "creating" /\ rift.at # "absent"
         \/ Cleaning(p) /\ rift.at # "absent" /\ rift.clean /\ ~Removable(row)
  /\ Leave(p)
  /\ UNCHANGED <<ws, rift, root, subs, items, op, asked, bounds>>

\* A command fails, or its process stops: the lock is free, the effects stay.
Fail(p) ==
  /\ guard = p /\ stops < MaxStops
  /\ stops' = stops + 1
  /\ Leave(p)
  /\ UNCHANGED <<ws, rift, root, subs, items, op, asked, late, edits, removes>>

\* The command bails out: the Rift is preserved, the replaced item does not end, the workspace is not active.
Stuck(p) ==
  /\ \/ At(p, "branch") /\ ~(rift.head = Base /\ rift.clean)
     \/ At(p, "unlink") /\ rift.at # "absent" /\ ~rift.clean
     \/ At(p, "superseded") /\ ws.status # "active"
     \/ /\ At(p, "unstaged") /\ S(p).replaces # 0
        /\ LET i == items[S(p).replaces]
           IN  ~i.effort \/ i.status \in {"landing", "integrated"}
                         \/ (i.status # "cancelled" /\ ws.status # "submitted")
  /\ Leave(p)
  /\ UNCHANGED <<ws, rift, root, subs, items, op, asked, bounds>>

-----------------------------------------------------------------------------
(* The developer, the operator and the queue *)

\* A commit, a checkout, a change in the workspace that was handed out.
Edit ==
  /\ ws.identity /\ rift.at # "absent" /\ edits < MaxEdits
  /\ rift' \in [at : {"detached", "branch"}, head : Work \cup {Unbased}, clean : BOOLEAN]
  /\ rift' # rift
  /\ edits' = edits + 1
  /\ late' = (late \/ \E p \in Procs : At(p, "unlink"))
  /\ UNCHANGED <<ws, root, subs, items, op, guard, proc, asked, stops, removes>>

\* begin_repository_draining.
Drain ==
  /\ guard = None
  /\ op = "enabled" /\ Creating = {}
  /\ op' = "draining"
  /\ UNCHANGED <<ws, rift, root, subs, items, guard, proc, asked, bounds>>

\* The integrator composes another item, or lands one: the owned root is reset.
MoveRoot ==
  /\ guard = None
  /\ ws.status # "none" /\ root = "base"
  /\ root' = "moved"
  /\ UNCHANGED <<ws, rift, subs, items, op, guard, proc, asked, bounds>>

\* The integrator takes the item: an effort, or blocked before it has one.
Compose(i) ==
  /\ guard = None
  /\ items[i].status = "ready" /\ ~items[i].effort
  /\ \/ subs[i].private = subs[i].commit /\ items' = [items EXCEPT ![i].effort = TRUE]
     \/ items' = [items EXCEPT ![i].status = "blocked"]
  /\ UNCHANGED <<ws, rift, root, subs, op, guard, proc, asked, bounds>>

\* The cycles are used up, the operator allows another, the candidate lands, the push is refused.
Progress(i) ==
  /\ items[i].effort
  /\ \/ guard = None /\ items[i].status = "ready" /\ items' = [items EXCEPT ![i].status = "blocked"]
     \/ items[i].status = "blocked" /\ items' = [items EXCEPT ![i].status = "ready"]
     \/ guard = None /\ items[i].status = "ready" /\ items' = [items EXCEPT ![i].status = "landing"]
     \/ guard = None /\ items[i].status = "landing" /\ items' = [items EXCEPT ![i].status = "ready"]
  /\ UNCHANGED <<ws, rift, root, subs, op, guard, proc, asked, bounds>>

\* mark_integrated: the workspace is handed to cleanup, in one transaction with the item.
MarkIntegrated(i) ==
  /\ guard = None
  /\ items[i].status = "landing"
  /\ subs[i].state = "queued"
  /\ ws.status \in {"submitted", "cleanup_pending", "cleanup_failed"}
  /\ items' = [items EXCEPT ![i].status = "integrated"]
  /\ subs' = [subs EXCEPT ![i].state = "integrated"]
  /\ ws' = [ws EXCEPT !.status = "cleanup_pending", !.cleanup = "pending"]
  /\ root' = "moved"
  /\ UNCHANGED <<rift, op, guard, proc, asked, bounds>>

\* cancel_item takes no guard.  An item without an effort is not cancelled while its replacement is being made.
CancelItem(i) ==
  /\ items[i].status \in {"ready", "blocked"}
  /\ items[i].effort \/ \A s \in Creating : subs[s].replaces # i
  /\ Cancelled(i)
  /\ UNCHANGED <<rift, root, op, guard, proc, asked, bounds>>

-----------------------------------------------------------------------------
Create(p) == BeginCreate(p) \/ CreateRift(p) \/ CreateBranch(p) \/ SetIdentity(p)
Begin(p) == ResumeIntent(p) \/ BeginIntent(p)
Refs(p) == Stage(p) \/ Publish(p) \/ Unstage(p) \/ Supersede(p) \/ Finalize(p)
Removal(p) ==
  \/ Authorize(p) \/ Cleanup(p) \/ RemoveUnmade(p) \/ Preserve(p) \/ BeginRemoval(p)
  \/ RemoveRift(p) \/ CompleteRemoval(p)

Next ==
  \/ \E p \in Procs :
       \/ Create(p) \/ Begin(p) \/ Refs(p) \/ Remove(p) \/ Removal(p)
       \/ GiveUp(p) \/ Refuse(p) \/ Stuck(p) \/ Fail(p)
       \/ \E r \in Subs \cup {0} : Submit(p, r)
  \/ \E i \in Subs : Compose(i) \/ Progress(i) \/ MarkIntegrated(i) \/ CancelItem(i)
  \/ Edit \/ Drain \/ MoveRoot

Spec == Init /\ [][Next]_vars

\* A command that runs goes on, and the developer repeats a submit that did not end.
Fairness ==
  \A p \in Procs :
    /\ WF_vars(CreateRift(p) \/ CreateBranch(p) \/ SetIdentity(p) \/ Refs(p) \/ Stuck(p) \/ GiveUp(p))
    /\ WF_vars(RemoveUnmade(p) \/ Preserve(p) \/ BeginRemoval(p) \/ RemoveRift(p) \/ CompleteRemoval(p) \/ Refuse(p))
    /\ SF_vars(Begin(p))
    /\ SF_vars(BeginCreate(p))
    /\ \A r \in Subs \cup {0} : SF_vars(Submit(p, r))

LiveSpec == Spec /\ Fairness

-----------------------------------------------------------------------------
TypeOK ==
  /\ ws \in Row /\ rift \in Rift
  /\ root \in {"base", "moved"}
  /\ subs \in [Subs -> Sub] /\ items \in [Subs -> Item]
  /\ op \in {"enabled", "draining"}
  /\ guard \in Procs \cup {None}
  /\ proc \in [Procs -> Proc]
  /\ asked \in BOOLEAN /\ late \in BOOLEAN
  /\ edits \in 0..MaxEdits /\ stops \in 0..MaxStops /\ removes \in 0..MaxRemoves

\* A workspace has one live submission at most, through retries of one submit, two submits at once, cancellation and
\* replacement; a replaced one is not live.  finalized_local_submission_for_workspace relies on it.
OneLive ==
  /\ Cardinality({s \in Subs : Live(s)}) <= 1
  /\ \A s \in Subs : subs[s].state = "queued" <=> items[s].status \in {"ready", "blocked", "landing"}

\* The private ref of an item is its exact commit, and the staging ref is gone, wherever the submit was interrupted
\* and by whichever process it was finished.
RefsExact ==
  \A s \in Subs :
    /\ items[s].status # "none" => subs[s].private = subs[s].commit /\ subs[s].staging = NoCommit
    /\ subs[s].private \in {NoCommit, subs[s].commit}

\* A workspace leaves the disk with no changed files, and with commits that are not integrated only when an operator
\* asked for the removal of the active workspace, or when they were made after HEAD was compared: the files are
\* looked at again before the Rift goes, HEAD is not.
WorkKept ==
  [][rift.at # "absent" /\ rift'.at = "absent"
       => /\ rift.clean
          /\ asked \/ late \/ \E s \in Subs : subs[s].state = "integrated" /\ subs[s].commit = rift.head]_vars

\* A draining repository gets no new item, also from a submit that read the policy before.
DrainedNoItem == [][op = "draining" => \A s \in Subs : items[s].status = "none" => items'[s].status = "none"]_vars

\* The intent can be finished by the same submit: the workspace is as it was recorded, and the replaced item can end.
Resumable(s) ==
  /\ subs[s].state = "creating"
  /\ ws.status \in {"active", "submitted"}
  /\ SubmissionState /\ rift.head = subs[s].commit
  /\ IF subs[s].replaces = 0 THEN ws.status = "active"
     ELSE items[subs[s].replaces].effort /\ items[subs[s].replaces].status \in {"ready", "blocked", "cancelled"}

\* A submit that was interrupted at any point is finished when it is repeated.
SubmitFinishes == \A s \in Subs : Resumable(s) ~> ~Resumable(s)

Makeable == ws.status = "creating" /\ rift.clean /\ IF rift.at = "absent" THEN root = "base" ELSE rift.head = Base

\* A creation that was interrupted is finished when it is repeated.
CreationFinishes == Makeable ~> ~Makeable

\* Nobody changed the workspace of the submission, and no replacement of it is being made.
Untouched(s) ==
  /\ Live(s) /\ Creating = {}
  /\ rift.at = "absent" \/ (SubmissionState /\ rift.head = subs[s].commit)

\* The receipt of a submission can be read again while its item is queued, during cleanup and after removal.
ReceiptReplays == \A s \in Subs : Untouched(s) => Replayed(s)

\* It can be, when no operator asked for a removal.
ReceiptKept == asked \/ ReceiptReplays

\* What a developer relies on, in every interleaving of submit, remove and the queue.
Exact == [](TypeOK /\ OneLive /\ RefsExact /\ ReceiptKept) /\ WorkKept /\ DrainedNoItem

\* An incomplete intent can be resumed: its workspace is still there to submit from.
IntentResumes == \A s \in Creating : ws.status \in {"active", "submitted"}

\* A removal an operator asked for can be repeated while the Rift exists and no item of the workspace is integrated.
RemovalResumes ==
  ws.status = "cleanup_pending" /\ asked /\ guard = None /\ rift.at # "absent"
      /\ (\A s \in Subs : subs[s].state # "integrated")
    => Removable(ws)

\* The Rift of a workspace that is being created is at the recorded target.
CreationResumes == ws.status = "creating" /\ rift.at # "absent" => rift.head = Base

\* A replacement that is being made can be finished: the item it replaces is cancelled, or can be.
ReplacementResumes == \A s \in Creating : subs[s].replaces # 0 => items[subs[s].replaces].effort
=============================================================================
