--------------------------- MODULE StateProjection ---------------------------
(***************************************************************************)
(* The issue a queue item is projected to and answered through             *)
(* (src/src/state_repository.rs, the issue adapters at the end of          *)
(* src/src/lib.rs, the projection and receipt operations of                *)
(* src/src/control_store.rs and the daemon's cycle in src/src/main.rs).    *)
(*                                                                         *)
(* One item with its effort, its durable events (log, one kind per event)  *)
(* and its rows: binding and reservation, artifact, projection debt,       *)
(* comment receipts.  The provider's issues are external.  Two processes   *)
(* use them: the daemon, which in every cycle reserves, ingests answers,   *)
(* projects, integrates and projects again, and the command that admitted  *)
(* the item, which reserves the issue by itself when it is Cli.  Every     *)
(* provider command may fail, with or without its effect (the answer of a  *)
(* command is lost when the process fails at the step after it), and a     *)
(* process may die between any two steps.                                  *)
(***************************************************************************)
EXTENDS Integers, Sequences, FiniteSets, SequencesExt

CONSTANTS
    Setups,    \* what a behaviour may be about, see Setup
    DebtLimit  \* projection attempts before the debt is exhausted (10)

\* The issue's visibility, full or minimal, and whether the admitting command still runs when the daemon sees the
\* item; bounds on the events of the effort's own transitions, on failed commands and deaths, and on comments.
Setup == [full : BOOLEAN, cli : BOOLEAN, events : Nat, faults : Nat, comments : Nat]

ConstantsOK == Setups \subseteq Setup /\ DebtLimit \in Nat \ {0}

VARIABLES
    setup,    \* what the behaviour is about; it never changes
    st,       \* state of the effort; "none" before it and "dropped" when the item ends without one
    req,      \* number of the last guidance or review request
    log,      \* kinds of the effort's durable events, in sequence order
    binding,  \* reservation_state of the item's binding
    row,      \* issue of the reservation row, 0 for none
    art,      \* state_repository_artifacts row of the effort, issue 0 for none
    debt,     \* attempts of the projection debt, 0 for none
    due,      \* the debt may be retried; of an exhausted one: it is old enough to alert
    alerted,  \* projection_debt_alerts has the effort
    issues,   \* external: the issues that carry the item's marker
    posted,   \* external: comments of responders, in order
    receipt,  \* disposition of each posted comment, "" before it is processed
    phase,    \* where the daemon is in its cycle
    p,        \* what each process knows in the midst of a reservation, projection or ingestion
    faults    \* failures so far

vars == <<st, req, log, binding, row, art, debt, due, alerted, issues, posted, receipt, phase, p, faults>>

Terminal == {"integrated", "cancelled"}
EventKinds == {"step", "alert", "integrated", "debt", "resumed", "cancelled"}
States == {"none", "dropped", "running", "blocked", "guidance", "review"} \cup Terminal
Blockers == {"blocked", "guidance"}
Procs == {"daemon", "cli"}
Idle == [pc |-> "idle", snap |-> "none", issue |-> 0, todo |-> {}, upto |-> 0]
NoArt == [issue |-> 0, last |-> 0, state |-> "none"]
Phases == <<"outbox", "ingest", "first", "alert", "work", "second">>

\* The phase after the current one; the cycle repeats.
NextPhase == LET i == CHOOSE j \in DOMAIN Phases : Phases[j] = phase
             IN  Phases[(i % Len(Phases)) + 1]

\* What minimal visibility makes a comment of.
Relevant(kind) == setup.full \/ kind \notin {"step", "debt"}

Init ==
    /\ setup \in Setups
    /\ st = "none" /\ req = 0 /\ log = <<>>
    /\ binding = IF setup.full THEN "pending" ELSE "none"
    /\ row = 0 /\ art = NoArt
    /\ debt = 0 /\ due = FALSE /\ alerted = FALSE
    /\ issues = <<>> /\ posted = <<>> /\ receipt = <<>>
    /\ phase = "outbox"
    /\ p = [x \in Procs |-> IF x = "cli" /\ ~setup.cli THEN [Idle EXCEPT !.pc = "ended"] ELSE Idle]
    /\ faults = 0

effort == <<st, req, log>>
rows == <<binding, row, art, debt, due, alerted>>
remote == <<issues, posted, receipt>>

----------------------------------------------------------------------------
(* One reservation or projection: search or view, create or edit, comment,  *)
(* close, record.                                                           *)

Reserving(x) == p[x].snap = "enqueued"

\* A finished piece of work: the daemon goes on to its next phase, the command ends.
Leave(x) ==
    /\ p' = [p EXCEPT ![x] = IF x = "cli" THEN [Idle EXCEPT !.pc = "ended"] ELSE Idle]
    /\ phase' = IF x = "daemon" THEN NextPhase ELSE phase

\* reserve_full_issue up to the search: a reservation row is enough.
StartReserve(x) ==
    /\ p[x].pc = "idle"
    /\ x = "daemon" => phase = "outbox" /\ binding = "pending"
    /\ row = 0
    /\ p' = [p EXCEPT ![x] = [Idle EXCEPT !.pc = "locate", !.snap = "enqueued", !.todo = {0}]]
    /\ UNCHANGED <<effort, rows, remote, phase, faults>>

\* The admitting command finds the reservation done.
ReserveDone ==
    /\ p["cli"].pc = "idle" /\ row # 0
    /\ Leave("cli")
    /\ UNCHANGED <<effort, rows, remote, faults>>

\* The markers that are missing from an issue.
Missing(i, todo) == todo \ Range(issues[i].notes)

\* The issue the adapter works on: the stored one, otherwise the one the search finds.
Found(x) == IF p[x].issue # 0 THEN {p[x].issue} ELSE DOMAIN issues

\* Search, and view of what was found; several issues with the marker are an error.
Locate(x) ==
    /\ p[x].pc = "locate"
    /\ Cardinality(Found(x)) <= 1
    /\ \/ Found(x) = {} /\ p' = [p EXCEPT ![x].pc = "create"]
       \/ \E i \in Found(x) : p' = [p EXCEPT ![x].pc = "edit", ![x].issue = i, ![x].todo = Missing(i, @)]
    /\ UNCHANGED <<effort, rows, remote, phase, faults>>

Create(x) ==
    /\ p[x].pc = "create"
    /\ issues' = Append(issues, [open |-> TRUE, body |-> p[x].snap, notes |-> <<>>])
    /\ p' = [p EXCEPT ![x].pc = "comment", ![x].issue = Len(issues) + 1]
    /\ UNCHANGED <<effort, rows, posted, receipt, phase, faults>>

Edit(x) ==
    /\ p[x].pc = "edit"
    /\ issues' = [issues EXCEPT ![p[x].issue].body = p[x].snap]
    /\ p' = [p EXCEPT ![x].pc = "comment"]
    /\ UNCHANGED <<effort, rows, posted, receipt, phase, faults>>

\* What is written or read next, in sequence order.
Oldest(todo) == {e \in todo : \A f \in todo : e <= f}

Comment(x) ==
    /\ p[x].pc = "comment"
    /\ \E e \in Oldest(p[x].todo) :
          /\ issues' = [issues EXCEPT ![p[x].issue].notes = Append(@, e)]
          /\ p' = [p EXCEPT ![x].todo = @ \ {e}]
    /\ UNCHANGED <<effort, rows, posted, receipt, phase, faults>>

\* After the last comment a terminal effort's issue is closed.
Commented(x) ==
    /\ p[x].pc = "comment" /\ p[x].todo = {}
    /\ p' = [p EXCEPT ![x].pc = IF p[x].snap \in Terminal THEN "close" ELSE "record"]
    /\ UNCHANGED <<effort, rows, remote, phase, faults>>

Close(x) ==
    /\ p[x].pc = "close"
    /\ issues' = [issues EXCEPT ![p[x].issue].open = FALSE]
    /\ p' = [p EXCEPT ![x].pc = "record"]
    /\ UNCHANGED <<effort, rows, posted, receipt, phase, faults>>

\* record_item_repository_reservation: only a pending reservation takes a result.
RecordReserved(x) ==
    /\ p[x].pc = "record" /\ Reserving(x)
    /\ IF binding = "pending"
       THEN /\ binding' = "reserved" /\ row' = p[x].issue
       ELSE UNCHANGED <<binding, row>>
    /\ Leave(x)
    /\ UNCHANGED <<effort, art, debt, due, alerted, remote, faults>>

\* Mutant of Upto: the row takes the last event there is now, not the last one that was read.
UptoNow(x) == Len(log)

\* The sequence the artifact row is advanced to.
Upto(x) == p[x].upto

\* record_repository_projection: the issue of a row never changes.
RecordProjected(x) ==
    /\ p[x].pc = "record" /\ ~Reserving(x)
    /\ art' = [issue |-> p[x].issue, last |-> Upto(x),
               state |-> IF p[x].snap \in Terminal THEN "closed" ELSE "active"]
    /\ debt' = 0 /\ due' = FALSE
    /\ Leave(x)
    /\ UNCHANGED <<effort, binding, row, alerted, remote, faults>>

----------------------------------------------------------------------------
(* Selection and reading.                                                   *)

\* projection_items
Selected ==
    /\ st \notin {"none", "dropped"}
    /\ \/ /\ debt = 0
          /\ \/ art.issue = 0 /\ (setup.full \/ st \in Blockers \cup {"review"})
             \/ /\ art.issue # 0
                /\ \E i \in (art.last + 1)..Len(log) : Relevant(log[i]) \/ st \in Terminal
             \/ st \in Terminal /\ art.issue # 0 /\ art.state # "closed"
       \/ debt \in 1..(DebtLimit - 1) /\ due

\* project_item reads the effort first.
ReadEffort ==
    /\ phase \in {"first", "second"} /\ p["daemon"].pc = "idle" /\ Selected
    /\ p' = [p EXCEPT !["daemon"] = [Idle EXCEPT !.pc = "read", !.snap = st]]
    /\ UNCHANGED <<effort, rows, remote, phase, faults>>

\* Then the artifact and the events after it.  Minimal visibility projects nothing while nothing asks for
\* attention and no issue exists, or when no event is relevant: the debt and the artifact stay as they are.
ReadEvents ==
    LET new == {e \in (art.last + 1)..Len(log) : Relevant(log[e])}
        quiet == ~setup.full /\ \/ p["daemon"].snap \notin Blockers \cup {"review"} /\ art.issue = 0
                                \/ new = {}
    IN  /\ p["daemon"].pc = "read"
        /\ IF quiet
           THEN Leave("daemon")
           ELSE /\ p' = [p EXCEPT !["daemon"] = [@ EXCEPT !.pc = "locate", !.issue = art.issue,
                                                         !.todo = new, !.upto = Len(log)]]
                /\ UNCHANGED phase
        /\ UNCHANGED <<effort, rows, remote, faults>>

\* A phase with nothing to do.
Skip ==
    /\ p["daemon"].pc = "idle"
    /\ \/ phase = "outbox" /\ binding # "pending"
       \/ phase \in {"first", "second"} /\ ~Selected
       \/ phase = "ingest" /\ (st \in {"none", "dropped"} \cup Terminal \/ art.issue = 0)
       \/ phase = "alert" /\ ~(debt = DebtLimit /\ due /\ ~alerted)
       \/ phase = "work"
    /\ phase' = NextPhase
    /\ UNCHANGED <<effort, rows, remote, p, faults>>

----------------------------------------------------------------------------
(* Failures.                                                                *)

\* record_projection_debt, with its event.  A failed reservation ends the cycle.
Failed(x) ==
    /\ p' = [p EXCEPT ![x] = IF x = "cli" THEN [Idle EXCEPT !.pc = "ended"] ELSE Idle]
    /\ IF Reserving(x)
       THEN /\ phase' = IF x = "daemon" THEN "outbox" ELSE phase
            /\ UNCHANGED <<log, debt, due>>
       ELSE /\ phase' = NextPhase
            /\ debt' = IF debt < DebtLimit THEN debt + 1 ELSE debt
            /\ due' = FALSE
            /\ log' = Append(log, "debt")

External == {"locate", "create", "edit", "comment", "close"}

\* A provider command fails, or its answer is lost.
Fail(x) ==
    /\ p[x].pc \in External
    /\ faults < setup.faults /\ faults' = faults + 1
    /\ Failed(x)
    /\ UNCHANGED <<st, req, binding, row, art, alerted, remote>>

\* Several issues carry the marker.
Ambiguous(x) ==
    /\ p[x].pc = "locate" /\ Cardinality(Found(x)) > 1
    /\ Failed(x)
    /\ UNCHANGED <<st, req, binding, row, art, alerted, remote, faults>>

\* The process dies; the daemon is started again.
Crash(x) ==
    /\ p[x].pc \notin {"idle", "ended"}
    /\ faults < setup.faults /\ faults' = faults + 1
    /\ p' = [p EXCEPT ![x] = IF x = "cli" THEN [Idle EXCEPT !.pc = "ended"] ELSE Idle]
    /\ phase' = IF x = "daemon" THEN "outbox" ELSE phase
    /\ UNCHANGED <<effort, rows, remote>>

\* Time passes: the backoff of a debt, and the age an exhausted one is reported at.
Tick ==
    /\ debt > 0 /\ ~due
    /\ due' = TRUE
    /\ UNCHANGED <<effort, binding, row, art, debt, alerted, remote, phase, p, faults>>

\* Mutant of Exhausted: an exhausted debt is one past the bound.
ExhaustedPast == debt > DebtLimit

Exhausted == debt >= DebtLimit

\* alert_exhausted_projection_debt
Alert ==
    /\ phase = "alert" /\ p["daemon"].pc = "idle"
    /\ Exhausted /\ due /\ ~alerted
    /\ alerted' = TRUE
    /\ log' = Append(log, "alert")
    /\ phase' = NextPhase
    /\ UNCHANGED <<st, req, binding, row, art, debt, due, remote, p, faults>>

----------------------------------------------------------------------------
(* Comments of responders.                                                  *)

\* A responder answers or reviews the request it sees, twice or late for all the provider knows.
Post(kind, r, who) ==
    /\ Len(posted) < setup.comments /\ art.issue # 0 /\ r \in 1..req
    /\ posted' = Append(posted, [kind |-> kind, req |-> r, who |-> who])
    /\ receipt' = Append(receipt, "")
    /\ UNCHANGED <<effort, rows, issues, phase, p, faults>>

\* The comments of the issue that are not IQ's own.
Responses == DOMAIN posted

\* A comment with a receipt is not read again.
Unseen(i) == receipt[i] = ""

WithReceipt(i, d) == [receipt EXCEPT ![i] = d]

\* ingest_answers reads the comments that have no receipt.
Fetch ==
    /\ phase = "ingest" /\ p["daemon"].pc = "idle"
    /\ st \notin {"none", "dropped"} \cup Terminal /\ art.issue # 0
    /\ p' = [p EXCEPT !["daemon"] = [Idle EXCEPT !.pc = "ingest",
                                                  !.todo = {i \in Responses : Unseen(i)}]]
    /\ UNCHANGED <<effort, rows, remote, phase, faults>>

Waits(kind) == IF kind = "answer" THEN "guidance" ELSE "review"

\* answer_for_effort and review_candidate_for_effort: the request must be the open one now.
Disposition(c) ==
    IF c.who # "allowed" THEN "unauthorized"
    ELSE IF c.kind = "malformed" THEN "malformed"
    ELSE IF st = Waits(c.kind) /\ c.req = req THEN "applied" ELSE "stale"

\* One comment: its receipt and, when applied, the transition, in one transaction.
Ingest ==
    /\ p["daemon"].pc = "ingest"
    /\ \E i \in Oldest(p["daemon"].todo) :
          LET d == Disposition(posted[i])
          IN  /\ receipt' = WithReceipt(i, d)
              /\ st' = IF d = "applied" THEN "running" ELSE st
              /\ log' = IF d = "applied" THEN Append(log, "resumed") ELSE log
              /\ p' = [p EXCEPT !["daemon"].todo = @ \ {i}]
    /\ UNCHANGED <<req, rows, issues, posted, phase, faults>>

Ingested ==
    /\ p["daemon"].pc = "ingest" /\ p["daemon"].todo = {}
    /\ Leave("daemon")
    /\ UNCHANGED <<effort, rows, remote, faults>>

----------------------------------------------------------------------------
(* The effort's own life: the daemon's work, the operator's cancellation     *)
(* and retry from other processes and threads.                              *)

Move(to, kind) ==
    /\ Len(log) < setup.events
    /\ st' = to
    /\ log' = Append(log, kind)

\* create_effort: the reservation becomes the artifact.
CreateEffort ==
    /\ phase = "work" /\ p["daemon"].pc = "idle" /\ st = "none"
    /\ Move("running", "step")
    /\ art' = IF row = 0 THEN NoArt ELSE [issue |-> row, last |-> 0, state |-> "reserved"]
    /\ row' = 0
    /\ phase' = NextPhase
    /\ UNCHANGED <<req, binding, debt, due, alerted, remote, p, faults>>

\* run_once: a step, a blocker, a request, or the end.
Work ==
    /\ phase = "work" /\ p["daemon"].pc = "idle" /\ st = "running"
    /\ \/ Move("running", "step") /\ UNCHANGED req
       \/ Move("blocked", "alert") /\ UNCHANGED req
       \/ \E to \in {"guidance", "review"} : Move(to, "alert") /\ req' = req + 1
       \/ Move("integrated", "integrated") /\ UNCHANGED req
    /\ phase' = NextPhase
    /\ UNCHANGED <<rows, remote, p, faults>>

Cancel ==
    /\ st \notin Terminal \cup {"dropped"}
    /\ IF st = "none" THEN st' = "dropped" /\ UNCHANGED log
                      ELSE st' = "cancelled" /\ log' = Append(log, "cancelled")
    /\ UNCHANGED <<req, rows, remote, phase, p, faults>>

Retry ==
    /\ st = "blocked" /\ Move("running", "resumed")
    /\ UNCHANGED <<req, rows, remote, phase, p, faults>>

----------------------------------------------------------------------------
Sync(x) ==
    \/ StartReserve(x) \/ Locate(x) \/ Create(x) \/ Edit(x) \/ Comment(x) \/ Commented(x)
    \/ Close(x) \/ RecordReserved(x) \/ RecordProjected(x) \/ Ambiguous(x)

Daemon == Sync("daemon") \/ ReadEffort \/ ReadEvents \/ Skip \/ Alert \/ Fetch \/ Ingest \/ Ingested

Next ==
    \/ Daemon
    \/ Sync("cli") \/ ReserveDone
    \/ CreateEffort \/ Work \/ Cancel \/ Retry
    \/ \E x \in Procs : Fail(x) \/ Crash(x)
    \/ Tick
    \/ \E kind \in {"answer", "review", "malformed"}, r \in 1..req, who \in {"allowed", "other"} :
          Post(kind, r, who)

\* The daemon runs and time passes; nothing is assumed of the command, the operator or the responders.
Spec == Init /\ [][Next]_vars /\ [][FALSE]_setup /\ WF_vars(Daemon) /\ WF_vars(Tick)

----------------------------------------------------------------------------
(* Properties.                                                              *)

\* Rows, issues and the processes' knowledge have their types; an artifact names an existing issue and is
\* never ahead of the log.
TypeOK ==
    /\ st \in States /\ req \in Nat /\ log \in Seq(EventKinds)
    /\ binding \in {"none", "pending", "reserved"} /\ row \in 0..Len(issues)
    /\ art.issue \in 0..Len(issues) /\ art.last \in 0..Len(log)
    /\ art.state \in {"none", "reserved", "active", "closed"}
    /\ debt \in 0..DebtLimit /\ due \in BOOLEAN /\ alerted \in BOOLEAN
    /\ Len(posted) = Len(receipt)
    /\ phase \in Range(Phases) /\ faults \in 0..setup.faults
    /\ \A x \in Procs : p[x].issue \in 0..Len(issues)

\* One issue per item: a lost answer to the creation and a death after it never lead to a second issue.
OneIssue == Len(issues) <= 1

\* An event is commented at most once, however often its projection fails halfway and is repeated.
CommentOnce == \A i \in DOMAIN issues : IsInjective(issues[i].notes)

\* Nothing is skipped: every relevant event the artifact row has passed is on its issue.
ProjectedAll ==
    \A e \in 1..art.last : Relevant(log[e]) => e \in Range(issues[art.issue].notes)

\* A row that says closed belongs to a closed issue that shows the effort's final state.
ClosedIsFinal ==
    art.state = "closed" => /\ st \in Terminal
                            /\ ~issues[art.issue].open
                            /\ issues[art.issue].body = st

\* No request is answered twice, by repeated comments or by one that is read late.
AppliedOnce ==
    \A i, j \in DOMAIN posted :
        receipt[i] = "applied" /\ receipt[j] = "applied" /\ posted[i].req = posted[j].req => i = j

\* The issue says what the rows say it says.
Exact == OneIssue /\ CommentOnce /\ ProjectedAll /\ ClosedIsFinal /\ AppliedOnce

\* The issue of an effort that ended is closed in the end, or the exhausted projection debt is alerted.
Ended == st \in Terminal /\ art.issue # 0
TerminalSettles == Ended ~> (art.state = "closed" \/ alerted)

\* The same for an integrated effort, whose last events the daemon's own thread appends.
Integrated == st = "integrated" /\ art.issue # 0
IntegratedSettles == Integrated ~> (art.state = "closed" \/ alerted)

\* The issue of an item that was cancelled before its effort began is closed.
Dropped == st = "dropped" /\ binding = "reserved"
DroppedCloses == Dropped ~> (\A i \in DOMAIN issues : ~issues[i].open)
=============================================================================
