----------------------------- MODULE ControlApi -----------------------------
(***************************************************************************)
(* The server of the local control API and its event stream                *)
(* (src/src/control_api.rs), and the daemon's supervision of it            *)
(* (DaemonApiTask in src/src/main.rs).                                     *)
(*                                                                         *)
(* One accept loop, a worker thread per admitted connection and, for a     *)
(* watch, a producer thread that reads the durable events into a bounded   *)
(* queue.  A socket is a buffer of Room frames towards the client; a       *)
(* client may stop reading, in which case a write blocks until its time    *)
(* limit. Clients resume a watch from the cursor of the last frame they    *)
(* read. Requests other than watches are one answered frame.               *)
(***************************************************************************)
EXTENDS Integers, Sequences, FiniteSets, SequencesExt

CONSTANTS
    Clients,     \* one process of a client each, with one connection at a time
    MaxClients,  \* max_concurrent_clients
    QueueBound,  \* frames the queue of a watch holds
    Room,        \* frames a socket buffers
    Limit,       \* events per frame a client asks for
    Oldest,      \* sequence of the oldest retained event
    MaxEvents,   \* bound: sequence of the last event
    Start,       \* cursors clients begin with
    Kinds,       \* what a client may send first: "watch", "call", "bad", "silent"
    MaxConnects, \* bound: connections of a client
    CanStall,    \* clients may stop reading, or go away
    CanFail      \* reading the events may fail

VARIABLES
    last,     \* sequence of the newest durable event
    loop,     \* accept loop: "serving", "joining", "stopped"
    asked,    \* the daemon has sent the shutdown message
    requested,\* ApiShutdown.requested
    streams,  \* ApiShutdown.streams: connections a shutdown will close
    active,   \* permits taken
    failed,   \* first_error of the loop
    daemon,   \* "running", "dropping" (Drop for DaemonApiTask), "ended"
    con,      \* the server's side of each client's connection
    cli       \* the client's side

\* Of the constants.
ConstantsOK ==
    /\ IsFiniteSet(Clients)
    /\ MaxClients \in Nat /\ QueueBound \in Nat /\ Room \in Nat /\ MaxConnects \in Nat
    /\ Limit \in Nat \ {0}
    /\ Oldest \in Nat /\ MaxEvents \in Nat /\ Oldest <= MaxEvents
    /\ Start \subseteq Nat

vars == <<last, loop, asked, requested, streams, active, failed, daemon, con, cli>>

server == <<loop, asked, requested, streams, active, failed, daemon>>

\* Worker: "none", "backlog" (not accepted), "read", "watch", "write" (blocked in a write of frame out),
\* "join" (waiting for the producer), "done"; res is its result, prod its producer, back the backpressure
\* flag, made and sent the producer's and the writer's cursor.
NoCon == [pc |-> "none", kind |-> "none", open |-> FALSE, buf |-> <<>>, out |-> <<>>, queue |-> <<>>,
          prod |-> "none", back |-> FALSE, made |-> 0, sent |-> 0, res |-> "ok"]

Frame(kind, cursor, events) == [kind |-> kind, cursor |-> cursor, events |-> events]

Init ==
    /\ last = Oldest
    /\ loop = "serving" /\ asked = FALSE /\ requested = FALSE
    /\ streams = {} /\ active = 0 /\ failed = FALSE /\ daemon = "running"
    /\ con = [c \in Clients |-> NoCon]
    /\ \E s \in [Clients -> Start] :
          cli = [c \in Clients |-> [from |-> s[c], cursor |-> s[c], got |-> <<>>, reads |-> "yes",
                                    connects |-> 0, end |-> "none"]]

\* Another thread or process appends an event.
AppendEvent ==
    /\ last < MaxEvents
    /\ last' = last + 1
    /\ UNCHANGED <<server, con, cli>>

----------------------------------------------------------------------------
(* Clients.                                                                 *)

Connect(c, kind) ==
    /\ con[c].pc = "none" /\ loop = "serving"
    /\ cli[c].connects < MaxConnects
    /\ con' = [con EXCEPT ![c] = [NoCon EXCEPT !.pc = "backlog", !.kind = kind, !.open = TRUE]]
    /\ cli' = [cli EXCEPT ![c].connects = @ + 1, ![c].reads = "yes", ![c].end = "none"]
    /\ UNCHANGED <<last, server>>

\* watch() reads a frame and keeps its cursor; an error or a typed disconnect ends it.
ReadFrame(c) ==
    LET f == Head(con[c].buf)
    IN  /\ con[c].buf # <<>> /\ cli[c].reads = "yes"
        /\ con' = [con EXCEPT ![c].buf = Tail(@)]
        /\ cli' = [cli EXCEPT ![c].cursor = IF con[c].kind = "watch" /\ f.kind # "refused" THEN f.cursor ELSE @,
                              ![c].got = @ \o f.events,
                              ![c].from = IF f.kind = "cursor_expired" THEN f.cursor ELSE @,
                              ![c].end = IF f.kind = "events" THEN @ ELSE f.kind]
        /\ UNCHANGED <<last, server>>

\* The client stops reading, or its process ends.
Stall(c, how) ==
    /\ CanStall /\ con[c].pc \in {"backlog", "read", "watch", "write"} /\ cli[c].reads = "yes"
    /\ cli' = [cli EXCEPT ![c].reads = how]
    /\ UNCHANGED <<last, server, con>>

\* The client leaves a connection the server has finished with and read what was sent.
Hangup(c) ==
    /\ con[c].pc = "collected" /\ (con[c].buf = <<>> \/ cli[c].reads # "yes")
    /\ con' = [con EXCEPT ![c] = NoCon]
    /\ UNCHANGED <<last, server, cli>>

----------------------------------------------------------------------------
(* Worker threads.                                                          *)

\* A worker's end: an error counts only while no shutdown is requested; the permit and the registration go.
Finish(c, ok) ==
    /\ con' = [con EXCEPT ![c] = [@ EXCEPT !.pc = "done", !.open = FALSE, !.queue = <<>>,
                                           !.res = IF ok \/ requested THEN "ok" ELSE "error"]]
    /\ active' = active - 1
    /\ streams' = streams \ {c}

\* The end of a connection.
End(c, ok) ==
    /\ Finish(c, ok)
    /\ UNCHANGED <<last, loop, asked, requested, failed, daemon, cli>>

CanWrite(c) == Len(con[c].buf) < Room /\ cli[c].reads # "gone" /\ con[c].open

\* write_response: into the buffer, or the worker is held in the write.
Send(c, f, next) ==
    IF CanWrite(c)
    THEN [con[c] EXCEPT !.buf = Append(@, f), !.pc = next,
                        !.sent = IF f.kind = "events" THEN f.cursor ELSE @]
    ELSE [con[c] EXCEPT !.out = <<f>>, !.pc = "write"]

\* After a frame: an event stream goes on, any other frame was the last one.
After(f) == IF f.kind = "events" THEN "watch" ELSE "join"

Write(c, f) ==
    /\ con' = [con EXCEPT ![c] = Send(c, f, After(f))]
    /\ UNCHANGED <<last, server, cli>>

\* A blocked write goes on once the client has read.
Unblock(c) ==
    /\ con[c].pc = "write" /\ CanWrite(c)
    /\ con' = [con EXCEPT ![c] = [Send(c, con[c].out[1], After(con[c].out[1])) EXCEPT !.out = <<>>]]
    /\ UNCHANGED <<last, server, cli>>

\* The write's time limit, a closed peer or a stream that was shut down: the worker leaves with an error.
WriteFails(c) ==
    /\ con[c].pc = "write" /\ ~CanWrite(c)
    /\ con[c].open => cli[c].reads # "yes"
    /\ con' = [con EXCEPT ![c] = [@ EXCEPT !.pc = "join", !.out = <<>>, !.res = "error"]]
    /\ UNCHANGED <<last, server, cli>>

\* The first check of a worker, or its read cut off: the shutdown closes its stream.
SeesShutdown(c) ==
    /\ con[c].pc = "read" /\ requested /\ ~con[c].open
    /\ End(c, TRUE)

\* No frame within client_idle_seconds, one that does not parse, or a version other than 1.
BadRequest(c) ==
    /\ con[c].pc = "read"
    /\ con[c].kind \in {"bad", "silent"}
    /\ End(c, FALSE)

\* Inbox, Show, Answer, Review, Retry: answered, with the error text when refused.
Call(c) ==
    /\ con[c].pc = "read" /\ ~requested /\ con[c].kind = "call"
    /\ Write(c, Frame("response", 0, <<>>))

Expired(cursor) == cursor # 0 /\ cursor + 1 < Oldest

\* A watch whose cursor is older than the retained history.
WatchExpired(c) ==
    /\ con[c].pc = "read" /\ ~requested /\ con[c].kind = "watch"
    /\ Expired(cli[c].cursor)
    /\ Write(c, Frame("cursor_expired", Oldest - 1, <<>>))

\* stream_events starts the producer at the client's cursor.
WatchStart(c) ==
    /\ con[c].pc = "read" /\ ~requested /\ con[c].kind = "watch"
    /\ ~Expired(cli[c].cursor)
    /\ con' = [con EXCEPT ![c] = [@ EXCEPT !.pc = "watch", !.prod = "run",
                                           !.made = cli[c].cursor, !.sent = cli[c].cursor]]
    /\ UNCHANGED <<last, server, cli>>

\* events_after(made, limit)
Batch(c) == LET lo == IF con[c].made < Oldest THEN Oldest ELSE con[c].made + 1
                hi == IF lo + Limit - 1 < last THEN lo + Limit - 1 ELSE last
            IN  [i \in 1..(hi - lo + 1) |-> lo + i - 1]

\* The producer reads a batch and queues it; a full queue raises the flag and ends it.
Produce(c) ==
    LET b == Batch(c)
    IN  /\ con[c].prod = "run" /\ con[c].pc \in {"watch", "write"} /\ ~requested
        /\ b # <<>>
        /\ con' = [con EXCEPT ![c] =
                      IF Len(con[c].queue) < QueueBound
                      THEN [@ EXCEPT !.queue = Append(con[c].queue, Frame("events", Last(b), b)), !.made = Last(b)]
                      ELSE [@ EXCEPT !.back = TRUE, !.prod = "done", !.made = Last(b)]]
        /\ UNCHANGED <<last, server, cli>>

\* events_after fails.
ProducerFails(c) ==
    /\ CanFail
    /\ con[c].prod = "run" /\ con[c].pc \in {"watch", "write"} /\ ~requested
    /\ con' = [con EXCEPT ![c].prod = "failed"]
    /\ UNCHANGED <<last, server, cli>>

\* The producer sees the shutdown, the stop message or the dropped queue.
ProducerStops(c) ==
    /\ con[c].prod = "run"
    /\ requested \/ con[c].pc = "join"
    /\ con' = [con EXCEPT ![c].prod = "done"]
    /\ UNCHANGED <<last, server, cli>>

\* Mutant of Resume: the cursor the producer has reached.
ResumeMade(c) == con[c].made

\* The cursor a typed disconnect carries.
Resume(c) == con[c].sent

\* The writer: shutdown (or a producer that failed, once the queue is empty), then backpressure, then the next frame, then the idle limit.
StopWatch(c) ==
    /\ con[c].pc = "watch"
    /\ requested \/ (con[c].prod = "failed" /\ con[c].queue = <<>> /\ ~con[c].back)
    /\ con' = [con EXCEPT ![c].pc = "join"]
    /\ UNCHANGED <<last, server, cli>>

Disconnect(c) ==
    /\ con[c].pc = "watch" /\ ~requested
    /\ con[c].back \/ (con[c].queue = <<>> /\ con[c].prod = "run")
    /\ Write(c, Frame("disconnect", Resume(c), <<>>))

SendEvents(c) ==
    /\ con[c].pc = "watch" /\ ~requested
    /\ ~con[c].back /\ con[c].queue # <<>>
    /\ con' = [con EXCEPT ![c] = [Send(c, Head(con[c].queue), "watch") EXCEPT !.queue = Tail(@)]]
    /\ UNCHANGED <<last, server, cli>>

\* The producer is joined and the worker ends.
JoinProducer(c) ==
    /\ con[c].pc = "join" /\ con[c].prod # "run"
    /\ End(c, con[c].res = "ok" /\ con[c].prod # "failed")

----------------------------------------------------------------------------
(* The accept loop.                                                         *)

Admits == active < MaxClients

\* ApiShutdown::register
Registered(c) == streams \cup {c}

\* Accept, registration and a permit.  A worker that gave its permit back may not be collected yet.
Accept(c) ==
    /\ loop = "serving" /\ ~failed /\ con[c].pc = "backlog"
    /\ Admits
    /\ active' = active + 1
    /\ streams' = Registered(c)
    /\ con' = [con EXCEPT ![c].pc = "read"]
    /\ UNCHANGED <<last, loop, asked, requested, failed, daemon, cli>>

\* Without a permit the client is told so and its registration dropped; a client that is gone fails the loop.
Refuse(c) ==
    /\ loop = "serving" /\ ~failed /\ con[c].pc = "backlog"
    /\ ~Admits
    /\ con' = [con EXCEPT ![c] = [@ EXCEPT !.pc = "collected", !.open = FALSE,
                                           !.buf = IF CanWrite(c) THEN <<Frame("refused", 0, <<>>)>> ELSE <<>>]]
    /\ failed' = ~CanWrite(c)
    /\ UNCHANGED <<last, loop, asked, requested, streams, active, daemon, cli>>

\* A finished worker is joined; its error is the loop's first error.
Collect(c) ==
    /\ loop \in {"serving", "joining"} /\ con[c].pc = "done"
    /\ con' = [con EXCEPT ![c].pc = "collected"]
    /\ failed' = (failed \/ con[c].res = "error")
    /\ UNCHANGED <<last, loop, asked, requested, streams, active, daemon, cli>>

\* The loop ends: an error, or the daemon's message while no client waits.  Registered streams are shut down,
\* connections nobody accepted are dropped with the listener.
StopServing ==
    /\ loop = "serving"
    /\ failed \/ (asked /\ \A d \in Clients : con[d].pc # "backlog")
    /\ loop' = "joining" /\ requested' = TRUE
    /\ streams' = {}
    /\ con' = [c \in Clients |-> IF con[c].pc = "backlog" THEN [NoCon EXCEPT !.pc = "collected"]
                                     ELSE [con[c] EXCEPT !.open = @ /\ c \notin streams]]
    /\ UNCHANGED <<last, asked, active, failed, daemon, cli>>

\* join_all_workers has joined the last one: serve returns.
Return ==
    /\ loop = "joining"
    /\ \A d \in Clients : con[d].pc \in {"none", "collected"}
    /\ loop' = "stopped"
    /\ UNCHANGED <<last, asked, requested, streams, active, failed, daemon, con, cli>>

----------------------------------------------------------------------------
(* The daemon.                                                              *)

\* Mutant of Check: only a server that returned without an error is noticed.
CheckLoses ==
    /\ daemon = "running" /\ loop = "stopped" /\ ~failed
    /\ daemon' = "ended"
    /\ UNCHANGED <<last, loop, asked, requested, streams, active, failed, con, cli>>

\* check and wait: a server that returned ends the daemon.
Check ==
    /\ daemon = "running" /\ loop = "stopped"
    /\ daemon' = "ended"
    /\ UNCHANGED <<last, loop, asked, requested, streams, active, failed, con, cli>>

\* The daemon's loop fails elsewhere: Drop sends the shutdown message and joins the server.
DaemonFails ==
    /\ daemon = "running"
    /\ daemon' = "dropping" /\ asked' = TRUE
    /\ UNCHANGED <<last, loop, requested, streams, active, failed, con, cli>>

Dropped ==
    /\ daemon = "dropping" /\ loop = "stopped"
    /\ daemon' = "ended"
    /\ UNCHANGED <<last, loop, asked, requested, streams, active, failed, con, cli>>

----------------------------------------------------------------------------
Worker(c) ==
    \/ SeesShutdown(c) \/ BadRequest(c) \/ Call(c) \/ WatchExpired(c) \/ WatchStart(c)
    \/ Unblock(c) \/ WriteFails(c) \/ StopWatch(c) \/ Disconnect(c) \/ SendEvents(c) \/ JoinProducer(c)

Producer(c) == Produce(c) \/ ProducerFails(c) \/ ProducerStops(c)

Loop == StopServing \/ Return \/ \E c \in Clients : Accept(c) \/ Refuse(c) \/ Collect(c)

Daemon == Check \/ Dropped

Next ==
    \/ AppendEvent
    \/ \E c \in Clients :
          \/ Worker(c) \/ Producer(c)
          \/ \E kind \in Kinds : Connect(c, kind)
          \/ ReadFrame(c) \/ Hangup(c) \/ \E how \in {"stalled", "gone"} : Stall(c, how)
    \/ Loop \/ Daemon \/ DaemonFails

\* Every thread of the daemon runs on; clients need not.
Fairness ==
    /\ WF_vars(Loop) /\ WF_vars(Daemon)
    /\ \A c \in Clients : WF_vars(Worker(c)) /\ WF_vars(ProducerStops(c))

Spec == Init /\ [][Next]_vars /\ Fairness

----------------------------------------------------------------------------
(* Properties.                                                              *)

Pcs == {"none", "backlog", "read", "watch", "write", "join", "done", "collected"}
Running == {"read", "watch", "write", "join"}

\* Types; a queue and a buffer stay within their bounds.
TypeOK ==
    /\ last \in Oldest..MaxEvents
    /\ loop \in {"serving", "joining", "stopped"} /\ daemon \in {"running", "dropping", "ended"}
    /\ {asked, requested, failed} \subseteq BOOLEAN
    /\ streams \subseteq Clients /\ active \in 0..MaxClients
    /\ \A c \in Clients : /\ con[c].pc \in Pcs /\ Len(con[c].queue) <= QueueBound
                          /\ Len(con[c].buf) <= Room

\* A permit is held exactly by the running workers: none leaks on an error, a timeout or a shutdown.
PermitsExact == active = Cardinality({c \in Clients : con[c].pc \in Running})

\* Across disconnects, refusals, expired cursors and resumed watches a client has read every event after the
\* cursor it began with exactly once and in order, up to its cursor.
NoGap ==
    \A c \in Clients :
        LET first == IF cli[c].from < Oldest THEN Oldest ELSE cli[c].from + 1
        IN  cli[c].got = [i \in 1..Len(cli[c].got) |-> first + i - 1] /\
            (cli[c].got # <<>> => cli[c].cursor = Last(cli[c].got))

\* When the server has returned no worker runs, no stream is open or registered, and an error of a worker
\* that ended before the shutdown is in its result.
Quiesced ==
    loop = "stopped" =>
        /\ active = 0 /\ streams = {}
        /\ \A c \in Clients : con[c].prod # "run"
        /\ \A c \in Clients : con[c].res = "error" => failed

\* A shutdown reaches every worker: no stream a worker serves is open once it is requested.
CutOff == requested => \A c \in Clients : con[c].pc \in Running => ~con[c].open

\* What the daemon relies on when the server returns, and a client when it resumes.
Exact == PermitsExact /\ Quiesced /\ CutOff /\ NoGap

\* The daemon's end and a failed worker stop the server, whatever its clients do.
Stopping == asked \/ failed
Stops == Stopping ~> (loop = "stopped" /\ daemon = "ended")

\* A stream whose writer is through gives its permit back: the join of the producer does not hang.
Leaving(c) == con[c].pc = "join"
Leaves == \A c \in Clients : Leaving(c) ~> (con[c].pc \notin Running)

\* A watch that ends while the server serves ends with a typed frame, slow clients included.
TypedEnd ==
    \A c \in Clients :
        con[c].kind = "watch" /\ con[c].pc \in {"done", "collected"} /\ ~requested /\ ~failed /\ cli[c].reads # "gone"
            => cli[c].end # "none" \/ \E i \in DOMAIN con[c].buf : con[c].buf[i].kind # "events"
=============================================================================
