---------------------------- MODULE DaemonStart ----------------------------
(***************************************************************************)
(* How a daemon takes its place (ControlApiServer::bind in                 *)
(* src/src/control_api.rs, run_daemon_config in src/src/main.rs): the      *)
(* exclusive daemon lease, the control socket left by an earlier daemon,   *)
(* the notification deliveries an earlier daemon had started, and the      *)
(* order in which a daemon that fails gives all this up.  Daemons may be   *)
(* started at any time beside each other, with or without --once, and may  *)
(* be killed at any step.  The control server's threads are ControlApi's.  *)
(***************************************************************************)
EXTENDS Integers, FiniteSets

CONSTANTS
    Daemons,  \* places a daemon process may be started in
    None,     \* no daemon
    MaxStarts \* bound: processes started

ConstantsOK == None \notin Daemons /\ MaxStarts \in Nat

VARIABLES
    d,        \* each daemon's step and whether it runs once
    lock,     \* holder of daemon.lock
    sock,     \* the socket path: the daemon whose listener made it, its mode and its making's number
    listens,  \* daemons with an open listener, with the number of the socket they made
    started,  \* daemon that started the notification delivery in flight, or None
    starts    \* processes started

vars == <<d, lock, sock, listens, started, starts>>

Off == [pc |-> "off", once |-> FALSE]
NoSocket == [by |-> None, mode |-> "none", nr |-> 0]

Init ==
    /\ d = [x \in Daemons |-> Off]
    /\ lock = None /\ sock = NoSocket
    /\ listens = [x \in Daemons |-> 0]
    /\ started = None /\ starts = 0

Goto(x, pc) == d' = [d EXCEPT ![x].pc = pc]

\* Opening the database and configuring the notifications leaves started deliveries alone.
Opened == started

StartDaemon(x, once) ==
    /\ d[x].pc = "off" /\ starts < MaxStarts
    /\ d' = [d EXCEPT ![x] = [pc |-> "lease", once |-> once]]
    /\ starts' = starts + 1
    /\ started' = Opened
    /\ UNCHANGED <<lock, sock, listens>>

\* The end of a process: the kernel closes its listener and its lock; the socket file stays.
Exit(x) ==
    /\ d' = [d EXCEPT ![x] = Off]
    /\ lock' = IF lock = x THEN None ELSE lock
    /\ listens' = [listens EXCEPT ![x] = 0]

\* DaemonLease::acquire does not wait: a held lease ends the process.
Acquire(x) ==
    /\ d[x].pc = "lease"
    /\ IF lock = None
       THEN lock' = x /\ Goto(x, "probe") /\ UNCHANGED listens
       ELSE Exit(x)
    /\ UNCHANGED <<sock, started, starts>>

Live == sock.by # None /\ listens[sock.by] = sock.nr

\* remove_stale_socket up to its removal: an unexpected mode or a listener that answers is an error.
Probe(x) ==
    /\ d[x].pc = "probe"
    /\ IF sock = NoSocket \/ (sock.mode = "0600" /\ ~Live)
       THEN Goto(x, "remove") /\ UNCHANGED <<lock, listens>>
       ELSE Exit(x)
    /\ UNCHANGED <<sock, started, starts>>

Remove(x) ==
    /\ d[x].pc = "remove"
    /\ sock' = NoSocket
    /\ Goto(x, "bind")
    /\ UNCHANGED <<lock, listens, started, starts>>

\* UnixListener::bind; the mode is set by the next call.  A path that exists is an error.
Bind(x) ==
    /\ d[x].pc = "bind"
    /\ IF sock = NoSocket
       THEN /\ sock' = [by |-> x, mode |-> "umask", nr |-> starts]
            /\ listens' = [listens EXCEPT ![x] = starts]
            /\ Goto(x, "chmod") /\ UNCHANGED lock
       ELSE Exit(x) /\ UNCHANGED sock
    /\ UNCHANGED <<started, starts>>

Chmod(x) ==
    /\ d[x].pc = "chmod"
    /\ sock' = [sock EXCEPT !.mode = "0600"]
    /\ Goto(x, "mark")
    /\ UNCHANGED <<lock, listens, started, starts>>

\* mark_started_unknown_after_restart
Mark(x) ==
    /\ d[x].pc = "mark"
    /\ started' = None
    /\ Goto(x, "serve")
    /\ UNCHANGED <<lock, sock, listens, starts>>

\* The control server's thread starts; a run with --once closes its listener instead.
Serve(x) ==
    /\ d[x].pc = "serve"
    /\ listens' = [listens EXCEPT ![x] = IF d[x].once THEN 0 ELSE @]
    /\ Goto(x, "running")
    /\ UNCHANGED <<lock, sock, started, starts>>

\* The cycle starts a delivery and records its end.
Deliver(x) ==
    /\ d[x].pc = "running" /\ started = None
    /\ started' = x
    /\ UNCHANGED <<d, lock, sock, listens, starts>>

Delivered(x) ==
    /\ d[x].pc = "running" /\ started = x
    /\ started' = None
    /\ UNCHANGED <<d, lock, sock, listens, starts>>

\* Mutant of Unwind: the lease goes before the control server is joined.
UnwindLeaseFirst(x) ==
    /\ d[x].pc \in {"running", "lifetime"} /\ started # x
    /\ IF d[x].pc = "running"
       THEN lock' = None /\ Goto(x, "lifetime") /\ UNCHANGED listens
       ELSE d' = [d EXCEPT ![x] = Off] /\ listens' = [listens EXCEPT ![x] = 0] /\ UNCHANGED lock
    /\ UNCHANGED <<sock, started, starts>>

\* The loop ends (an error, or once): the server is joined and its listener closed first, then the leases go.
Unwind(x) ==
    /\ d[x].pc \in {"running", "lifetime"} /\ started # x
    /\ IF d[x].pc = "running"
       THEN listens' = [listens EXCEPT ![x] = 0] /\ Goto(x, "lifetime") /\ UNCHANGED lock
       ELSE Exit(x)
    /\ UNCHANGED <<sock, started, starts>>

\* The process is killed.
Kill(x) ==
    /\ d[x].pc # "off"
    /\ Exit(x)
    /\ UNCHANGED <<sock, started, starts>>

Step(x) == Acquire(x) \/ Probe(x) \/ Remove(x) \/ Bind(x) \/ Chmod(x) \/ Mark(x) \/ Serve(x)

Next ==
    \E x \in Daemons :
        \/ \E once \in BOOLEAN : StartDaemon(x, once)
        \/ Step(x) \/ Deliver(x) \/ Delivered(x) \/ Unwind(x) \/ Kill(x)

\* A started process goes on; it need not be started, and its cycle need not end.
Spec == Init /\ [][Next]_vars /\ \A x \in Daemons : WF_vars(Step(x)) /\ WF_vars(Delivered(x))

----------------------------------------------------------------------------
\* Types, and a holder of the lease is a process that took it.
TypeOK ==
    /\ \A x \in Daemons : d[x].pc \in {"off", "lease", "probe", "remove", "bind", "chmod", "mark", "serve",
                                       "running", "lifetime"}
    /\ lock # None => d[lock].pc \notin {"off", "lease"}
    /\ sock.by \in Daemons \cup {None} /\ sock.mode \in {"none", "umask", "0600"}
    /\ started \in Daemons \cup {None} /\ starts \in 0..MaxStarts

\* One server: no two daemons have a listener open or work at the same time.
Busy(x) == listens[x] # 0 \/ d[x].pc \in {"mark", "serve", "running", "lifetime"}
OneDaemon == \A x, y \in Daemons : Busy(x) /\ Busy(y) => x = y

\* The path leads to the daemon that serves: no other process removes or replaces a live daemon's socket.
PathKept == \A x \in Daemons : listens[x] # 0 => sock.by = x /\ sock.nr = listens[x]

\* A delivery is taken for abandoned only when the daemon that started it is gone.
DeliveryKept ==
    [][\A x \in Daemons : started = x /\ d[x].pc = "running" /\ started' # x => Delivered(x)]_vars

\* What the clients and the delivery in flight rely on.
Exact == [](TypeOK /\ OneDaemon /\ PathKept) /\ DeliveryKept

\* A process that holds the lease begins its cycle, unless it is killed or the path holds a socket whose mode
\* was never set.
Taken(x) == lock = x
Begins == \A x \in Daemons :
    Taken(x) ~> (d[x].pc \in {"running", "lifetime", "off"} \/ sock.mode = "umask")

=============================================================================
