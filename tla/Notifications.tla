--------------------------- MODULE Notifications ---------------------------
(***************************************************************************)
(* Delivery of alert events to the notification backends                   *)
(* (src/src/notifications.rs): the daemon, "iq notify dispatch" and        *)
(* "iq notify redeliver" share the delivery rows of the database; a        *)
(* dispatcher claims a row, runs the backend command and stores the        *)
(* outcome in three transactions, and any of them may die in between.      *)
(*                                                                         *)
(* Abstractions.                                                           *)
(*  - A claim id is the process that made it: a process has one claim at a *)
(*    time and forgets it when it stops.                                   *)
(*  - Times are two flags: the age of the event is over the limit (old),   *)
(*    and the next attempt of a delivery is due.  Among due deliveries any *)
(*    may come first.                                                      *)
(***************************************************************************)
EXTENDS Integers, Sequences, FiniteSets

CONSTANTS
  Commands,      \* "iq notify dispatch" processes
  Daemon,        \* the one daemon
  Backends,      \* wslg and windows
  MaxEvents,     \* bound on alert events
  MaxAttempts,   \* max_attempts of the configuration
  MaxRedeliver,  \* bound on deliveries an operator asks for
  MaxStops,      \* bound on processes that die
  Configs,       \* the sets of backends a configuration file names
  None

\* What the configuration guarantees: a delivery has an attempt, and a configuration
\* names backends there are.
ConstantsOK ==
  /\ MaxAttempts \in Nat \ {0} /\ MaxEvents \in Nat /\ MaxRedeliver \in Nat /\ MaxStops \in Nat
  /\ IsFiniteSet(Backends) /\ Configs \subseteq SUBSET Backends
  /\ None \notin Commands \cup {Daemon}

VARIABLES
  enabled,     \* notification_backends.enabled
  old,         \* age of every event is over max_event_age_seconds
  deliveries,  \* notification_deliveries, in the order of their ids
  purged,      \* events deleted with their items
  procs,       \* the processes
  starts,      \* per delivery: commands started (history)
  shown,       \* per delivery: commands that succeeded (history)
  redelivered, stops

vars == <<enabled, old, deliveries, purged, procs, starts, shown, redelivered, stops>>

MaxRows == MaxEvents * Cardinality(Backends) + MaxRedeliver
Procs == Commands \cup {Daemon}
Open == {"pending", "claimed", "running"}
Settled == {"delivered", "delivery_unknown", "failed", "expired"}

Delivery == [event : 1..MaxEvents, backend : Backends, state : Open \cup Settled,
             claim : Procs \cup {None}, attempts : 0..MaxAttempts, due : BOOLEAN, of : 0..MaxRows]

Proc == [pc : {"off", "idle", "claimed", "started", "succeeded", "refused"}, config : SUBSET Backends,
         row : 0..MaxRows]

Off == [pc |-> "off", config |-> {}, row |-> 0]

Init ==
  /\ enabled = {}
  /\ old = <<>>
  /\ deliveries = <<>>
  /\ purged = {}
  /\ procs = [p \in Procs |-> Off]
  /\ starts = <<>> /\ shown = <<>>
  /\ redelivered = 0 /\ stops = 0

Rows == DOMAIN deliveries
Live == {d \in Rows : deliveries[d].event \notin purged}
At(p, pc) == procs[p].pc = pc
Goto(p, pc) == procs' = [procs EXCEPT ![p].pc = pc]
Idle(p) == procs' = [procs EXCEPT ![p] = [pc |-> "idle", config |-> @.config, row |-> 0]]

Fresh(e, b, of) ==
  [event |-> e, backend |-> b, state |-> "pending", claim |-> None, attempts |-> 0, due |-> TRUE, of |-> of]

-----------------------------------------------------------------------------
(* Events *)

\* A sequence with the elements of a set of backends: one row per enabled backend.
RowsFor(e, bs) ==
  LET n == Cardinality(bs)
      order == CHOOSE f \in [1..n -> bs] : \A b \in bs : \E i \in 1..n : f[i] = b
  IN  [i \in 1..n |-> Fresh(e, order[i], 0)]

\* append_event, append_event_raw with alert: the event and a delivery for every
\* enabled backend, in the transaction of the transition it is about.
Alert ==
  /\ Len(old) < MaxEvents
  /\ old' = Append(old, FALSE)
  /\ deliveries' = deliveries \o RowsFor(Len(old) + 1, enabled)
  /\ starts' = starts \o [i \in 1..Cardinality(enabled) |-> 0]
  /\ shown' = shown \o [i \in 1..Cardinality(enabled) |-> 0]
  /\ UNCHANGED <<enabled, purged, procs, redelivered, stops>>

\* purge_terminal_item: the purge guard asks for deliveries that are over.
Purge(e) ==
  /\ e \in DOMAIN old \ purged
  /\ \A d \in Rows : deliveries[d].event = e => deliveries[d].state \in {"delivered", "failed", "expired"}
  /\ purged' = purged \cup {e}
  /\ UNCHANGED <<enabled, old, deliveries, procs, starts, shown, redelivered, stops>>

Age(e) ==
  /\ e \in DOMAIN old /\ ~old[e]
  /\ old' = [old EXCEPT ![e] = TRUE]
  /\ UNCHANGED <<enabled, deliveries, purged, procs, starts, shown, redelivered, stops>>

\* The backoff of a failed attempt is over.
Due(d) ==
  /\ d \in Live /\ deliveries[d].state = "pending" /\ ~deliveries[d].due
  /\ deliveries' = [deliveries EXCEPT ![d].due = TRUE]
  /\ UNCHANGED <<enabled, old, purged, procs, starts, shown, redelivered, stops>>

-----------------------------------------------------------------------------
(* Processes *)

\* Mutant of AfterRestart: a command that was running is tried again.
AfterRestartRetry(row) ==
  IF row.state \in {"claimed", "running"} THEN [row EXCEPT !.state = "pending", !.claim = None] ELSE row

\* Mutant of AfterRestart: a claim that had not started is left.
AfterRestartStarted(row) ==
  IF row.state = "running" THEN [row EXCEPT !.state = "delivery_unknown", !.claim = None] ELSE row

\* mark_started_unknown_after_restart: a claim that had not started is taken back, a
\* command that had is of unknown outcome.
AfterRestart(row) ==
  CASE row.state = "claimed" -> [row EXCEPT !.state = "pending", !.claim = None]
    [] row.state = "running" -> [row EXCEPT !.state = "delivery_unknown", !.claim = None]
    [] OTHER -> row

\* run_daemon_config: the configuration is read, the backends are registered, and the
\* deliveries of the daemon before are settled.  Commands may be at work meanwhile.
StartDaemon(config) ==
  /\ At(Daemon, "off")
  /\ enabled' = config
  /\ deliveries' = [d \in Rows |-> AfterRestart(deliveries[d])]
  /\ procs' = [procs EXCEPT ![Daemon] = [pc |-> "idle", config |-> config, row |-> 0]]
  /\ UNCHANGED <<old, purged, starts, shown, redelivered, stops>>

StartCommand(p, config) ==
  /\ p \in Commands /\ At(p, "off")
  /\ procs' = [procs EXCEPT ![p] = [pc |-> "idle", config |-> config, row |-> 0]]
  /\ UNCHANGED <<enabled, old, deliveries, purged, starts, shown, redelivered, stops>>

\* dispatch_once, first transactions: register_backends and claim_next.
Claim(p, d) ==
  /\ At(p, "idle")
  /\ d \in Live
  /\ deliveries[d].state = "pending" /\ deliveries[d].due
  /\ enabled' = procs[p].config
  /\ deliveries' = [deliveries EXCEPT ![d].state = "claimed", ![d].claim = p]
  /\ procs' = [procs EXCEPT ![p].pc = "claimed", ![p].row = d]
  /\ UNCHANGED <<old, purged, starts, shown, redelivered, stops>>

Row(p) == deliveries[procs[p].row]

\* set_delivery_state: the state expected and the claim are compared.
Owned(p, state) == Row(p).state = state /\ Row(p).claim = p

Put(p, state, attempts, due) ==
  deliveries' = [deliveries EXCEPT ![procs[p].row] =
                   [@ EXCEPT !.state = state, !.claim = None, !.attempts = attempts, !.due = due]]

\* An event that is too old is expired, before the backend is looked up.
Expire(p) ==
  /\ At(p, "claimed")
  /\ old[Row(p).event]
  /\ IF Owned(p, "claimed") THEN Put(p, "expired", Row(p).attempts, FALSE) ELSE UNCHANGED deliveries
  /\ Idle(p)
  /\ UNCHANGED <<enabled, old, purged, starts, shown, redelivered, stops>>

\* "pending delivery backend is not configured": the row stays claimed.
Unconfigured(p) ==
  /\ At(p, "claimed")
  /\ ~old[Row(p).event]
  /\ Row(p).backend \notin procs[p].config
  /\ Idle(p)
  /\ UNCHANGED <<enabled, old, deliveries, purged, starts, shown, redelivered, stops>>

\* mark_command_started, then the command runs.
Begin(p) ==
  /\ At(p, "claimed")
  /\ ~old[Row(p).event]
  /\ Row(p).backend \in procs[p].config
  /\ IF Owned(p, "claimed")
       THEN /\ deliveries' = [deliveries EXCEPT ![procs[p].row].state = "running"]
            /\ starts' = [starts EXCEPT ![procs[p].row] = @ + 1]
            /\ Goto(p, "started")
       ELSE Idle(p) /\ UNCHANGED <<deliveries, starts>>
  /\ UNCHANGED <<enabled, old, purged, shown, redelivered, stops>>

\* run_backend ends; the alert was shown, or the backend failed.
RunBackend(p, ok) ==
  /\ At(p, "started")
  /\ shown' = IF ok THEN [shown EXCEPT ![procs[p].row] = @ + 1] ELSE shown
  /\ Goto(p, IF ok THEN "succeeded" ELSE "refused")
  /\ UNCHANGED <<enabled, old, deliveries, purged, starts, redelivered, stops>>

\* dispatch_once, last transaction.
Record(p) ==
  /\ procs[p].pc \in {"succeeded", "refused"}
  /\ LET attempts == Row(p).attempts + 1
     IN  IF ~Owned(p, "running") THEN UNCHANGED deliveries
         ELSE IF At(p, "succeeded") THEN Put(p, "delivered", attempts, FALSE)
         ELSE IF attempts < MaxAttempts THEN Put(p, "pending", attempts, FALSE)
         ELSE Put(p, "failed", attempts, FALSE)
  /\ Idle(p)
  /\ UNCHANGED <<enabled, old, purged, starts, shown, redelivered, stops>>

\* A command handles one delivery and ends.
EndCommand(p) ==
  /\ p \in Commands /\ At(p, "idle")
  /\ procs' = [procs EXCEPT ![p] = Off]
  /\ UNCHANGED <<enabled, old, deliveries, purged, starts, shown, redelivered, stops>>

\* A process dies at any point.
Stop(p) ==
  /\ ~At(p, "off")
  /\ stops < MaxStops
  /\ stops' = stops + 1
  /\ procs' = [procs EXCEPT ![p] = Off]
  /\ UNCHANGED <<enabled, old, deliveries, purged, starts, shown, redelivered>>

\* redeliver: a row of its own, attributed and linked, once for each row.
Redeliver(d) ==
  /\ d \in Live
  /\ redelivered < MaxRedeliver
  /\ deliveries[d].state \in {"delivery_unknown", "failed", "expired"}
  /\ ~\E r \in Rows : deliveries[r].of = d
  /\ deliveries' = Append(deliveries, Fresh(deliveries[d].event, deliveries[d].backend, d))
  /\ starts' = Append(starts, 0)
  /\ shown' = Append(shown, 0)
  /\ redelivered' = redelivered + 1
  /\ UNCHANGED <<enabled, old, purged, procs, stops>>

\* The steps of a dispatcher.
Dispatch(p) ==
  \/ \E d \in Rows : Claim(p, d)
  \/ Expire(p) \/ Unconfigured(p) \/ Begin(p) \/ Record(p)
  \/ \E ok \in BOOLEAN : RunBackend(p, ok)

Next ==
  \/ Alert
  \/ \E e \in 1..MaxEvents : Purge(e) \/ Age(e)
  \/ \E d \in Rows : Due(d) \/ Redeliver(d)
  \/ \E c \in Configs : StartDaemon(c)
  \/ \E p \in Procs : Dispatch(p) \/ Stop(p) \/ EndCommand(p) \/ \E c \in Configs : StartCommand(p, c)

Spec == Init /\ [][Next]_vars

\* The daemon is started again when it died, dispatches in every cycle of its loop,
\* and time passes.
FairSpec ==
  /\ Spec
  /\ WF_vars(\E c \in Configs : StartDaemon(c))
  /\ WF_vars(Dispatch(Daemon))
  /\ \A e \in 1..MaxEvents : WF_vars(Age(e))
  /\ \A d \in 1..MaxRows : WF_vars(Due(d))

-----------------------------------------------------------------------------
(* Properties *)

\* Types of the rows and the processes; a row has a claim exactly while it is claimed
\* or running (the CHECK of notification_deliveries).
TypeOK ==
  /\ enabled \in SUBSET Backends
  /\ \A d \in Rows : /\ deliveries[d] \in Delivery
                     /\ (deliveries[d].claim # None) = (deliveries[d].state \in {"claimed", "running"})
  /\ procs \in [Procs -> Proc]
  /\ Len(starts) = Len(deliveries) /\ Len(shown) = Len(deliveries)

\* An alert is shown at most once for each delivery, whatever dies and whoever
\* dispatches: a command that may have been seen is never run again by itself.
ShownOnce == \A d \in Rows : shown[d] <= 1

\* The bound on attempts holds over restarts: every command that was started is
\* counted, is running now, or left the delivery unknown.
AttemptsCounted ==
  \A d \in Rows :
    /\ starts[d] <= MaxAttempts
    /\ starts[d] = deliveries[d].attempts + (IF deliveries[d].state \in {"running", "delivery_unknown"} THEN 1 ELSE 0)

\* Two processes never run the command of the same alert for the same backend, the
\* old delivery being unknown excepted.
OneRunner ==
  \A p, q \in Procs :
    p # q /\ procs[p].pc \in {"started", "succeeded", "refused"} /\ procs[q].pc \in {"started", "succeeded", "refused"}
      => procs[p].row # procs[q].row

\* An event has at most one open delivery for each backend, redeliveries included.
OneOpen ==
  \A d, r \in Live :
    /\ deliveries[d].event = deliveries[r].event /\ deliveries[d].backend = deliveries[r].backend
    /\ deliveries[d].state \in Open /\ deliveries[r].state \in Open
    => d = r

\* An item is not purged under a command that may still show its alert.
PurgeWaits ==
  \A p \in Procs : procs[p].pc \in {"started", "succeeded", "refused"} => procs[p].row \in Live

\* What an operator relies on, whatever dies and whoever dispatches.
Exact == TypeOK /\ ShownOnce /\ AttemptsCounted /\ OneRunner /\ OneOpen /\ PurgeWaits

Unsettled(d) == d \in Rows /\ deliveries[d].state \in Open

\* Every delivery is settled in the end when the daemon serves every backend it
\* makes deliveries for: no backoff, restart or refusal leaves one open.
Settles ==
  \A d \in 1..MaxRows : Unsettled(d) ~> ~Unsettled(d)

Aged(d) ==
  d \in Rows /\ old[deliveries[d].event] /\ deliveries[d].state \in {"pending", "claimed"}

\* docs/prd-integration-agent-control-plane.md: "A delivery that exceeds configured
\* event age becomes `expired`": one that waits does not wait for ever.
AgedExpires ==
  \A d \in 1..MaxRows : Aged(d) ~> ~Aged(d)
=============================================================================
