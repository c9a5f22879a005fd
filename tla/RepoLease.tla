----------------------------- MODULE RepoLease -----------------------------
(***************************************************************************)
(* The operation lease of a repository (src/src/lib.rs                     *)
(* RepositoryOperationLease, SqliteQueue, command_output_timeout): a lock  *)
(* on .git/iq-operation.lock, a lease row with a time to live that a       *)
(* thread renews, and commands that run while their supervisor polls the   *)
(* row.                                                                    *)
(*                                                                         *)
(* Abstractions.                                                           *)
(*  - The rows of the physical repositories are written with the row of    *)
(*    the repository, by the same transactions and with the same values:   *)
(*    one row stands for them.                                             *)
(*  - A process is one operation; its owner id is its own.                 *)
(*  - Time is a counter.  A process that is not stalled does what is due   *)
(*    before time goes on; a process that is stalled does nothing.         *)
(***************************************************************************)
EXTENDS Integers

CONSTANTS
  Procs,
  Ttl,       \* lease_ttl_seconds
  Poll,      \* CANCELLATION_POLL_INTERVAL
  Reserve,   \* COMMAND_AUTHORITY_RESERVE
  Grace,     \* CANCELLATION_FAILURE_GRACE
  MaxTime,   \* bound on time
  MaxBusy,   \* bound on reads and writes the database refuses
  MaxStalls, \* bound on stalls
  MaxStops,  \* bound on processes that die
  None

\* The three intervals are 100 ms each; a command polls at least as often as its row is
\* looked ahead, and the second refused read is one grace after the first.
ConstantsOK ==
  /\ Ttl \in Nat \ {0} /\ Poll \in Nat \ {0} /\ Reserve \in Nat /\ Grace \in Nat
  /\ Poll <= Reserve /\ Grace = Poll
  /\ MaxTime \in Nat /\ MaxBusy \in Nat /\ MaxStalls \in Nat /\ MaxStops \in Nat
  /\ None \notin Procs

VARIABLES
  now,
  lock,     \* holder of the operation lock
  lease,    \* the row: owner and expiry
  proc,     \* the processes
  child,    \* processes whose command runs
  busy, stalls, stops

vars == <<now, lock, lease, proc, child, busy, stalls, stops>>

\* LeaseHeartbeat::start: a third of the lease.
Interval == IF Ttl \div 3 > 1 THEN Ttl \div 3 ELSE 1

Proc == [pc : {"wait", "locked", "leased", "authorized", "command", "exited", "unlease", "unlock", "done", "dead"},
         beat : 0..(MaxTime + Ttl) \cup {-1},   \* next renewal; -1: no thread
         check : 0..(MaxTime + Poll),           \* next look at the row
         failing : 0..MaxTime \cup {-1},        \* first refused read, or -1
         stalled : BOOLEAN,
         late : BOOLEAN]                        \* stalled since the last look (history)

Idle(pc) == [pc |-> pc, beat |-> -1, check |-> 0, failing |-> -1, stalled |-> FALSE, late |-> FALSE]

NoLease == [owner |-> None, expires |-> 0]

Init ==
  /\ now = 0
  /\ lock = None
  /\ lease = NoLease
  /\ proc = [p \in Procs |-> Idle("wait")]
  /\ child = {}
  /\ busy = 0 /\ stalls = 0 /\ stops = 0

At(p, pc) == proc[p].pc = pc /\ ~proc[p].stalled
Goto(p, pc) == proc' = [proc EXCEPT ![p].pc = pc]
Alive(p) == proc[p].pc \notin {"done", "dead"}

-----------------------------------------------------------------------------
(* The lock and the row *)

\* acquire_existing_exclusive_lock: tried again while another process has it.
TryLock(p) ==
  /\ At(p, "wait")
  /\ lock = None
  /\ lock' = p
  /\ Goto(p, "locked")
  /\ UNCHANGED <<now, lease, child, busy, stalls, stops>>

\* "repository queue has an active operation".
GiveUp(p) ==
  /\ At(p, "wait")
  /\ lock # None
  /\ Goto(p, "done")
  /\ UNCHANGED <<now, lock, lease, child, busy, stalls, stops>>

\* acquire_repo_operation_lease: the row of the repository is taken over whatever it
\* says; the holder of the lock is alone.  The thread starts.
TakeLease(p) ==
  /\ At(p, "locked")
  /\ lease' = [owner |-> p, expires |-> now + Ttl]
  /\ proc' = [proc EXCEPT ![p].pc = "leased", ![p].beat = now + Interval]
  /\ UNCHANGED <<now, lock, child, busy, stalls, stops>>

\* The owned repository is not the one registered: the row is released.
VerifyFails(p) ==
  /\ At(p, "leased")
  /\ Goto(p, "unlease")
  /\ UNCHANGED <<now, lock, lease, child, busy, stalls, stops>>

\* heartbeat_repo_lease extends a row that is owned and not expired.
Owns(p) == lease.owner = p /\ lease.expires > now
Extended(p) == [owner |-> p, expires |-> now + Ttl]

\* The thread: renewed, lost, or the database is busy and it tries again in a second
\* until the expiry it knows.
Renew(p) ==
  /\ Alive(p) /\ ~proc[p].stalled
  /\ proc[p].beat \in 0..now
  /\ \/ /\ Owns(p)
        /\ lease' = Extended(p)
        /\ proc' = [proc EXCEPT ![p].beat = now + Interval]
        /\ UNCHANGED busy
     \/ /\ ~Owns(p)
        /\ proc' = [proc EXCEPT ![p].beat = -1]
        /\ UNCHANGED <<lease, busy>>
     \/ /\ busy < MaxBusy
        /\ busy' = busy + 1
        /\ proc' = [proc EXCEPT ![p].beat = IF lease.expires > now THEN now + 1 ELSE -1]
        /\ UNCHANGED lease
  /\ UNCHANGED <<now, lock, child, stalls, stops>>

\* composition_transaction, transition_item_owned: the row is checked and renewed in
\* the transaction of the change; a process that lost it fails.
Mutate(p) ==
  /\ At(p, "leased")
  /\ IF Owns(p)
       THEN lease' = Extended(p) /\ UNCHANGED proc
       ELSE Goto(p, "unlease") /\ UNCHANGED lease
  /\ UNCHANGED <<now, lock, child, busy, stalls, stops>>

-----------------------------------------------------------------------------
(* Commands *)

\* run_policy_command: ensure is the last thing the gate of a command asks, after the
\* policy and the identity of the remote repository.
Gate(p) == Owns(p)

\* A command is authorized before it is spawned.
Authorize(p) ==
  /\ At(p, "leased")
  /\ IF Gate(p)
       THEN lease' = Extended(p) /\ Goto(p, "authorized")
       ELSE Goto(p, "unlease") /\ UNCHANGED lease
  /\ UNCHANGED <<now, lock, child, busy, stalls, stops>>

\* process.spawn: a process group of its own, and the first look at once.
Spawn(p) ==
  /\ At(p, "authorized")
  /\ child' = child \cup {p}
  /\ proc' = [proc EXCEPT ![p].pc = "command", ![p].check = now, ![p].failing = -1]
  /\ UNCHANGED <<now, lock, lease, busy, stalls, stops>>

\* lease_authority, execution_authority: the row outlives the next look.
Active(p) == lease.owner = p /\ lease.expires > now + Reserve

\* stop_direct_command, and the error is returned.
Stopped(p) ==
  /\ child' = child \ {p}
  /\ proc' = [proc EXCEPT ![p].pc = "unlease", ![p].check = 0, ![p].failing = -1]

\* Mutant of CheckLost: the error is returned and the command is left.
CheckLostLeft(p) ==
  /\ At(p, "command") /\ p \in child
  /\ now >= proc[p].check
  /\ ~Active(p)
  /\ Goto(p, "unlease")
  /\ UNCHANGED <<now, lock, lease, child, busy, stalls, stops>>

CheckLost(p) ==
  /\ At(p, "command") /\ p \in child
  /\ now >= proc[p].check
  /\ ~Active(p)
  /\ Stopped(p)
  /\ UNCHANGED <<now, lock, lease, busy, stalls, stops>>

CheckActive(p) ==
  /\ At(p, "command") /\ p \in child
  /\ now >= proc[p].check
  /\ Active(p)
  /\ proc' = [proc EXCEPT ![p].check = now + Poll, ![p].failing = -1, ![p].late = FALSE]
  /\ UNCHANGED <<now, lock, lease, child, busy, stalls, stops>>

\* authority_state: the row cannot be read; the command goes on for the grace.
CheckBusy(p) ==
  /\ At(p, "command") /\ p \in child
  /\ now >= proc[p].check
  /\ busy < MaxBusy
  /\ busy' = busy + 1
  /\ LET first == IF proc[p].failing = -1 THEN now ELSE proc[p].failing
     IN  IF now - first >= Grace
           THEN Stopped(p)
           ELSE /\ proc' = [proc EXCEPT ![p].check = now + Poll, ![p].failing = first]
                /\ UNCHANGED child
  /\ UNCHANGED <<now, lock, lease, stalls, stops>>

\* The timeout of the command.
TimeOut(p) ==
  /\ At(p, "command") /\ p \in child
  /\ Stopped(p)
  /\ UNCHANGED <<now, lock, lease, busy, stalls, stops>>

ChildExits(p) ==
  /\ p \in child
  /\ child' = child \ {p}
  /\ proc' = IF proc[p].pc = "command" THEN [proc EXCEPT ![p].pc = "exited"] ELSE proc
  /\ UNCHANGED <<now, lock, lease, busy, stalls, stops>>

\* wait_for_authority_state: the output counts when the row still covers it.
Accept(p) ==
  /\ At(p, "exited")
  /\ proc' = [proc EXCEPT ![p].pc = IF Active(p) THEN "leased" ELSE "unlease",
                         ![p].check = 0, ![p].failing = -1, ![p].late = FALSE]
  /\ UNCHANGED <<now, lock, lease, child, busy, stalls, stops>>

-----------------------------------------------------------------------------
(* The end *)

Finish(p) ==
  /\ At(p, "leased")
  /\ Goto(p, "unlease")
  /\ UNCHANGED <<now, lock, lease, child, busy, stalls, stops>>

\* Drop: the thread ends and the row goes, then the lock.
Unlease(p) ==
  /\ At(p, "unlease")
  /\ lease' = IF lease.owner = p THEN NoLease ELSE lease
  /\ proc' = [proc EXCEPT ![p].pc = "unlock", ![p].beat = -1]
  /\ UNCHANGED <<now, lock, child, busy, stalls, stops>>

Unlock(p) ==
  /\ At(p, "unlock")
  /\ lock' = IF lock = p THEN None ELSE lock
  /\ proc' = [proc EXCEPT ![p] = Idle("done")]
  /\ UNCHANGED <<now, lease, child, busy, stalls, stops>>

-----------------------------------------------------------------------------
(* Environment *)

\* The process dies: the kernel drops the lock; the row and the command stay.
Stop(p) ==
  /\ Alive(p) /\ proc[p].pc # "wait"
  /\ stops < MaxStops
  /\ stops' = stops + 1
  /\ lock' = IF lock = p THEN None ELSE lock
  /\ proc' = [proc EXCEPT ![p] = Idle("dead")]
  /\ UNCHANGED <<now, lease, child, busy, stalls>>

Stall(p) ==
  /\ Alive(p) /\ ~proc[p].stalled /\ proc[p].pc # "wait"
  /\ stalls < MaxStalls
  /\ stalls' = stalls + 1
  /\ proc' = [proc EXCEPT ![p].stalled = TRUE, ![p].late = TRUE]
  /\ UNCHANGED <<now, lock, lease, child, busy, stops>>

Resume(p) ==
  /\ proc[p].stalled
  /\ proc' = [proc EXCEPT ![p].stalled = FALSE]
  /\ UNCHANGED <<now, lock, lease, child, busy, stalls, stops>>

\* What is due is done before time goes on.
Timely(p) ==
  \/ proc[p].stalled
  \/ /\ proc[p].pc \notin {"locked", "authorized", "exited", "unlease", "unlock"}
     /\ proc[p].pc = "command" => now < proc[p].check
     /\ ~(proc[p].beat \in 0..now)

Tick ==
  /\ now < MaxTime
  /\ \A p \in Procs : Timely(p)
  /\ now' = now + 1
  /\ UNCHANGED <<lock, lease, proc, child, busy, stalls, stops>>

Next ==
  \/ Tick
  \/ \E p \in Procs :
       \/ TryLock(p) \/ GiveUp(p) \/ TakeLease(p) \/ VerifyFails(p) \/ Renew(p) \/ Mutate(p)
       \/ Authorize(p) \/ Spawn(p) \/ CheckLost(p) \/ CheckActive(p) \/ CheckBusy(p) \/ TimeOut(p)
       \/ ChildExits(p) \/ Accept(p) \/ Finish(p) \/ Unlease(p) \/ Unlock(p)
       \/ Stop(p) \/ Stall(p) \/ Resume(p)

Spec == Init /\ [][Next]_vars

-----------------------------------------------------------------------------
(* Properties *)

\* Types of the row and the processes.
TypeOK ==
  /\ now \in 0..MaxTime
  /\ lock \in Procs \cup {None}
  /\ lease \in [owner : Procs \cup {None}, expires : 0..(MaxTime + Ttl)]
  /\ proc \in [Procs -> Proc]
  /\ child \subseteq Procs

\* A command that is supervised runs under the operation lock of its process, stalls,
\* lost rows and timeouts included: the lock is never free while it can write.
CommandLocked ==
  \A p \in child : proc[p].pc # "dead" => lock = p

\* While a supervisor is not stalled, the row of its command has not expired; when the
\* row cannot be read it has expired for less than the grace (lease_authority).
CommandCovered ==
  \A p \in Procs :
    At(p, "command") /\ p \in child /\ ~proc[p].late
      => lease.owner = p /\ now < lease.expires + (IF proc[p].failing = -1 THEN 0 ELSE Grace)

\* A process keeps its row until it ends, also one that expired: nobody takes the row
\* of a process that lives, and the end of one never deletes the row of another.
RowKept ==
  \A p \in Procs :
    proc[p].pc \in {"leased", "authorized", "command", "exited"} => lease.owner = p

\* What an operation relies on while its command runs.
CommandExact == TypeOK /\ CommandLocked /\ CommandCovered /\ RowKept

\* README.md: "Repository operation leases serialize mutation for one repository":
\* two commands never run at the same time.
Serialized == \A p, q \in child : p = q
=============================================================================
