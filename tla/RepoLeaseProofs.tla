-------------------------- MODULE RepoLeaseProofs --------------------------
(***************************************************************************)
(* Proofs about the operation lease of a repository (RepoLease): a command *)
(* that is supervised runs under the operation lock, and its row has not   *)
(* expired, or for less than the grace, as long as its supervisor is not   *)
(* stalled.                                                                *)
(*                                                                         *)
(* The lock makes its holder the only writer of the row (LockHeld,         *)
(* BeatAlive); what the last look saw then bounds the row until the next   *)
(* one (Covered).                                                          *)
(***************************************************************************)
EXTENDS RepoLease, TLAPS

Holding == {"locked", "leased", "authorized", "command", "exited", "unlease", "unlock"}
Rowed == {"leased", "authorized", "command", "exited"}

\* The operation lock is held from TryLock to Unlock or death.
LockHeld == \A p \in Procs : proc[p].pc \in Holding <=> lock = p

\* A command belongs to a supervisor that waits for it, or that died.
ChildSupervised == \A p \in child : proc[p].pc \in {"command", "dead"}

\* The renewing thread lives only while the row is its process's.
BeatAlive == \A p \in Procs : proc[p].beat # -1 => proc[p].pc \in Rowed \cup {"unlease"}

\* A renewal never brings the expiry forward.
ExpiryBound == lease.expires <= now + Ttl

\* A supervisor that is stalled was stalled since its last look.
StalledIsLate == \A p \in Procs : proc[p].stalled => proc[p].late

\* What the gate or the last look saw of the row bounds the time of the next look: the
\* row outlives it, or the first read was refused while the row lived.
Covered ==
  \A p \in Procs : ~proc[p].late =>
    /\ proc[p].pc = "authorized" => now < lease.expires
    /\ proc[p].pc = "command" =>
         /\ now <= proc[p].check
         /\ proc[p].failing = -1 => proc[p].check < lease.expires
         /\ proc[p].failing # -1 => proc[p].failing < lease.expires /\ proc[p].check = proc[p].failing + Poll

OperationInv ==
  /\ TypeOK /\ LockHeld /\ ChildSupervised /\ BeatAlive /\ RowKept /\ ExpiryBound /\ StalledIsLate /\ Covered

-----------------------------------------------------------------------------
(* Every action keeps the invariant *)

\* The assumptions on the intervals, as the steps use them.
LEMMA Intervals == ASSUME ConstantsOK PROVE Interval \in Nat /\ Interval >= 1 /\ Interval <= Ttl
  BY DEF ConstantsOK, Interval

\* TryLock (acquire_existing_exclusive_lock) keeps the invariant.
LEMMA TryLockKeeps == ASSUME ConstantsOK, OperationInv, NEW p \in Procs, TryLock(p) PROVE OperationInv'
  <1>1. TypeOK /\ LockHeld /\ ChildSupervised /\ BeatAlive /\ RowKept /\ ExpiryBound /\ StalledIsLate /\ Covered
    BY DEF OperationInv
  <1>2. /\ proc \in [Procs -> Proc] /\ proc[p] \in Proc /\ now \in 0..MaxTime
        /\ lease.expires \in Nat /\ lease.expires <= MaxTime + Ttl /\ child \subseteq Procs
    BY <1>1 DEF TypeOK
  <1>3. \A q \in Procs : q # p => proc'[q] = proc[q]
    BY DEF Goto, TryLock
  <1>4. /\ proc'[p].pc = "locked" /\ proc'[p].beat = proc[p].beat /\ proc'[p].check = proc[p].check
        /\ proc'[p].failing = proc[p].failing /\ proc'[p].stalled = proc[p].stalled /\ proc'[p].late = proc[p].late
    BY <1>2 DEF Goto, TryLock
  <1>5. lock = None /\ lock' = p
    BY DEF TryLock
  <1>6. UNCHANGED <<now, lease, child>>
    BY DEF TryLock
  <1>7. proc[p].pc = "wait" /\ proc[p].stalled = FALSE
    BY DEF At, TryLock
  <1>8. proc' \in [Procs -> Proc]
    <2>1. proc'[p] \in Proc
      BY <1>2 DEF Proc, Goto, TryLock
    <2> QED BY <1>2, <2>1 DEF Goto, TryLock
  <1>9. TypeOK'
    BY <1>1, <1>5, <1>6, <1>8 DEF TypeOK
  <1>10. LockHeld'
    BY <1>1, <1>3, <1>4, <1>5 DEF ConstantsOK, LockHeld, Holding
  <1>11. ChildSupervised'
    BY <1>1, <1>2, <1>3, <1>6, <1>7 DEF ChildSupervised
  <1>12. BeatAlive'
    BY <1>1, <1>3, <1>4, <1>7 DEF BeatAlive, Rowed
  <1>13. RowKept'
    BY <1>1, <1>3, <1>4, <1>6 DEF RowKept
  <1>14. ExpiryBound'
    BY <1>1, <1>6 DEF ExpiryBound
  <1>15. StalledIsLate'
    BY <1>1, <1>3, <1>4 DEF StalledIsLate
  <1>16. Covered'
    BY <1>1, <1>3, <1>4, <1>6 DEF Covered
  <1> QED BY <1>9, <1>10, <1>11, <1>12, <1>13, <1>14, <1>15, <1>16 DEF OperationInv

\* GiveUp (a lock that is held) keeps the invariant.
LEMMA GiveUpKeeps == ASSUME ConstantsOK, OperationInv, NEW p \in Procs, GiveUp(p) PROVE OperationInv'
  <1>1. TypeOK /\ LockHeld /\ ChildSupervised /\ BeatAlive /\ RowKept /\ ExpiryBound /\ StalledIsLate /\ Covered
    BY DEF OperationInv
  <1>2. /\ proc \in [Procs -> Proc] /\ proc[p] \in Proc /\ now \in 0..MaxTime
        /\ lease.expires \in Nat /\ lease.expires <= MaxTime + Ttl /\ child \subseteq Procs
    BY <1>1 DEF TypeOK
  <1>3. \A q \in Procs : q # p => proc'[q] = proc[q]
    BY DEF Goto, GiveUp
  <1>4. /\ proc'[p].pc = "done" /\ proc'[p].beat = proc[p].beat /\ proc'[p].check = proc[p].check
        /\ proc'[p].failing = proc[p].failing /\ proc'[p].stalled = proc[p].stalled /\ proc'[p].late = proc[p].late
    BY <1>2 DEF Goto, GiveUp
  <1>5. UNCHANGED <<now, lock, lease, child>>
    BY DEF GiveUp
  <1>6. proc[p].pc = "wait"
    BY DEF At, GiveUp
  <1>7. proc' \in [Procs -> Proc]
    <2>1. proc'[p] \in Proc
      BY <1>2 DEF Proc, Goto, GiveUp
    <2> QED BY <1>2, <2>1 DEF Goto, GiveUp
  <1>8. TypeOK'
    BY <1>1, <1>5, <1>7 DEF TypeOK
  <1>9. LockHeld'
    BY <1>1, <1>3, <1>4, <1>5, <1>6 DEF LockHeld, Holding
  <1>10. ChildSupervised'
    BY <1>1, <1>2, <1>3, <1>5, <1>6 DEF ChildSupervised
  <1>11. BeatAlive'
    BY <1>1, <1>3, <1>4, <1>6 DEF BeatAlive, Rowed
  <1>12. RowKept'
    BY <1>1, <1>3, <1>4, <1>5 DEF RowKept
  <1>13. ExpiryBound'
    BY <1>1, <1>5 DEF ExpiryBound
  <1>14. StalledIsLate'
    BY <1>1, <1>3, <1>4 DEF StalledIsLate
  <1>15. Covered'
    BY <1>1, <1>3, <1>4, <1>5 DEF Covered
  <1> QED BY <1>8, <1>9, <1>10, <1>11, <1>12, <1>13, <1>14, <1>15 DEF OperationInv

\* TakeLease (acquire_repo_operation_lease) keeps the invariant.
LEMMA TakeLeaseKeeps == ASSUME ConstantsOK, OperationInv, NEW p \in Procs, TakeLease(p) PROVE OperationInv'
  <1>1. TypeOK /\ LockHeld /\ ChildSupervised /\ BeatAlive /\ RowKept /\ ExpiryBound /\ StalledIsLate /\ Covered
    BY DEF OperationInv
  <1>2. /\ proc \in [Procs -> Proc] /\ proc[p] \in Proc /\ now \in 0..MaxTime
        /\ lease.expires \in Nat /\ lease.expires <= MaxTime + Ttl /\ child \subseteq Procs
    BY <1>1 DEF TypeOK
  <1>3. \A q \in Procs : q # p => proc'[q] = proc[q]
    BY <1>2 DEF TakeLease
  <1>4. /\ proc'[p].pc = "leased" /\ proc'[p].beat = now + Interval /\ proc'[p].check = proc[p].check
        /\ proc'[p].failing = proc[p].failing /\ proc'[p].stalled = proc[p].stalled /\ proc'[p].late = proc[p].late
    BY <1>2 DEF TakeLease
  <1>5. lease' = [owner |-> p, expires |-> now + Ttl]
    BY DEF TakeLease
  <1>6. UNCHANGED <<now, lock, child>>
    BY DEF TakeLease
  <1>7. proc[p].pc = "locked"
    BY DEF At, TakeLease
  <1>8. proc' \in [Procs -> Proc]
    <2>1. now + Interval \in 0..(MaxTime + Ttl)
      BY <1>2, Intervals DEF ConstantsOK
    <2>2. [proc[p] EXCEPT !.pc = "leased", !.beat = now + Interval] \in Proc
      BY <1>2, <2>1 DEF Proc
    <2> QED BY <1>2, <2>2 DEF TakeLease
  <1>9. TypeOK'
    BY <1>1, <1>5, <1>6, <1>8 DEF ConstantsOK, TypeOK
  <1>10. LockHeld'
    BY <1>1, <1>3, <1>4, <1>6, <1>7 DEF LockHeld, Holding
  <1>11. ChildSupervised'
    BY <1>1, <1>2, <1>3, <1>6, <1>7 DEF ChildSupervised
  <1>12. BeatAlive'
    BY <1>1, <1>3, <1>4 DEF BeatAlive, Rowed
  <1>13. RowKept'
    BY <1>1, <1>3, <1>5, <1>7 DEF RowKept, LockHeld, Holding
  <1>14. ExpiryBound'
    BY <1>2, <1>5, <1>6 DEF ConstantsOK, ExpiryBound
  <1>15. StalledIsLate'
    BY <1>1, <1>3, <1>4 DEF StalledIsLate
  <1>16. Covered'
    BY <1>1, <1>2, <1>3, <1>4, <1>5, <1>6 DEF ConstantsOK, Proc, Covered, ExpiryBound
  <1> QED BY <1>9, <1>10, <1>11, <1>12, <1>13, <1>14, <1>15, <1>16 DEF OperationInv

\* VerifyFails (the owned repository differs) keeps the invariant.
LEMMA VerifyFailsKeeps == ASSUME ConstantsOK, OperationInv, NEW p \in Procs, VerifyFails(p) PROVE OperationInv'
  <1>1. TypeOK /\ LockHeld /\ ChildSupervised /\ BeatAlive /\ RowKept /\ ExpiryBound /\ StalledIsLate /\ Covered
    BY DEF OperationInv
  <1>2. /\ proc \in [Procs -> Proc] /\ proc[p] \in Proc /\ now \in 0..MaxTime
        /\ lease.expires \in Nat /\ lease.expires <= MaxTime + Ttl /\ child \subseteq Procs
    BY <1>1 DEF TypeOK
  <1>3. \A q \in Procs : q # p => proc'[q] = proc[q]
    BY DEF Goto, VerifyFails
  <1>4. /\ proc'[p].pc = "unlease" /\ proc'[p].beat = proc[p].beat /\ proc'[p].check = proc[p].check
        /\ proc'[p].failing = proc[p].failing /\ proc'[p].stalled = proc[p].stalled /\ proc'[p].late = proc[p].late
    BY <1>2 DEF Goto, VerifyFails
  <1>5. UNCHANGED <<now, lock, lease, child>>
    BY DEF VerifyFails
  <1>6. proc[p].pc = "leased"
    BY DEF At, VerifyFails
  <1>7. proc' \in [Procs -> Proc]
    <2>1. proc'[p] \in Proc
      BY <1>2 DEF Proc, Goto, VerifyFails
    <2> QED BY <1>2, <2>1 DEF Goto, VerifyFails
  <1>8. TypeOK'
    BY <1>1, <1>5, <1>7 DEF TypeOK
  <1>9. LockHeld'
    BY <1>1, <1>3, <1>4, <1>5, <1>6 DEF LockHeld, Holding
  <1>10. ChildSupervised'
    BY <1>1, <1>2, <1>3, <1>5, <1>6 DEF ChildSupervised
  <1>11. BeatAlive'
    BY <1>1, <1>3, <1>4 DEF BeatAlive
  <1>12. RowKept'
    BY <1>1, <1>3, <1>5, <1>6 DEF RowKept
  <1>13. ExpiryBound'
    BY <1>1, <1>5 DEF ExpiryBound
  <1>14. StalledIsLate'
    BY <1>1, <1>3, <1>4 DEF StalledIsLate
  <1>15. Covered'
    BY <1>1, <1>3, <1>4, <1>5 DEF Covered
  <1> QED BY <1>8, <1>9, <1>10, <1>11, <1>12, <1>13, <1>14, <1>15 DEF OperationInv

\* Finish (the end of the operation) keeps the invariant.
LEMMA FinishKeeps == ASSUME ConstantsOK, OperationInv, NEW p \in Procs, Finish(p) PROVE OperationInv'
  <1>1. TypeOK /\ LockHeld /\ ChildSupervised /\ BeatAlive /\ RowKept /\ ExpiryBound /\ StalledIsLate /\ Covered
    BY DEF OperationInv
  <1>2. /\ proc \in [Procs -> Proc] /\ proc[p] \in Proc /\ now \in 0..MaxTime
        /\ lease.expires \in Nat /\ lease.expires <= MaxTime + Ttl /\ child \subseteq Procs
    BY <1>1 DEF TypeOK
  <1>3. \A q \in Procs : q # p => proc'[q] = proc[q]
    BY DEF Goto, Finish
  <1>4. /\ proc'[p].pc = "unlease" /\ proc'[p].beat = proc[p].beat /\ proc'[p].check = proc[p].check
        /\ proc'[p].failing = proc[p].failing /\ proc'[p].stalled = proc[p].stalled /\ proc'[p].late = proc[p].late
    BY <1>2 DEF Goto, Finish
  <1>5. UNCHANGED <<now, lock, lease, child>>
    BY DEF Finish
  <1>6. proc[p].pc = "leased"
    BY DEF At, Finish
  <1>7. proc' \in [Procs -> Proc]
    <2>1. proc'[p] \in Proc
      BY <1>2 DEF Proc, Goto, Finish
    <2> QED BY <1>2, <2>1 DEF Goto, Finish
  <1>8. TypeOK'
    BY <1>1, <1>5, <1>7 DEF TypeOK
  <1>9. LockHeld'
    BY <1>1, <1>3, <1>4, <1>5, <1>6 DEF LockHeld, Holding
  <1>10. ChildSupervised'
    BY <1>1, <1>2, <1>3, <1>5, <1>6 DEF ChildSupervised
  <1>11. BeatAlive'
    BY <1>1, <1>3, <1>4 DEF BeatAlive
  <1>12. RowKept'
    BY <1>1, <1>3, <1>5, <1>6 DEF RowKept
  <1>13. ExpiryBound'
    BY <1>1, <1>5 DEF ExpiryBound
  <1>14. StalledIsLate'
    BY <1>1, <1>3, <1>4 DEF StalledIsLate
  <1>15. Covered'
    BY <1>1, <1>3, <1>4, <1>5 DEF Covered
  <1> QED BY <1>8, <1>9, <1>10, <1>11, <1>12, <1>13, <1>14, <1>15 DEF OperationInv

\* Renew (heartbeat_repo_lease) keeps the invariant.
LEMMA RenewKeeps == ASSUME ConstantsOK, OperationInv, NEW p \in Procs, Renew(p) PROVE OperationInv'
  <1>1. TypeOK /\ LockHeld /\ ChildSupervised /\ BeatAlive /\ RowKept /\ ExpiryBound /\ StalledIsLate /\ Covered
    BY DEF OperationInv
  <1>2. /\ proc \in [Procs -> Proc] /\ proc[p] \in Proc /\ now \in 0..MaxTime
        /\ lease.expires \in Nat /\ lease.expires <= MaxTime + Ttl /\ child \subseteq Procs
    BY <1>1 DEF TypeOK
  <1>3. \A q \in Procs : q # p => proc'[q] = proc[q]
    BY <1>2 DEF Renew
  <1>4. /\ proc'[p].pc = proc[p].pc /\ proc'[p].beat \in 0..(MaxTime + Ttl) \cup {-1} /\ proc'[p].check = proc[p].check
        /\ proc'[p].failing = proc[p].failing /\ proc'[p].stalled = proc[p].stalled /\ proc'[p].late = proc[p].late
    BY <1>2, Intervals DEF ConstantsOK, Proc, Renew
  <1>5. lease' = lease \/ lease' = [owner |-> p, expires |-> now + Ttl]
    BY DEF Extended, Renew
  <1>6. UNCHANGED <<now, lock, child>>
    BY DEF Renew
  <1>7. proc[p].beat # -1
    BY DEF Renew
  <1>8. proc' \in [Procs -> Proc]
    <2>1. proc'[p] \in Proc
      BY <1>2, Intervals DEF ConstantsOK, Proc, Renew
    <2> QED BY <1>2, <2>1 DEF Renew
  <1>9. TypeOK'
    BY <1>1, <1>5, <1>6, <1>8 DEF ConstantsOK, TypeOK
  <1>10. LockHeld'
    BY <1>1, <1>3, <1>4, <1>6 DEF LockHeld
  <1>11. ChildSupervised'
    BY <1>1, <1>2, <1>3, <1>4, <1>6 DEF ChildSupervised
  <1>12. BeatAlive'
    BY <1>1, <1>3, <1>4, <1>7 DEF BeatAlive
  <1>13. RowKept'
    BY <1>1, <1>3, <1>4, <1>5, <1>7 DEF RowKept, LockHeld, BeatAlive, Holding, Rowed
  <1>14. ExpiryBound'
    BY <1>1, <1>2, <1>5, <1>6 DEF ConstantsOK, ExpiryBound
  <1>15. StalledIsLate'
    BY <1>1, <1>3, <1>4 DEF StalledIsLate
  <1>16. Covered'
    BY <1>1, <1>2, <1>3, <1>4, <1>5, <1>6 DEF ConstantsOK, Proc, Covered, ExpiryBound
  <1> QED BY <1>9, <1>10, <1>11, <1>12, <1>13, <1>14, <1>15, <1>16 DEF OperationInv

\* Mutate (composition_transaction) keeps the invariant.
LEMMA MutateKeeps == ASSUME ConstantsOK, OperationInv, NEW p \in Procs, Mutate(p) PROVE OperationInv'
  <1>1. TypeOK /\ LockHeld /\ ChildSupervised /\ BeatAlive /\ RowKept /\ ExpiryBound /\ StalledIsLate /\ Covered
    BY DEF OperationInv
  <1>2. /\ proc \in [Procs -> Proc] /\ proc[p] \in Proc /\ now \in 0..MaxTime
        /\ lease.expires \in Nat /\ lease.expires <= MaxTime + Ttl /\ child \subseteq Procs
    BY <1>1 DEF TypeOK
  <1>3. \A q \in Procs : q # p => proc'[q] = proc[q]
    BY <1>2 DEF Goto, Mutate
  <1>4. \/ /\ proc'[p].pc = proc[p].pc /\ proc'[p].beat = proc[p].beat /\ proc'[p].check = proc[p].check
           /\ proc'[p].failing = proc[p].failing /\ proc'[p].stalled = proc[p].stalled /\ proc'[p].late = proc[p].late
           /\ lease' = [owner |-> p, expires |-> now + Ttl]
        \/ /\ proc'[p].pc = "unlease" /\ proc'[p].beat = proc[p].beat /\ proc'[p].check = proc[p].check
           /\ proc'[p].failing = proc[p].failing /\ proc'[p].stalled = proc[p].stalled /\ proc'[p].late = proc[p].late
           /\ lease' = lease
    BY <1>2 DEF Proc, Goto, Extended, Mutate
  <1>5. UNCHANGED <<now, lock, child>>
    BY DEF Mutate
  <1>6. proc[p].pc = "leased"
    BY DEF At, Mutate
  <1>7. proc' \in [Procs -> Proc]
    <2>1. proc'[p] \in Proc
      BY <1>2 DEF Proc, Goto, Mutate
    <2> QED BY <1>2, <2>1 DEF Goto, Mutate
  <1>8. TypeOK'
    BY <1>1, <1>4, <1>5, <1>7 DEF ConstantsOK, TypeOK
  <1>9. LockHeld'
    BY <1>1, <1>3, <1>4, <1>5, <1>6 DEF LockHeld, Holding
  <1>10. ChildSupervised'
    BY <1>1, <1>2, <1>3, <1>5, <1>6 DEF ChildSupervised
  <1>11. BeatAlive'
    BY <1>1, <1>3, <1>4 DEF BeatAlive
  <1>12. RowKept'
    BY <1>1, <1>3, <1>4, <1>6 DEF RowKept
  <1>13. ExpiryBound'
    BY <1>1, <1>2, <1>4, <1>5 DEF ConstantsOK, ExpiryBound
  <1>14. StalledIsLate'
    BY <1>1, <1>3, <1>4 DEF StalledIsLate
  <1>15. Covered'
    BY <1>1, <1>2, <1>3, <1>4, <1>5 DEF ConstantsOK, Proc, Covered, ExpiryBound
  <1> QED BY <1>8, <1>9, <1>10, <1>11, <1>12, <1>13, <1>14, <1>15 DEF OperationInv

\* Authorize (run_policy_command) keeps the invariant.
LEMMA AuthorizeKeeps == ASSUME ConstantsOK, OperationInv, NEW p \in Procs, Authorize(p) PROVE OperationInv'
  <1>1. TypeOK /\ LockHeld /\ ChildSupervised /\ BeatAlive /\ RowKept /\ ExpiryBound /\ StalledIsLate /\ Covered
    BY DEF OperationInv
  <1>2. /\ proc \in [Procs -> Proc] /\ proc[p] \in Proc /\ now \in 0..MaxTime
        /\ lease.expires \in Nat /\ lease.expires <= MaxTime + Ttl /\ child \subseteq Procs
    BY <1>1 DEF TypeOK
  <1>3. \A q \in Procs : q # p => proc'[q] = proc[q]
    BY <1>2 DEF Goto, Authorize
  <1>4. \/ /\ proc'[p].pc = "authorized" /\ proc'[p].beat = proc[p].beat /\ proc'[p].check = proc[p].check
           /\ proc'[p].failing = proc[p].failing /\ proc'[p].stalled = proc[p].stalled /\ proc'[p].late = proc[p].late
           /\ lease' = [owner |-> p, expires |-> now + Ttl]
        \/ /\ proc'[p].pc = "unlease" /\ proc'[p].beat = proc[p].beat /\ proc'[p].check = proc[p].check
           /\ proc'[p].failing = proc[p].failing /\ proc'[p].stalled = proc[p].stalled /\ proc'[p].late = proc[p].late
           /\ lease' = lease
    BY <1>2 DEF Proc, Goto, Extended, Authorize
  <1>5. UNCHANGED <<now, lock, child>>
    BY DEF Authorize
  <1>6. proc[p].pc = "leased"
    BY DEF At, Authorize
  <1>7. proc' \in [Procs -> Proc]
    <2>1. proc'[p] \in Proc
      BY <1>2 DEF Proc, Goto, Authorize
    <2> QED BY <1>2, <2>1 DEF Goto, Authorize
  <1>8. TypeOK'
    BY <1>1, <1>4, <1>5, <1>7 DEF ConstantsOK, TypeOK
  <1>9. LockHeld'
    BY <1>1, <1>3, <1>4, <1>5, <1>6 DEF LockHeld, Holding
  <1>10. ChildSupervised'
    BY <1>1, <1>2, <1>3, <1>5, <1>6 DEF ChildSupervised
  <1>11. BeatAlive'
    BY <1>1, <1>3, <1>4 DEF BeatAlive, Rowed
  <1>12. RowKept'
    BY <1>1, <1>3, <1>4, <1>6 DEF RowKept
  <1>13. ExpiryBound'
    BY <1>1, <1>2, <1>4, <1>5 DEF ConstantsOK, ExpiryBound
  <1>14. StalledIsLate'
    BY <1>1, <1>3, <1>4 DEF StalledIsLate
  <1>15. Covered'
    BY <1>1, <1>2, <1>3, <1>4, <1>5 DEF ConstantsOK, Proc, Covered, ExpiryBound
  <1> QED BY <1>8, <1>9, <1>10, <1>11, <1>12, <1>13, <1>14, <1>15 DEF OperationInv

\* Spawn (process.spawn) keeps the invariant.
LEMMA SpawnKeeps == ASSUME ConstantsOK, OperationInv, NEW p \in Procs, Spawn(p) PROVE OperationInv'
  <1>1. TypeOK /\ LockHeld /\ ChildSupervised /\ BeatAlive /\ RowKept /\ ExpiryBound /\ StalledIsLate /\ Covered
    BY DEF OperationInv
  <1>2. /\ proc \in [Procs -> Proc] /\ proc[p] \in Proc /\ now \in 0..MaxTime
        /\ lease.expires \in Nat /\ lease.expires <= MaxTime + Ttl /\ child \subseteq Procs
    BY <1>1 DEF TypeOK
  <1>3. \A q \in Procs : q # p => proc'[q] = proc[q]
    BY <1>2 DEF Spawn
  <1>4. /\ proc'[p].pc = "command" /\ proc'[p].beat = proc[p].beat /\ proc'[p].check = now
        /\ proc'[p].failing = -1 /\ proc'[p].stalled = proc[p].stalled /\ proc'[p].late = proc[p].late
    BY <1>2 DEF Spawn
  <1>5. child' = child \cup {p}
    BY DEF Spawn
  <1>6. UNCHANGED <<now, lock, lease>>
    BY DEF Spawn
  <1>7. proc[p].pc = "authorized"
    BY DEF At, Spawn
  <1>8. proc' \in [Procs -> Proc]
    <2>1. now \in 0..(MaxTime + Poll)
      BY <1>2 DEF ConstantsOK
    <2>2. [proc[p] EXCEPT !.pc = "command", !.check = now, !.failing = -1] \in Proc
      BY <1>2, <2>1 DEF Proc
    <2> QED BY <1>2, <2>2 DEF Spawn
  <1>9. TypeOK'
    BY <1>1, <1>5, <1>6, <1>8 DEF TypeOK
  <1>10. LockHeld'
    BY <1>1, <1>3, <1>4, <1>6, <1>7 DEF LockHeld, Holding
  <1>11. ChildSupervised'
    BY <1>1, <1>2, <1>3, <1>4, <1>5 DEF ChildSupervised
  <1>12. BeatAlive'
    BY <1>1, <1>3, <1>4 DEF BeatAlive, Rowed
  <1>13. RowKept'
    BY <1>1, <1>3, <1>6, <1>7 DEF RowKept
  <1>14. ExpiryBound'
    BY <1>1, <1>6 DEF ExpiryBound
  <1>15. StalledIsLate'
    BY <1>1, <1>3, <1>4 DEF StalledIsLate
  <1>16. Covered'
    BY <1>1, <1>2, <1>3, <1>4, <1>6, <1>7 DEF Covered
  <1> QED BY <1>9, <1>10, <1>11, <1>12, <1>13, <1>14, <1>15, <1>16 DEF OperationInv

\* CheckLost (lease_authority) keeps the invariant.
LEMMA CheckLostKeeps == ASSUME ConstantsOK, OperationInv, NEW p \in Procs, CheckLost(p) PROVE OperationInv'
  <1>1. TypeOK /\ LockHeld /\ ChildSupervised /\ BeatAlive /\ RowKept /\ ExpiryBound /\ StalledIsLate /\ Covered
    BY DEF OperationInv
  <1>2. /\ proc \in [Procs -> Proc] /\ proc[p] \in Proc /\ now \in 0..MaxTime
        /\ lease.expires \in Nat /\ lease.expires <= MaxTime + Ttl /\ child \subseteq Procs
    BY <1>1 DEF TypeOK
  <1>3. \A q \in Procs : q # p => proc'[q] = proc[q]
    BY <1>2 DEF Stopped, CheckLost
  <1>4. /\ proc'[p].pc = "unlease" /\ proc'[p].beat = proc[p].beat /\ proc'[p].check = 0
        /\ proc'[p].failing = -1 /\ proc'[p].stalled = proc[p].stalled /\ proc'[p].late = proc[p].late
        /\ child' = child \ {p}
    BY <1>2 DEF Stopped, CheckLost
  <1>5. UNCHANGED <<now, lock, lease>>
    BY DEF CheckLost
  <1>6. proc[p].pc = "command"
    BY DEF At, CheckLost
  <1>7. proc' \in [Procs -> Proc]
    <2>1. 0 \in 0..(MaxTime + Poll)
      BY DEF ConstantsOK
    <2>2. [proc[p] EXCEPT !.pc = "unlease", !.check = 0, !.failing = -1] \in Proc
      BY <1>2, <2>1 DEF Proc
    <2> QED BY <1>2, <2>2 DEF CheckLost, Stopped
  <1>8. TypeOK'
    BY <1>1, <1>4, <1>5, <1>7 DEF TypeOK
  <1>9. LockHeld'
    BY <1>1, <1>3, <1>4, <1>5, <1>6 DEF LockHeld, Holding
  <1>10. ChildSupervised'
    BY <1>1, <1>2, <1>3, <1>4 DEF ChildSupervised
  <1>11. BeatAlive'
    BY <1>1, <1>3, <1>4 DEF BeatAlive
  <1>12. RowKept'
    BY <1>1, <1>3, <1>5, <1>6 DEF RowKept
  <1>13. ExpiryBound'
    BY <1>1, <1>5 DEF ExpiryBound
  <1>14. StalledIsLate'
    BY <1>1, <1>3, <1>4 DEF StalledIsLate
  <1>15. Covered'
    BY <1>1, <1>3, <1>4, <1>5 DEF Covered
  <1> QED BY <1>8, <1>9, <1>10, <1>11, <1>12, <1>13, <1>14, <1>15 DEF OperationInv

\* CheckActive (lease_authority) keeps the invariant.
LEMMA CheckActiveKeeps == ASSUME ConstantsOK, OperationInv, NEW p \in Procs, CheckActive(p) PROVE OperationInv'
  <1>1. TypeOK /\ LockHeld /\ ChildSupervised /\ BeatAlive /\ RowKept /\ ExpiryBound /\ StalledIsLate /\ Covered
    BY DEF OperationInv
  <1>2. /\ proc \in [Procs -> Proc] /\ proc[p] \in Proc /\ now \in 0..MaxTime
        /\ lease.expires \in Nat /\ lease.expires <= MaxTime + Ttl /\ child \subseteq Procs
    BY <1>1 DEF TypeOK
  <1>3. \A q \in Procs : q # p => proc'[q] = proc[q]
    BY <1>2 DEF CheckActive
  <1>4. /\ proc'[p].pc = proc[p].pc /\ proc'[p].beat = proc[p].beat /\ proc'[p].check = now + Poll
        /\ proc'[p].failing = -1 /\ proc'[p].stalled = proc[p].stalled /\ proc'[p].late = FALSE
    BY <1>2 DEF CheckActive
  <1>5. lease.expires > now + Reserve
    BY DEF Active, CheckActive
  <1>6. UNCHANGED <<now, lock, lease, child>>
    BY DEF CheckActive
  <1>7. proc[p].pc = "command" /\ proc[p].stalled = FALSE
    BY DEF At, CheckActive
  <1>8. proc' \in [Procs -> Proc]
    <2>1. now + Poll \in 0..(MaxTime + Poll)
      BY <1>2 DEF ConstantsOK
    <2>2. [proc[p] EXCEPT !.check = now + Poll, !.failing = -1, !.late = FALSE] \in Proc
      BY <1>2, <2>1 DEF Proc
    <2> QED BY <1>2, <2>2 DEF CheckActive
  <1>9. TypeOK'
    BY <1>1, <1>6, <1>8 DEF TypeOK
  <1>10. LockHeld'
    BY <1>1, <1>3, <1>4, <1>6 DEF LockHeld
  <1>11. ChildSupervised'
    BY <1>1, <1>2, <1>3, <1>4, <1>6 DEF ChildSupervised
  <1>12. BeatAlive'
    BY <1>1, <1>3, <1>4 DEF BeatAlive
  <1>13. RowKept'
    BY <1>1, <1>3, <1>4, <1>6 DEF RowKept
  <1>14. ExpiryBound'
    BY <1>1, <1>6 DEF ExpiryBound
  <1>15. StalledIsLate'
    BY <1>1, <1>3, <1>4, <1>7 DEF StalledIsLate
  <1>16. Covered'
    BY <1>1, <1>2, <1>3, <1>4, <1>5, <1>6 DEF ConstantsOK, Covered
  <1> QED BY <1>9, <1>10, <1>11, <1>12, <1>13, <1>14, <1>15, <1>16 DEF OperationInv

\* CheckBusy (authority_state) keeps the invariant.
LEMMA CheckBusyKeeps == ASSUME ConstantsOK, OperationInv, NEW p \in Procs, CheckBusy(p) PROVE OperationInv'
  <1>1. TypeOK /\ LockHeld /\ ChildSupervised /\ BeatAlive /\ RowKept /\ ExpiryBound /\ StalledIsLate /\ Covered
    BY DEF OperationInv
  <1>2. /\ proc \in [Procs -> Proc] /\ proc[p] \in Proc /\ now \in 0..MaxTime
        /\ lease.expires \in Nat /\ lease.expires <= MaxTime + Ttl /\ child \subseteq Procs
    BY <1>1 DEF TypeOK
  <1>3. \A q \in Procs : q # p => proc'[q] = proc[q]
    BY <1>2 DEF Stopped, CheckBusy
  <1>4. \/ /\ proc'[p].pc = "unlease" /\ proc'[p].beat = proc[p].beat /\ proc'[p].check = 0
           /\ proc'[p].failing = -1 /\ proc'[p].stalled = proc[p].stalled /\ proc'[p].late = proc[p].late
           /\ child' = child \ {p}
        \/ /\ proc[p].failing = -1 /\ proc'[p].pc = proc[p].pc /\ proc'[p].beat = proc[p].beat /\ proc'[p].check = now + Poll
           /\ proc'[p].failing = now /\ proc'[p].stalled = proc[p].stalled /\ proc'[p].late = proc[p].late
           /\ child' = child
        \/ /\ proc[p].failing # -1 /\ now - proc[p].failing < Grace
           /\ proc'[p].pc = proc[p].pc /\ proc'[p].beat = proc[p].beat /\ proc'[p].check = now + Poll
           /\ proc'[p].failing = proc[p].failing /\ proc'[p].stalled = proc[p].stalled /\ proc'[p].late = proc[p].late
           /\ child' = child
    BY <1>2 DEF ConstantsOK, Proc, Stopped, CheckBusy
  <1>5. UNCHANGED <<now, lock, lease>>
    BY DEF CheckBusy
  <1>6. proc[p].pc = "command" /\ now >= proc[p].check
    BY DEF At, CheckBusy
  <1>7. proc' \in [Procs -> Proc]
    <2>1. proc'[p] \in Proc
      BY <1>2 DEF ConstantsOK, Proc, Stopped, CheckBusy
    <2> QED BY <1>2, <2>1 DEF Stopped, CheckBusy
  <1>8. TypeOK'
    BY <1>1, <1>4, <1>5, <1>7 DEF TypeOK
  <1>9. LockHeld'
    BY <1>1, <1>3, <1>4, <1>5, <1>6 DEF LockHeld, Holding
  <1>10. ChildSupervised'
    BY <1>1, <1>2, <1>3, <1>4 DEF ChildSupervised
  <1>11. BeatAlive'
    BY <1>1, <1>3, <1>4 DEF BeatAlive
  <1>12. RowKept'
    BY <1>1, <1>3, <1>5, <1>6 DEF RowKept
  <1>13. ExpiryBound'
    BY <1>1, <1>5 DEF ExpiryBound
  <1>14. StalledIsLate'
    BY <1>1, <1>3, <1>4 DEF StalledIsLate
  <1>15. Covered'
    BY <1>1, <1>2, <1>3, <1>4, <1>5, <1>6 DEF ConstantsOK, Proc, Covered
  <1> QED BY <1>8, <1>9, <1>10, <1>11, <1>12, <1>13, <1>14, <1>15 DEF OperationInv

\* TimeOut (the timeout of the command) keeps the invariant.
LEMMA TimeOutKeeps == ASSUME ConstantsOK, OperationInv, NEW p \in Procs, TimeOut(p) PROVE OperationInv'
  <1>1. TypeOK /\ LockHeld /\ ChildSupervised /\ BeatAlive /\ RowKept /\ ExpiryBound /\ StalledIsLate /\ Covered
    BY DEF OperationInv
  <1>2. /\ proc \in [Procs -> Proc] /\ proc[p] \in Proc /\ now \in 0..MaxTime
        /\ lease.expires \in Nat /\ lease.expires <= MaxTime + Ttl /\ child \subseteq Procs
    BY <1>1 DEF TypeOK
  <1>3. \A q \in Procs : q # p => proc'[q] = proc[q]
    BY <1>2 DEF Stopped, TimeOut
  <1>4. /\ proc'[p].pc = "unlease" /\ proc'[p].beat = proc[p].beat /\ proc'[p].check = 0
        /\ proc'[p].failing = -1 /\ proc'[p].stalled = proc[p].stalled /\ proc'[p].late = proc[p].late
        /\ child' = child \ {p}
    BY <1>2 DEF Stopped, TimeOut
  <1>5. UNCHANGED <<now, lock, lease>>
    BY DEF TimeOut
  <1>6. proc[p].pc = "command"
    BY DEF At, TimeOut
  <1>7. proc' \in [Procs -> Proc]
    <2>1. 0 \in 0..(MaxTime + Poll)
      BY DEF ConstantsOK
    <2>2. [proc[p] EXCEPT !.pc = "unlease", !.check = 0, !.failing = -1] \in Proc
      BY <1>2, <2>1 DEF Proc
    <2> QED BY <1>2, <2>2 DEF TimeOut, Stopped
  <1>8. TypeOK'
    BY <1>1, <1>4, <1>5, <1>7 DEF TypeOK
  <1>9. LockHeld'
    BY <1>1, <1>3, <1>4, <1>5, <1>6 DEF LockHeld, Holding
  <1>10. ChildSupervised'
    BY <1>1, <1>2, <1>3, <1>4 DEF ChildSupervised
  <1>11. BeatAlive'
    BY <1>1, <1>3, <1>4 DEF BeatAlive
  <1>12. RowKept'
    BY <1>1, <1>3, <1>5, <1>6 DEF RowKept
  <1>13. ExpiryBound'
    BY <1>1, <1>5 DEF ExpiryBound
  <1>14. StalledIsLate'
    BY <1>1, <1>3, <1>4 DEF StalledIsLate
  <1>15. Covered'
    BY <1>1, <1>3, <1>4, <1>5 DEF Covered
  <1> QED BY <1>8, <1>9, <1>10, <1>11, <1>12, <1>13, <1>14, <1>15 DEF OperationInv

\* ChildExits (the end of the command) keeps the invariant.
LEMMA ChildExitsKeeps == ASSUME ConstantsOK, OperationInv, NEW p \in Procs, ChildExits(p) PROVE OperationInv'
  <1>1. TypeOK /\ LockHeld /\ ChildSupervised /\ BeatAlive /\ RowKept /\ ExpiryBound /\ StalledIsLate /\ Covered
    BY DEF OperationInv
  <1>2. /\ proc \in [Procs -> Proc] /\ proc[p] \in Proc /\ now \in 0..MaxTime
        /\ lease.expires \in Nat /\ lease.expires <= MaxTime + Ttl /\ child \subseteq Procs
    BY <1>1 DEF TypeOK
  <1>3. \A q \in Procs : q # p => proc'[q] = proc[q]
    BY DEF ChildExits
  <1>4. \/ /\ proc[p].pc = "command" /\ proc'[p].pc = "exited" /\ proc'[p].beat = proc[p].beat /\ proc'[p].check = proc[p].check
           /\ proc'[p].failing = proc[p].failing /\ proc'[p].stalled = proc[p].stalled /\ proc'[p].late = proc[p].late
        \/ /\ proc[p].pc # "command" /\ proc'[p].pc = proc[p].pc /\ proc'[p].beat = proc[p].beat /\ proc'[p].check = proc[p].check
           /\ proc'[p].failing = proc[p].failing /\ proc'[p].stalled = proc[p].stalled /\ proc'[p].late = proc[p].late
    BY <1>2 DEF ChildExits
  <1>5. child' = child \ {p} /\ p \in child
    BY DEF ChildExits
  <1>6. UNCHANGED <<now, lock, lease>>
    BY DEF ChildExits
  <1>7. proc' \in [Procs -> Proc]
    <2>1. proc'[p] \in Proc
      BY <1>2 DEF Proc, ChildExits
    <2> QED BY <1>2, <2>1 DEF ChildExits
  <1>8. TypeOK'
    BY <1>1, <1>5, <1>6, <1>7 DEF TypeOK
  <1>9. LockHeld'
    BY <1>1, <1>3, <1>4, <1>6 DEF LockHeld, Holding
  <1>10. ChildSupervised'
    BY <1>1, <1>2, <1>3, <1>5 DEF ChildSupervised
  <1>11. BeatAlive'
    BY <1>1, <1>3, <1>4 DEF BeatAlive, Rowed
  <1>12. RowKept'
    BY <1>1, <1>3, <1>4, <1>6 DEF RowKept
  <1>13. ExpiryBound'
    BY <1>1, <1>6 DEF ExpiryBound
  <1>14. StalledIsLate'
    BY <1>1, <1>3, <1>4 DEF StalledIsLate
  <1>15. Covered'
    BY <1>1, <1>3, <1>4, <1>6 DEF Covered
  <1> QED BY <1>8, <1>9, <1>10, <1>11, <1>12, <1>13, <1>14, <1>15 DEF OperationInv

\* Accept (wait_for_authority_state) keeps the invariant.
LEMMA AcceptKeeps == ASSUME ConstantsOK, OperationInv, NEW p \in Procs, Accept(p) PROVE OperationInv'
  <1>1. TypeOK /\ LockHeld /\ ChildSupervised /\ BeatAlive /\ RowKept /\ ExpiryBound /\ StalledIsLate /\ Covered
    BY DEF OperationInv
  <1>2. /\ proc \in [Procs -> Proc] /\ proc[p] \in Proc /\ now \in 0..MaxTime
        /\ lease.expires \in Nat /\ lease.expires <= MaxTime + Ttl /\ child \subseteq Procs
    BY <1>1 DEF TypeOK
  <1>3. \A q \in Procs : q # p => proc'[q] = proc[q]
    BY <1>2 DEF Accept
  <1>4. /\ proc'[p].pc = (IF Active(p) THEN "leased" ELSE "unlease") /\ proc'[p].beat = proc[p].beat /\ proc'[p].check = 0
        /\ proc'[p].failing = -1 /\ proc'[p].stalled = proc[p].stalled /\ proc'[p].late = FALSE
    BY <1>2 DEF Accept
  <1>5. UNCHANGED <<now, lock, lease, child>>
    BY DEF Accept
  <1>6. proc[p].pc = "exited" /\ proc[p].stalled = FALSE
    BY DEF At, Accept
  <1>7. proc' \in [Procs -> Proc]
    <2>1. 0 \in 0..(MaxTime + Poll)
      BY DEF ConstantsOK
    <2>2. [proc[p] EXCEPT !.pc = IF Active(p) THEN "leased" ELSE "unlease", !.check = 0, !.failing = -1, !.late = FALSE] \in Proc
      BY <1>2, <2>1 DEF Proc
    <2> QED BY <1>2, <2>2 DEF Accept
  <1>8. TypeOK'
    BY <1>1, <1>5, <1>7 DEF TypeOK
  <1>9. LockHeld'
    BY <1>1, <1>3, <1>4, <1>5, <1>6 DEF LockHeld, Holding
  <1>10. ChildSupervised'
    BY <1>1, <1>2, <1>3, <1>5, <1>6 DEF ChildSupervised
  <1>11. BeatAlive'
    BY <1>1, <1>3, <1>4 DEF BeatAlive, Rowed
  <1>12. RowKept'
    BY <1>1, <1>3, <1>5, <1>6 DEF RowKept
  <1>13. ExpiryBound'
    BY <1>1, <1>5 DEF ExpiryBound
  <1>14. StalledIsLate'
    BY <1>1, <1>3, <1>4, <1>6 DEF StalledIsLate
  <1>15. Covered'
    BY <1>1, <1>3, <1>4, <1>5 DEF Covered
  <1> QED BY <1>8, <1>9, <1>10, <1>11, <1>12, <1>13, <1>14, <1>15 DEF OperationInv

\* Unlease (the row goes) keeps the invariant.
LEMMA UnleaseKeeps == ASSUME ConstantsOK, OperationInv, NEW p \in Procs, Unlease(p) PROVE OperationInv'
  <1>1. TypeOK /\ LockHeld /\ ChildSupervised /\ BeatAlive /\ RowKept /\ ExpiryBound /\ StalledIsLate /\ Covered
    BY DEF OperationInv
  <1>2. /\ proc \in [Procs -> Proc] /\ proc[p] \in Proc /\ now \in 0..MaxTime
        /\ lease.expires \in Nat /\ lease.expires <= MaxTime + Ttl /\ child \subseteq Procs
    BY <1>1 DEF TypeOK
  <1>3. \A q \in Procs : q # p => proc'[q] = proc[q]
    BY <1>2 DEF Unlease
  <1>4. /\ proc'[p].pc = "unlock" /\ proc'[p].beat = -1 /\ proc'[p].check = proc[p].check
        /\ proc'[p].failing = proc[p].failing /\ proc'[p].stalled = proc[p].stalled /\ proc'[p].late = proc[p].late
    BY <1>2 DEF Unlease
  <1>5. lease' = lease \/ lease' = NoLease
    BY DEF Unlease
  <1>6. UNCHANGED <<now, lock, child>>
    BY DEF Unlease
  <1>7. proc[p].pc = "unlease"
    BY DEF At, Unlease
  <1>8. proc' \in [Procs -> Proc]
    <2>1. proc'[p] \in Proc
      BY <1>2, Intervals DEF ConstantsOK, Proc, At, Goto, Stopped, Idle, Extended, Owns, Gate,
         Alive, Unlease
    <2> QED BY <1>2, <2>1 DEF Unlease
  <1>9. TypeOK'
    BY <1>1, <1>5, <1>6, <1>8 DEF ConstantsOK, TypeOK, NoLease
  <1>10. LockHeld'
    BY <1>1, <1>3, <1>4, <1>6, <1>7 DEF LockHeld, Holding
  <1>11. ChildSupervised'
    BY <1>1, <1>2, <1>3, <1>6, <1>7 DEF ChildSupervised
  <1>12. BeatAlive'
    BY <1>1, <1>3, <1>4 DEF BeatAlive
  <1>13. RowKept'
    BY <1>1, <1>3, <1>4, <1>7 DEF RowKept, LockHeld, Holding
  <1>14. ExpiryBound'
    BY <1>1, <1>2, <1>5, <1>6 DEF ConstantsOK, ExpiryBound, NoLease
  <1>15. StalledIsLate'
    BY <1>1, <1>3, <1>4 DEF StalledIsLate
  <1>16. Covered'
    BY <1>1, <1>3, <1>4, <1>7 DEF Covered, LockHeld, Holding
  <1> QED BY <1>9, <1>10, <1>11, <1>12, <1>13, <1>14, <1>15, <1>16 DEF OperationInv

\* Unlock (the lock goes) keeps the invariant.
LEMMA UnlockKeeps == ASSUME ConstantsOK, OperationInv, NEW p \in Procs, Unlock(p) PROVE OperationInv'
  <1>1. TypeOK /\ LockHeld /\ ChildSupervised /\ BeatAlive /\ RowKept /\ ExpiryBound /\ StalledIsLate /\ Covered
    BY DEF OperationInv
  <1>2. /\ proc \in [Procs -> Proc] /\ proc[p] \in Proc /\ now \in 0..MaxTime
        /\ lease.expires \in Nat /\ lease.expires <= MaxTime + Ttl /\ child \subseteq Procs
    BY <1>1 DEF TypeOK
  <1>3. \A q \in Procs : q # p => proc'[q] = proc[q]
    BY DEF Unlock
  <1>4. /\ proc'[p].pc = "done" /\ proc'[p].beat = -1 /\ proc'[p].check = 0
        /\ proc'[p].failing = -1 /\ proc'[p].stalled = FALSE /\ proc'[p].late = FALSE
    BY <1>2 DEF Idle, Unlock
  <1>5. lock' = IF lock = p THEN None ELSE lock
    BY DEF Unlock
  <1>6. UNCHANGED <<now, lease, child>>
    BY DEF Unlock
  <1>7. proc[p].pc = "unlock"
    BY DEF At, Unlock
  <1>8. proc' \in [Procs -> Proc]
    <2>1. proc'[p] \in Proc
      BY <1>2 DEF ConstantsOK, Proc, Idle, Unlock
    <2> QED BY <1>2, <2>1 DEF Unlock
  <1>9. TypeOK'
    BY <1>1, <1>5, <1>6, <1>8 DEF TypeOK
  <1>10. LockHeld'
    BY <1>1, <1>3, <1>4, <1>5 DEF ConstantsOK, LockHeld, Holding
  <1>11. ChildSupervised'
    BY <1>1, <1>2, <1>3, <1>6, <1>7 DEF ChildSupervised
  <1>12. BeatAlive'
    BY <1>1, <1>3, <1>4 DEF BeatAlive
  <1>13. RowKept'
    BY <1>1, <1>3, <1>4, <1>6 DEF RowKept
  <1>14. ExpiryBound'
    BY <1>1, <1>6 DEF ExpiryBound
  <1>15. StalledIsLate'
    BY <1>1, <1>3, <1>4 DEF StalledIsLate
  <1>16. Covered'
    BY <1>1, <1>3, <1>4, <1>6 DEF Covered
  <1> QED BY <1>9, <1>10, <1>11, <1>12, <1>13, <1>14, <1>15, <1>16 DEF OperationInv

\* Stop (a process that dies) keeps the invariant.
LEMMA StopKeeps == ASSUME ConstantsOK, OperationInv, NEW p \in Procs, Stop(p) PROVE OperationInv'
  <1>1. TypeOK /\ LockHeld /\ ChildSupervised /\ BeatAlive /\ RowKept /\ ExpiryBound /\ StalledIsLate /\ Covered
    BY DEF OperationInv
  <1>2. /\ proc \in [Procs -> Proc] /\ proc[p] \in Proc /\ now \in 0..MaxTime
        /\ lease.expires \in Nat /\ lease.expires <= MaxTime + Ttl /\ child \subseteq Procs
    BY <1>1 DEF TypeOK
  <1>3. \A q \in Procs : q # p => proc'[q] = proc[q]
    BY DEF Stop
  <1>4. /\ proc'[p].pc = "dead" /\ proc'[p].beat = -1 /\ proc'[p].check = 0
        /\ proc'[p].failing = -1 /\ proc'[p].stalled = FALSE /\ proc'[p].late = FALSE
    BY <1>2 DEF Idle, Stop
  <1>5. lock' = IF lock = p THEN None ELSE lock
    BY DEF Stop
  <1>6. UNCHANGED <<now, lease, child>>
    BY DEF Stop
  <1>7. proc' \in [Procs -> Proc]
    <2>1. proc'[p] \in Proc
      BY <1>2 DEF ConstantsOK, Proc, Idle, Stop
    <2> QED BY <1>2, <2>1 DEF Stop
  <1>8. TypeOK'
    BY <1>1, <1>5, <1>6, <1>7 DEF TypeOK
  <1>9. LockHeld'
    BY <1>1, <1>3, <1>4, <1>5 DEF ConstantsOK, LockHeld, Holding
  <1>10. ChildSupervised'
    BY <1>1, <1>2, <1>3, <1>4, <1>6 DEF ChildSupervised
  <1>11. BeatAlive'
    BY <1>1, <1>3, <1>4 DEF BeatAlive
  <1>12. RowKept'
    BY <1>1, <1>3, <1>4, <1>6 DEF RowKept
  <1>13. ExpiryBound'
    BY <1>1, <1>6 DEF ExpiryBound
  <1>14. StalledIsLate'
    BY <1>1, <1>3, <1>4 DEF StalledIsLate
  <1>15. Covered'
    BY <1>1, <1>3, <1>4, <1>6 DEF Covered
  <1> QED BY <1>8, <1>9, <1>10, <1>11, <1>12, <1>13, <1>14, <1>15 DEF OperationInv

\* Stall (a process that is stalled) keeps the invariant.
LEMMA StallKeeps == ASSUME ConstantsOK, OperationInv, NEW p \in Procs, Stall(p) PROVE OperationInv'
  <1>1. TypeOK /\ LockHeld /\ ChildSupervised /\ BeatAlive /\ RowKept /\ ExpiryBound /\ StalledIsLate /\ Covered
    BY DEF OperationInv
  <1>2. /\ proc \in [Procs -> Proc] /\ proc[p] \in Proc /\ now \in 0..MaxTime
        /\ lease.expires \in Nat /\ lease.expires <= MaxTime + Ttl /\ child \subseteq Procs
    BY <1>1 DEF TypeOK
  <1>3. \A q \in Procs : q # p => proc'[q] = proc[q]
    BY <1>2 DEF Stall
  <1>4. /\ proc'[p].pc = proc[p].pc /\ proc'[p].beat = proc[p].beat /\ proc'[p].check = proc[p].check
        /\ proc'[p].failing = proc[p].failing /\ proc'[p].stalled = TRUE /\ proc'[p].late = TRUE
    BY <1>2 DEF Stall
  <1>5. UNCHANGED <<now, lock, lease, child>>
    BY DEF Stall
  <1>6. proc' \in [Procs -> Proc]
    <2>1. proc'[p] \in Proc
      BY <1>2, Intervals DEF ConstantsOK, Proc, At, Goto, Stopped, Idle, Extended, Owns, Gate,
         Alive, Stall
    <2> QED BY <1>2, <2>1 DEF Stall
  <1>7. TypeOK'
    BY <1>1, <1>5, <1>6 DEF TypeOK
  <1>8. LockHeld'
    BY <1>1, <1>3, <1>4, <1>5 DEF LockHeld
  <1>9. ChildSupervised'
    BY <1>1, <1>2, <1>3, <1>4, <1>5 DEF ChildSupervised
  <1>10. BeatAlive'
    BY <1>1, <1>3, <1>4 DEF BeatAlive
  <1>11. RowKept'
    BY <1>1, <1>3, <1>4, <1>5 DEF RowKept
  <1>12. ExpiryBound'
    BY <1>1, <1>5 DEF ExpiryBound
  <1>13. StalledIsLate'
    BY <1>1, <1>3, <1>4 DEF StalledIsLate
  <1>14. Covered'
    BY <1>1, <1>3, <1>4, <1>5 DEF Covered
  <1> QED BY <1>7, <1>8, <1>9, <1>10, <1>11, <1>12, <1>13, <1>14 DEF OperationInv

\* Resume (a process that resumes) keeps the invariant.
LEMMA ResumeKeeps == ASSUME ConstantsOK, OperationInv, NEW p \in Procs, Resume(p) PROVE OperationInv'
  <1>1. TypeOK /\ LockHeld /\ ChildSupervised /\ BeatAlive /\ RowKept /\ ExpiryBound /\ StalledIsLate /\ Covered
    BY DEF OperationInv
  <1>2. /\ proc \in [Procs -> Proc] /\ proc[p] \in Proc /\ now \in 0..MaxTime
        /\ lease.expires \in Nat /\ lease.expires <= MaxTime + Ttl /\ child \subseteq Procs
    BY <1>1 DEF TypeOK
  <1>3. \A q \in Procs : q # p => proc'[q] = proc[q]
    BY DEF Resume
  <1>4. /\ proc'[p].pc = proc[p].pc /\ proc'[p].beat = proc[p].beat /\ proc'[p].check = proc[p].check
        /\ proc'[p].failing = proc[p].failing /\ proc'[p].stalled = FALSE /\ proc'[p].late = proc[p].late
    BY <1>2 DEF Resume
  <1>5. UNCHANGED <<now, lock, lease, child>>
    BY DEF Resume
  <1>6. proc' \in [Procs -> Proc]
    <2>1. proc'[p] \in Proc
      BY <1>2, Intervals DEF ConstantsOK, Proc, At, Goto, Stopped, Idle, Extended, Owns, Gate,
         Alive, Resume
    <2> QED BY <1>2, <2>1 DEF Resume
  <1>7. TypeOK'
    BY <1>1, <1>5, <1>6 DEF TypeOK
  <1>8. LockHeld'
    BY <1>1, <1>3, <1>4, <1>5 DEF LockHeld
  <1>9. ChildSupervised'
    BY <1>1, <1>2, <1>3, <1>4, <1>5 DEF ChildSupervised
  <1>10. BeatAlive'
    BY <1>1, <1>3, <1>4 DEF BeatAlive
  <1>11. RowKept'
    BY <1>1, <1>3, <1>4, <1>5 DEF RowKept
  <1>12. ExpiryBound'
    BY <1>1, <1>5 DEF ExpiryBound
  <1>13. StalledIsLate'
    BY <1>1, <1>3, <1>4 DEF StalledIsLate
  <1>14. Covered'
    BY <1>1, <1>3, <1>4, <1>5 DEF Covered
  <1> QED BY <1>7, <1>8, <1>9, <1>10, <1>11, <1>12, <1>13, <1>14 DEF OperationInv

\* Tick keeps the invariant: what is due is done before time goes on.
LEMMA TickKeeps == ASSUME ConstantsOK, OperationInv, Tick PROVE OperationInv'
  <1>1. TypeOK /\ LockHeld /\ ChildSupervised /\ BeatAlive /\ RowKept /\ ExpiryBound /\ StalledIsLate /\ Covered
    BY DEF OperationInv
  <1>2. /\ now \in 0..MaxTime /\ now' \in 0..MaxTime /\ now' = now + 1
        /\ lease.expires \in Nat /\ proc \in [Procs -> Proc]
    BY <1>1 DEF TypeOK, ConstantsOK, Tick
  <1>3. UNCHANGED <<lock, lease, proc, child>>
    BY DEF Tick
  <1>4. TypeOK'
    BY <1>1, <1>2, <1>3 DEF TypeOK
  <1>5. ExpiryBound'
    BY <1>1, <1>2, <1>3 DEF ExpiryBound, ConstantsOK
  <1>6. Covered'
    <2> SUFFICES ASSUME NEW p \in Procs, ~proc[p].late
                 PROVE  /\ proc[p].pc # "authorized"
                        /\ proc[p].pc = "command" => now < proc[p].check
      BY <1>1, <1>2, <1>3 DEF Covered, Proc
    <2>1. ~proc[p].stalled
      BY <1>1 DEF StalledIsLate
    <2> QED BY <2>1 DEF Tick, Timely
  <1> QED BY <1>3, <1>4, <1>5, <1>6 DEF OperationInv, LockHeld, ChildSupervised, BeatAlive, RowKept,
            StalledIsLate

-----------------------------------------------------------------------------
(* The theorem *)

LEMMA OperationInit == ASSUME ConstantsOK, Init PROVE OperationInv
  <1>1. Idle("wait") \in Proc
    BY DEF ConstantsOK, Idle, Proc
  <1>2. NoLease \in [owner : Procs \cup {None}, expires : 0..(MaxTime + Ttl)]
    BY DEF ConstantsOK, NoLease
  <1>3. TypeOK
    BY <1>1, <1>2 DEF Init, TypeOK, ConstantsOK
  <1>4. \A p \in Procs : proc[p] = Idle("wait")
    BY DEF Init
  <1> QED BY <1>3 DEF Init, OperationInv, ConstantsOK, LockHeld, ChildSupervised, BeatAlive,
            RowKept, ExpiryBound, StalledIsLate, Covered, Idle, NoLease, Holding

LEMMA OperationNext == ASSUME ConstantsOK, OperationInv, [Next]_vars PROVE OperationInv'
  <1>1. CASE UNCHANGED vars
    BY <1>1 DEF vars, OperationInv, TypeOK, LockHeld, ChildSupervised, BeatAlive, RowKept,
       ExpiryBound, StalledIsLate, Covered
  <1>2. CASE Next
    BY <1>2, TickKeeps, TryLockKeeps, GiveUpKeeps, TakeLeaseKeeps, VerifyFailsKeeps, RenewKeeps,
       MutateKeeps, AuthorizeKeeps, SpawnKeeps, CheckLostKeeps, CheckActiveKeeps, CheckBusyKeeps,
       TimeOutKeeps, ChildExitsKeeps, AcceptKeeps, FinishKeeps, UnleaseKeeps, UnlockKeeps,
       StopKeeps, StallKeeps, ResumeKeeps DEF Next
  <1> QED BY <1>1, <1>2

\* The invariant gives what an operation relies on while its command runs.
LEMMA OperationExact == ASSUME ConstantsOK, OperationInv PROVE CommandExact
  <1>1. TypeOK /\ LockHeld /\ ChildSupervised /\ RowKept /\ Covered
    BY DEF OperationInv
  <1>2. CommandLocked
    BY <1>1 DEF CommandLocked, LockHeld, ChildSupervised, TypeOK, Holding
  <1>3. CommandCovered
    BY <1>1 DEF CommandCovered, Covered, RowKept, TypeOK, Proc, At, ConstantsOK
  <1> QED BY <1>1, <1>2, <1>3 DEF CommandExact

\* With the intervals of the code, a supervised command runs under the operation lock of
\* its process and a row that lives, whatever the number of processes, stalls, refused
\* reads and deaths (command_output_timeout, LeaseHeartbeat, acquire_repo_operation_lease).
THEOREM CommandsCovered == ASSUME ConstantsOK PROVE Spec => []CommandExact
  <1>1. Init => OperationInv
    BY OperationInit
  <1>2. OperationInv /\ [Next]_vars => OperationInv'
    BY OperationNext
  <1>3. OperationInv => CommandExact
    BY OperationExact
  <1> QED BY <1>1, <1>2, <1>3, PTL DEF Spec
=============================================================================
