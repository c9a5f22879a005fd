-------------------------- MODULE ReplicationProofs --------------------------
(***************************************************************************)
(* Proofs about Replication, for every number of landings and whatever     *)
(* others write: debts are applied in order, a late push takes no replica  *)
(* back, and a source stays pinned as long as it may be pushed; and about  *)
(* StateProjection, for every number of events, failures and comments: the *)
(* issue of an item shows what the rows say it shows.                      *)
(***************************************************************************)
EXTENDS MCReplication, Sequences, TLAPS

-----------------------------------------------------------------------------
(* The inductive invariant *)

\* An application of the debt was begun, or is over.
Begun(d) == debts[d].op = "advance_exact_target"
Over(d) == debts[d].outcome \in {"applied", "succeeded"}

\* The row of a debt that was never begun or pinned says so, and a debt that may
\* still be pushed is pinned, one that failed after its pin included.
RowsExact ==
  \A d \in Seqs :
    /\ debts[d].op = "pin_source" => debts[d].outcome \in {"absent", "pinning", "failed"}
    /\ debts[d].outcome = "absent" => debts[d].op = "pin_source"
    /\ Unfinished(d) /\ debts[d].op # "pin_source" /\ debts[d].outcome # "applied" => d \in pins

\* A debt is begun only after all older ones are finished.  FinishedInOrder does not
\* say so of a debt that was begun and failed.
BegunInOrder ==
  \A d, e \in Seqs : e < d /\ (Begun(d) \/ Over(d)) => Finished(e)

\* What the replica shows of ours was begun, and every application starts from
\* something the replica has shown, never from a younger landing.
StartsFromShown ==
  /\ \A d \in Seqs : d \in shown => Begun(d)
  /\ \A d \in Seqs : Begun(d) =>
       /\ debts[d].expected \in shown
       /\ debts[d].expected \in Seqs => debts[d].expected < d
  /\ \A m \in flight :
       /\ Begun(m.source)
       /\ m.expected \in shown
       /\ m.expected \in Seqs => m.expected < m.source

\* A push of a debt that is over finds another value than the one it expects.
LateHarmless ==
  \A m \in flight : Over(m.source) => m.expected # replica

\* Steps between the order check and the end of the application.
Applying == {"observe", "decide", "push", "pushing", "verify", "judge"}

\* What a run has read is still so: nobody else changes rows, and once the replica has
\* shown the source no push on its way can change the replica.
RunCurrent ==
  /\ run.pc # "idle" => Unfinished(run.debt)
  /\ run.pc = "pinned" => D.op = "pin_source" /\ run.debt \in pins
  /\ run.pc \in Applying \cup {"order"} => D.op # "pin_source" /\ D.outcome # "applied"
  /\ run.pc \in Applying => \A e \in Seqs : e < run.debt => Finished(e)
  /\ run.pc \in {"push", "pushing", "verify", "judge"} => D.outcome = "applying"
  /\ run.pc \in {"decide", "judge"} =>
       /\ run.seen \in shown
       /\ run.seen = run.debt => \A m \in flight : m.expected # replica
  /\ run.pc \in {"cleanup", "cleaned"} => D.outcome = "applied"
  /\ run.pc = "cleaned" => run.debt \notin pins

\* ReplicationInv: the strengthening that makes the properties inductive.
ReplicationInv ==
  /\ TypeOK
  /\ RowsExact
  /\ BegunInOrder
  /\ StartsFromShown
  /\ LateHarmless
  /\ RunCurrent
  /\ AppliedWasShown
  /\ PinHeld

-----------------------------------------------------------------------------
(* The steps *)

\* Where the run goes, and what it notes, stays in its type.
LEMMA RunTyped ==
  ASSUME TypeOK, NEW pc \in Pc, NEW s \in Commits, NEW f \in BOOLEAN,
         \/ run' = [run EXCEPT !.pc = pc]
         \/ run' = [run EXCEPT !.pc = pc, !.seen = s]
         \/ run' = [run EXCEPT !.pc = pc, !.failed = f]
  PROVE  run' \in RunRow /\ (run.debt \in Seqs => run'.debt \in Seqs)
  BY DEF TypeOK, RunRow

\* The rows satisfy the constraints of the table.
RowsTyped ==
  /\ debts \in [Seqs -> Row]
  /\ \A d \in Seqs : /\ debts[d].outcome = "pinning" => debts[d].op = "pin_source"
                     /\ debts[d].outcome \in {"applying", "uncertain"} =>
                          debts[d].op = "advance_exact_target"
                     /\ debts[d].outcome # "absent" =>
                          \A e \in Seqs : e < d => debts[e].outcome # "absent"

RunIsTyped == run \in RunRow /\ (run.pc # "idle" => run.debt \in Seqs)

\* An outcome that the operation of the row admits.
LEMMA StoreTyped ==
  ASSUME TypeOK, run.debt \in Seqs, NEW o \in Outcome \ {"absent", "pinning"}, Store(o),
         D.outcome # "absent", o \in {"applying", "uncertain"} => Begun(run.debt)
  PROVE  RowsTyped'
  BY DEF TypeOK, RowsTyped, Begun, Row, Store, D

\* A step of the run that changes nothing else.
LEMMA RunOnly ==
  ASSUME ReplicationInv, RunIsTyped', RunCurrent',
         UNCHANGED <<debts, pins, replica, shown, flight>>
  PROVE  ReplicationInv'
  BY DEF ReplicationInv, TypeOK, RunIsTyped, RowsExact, BegunInOrder, StartsFromShown, LateHarmless,
         AppliedWasShown, PinHeld, Begun, Over, Finished, Unfinished

LEMMA InvLand ==
  ASSUME ReplicationInv, Land
  PROVE  ReplicationInv'
  <1> USE DEF ReplicationInv, Land, At, D
  <1>1. RowsTyped'
    BY DEF TypeOK, RowsTyped, Row, RowsExact, Outcome
  <1>2. TypeOK'
    BY <1>1 DEF TypeOK, RowsTyped
  <1>3. RowsExact' /\ PinHeld'
    BY DEF RowsExact, PinHeld, Unfinished
  <1>4. BegunInOrder'
    BY DEF BegunInOrder, Begun, Over, Finished
  <1>5. StartsFromShown'
    BY DEF StartsFromShown, Begun
  <1>6. LateHarmless'
    BY DEF LateHarmless, Over
  <1>7. RunCurrent'
    BY DEF RunCurrent, Finished
  <1>8. AppliedWasShown'
    BY DEF AppliedWasShown
  <1> QED BY <1>2, <1>3, <1>4, <1>5, <1>6, <1>7, <1>8

LEMMA InvStart ==
  ASSUME ReplicationInv, NEW d \in Seqs, Start(d)
  PROVE  ReplicationInv'
  <1> USE DEF Start
  <1>1. RunIsTyped'
    BY MaxDebtAssumption DEF RunIsTyped, RunRow, Pc, Commits, Seqs
  <1>2. RunCurrent'
    BY DEF RunCurrent, Applying, Unfinished
  <1> QED BY <1>1, <1>2, RunOnly

LEMMA InvLoad ==
  ASSUME ReplicationInv, Load
  PROVE  ReplicationInv'
  <1> USE DEF ReplicationInv, Load, At, Goto, Store, D
  <1>1. RunIsTyped'
    BY RunTyped DEF TypeOK, RunIsTyped, Pc
  <1>2. RunCurrent'
    BY DEF RunCurrent, Applying, Unfinished
  <1> QED BY <1>1, <1>2, RunOnly

LEMMA InvPublishPin ==
  ASSUME ReplicationInv, PublishPin
  PROVE  ReplicationInv'
  <1> USE DEF ReplicationInv, PublishPin, At, Goto, Store, D
  <1>1. RunIsTyped'
    BY RunTyped DEF TypeOK, RunIsTyped, Pc
  <1>2. TypeOK'
    BY <1>1 DEF TypeOK, RunIsTyped
  <1>3. RowsExact' /\ PinHeld'
    BY DEF RowsExact, PinHeld, RunCurrent, Unfinished
  <1>4. StartsFromShown'
    BY DEF StartsFromShown, Begun
  <1>5. LateHarmless'
    BY DEF LateHarmless, Over
  <1>6. RunCurrent'
    BY DEF RunCurrent, Applying, Unfinished
  <1> QED BY <1>2, <1>3, <1>4, <1>5, <1>6 DEF BegunInOrder, Begun, Over, Finished, AppliedWasShown

LEMMA InvPinFails ==
  ASSUME ReplicationInv, PinFails
  PROVE  ReplicationInv'
  <1> USE DEF ReplicationInv, PinFails, At, Goto, Store, D
  <1>1. RowsTyped'
    BY StoreTyped DEF TypeOK, RowsExact, RunCurrent, Applying, Unfinished, Outcome, Begun
  <1>2. RunIsTyped'
    BY RunTyped DEF TypeOK, RunIsTyped, Pc
  <1>3. TypeOK'
    BY <1>1, <1>2 DEF TypeOK, RowsTyped, RunIsTyped
  <1>4. RowsExact' /\ PinHeld'
    BY DEF RowsExact, PinHeld, Unfinished
  <1>5. BegunInOrder'
    BY DEF BegunInOrder, RunCurrent, Begun, Over, Finished, Unfinished
  <1>6. StartsFromShown'
    BY DEF StartsFromShown, Begun
  <1>7. LateHarmless'
    BY DEF LateHarmless, Over
  <1>8. RunCurrent'
    BY DEF RunCurrent, Applying
  <1>9. AppliedWasShown'
    BY DEF AppliedWasShown
  <1> QED BY <1>3, <1>4, <1>5, <1>6, <1>7, <1>8, <1>9

LEMMA InvCompletePin ==
  ASSUME ReplicationInv, CompletePin
  PROVE  ReplicationInv'
  <1> USE DEF ReplicationInv, CompletePin, At, Goto, Store, D
  <1>1. RowsTyped'
    BY DEF TypeOK, RowsTyped, Row
  <1>2. RunIsTyped'
    BY RunTyped DEF TypeOK, RunIsTyped, Pc
  <1>3. TypeOK'
    BY <1>1, <1>2 DEF TypeOK, RowsTyped, RunIsTyped
  <1>4. RowsExact' /\ PinHeld'
    BY DEF TypeOK, RowsExact, PinHeld, RunCurrent, Unfinished
  <1>5. BegunInOrder'
    BY DEF TypeOK, BegunInOrder, RunCurrent, Begun, Over, Finished, Unfinished
  <1>6. StartsFromShown'
    BY DEF TypeOK, Push, StartsFromShown, RunCurrent, Begun
  <1>7. LateHarmless'
    BY DEF TypeOK, Push, LateHarmless, Over
  <1>8. RunCurrent'
    BY DEF TypeOK, RunCurrent, Applying, Unfinished
  <1>9. AppliedWasShown'
    BY DEF TypeOK, AppliedWasShown
  <1> QED BY <1>3, <1>4, <1>5, <1>6, <1>7, <1>8, <1>9

LEMMA InvOrder ==
  ASSUME ReplicationInv, Order
  PROVE  ReplicationInv'
  <1> USE DEF ReplicationInv, Order, At, Goto, Store, D
  <1>1. RunIsTyped'
    BY RunTyped DEF TypeOK, RunIsTyped, Pc
  <1>2. RunCurrent'
    BY DEF TypeOK, RunCurrent, Applying, Finished, Unfinished, Older
  <1> QED BY <1>1, <1>2, RunOnly

LEMMA InvObserve ==
  ASSUME ReplicationInv, Observe
  PROVE  ReplicationInv'
  <1> USE DEF ReplicationInv, Observe, At, Goto, Store, D
  <1>1. RunIsTyped'
    BY RunTyped DEF TypeOK, RunIsTyped, Pc
  <1>2. RunCurrent'
    BY DEF TypeOK, Push, RunCurrent, StartsFromShown, BegunInOrder, Applying, Finished, Unfinished
  <1> QED BY <1>1, <1>2, RunOnly

LEMMA InvObserveFails ==
  ASSUME ReplicationInv, ObserveFails
  PROVE  ReplicationInv'
  <1> USE DEF ReplicationInv, ObserveFails, At, Goto, Store, D
  <1>1. RowsTyped'
    BY StoreTyped DEF TypeOK, RowsExact, RunCurrent, Applying, Unfinished, Outcome, Begun
  <1>2. RunIsTyped'
    BY RunTyped DEF TypeOK, RunIsTyped, Pc
  <1>3. TypeOK'
    BY <1>1, <1>2 DEF TypeOK, RowsTyped, RunIsTyped
  <1>4. RowsExact' /\ PinHeld'
    BY DEF RowsExact, PinHeld, RunCurrent, Applying, Unfinished
  <1>5. BegunInOrder'
    BY DEF BegunInOrder, RunCurrent, Begun, Over, Finished, Unfinished
  <1>6. StartsFromShown'
    BY DEF StartsFromShown, Begun
  <1>7. LateHarmless'
    BY DEF LateHarmless, Over
  <1>8. RunCurrent'
    BY DEF RunCurrent, Applying
  <1>9. AppliedWasShown'
    BY DEF AppliedWasShown
  <1> QED BY <1>3, <1>4, <1>5, <1>6, <1>7, <1>8, <1>9

LEMMA InvApplied ==
  ASSUME ReplicationInv, Applied
  PROVE  ReplicationInv'
  <1> USE DEF ReplicationInv, Applied, At, Goto, Store, D
  <1>1. RowsTyped'
    BY StoreTyped DEF TypeOK, RowsExact, RunCurrent, Applying, Unfinished, Outcome, Begun
  <1>2. RunIsTyped'
    BY RunTyped DEF TypeOK, RunIsTyped, Pc
  <1>3. TypeOK'
    BY <1>1, <1>2 DEF TypeOK, RowsTyped, RunIsTyped
  <1>4. RowsExact' /\ PinHeld'
    BY DEF RowsExact, PinHeld, RunCurrent, Applying, Unfinished
  <1>5. BegunInOrder'
    BY DEF BegunInOrder, RunCurrent, Applying, Begun, Over, Finished, Unfinished
  <1>6. StartsFromShown'
    BY DEF StartsFromShown, Begun
  <1>7. LateHarmless'
    BY DEF LateHarmless, RunCurrent
  <1>8. RunCurrent'
    BY DEF TypeOK, RunCurrent, Applying, Unfinished
  <1>9. AppliedWasShown'
    BY DEF AppliedWasShown, RunCurrent
  <1> QED BY <1>3, <1>4, <1>5, <1>6, <1>7, <1>8, <1>9

LEMMA InvDiverged ==
  ASSUME ReplicationInv, Diverged
  PROVE  ReplicationInv'
  <1> USE DEF ReplicationInv, Diverged, At, Goto, Store, D
  <1>1. RowsTyped'
    BY StoreTyped DEF TypeOK, RowsExact, RunCurrent, Applying, Unfinished, Outcome, Begun
  <1>2. RunIsTyped'
    BY RunTyped DEF TypeOK, RunIsTyped, Pc
  <1>3. TypeOK'
    BY <1>1, <1>2 DEF TypeOK, RowsTyped, RunIsTyped
  <1>4. RowsExact' /\ PinHeld'
    BY DEF RowsExact, PinHeld, Unfinished
  <1>5. BegunInOrder'
    BY DEF BegunInOrder, Begun, Over, Finished
  <1>6. StartsFromShown'
    BY DEF StartsFromShown, Begun
  <1>7. LateHarmless'
    BY DEF LateHarmless, Over
  <1>8. RunCurrent'
    BY DEF RunCurrent, Applying
  <1>9. AppliedWasShown'
    BY DEF AppliedWasShown
  <1> QED BY <1>3, <1>4, <1>5, <1>6, <1>7, <1>8, <1>9

LEMMA InvResume ==
  ASSUME ReplicationInv, Resume
  PROVE  ReplicationInv'
  <1> USE DEF ReplicationInv, Resume, At, Goto, Store, D
  <1>1. RowsTyped'
    BY StoreTyped DEF TypeOK, RowsExact, RunCurrent, Applying, Unfinished, Outcome, Begun
  <1>2. RunIsTyped'
    BY RunTyped DEF TypeOK, RunIsTyped, Pc
  <1>3. TypeOK'
    BY <1>1, <1>2 DEF TypeOK, RowsTyped, RunIsTyped
  <1>4. RowsExact' /\ PinHeld'
    BY DEF RowsExact, PinHeld, Unfinished
  <1>5. BegunInOrder'
    BY DEF BegunInOrder, Begun, Over, Finished
  <1>6. StartsFromShown'
    BY DEF StartsFromShown, Begun
  <1>7. LateHarmless'
    BY DEF LateHarmless, Over
  <1>8. RunCurrent'
    BY DEF TypeOK, RunCurrent, Applying, Finished, Unfinished
  <1>9. AppliedWasShown'
    BY DEF AppliedWasShown
  <1> QED BY <1>3, <1>4, <1>5, <1>6, <1>7, <1>8, <1>9

LEMMA InvBegin ==
  ASSUME ReplicationInv, Begin
  PROVE  ReplicationInv'
  <1> USE DEF ReplicationInv, Begin, At, Goto, Store, D
  <1>1. RowsTyped'
    BY DEF TypeOK, RowsTyped, Row, RunRow, Outcome
  <1>2. RunIsTyped'
    BY RunTyped DEF TypeOK, RunIsTyped, Pc
  <1>3. TypeOK'
    BY <1>1, <1>2 DEF TypeOK, RowsTyped, RunIsTyped
  <1>4. RowsExact' /\ PinHeld'
    BY DEF RowsExact, PinHeld, RunCurrent, Applying, Unfinished
  <1>5. BegunInOrder'
    BY DEF BegunInOrder, RunCurrent, Applying, Begun, Over, Finished
  <1>6. StartsFromShown'
    BY DEF Seqs, StartsFromShown, BegunInOrder, RunCurrent, Begun, Finished
  <1>7. LateHarmless'
    BY DEF LateHarmless, Over
  <1>8. RunCurrent'
    BY DEF TypeOK, RunCurrent, Applying, Finished, Unfinished
  <1>9. AppliedWasShown'
    BY DEF AppliedWasShown
  <1> QED BY <1>3, <1>4, <1>5, <1>6, <1>7, <1>8, <1>9

LEMMA InvSendPush ==
  ASSUME ReplicationInv, SendPush
  PROVE  ReplicationInv'
  <1> USE DEF ReplicationInv, SendPush, At, Goto, Store, D
  <1>1. RunIsTyped'
    BY RunTyped DEF TypeOK, RunIsTyped, Pc
  <1>2. TypeOK'
    BY <1>1 DEF TypeOK, RunIsTyped, Push, Row
  <1>3. RowsExact' /\ PinHeld'
    BY DEF RowsExact, PinHeld, Unfinished
  <1>4. StartsFromShown'
    BY DEF TypeOK, StartsFromShown, RunCurrent, Begun
  <1>5. LateHarmless'
    BY DEF LateHarmless, RunCurrent, Over
  <1>6. RunCurrent'
    BY DEF RunCurrent, Applying, Finished, Unfinished
  <1> QED BY <1>2, <1>3, <1>4, <1>5, <1>6 DEF BegunInOrder, Begun, Over, Finished, AppliedWasShown

LEMMA InvSpawnFails ==
  ASSUME ReplicationInv, SpawnFails
  PROVE  ReplicationInv'
  <1> USE DEF ReplicationInv, SpawnFails, At, Goto, Store, D
  <1>1. RunIsTyped'
    BY RunTyped DEF TypeOK, RunIsTyped, Pc
  <1>2. RunCurrent'
    BY DEF RunCurrent, Applying, Finished, Unfinished
  <1> QED BY <1>1, <1>2, RunOnly

LEMMA InvTimeout ==
  ASSUME ReplicationInv, Timeout
  PROVE  ReplicationInv'
  <1> USE DEF ReplicationInv, Timeout, At, Goto, Store, D
  <1>1. RunIsTyped'
    BY RunTyped DEF TypeOK, RunIsTyped, Pc
  <1>2. RunCurrent'
    BY DEF RunCurrent, Applying, Finished, Unfinished
  <1> QED BY <1>1, <1>2, RunOnly

LEMMA InvVerify ==
  ASSUME ReplicationInv, Verify
  PROVE  ReplicationInv'
  <1> USE DEF ReplicationInv, Verify, At, Goto, Store, D
  <1>1. RunIsTyped'
    BY RunTyped DEF TypeOK, RunIsTyped, Pc
  <1>2. RunCurrent'
    BY DEF TypeOK, Push, RunCurrent, StartsFromShown, BegunInOrder, Begun, Finished, Unfinished
  <1> QED BY <1>1, <1>2, RunOnly

LEMMA InvVerifyFails ==
  ASSUME ReplicationInv, VerifyFails
  PROVE  ReplicationInv'
  <1> USE DEF ReplicationInv, VerifyFails, At, Goto, Store, D
  <1>1. RowsTyped'
    BY StoreTyped DEF TypeOK, RowsExact, RunCurrent, Applying, Unfinished, Outcome, Begun
  <1>2. RunIsTyped'
    BY RunTyped DEF TypeOK, RunIsTyped, Pc
  <1>3. TypeOK'
    BY <1>1, <1>2 DEF TypeOK, RowsTyped, RunIsTyped
  <1>4. RowsExact' /\ PinHeld'
    BY DEF RowsExact, PinHeld, RunCurrent, Unfinished
  <1>5. BegunInOrder'
    BY DEF BegunInOrder, RunCurrent, Begun, Over, Finished
  <1>6. StartsFromShown'
    BY DEF StartsFromShown, Begun
  <1>7. LateHarmless'
    BY DEF LateHarmless, Over
  <1>8. RunCurrent'
    BY DEF RunCurrent, Applying
  <1>9. AppliedWasShown'
    BY DEF AppliedWasShown
  <1> QED BY <1>3, <1>4, <1>5, <1>6, <1>7, <1>8, <1>9

LEMMA InvNotApplied ==
  ASSUME ReplicationInv, NotApplied
  PROVE  ReplicationInv'
  <1> USE DEF ReplicationInv, NotApplied, At, Goto, Store, D
  <1>1. RowsTyped'
    BY StoreTyped DEF TypeOK, RowsExact, RunCurrent, Applying, Unfinished, Outcome, Begun
  <1>2. RunIsTyped'
    BY RunTyped DEF TypeOK, RunIsTyped, Pc
  <1>3. TypeOK'
    BY <1>1, <1>2 DEF TypeOK, RowsTyped, RunIsTyped
  <1>4. RowsExact' /\ PinHeld'
    BY DEF RowsExact, PinHeld, RunCurrent, Unfinished
  <1>5. BegunInOrder'
    BY DEF BegunInOrder, RunCurrent, Begun, Over, Finished
  <1>6. StartsFromShown'
    BY DEF StartsFromShown, Begun
  <1>7. LateHarmless'
    BY DEF LateHarmless, Over
  <1>8. RunCurrent'
    BY DEF RunCurrent, Applying
  <1>9. AppliedWasShown'
    BY DEF AppliedWasShown
  <1> QED BY <1>3, <1>4, <1>5, <1>6, <1>7, <1>8, <1>9

LEMMA InvDeletePin ==
  ASSUME ReplicationInv, DeletePin
  PROVE  ReplicationInv'
  <1> USE DEF ReplicationInv, DeletePin, At, Goto, Store, D
  <1>1. RunIsTyped'
    BY RunTyped DEF TypeOK, RunIsTyped, Pc
  <1>2. TypeOK'
    BY <1>1 DEF TypeOK, RunIsTyped
  <1>3. RowsExact' /\ PinHeld'
    BY DEF RowsExact, PinHeld, RunCurrent, Unfinished
  <1>4. StartsFromShown'
    BY DEF StartsFromShown, Begun
  <1>5. LateHarmless'
    BY DEF LateHarmless, Over
  <1>6. RunCurrent'
    BY DEF RunCurrent, Applying, Unfinished
  <1> QED BY <1>2, <1>3, <1>4, <1>5, <1>6 DEF BegunInOrder, Begun, Over, Finished, AppliedWasShown

LEMMA InvSucceed ==
  ASSUME ReplicationInv, Succeed
  PROVE  ReplicationInv'
  <1> USE DEF ReplicationInv, Succeed, At, Goto, Store, D
  <1>1. RowsTyped'
    BY StoreTyped DEF TypeOK, RowsExact, RunCurrent, Applying, Unfinished, Outcome, Begun
  <1>2. RunIsTyped'
    BY RunTyped DEF TypeOK, RunIsTyped, Pc
  <1>3. TypeOK'
    BY <1>1, <1>2 DEF TypeOK, RowsTyped, RunIsTyped
  <1>4. RowsExact' /\ PinHeld'
    BY DEF RowsExact, PinHeld, RunCurrent, Unfinished
  <1>5. BegunInOrder'
    BY DEF BegunInOrder, RunCurrent, Begun, Over, Finished
  <1>6. StartsFromShown'
    BY DEF StartsFromShown, Begun
  <1>7. LateHarmless'
    BY DEF LateHarmless, RunCurrent, Over
  <1>8. RunCurrent'
    BY DEF RunCurrent, Applying
  <1>9. AppliedWasShown'
    BY DEF AppliedWasShown, RunCurrent
  <1> QED BY <1>3, <1>4, <1>5, <1>6, <1>7, <1>8, <1>9

LEMMA InvCrash ==
  ASSUME ReplicationInv, Crash
  PROVE  ReplicationInv'
  <1> USE DEF ReplicationInv, Crash, At, Goto, Store, D
  <1>1. RunIsTyped'
    BY RunTyped DEF TypeOK, RunIsTyped, Pc
  <1>2. RunCurrent'
    BY DEF RunCurrent, Applying
  <1> QED BY <1>1, <1>2, RunOnly

LEMMA InvOthersPush ==
  ASSUME ReplicationInv, NEW x \in Foreign, OthersPush(x)
  PROVE  ReplicationInv'
  <1> USE DEF ReplicationInv, OthersPush, At, Goto, Store, D
  <1>1. TypeOK'
    BY DEF TypeOK, Commits
  <1>2. RowsExact' /\ PinHeld'
    BY DEF RowsExact, PinHeld, Unfinished
  <1>3. StartsFromShown'
    BY ForeignAssumption DEF Seqs, StartsFromShown, Begun
  <1>4. LateHarmless'
    BY DEF LateHarmless, StartsFromShown
  <1>5. RunCurrent'
    BY DEF RunCurrent, StartsFromShown, Finished, Unfinished
  <1>6. AppliedWasShown'
    BY DEF AppliedWasShown
  <1> QED BY <1>1, <1>2, <1>3, <1>4, <1>5, <1>6 DEF BegunInOrder, Begun, Over, Finished

\* What a push that ended means for the run, which may still wait for it.
LEMMA Answered ==
  ASSUME ReplicationInv, NEW m \in flight, NEW failures \in SUBSET BOOLEAN, Answer(m, failures)
  PROVE  /\ RunIsTyped'
         /\ \/ run' = run
            \/ run.pc = "pushing" /\ run'.pc = "verify" /\ run'.debt = run.debt
  <1>1. CASE run' = run
    BY <1>1 DEF ReplicationInv, TypeOK, RunIsTyped
  <1>2. CASE At("pushing") /\ run.debt = m.source
    <2>1. PICK f \in failures : run' = [run EXCEPT !.pc = "verify", !.failed = f]
      BY <1>2 DEF Answer
    <2>2. run.pc = "pushing" /\ run'.pc = "verify" /\ run'.debt = run.debt
      BY <1>2, <2>1 DEF At
    <2>3. RunIsTyped'
      BY <2>1, <2>2, RunTyped DEF ReplicationInv, TypeOK, RunIsTyped, Pc
    <2> QED BY <2>2, <2>3
  <1> QED BY <1>1, <1>2 DEF Answer

\* A push that lands is of the one debt that is begun and not over.
LEMMA LandingIsHead ==
  ASSUME ReplicationInv, NEW m \in flight, m.expected = replica
  PROVE  /\ m.source \in Seqs /\ ~Over(m.source) /\ Unfinished(m.source)
         /\ \A d \in Seqs : Begun(d) \/ Over(d) => d <= m.source
         /\ \A k \in flight : k.expected # m.source
  <1>1. m.source \in Seqs /\ Begun(m.source) /\ ~Over(m.source)
    BY DEF ReplicationInv, TypeOK, Push, StartsFromShown, LateHarmless
  <1>2. Unfinished(m.source)
    BY <1>1 DEF ReplicationInv, RowsExact, Begun, Over, Unfinished
  <1>3. \A d \in Seqs : Begun(d) \/ Over(d) => d <= m.source
    BY <1>1 DEF ReplicationInv, BegunInOrder, Finished, Over, Seqs
  <1>4. ASSUME NEW k \in flight, k.expected = m.source PROVE FALSE
    <2>1. k.source \in Seqs /\ Begun(k.source) /\ m.source < k.source
      BY <1>4 DEF ReplicationInv, TypeOK, Push, StartsFromShown
    <2> QED BY <1>1, <1>3, <2>1 DEF Seqs
  <1> QED BY <1>1, <1>2, <1>3, <1>4

LEMMA InvPushLands ==
  ASSUME ReplicationInv, NEW m \in flight, PushLands(m)
  PROVE  ReplicationInv'
  <1> USE DEF ReplicationInv, PushLands
  <1>1. /\ RunIsTyped'
        /\ run' = run \/ (run.pc = "pushing" /\ run'.pc = "verify" /\ run'.debt = run.debt)
    BY Answered
  <1>2. /\ m.source \in Seqs /\ ~Over(m.source) /\ Unfinished(m.source)
        /\ \A k \in flight : k.expected # m.source
    BY LandingIsHead
  <1>3. TypeOK'
    BY <1>1, <1>2 DEF TypeOK, RunIsTyped, Commits, Seqs
  <1>4. StartsFromShown'
    BY DEF StartsFromShown, Begun
  <1>5. LateHarmless'
    BY <1>2 DEF LateHarmless
  <1>6. RunCurrent'
    BY <1>1 DEF RunCurrent, Applying, D, Unfinished, Finished
  <1> QED
    BY <1>3, <1>4, <1>5, <1>6 DEF RowsExact, BegunInOrder, AppliedWasShown, PinHeld, Begun, Over,
       Finished, Unfinished

LEMMA InvPushRefused ==
  ASSUME ReplicationInv, NEW m \in flight, PushRefused(m)
  PROVE  ReplicationInv'
  <1> USE DEF ReplicationInv, PushRefused
  <1>1. /\ RunIsTyped'
        /\ run' = run \/ (run.pc = "pushing" /\ run'.pc = "verify" /\ run'.debt = run.debt)
    BY Answered
  <1>2. TypeOK'
    BY <1>1 DEF TypeOK, RunIsTyped
  <1>3. RunCurrent'
    BY <1>1 DEF RunCurrent, Applying, D, Unfinished, Finished
  <1> QED
    BY <1>2, <1>3 DEF RowsExact, BegunInOrder, StartsFromShown, LateHarmless, AppliedWasShown,
       PinHeld, Begun, Over, Finished, Unfinished

LEMMA InvPushLost ==
  ASSUME ReplicationInv, NEW m \in flight, PushLost(m)
  PROVE  ReplicationInv'
  <1> USE DEF ReplicationInv, PushLost
  <1>1. /\ RunIsTyped'
        /\ run' = run \/ (run.pc = "pushing" /\ run'.pc = "verify" /\ run'.debt = run.debt)
    BY Answered
  <1>2. TypeOK'
    BY <1>1 DEF TypeOK, RunIsTyped
  <1>3. RunCurrent'
    BY <1>1 DEF RunCurrent, Applying, D, Unfinished, Finished
  <1> QED
    BY <1>2, <1>3 DEF RowsExact, BegunInOrder, StartsFromShown, LateHarmless, AppliedWasShown,
       PinHeld, Begun, Over, Finished, Unfinished

-----------------------------------------------------------------------------
(* The theorems *)

LEMMA InitInv == Init => ReplicationInv
  BY MaxDebtAssumption DEF Init, ReplicationInv, TypeOK, RowsExact, BegunInOrder, StartsFromShown,
     LateHarmless, RunCurrent, AppliedWasShown, PinHeld, Row, RunRow, Pc, Commits, Outcome, Seqs,
     Applying, Begun, Over

LEMMA NextInv == ReplicationInv /\ [Next]_vars => ReplicationInv'
  <1> SUFFICES ASSUME ReplicationInv, [Next]_vars PROVE ReplicationInv'
    OBVIOUS
  <1>1. CASE Working
    BY <1>1, InvLand, InvStart, InvLoad, InvPublishPin, InvCompletePin, InvOrder, InvObserve,
       InvApplied, InvDiverged, InvResume, InvBegin, InvSendPush, InvVerify, InvNotApplied,
       InvDeletePin, InvSucceed, InvPushLands, InvPushRefused, InvOthersPush DEF Working, Step,
       Delivery
  <1>2. CASE Failure
    BY <1>2, InvPinFails, InvObserveFails, InvSpawnFails, InvTimeout, InvVerifyFails, InvCrash,
       InvPushLost DEF Failure
  <1>3. CASE UNCHANGED vars
    BY <1>3 DEF vars, ReplicationInv, TypeOK, RowsExact, BegunInOrder, StartsFromShown,
       LateHarmless, RunCurrent, AppliedWasShown, PinHeld, Begun, Over, Finished, Unfinished, D
  <1> QED BY <1>1, <1>2, <1>3 DEF Next

LEMMA InvImplies == ReplicationInv => FinishedInOrder /\ LatePushIsHead
  <1> SUFFICES ASSUME ReplicationInv PROVE FinishedInOrder /\ LatePushIsHead
    OBVIOUS
  <1>1. FinishedInOrder
    BY DEF ReplicationInv, TypeOK, BegunInOrder, FinishedInOrder, Begun, Over
  <1>2. LatePushIsHead
    BY LandingIsHead DEF LatePushIsHead
  <1> QED BY <1>1, <1>2

\* A step that changes what the replica shows of ours is a push of the head.
LEMMA StepNeverBack ==
  ASSUME ReplicationInv, [Next]_vars, replica' \in Seqs, replica' # replica,
         NEW d \in Seqs, debts[d].outcome \in {"applied", "succeeded"}
  PROVE  d < replica'
  <1>1. PICK m \in flight : PushLands(m)
    BY ForeignAssumption DEF Next, vars, Working, Step, Delivery, Failure, Land, Start, Load,
       PublishPin, PinFails, CompletePin, Order, Observe, ObserveFails, Applied, Diverged, Resume,
       Begin, SendPush, SpawnFails, Timeout, Verify, VerifyFails, NotApplied, DeletePin, Succeed,
       Crash, PushRefused, PushLost, OthersPush, Seqs
  <1>2. replica' = m.source /\ m.expected = replica
    BY <1>1 DEF PushLands
  <1>3. m.source \in Seqs /\ ~Over(m.source) /\ d <= m.source
    BY <1>2, LandingIsHead DEF Over
  <1> QED BY <1>2, <1>3 DEF Over, Seqs

\* InOrderAlways: debts are applied in the order of the landings, each because the replica
\* was seen to have it, and neither a push that arrives late nor a retry takes the replica
\* back (reconcile_replication_debt), for any number of landings and foreign commits.
THEOREM InOrderAlways == Spec => InOrder
  <1>1. ReplicationInv /\ [Next]_vars =>
          [replica' \in Seqs /\ replica' # replica =>
             \A d \in Seqs : debts[d].outcome \in {"applied", "succeeded"} => d < replica']_vars
    BY StepNeverBack
  <1> QED
    BY InitInv, NextInv, InvImplies, <1>1, PTL DEF Spec, InOrder, NeverBack, ReplicationInv

\* PinsHeldAlways: the source of a debt is pinned from before it may be pushed until its
\* application is durable, and no pin outlives its debt (publish_replication_source_pin,
\* compare_and_delete_replication_source_pin).
THEOREM PinsHeldAlways == Spec => []PinHeld
  BY InitInv, NextInv, PTL DEF Spec, ReplicationInv

-----------------------------------------------------------------------------
(* The issue of an item *)

Busy == {"locate", "create", "edit", "comment", "close", "record"}
Dispositions == {"", "unauthorized", "malformed", "applied", "stale"}

IssueRow == [open : BOOLEAN, body : Issue!States \cup {"enqueued"}, notes : Seq(Nat)]
ArtRow == [issue : Nat, last : Nat, state : {"none", "reserved", "active", "closed"}]
PostRow == [kind : {"answer", "review", "malformed"}, req : Nat, who : {"allowed", "other"}]
ProcRow ==
  [pc : {"idle", "ended", "read", "ingest"} \cup Busy, snap : Issue!States \cup {"enqueued"}, issue : Nat,
   todo : SUBSET Nat, upto : Nat]

IssueTypes ==
  /\ setup \in Issue!Setup
  /\ st \in Issue!States /\ req \in Nat /\ log \in Seq(Issue!EventKinds)
  /\ binding \in {"none", "pending", "reserved"} /\ row \in 0..Len(issues)
  /\ art \in ArtRow /\ art.issue <= Len(issues) /\ art.last <= Len(log)
  /\ debt \in 0..DebtLimit /\ due \in BOOLEAN /\ alerted \in BOOLEAN
  /\ issues \in Seq(IssueRow)
  /\ posted \in Seq(PostRow) /\ receipt \in Seq(Dispositions) /\ Len(posted) = Len(receipt)
  /\ phase \in Issue!Range(Issue!Phases) /\ faults \in 0..setup.faults
  /\ p \in [Issue!Procs -> ProcRow] /\ \A x \in Issue!Procs : p[x].issue <= Len(issues)

\* The daemon projects the effort it has read.
Carrying == p["daemon"].pc \in Busy /\ ~Issue!Reserving("daemon")

\* What the processes may be at: a process that has an issue at hand has one that exists, the admitting command
\* only reserves, and the daemon is in the phase of what it does.
WorkExact ==
  /\ \A x \in Issue!Procs : p[x].pc \in {"edit", "comment", "close", "record"} => p[x].issue # 0
  /\ \A x \in Issue!Procs : p[x].pc = "create" => p[x].issue = 0
  /\ p["cli"].pc \in {"idle", "ended"} \/ (Issue!Reserving("cli") /\ p["cli"].pc \in Busy)
  /\ p["daemon"].pc # "ended"
  /\ Issue!Reserving("daemon") => p["daemon"].pc \in Busy /\ phase = "outbox"
  /\ p["daemon"].pc = "read" \/ Carrying => phase \in {"first", "second"} /\ st \notin {"none", "dropped"}
  /\ p["daemon"].pc = "ingest" => phase = "ingest"

\* No row, no sequence: the artifact of an effort without an issue is the empty one.
ArtExact == (art.issue = 0 \/ st \in {"none", "dropped"}) => art = Issue!NoArt

\* A projection under way has, or has still to write, every event up to the one it will record, on the issue
\* of the row when there is one.
CarriedAll ==
  Carrying =>
    /\ p["daemon"].upto \in art.last..Len(log)
    /\ art.issue # 0 => p["daemon"].issue = art.issue
    /\ \A e \in 1..p["daemon"].upto : Issue!Relevant(log[e]) =>
         e \in p["daemon"].todo
           \/ (p["daemon"].issue # 0 /\ e \in Issue!Range(issues[p["daemon"].issue].notes))
    /\ p["daemon"].pc \in {"close", "record"} => p["daemon"].todo = {}

\* An answer is applied to the request that is open and ends it; the comments that are being read have no receipt.
AnswersExact ==
  /\ \A i \in DOMAIN posted : posted[i].req <= req
  /\ \A i \in DOMAIN posted : receipt[i] = "applied" /\ st \in {"guidance", "review"} => posted[i].req < req
  /\ p["daemon"].pc = "ingest" => p["daemon"].todo \subseteq DOMAIN posted /\ \A i \in p["daemon"].todo : receipt[i] = ""

\* Without the admitting command the daemon alone writes: it creates where there is nothing, writes what is not
\* there, reserves before the effort begins and shows what it read.
AloneExact ==
  /\ p["cli"].pc = "ended"
  /\ p["daemon"].pc = "create" => Len(issues) = 0
  /\ p["daemon"].pc \in {"edit", "comment"} =>
       p["daemon"].todo \cap Issue!Range(issues[p["daemon"].issue].notes) = {}
  /\ phase # "outbox" \/ st \notin {"none", "dropped"} => binding # "pending"
  /\ Issue!Reserving("daemon") => binding = "pending"
  /\ p["daemon"].snap \in Issue!Terminal => p["daemon"].snap = st
  /\ art.state = "closed" /\ (p["daemon"].pc = "read" \/ Carrying) => p["daemon"].snap = st
  /\ p["daemon"].pc \in {"comment", "close", "record"} => issues[p["daemon"].issue].body = p["daemon"].snap
  /\ p["daemon"].pc = "close" => p["daemon"].snap \in Issue!Terminal
  /\ p["daemon"].pc = "record" /\ p["daemon"].snap \in Issue!Terminal => ~issues[p["daemon"].issue].open

AloneSays == Issue!OneIssue /\ Issue!CommentOnce /\ Issue!ClosedIsFinal

IssueInv ==
  /\ IssueTypes /\ WorkExact /\ ArtExact /\ CarriedAll /\ Issue!ProjectedAll /\ AnswersExact /\ Issue!AppliedOnce
  /\ ~setup.cli => AloneExact /\ AloneSays

LEMMA IssueConstants == DebtLimit \in Nat \ {0} /\ IssueSetups \subseteq Issue!Setup
  BY IssueAssumption DEF Issue!ConstantsOK

LEMMA PhaseSet ==
  Issue!Range(Issue!Phases) = {"outbox", "ingest", "first", "alert", "work", "second"}
  <1>1. DOMAIN Issue!Phases = 1..6
    BY DEF Issue!Phases
  <1>2. /\ Issue!Phases[1] = "outbox" /\ Issue!Phases[2] = "ingest" /\ Issue!Phases[3] = "first"
        /\ Issue!Phases[4] = "alert" /\ Issue!Phases[5] = "work" /\ Issue!Phases[6] = "second"
    BY DEF Issue!Phases
  <1>3. 1..6 = {1, 2, 3, 4, 5, 6}
    OBVIOUS
  <1> QED BY <1>1, <1>2, <1>3 DEF Issue!Range

\* A phase is followed by a phase.
LEMMA NextPhaseIs ==
  ASSUME phase \in Issue!Range(Issue!Phases)
  PROVE  Issue!NextPhase \in Issue!Range(Issue!Phases)
  <1>1. DOMAIN Issue!Phases = 1..6 /\ Len(Issue!Phases) = 6
    BY DEF Issue!Phases
  <1> DEFINE i == CHOOSE j \in DOMAIN Issue!Phases : Issue!Phases[j] = phase
  <1>2. i \in 1..6
    BY <1>1 DEF Issue!Range
  <1> HIDE DEF i
  <1>3. (i % 6) + 1 \in 1..6
    BY <1>2
  <1>4. Issue!NextPhase = Issue!Phases[(i % 6) + 1]
    BY <1>1 DEF Issue!NextPhase, i
  <1> QED BY <1>1, <1>3, <1>4 DEF Issue!Range

LEMMA IdleProc ==
  /\ Issue!Idle \in ProcRow /\ Issue!Idle.pc = "idle" /\ Issue!Idle.snap = "none" /\ Issue!Idle.issue = 0
  /\ [Issue!Idle EXCEPT !.pc = "ended"] \in ProcRow /\ [Issue!Idle EXCEPT !.pc = "ended"].pc = "ended"
  /\ [Issue!Idle EXCEPT !.pc = "ended"].snap = "none" /\ [Issue!Idle EXCEPT !.pc = "ended"].issue = 0
  BY DEF Issue!Idle, ProcRow, Issue!States

LEMMA ProcsAre == Issue!Procs = {"daemon", "cli"}
  BY DEF Issue!Procs

\* The types a step relies on.
LEMMA IssueFacts ==
  ASSUME IssueInv
  PROVE  /\ setup \in Issue!Setup /\ st \in Issue!States /\ req \in Nat /\ log \in Seq(Issue!EventKinds)
         /\ art \in ArtRow /\ issues \in Seq(IssueRow) /\ p \in [Issue!Procs -> ProcRow]
         /\ p["daemon"] \in ProcRow /\ p["cli"] \in ProcRow
         /\ WorkExact /\ ArtExact /\ CarriedAll /\ AnswersExact
         /\ setup.cli \in BOOLEAN /\ setup.full \in BOOLEAN
  BY ProcsAre DEF IssueInv, IssueTypes, Issue!Setup

LEMMA IssueInit == Issue!Init => IssueInv
  <1> SUFFICES ASSUME Issue!Init PROVE IssueInv
    OBVIOUS
  <1>1. /\ setup \in IssueSetups /\ st = "none" /\ req = 0 /\ log = <<>> /\ row = 0 /\ art = Issue!NoArt
        /\ debt = 0 /\ due = FALSE /\ alerted = FALSE /\ issues = <<>> /\ posted = <<>> /\ receipt = <<>>
        /\ phase = "outbox" /\ faults = 0 /\ binding = IF setup.full THEN "pending" ELSE "none"
        /\ p = [x \in Issue!Procs |-> IF x = "cli" /\ ~setup.cli THEN [Issue!Idle EXCEPT !.pc = "ended"] ELSE Issue!Idle]
    BY DEF Issue!Init
  <1>2. setup \in Issue!Setup /\ DebtLimit \in Nat
    BY <1>1, IssueConstants
  <1>3. /\ p \in [Issue!Procs -> ProcRow] /\ p["daemon"] = Issue!Idle
        /\ p["cli"].pc \in {"idle", "ended"} /\ (~setup.cli => p["cli"].pc = "ended") /\ p["cli"].issue = 0
    BY <1>1, IdleProc, ProcsAre
  <1>4. IssueTypes
    <2>1. art \in ArtRow /\ art.issue = 0 /\ art.last = 0
      BY <1>1 DEF Issue!NoArt, ArtRow
    <2>2. phase \in Issue!Range(Issue!Phases)
      BY <1>1, PhaseSet
    <2>3. \A x \in Issue!Procs : p[x].issue <= Len(issues)
      BY <1>1, <1>3, IdleProc, ProcsAre
    <2>4. faults \in 0..setup.faults
      BY <1>1, <1>2 DEF Issue!Setup
    <2>5. log \in Seq(Issue!EventKinds) /\ issues \in Seq(IssueRow) /\ posted \in Seq(PostRow) /\ receipt \in Seq(Dispositions)
      BY <1>1
    <2>6. Len(log) = 0 /\ Len(issues) = 0 /\ Len(posted) = 0 /\ Len(receipt) = 0
      BY <1>1
    <2>7. /\ st \in Issue!States /\ binding \in {"none", "pending", "reserved"} /\ debt \in 0..DebtLimit
          /\ row \in 0..0 /\ req \in Nat
      BY <1>1, <1>2 DEF Issue!States
    <2>8. due \in BOOLEAN /\ alerted \in BOOLEAN
      BY <1>1, Zenon
    <2> QED BY <1>2, <1>3, <2>1, <2>2, <2>3, <2>4, <2>5, <2>6, <2>7, <2>8 DEF IssueTypes
  <1>5. WorkExact /\ CarriedAll
    BY <1>1, <1>3, IdleProc, ProcsAre DEF WorkExact, CarriedAll, Carrying, Busy, Issue!Reserving
  <1>6. ArtExact /\ Issue!ProjectedAll
    BY <1>1 DEF ArtExact, Issue!ProjectedAll, Issue!NoArt
  <1>7. AnswersExact /\ Issue!AppliedOnce
    <2>1. DOMAIN posted = {}
      BY <1>1
    <2> QED BY <1>3, <2>1, IdleProc DEF AnswersExact, Issue!AppliedOnce
  <1>8. ~setup.cli => AloneExact
    BY <1>1, <1>3, IdleProc DEF AloneExact, Carrying, Busy, Issue!Reserving, Issue!Terminal
  <1>9. AloneSays
    BY <1>1 DEF AloneSays, Issue!OneIssue, Issue!CommentOnce, Issue!ClosedIsFinal, Issue!NoArt
  <1> QED BY <1>4, <1>5, <1>6, <1>7, <1>8, <1>9 DEF IssueInv

-----------------------------------------------------------------------------
(* The steps at an issue *)

\* Issues are added and what is on them stays.
Kept ==
  /\ issues' \in Seq(IssueRow) /\ Len(issues) <= Len(issues')
  /\ \A i \in 1..Len(issues) : Issue!Range(issues[i].notes) \subseteq Issue!Range(issues'[i].notes)

LEMMA KeptSame == issues \in Seq(IssueRow) /\ UNCHANGED issues => Kept
  BY DEF Kept

\* What the row says was written stays written.
LEMMA ProjectedKept ==
  ASSUME IssueInv, Kept, UNCHANGED <<setup, art, log>>
  PROVE  Issue!ProjectedAll'
  <1> SUFFICES ASSUME NEW e \in 1..art.last, Issue!Relevant(log[e])
               PROVE  e \in Issue!Range(issues'[art.issue].notes)
    BY DEF Issue!ProjectedAll, Issue!Relevant
  <1>1. e \in Issue!Range(issues[art.issue].notes)
    BY DEF IssueInv, Issue!ProjectedAll
  <1>2. art.issue \in 1..Len(issues)
    BY DEF IssueInv, IssueTypes, ArtRow, ArtExact, Issue!NoArt
  <1> QED BY <1>1, <1>2 DEF Kept

LEMMA CarriedKept ==
  ASSUME IssueInv, Kept, UNCHANGED <<setup, art, log>>, p'["daemon"] = p["daemon"]
  PROVE  CarriedAll'
  <1> SUFFICES ASSUME Carrying
               PROVE  CarriedAll'
    BY DEF CarriedAll, Carrying, Issue!Reserving
  <1>1. p["daemon"].issue # 0 => p["daemon"].issue \in 1..Len(issues)
    BY ProcsAre DEF IssueInv, IssueTypes, ProcRow
  <1> QED BY <1>1 DEF IssueInv, CarriedAll, Carrying, Kept, Issue!Relevant

\* A step of the admitting command: it reserves, and there is no such step in a behaviour without it.
LEMMA CliStep ==
  ASSUME IssueInv, p["cli"].pc # "ended", p' \in [Issue!Procs -> ProcRow], p'["daemon"] = p["daemon"], Kept,
         p'["cli"].issue <= Len(issues'),
         p'["cli"].pc \in {"edit", "comment", "close", "record"} => p'["cli"].issue # 0,
         p'["cli"].pc = "create" => p'["cli"].issue = 0,
         p'["cli"].pc \in {"idle", "ended"} \/ (p'["cli"].snap = "enqueued" /\ p'["cli"].pc \in Busy),
         binding' \in {"none", "pending", "reserved"}, row' \in 0..Len(issues'), faults' \in 0..setup.faults,
         UNCHANGED <<setup, st, req, log, art, debt, due, alerted, posted, receipt, phase>>
  PROVE  IssueInv'
  <1>1. setup.cli
    BY DEF IssueInv, AloneExact
  <1>2. Len(issues) \in Nat /\ Len(issues') \in Nat
    BY DEF IssueInv, IssueTypes, Kept
  <1>3. IssueTypes'
    BY <1>2, ProcsAre DEF IssueInv, IssueTypes, ArtRow, ProcRow, Kept
  <1>4. WorkExact'
    BY ProcsAre DEF IssueInv, WorkExact, Issue!Reserving, Carrying
  <1>5. ArtExact' /\ AnswersExact' /\ Issue!AppliedOnce'
    BY DEF IssueInv, ArtExact, AnswersExact, Issue!AppliedOnce
  <1> QED BY <1>1, <1>3, <1>4, <1>5, ProjectedKept, CarriedKept DEF IssueInv

\* The daemon goes on and leaves everything else as it is.
LEMMA DaemonStep ==
  ASSUME IssueInv, p' \in [Issue!Procs -> ProcRow], p'["cli"] = p["cli"], p'["daemon"].issue <= Len(issues),
         phase' \in Issue!Range(Issue!Phases), faults' \in 0..setup.faults,
         UNCHANGED <<setup, st, req, log, binding, row, art, debt, due, alerted, issues, posted, receipt>>,
         WorkExact', CarriedAll', p'["daemon"].pc = "ingest" => AnswersExact', ~setup.cli => AloneExact'
  PROVE  IssueInv'
  <1>1. IssueTypes'
    BY ProcsAre DEF IssueInv, IssueTypes
  <1>2. Issue!ProjectedAll'
    BY IssueFacts, KeptSame, ProjectedKept
  <1>3. ArtExact' /\ Issue!AppliedOnce'
    BY DEF IssueInv, ArtExact, Issue!AppliedOnce
  <1>4. AnswersExact'
    BY DEF IssueInv, AnswersExact
  <1>5. ~setup.cli => AloneSays'
    BY DEF IssueInv, AloneSays, Issue!OneIssue, Issue!CommentOnce, Issue!ClosedIsFinal
  <1> QED BY <1>1, <1>2, <1>3, <1>4, <1>5 DEF IssueInv

\* A finished or interrupted piece of work of the daemon.
LEMMA DaemonRests ==
  ASSUME IssueInv, p' = [p EXCEPT !["daemon"] = Issue!Idle], phase' \in Issue!Range(Issue!Phases),
         st \notin {"none", "dropped"} => st' \notin {"none", "dropped"}, UNCHANGED <<setup, issues>>
  PROVE  /\ p' \in [Issue!Procs -> ProcRow] /\ p'["cli"] = p["cli"] /\ p'["daemon"] = Issue!Idle
         /\ \A x \in Issue!Procs : p'[x].issue <= Len(issues)
         /\ WorkExact' /\ CarriedAll'
  <1>1. p' \in [Issue!Procs -> ProcRow] /\ p'["cli"] = p["cli"] /\ p'["daemon"] = Issue!Idle
    BY IssueFacts, IdleProc, ProcsAre
  <1>2. \A x \in Issue!Procs : p'[x].issue <= Len(issues)
    BY <1>1, IdleProc, ProcsAre DEF IssueInv, IssueTypes
  <1>3. WorkExact' /\ CarriedAll'
    BY <1>1, IssueFacts, IdleProc, ProcsAre DEF WorkExact, CarriedAll, Carrying, Busy, Issue!Reserving
  <1> QED BY <1>1, <1>2, <1>3

\* Work of the daemon that ends with nothing changed.
LEMMA DaemonLeaves ==
  ASSUME IssueInv, p' = [p EXCEPT !["daemon"] = Issue!Idle], phase' \in Issue!Range(Issue!Phases),
         phase' = "outbox" \/ phase # "outbox" \/ (setup.cli \/ binding # "pending"), faults' \in 0..setup.faults,
         UNCHANGED <<setup, st, req, log, binding, row, art, debt, due, alerted, issues, posted, receipt>>
  PROVE  IssueInv'
  <1>1. p' \in [Issue!Procs -> ProcRow] /\ p'["cli"] = p["cli"] /\ p'["daemon"] = Issue!Idle
    BY IssueFacts, IdleProc, ProcsAre
  <1>2. WorkExact' /\ CarriedAll'
    BY <1>1, IssueFacts, IdleProc, ProcsAre DEF WorkExact, CarriedAll, Carrying, Busy, Issue!Reserving
  <1>3. p'["daemon"].issue <= Len(issues)
    BY <1>1, IssueFacts, IdleProc
  <1>4. ~setup.cli => AloneExact'
    BY <1>1, IdleProc DEF IssueInv, AloneExact, Carrying, Busy, Issue!Reserving, Issue!Terminal
  <1> QED BY <1>1, <1>2, <1>3, <1>4, IdleProc, DaemonStep

LEMMA StartReserveStep ==
  ASSUME IssueInv, NEW x \in Issue!Procs, Issue!StartReserve(x), UNCHANGED setup
  PROVE  IssueInv'
  <1> DEFINE begun == [Issue!Idle EXCEPT !.pc = "locate", !.snap = "enqueued", !.todo = {0}]
  <1>1. /\ p[x].pc = "idle" /\ (x = "daemon" => phase = "outbox" /\ binding = "pending") /\ row = 0
        /\ p' = [p EXCEPT ![x] = begun]
        /\ UNCHANGED <<st, req, log, binding, row, art, debt, due, alerted, issues, posted, receipt, phase, faults>>
    BY DEF Issue!StartReserve, Issue!effort, Issue!rows, Issue!remote
  <1>2. begun \in ProcRow /\ begun.pc = "locate" /\ begun.snap = "enqueued" /\ begun.issue = 0
    BY IdleProc DEF ProcRow, Busy
  <1> HIDE DEF begun
  <1>3. p' \in [Issue!Procs -> ProcRow] /\ p'[x] = begun /\ \A y \in Issue!Procs : y # x => p'[y] = p[y]
    BY <1>1, <1>2, IssueFacts
  <1>4. CASE x = "cli"
    <2>1. binding' \in {"none", "pending", "reserved"} /\ row' \in 0..Len(issues') /\ faults' \in 0..setup.faults /\ Kept
      BY <1>1, KeptSame DEF IssueInv, IssueTypes
    <2> QED BY <1>1, <1>2, <1>3, <1>4, <2>1, ProcsAre, CliStep DEF Busy
  <1>5. CASE x = "daemon"
    <2>1. p'["daemon"] = begun /\ p'["cli"] = p["cli"]
      BY <1>3, <1>5, ProcsAre
    <2>2. WorkExact' /\ CarriedAll'
      BY <1>1, <1>2, <1>5, <2>1, ProcsAre, IssueFacts DEF WorkExact, CarriedAll, Carrying, Busy, Issue!Reserving
    <2>3. ~setup.cli => AloneExact'
      BY <1>1, <1>2, <1>5, <2>1 DEF IssueInv, AloneExact, Carrying, Busy, Issue!Reserving, Issue!Terminal
    <2>4. /\ phase' \in Issue!Range(Issue!Phases) /\ faults' \in 0..setup.faults /\ Len(issues) \in Nat
      BY <1>1 DEF IssueInv, IssueTypes
    <2> QED BY <1>1, <1>2, <1>3, <2>1, <2>2, <2>3, <2>4, DaemonStep
  <1> QED BY <1>4, <1>5, ProcsAre

\* The admitting command ends.
LEMMA CliEnds ==
  ASSUME IssueInv, p["cli"].pc # "ended", p' = [p EXCEPT !["cli"] = [Issue!Idle EXCEPT !.pc = "ended"]],
         binding' \in {"none", "pending", "reserved"}, row' \in 0..Len(issues'), faults' \in 0..setup.faults,
         UNCHANGED <<setup, st, req, log, art, debt, due, alerted, issues, posted, receipt, phase>>
  PROVE  IssueInv'
  <1>1. /\ p' \in [Issue!Procs -> ProcRow] /\ p'["daemon"] = p["daemon"]
        /\ p'["cli"].pc = "ended" /\ p'["cli"].issue = 0 /\ Kept /\ Len(issues') \in Nat
    BY IssueFacts, IdleProc, ProcsAre, KeptSame
  <1> QED BY <1>1, CliStep

LEMMA ReserveDoneStep ==
  ASSUME IssueInv, Issue!ReserveDone, UNCHANGED setup
  PROVE  IssueInv'
  <1>1. /\ p["cli"].pc = "idle" /\ p' = [p EXCEPT !["cli"] = [Issue!Idle EXCEPT !.pc = "ended"]]
        /\ UNCHANGED <<st, req, log, binding, row, art, debt, due, alerted, issues, posted, receipt, phase, faults>>
    BY DEF Issue!ReserveDone, Issue!Leave, Issue!effort, Issue!rows, Issue!remote
  <1>2. binding' \in {"none", "pending", "reserved"} /\ row' \in 0..Len(issues') /\ faults' \in 0..setup.faults
    BY <1>1 DEF IssueInv, IssueTypes
  <1> QED BY <1>1, <1>2, CliEnds

\* Who is at work at an issue: the admitting command, in a reservation, or the daemon.
LEMMA AtWork ==
  ASSUME IssueInv, NEW x \in Issue!Procs, p[x].pc \in Busy
  PROVE  /\ x = "cli" => p["cli"].pc # "ended" /\ p["cli"].snap = "enqueued"
         /\ p[x] \in ProcRow
  BY IssueFacts DEF WorkExact, Busy, Issue!Reserving

\* What is found is the issue at hand or, without one, what there is.
LEMMA LocateIs ==
  ASSUME IssueInv, NEW x \in Issue!Procs, Issue!Locate(x)
  PROVE  /\ p' \in [Issue!Procs -> ProcRow] /\ \A y \in Issue!Procs : y # x => p'[y] = p[y]
         /\ p'[x].snap = p[x].snap /\ p'[x].upto = p[x].upto
         /\ \/ p'[x].pc = "create" /\ p[x].issue = 0 /\ p'[x].issue = 0 /\ p'[x].todo = p[x].todo /\ Len(issues) = 0
            \/ /\ p'[x].pc = "edit" /\ p'[x].issue \in 1..Len(issues) /\ (p[x].issue # 0 => p'[x].issue = p[x].issue)
               /\ p'[x].todo = p[x].todo \ Issue!Range(issues[p'[x].issue].notes)
  <1>1. p \in [Issue!Procs -> ProcRow] /\ p[x].issue \in 0..Len(issues) /\ issues \in Seq(IssueRow)
    BY DEF IssueInv, IssueTypes, ProcRow
  <1>2. CASE Issue!Found(x) = {} /\ p' = [p EXCEPT ![x].pc = "create"]
    <2>1. p[x].issue = 0 /\ DOMAIN issues = {}
      BY <1>2 DEF Issue!Found
    <2>2. Len(issues) = 0
      BY <1>1, <2>1
    <2> QED BY <1>1, <1>2, <2>1, <2>2 DEF ProcRow, Busy
  <1>3. ASSUME NEW i \in Issue!Found(x),
               p' = [p EXCEPT ![x].pc = "edit", ![x].issue = i, ![x].todo = Issue!Missing(i, @)]
        PROVE  /\ p' \in [Issue!Procs -> ProcRow] /\ \A y \in Issue!Procs : y # x => p'[y] = p[y]
               /\ p'[x].snap = p[x].snap /\ p'[x].upto = p[x].upto
               /\ p'[x].pc = "edit" /\ p'[x].issue \in 1..Len(issues) /\ (p[x].issue # 0 => p'[x].issue = p[x].issue)
               /\ p'[x].todo = p[x].todo \ Issue!Range(issues[p'[x].issue].notes)
    <2>1. i \in 1..Len(issues) /\ i \in Nat /\ (p[x].issue # 0 => i = p[x].issue)
      BY <1>1, <1>3 DEF Issue!Found
    <2>2. Issue!Missing(i, p[x].todo) = p[x].todo \ Issue!Range(issues[i].notes) /\ Issue!Missing(i, p[x].todo) \in SUBSET Nat
      BY <1>1 DEF Issue!Missing, ProcRow
    <2>3. p' = [p EXCEPT ![x] = [p[x] EXCEPT !.pc = "edit", !.issue = i, !.todo = Issue!Missing(i, p[x].todo)]]
      BY <1>1, <1>3 DEF ProcRow
    <2>4. [p[x] EXCEPT !.pc = "edit", !.issue = i, !.todo = Issue!Missing(i, p[x].todo)] \in ProcRow
      BY <1>1, <2>1, <2>2 DEF ProcRow, Busy
    <2>5. p' \in [Issue!Procs -> ProcRow] /\ \A y \in Issue!Procs : y # x => p'[y] = p[y]
      BY <1>1, <2>3, <2>4
    <2>6. /\ p'[x].snap = p[x].snap /\ p'[x].upto = p[x].upto /\ p'[x].pc = "edit" /\ p'[x].issue = i
          /\ p'[x].todo = Issue!Missing(i, p[x].todo)
      BY <1>1, <2>3 DEF ProcRow
    <2> QED BY <2>1, <2>2, <2>5, <2>6
  <1>4. \/ Issue!Found(x) = {} /\ p' = [p EXCEPT ![x].pc = "create"]
        \/ \E i \in Issue!Found(x) : p' = [p EXCEPT ![x].pc = "edit", ![x].issue = i, ![x].todo = Issue!Missing(i, @)]
    BY DEF Issue!Locate
  <1> QED BY <1>2, <1>3, <1>4

LEMMA LocateStep ==
  ASSUME IssueInv, NEW x \in Issue!Procs, Issue!Locate(x), UNCHANGED setup
  PROVE  IssueInv'
  <1>1. /\ p[x].pc = "locate"
        /\ UNCHANGED <<st, req, log, binding, row, art, debt, due, alerted, issues, posted, receipt, phase, faults>>
    BY DEF Issue!Locate, Issue!effort, Issue!rows, Issue!remote
  <1>2. /\ p' \in [Issue!Procs -> ProcRow] /\ \A y \in Issue!Procs : y # x => p'[y] = p[y]
        /\ p'[x].snap = p[x].snap /\ p'[x].upto = p[x].upto
        /\ \/ p'[x].pc = "create" /\ p[x].issue = 0 /\ p'[x].issue = 0 /\ p'[x].todo = p[x].todo /\ Len(issues) = 0
           \/ /\ p'[x].pc = "edit" /\ p'[x].issue \in 1..Len(issues) /\ (p[x].issue # 0 => p'[x].issue = p[x].issue)
              /\ p'[x].todo = p[x].todo \ Issue!Range(issues[p'[x].issue].notes)
    BY LocateIs
  <1>3. /\ binding' \in {"none", "pending", "reserved"} /\ row' \in 0..Len(issues') /\ faults' \in 0..setup.faults /\ Kept
        /\ phase' \in Issue!Range(Issue!Phases) /\ Len(issues) \in Nat
    BY <1>1, KeptSame DEF IssueInv, IssueTypes
  <1>4. CASE x = "cli"
    <2>1. p["cli"].pc # "ended" /\ p'["cli"].snap = "enqueued" /\ p'["daemon"] = p["daemon"]
      BY <1>1, <1>2, <1>4, AtWork, ProcsAre DEF Busy
    <2>2. p'["cli"].pc \in {"create", "edit"} /\ p'["cli"].issue <= Len(issues')
          /\ (p'["cli"].pc = "create" <=> p'["cli"].issue = 0)
      BY <1>1, <1>2, <1>3, <1>4
    <2> QED BY <1>1, <1>2, <1>3, <2>1, <2>2, CliStep DEF Busy
  <1>5. CASE x = "daemon"
    <2>1. p'["cli"] = p["cli"] /\ p'["daemon"].pc \in {"create", "edit"} /\ p'["daemon"].issue <= Len(issues)
          /\ (p'["daemon"].pc = "create" <=> p'["daemon"].issue = 0)
      BY <1>1, <1>2, <1>3, <1>5, ProcsAre
    <2>2. WorkExact'
      BY <1>1, <1>2, <1>5, <2>1, ProcsAre, IssueFacts DEF WorkExact, Carrying, Busy, Issue!Reserving
    <2>3. CarriedAll'
      <3> SUFFICES ASSUME Carrying
                   PROVE  CarriedAll'
        BY <1>1, <1>2, <1>5, <2>1 DEF CarriedAll, Carrying, Busy, Issue!Reserving
      <3> QED BY <1>1, <1>2, <1>5, IssueFacts DEF CarriedAll, Issue!Relevant
    <2>4. ~setup.cli => AloneExact'
      BY <1>1, <1>2, <1>5, <2>1 DEF IssueInv, AloneExact, Carrying, Busy, Issue!Reserving
    <2> QED BY <1>1, <1>2, <1>3, <2>1, <2>2, <2>3, <2>4, DaemonStep
  <1> QED BY <1>4, <1>5, ProcsAre

-----------------------------------------------------------------------------
(* What is written on an issue *)

LEMMA OneOfOne ==
  ASSUME NEW n \in Nat, n <= 1, NEW i \in 1..n
  PROVE  i = 1 /\ n = 1
  OBVIOUS

\* A change of the issue at hand.
LEMMA Written ==
  ASSUME IssueInv, NEW i \in 1..Len(issues), NEW r \in IssueRow, issues' = [issues EXCEPT ![i] = r],
         Issue!Range(issues[i].notes) \subseteq Issue!Range(r.notes)
  PROVE  /\ Kept /\ Len(issues') = Len(issues) /\ issues'[i] = r
         /\ \A j \in 1..Len(issues) : j # i => issues'[j] = issues[j]
  <1>1. issues \in Seq(IssueRow)
    BY IssueFacts
  <1>2. /\ issues' \in Seq(IssueRow) /\ Len(issues') = Len(issues) /\ issues'[i] = r
        /\ \A j \in 1..Len(issues) : j # i => issues'[j] = issues[j]
    BY <1>1
  <1>3. Len(issues) <= Len(issues')
    BY <1>1, <1>2
  <1>4. \A j \in 1..Len(issues) : Issue!Range(issues[j].notes) \subseteq Issue!Range(issues'[j].notes)
    BY <1>2
  <1> QED BY <1>2, <1>3, <1>4 DEF Kept

\* The daemon writes on an issue.
LEMMA DaemonWrites ==
  ASSUME IssueInv, p' \in [Issue!Procs -> ProcRow], p'["cli"] = p["cli"], p'["daemon"].issue <= Len(issues'), Kept,
         UNCHANGED <<setup, st, req, log, binding, row, art, debt, due, alerted, posted, receipt, phase, faults>>,
         WorkExact', CarriedAll', p'["daemon"].pc # "ingest", ~setup.cli => AloneExact' /\ AloneSays'
  PROVE  IssueInv'
  <1>1. Len(issues) \in Nat /\ Len(issues') \in Nat
    BY DEF IssueInv, IssueTypes, Kept
  <1>2. IssueTypes'
    BY <1>1, ProcsAre DEF IssueInv, IssueTypes, ArtRow, ProcRow, Kept
  <1>3. ArtExact' /\ AnswersExact' /\ Issue!AppliedOnce'
    BY DEF IssueInv, ArtExact, AnswersExact, Issue!AppliedOnce
  <1> QED BY <1>2, <1>3, ProjectedKept DEF IssueInv

LEMMA CreateStep ==
  ASSUME IssueInv, NEW x \in Issue!Procs, Issue!Create(x), UNCHANGED setup
  PROVE  IssueInv'
  <1> DEFINE new == [open |-> TRUE, body |-> p[x].snap, notes |-> <<>>]
  <1>1. /\ p[x].pc = "create" /\ issues' = Append(issues, new)
        /\ p' = [p EXCEPT ![x].pc = "comment", ![x].issue = Len(issues) + 1]
        /\ UNCHANGED <<st, req, log, binding, row, art, debt, due, alerted, posted, receipt, phase, faults>>
    BY DEF Issue!Create, Issue!effort, Issue!rows
  <1>2. issues \in Seq(IssueRow) /\ Len(issues) \in Nat /\ p \in [Issue!Procs -> ProcRow]
    BY IssueFacts
  <1>3. new \in IssueRow /\ Issue!Range(new.notes) = {} /\ new.body = p[x].snap
    <2>1. p[x].snap \in Issue!States \cup {"enqueued"}
      BY <1>2 DEF ProcRow
    <2>2. <<>> \in Seq(Nat) /\ DOMAIN <<>> = {} /\ TRUE \in BOOLEAN
      OBVIOUS
    <2> QED BY <2>1, <2>2 DEF IssueRow, Issue!Range
  <1> HIDE DEF new
  <1>4. /\ issues' \in Seq(IssueRow) /\ Len(issues') = Len(issues) + 1 /\ issues'[Len(issues) + 1] = new
        /\ \A j \in 1..Len(issues) : issues'[j] = issues[j]
    BY <1>1, <1>2, <1>3
  <1>5. Kept
    BY <1>2, <1>4 DEF Kept
  <1>6. /\ p' \in [Issue!Procs -> ProcRow] /\ \A y \in Issue!Procs : y # x => p'[y] = p[y]
        /\ p'[x].pc = "comment" /\ p'[x].issue = Len(issues) + 1 /\ p'[x].snap = p[x].snap
        /\ p'[x].todo = p[x].todo /\ p'[x].upto = p[x].upto
    <2>1. p' = [p EXCEPT ![x] = [p[x] EXCEPT !.pc = "comment", !.issue = Len(issues) + 1]]
      BY <1>1, <1>2 DEF ProcRow
    <2>2. [p[x] EXCEPT !.pc = "comment", !.issue = Len(issues) + 1] \in ProcRow
      <3>1. p[x] \in ProcRow /\ Len(issues) + 1 \in Nat
        BY <1>2
      <3> QED BY <3>1 DEF ProcRow, Busy
    <2>3. p' \in [Issue!Procs -> ProcRow] /\ \A y \in Issue!Procs : y # x => p'[y] = p[y]
      BY <1>2, <2>1, <2>2
    <2>4. /\ p'[x].pc = "comment" /\ p'[x].issue = Len(issues) + 1 /\ p'[x].snap = p[x].snap
          /\ p'[x].todo = p[x].todo /\ p'[x].upto = p[x].upto
      BY <1>2, <2>1 DEF ProcRow
    <2> QED BY <2>3, <2>4
  <1>7. CASE x = "cli"
    <2>1. p["cli"].pc # "ended" /\ p'["cli"].snap = "enqueued" /\ p'["daemon"] = p["daemon"]
      BY <1>1, <1>6, <1>7, AtWork, ProcsAre DEF Busy
    <2>2. binding' \in {"none", "pending", "reserved"} /\ row' \in 0..Len(issues') /\ faults' \in 0..setup.faults
      BY <1>1, <1>2, <1>4 DEF IssueInv, IssueTypes
    <2>3. p'["cli"].issue <= Len(issues') /\ p'["cli"].issue # 0 /\ p'["cli"].pc = "comment"
      BY <1>2, <1>4, <1>6, <1>7
    <2> QED BY <1>1, <1>5, <1>6, <2>1, <2>2, <2>3, CliStep DEF Busy
  <1>8. CASE x = "daemon"
    <2>1. /\ p'["cli"] = p["cli"] /\ p'["daemon"].pc = "comment" /\ p'["daemon"].issue = Len(issues) + 1
          /\ p'["daemon"].issue <= Len(issues') /\ p'["daemon"].issue # 0 /\ p'["daemon"].snap = p["daemon"].snap
          /\ p'["daemon"].todo = p["daemon"].todo /\ p'["daemon"].upto = p["daemon"].upto /\ p["daemon"].pc = "create"
          /\ p["daemon"].issue = 0
      BY <1>1, <1>2, <1>4, <1>6, <1>8, ProcsAre, IssueFacts DEF WorkExact
    <2>2. WorkExact'
      BY <1>1, <2>1, ProcsAre, IssueFacts DEF WorkExact, Carrying, Busy, Issue!Reserving
    <2>3. CarriedAll'
      BY <1>1, <2>1, IssueFacts DEF CarriedAll, Carrying, Busy, Issue!Reserving, Issue!Relevant
    <2>4. ASSUME ~setup.cli
          PROVE  AloneExact' /\ AloneSays'
      <3>1. AloneExact /\ AloneSays /\ Len(issues) = 0
        BY <2>1, <2>4 DEF IssueInv, AloneExact
      <3>2. Len(issues') = 1 /\ issues'[1] = new /\ p'["daemon"].issue = 1 /\ DOMAIN issues' = {1}
        BY <1>4, <2>1, <3>1
      <3>3. art.issue = 0
        BY <3>1 DEF IssueInv, IssueTypes, ArtRow
      <3>4. art.state = "none"
        BY <3>3, IssueFacts DEF ArtExact, Issue!NoArt
      <3>5. AloneExact'
        BY <1>1, <1>3, <2>1, <3>1, <3>2, <3>4, <1>8 DEF AloneExact, Carrying, Busy, Issue!Reserving
      <3>6. AloneSays'
        <4>1. Issue!CommentOnce'
          <5>1. DOMAIN new.notes = {}
            BY <1>3 DEF Issue!Range
          <5> QED BY <3>2, <5>1 DEF Issue!CommentOnce, Issue!IsInjective
        <4> QED BY <1>1, <3>2, <3>4, <4>1 DEF AloneSays, Issue!OneIssue, Issue!ClosedIsFinal
      <3> QED BY <3>5, <3>6
    <2> QED BY <1>1, <1>5, <1>6, <2>1, <2>2, <2>3, <2>4, DaemonWrites
  <1> QED BY <1>7, <1>8, ProcsAre

LEMMA EditStep ==
  ASSUME IssueInv, NEW x \in Issue!Procs, Issue!Edit(x), UNCHANGED setup
  PROVE  IssueInv'
  <1>1. /\ p[x].pc = "edit" /\ issues' = [issues EXCEPT ![p[x].issue].body = p[x].snap]
        /\ p' = [p EXCEPT ![x].pc = "comment"]
        /\ UNCHANGED <<st, req, log, binding, row, art, debt, due, alerted, posted, receipt, phase, faults>>
    BY DEF Issue!Edit, Issue!effort, Issue!rows
  <1>2. /\ issues \in Seq(IssueRow) /\ Len(issues) \in Nat /\ p \in [Issue!Procs -> ProcRow]
        /\ p[x].issue \in 1..Len(issues)
    BY <1>1 DEF IssueInv, IssueTypes, ProcRow, WorkExact
  <1> DEFINE r == [issues[p[x].issue] EXCEPT !.body = p[x].snap]
  <1>3. issues' = [issues EXCEPT ![p[x].issue] = r]
    BY <1>1
  <1>4. r \in IssueRow /\ r.notes = issues[p[x].issue].notes /\ r.body = p[x].snap /\ r.open = issues[p[x].issue].open
    <2>1. issues[p[x].issue] \in IssueRow
      BY <1>2
    <2>2. p[x].snap \in Issue!States \cup {"enqueued"}
      BY <1>2 DEF ProcRow
    <2> QED BY <2>1, <2>2 DEF IssueRow
  <1> HIDE DEF r
  <1>5. /\ Kept /\ Len(issues') = Len(issues) /\ issues'[p[x].issue] = r
        /\ \A j \in 1..Len(issues) : j # p[x].issue => issues'[j] = issues[j]
    BY <1>2, <1>3, <1>4, Written
  <1>6. /\ p' \in [Issue!Procs -> ProcRow] /\ \A y \in Issue!Procs : y # x => p'[y] = p[y]
        /\ p'[x].pc = "comment" /\ p'[x].issue = p[x].issue /\ p'[x].snap = p[x].snap
        /\ p'[x].todo = p[x].todo /\ p'[x].upto = p[x].upto
    BY <1>1, <1>2 DEF ProcRow, Busy
  <1>7. CASE x = "cli"
    <2>1. p["cli"].pc # "ended" /\ p'["cli"].snap = "enqueued" /\ p'["daemon"] = p["daemon"]
      BY <1>1, <1>6, <1>7, AtWork, ProcsAre DEF Busy
    <2>2. binding' \in {"none", "pending", "reserved"} /\ row' \in 0..Len(issues') /\ faults' \in 0..setup.faults
      BY <1>1, <1>2, <1>5 DEF IssueInv, IssueTypes
    <2>3. p'["cli"].issue <= Len(issues') /\ p'["cli"].issue # 0 /\ p'["cli"].pc = "comment"
      BY <1>2, <1>5, <1>6, <1>7
    <2> QED BY <1>1, <1>5, <1>6, <2>1, <2>2, <2>3, CliStep DEF Busy
  <1>8. CASE x = "daemon"
    <2>1. /\ p'["cli"] = p["cli"] /\ p'["daemon"].pc = "comment" /\ p'["daemon"].issue = p["daemon"].issue
          /\ p'["daemon"].issue <= Len(issues') /\ p'["daemon"].issue # 0 /\ p'["daemon"].snap = p["daemon"].snap
          /\ p'["daemon"].todo = p["daemon"].todo /\ p'["daemon"].upto = p["daemon"].upto /\ p["daemon"].pc = "edit"
      BY <1>1, <1>2, <1>5, <1>6, <1>8, ProcsAre
    <2>2. WorkExact'
      BY <1>1, <2>1, ProcsAre, IssueFacts DEF WorkExact, Carrying, Busy, Issue!Reserving
    <2>3. CarriedAll'
      BY <1>1, <1>4, <1>5, <1>8, <2>1, IssueFacts DEF CarriedAll, Carrying, Busy, Issue!Reserving, Issue!Relevant
    <2>4. ASSUME ~setup.cli
          PROVE  AloneExact' /\ AloneSays'
      <3>1. AloneExact /\ Issue!OneIssue /\ Issue!CommentOnce /\ Issue!ClosedIsFinal
        BY <2>4 DEF IssueInv, AloneSays
      <3>2. p["daemon"].issue = 1 /\ Len(issues) = 1 /\ DOMAIN issues = {1} /\ DOMAIN issues' = {1}
        <4>1. p["daemon"].issue = 1 /\ Len(issues) = 1
          <5>1. Len(issues) <= 1
            BY <3>1 DEF Issue!OneIssue
          <5>2. p["daemon"].issue \in 1..Len(issues) /\ Len(issues) \in Nat
            BY <1>2, <1>8
          <5> QED BY <5>1, <5>2, OneOfOne
        <4>2. issues' \in Seq(IssueRow) /\ Len(issues') = 1
          BY <1>5, <4>1 DEF Kept
        <4> QED BY <1>2, <4>1, <4>2
      <3>3. AloneExact'
        BY <1>1, <1>4, <1>5, <1>8, <2>1, <3>1 DEF AloneExact, Carrying, Busy, Issue!Reserving
      <3>4. Issue!OneIssue' /\ Issue!CommentOnce'
        BY <1>4, <1>5, <1>8, <3>1, <3>2 DEF Issue!OneIssue, Issue!CommentOnce
      <3>5. Issue!ClosedIsFinal'
        <4> SUFFICES ASSUME art.state = "closed"
                     PROVE  st \in Issue!Terminal /\ ~issues'[art.issue].open /\ issues'[art.issue].body = st
          BY <1>1 DEF Issue!ClosedIsFinal
        <4>1. art.issue = 1
          BY <3>2, IssueFacts DEF IssueInv, IssueTypes, ArtExact, Issue!NoArt, ArtRow
        <4>2. st \in Issue!Terminal /\ ~issues[1].open /\ issues[1].body = st
          BY <3>1, <4>1 DEF Issue!ClosedIsFinal
        <4>3. ~Issue!Reserving("daemon")
          BY <3>1, <4>2 DEF AloneExact, Issue!Terminal
        <4>4. p["daemon"].snap = st
          BY <2>1, <3>1, <4>3 DEF AloneExact, Carrying, Busy
        <4> QED BY <1>4, <1>5, <1>8, <3>2, <4>1, <4>2, <4>4
      <3> QED BY <3>3, <3>4, <3>5 DEF AloneSays
    <2> QED BY <1>1, <1>5, <1>6, <2>1, <2>2, <2>3, <2>4, DaemonWrites
  <1> QED BY <1>7, <1>8, ProcsAre

LEMMA CommentStep ==
  ASSUME IssueInv, NEW x \in Issue!Procs, Issue!Comment(x), UNCHANGED setup
  PROVE  IssueInv'
  <1>1. /\ p[x].pc = "comment"
        /\ UNCHANGED <<st, req, log, binding, row, art, debt, due, alerted, posted, receipt, phase, faults>>
    BY DEF Issue!Comment, Issue!effort, Issue!rows
  <1>2. PICK e \in p[x].todo :
          /\ issues' = [issues EXCEPT ![p[x].issue].notes = Append(@, e)]
          /\ p' = [p EXCEPT ![x].todo = @ \ {e}]
    BY DEF Issue!Comment, Issue!Oldest
  <1>3. /\ issues \in Seq(IssueRow) /\ Len(issues) \in Nat /\ p \in [Issue!Procs -> ProcRow] /\ p[x] \in ProcRow
        /\ p[x].issue \in 1..Len(issues)
    BY <1>1 DEF IssueInv, IssueTypes, ProcRow, WorkExact
  <1> DEFINE old == issues[p[x].issue]
             r == [old EXCEPT !.notes = Append(old.notes, e)]
  <1>4. issues' = [issues EXCEPT ![p[x].issue] = r]
    BY <1>2, <1>3 DEF IssueRow
  <1>5. old \in IssueRow /\ old.notes \in Seq(Nat) /\ e \in Nat
    <2>1. old \in IssueRow
      BY <1>3
    <2>2. e \in Nat
      BY <1>2, <1>3 DEF ProcRow
    <2> QED BY <2>1, <2>2 DEF IssueRow
  <1> HIDE DEF old
  <1>6. /\ Append(old.notes, e) \in Seq(Nat) /\ Len(Append(old.notes, e)) = Len(old.notes) + 1
        /\ Append(old.notes, e)[Len(old.notes) + 1] = e
        /\ \A k \in 1..Len(old.notes) : Append(old.notes, e)[k] = old.notes[k]
    BY <1>5
  <1>7. r \in IssueRow /\ r.notes = Append(old.notes, e) /\ r.body = old.body /\ r.open = old.open
    BY <1>5, <1>6 DEF IssueRow
  <1> HIDE DEF r
  <1>8. Issue!Range(r.notes) = Issue!Range(old.notes) \cup {e}
    <2>1. DOMAIN old.notes = 1..Len(old.notes) /\ DOMAIN r.notes = 1..(Len(old.notes) + 1) /\ Len(old.notes) \in Nat
      BY <1>5, <1>6, <1>7
    <2>2. \A a \in 1..(Len(old.notes) + 1) : a \in 1..Len(old.notes) \/ a = Len(old.notes) + 1
      BY <2>1
    <2>3. \A a \in 1..Len(old.notes) : a \in 1..(Len(old.notes) + 1) /\ r.notes[a] = old.notes[a]
      BY <1>6, <1>7, <2>1
    <2>4. Len(old.notes) + 1 \in 1..(Len(old.notes) + 1) /\ r.notes[Len(old.notes) + 1] = e
      BY <1>6, <1>7, <2>1
    <2> QED BY <2>1, <2>2, <2>3, <2>4 DEF Issue!Range
  <1>9. /\ Kept /\ Len(issues') = Len(issues) /\ issues'[p[x].issue] = r
        /\ \A j \in 1..Len(issues) : j # p[x].issue => issues'[j] = issues[j]
    BY <1>3, <1>4, <1>7, <1>8, Written DEF old
  <1>10. /\ p' \in [Issue!Procs -> ProcRow] /\ \A y \in Issue!Procs : y # x => p'[y] = p[y]
         /\ p'[x].pc = "comment" /\ p'[x].issue = p[x].issue /\ p'[x].snap = p[x].snap
         /\ p'[x].todo = p[x].todo \ {e} /\ p'[x].upto = p[x].upto
    <2>1. p' = [p EXCEPT ![x] = [p[x] EXCEPT !.todo = p[x].todo \ {e}]]
      BY <1>2, <1>3 DEF ProcRow
    <2>2. [p[x] EXCEPT !.todo = p[x].todo \ {e}] \in ProcRow
      BY <1>3 DEF ProcRow
    <2>3. p' \in [Issue!Procs -> ProcRow] /\ \A y \in Issue!Procs : y # x => p'[y] = p[y]
      BY <1>3, <2>1, <2>2
    <2>4. /\ p'[x].pc = "comment" /\ p'[x].issue = p[x].issue /\ p'[x].snap = p[x].snap
          /\ p'[x].todo = p[x].todo \ {e} /\ p'[x].upto = p[x].upto
      BY <1>1, <1>3, <2>1 DEF ProcRow
    <2> QED BY <2>3, <2>4
  <1>11. CASE x = "cli"
    <2>1. p["cli"].pc # "ended" /\ p'["cli"].snap = "enqueued" /\ p'["daemon"] = p["daemon"]
      BY <1>1, <1>10, <1>11, AtWork, ProcsAre DEF Busy
    <2>2. binding' \in {"none", "pending", "reserved"} /\ row' \in 0..Len(issues') /\ faults' \in 0..setup.faults
      BY <1>1, <1>3, <1>9 DEF IssueInv, IssueTypes
    <2>3. p'["cli"].issue <= Len(issues') /\ p'["cli"].issue # 0 /\ p'["cli"].pc = "comment"
      BY <1>3, <1>9, <1>10, <1>11
    <2> QED BY <1>1, <1>9, <1>10, <2>1, <2>2, <2>3, CliStep DEF Busy
  <1>12. CASE x = "daemon"
    <2>1. /\ p'["cli"] = p["cli"] /\ p'["daemon"].pc = "comment" /\ p'["daemon"].issue = p["daemon"].issue
          /\ p'["daemon"].issue <= Len(issues') /\ p'["daemon"].issue # 0 /\ p'["daemon"].snap = p["daemon"].snap
          /\ p'["daemon"].todo = p["daemon"].todo \ {e} /\ p'["daemon"].upto = p["daemon"].upto /\ p["daemon"].pc = "comment"
      BY <1>1, <1>3, <1>9, <1>10, <1>12, ProcsAre
    <2>2. WorkExact'
      BY <1>1, <2>1, ProcsAre, IssueFacts DEF WorkExact, Carrying, Busy, Issue!Reserving
    <2>3. CarriedAll'
      BY <1>1, <1>8, <1>9, <1>12, <2>1, IssueFacts DEF CarriedAll, Carrying, Busy, Issue!Reserving, Issue!Relevant, old
    <2>4. ASSUME ~setup.cli
          PROVE  AloneExact' /\ AloneSays'
      <3>1. AloneExact /\ Issue!OneIssue /\ Issue!CommentOnce /\ Issue!ClosedIsFinal
        BY <2>4 DEF IssueInv, AloneSays
      <3>2. p["daemon"].issue = 1 /\ Len(issues) = 1 /\ DOMAIN issues = {1} /\ DOMAIN issues' = {1}
        <4>1. Len(issues) <= 1
          BY <3>1 DEF Issue!OneIssue
        <4>2. p["daemon"].issue \in 1..Len(issues) /\ Len(issues) \in Nat
          BY <1>3, <1>12
        <4>3. p["daemon"].issue = 1 /\ Len(issues) = 1
          BY <4>1, <4>2, OneOfOne
        <4>4. issues' \in Seq(IssueRow) /\ Len(issues') = 1
          BY <1>9, <4>3 DEF Kept
        <4> QED BY <1>3, <4>3, <4>4
      <3>3. e \notin Issue!Range(old.notes)
        BY <1>2, <1>12, <2>1, <3>1 DEF AloneExact, old
      <3>4. AloneExact'
        <4>1. p'["daemon"].todo \cap Issue!Range(issues'[p'["daemon"].issue].notes) = {}
          BY <1>8, <1>9, <1>12, <2>1, <3>1 DEF AloneExact, old
        <4>2. issues'[p'["daemon"].issue].body = p'["daemon"].snap
          BY <1>7, <1>9, <1>12, <2>1, <3>1 DEF AloneExact, old
        <4> QED BY <1>1, <1>12, <2>1, <3>1, <4>1, <4>2 DEF AloneExact, Carrying, Busy, Issue!Reserving
      <3>5. Issue!OneIssue'
        BY <1>9, <3>2 DEF Issue!OneIssue
      <3>6. Issue!CommentOnce'
        <4>1. \A a, b \in DOMAIN old.notes : old.notes[a] = old.notes[b] => a = b
          BY <1>12, <3>1, <3>2 DEF Issue!CommentOnce, Issue!IsInjective, old
        <4>2. \A a, b \in DOMAIN r.notes : r.notes[a] = r.notes[b] => a = b
          <5>1. DOMAIN old.notes = 1..Len(old.notes) /\ DOMAIN r.notes = 1..(Len(old.notes) + 1)
            BY <1>5, <1>6, <1>7
          <5>2. \A a \in 1..Len(old.notes) : r.notes[a] = old.notes[a] /\ old.notes[a] # e
            BY <1>6, <1>7, <3>3, <5>1 DEF Issue!Range
          <5>3. r.notes[Len(old.notes) + 1] = e /\ Len(old.notes) \in Nat
            BY <1>5, <1>6, <1>7
          <5> QED BY <4>1, <5>1, <5>2, <5>3
        <4> QED BY <1>9, <1>12, <3>2, <4>2 DEF Issue!CommentOnce, Issue!IsInjective
      <3>7. Issue!ClosedIsFinal'
        <4> SUFFICES ASSUME art.state = "closed"
                     PROVE  st \in Issue!Terminal /\ ~issues'[art.issue].open /\ issues'[art.issue].body = st
          BY <1>1 DEF Issue!ClosedIsFinal
        <4>1. art.issue = 1
          BY <3>2, IssueFacts DEF IssueInv, IssueTypes, ArtExact, Issue!NoArt, ArtRow
        <4> QED BY <1>7, <1>9, <1>12, <3>1, <3>2, <4>1 DEF Issue!ClosedIsFinal, old
      <3> QED BY <3>4, <3>5, <3>6, <3>7 DEF AloneSays
    <2> QED BY <1>1, <1>9, <1>10, <2>1, <2>2, <2>3, <2>4, DaemonWrites
  <1> QED BY <1>11, <1>12, ProcsAre

LEMMA CommentedStep ==
  ASSUME IssueInv, NEW x \in Issue!Procs, Issue!Commented(x), UNCHANGED setup
  PROVE  IssueInv'
  <1> DEFINE to == IF p[x].snap \in Issue!Terminal THEN "close" ELSE "record"
  <1>1. /\ p[x].pc = "comment" /\ p[x].todo = {} /\ p' = [p EXCEPT ![x].pc = to]
        /\ UNCHANGED <<st, req, log, binding, row, art, debt, due, alerted, issues, posted, receipt, phase, faults>>
    BY DEF Issue!Commented, Issue!effort, Issue!rows, Issue!remote
  <1>2. to \in {"close", "record"} /\ (to = "close" <=> p[x].snap \in Issue!Terminal)
    OBVIOUS
  <1> HIDE DEF to
  <1>3. /\ p' \in [Issue!Procs -> ProcRow] /\ \A y \in Issue!Procs : y # x => p'[y] = p[y]
        /\ p'[x].pc = to /\ p'[x].issue = p[x].issue /\ p'[x].snap = p[x].snap
        /\ p'[x].todo = p[x].todo /\ p'[x].upto = p[x].upto
    <2>1. p \in [Issue!Procs -> ProcRow] /\ p[x] \in ProcRow
      BY IssueFacts
    <2>2. [p[x] EXCEPT !.pc = to] \in ProcRow
      BY <1>2, <2>1 DEF ProcRow, Busy
    <2> QED BY <1>1, <2>1, <2>2 DEF ProcRow
  <1>4. /\ binding' \in {"none", "pending", "reserved"} /\ row' \in 0..Len(issues') /\ faults' \in 0..setup.faults /\ Kept
        /\ phase' \in Issue!Range(Issue!Phases) /\ Len(issues) \in Nat /\ p[x].issue <= Len(issues)
    BY <1>1, KeptSame DEF IssueInv, IssueTypes
  <1>5. p[x].issue # 0
    BY <1>1, IssueFacts DEF WorkExact
  <1>6. CASE x = "cli"
    <2>1. p["cli"].pc # "ended" /\ p'["cli"].snap = "enqueued" /\ p'["daemon"] = p["daemon"]
      BY <1>1, <1>3, <1>6, AtWork, ProcsAre DEF Busy
    <2> QED BY <1>1, <1>2, <1>3, <1>4, <1>5, <1>6, <2>1, CliStep DEF Busy
  <1>7. CASE x = "daemon"
    <2>1. p'["cli"] = p["cli"]
      BY <1>3, <1>7, ProcsAre
    <2>2. WorkExact'
      BY <1>1, <1>2, <1>3, <1>5, <1>7, <2>1, ProcsAre, IssueFacts DEF WorkExact, Carrying, Busy, Issue!Reserving
    <2>3. CarriedAll'
      BY <1>1, <1>2, <1>3, <1>7, IssueFacts DEF CarriedAll, Carrying, Busy, Issue!Reserving, Issue!Relevant
    <2>4. ~setup.cli => AloneExact'
      BY <1>1, <1>2, <1>3, <1>7, <2>1 DEF IssueInv, AloneExact, Carrying, Busy, Issue!Reserving
    <2> QED BY <1>1, <1>2, <1>3, <1>4, <1>7, <2>1, <2>2, <2>3, <2>4, DaemonStep
  <1> QED BY <1>6, <1>7, ProcsAre

LEMMA CloseStep ==
  ASSUME IssueInv, NEW x \in Issue!Procs, Issue!Close(x), UNCHANGED setup
  PROVE  IssueInv'
  <1>1. /\ p[x].pc = "close" /\ issues' = [issues EXCEPT ![p[x].issue].open = FALSE]
        /\ p' = [p EXCEPT ![x].pc = "record"]
        /\ UNCHANGED <<st, req, log, binding, row, art, debt, due, alerted, posted, receipt, phase, faults>>
    BY DEF Issue!Close, Issue!effort, Issue!rows
  <1>2. /\ issues \in Seq(IssueRow) /\ Len(issues) \in Nat /\ p \in [Issue!Procs -> ProcRow]
        /\ p[x].issue \in 1..Len(issues)
    BY <1>1 DEF IssueInv, IssueTypes, ProcRow, WorkExact
  <1> DEFINE r == [issues[p[x].issue] EXCEPT !.open = FALSE]
  <1>3. issues' = [issues EXCEPT ![p[x].issue] = r]
    BY <1>1
  <1>4. r \in IssueRow /\ r.notes = issues[p[x].issue].notes /\ r.body = issues[p[x].issue].body /\ r.open = FALSE
    <2>1. issues[p[x].issue] \in IssueRow
      BY <1>2
    <2> QED BY <2>1 DEF IssueRow
  <1> HIDE DEF r
  <1>5. /\ Kept /\ Len(issues') = Len(issues) /\ issues'[p[x].issue] = r
        /\ \A j \in 1..Len(issues) : j # p[x].issue => issues'[j] = issues[j]
    BY <1>2, <1>3, <1>4, Written
  <1>6. /\ p' \in [Issue!Procs -> ProcRow] /\ \A y \in Issue!Procs : y # x => p'[y] = p[y]
        /\ p'[x].pc = "record" /\ p'[x].issue = p[x].issue /\ p'[x].snap = p[x].snap
        /\ p'[x].todo = p[x].todo /\ p'[x].upto = p[x].upto
    BY <1>1, <1>2 DEF ProcRow, Busy
  <1>7. CASE x = "cli"
    <2>1. p["cli"].pc # "ended" /\ p'["cli"].snap = "enqueued" /\ p'["daemon"] = p["daemon"]
      BY <1>1, <1>6, <1>7, AtWork, ProcsAre DEF Busy
    <2>2. binding' \in {"none", "pending", "reserved"} /\ row' \in 0..Len(issues') /\ faults' \in 0..setup.faults
      BY <1>1, <1>2, <1>5 DEF IssueInv, IssueTypes
    <2>3. p'["cli"].issue <= Len(issues') /\ p'["cli"].issue # 0 /\ p'["cli"].pc = "record"
      BY <1>2, <1>5, <1>6, <1>7
    <2> QED BY <1>1, <1>5, <1>6, <2>1, <2>2, <2>3, CliStep DEF Busy
  <1>8. CASE x = "daemon"
    <2>1. /\ p'["cli"] = p["cli"] /\ p'["daemon"].pc = "record" /\ p'["daemon"].issue = p["daemon"].issue
          /\ p'["daemon"].issue <= Len(issues') /\ p'["daemon"].issue # 0 /\ p'["daemon"].snap = p["daemon"].snap
          /\ p'["daemon"].todo = p["daemon"].todo /\ p'["daemon"].upto = p["daemon"].upto /\ p["daemon"].pc = "close"
      BY <1>1, <1>2, <1>5, <1>6, <1>8, ProcsAre
    <2>2. WorkExact'
      BY <1>1, <2>1, ProcsAre, IssueFacts DEF WorkExact, Carrying, Busy, Issue!Reserving
    <2>3. CarriedAll'
      BY <1>1, <1>4, <1>5, <1>8, <2>1, IssueFacts DEF CarriedAll, Carrying, Busy, Issue!Reserving, Issue!Relevant
    <2>4. ASSUME ~setup.cli
          PROVE  AloneExact' /\ AloneSays'
      <3>1. AloneExact /\ Issue!OneIssue /\ Issue!CommentOnce /\ Issue!ClosedIsFinal
        BY <2>4 DEF IssueInv, AloneSays
      <3>2. p["daemon"].issue = 1 /\ Len(issues) = 1 /\ DOMAIN issues = {1} /\ DOMAIN issues' = {1}
        <4>1. Len(issues) <= 1
          BY <3>1 DEF Issue!OneIssue
        <4>2. p["daemon"].issue \in 1..Len(issues) /\ Len(issues) \in Nat
          BY <1>2, <1>8
        <4>3. p["daemon"].issue = 1 /\ Len(issues) = 1
          BY <4>1, <4>2, OneOfOne
        <4>4. issues' \in Seq(IssueRow) /\ Len(issues') = 1
          BY <1>5, <4>3 DEF Kept
        <4> QED BY <1>2, <4>3, <4>4
      <3>3. AloneExact'
        BY <1>1, <1>4, <1>5, <1>8, <2>1, <3>1 DEF AloneExact, Carrying, Busy, Issue!Reserving
      <3>4. Issue!OneIssue' /\ Issue!CommentOnce'
        BY <1>4, <1>5, <1>8, <3>1, <3>2 DEF Issue!OneIssue, Issue!CommentOnce
      <3>5. Issue!ClosedIsFinal'
        <4> SUFFICES ASSUME art.state = "closed"
                     PROVE  st \in Issue!Terminal /\ ~issues'[art.issue].open /\ issues'[art.issue].body = st
          BY <1>1 DEF Issue!ClosedIsFinal
        <4>1. art.issue = 1
          BY <3>2, IssueFacts DEF IssueInv, IssueTypes, ArtExact, Issue!NoArt, ArtRow
        <4> QED BY <1>4, <1>5, <1>8, <3>1, <3>2, <4>1 DEF Issue!ClosedIsFinal
      <3> QED BY <3>3, <3>4, <3>5 DEF AloneSays
    <2> QED BY <1>1, <1>5, <1>6, <2>1, <2>2, <2>3, <2>4, DaemonWrites
  <1> QED BY <1>7, <1>8, ProcsAre

-----------------------------------------------------------------------------
(* What is recorded of an issue *)

LEMMA RecordReservedStep ==
  ASSUME IssueInv, NEW x \in Issue!Procs, Issue!RecordReserved(x), UNCHANGED setup
  PROVE  IssueInv'
  <1>1. /\ p[x].pc = "record" /\ Issue!Reserving(x) /\ Issue!Leave(x)
        /\ \/ binding = "pending" /\ binding' = "reserved" /\ row' = p[x].issue
           \/ binding # "pending" /\ UNCHANGED <<binding, row>>
        /\ UNCHANGED <<st, req, log, art, debt, due, alerted, issues, posted, receipt, faults>>
    BY DEF Issue!RecordReserved, Issue!effort, Issue!remote
  <1>2. /\ binding' \in {"none", "pending", "reserved"} /\ binding' # "pending" /\ row' \in 0..Len(issues)
        /\ faults' \in 0..setup.faults
    BY <1>1 DEF IssueInv, IssueTypes, ProcRow
  <1>3. CASE x = "cli"
    BY <1>1, <1>2, <1>3, AtWork, CliEnds DEF Issue!Leave, Busy
  <1>4. CASE x = "daemon"
    <2>1. p' = [p EXCEPT !["daemon"] = Issue!Idle] /\ phase' = Issue!NextPhase
      BY <1>1, <1>4 DEF Issue!Leave
    <2>2. phase' \in Issue!Range(Issue!Phases)
      BY <2>1, NextPhaseIs DEF IssueInv, IssueTypes
    <2>3. /\ p' \in [Issue!Procs -> ProcRow] /\ p'["cli"] = p["cli"] /\ p'["daemon"] = Issue!Idle
          /\ \A y \in Issue!Procs : p'[y].issue <= Len(issues)
          /\ WorkExact' /\ CarriedAll'
      BY <1>1, <2>1, <2>2, DaemonRests
    <2>4. IssueTypes'
      BY <1>1, <1>2, <2>2, <2>3 DEF IssueInv, IssueTypes
    <2>5. Issue!ProjectedAll'
      BY <1>1, IssueFacts, KeptSame, ProjectedKept
    <2>6. ArtExact' /\ Issue!AppliedOnce' /\ AnswersExact'
      BY <1>1, <2>3, IdleProc DEF IssueInv, ArtExact, AnswersExact, Issue!AppliedOnce
    <2>7. ~setup.cli => AloneExact'
      BY <1>1, <1>2, <2>3, IdleProc DEF IssueInv, AloneExact, Carrying, Busy, Issue!Reserving, Issue!Terminal
    <2>8. ~setup.cli => AloneSays'
      BY <1>1 DEF IssueInv, AloneSays, Issue!OneIssue, Issue!CommentOnce, Issue!ClosedIsFinal
    <2> QED BY <2>3, <2>4, <2>5, <2>6, <2>7, <2>8 DEF IssueInv
  <1> QED BY <1>3, <1>4, ProcsAre

\* Only the daemon projects; what it records is on the issue.
LEMMA RecordProjectedStep ==
  ASSUME IssueInv, NEW x \in Issue!Procs, Issue!RecordProjected(x), UNCHANGED setup
  PROVE  IssueInv'
  <1>1. p[x].pc = "record" /\ ~Issue!Reserving(x)
    BY DEF Issue!RecordProjected
  <1>2. x = "daemon"
    BY <1>1, AtWork, ProcsAre DEF Busy, Issue!Reserving
  <1> DEFINE new == [issue |-> p["daemon"].issue, last |-> p["daemon"].upto,
                     state |-> IF p["daemon"].snap \in Issue!Terminal THEN "closed" ELSE "active"]
  <1>3. /\ art' = new /\ debt' = 0 /\ due' = FALSE /\ Issue!Leave("daemon")
        /\ UNCHANGED <<st, req, log, binding, row, alerted, issues, posted, receipt, faults>>
    BY <1>2 DEF Issue!RecordProjected, Issue!Upto, Issue!effort, Issue!remote
  <1>4. /\ p["daemon"].pc = "record" /\ Carrying /\ p["daemon"] \in ProcRow /\ p["daemon"].issue \in 1..Len(issues)
        /\ phase \in {"first", "second"} /\ st \notin {"none", "dropped"}
    BY <1>1, <1>2, ProcsAre DEF IssueInv, IssueTypes, WorkExact, Carrying, Busy, ProcRow
  <1>5. /\ p["daemon"].upto \in 0..Len(log) /\ p["daemon"].todo = {}
        /\ \A e \in 1..p["daemon"].upto : Issue!Relevant(log[e]) => e \in Issue!Range(issues[p["daemon"].issue].notes)
    <2>1. art.last \in Nat /\ Len(log) \in Nat /\ CarriedAll
      BY IssueFacts DEF ArtRow
    <2>2. p["daemon"].upto \in art.last..Len(log) /\ p["daemon"].todo = {}
      BY <1>4, <2>1 DEF CarriedAll
    <2>3. p["daemon"].upto \in 0..Len(log)
      BY <2>1, <2>2
    <2> QED BY <1>4, <2>1, <2>2, <2>3 DEF CarriedAll
  <1>6. /\ new \in ArtRow /\ new.issue = p["daemon"].issue /\ new.last = p["daemon"].upto
        /\ (new.state = "closed" => p["daemon"].snap \in Issue!Terminal)
    BY <1>4, <1>5 DEF ArtRow, ProcRow
  <1> HIDE DEF new
  <1>7. p' = [p EXCEPT !["daemon"] = Issue!Idle] /\ phase' = Issue!NextPhase
    BY <1>3 DEF Issue!Leave
  <1>8. phase' \in Issue!Range(Issue!Phases)
    BY <1>7, NextPhaseIs DEF IssueInv, IssueTypes
  <1>9. /\ p' \in [Issue!Procs -> ProcRow] /\ p'["cli"] = p["cli"] /\ p'["daemon"] = Issue!Idle
        /\ \A y \in Issue!Procs : p'[y].issue <= Len(issues)
        /\ WorkExact' /\ CarriedAll'
    BY <1>3, <1>7, <1>8, DaemonRests
  <1>10. IssueTypes'
    <2>1. debt' \in 0..DebtLimit /\ art'.issue <= Len(issues) /\ art'.last <= Len(log)
      BY <1>3, <1>4, <1>5, <1>6, IssueConstants
    <2>2. due' \in BOOLEAN
      BY <1>3, Zenon
    <2> QED BY <1>3, <1>6, <1>8, <1>9, <2>1, <2>2 DEF IssueInv, IssueTypes
  <1>11. Issue!ProjectedAll'
    BY <1>3, <1>5, <1>6 DEF Issue!ProjectedAll, Issue!Relevant
  <1>12. ArtExact'
    BY <1>3, <1>4, <1>6 DEF ArtExact
  <1>13. Issue!AppliedOnce' /\ AnswersExact'
    BY <1>3, <1>9, IdleProc DEF IssueInv, AnswersExact, Issue!AppliedOnce
  <1>14. ASSUME ~setup.cli
         PROVE  AloneExact' /\ AloneSays'
    <2>1. AloneExact /\ AloneSays
      BY <1>14 DEF IssueInv
    <2>2. AloneExact'
      BY <1>3, <1>4, <1>9, <2>1, IdleProc DEF AloneExact, Carrying, Busy, Issue!Reserving, Issue!Terminal
    <2>3. Issue!ClosedIsFinal'
      BY <1>3, <1>4, <1>6, <2>1 DEF AloneExact, Issue!ClosedIsFinal
    <2> QED BY <1>3, <2>1, <2>2, <2>3 DEF AloneSays, Issue!OneIssue, Issue!CommentOnce
  <1> QED BY <1>9, <1>10, <1>11, <1>12, <1>13, <1>14 DEF IssueInv

-----------------------------------------------------------------------------
(* What is read, and what is left for later *)

LEMMA ReadEffortStep ==
  ASSUME IssueInv, Issue!ReadEffort, UNCHANGED setup
  PROVE  IssueInv'
  <1> DEFINE begun == [Issue!Idle EXCEPT !.pc = "read", !.snap = st]
  <1>1. /\ phase \in {"first", "second"} /\ p["daemon"].pc = "idle" /\ st \notin {"none", "dropped"}
        /\ p' = [p EXCEPT !["daemon"] = begun]
        /\ UNCHANGED <<st, req, log, binding, row, art, debt, due, alerted, issues, posted, receipt, phase, faults>>
    BY DEF Issue!ReadEffort, Issue!Selected, Issue!effort, Issue!rows, Issue!remote
  <1>2. begun \in ProcRow /\ begun.pc = "read" /\ begun.snap = st /\ begun.issue = 0
    BY IssueFacts, IdleProc DEF ProcRow, Busy
  <1> HIDE DEF begun
  <1>3. p' \in [Issue!Procs -> ProcRow] /\ p'["daemon"] = begun /\ p'["cli"] = p["cli"]
    BY <1>1, <1>2, IssueFacts, ProcsAre
  <1>4. st # "enqueued"
    BY IssueFacts DEF Issue!States, Issue!Terminal
  <1>5. WorkExact' /\ CarriedAll'
    BY <1>1, <1>2, <1>3, <1>4, ProcsAre, IssueFacts DEF WorkExact, CarriedAll, Carrying, Busy, Issue!Reserving
  <1>6. ~setup.cli => AloneExact'
    BY <1>1, <1>2, <1>3, <1>4 DEF IssueInv, AloneExact, Carrying, Busy, Issue!Reserving
  <1>7. phase' \in Issue!Range(Issue!Phases) /\ faults' \in 0..setup.faults /\ Len(issues) \in Nat
    BY <1>1 DEF IssueInv, IssueTypes
  <1> QED BY <1>1, <1>2, <1>3, <1>5, <1>6, <1>7, DaemonStep

\* Every event after the row is carried, or the row stays where it is.
LEMMA ReadEventsStep ==
  ASSUME IssueInv, Issue!ReadEvents, UNCHANGED setup
  PROVE  IssueInv'
  <1> DEFINE new == {e \in (art.last + 1)..Len(log) : Issue!Relevant(log[e])}
             begun == [p["daemon"] EXCEPT !.pc = "locate", !.issue = art.issue, !.todo = new, !.upto = Len(log)]
  <1>1. /\ p["daemon"].pc = "read"
        /\ Issue!Leave("daemon") \/ (p' = [p EXCEPT !["daemon"] = begun] /\ UNCHANGED phase)
        /\ UNCHANGED <<st, req, log, binding, row, art, debt, due, alerted, issues, posted, receipt, faults>>
    BY DEF Issue!ReadEvents, Issue!effort, Issue!rows, Issue!remote
  <1>2. /\ phase \in {"first", "second"} /\ phase \in Issue!Range(Issue!Phases) /\ faults' \in 0..setup.faults
        /\ st \notin {"none", "dropped"} /\ ~Issue!Reserving("daemon")
    BY <1>1 DEF IssueInv, IssueTypes, WorkExact, Busy
  <1>3. CASE Issue!Leave("daemon")
    <2>1. p' = [p EXCEPT !["daemon"] = Issue!Idle] /\ phase' = Issue!NextPhase
      BY <1>3 DEF Issue!Leave
    <2> QED BY <1>1, <1>2, <2>1, NextPhaseIs, DaemonLeaves
  <1>4. CASE p' = [p EXCEPT !["daemon"] = begun] /\ UNCHANGED phase
    <2>1. /\ art.issue \in Nat /\ art.last \in Nat /\ art.issue <= Len(issues) /\ Len(log) \in Nat /\ art.last <= Len(log)
          /\ p["daemon"] \in ProcRow
      BY ProcsAre DEF IssueInv, IssueTypes, ArtRow
    <2>2. new \in SUBSET Nat /\ \A e \in 1..Len(log) : Issue!Relevant(log[e]) => e <= art.last \/ e \in new
      BY <2>1
    <2>3. \A e \in 1..art.last : Issue!Relevant(log[e]) => art.issue # 0 /\ e \in Issue!Range(issues[art.issue].notes)
      BY <2>1 DEF IssueInv, Issue!ProjectedAll, ArtExact, Issue!NoArt
    <2> HIDE DEF new
    <2>4. /\ begun \in ProcRow /\ begun.pc = "locate" /\ begun.issue = art.issue /\ begun.todo = new
          /\ begun.upto = Len(log) /\ begun.snap = p["daemon"].snap
      BY <2>1, <2>2 DEF ProcRow, Busy
    <2> HIDE DEF begun
    <2>5. p' \in [Issue!Procs -> ProcRow] /\ p'["daemon"] = begun /\ p'["cli"] = p["cli"]
      BY <1>4, <2>4, IssueFacts, ProcsAre
    <2>6. WorkExact'
      BY <1>1, <1>2, <1>4, <2>4, <2>5, ProcsAre, IssueFacts DEF WorkExact, Carrying, Busy, Issue!Reserving
    <2>7. CarriedAll'
      <3>1. p'["daemon"].upto \in art.last..Len(log)
        BY <2>1, <2>4, <2>5
      <3>2. \A e \in 1..Len(log) : Issue!Relevant(log[e]) => e \in new \/ (art.issue # 0 /\ e \in Issue!Range(issues[art.issue].notes))
        BY <2>1, <2>2, <2>3
      <3> QED BY <1>1, <2>4, <2>5, <3>1, <3>2 DEF CarriedAll, Issue!Relevant
    <2>8. ~setup.cli => AloneExact'
      BY <1>1, <1>2, <1>4, <2>4, <2>5 DEF IssueInv, AloneExact, Carrying, Busy, Issue!Reserving
    <2> QED BY <1>1, <1>2, <1>4, <2>1, <2>4, <2>5, <2>6, <2>7, <2>8, DaemonStep
  <1> QED BY <1>1, <1>3, <1>4

LEMMA SkipStep ==
  ASSUME IssueInv, Issue!Skip, UNCHANGED setup
  PROVE  IssueInv'
  <1>1. /\ p["daemon"].pc = "idle" /\ (phase = "outbox" => binding # "pending") /\ phase' = Issue!NextPhase
        /\ UNCHANGED <<st, req, log, binding, row, art, debt, due, alerted, issues, posted, receipt, p, faults>>
    BY DEF Issue!Skip, Issue!effort, Issue!rows, Issue!remote
  <1>2. phase' \in Issue!Range(Issue!Phases) /\ faults' \in 0..setup.faults /\ p["daemon"].issue <= Len(issues)
    BY <1>1, NextPhaseIs, ProcsAre DEF IssueInv, IssueTypes
  <1>3. WorkExact' /\ CarriedAll'
    BY <1>1, ProcsAre, IssueFacts DEF WorkExact, CarriedAll, Carrying, Busy, Issue!Reserving
  <1>4. ~setup.cli => AloneExact'
    BY <1>1 DEF IssueInv, AloneExact, Carrying, Busy, Issue!Reserving
  <1> QED BY <1>1, <1>2, <1>3, <1>4, IssueFacts, DaemonStep

\* An event is added; what the row has passed stays what it was.
LEMMA LogGrows ==
  ASSUME IssueInv, NEW kind \in Issue!EventKinds, log' = log \/ log' = Append(log, kind)
  PROVE  /\ log' \in Seq(Issue!EventKinds) /\ Len(log) <= Len(log') /\ Len(log') \in Nat /\ Len(log) \in Nat
         /\ \A e \in 1..Len(log) : log'[e] = log[e]
  <1>1. log \in Seq(Issue!EventKinds) /\ Len(log) \in Nat
    BY IssueFacts
  <1>2. CASE log' = log
    BY <1>1, <1>2
  <1>3. CASE log' = Append(log, kind)
    <2>1. log' \in Seq(Issue!EventKinds) /\ Len(log') = Len(log) + 1 /\ \A e \in 1..Len(log) : log'[e] = log[e]
      BY <1>1, <1>3
    <2> QED BY <1>1, <2>1
  <1> QED BY <1>2, <1>3

LEMMA ProjectedGrown ==
  ASSUME IssueInv, log' \in Seq(Issue!EventKinds), Len(log) <= Len(log'), \A e \in 1..Len(log) : log'[e] = log[e],
         UNCHANGED <<setup, art, issues>>
  PROVE  Issue!ProjectedAll'
  <1>1. art.last \in Nat /\ art.last <= Len(log) /\ Len(log) \in Nat
    BY DEF IssueInv, IssueTypes, ArtRow
  <1>2. \A e \in 1..art.last : log'[e] = log[e]
    BY <1>1
  <1> QED BY <1>2 DEF IssueInv, Issue!ProjectedAll, Issue!Relevant

LEMMA CarriedGrown ==
  ASSUME IssueInv, log' \in Seq(Issue!EventKinds), Len(log) <= Len(log'), \A e \in 1..Len(log) : log'[e] = log[e],
         UNCHANGED <<setup, art, issues>>, p'["daemon"] = p["daemon"]
  PROVE  CarriedAll'
  <1> SUFFICES ASSUME Carrying
               PROVE  CarriedAll'
    BY DEF CarriedAll, Carrying, Issue!Reserving
  <1>1. art.last \in Nat /\ Len(log) \in Nat /\ Len(log') \in Nat /\ CarriedAll
    BY IssueFacts DEF ArtRow
  <1>2. p["daemon"].upto \in art.last..Len(log)
    BY <1>1 DEF CarriedAll
  <1>3. p["daemon"].upto \in art.last..Len(log') /\ \A e \in 1..p["daemon"].upto : log'[e] = log[e]
    BY <1>1, <1>2
  <1> QED BY <1>1, <1>3 DEF CarriedAll, Issue!Relevant

\* A failure leaves a debt that is bounded, and an event of it.
LEMMA FailedStep ==
  ASSUME IssueInv, NEW x \in Issue!Procs, p[x].pc \in Busy, Issue!Failed(x), faults' \in 0..setup.faults,
         UNCHANGED <<setup, st, req, binding, row, art, alerted, issues, posted, receipt>>
  PROVE  IssueInv'
  <1>1. binding' \in {"none", "pending", "reserved"} /\ row' \in 0..Len(issues') /\ phase \in Issue!Range(Issue!Phases)
    BY DEF IssueInv, IssueTypes
  <1>2. CASE x = "cli"
    <2>1. Issue!Reserving("cli") /\ p["cli"].pc # "ended"
      BY <1>2, AtWork DEF Issue!Reserving
    <2>2. p' = [p EXCEPT !["cli"] = [Issue!Idle EXCEPT !.pc = "ended"]] /\ UNCHANGED <<log, debt, due, phase>>
      BY <1>2, <2>1 DEF Issue!Failed
    <2> QED BY <1>1, <2>1, <2>2, CliEnds
  <1>3. CASE x = "daemon" /\ Issue!Reserving("daemon")
    <2>1. p' = [p EXCEPT !["daemon"] = Issue!Idle] /\ phase' = "outbox" /\ UNCHANGED <<log, debt, due>>
      BY <1>3 DEF Issue!Failed
    <2> QED BY <2>1, PhaseSet, DaemonLeaves
  <1>4. CASE x = "daemon" /\ ~Issue!Reserving("daemon")
    <2>1. /\ p' = [p EXCEPT !["daemon"] = Issue!Idle] /\ phase' = Issue!NextPhase
          /\ debt' = (IF debt < DebtLimit THEN debt + 1 ELSE debt) /\ due' = FALSE /\ log' = Append(log, "debt")
      BY <1>4 DEF Issue!Failed
    <2>2. Carrying /\ phase # "outbox"
      BY <1>4, IssueFacts DEF WorkExact, Carrying
    <2>3. /\ log' \in Seq(Issue!EventKinds) /\ Len(log) <= Len(log') /\ Len(log') \in Nat /\ Len(log) \in Nat
          /\ \A e \in 1..Len(log) : log'[e] = log[e]
      <3>1. "debt" \in Issue!EventKinds
        BY DEF Issue!EventKinds
      <3> QED BY <2>1, <3>1, LogGrows
    <2>4. phase' \in Issue!Range(Issue!Phases)
      BY <1>1, <2>1, NextPhaseIs
    <2>5. /\ p' \in [Issue!Procs -> ProcRow] /\ p'["cli"] = p["cli"] /\ p'["daemon"] = Issue!Idle
          /\ \A y \in Issue!Procs : p'[y].issue <= Len(issues)
          /\ WorkExact' /\ CarriedAll'
      BY <2>1, <2>4, DaemonRests
    <2>6. IssueTypes'
      <3>1. debt' \in 0..DebtLimit
        BY <2>1, IssueConstants DEF IssueInv, IssueTypes
      <3>2. due' \in BOOLEAN
        BY <2>1, Zenon
      <3>3. art.last <= Len(log')
        BY <2>3 DEF IssueInv, IssueTypes, ArtRow
      <3> QED BY <2>3, <2>4, <2>5, <3>1, <3>2, <3>3 DEF IssueInv, IssueTypes
    <2>7. Issue!ProjectedAll'
      BY <2>3, ProjectedGrown
    <2>8. ArtExact' /\ Issue!AppliedOnce' /\ AnswersExact'
      BY <2>5, IdleProc DEF IssueInv, ArtExact, AnswersExact, Issue!AppliedOnce
    <2>9. ~setup.cli => AloneExact'
      BY <2>2, <2>5, IdleProc DEF IssueInv, AloneExact, Carrying, Busy, Issue!Reserving, Issue!Terminal
    <2>10. ~setup.cli => AloneSays'
      BY DEF IssueInv, AloneSays, Issue!OneIssue, Issue!CommentOnce, Issue!ClosedIsFinal
    <2> QED BY <2>5, <2>6, <2>7, <2>8, <2>9, <2>10 DEF IssueInv
  <1> QED BY <1>2, <1>3, <1>4, ProcsAre

LEMMA FailStep ==
  ASSUME IssueInv, NEW x \in Issue!Procs, Issue!Fail(x) \/ Issue!Ambiguous(x), UNCHANGED setup
  PROVE  IssueInv'
  <1>1. /\ p[x].pc \in Busy /\ Issue!Failed(x) /\ (faults' = faults \/ (faults < setup.faults /\ faults' = faults + 1))
        /\ UNCHANGED <<st, req, binding, row, art, alerted, issues, posted, receipt>>
    BY DEF Issue!Fail, Issue!Ambiguous, Issue!External, Issue!remote, Busy
  <1>2. faults' \in 0..setup.faults
    BY <1>1, IssueFacts DEF IssueInv, IssueTypes, Issue!Setup
  <1> QED BY <1>1, <1>2, FailedStep

LEMMA CrashStep ==
  ASSUME IssueInv, NEW x \in Issue!Procs, Issue!Crash(x), UNCHANGED setup
  PROVE  IssueInv'
  <1>1. /\ p[x].pc \notin {"idle", "ended"} /\ faults < setup.faults /\ faults' = faults + 1
        /\ p' = [p EXCEPT ![x] = IF x = "cli" THEN [Issue!Idle EXCEPT !.pc = "ended"] ELSE Issue!Idle]
        /\ phase' = (IF x = "daemon" THEN "outbox" ELSE phase)
        /\ UNCHANGED <<st, req, log, binding, row, art, debt, due, alerted, issues, posted, receipt>>
    BY DEF Issue!Crash, Issue!effort, Issue!rows, Issue!remote
  <1>2. faults' \in 0..setup.faults
    BY <1>1, IssueFacts DEF IssueInv, IssueTypes, Issue!Setup
  <1>3. CASE x = "cli"
    <2>1. binding' \in {"none", "pending", "reserved"} /\ row' \in 0..Len(issues')
      BY <1>1 DEF IssueInv, IssueTypes
    <2> QED BY <1>1, <1>2, <1>3, <2>1, CliEnds
  <1>4. CASE x = "daemon"
    BY <1>1, <1>2, <1>4, PhaseSet, DaemonLeaves
  <1> QED BY <1>3, <1>4, ProcsAre

-----------------------------------------------------------------------------
(* The effort, and the comments of responders *)

\* A transition of the effort: a final state is kept, and a request that is open is a new one.
LEMMA EffortStep ==
  ASSUME IssueInv, NEW kind \in Issue!EventKinds, log' = log \/ log' = Append(log, kind), st' \in Issue!States, req' \in Nat,
         req <= req', st \in {"none", "dropped"} <=> st' \in {"none", "dropped"}, st \in Issue!Terminal => st' = st,
         st' \in {"guidance", "review"} => req < req' \/ (st' = st /\ req' = req),
         phase' = phase \/ (p["daemon"].pc = "idle" /\ phase # "outbox" /\ phase' \in Issue!Range(Issue!Phases)),
         alerted' \in BOOLEAN,
         UNCHANGED <<setup, binding, row, art, debt, due, issues, posted, receipt, p, faults>>
  PROVE  IssueInv'
  <1>1. /\ log' \in Seq(Issue!EventKinds) /\ Len(log) <= Len(log') /\ Len(log') \in Nat /\ Len(log) \in Nat
        /\ \A e \in 1..Len(log) : log'[e] = log[e]
    BY LogGrows
  <1>2. IssueTypes'
    <2>1. art.last <= Len(log') /\ phase' \in Issue!Range(Issue!Phases)
      BY <1>1 DEF IssueInv, IssueTypes, ArtRow
    <2> QED BY <1>1, <2>1 DEF IssueInv, IssueTypes
  <1>3. Issue!ProjectedAll' /\ CarriedAll'
    BY <1>1, ProjectedGrown, CarriedGrown
  <1>4. WorkExact'
    BY IssueFacts DEF WorkExact, Carrying, Busy, Issue!Reserving
  <1>5. ArtExact' /\ Issue!AppliedOnce'
    BY DEF IssueInv, ArtExact, Issue!AppliedOnce
  <1>6. AnswersExact'
    <2>1. posted \in Seq(PostRow)
      BY DEF IssueInv, IssueTypes
    <2>2. \A i \in DOMAIN posted : posted[i] \in PostRow
      BY <2>1
    <2>3. \A i \in DOMAIN posted : posted[i].req \in Nat
      BY <2>2 DEF PostRow
    <2>4. req \in Nat /\ AnswersExact
      BY IssueFacts
    <2>5. \A i \in DOMAIN posted : posted[i].req <= req'
      <3> SUFFICES ASSUME NEW i \in DOMAIN posted
                   PROVE  posted[i].req <= req'
        OBVIOUS
      <3>1. posted[i].req \in Nat /\ posted[i].req <= req
        BY <2>3, <2>4 DEF AnswersExact
      <3> QED BY <2>4, <3>1
    <2>6. \A i \in DOMAIN posted : receipt[i] = "applied" /\ st' \in {"guidance", "review"} => posted[i].req < req'
      <3> SUFFICES ASSUME NEW i \in DOMAIN posted, receipt[i] = "applied", st' \in {"guidance", "review"}
                   PROVE  posted[i].req < req'
        OBVIOUS
      <3>1. posted[i].req \in Nat /\ posted[i].req <= req /\ (st \in {"guidance", "review"} => posted[i].req < req)
        BY <2>3, <2>4 DEF AnswersExact
      <3>2. CASE req < req'
        BY <2>4, <3>1, <3>2
      <3>3. CASE st' = st /\ req' = req
        BY <3>1, <3>3
      <3> QED BY <3>2, <3>3
    <2> QED BY <2>4, <2>5, <2>6 DEF AnswersExact
  <1>7. ASSUME ~setup.cli
        PROVE  AloneExact' /\ AloneSays'
    <2>1. AloneExact /\ AloneSays
      BY <1>7 DEF IssueInv
    <2>2. Issue!ClosedIsFinal'
      BY <2>1 DEF AloneSays, Issue!ClosedIsFinal
    <2>3. AloneExact'
      BY <2>1 DEF AloneExact, AloneSays, Issue!ClosedIsFinal, Carrying, Busy, Issue!Reserving
    <2> QED BY <2>1, <2>2, <2>3 DEF AloneSays, Issue!OneIssue, Issue!CommentOnce
  <1> QED BY <1>2, <1>3, <1>4, <1>5, <1>6, <1>7 DEF IssueInv

LEMMA AlertStep ==
  ASSUME IssueInv, Issue!Alert, UNCHANGED setup
  PROVE  IssueInv'
  <1>1. /\ phase = "alert" /\ p["daemon"].pc = "idle" /\ alerted' = TRUE /\ log' = Append(log, "alert") /\ phase' = Issue!NextPhase
        /\ UNCHANGED <<st, req, binding, row, art, debt, due, issues, posted, receipt, p, faults>>
    BY DEF Issue!Alert, Issue!remote
  <1>2. alerted' \in BOOLEAN
    BY <1>1, Zenon
  <1>3. phase' \in Issue!Range(Issue!Phases) /\ st \in Issue!States /\ req \in Nat /\ "alert" \in Issue!EventKinds
    BY <1>1, NextPhaseIs DEF IssueInv, IssueTypes, Issue!EventKinds
  <1> QED BY <1>1, <1>2, <1>3, EffortStep

LEMMA WorkStep ==
  ASSUME IssueInv, Issue!Work, UNCHANGED setup
  PROVE  IssueInv'
  <1>1. /\ phase = "work" /\ p["daemon"].pc = "idle" /\ st = "running" /\ phase' = Issue!NextPhase
        /\ UNCHANGED <<binding, row, art, debt, due, alerted, issues, posted, receipt, p, faults>>
    BY DEF Issue!Work, Issue!rows, Issue!remote
  <1>2. PICK kind \in {"step", "alert", "integrated"} :
          /\ log' = Append(log, kind)
          /\ \/ st' \in {"running", "blocked", "integrated"} /\ req' = req
             \/ st' \in {"guidance", "review"} /\ req' = req + 1
    BY DEF Issue!Work, Issue!Move
  <1>3. /\ phase' \in Issue!Range(Issue!Phases) /\ req \in Nat /\ alerted' \in BOOLEAN /\ kind \in Issue!EventKinds
    BY <1>1, NextPhaseIs DEF IssueInv, IssueTypes, Issue!EventKinds
  <1>4. /\ st' \in Issue!States /\ req' \in Nat /\ req <= req' /\ st' \notin {"none", "dropped"}
        /\ (st' \in {"guidance", "review"} => req < req') /\ st \notin Issue!Terminal
    BY <1>1, <1>2, <1>3 DEF Issue!States, Issue!Terminal
  <1> QED BY <1>1, <1>2, <1>3, <1>4, EffortStep

LEMMA CancelStep ==
  ASSUME IssueInv, Issue!Cancel, UNCHANGED setup
  PROVE  IssueInv'
  <1>1. /\ st \notin Issue!Terminal \cup {"dropped"}
        /\ (st = "none" /\ st' = "dropped" /\ log' = log) \/ (st # "none" /\ st' = "cancelled" /\ log' = Append(log, "cancelled"))
        /\ UNCHANGED <<req, binding, row, art, debt, due, alerted, issues, posted, receipt, phase, p, faults>>
    BY DEF Issue!Cancel, Issue!rows, Issue!remote
  <1>2. req \in Nat /\ alerted' \in BOOLEAN /\ st' \in Issue!States /\ "cancelled" \in Issue!EventKinds
    BY <1>1 DEF IssueInv, IssueTypes, Issue!States, Issue!Terminal, Issue!EventKinds
  <1> QED BY <1>1, <1>2, EffortStep

LEMMA RetryStep ==
  ASSUME IssueInv, Issue!Retry, UNCHANGED setup
  PROVE  IssueInv'
  <1>1. /\ st = "blocked" /\ st' = "running" /\ log' = Append(log, "resumed")
        /\ UNCHANGED <<req, binding, row, art, debt, due, alerted, issues, posted, receipt, phase, p, faults>>
    BY DEF Issue!Retry, Issue!Move, Issue!rows, Issue!remote
  <1>2. req \in Nat /\ alerted' \in BOOLEAN /\ st' \in Issue!States /\ "resumed" \in Issue!EventKinds /\ st \notin Issue!Terminal
    BY <1>1 DEF IssueInv, IssueTypes, Issue!States, Issue!Terminal, Issue!EventKinds
  <1> QED BY <1>1, <1>2, EffortStep

LEMMA TickStep ==
  ASSUME IssueInv, Issue!Tick, UNCHANGED setup
  PROVE  IssueInv'
  <1>1. /\ due' = TRUE
        /\ UNCHANGED <<st, req, log, binding, row, art, debt, alerted, issues, posted, receipt, phase, p, faults>>
    BY DEF Issue!Tick, Issue!effort, Issue!remote
  <1>2. due' \in BOOLEAN
    BY <1>1, Zenon
  <1>3. IssueTypes'
    BY <1>1, <1>2 DEF IssueInv, IssueTypes
  <1>4. Issue!ProjectedAll' /\ CarriedAll'
    BY <1>1, IssueFacts, KeptSame, ProjectedKept, CarriedKept
  <1>5. WorkExact' /\ ArtExact' /\ Issue!AppliedOnce' /\ AnswersExact'
    BY <1>1 DEF IssueInv, WorkExact, ArtExact, Issue!AppliedOnce, AnswersExact, Carrying, Issue!Reserving
  <1>6. ~setup.cli => AloneExact' /\ AloneSays'
    BY <1>1 DEF IssueInv, AloneExact, AloneSays, Carrying, Issue!Reserving, Issue!OneIssue, Issue!CommentOnce, Issue!ClosedIsFinal
  <1> QED BY <1>3, <1>4, <1>5, <1>6 DEF IssueInv

\* The reservation becomes the artifact, which has passed no event yet.
LEMMA CreateEffortStep ==
  ASSUME IssueInv, Issue!CreateEffort, UNCHANGED setup
  PROVE  IssueInv'
  <1>1. /\ phase = "work" /\ p["daemon"].pc = "idle" /\ st = "none" /\ st' = "running" /\ log' = Append(log, "step")
        /\ art' = (IF row = 0 THEN Issue!NoArt ELSE [issue |-> row, last |-> 0, state |-> "reserved"])
        /\ row' = 0 /\ phase' = Issue!NextPhase
        /\ UNCHANGED <<req, binding, debt, due, alerted, issues, posted, receipt, p, faults>>
    BY DEF Issue!CreateEffort, Issue!Move, Issue!remote
  <1>2. /\ log' \in Seq(Issue!EventKinds) /\ Len(log') \in Nat
    <2>1. "step" \in Issue!EventKinds
      BY DEF Issue!EventKinds
    <2> QED BY <1>1, <2>1, LogGrows
  <1>3. row \in 0..Len(issues) /\ Len(issues) \in Nat
    BY DEF IssueInv, IssueTypes
  <1>4. /\ art' \in ArtRow /\ art'.issue = row /\ art'.last = 0 /\ art'.state # "closed" /\ (row = 0 => art' = Issue!NoArt)
    BY <1>1, <1>3 DEF ArtRow, Issue!NoArt
  <1>5. phase' \in Issue!Range(Issue!Phases)
    BY <1>1, NextPhaseIs DEF IssueInv, IssueTypes
  <1>6. IssueTypes'
    BY <1>1, <1>2, <1>3, <1>4, <1>5 DEF IssueInv, IssueTypes, Issue!States
  <1>7. WorkExact' /\ CarriedAll'
    BY <1>1, IssueFacts DEF WorkExact, CarriedAll, Carrying, Busy, Issue!Reserving
  <1>8. ArtExact' /\ Issue!ProjectedAll'
    BY <1>1, <1>4 DEF ArtExact, Issue!ProjectedAll
  <1>9. Issue!AppliedOnce' /\ AnswersExact'
    BY <1>1 DEF IssueInv, Issue!AppliedOnce, AnswersExact
  <1>10. ~setup.cli => AloneExact' /\ AloneSays'
    BY <1>1, <1>4 DEF IssueInv, AloneExact, AloneSays, Carrying, Busy, Issue!Reserving, Issue!OneIssue, Issue!CommentOnce,
                      Issue!ClosedIsFinal, Issue!Terminal
  <1> QED BY <1>6, <1>7, <1>8, <1>9, <1>10 DEF IssueInv

LEMMA AppendIs ==
  ASSUME NEW S, NEW u \in Seq(S), NEW v \in S
  PROVE  /\ Append(u, v) \in Seq(S) /\ Len(Append(u, v)) = Len(u) + 1 /\ Append(u, v)[Len(u) + 1] = v
         /\ \A i \in 1..Len(u) : Append(u, v)[i] = u[i]
  OBVIOUS

\* A change of the comments and their receipts alone.
LEMMA ResponsesStep ==
  ASSUME IssueInv, posted' \in Seq(PostRow), receipt' \in Seq(Dispositions), Len(posted') = Len(receipt'),
         AnswersExact', Issue!AppliedOnce',
         UNCHANGED <<setup, st, req, log, binding, row, art, debt, due, alerted, issues, phase, p, faults>>
  PROVE  IssueInv'
  <1>1. IssueTypes'
    BY DEF IssueInv, IssueTypes
  <1>2. Issue!ProjectedAll' /\ CarriedAll'
    BY IssueFacts, KeptSame, ProjectedKept, CarriedKept
  <1>3. WorkExact' /\ ArtExact'
    BY DEF IssueInv, WorkExact, ArtExact, Carrying, Issue!Reserving
  <1>4. ~setup.cli => AloneExact' /\ AloneSays'
    BY DEF IssueInv, AloneExact, AloneSays, Carrying, Issue!Reserving, Issue!OneIssue, Issue!CommentOnce, Issue!ClosedIsFinal
  <1> QED BY <1>1, <1>2, <1>3, <1>4 DEF IssueInv

LEMMA PostStep ==
  ASSUME IssueInv, NEW kind \in {"answer", "review", "malformed"}, NEW r \in 1..req, NEW who \in {"allowed", "other"},
         Issue!Post(kind, r, who), UNCHANGED setup
  PROVE  IssueInv'
  <1> DEFINE c == [kind |-> kind, req |-> r, who |-> who]
  <1>1. /\ posted' = Append(posted, c) /\ receipt' = Append(receipt, "")
        /\ UNCHANGED <<st, req, log, binding, row, art, debt, due, alerted, issues, phase, p, faults>>
    BY DEF Issue!Post, Issue!effort, Issue!rows
  <1>2. /\ posted \in Seq(PostRow) /\ receipt \in Seq(Dispositions) /\ Len(posted) = Len(receipt) /\ req \in Nat
        /\ AnswersExact /\ Issue!AppliedOnce
    BY DEF IssueInv, IssueTypes
  <1>3. c \in PostRow /\ c.req = r /\ r <= req
    <2>1. r \in Nat /\ r <= req
      BY <1>2
    <2> QED BY <2>1 DEF PostRow
  <1> HIDE DEF c
  <1>lens. Len(posted) \in Nat /\ Len(receipt) \in Nat
    BY <1>2
  <1>4. /\ posted' \in Seq(PostRow) /\ Len(posted') = Len(posted) + 1 /\ posted'[Len(posted) + 1] = c
        /\ \A i \in 1..Len(posted) : posted'[i] = posted[i]
    <2>1. posted' = Append(posted, c)
      BY <1>1
    <2>2. posted \in Seq(PostRow) /\ c \in PostRow
      BY <1>2, <1>3
    <2>3. /\ Append(posted, c) \in Seq(PostRow) /\ Len(Append(posted, c)) = Len(posted) + 1
          /\ Append(posted, c)[Len(posted) + 1] = c
          /\ \A i \in 1..Len(posted) : Append(posted, c)[i] = posted[i]
      BY <2>2, AppendIs
    <2> QED BY <2>1, <2>3, Zenon
  <1>5. /\ receipt' \in Seq(Dispositions) /\ Len(receipt') = Len(receipt) + 1 /\ receipt'[Len(posted) + 1] = ""
        /\ \A i \in 1..Len(posted) : receipt'[i] = receipt[i]
    <2> DEFINE none == ""
    <2>1. none \in Dispositions /\ receipt' = Append(receipt, none) /\ none = ""
      BY <1>1 DEF Dispositions
    <2>2. receipt \in Seq(Dispositions) /\ Len(receipt) = Len(posted)
      BY <1>2
    <2> HIDE DEF none
    <2>3. /\ Append(receipt, none) \in Seq(Dispositions) /\ Len(Append(receipt, none)) = Len(receipt) + 1
          /\ Append(receipt, none)[Len(receipt) + 1] = none
          /\ \A i \in 1..Len(receipt) : Append(receipt, none)[i] = receipt[i]
      <3>1. none \in Dispositions /\ receipt \in Seq(Dispositions)
        BY <2>1, <2>2
      <3> QED BY <3>1, AppendIs
    <2> QED BY <2>1, <2>2, <2>3, Zenon
  <1>6. DOMAIN posted = 1..Len(posted) /\ DOMAIN posted' = 1..(Len(posted) + 1) /\ Len(posted) \in Nat
    BY <1>2, <1>4
  <1>split. \A i \in 1..(Len(posted) + 1) : i \in 1..Len(posted) \/ i = Len(posted) + 1
    BY <1>lens
  <1>within. \A i \in 1..Len(posted) : i \in 1..(Len(posted) + 1)
    BY <1>lens
  <1>7. \A i \in DOMAIN posted' : i \in DOMAIN posted \/ (posted'[i] = c /\ receipt'[i] = "")
    BY <1>4, <1>5, <1>6, <1>split
  <1>8. \A i \in DOMAIN posted : i \in DOMAIN posted' /\ posted'[i] = posted[i] /\ receipt'[i] = receipt[i]
    BY <1>4, <1>5, <1>6, <1>within
  <1>9. AnswersExact'
    BY <1>1, <1>2, <1>3, <1>7, <1>8 DEF AnswersExact
  <1>10. Issue!AppliedOnce'
    BY <1>2, <1>7, <1>8 DEF Issue!AppliedOnce
  <1> QED BY <1>1, <1>2, <1>4, <1>5, <1>9, <1>10, ResponsesStep

LEMMA FetchStep ==
  ASSUME IssueInv, Issue!Fetch, UNCHANGED setup
  PROVE  IssueInv'
  <1> DEFINE unseen == {i \in Issue!Responses : Issue!Unseen(i)}
             begun == [Issue!Idle EXCEPT !.pc = "ingest", !.todo = unseen]
  <1>1. /\ phase = "ingest" /\ p["daemon"].pc = "idle" /\ p' = [p EXCEPT !["daemon"] = begun]
        /\ UNCHANGED <<st, req, log, binding, row, art, debt, due, alerted, issues, posted, receipt, phase, faults>>
    BY DEF Issue!Fetch, Issue!effort, Issue!rows, Issue!remote
  <1>2. unseen \in SUBSET Nat /\ unseen \subseteq DOMAIN posted /\ \A i \in unseen : receipt[i] = ""
    <2>1. posted \in Seq(PostRow)
      BY DEF IssueInv, IssueTypes
    <2>2. DOMAIN posted \subseteq Nat
      BY <2>1
    <2> QED BY <2>2 DEF Issue!Responses, Issue!Unseen
  <1> HIDE DEF unseen
  <1>3. begun \in ProcRow /\ begun.pc = "ingest" /\ begun.snap = "none" /\ begun.issue = 0 /\ begun.todo = unseen
    BY <1>2, IdleProc DEF ProcRow
  <1> HIDE DEF begun
  <1>4. p' \in [Issue!Procs -> ProcRow] /\ p'["daemon"] = begun /\ p'["cli"] = p["cli"]
    BY <1>1, <1>3, IssueFacts, ProcsAre
  <1>5. WorkExact' /\ CarriedAll'
    BY <1>1, <1>3, <1>4, ProcsAre, IssueFacts DEF WorkExact, CarriedAll, Carrying, Busy, Issue!Reserving
  <1>6. AnswersExact'
    BY <1>1, <1>2, <1>3, <1>4, IssueFacts DEF AnswersExact
  <1>7. ~setup.cli => AloneExact'
    BY <1>1, <1>3, <1>4 DEF IssueInv, AloneExact, Carrying, Busy, Issue!Reserving, Issue!Terminal
  <1>8. phase' \in Issue!Range(Issue!Phases) /\ faults' \in 0..setup.faults /\ Len(issues) \in Nat
    BY <1>1 DEF IssueInv, IssueTypes
  <1> QED BY <1>1, <1>3, <1>4, <1>5, <1>6, <1>7, <1>8, DaemonStep

LEMMA IngestedStep ==
  ASSUME IssueInv, Issue!Ingested, UNCHANGED setup
  PROVE  IssueInv'
  <1>1. /\ p["daemon"].pc = "ingest" /\ p' = [p EXCEPT !["daemon"] = Issue!Idle] /\ phase' = Issue!NextPhase
        /\ UNCHANGED <<st, req, log, binding, row, art, debt, due, alerted, issues, posted, receipt, faults>>
    BY DEF Issue!Ingested, Issue!Leave, Issue!effort, Issue!rows, Issue!remote
  <1>2. phase = "ingest" /\ phase' \in Issue!Range(Issue!Phases) /\ faults' \in 0..setup.faults
    BY <1>1, NextPhaseIs DEF IssueInv, IssueTypes, WorkExact
  <1> QED BY <1>1, <1>2, DaemonLeaves

LEMMA ExceptIs ==
  ASSUME NEW S, NEW u \in Seq(S), NEW i \in 1..Len(u), NEW v \in S
  PROVE  /\ [u EXCEPT ![i] = v] \in Seq(S) /\ Len([u EXCEPT ![i] = v]) = Len(u) /\ [u EXCEPT ![i] = v][i] = v
         /\ \A j \in 1..Len(u) : j # i => [u EXCEPT ![i] = v][j] = u[j]
  OBVIOUS

\* The comments are in one row with their receipts.
LEMMA PostedRow ==
  ASSUME IssueInv, NEW i \in DOMAIN posted
  PROVE  posted[i] \in PostRow /\ posted[i].req \in Nat /\ i \in 1..Len(receipt) /\ DOMAIN posted = 1..Len(receipt)
  <1>1. posted \in Seq(PostRow) /\ receipt \in Seq(Dispositions) /\ Len(posted) = Len(receipt)
    BY DEF IssueInv, IssueTypes
  <1>2. posted[i] \in PostRow /\ DOMAIN posted = 1..Len(posted)
    BY <1>1
  <1> QED BY <1>1, <1>2 DEF PostRow

\* A comment gets its receipt; an applied one ends the request that was open.
LEMMA IngestStep ==
  ASSUME IssueInv, Issue!Ingest, UNCHANGED setup
  PROVE  IssueInv'
  <1>1. p["daemon"].pc = "ingest" /\ UNCHANGED <<req, binding, row, art, debt, due, alerted, issues, posted, phase, faults>>
    BY DEF Issue!Ingest, Issue!rows
  <1>2. PICK i \in p["daemon"].todo :
          /\ receipt' = [receipt EXCEPT ![i] = Issue!Disposition(posted[i])]
          /\ st' = IF Issue!Disposition(posted[i]) = "applied" THEN "running" ELSE st
          /\ log' = IF Issue!Disposition(posted[i]) = "applied" THEN Append(log, "resumed") ELSE log
          /\ p' = [p EXCEPT !["daemon"].todo = @ \ {i}]
    BY DEF Issue!Ingest, Issue!Oldest, Issue!WithReceipt
  <1> DEFINE d == Issue!Disposition(posted[i])
  <1>3. /\ i \in DOMAIN posted /\ receipt[i] = "" /\ posted[i] \in PostRow /\ posted[i].req \in Nat
        /\ i \in 1..Len(receipt) /\ DOMAIN posted = 1..Len(receipt)
    BY <1>1, PostedRow, IssueFacts DEF AnswersExact
  <1>4. d \in Dispositions /\ (d = "applied" => st \in {"guidance", "review"} /\ posted[i].req = req)
    BY DEF Issue!Disposition, Issue!Waits, Dispositions
  <1>5. /\ receipt' = [receipt EXCEPT ![i] = d] /\ st' = (IF d = "applied" THEN "running" ELSE st)
        /\ log' = (IF d = "applied" THEN Append(log, "resumed") ELSE log) /\ p' = [p EXCEPT !["daemon"].todo = @ \ {i}]
    BY <1>2
  <1> HIDE DEF d
  <1>6. /\ receipt' \in Seq(Dispositions) /\ Len(receipt') = Len(receipt) /\ receipt'[i] = d
        /\ \A j \in DOMAIN posted : j # i => receipt'[j] = receipt[j]
    <2>1. receipt \in Seq(Dispositions)
      BY DEF IssueInv, IssueTypes
    <2>2. /\ [receipt EXCEPT ![i] = d] \in Seq(Dispositions) /\ Len([receipt EXCEPT ![i] = d]) = Len(receipt)
          /\ [receipt EXCEPT ![i] = d][i] = d
          /\ \A j \in 1..Len(receipt) : j # i => [receipt EXCEPT ![i] = d][j] = receipt[j]
      <3>1. i \in 1..Len(receipt) /\ d \in Dispositions
        BY <1>3, <1>4
      <3> QED BY <2>1, <3>1, ExceptIs
    <2> QED BY <1>3, <1>5, <2>2, Zenon
  <1>7. /\ p' \in [Issue!Procs -> ProcRow] /\ p'["cli"] = p["cli"] /\ p'["daemon"].pc = "ingest"
        /\ p'["daemon"].snap = p["daemon"].snap /\ p'["daemon"].issue = p["daemon"].issue
        /\ p'["daemon"].todo = p["daemon"].todo \ {i}
    <2>1. p \in [Issue!Procs -> ProcRow] /\ p["daemon"] \in ProcRow /\ "daemon" \in Issue!Procs
      BY IssueFacts, ProcsAre
    <2>2. p' = [p EXCEPT !["daemon"] = [p["daemon"] EXCEPT !.todo = p["daemon"].todo \ {i}]]
      BY <1>5, <2>1 DEF ProcRow
    <2>3. [p["daemon"] EXCEPT !.todo = p["daemon"].todo \ {i}] \in ProcRow
      BY <2>1 DEF ProcRow
    <2>4. p' \in [Issue!Procs -> ProcRow] /\ p'["cli"] = p["cli"]
      BY <2>1, <2>2, <2>3, ProcsAre
    <2> QED BY <1>1, <2>1, <2>2, <2>4 DEF ProcRow
  <1>8. /\ log' \in Seq(Issue!EventKinds) /\ Len(log) <= Len(log') /\ Len(log') \in Nat /\ Len(log) \in Nat
        /\ \A e \in 1..Len(log) : log'[e] = log[e]
    <2>1. "resumed" \in Issue!EventKinds /\ (log' = log \/ log' = Append(log, "resumed"))
      BY <1>5 DEF Issue!EventKinds
    <2> QED BY <2>1, LogGrows
  <1>9. /\ st' \in Issue!States /\ (st' # st => st \in {"guidance", "review"} /\ st' = "running")
        /\ (st' \in {"guidance", "review"} => st' = st /\ d # "applied")
    BY <1>4, <1>5, IssueFacts DEF Issue!States
  <1>10. IssueTypes'
    <2>1. art.last <= Len(log')
      BY <1>8 DEF IssueInv, IssueTypes, ArtRow
    <2>2. \A x \in Issue!Procs : p'[x].issue <= Len(issues)
      BY <1>7, ProcsAre DEF IssueInv, IssueTypes
    <2>3. Len(posted) = Len(receipt')
      BY <1>6 DEF IssueInv, IssueTypes
    <2> QED BY <1>1, <1>6, <1>7, <1>8, <1>9, <2>1, <2>2, <2>3 DEF IssueInv, IssueTypes
  <1>11. Issue!ProjectedAll'
    BY <1>1, <1>8, ProjectedGrown
  <1>12. WorkExact' /\ CarriedAll'
    BY <1>1, <1>7, <1>9, IssueFacts, ProcsAre DEF WorkExact, CarriedAll, Carrying, Busy, Issue!Reserving
  <1>13. ArtExact'
    BY <1>1, <1>9, IssueFacts DEF ArtExact
  <1>14. AnswersExact'
    <2>1. AnswersExact
      BY IssueFacts
    <2>2. \A j \in DOMAIN posted : receipt'[j] = "applied" /\ st' \in {"guidance", "review"} => posted[j].req < req
      BY <1>6, <1>9, <2>1 DEF AnswersExact
    <2>3. p'["daemon"].todo \subseteq DOMAIN posted /\ \A j \in p'["daemon"].todo : receipt'[j] = ""
      <3>1. p["daemon"].todo \subseteq DOMAIN posted /\ \A j \in p["daemon"].todo : receipt[j] = ""
        BY <1>1, <2>1 DEF AnswersExact
      <3> SUFFICES ASSUME NEW j \in p'["daemon"].todo
                   PROVE  j \in DOMAIN posted /\ receipt'[j] = ""
        OBVIOUS
      <3>2. j \in p["daemon"].todo /\ j # i
        BY <1>7
      <3>3. j \in DOMAIN posted /\ receipt[j] = ""
        BY <3>1, <3>2
      <3> QED BY <1>6, <3>2, <3>3
    <2> QED BY <1>1, <2>1, <2>2, <2>3 DEF AnswersExact
  <1>15. Issue!AppliedOnce'
    <2>1. \A j \in DOMAIN posted : d = "applied" /\ receipt[j] = "applied" => posted[j].req # req
      <3> SUFFICES ASSUME NEW j \in DOMAIN posted, d = "applied", receipt[j] = "applied"
                   PROVE  posted[j].req # req
        OBVIOUS
      <3>1. posted[j].req < req /\ posted[j].req \in Nat /\ req \in Nat
        BY <1>4, PostedRow, IssueFacts DEF AnswersExact
      <3> QED BY <3>1
    <2>2. Issue!AppliedOnce
      BY DEF IssueInv
    <2> QED BY <1>1, <1>4, <1>6, <2>1, <2>2 DEF Issue!AppliedOnce
  <1>16. ASSUME ~setup.cli
         PROVE  AloneExact' /\ AloneSays'
    <2>1. AloneExact /\ AloneSays
      BY <1>16 DEF IssueInv
    <2>2. AloneSays'
      BY <1>1, <1>9, <2>1 DEF AloneSays, Issue!OneIssue, Issue!CommentOnce, Issue!ClosedIsFinal, Issue!Terminal
    <2>3. AloneExact'
      BY <1>1, <1>7, <1>9, <2>1 DEF AloneExact, Carrying, Busy, Issue!Reserving, Issue!Terminal
    <2> QED BY <2>2, <2>3
  <1> QED BY <1>10, <1>11, <1>12, <1>13, <1>14, <1>15, <1>16 DEF IssueInv

LEMMA IssueStutters ==
  ASSUME IssueInv, UNCHANGED <<setup, issueVars>>
  PROVE  IssueInv'
  <1>1. UNCHANGED <<setup, st, req, log, binding, row, art, debt, due, alerted, issues, posted, receipt, phase, p, faults>>
    BY DEF issueVars
  <1>2. IssueTypes' /\ WorkExact' /\ ArtExact' /\ Issue!ProjectedAll'
    BY <1>1 DEF IssueInv, IssueTypes, WorkExact, ArtExact, Issue!ProjectedAll, Issue!Relevant, Carrying, Issue!Reserving
  <1>3. CarriedAll' /\ AnswersExact' /\ Issue!AppliedOnce'
    BY <1>1 DEF IssueInv, CarriedAll, AnswersExact, Issue!AppliedOnce, Issue!Relevant, Carrying, Issue!Reserving
  <1>4. ~setup.cli => AloneExact' /\ AloneSays'
    BY <1>1 DEF IssueInv, AloneExact, AloneSays, Carrying, Issue!Reserving, Issue!OneIssue, Issue!CommentOnce, Issue!ClosedIsFinal
  <1> QED BY <1>1, <1>2, <1>3, <1>4 DEF IssueInv

LEMMA IssueNext ==
  ASSUME IssueInv, Issue!Next, UNCHANGED setup
  PROVE  IssueInv'
  <1>1. ASSUME NEW x \in Issue!Procs, Issue!Sync(x)
        PROVE  IssueInv'
    BY <1>1, StartReserveStep, LocateStep, CreateStep, EditStep, CommentStep, CommentedStep, CloseStep,
       RecordReservedStep, RecordProjectedStep, FailStep DEF Issue!Sync
  <1>2. CASE Issue!Daemon
    BY <1>1, <1>2, ProcsAre, ReadEffortStep, ReadEventsStep, SkipStep, AlertStep, FetchStep, IngestStep, IngestedStep
       DEF Issue!Daemon
  <1>3. CASE Issue!Sync("cli") \/ Issue!ReserveDone
    BY <1>1, <1>3, ProcsAre, ReserveDoneStep
  <1>4. CASE Issue!CreateEffort \/ Issue!Work \/ Issue!Cancel \/ Issue!Retry \/ Issue!Tick
    BY <1>4, CreateEffortStep, WorkStep, CancelStep, RetryStep, TickStep
  <1>5. CASE \E x \in Issue!Procs : Issue!Fail(x) \/ Issue!Crash(x)
    BY <1>5, FailStep, CrashStep
  <1>6. CASE \E kind \in {"answer", "review", "malformed"}, r \in 1..req, who \in {"allowed", "other"} : Issue!Post(kind, r, who)
    BY <1>6, PostStep
  <1> QED BY <1>2, <1>3, <1>4, <1>5, <1>6 DEF Issue!Next

LEMMA IssueInvSays == IssueInv => ProjectionExact
  <1> SUFFICES ASSUME IssueInv PROVE ProjectionExact
    OBVIOUS
  <1>1. Issue!TypeOK
    <2>1. Len(issues) \in Nat /\ Len(log) \in Nat
      BY DEF IssueInv, IssueTypes
    <2>2. art.issue \in 0..Len(issues) /\ art.last \in 0..Len(log) /\ art.state \in {"none", "reserved", "active", "closed"}
      BY <2>1 DEF IssueInv, IssueTypes, ArtRow
    <2>3. \A x \in Issue!Procs : p[x].issue \in 0..Len(issues)
      BY <2>1 DEF IssueInv, IssueTypes, ProcRow
    <2> QED BY <2>1, <2>2, <2>3 DEF IssueInv, IssueTypes, Issue!TypeOK
  <1>2. ~setup.cli => Issue!Exact
    BY DEF IssueInv, AloneSays, Issue!Exact
  <1> QED BY <1>1, <1>2 DEF IssueInv, ProjectionExact

\* IssueExact: however projections, reservations and ingestions fail halfway or interleave with cancellation, an item
\* has one issue with every shown event on it exactly once, a row that says closed is true and no request is answered
\* twice; beside the admitting command no event is lost (project_item, reserve_full_issue, ingest_answers).
THEOREM IssueExact == MCSpec => []ProjectionExact
  <1>1. MCInit => IssueInv
    BY IssueInit DEF MCInit
  <1>2. IssueInv /\ [MCNext]_<<part, setup, vars, issueVars>> => IssueInv'
    BY IssueNext, IssueStutters DEF MCNext
  <1> QED BY <1>1, <1>2, IssueInvSays, PTL DEF MCSpec
=============================================================================
