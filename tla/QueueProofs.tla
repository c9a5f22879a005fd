----------------------------- MODULE QueueProofs -----------------------------
(***************************************************************************)
(* Proofs about Queue, for every number of items, targets and sources:     *)
(* items are taken in order, one at a time for each target, while the      *)
(* clock of the host does not step back, and draining and cancellation     *)
(* leave nothing behind, whatever the clock does.                          *)
(*                                                                         *)
(* Then the other work on the repository, stated of the whole that         *)
(* MCRepository checks: the lease of operations (RepoLeaseProofs), the     *)
(* registration (Provisioning) and the submissions of a development        *)
(* workspace (Submission).                                                 *)
(***************************************************************************)
EXTENDS MCRepository, FiniteSetTheorems, TLAPS

-----------------------------------------------------------------------------
(* The inductive invariants *)

\* Items are admitted one after the other, and what is admitted has its admission.
AdmittedInOrder ==
  /\ \E n \in 0..MaxItem : Admitted = 1..n
  /\ \A i \in Admitted : items[i].admission \in Request

\* Landing authority belongs to an item that lands, waits for its provider or has
\* landed: no answer finds it, and no cancellation.
ExternalLands ==
  \A i \in Items : items[i].external =>
    \/ items[i].status \in {"integrating", "integrated"}
    \/ items[i].status = "blocked" /\ items[i].waits = "provider"

\* A workspace that is being made was announced, and is not taken for residue
\* before the run has ended.
WorkspaceAnnounced ==
  runner.pc \in {"intent", "created"} => R.workspace = "creation_intent"

\* The debts of a landing are obligations of a repository that drains.
DrainingCoversDebts ==
  op.state = "draining" => \A i \in Items : items[i].replication => i \in op.items \cup op.debts

\* DrainInv: the strengthening that makes Draining and what does not depend on the
\* clock inductive.
DrainInv ==
  /\ TypeOK
  /\ AdmittedInOrder
  /\ OneItemPerSource
  /\ ExternalLands
  /\ WorkspaceAnnounced
  /\ DrainingCoversWork
  /\ DrainingCoversDebts
  /\ DisabledIsDone
  /\ ResidueOwned

\* An item in flight is the head of its target, blocked ones included: this, and not
\* that there is one, is what admissions and cancellations preserve.
InFlightIsHead == \A i \in Items : InFlight(i) => TargetHead(i)

\* OrderInv: with a clock that does not step back, times are in the order of admission.
OrderInv ==
  /\ \A i \in Admitted : items[i].created = i
  /\ InFlightIsHead

-----------------------------------------------------------------------------
(* The steps *)

\* The items admitted are the first ones, so Insert takes a row nobody has.
LEMMA NextIsFree ==
  ASSUME DrainInv
  PROVE  /\ Cardinality(Admitted) \in Nat
         /\ Admitted = 1..Cardinality(Admitted)
  <1>1. PICK n \in 0..MaxItem : Admitted = 1..n
    BY DEF DrainInv, AdmittedInOrder
  <1>2. n \in Nat
    OBVIOUS
  <1>3. Cardinality(1..n) = n
    BY FS_Interval
  <1> QED BY <1>1, <1>3

\* A step that leaves rows, obligations and workspaces alone: a read, or the end of a cycle.
Quiet ==
  /\ UNCHANGED <<items, op, disk>>
  /\ asking' \in BOOLEAN
  /\ runner' = runner \/ (runner' \in Runner /\ runner'.pc \notin {"intent", "created"})

\* The steps that only read, and the ones that end a cycle.
LEMMA QuietSteps ==
  ASSUME DrainInv,
         \/ BeginAdmission \/ DropAdmission \/ ClaimNothing \/ Abandon \/ EndCycle
         \/ \E i \in Items : Pick(i) \/ ResumeItem(i)
         \/ UNCHANGED vars
  PROVE  Quiet
  <1> USE DEF Quiet, DrainInv, TypeOK, Runner, Done
  <1>1. CASE BeginAdmission \/ DropAdmission
    BY <1>1 DEF BeginAdmission, DropAdmission
  <1>2. CASE ClaimNothing \/ Abandon \/ EndCycle
    BY <1>2 DEF ClaimNothing, Abandon, EndCycle
  <1>3. CASE \E i \in Items : Pick(i) \/ ResumeItem(i)
    BY <1>3 DEF Pick, ResumeItem
  <1>4. CASE UNCHANGED vars
    BY <1>4 DEF vars
  <1> QED BY <1>1, <1>2, <1>3, <1>4

LEMMA InvQuiet ==
  ASSUME DrainInv, Quiet
  PROVE  DrainInv'
  <1> USE DEF DrainInv, Quiet
  <1>1. TypeOK'
    BY DEF TypeOK
  <1>2. AdmittedInOrder' /\ OneItemPerSource' /\ ExternalLands'
    BY DEF AdmittedInOrder, Admitted, OneItemPerSource, Active, ExternalLands
  <1>3. WorkspaceAnnounced'
    BY DEF WorkspaceAnnounced, R
  <1>4. DrainingCoversWork' /\ DrainingCoversDebts' /\ DisabledIsDone' /\ ResidueOwned'
    BY DEF DrainingCoversWork, DrainingCoversDebts, DisabledIsDone, ResidueOwned, Active, Terminal
  <1> QED BY <1>1, <1>2, <1>3, <1>4

\* The row cancel_item writes is a row.
LEMMA CancelledRow ==
  ASSUME NEW row \in Item, NEW d \in BOOLEAN
  PROVE  [row EXCEPT !.status = "cancelled", !.waits = "none", !.debt = d] \in Item
  BY DEF Item, Status

LEMMA InvAdmit ==
  ASSUME DrainInv, NEW r \in Request, Admit(r)
  PROVE  DrainInv'
  <1> USE DEF DrainInv, Admit, At, Goto, Done, LockFree, R, Blocked, HasEffort, Obligation, NewWork
  <1>1. CASE UNCHANGED items
    BY <1>1, InvQuiet DEF Quiet, TypeOK
  <1>2. CASE Existing(r) = {} /\ \E t \in CreatedAt : Insert(r, t)
    <2> DEFINE k == Cardinality(Admitted) + 1
    <2>1. /\ k \in Items /\ k \notin Admitted
          /\ Admitted \cup {k} = 1..k
      BY <1>2, NextIsFree DEF Insert
    <2>2. PICK t \in Items :
            items' = [items EXCEPT ![k].status = "ready", ![k].admission = r, ![k].created = t]
      BY <1>2 DEF CreatedAt, Insert
    <2>3. items[k].status = "absent"
      BY <2>1 DEF Admitted
    <2> HIDE DEF k
    <2>4. items' \in [Items -> Item]
      <3>1. t \in Nat
        BY DEF Items
      <3>2. items'[k] \in Item
        BY <2>1, <2>2, <3>1 DEF TypeOK, Item, Status
      <3>3. \A j \in Items \ {k} : items'[j] = items[j]
        BY <2>2 DEF TypeOK
      <3>4. items' \in [Items -> {items'[j] : j \in Items}]
        BY <2>2 DEF TypeOK
      <3> QED BY <3>2, <3>3, <3>4 DEF TypeOK
    <2>5. TypeOK'
      BY <1>2, <2>1, <2>2, <2>3, <2>4 DEF TypeOK, Runner, OperationState, Existing, Items
    <2>6. AdmittedInOrder'
      <3>1. Admitted' = Admitted \cup {k}
        BY <2>1, <2>2 DEF TypeOK, Admitted
      <3>2. k \in 0..MaxItem
        BY <2>1 DEF Items
      <3>3. \A j \in Admitted \cup {k} : items'[j].admission \in Request
        BY <2>1, <2>2 DEF TypeOK, AdmittedInOrder, Admitted
      <3> QED BY <2>1, <3>1, <3>2, <3>3 DEF AdmittedInOrder
    <2>7. OneItemPerSource'
      BY <1>2, <2>2 DEF TypeOK, OneItemPerSource, Active, Existing
    <2>8. ExternalLands'
      BY <2>2, <2>3 DEF TypeOK, ExternalLands
    <2>9. WorkspaceAnnounced'
      BY DEF WorkspaceAnnounced
    <2>10. DrainingCoversWork' /\ DrainingCoversDebts'
      BY DEF DrainingCoversWork, DrainingCoversDebts
    <2>11. DisabledIsDone'
      BY DEF DisabledIsDone
    <2>12. ResidueOwned'
      BY <2>2 DEF TypeOK, ResidueOwned, Terminal
    <2> QED BY <2>5, <2>6, <2>7, <2>8, <2>9, <2>10, <2>11, <2>12
  <1> QED BY <1>1, <1>2

LEMMA InvClaim ==
  ASSUME DrainInv, Claim
  PROVE  DrainInv'
  <1> USE DEF DrainInv, Claim
  <1>1. items' \in [Items -> Item]
    BY DEF TypeOK, Item, Status
  <1>2. TypeOK'
    BY <1>1 DEF TypeOK, Runner
  <1>3. AdmittedInOrder'
    BY DEF AdmittedInOrder, Admitted
  <1>4. OneItemPerSource'
    BY DEF OneItemPerSource, Active
  <1>5. ExternalLands'
    BY DEF ExternalLands
  <1>6. WorkspaceAnnounced'
    BY DEF WorkspaceAnnounced
  <1>7. DrainingCoversWork' /\ DrainingCoversDebts'
    BY DEF DrainingCoversWork, DrainingCoversDebts, Active
  <1>8. DisabledIsDone'
    BY DEF DisabledIsDone
  <1>9. ResidueOwned'
    BY DEF ResidueOwned, Terminal
  <1> QED BY <1>2, <1>3, <1>4, <1>5, <1>6, <1>7, <1>8, <1>9

LEMMA InvResume ==
  ASSUME DrainInv, Resume
  PROVE  DrainInv'
  <1> USE DEF DrainInv, Resume, At, Goto, Done, Blocked
  <1>1. items' \in [Items -> Item]
    BY DEF TypeOK, Item, Status
  <1>2. TypeOK'
    BY <1>1 DEF TypeOK, Runner
  <1>3. AdmittedInOrder'
    BY DEF TypeOK, Item, AdmittedInOrder, Admitted
  <1>4. OneItemPerSource'
    BY DEF TypeOK, Item, OneItemPerSource, Active
  <1>5. ExternalLands'
    BY DEF TypeOK, Item, ExternalLands
  <1>6. WorkspaceAnnounced'
    BY DEF TypeOK, Runner, WorkspaceAnnounced
  <1>7. DrainingCoversWork' /\ DrainingCoversDebts'
    BY DEF TypeOK, DrainingCoversWork, DrainingCoversDebts, Active
  <1>8. DisabledIsDone'
    BY DEF TypeOK, DisabledIsDone, Active
  <1>9. ResidueOwned'
    BY DEF TypeOK, Item, ResidueOwned, Terminal
  <1> QED BY <1>2, <1>3, <1>4, <1>5, <1>6, <1>7, <1>8, <1>9

LEMMA InvBeginWorkspaceCreation ==
  ASSUME DrainInv, BeginWorkspaceCreation
  PROVE  DrainInv'
  <1> USE DEF DrainInv, BeginWorkspaceCreation, At, Goto, R
  <1>1. items' \in [Items -> Item]
    BY DEF TypeOK, Item, Runner
  <1>2. TypeOK'
    BY <1>1 DEF TypeOK, Runner
  <1>3. AdmittedInOrder'
    BY DEF AdmittedInOrder, Admitted
  <1>4. OneItemPerSource'
    BY DEF OneItemPerSource, Active
  <1>5. ExternalLands'
    BY DEF ExternalLands
  <1>6. WorkspaceAnnounced'
    BY DEF TypeOK, Runner, WorkspaceAnnounced
  <1>7. DrainingCoversWork' /\ DrainingCoversDebts'
    BY DEF DrainingCoversWork, DrainingCoversDebts, Active
  <1>8. DisabledIsDone'
    BY DEF DisabledIsDone, Active
  <1>9. ResidueOwned'
    BY DEF ResidueOwned, Terminal
  <1> QED BY <1>2, <1>3, <1>4, <1>5, <1>6, <1>7, <1>8, <1>9

LEMMA InvCreateRift ==
  ASSUME DrainInv, CreateRift
  PROVE  DrainInv'
  <1> USE DEF DrainInv, CreateRift, At, Goto, R, Obligation
  <1>1. items' \in [Items -> Item]
    BY DEF TypeOK
  <1>2. TypeOK'
    BY DEF TypeOK, Runner
  <1>3. AdmittedInOrder'
    BY DEF AdmittedInOrder, Admitted
  <1>4. OneItemPerSource'
    BY DEF OneItemPerSource, Active
  <1>5. ExternalLands'
    BY DEF ExternalLands
  <1>6. WorkspaceAnnounced'
    BY DEF WorkspaceAnnounced
  <1>7. DrainingCoversWork' /\ DrainingCoversDebts'
    BY DEF DrainingCoversWork, DrainingCoversDebts, Active
  <1>8. DisabledIsDone'
    BY DEF DisabledIsDone
  <1>9. ResidueOwned'
    BY DEF ResidueOwned, WorkspaceAnnounced, Terminal
  <1> QED BY <1>2, <1>3, <1>4, <1>5, <1>6, <1>7, <1>8, <1>9

LEMMA InvSetWorkspaceIdentity ==
  ASSUME DrainInv, SetWorkspaceIdentity
  PROVE  DrainInv'
  <1> USE DEF DrainInv, SetWorkspaceIdentity, At, Goto
  <1>1. items' \in [Items -> Item]
    BY DEF TypeOK, Item, Runner
  <1>2. TypeOK'
    BY <1>1 DEF TypeOK, Runner
  <1>3. AdmittedInOrder'
    BY DEF AdmittedInOrder, Admitted
  <1>4. OneItemPerSource'
    BY DEF OneItemPerSource, Active
  <1>5. ExternalLands'
    BY DEF ExternalLands
  <1>6. WorkspaceAnnounced'
    BY DEF WorkspaceAnnounced
  <1>7. DrainingCoversWork' /\ DrainingCoversDebts'
    BY DEF DrainingCoversWork, DrainingCoversDebts, Active
  <1>8. DisabledIsDone'
    BY DEF DisabledIsDone, Active
  <1>9. ResidueOwned'
    BY DEF ResidueOwned, Terminal
  <1> QED BY <1>2, <1>3, <1>4, <1>5, <1>6, <1>7, <1>8, <1>9

LEMMA InvBlockWithoutEffort ==
  ASSUME DrainInv, BlockWithoutEffort
  PROVE  DrainInv'
  <1> USE DEF DrainInv, BlockWithoutEffort, At, Done, R
  <1>1. items' \in [Items -> Item]
    BY DEF TypeOK, Item, Status, Runner
  <1>2. TypeOK'
    BY <1>1 DEF TypeOK, Runner
  <1>3. AdmittedInOrder'
    BY DEF TypeOK, AdmittedInOrder, Admitted
  <1>4. OneItemPerSource'
    BY DEF TypeOK, OneItemPerSource, Active
  <1>5. ExternalLands'
    BY DEF TypeOK, ExternalLands
  <1>6. WorkspaceAnnounced'
    BY DEF WorkspaceAnnounced
  <1>7. DrainingCoversWork' /\ DrainingCoversDebts'
    BY DEF TypeOK, DrainingCoversWork, DrainingCoversDebts, Active
  <1>8. DisabledIsDone'
    BY DEF TypeOK, DisabledIsDone, Active
  <1>9. ResidueOwned'
    BY DEF TypeOK, ResidueOwned, Terminal
  <1> QED BY <1>2, <1>3, <1>4, <1>5, <1>6, <1>7, <1>8, <1>9

LEMMA InvProgress ==
  ASSUME DrainInv, Progress
  PROVE  DrainInv'
  <1> USE DEF DrainInv, Progress, At, Goto, Done, LockFree, R, Blocked, HasEffort, Obligation,
            NewWork
  <1>1. items' \in [Items -> Item]
    BY DEF TypeOK, Item, Status, Runner, NextOutcome, Outcome
  <1>2. TypeOK'
    BY <1>1 DEF TypeOK, Runner
  <1>3. AdmittedInOrder'
    <2>1. Admitted' = Admitted
      BY DEF TypeOK, Admitted, NextOutcome, Outcome
    <2>2. \A j \in Items : items'[j].admission = items[j].admission
      BY DEF TypeOK
    <2>3. Admitted \subseteq Items
      BY DEF Admitted
    <2> QED BY <2>1, <2>2, <2>3 DEF AdmittedInOrder
  <1>4. OneItemPerSource'
    BY DEF TypeOK, OneItemPerSource, Active, NextOutcome, Outcome
  <1>5. ExternalLands'
    BY DEF TypeOK, ExternalLands, NextOutcome, Outcome
  <1>6. WorkspaceAnnounced'
    BY DEF WorkspaceAnnounced
  <1>7. DrainingCoversWork' /\ DrainingCoversDebts'
    BY DEF TypeOK, Item, Runner, DrainingCoversWork, DrainingCoversDebts, OperationState, Active,
           Terminal, NextOutcome, Outcome
  <1>8. DisabledIsDone'
    BY DEF TypeOK, DisabledIsDone, DrainingCoversDebts, Active, NextOutcome, Outcome
  <1>9. ResidueOwned'
    BY DEF TypeOK, ResidueOwned, Terminal, NextOutcome, Outcome
  <1> QED BY <1>2, <1>3, <1>4, <1>5, <1>6, <1>7, <1>8, <1>9

LEMMA InvMarkIntegrated ==
  ASSUME DrainInv, MarkIntegrated
  PROVE  DrainInv'
  <1> USE DEF DrainInv, MarkIntegrated, At, Done, R, HasEffort, Obligation
  <1>1. items' \in [Items -> Item]
    BY DEF TypeOK, Item, Status, Runner
  <1>2. TypeOK'
    BY <1>1 DEF TypeOK, Runner
  <1>3. AdmittedInOrder'
    BY DEF TypeOK, Item, Runner, AdmittedInOrder, Admitted
  <1>4. OneItemPerSource'
    BY DEF TypeOK, OneItemPerSource, Active
  <1>5. ExternalLands'
    BY DEF TypeOK, ExternalLands
  <1>6. WorkspaceAnnounced'
    BY DEF WorkspaceAnnounced
  <1>7. DrainingCoversWork' /\ DrainingCoversDebts'
    BY DEF TypeOK, DrainingCoversWork, DrainingCoversDebts, Active
  <1>8. DisabledIsDone'
    BY DEF DisabledIsDone
  <1>9. ResidueOwned'
    BY DEF TypeOK, ResidueOwned, Terminal
  <1> QED BY <1>2, <1>3, <1>4, <1>5, <1>6, <1>7, <1>8, <1>9

LEMMA InvAnswer ==
  ASSUME DrainInv, NEW i \in Items, Answer(i)
  PROVE  DrainInv'
  <1> USE DEF DrainInv, Answer
  <1>1. items' \in [Items -> Item]
    BY DEF TypeOK, Item
  <1>2. TypeOK'
    BY <1>1 DEF TypeOK
  <1>3. AdmittedInOrder'
    BY DEF TypeOK, Item
  <1>4. OneItemPerSource'
    BY DEF TypeOK, Item
  <1>5. ExternalLands'
    BY DEF TypeOK, Item
  <1>6. WorkspaceAnnounced'
    BY DEF TypeOK, Item
  <1>7. DrainingCoversWork' /\ DrainingCoversDebts'
    BY DEF TypeOK, Item
  <1>8. DisabledIsDone'
    BY DEF TypeOK, Item
  <1>9. ResidueOwned'
    BY DEF TypeOK, Item
  <1> QED BY <1>2, <1>3, <1>4, <1>5, <1>6, <1>7, <1>8, <1>9

LEMMA InvCancel ==
  ASSUME DrainInv, NEW i \in Items, Cancel(i)
  PROVE  DrainInv'
  <1> USE DEF DrainInv, Cancel, At, Goto, Done, LockFree, R, Blocked, HasEffort, Obligation, NewWork
  <1>1. items' \in [Items -> Item]
    <2>1. items'[i] \in Item
      <3> DEFINE d == items[i].workspace \in {"creation_intent", "retained"}
      <3>1. items[i] \in Item /\ d \in BOOLEAN
        BY DEF TypeOK
      <3>2. items'[i] = [items[i] EXCEPT !.status = "cancelled", !.waits = "none", !.debt = d]
        BY DEF TypeOK
      <3> HIDE DEF d
      <3> QED BY <3>1, <3>2, CancelledRow
    <2>2. \A j \in Items \ {i} : items'[j] = items[j]
      BY DEF TypeOK
    <2> QED BY <2>1 DEF TypeOK
  <1>2. TypeOK'
    BY <1>1 DEF TypeOK
  <1>3. AdmittedInOrder'
    <2>1. Admitted' = Admitted
      BY DEF TypeOK, Admitted, Active
    <2>2. \A j \in Items : items'[j].admission = items[j].admission
      BY DEF TypeOK
    <2>3. Admitted \subseteq Items
      BY DEF Admitted
    <2> QED BY <2>1, <2>2, <2>3 DEF AdmittedInOrder
  <1>4. OneItemPerSource'
    BY DEF TypeOK, OneItemPerSource, Active
  <1>5. ExternalLands'
    BY DEF TypeOK, ExternalLands
  <1>6. WorkspaceAnnounced'
    BY DEF TypeOK, Runner, WorkspaceAnnounced
  <1>7. DrainingCoversWork' /\ DrainingCoversDebts'
    BY DEF TypeOK, DrainingCoversWork, DrainingCoversDebts, Active
  <1>8. DisabledIsDone'
    BY DEF DisabledIsDone
  <1>9. ResidueOwned'
    BY DEF TypeOK, Item, ResidueOwned, Terminal
  <1> QED BY <1>2, <1>3, <1>4, <1>5, <1>6, <1>7, <1>8, <1>9

LEMMA InvClean ==
  ASSUME DrainInv, NEW i \in Items, Clean(i)
  PROVE  DrainInv'
  <1> USE DEF DrainInv, Clean, LockFree
  <1>1. items' \in [Items -> Item]
    BY DEF TypeOK, Item
  <1>2. TypeOK'
    BY <1>1 DEF TypeOK
  <1>3. AdmittedInOrder'
    BY DEF TypeOK, Item, Runner, AdmittedInOrder, Admitted
  <1>4. OneItemPerSource'
    BY DEF TypeOK, Item, OneItemPerSource, Active
  <1>5. ExternalLands'
    BY DEF TypeOK, Item, ExternalLands
  <1>6. WorkspaceAnnounced'
    BY DEF WorkspaceAnnounced
  <1>7. DrainingCoversWork' /\ DrainingCoversDebts'
    BY DEF TypeOK, Item, DrainingCoversWork, DrainingCoversDebts, Active
  <1>8. DisabledIsDone'
    BY DEF TypeOK, Item, DisabledIsDone, Active
  <1>9. ResidueOwned'
    BY DEF TypeOK, ResidueOwned, Terminal
  <1> QED BY <1>2, <1>3, <1>4, <1>5, <1>6, <1>7, <1>8, <1>9

LEMMA InvReplicate ==
  ASSUME DrainInv, NEW i \in Items, Replicate(i)
  PROVE  DrainInv'
  <1> USE DEF DrainInv, Replicate, At, Goto, Done, LockFree, R, Blocked, HasEffort, Obligation,
            NewWork
  <1>1. items' \in [Items -> Item]
    <2>1. items'[i] \in Item
      BY DEF TypeOK, Item
    <2>2. \A j \in Items \ {i} : items'[j] = items[j]
      OBVIOUS
    <2> QED BY <2>1 DEF TypeOK
  <1>2. TypeOK'
    BY <1>1 DEF TypeOK
  <1>3. AdmittedInOrder'
    BY DEF AdmittedInOrder, Admitted
  <1>4. OneItemPerSource'
    BY DEF OneItemPerSource, Active
  <1>5. ExternalLands'
    BY DEF ExternalLands
  <1>6. WorkspaceAnnounced'
    BY DEF WorkspaceAnnounced
  <1>7. DrainingCoversWork' /\ DrainingCoversDebts'
    BY DEF DrainingCoversWork, DrainingCoversDebts, Active
  <1>8. DisabledIsDone'
    BY DEF DisabledIsDone
  <1>9. ResidueOwned'
    BY DEF ResidueOwned, Terminal
  <1> QED BY <1>2, <1>3, <1>4, <1>5, <1>6, <1>7, <1>8, <1>9

LEMMA InvBeginDraining ==
  ASSUME DrainInv, BeginDraining
  PROVE  DrainInv'
  <1> USE DEF DrainInv, BeginDraining, LockFree
  <1>1. items' \in [Items -> Item]
    BY DEF TypeOK
  <1>2. TypeOK'
    BY DEF TypeOK, OperationState
  <1>3. AdmittedInOrder'
    BY DEF AdmittedInOrder, Admitted
  <1>4. OneItemPerSource'
    BY DEF OneItemPerSource, Active
  <1>5. ExternalLands'
    BY DEF ExternalLands
  <1>6. WorkspaceAnnounced'
    BY DEF WorkspaceAnnounced
  <1>7. DrainingCoversWork' /\ DrainingCoversDebts'
    BY DEF DrainingCoversWork, DrainingCoversDebts, Active
  <1>8. DisabledIsDone'
    BY DEF DisabledIsDone
  <1>9. ResidueOwned'
    BY DEF ResidueOwned, Terminal
  <1> QED BY <1>2, <1>3, <1>4, <1>5, <1>6, <1>7, <1>8, <1>9

LEMMA InvDisable ==
  ASSUME DrainInv, Disable
  PROVE  DrainInv'
  <1> USE DEF DrainInv, Disable, LockFree
  <1>1. items' \in [Items -> Item]
    BY DEF TypeOK
  <1>2. TypeOK'
    BY DEF TypeOK, OperationState
  <1>3. AdmittedInOrder'
    BY DEF AdmittedInOrder, Admitted
  <1>4. OneItemPerSource'
    BY DEF OneItemPerSource, Active
  <1>5. ExternalLands'
    BY DEF ExternalLands
  <1>6. WorkspaceAnnounced'
    BY DEF WorkspaceAnnounced
  <1>7. DrainingCoversWork' /\ DrainingCoversDebts'
    BY DEF DrainingCoversWork, DrainingCoversDebts
  <1>8. DisabledIsDone'
    BY DEF DisabledIsDone, DrainingCoversWork, DrainingCoversDebts, Active, Terminal
  <1>9. ResidueOwned'
    BY DEF ResidueOwned, Terminal
  <1> QED BY <1>2, <1>3, <1>4, <1>5, <1>6, <1>7, <1>8, <1>9

-----------------------------------------------------------------------------
(* The order *)

\* What every step but an admission does to a row: it keeps what admission wrote, does
\* not bring the item back, and puts it in flight only as the head of its target.
RowKept(j) ==
  /\ items'[j].admission = items[j].admission
  /\ items'[j].created = items[j].created
  /\ (items'[j].status = "absent") <=> (items[j].status = "absent")
  /\ Terminal(j) => items'[j].status = items[j].status
  /\ InFlight(j)' => InFlight(j) \/ TargetHead(j)
  /\ items[j].external => items'[j].status # "cancelled"

RowsKept == \A j \in Items : RowKept(j)

\* Every operation but an admission.
Steps ==
  \/ RunOnce \/ EndCycle \/ Debts
  \/ BeginAdmission \/ DropAdmission \/ BeginDraining \/ Disable
  \/ \E i \in Items : ResumeItem(i) \/ Answer(i) \/ Cancel(i)

\* One step of the runner, the operator or the cleanup keeps the rows.
LEMMA StepKeeps ==
  ASSUME DrainInv, Steps
  PROVE  RowsKept
  <1> USE DEF DrainInv, TypeOK, Item, Runner, RowsKept, RowKept
  <1>1. ASSUME UNCHANGED items PROVE RowsKept
    BY <1>1 DEF InFlight, Active, ExternalLands
  <1>2. CASE Claim
    BY <1>2 DEF Claim, Terminal, Active, InFlight, ExternalLands
  <1>3. CASE Resume
    BY <1>3 DEF Resume, Blocked, Terminal, Active, InFlight, ExternalLands
  <1>4. CASE BeginWorkspaceCreation
    BY <1>4 DEF BeginWorkspaceCreation, Active, InFlight, ExternalLands
  <1>5. CASE SetWorkspaceIdentity
    BY <1>5 DEF SetWorkspaceIdentity, Active, InFlight, ExternalLands
  <1>6. CASE BlockWithoutEffort
    BY <1>6 DEF BlockWithoutEffort, R, Terminal, Active, InFlight, ExternalLands
  <1>7. CASE Progress
    BY <1>7 DEF Progress, At, R, Blocked, HasEffort, Terminal, Active, InFlight, TargetHead,
       NextOutcome, Outcome, ExternalLands
  <1>8. CASE MarkIntegrated
    BY <1>8 DEF MarkIntegrated, At, R, Blocked, HasEffort, Terminal, Active, InFlight, TargetHead,
       ExternalLands
  <1>9. ASSUME NEW i \in Items, Answer(i) PROVE RowsKept
    BY <1>9 DEF Answer
  <1>10. ASSUME NEW i \in Items, Cancel(i) PROVE RowsKept
    BY <1>10 DEF Cancel, Terminal, Active, InFlight, ExternalLands
  <1>11. ASSUME NEW i \in Items, Clean(i) PROVE RowsKept
    BY <1>11 DEF Clean, Active, InFlight, ExternalLands
  <1>12. ASSUME NEW i \in Items, Replicate(i) PROVE RowsKept
    BY <1>12 DEF Replicate, Active, InFlight, ExternalLands
  <1>13. UNCHANGED items \/ Claim \/ Resume \/ BeginWorkspaceCreation \/ SetWorkspaceIdentity
          \/ BlockWithoutEffort \/ Progress \/ MarkIntegrated
          \/ \E i \in Items : Answer(i) \/ Cancel(i) \/ Clean(i) \/ Replicate(i)
    BY DEF Steps, RunOnce, Debts, EndCycle, BeginAdmission, DropAdmission, BeginDraining, Disable,
           ResumeItem, Pick, ClaimNothing, CreateRift, Abandon
  <1> QED BY <1>1, <1>13, <1>2, <1>3, <1>4, <1>5, <1>6, <1>7, <1>8, <1>9, <1>10, <1>11, <1>12

\* Rows that are kept keep the order.
LEMMA KeptOrder ==
  ASSUME DrainInv, OrderInv, RowsKept
  PROVE  OrderInv'
  <1> USE DEF RowsKept, RowKept
  <1>1. \A j \in Items : Active(j)' => Active(j)
    BY DEF Active, Terminal
  <1>2. \A j \in Items : Target(j)' = Target(j)
    BY DEF Target
  <1>3. \A i \in Admitted' : i \in Admitted
    BY DEF Admitted
  <1>4. (\A i \in Admitted : items[i].created = i)'
    BY DEF OrderInv, Admitted
  <1>5. ASSUME NEW i \in Items, InFlight(i)'
        PROVE  TargetHead(i)'
    <2>1. TargetHead(i)
      BY <1>5 DEF OrderInv, InFlightIsHead
    <2>2. Active(i)'
      BY <1>5 DEF InFlight
    <2> QED BY <1>1, <1>2, <2>1, <2>2 DEF TargetHead, Older
  <1> QED BY <1>4, <1>5 DEF OrderInv, InFlightIsHead

\* An admission puts the item behind all others when the clock does not step back.
LEMMA AdmitOrder ==
  ASSUME DrainInv, OrderInv, ~ClockSteps, NEW r \in Request, Admit(r)
  PROVE  OrderInv'
  <1>1. CASE UNCHANGED items
    BY <1>1 DEF OrderInv, InFlightIsHead, InFlight, TargetHead, Active, Target, Older, Admitted
  <1>2. CASE \E t \in CreatedAt : Insert(r, t)
    <2>0. PICK k \in Nat : k = Cardinality(Admitted) + 1
      BY NextIsFree
    <2>1. k \in Items /\ Admitted = 1..(k - 1)
      BY <1>2, <2>0, NextIsFree DEF Insert
    <2>2. items' = [items EXCEPT ![k].status = "ready", ![k].admission = r, ![k].created = k]
      BY <1>2, <2>0 DEF CreatedAt, Insert
    <2>3. /\ items'[k].status = "ready" /\ items'[k].created = k
          /\ \A j \in Items \ {k} : items'[j] = items[j]
      BY <2>1, <2>2 DEF DrainInv, TypeOK
    <2>4. \A j \in Items : j \in Admitted' => j \in Admitted \/ j = k
      BY <2>3 DEF Admitted
    <2>5. (\A i \in Admitted : items[i].created = i)'
      BY <2>3 DEF OrderInv, Admitted
    <2>6. ASSUME NEW i \in Items, InFlight(i)'
          PROVE  TargetHead(i)'
      <3>1. i # k /\ InFlight(i)
        BY <2>3, <2>6 DEF InFlight, Active
      <3>2. TargetHead(i) /\ i \in Admitted
        BY <3>1 DEF OrderInv, InFlightIsHead, InFlight, Active, Admitted
      <3>3. ~Older(k, i)'
        <4>1. items'[i].created = i /\ i < k
          BY <2>1, <2>3, <3>2 DEF OrderInv
        <4> QED BY <2>1, <2>3, <4>1 DEF Older
      <3>4. ASSUME NEW j \in Items, Active(j)', Target(j)' = Target(i)', j # k
            PROVE  ~Older(j, i)'
        BY <2>3, <3>1, <3>2, <3>4 DEF TargetHead, Active, Target, Older
      <3>5. Active(i)'
        BY <2>6 DEF InFlight
      <3>6. \A j \in Items : Active(j)' /\ Target(j)' = Target(i)' => ~Older(j, i)'
        BY <3>3, <3>4
      <3> QED BY <3>5, <3>6 DEF TargetHead
    <2> QED BY <2>5, <2>6 DEF OrderInv, InFlightIsHead
  <1> QED BY <1>1, <1>2 DEF Admit

\* An admission leaves every row but a free one alone.
LEMMA AdmitKeeps ==
  ASSUME DrainInv, NEW r \in Request, Admit(r)
  PROVE  \A j \in Items : items'[j] = items[j] \/ (items[j].status = "absent" /\ items'[j].status = "ready")
  <1>1. CASE UNCHANGED items
    BY <1>1
  <1>2. CASE \E t \in CreatedAt : Insert(r, t)
    <2> DEFINE k == Cardinality(Admitted) + 1
    <2>1. k \in Items /\ k \notin Admitted
      BY <1>2, NextIsFree DEF Insert
    <2>2. PICK t : items' = [items EXCEPT ![k].status = "ready", ![k].admission = r, ![k].created = t]
      BY <1>2 DEF Insert
    <2> HIDE DEF k
    <2> QED BY <2>1, <2>2 DEF DrainInv, TypeOK, Admitted
  <1> QED BY <1>2 DEF Admit

-----------------------------------------------------------------------------
(* The theorems *)

LEMMA InvInit == Init => DrainInv /\ OrderInv
  <1> SUFFICES ASSUME Init PROVE DrainInv /\ OrderInv
    OBVIOUS
  <1> USE DEF Init
  <1>1. TypeOK
    BY DEF TypeOK, Item, Status, OperationState, Runner
  <1>2. Admitted = {} /\ \A i \in Items : ~Active(i)
    BY DEF Admitted, Active
  <1>3. AdmittedInOrder
    <2>1. Admitted = 1..0 /\ 0 \in 0..MaxItem
      BY <1>2, MaxItemAssumption
    <2> QED BY <2>1 DEF AdmittedInOrder
  <1>4. OneItemPerSource /\ ExternalLands
    BY <1>2 DEF OneItemPerSource, ExternalLands
  <1>5. WorkspaceAnnounced /\ DrainingCoversWork /\ DrainingCoversDebts
    BY DEF WorkspaceAnnounced, DrainingCoversWork, DrainingCoversDebts
  <1>6. DisabledIsDone /\ ResidueOwned
    BY DEF DisabledIsDone, ResidueOwned
  <1>7. OrderInv
    BY <1>2 DEF OrderInv, InFlightIsHead, InFlight
  <1> QED BY <1>1, <1>3, <1>4, <1>5, <1>6, <1>7 DEF DrainInv

LEMMA InvNext == DrainInv /\ [Next]_vars => DrainInv'
  <1> SUFFICES ASSUME DrainInv, [Next]_vars PROVE DrainInv'
    OBVIOUS
  <1>1. CASE \/ BeginAdmission \/ DropAdmission \/ ClaimNothing \/ Abandon \/ EndCycle
             \/ \E i \in Items : Pick(i) \/ ResumeItem(i)
             \/ UNCHANGED vars
    BY <1>1, QuietSteps, InvQuiet
  <1>2. CASE RunOnce
    BY <1>1, <1>2, InvClaim, InvResume, InvBeginWorkspaceCreation, InvCreateRift,
       InvSetWorkspaceIdentity, InvBlockWithoutEffort, InvProgress, InvMarkIntegrated DEF RunOnce
  <1>3. CASE Operator
    BY <1>1, <1>3, InvAdmit, InvAnswer, InvCancel, InvBeginDraining, InvDisable DEF Operator
  <1>4. CASE Debts
    BY <1>4, InvClean, InvReplicate DEF Debts
  <1> QED BY <1>1, <1>2, <1>3, <1>4 DEF Next

LEMMA OrderNext == ~ClockSteps /\ DrainInv /\ OrderInv /\ [Next]_vars => OrderInv'
  <1> SUFFICES ASSUME ~ClockSteps, DrainInv, OrderInv, [Next]_vars PROVE OrderInv'
    OBVIOUS
  <1>1. CASE Steps
    BY <1>1, StepKeeps, KeptOrder
  <1>2. CASE \E r \in Request : Admit(r)
    BY <1>2, AdmitOrder
  <1>3. CASE UNCHANGED vars
    BY <1>3 DEF vars, OrderInv, InFlightIsHead, InFlight, TargetHead, Active, Target, Older,
       Admitted
  <1> QED BY <1>1, <1>2, <1>3 DEF Next, Operator, Steps

\* Every active item of a draining repository is one of its obligations, every workspace
\* on disk has an owner, and a disabled repository owes nothing, whatever is admitted,
\* cancelled or landed and wherever a cycle ends (begin_repository_draining, cancel_item,
\* disable_drained_repository).
THEOREM DrainingLeavesNothing == Spec => []Draining
  <1>1. DrainInv => Draining
    BY DEF DrainInv, Draining
  <1> QED BY InvInit, InvNext, <1>1, PTL DEF Spec

\* Two items in flight of one target would both be its head, and admission times differ.
LEMMA OrderGivesOne == DrainInv /\ OrderInv => OneInFlight
  <1> SUFFICES ASSUME DrainInv, OrderInv, NEW i \in Items, NEW j \in Items, i # j,
                      InFlight(i), InFlight(j), Target(i) = Target(j)
               PROVE  FALSE
    BY DEF OneInFlight
  <1>1. TargetHead(i) /\ TargetHead(j) /\ i \in Admitted /\ j \in Admitted
    BY DEF OrderInv, InFlightIsHead, InFlight, Active, Admitted
  <1>2. ~Older(i, j) /\ ~Older(j, i)
    BY <1>1 DEF TargetHead
  <1> QED BY <1>1, <1>2 DEF OrderInv, Older, Items

\* What one step may do, with and without the order.
StrictFifoStep ==
  \A i \in Items : (items[i].status = "ready" /\ items'[i].status = "merging") =>
    \A j \in Items : (Active(j) /\ j # i /\ Target(j) = Target(i)) => j > i

LateStep ==
  \A i \in Items : /\ Terminal(i) => items'[i].status = items[i].status
                   /\ items[i].external => items'[i].status # "cancelled"

LEMMA StepsInOrder == DrainInv /\ OrderInv /\ [Next]_vars => [StrictFifoStep]_vars
  <1> SUFFICES ASSUME DrainInv, OrderInv, Next,
                      NEW i \in Items, items[i].status = "ready", items'[i].status = "merging",
                      NEW j \in Items, Active(j), j # i, Target(j) = Target(i)
               PROVE  j > i
    BY DEF StrictFifoStep
  <1>1. CASE Steps
    <2>1. TargetHead(i)
      BY <1>1, StepKeeps DEF RowsKept, RowKept, InFlight, Active
    <2>2. i \in Admitted /\ j \in Admitted /\ ~Older(j, i)
      BY <2>1 DEF TargetHead, Admitted, Active
    <2> QED BY <2>2 DEF OrderInv, Older, Items
  <1>2. CASE \E r \in Request : Admit(r)
    BY <1>2, AdmitKeeps
  <1> QED BY <1>1, <1>2 DEF Next, Operator, Steps

LEMMA StepsNotLate == DrainInv /\ [Next]_vars => [LateStep]_vars
  <1> SUFFICES ASSUME DrainInv, Next, NEW i \in Items
               PROVE  /\ Terminal(i) => items'[i].status = items[i].status
                      /\ items[i].external => items'[i].status # "cancelled"
    BY DEF LateStep
  <1>1. CASE Steps
    BY <1>1, StepKeeps DEF RowsKept, RowKept
  <1>2. CASE \E r \in Request : Admit(r)
    BY <1>2, AdmitKeeps DEF DrainInv, ExternalLands, Terminal
  <1> QED BY <1>1, <1>2 DEF Next, Operator, Steps

\* Whatever the clock does, a late step of a run brings no ended item back, and a
\* cancellation never takes back authority given to the provider (cancel_item,
\* project_queue_state).
THEOREM LateStepsHarmless == Spec => NoCancelOfLanding /\ TerminalStays
  <1>1. [LateStep]_vars =>
          /\ [\A i \in Items : items[i].external => items'[i].status # "cancelled"]_vars
          /\ [\A i \in Items : Terminal(i) => items'[i].status = items[i].status]_vars
    BY DEF LateStep
  <1> QED BY InvInit, InvNext, StepsNotLate, <1>1, PTL DEF Spec, NoCancelOfLanding, TerminalStays

\* With a clock that does not step back, the items of one target are taken in the order
\* of their admission and one at a time, one source has one active item, and late steps
\* are harmless (oldest_active_item, claim_next_ready_with_authority).  With one that does,
\* an item admitted later can carry the smaller time, and is taken first.
THEOREM OrderWithSteadyClock == ClockSteps = FALSE => (Spec => QueueOrder)
  <1> SUFFICES ASSUME ClockSteps = FALSE PROVE Spec => QueueOrder
    OBVIOUS
  <1>1. ~ClockSteps
    OBVIOUS
  <1>2. DrainInv /\ OrderInv /\ [Next]_vars => OrderInv'
    BY OrderNext
  <1>3. DrainInv /\ OrderInv => TypeOK /\ OneInFlight /\ OneItemPerSource
    BY OrderGivesOne DEF DrainInv
  <1>4. [StrictFifoStep]_vars =>
          [\A i \in Items : (items[i].status = "ready" /\ items'[i].status = "merging") =>
             \A j \in Items : (Active(j) /\ j # i /\ Target(j) = Target(i)) => j > i]_vars
    BY DEF StrictFifoStep
  <1> QED BY InvInit, InvNext, StepsInOrder, LateStepsHarmless, <1>2, <1>3, <1>4, PTL DEF Spec,
            QueueOrder, StrictFifo

-----------------------------------------------------------------------------
(* The lease of operations: what RepoLeaseProofs proves of the module holds  *)
(* of its instance.                                                          *)

LeaseProofs == INSTANCE RepoLeaseProofs
  WITH Procs <- Operations, Reserve <- LeaseReserve, MaxStops <- MaxOpStops, proc <- operation, stops <- opStops

\* The instance that the proofs are about is the one that is checked.
LEMMA SameLease ==
  /\ LeaseProofs!ConstantsOK
  /\ Lease!Init => LeaseProofs!Init
  /\ Lease!Next => LeaseProofs!Next
  /\ UNCHANGED leaseVars => UNCHANGED LeaseProofs!vars
  /\ LeaseProofs!CommandExact => CommandExact
  <1>1. LeaseProofs!ConstantsOK
    BY PartsAssumption DEF Lease!ConstantsOK, LeaseProofs!ConstantsOK
  <1>2. Lease!Init => LeaseProofs!Init
    BY DEF Lease!Init, LeaseProofs!Init, Lease!NoLease, LeaseProofs!NoLease, Lease!Idle, LeaseProofs!Idle
  <1>3. Lease!Next => LeaseProofs!Next
    BY DEF Lease!Next, LeaseProofs!Next, Lease!Tick, LeaseProofs!Tick, Lease!Timely, LeaseProofs!Timely,
       Lease!TryLock, LeaseProofs!TryLock, Lease!At, LeaseProofs!At, Lease!Goto, LeaseProofs!Goto, Lease!GiveUp,
       LeaseProofs!GiveUp, Lease!TakeLease, LeaseProofs!TakeLease, Lease!Interval, LeaseProofs!Interval,
       Lease!VerifyFails, LeaseProofs!VerifyFails, Lease!Renew, LeaseProofs!Renew, Lease!Alive,
       LeaseProofs!Alive, Lease!Owns, LeaseProofs!Owns, Lease!Extended, LeaseProofs!Extended, Lease!Mutate,
       LeaseProofs!Mutate, Lease!Authorize, LeaseProofs!Authorize, Lease!Gate, LeaseProofs!Gate, Lease!Spawn,
       LeaseProofs!Spawn, Lease!CheckLost, LeaseProofs!CheckLost, Lease!Active, LeaseProofs!Active,
       Lease!Stopped, LeaseProofs!Stopped, Lease!CheckActive, LeaseProofs!CheckActive, Lease!CheckBusy,
       LeaseProofs!CheckBusy, Lease!TimeOut, LeaseProofs!TimeOut, Lease!ChildExits, LeaseProofs!ChildExits,
       Lease!Accept, LeaseProofs!Accept, Lease!Finish, LeaseProofs!Finish, Lease!Unlease, LeaseProofs!Unlease,
       Lease!NoLease, LeaseProofs!NoLease, Lease!Unlock, LeaseProofs!Unlock, Lease!Idle, LeaseProofs!Idle,
       Lease!Stop, LeaseProofs!Stop, Lease!Stall, LeaseProofs!Stall, Lease!Resume, LeaseProofs!Resume
  <1>4. UNCHANGED leaseVars => UNCHANGED LeaseProofs!vars
    BY DEF leaseVars, LeaseProofs!vars
  <1>5. LeaseProofs!CommandExact => CommandExact
    BY DEF CommandExact, Lease!CommandExact, LeaseProofs!CommandExact, Lease!TypeOK, LeaseProofs!TypeOK, Lease!Proc,
       LeaseProofs!Proc, Lease!CommandLocked, LeaseProofs!CommandLocked, Lease!CommandCovered,
       LeaseProofs!CommandCovered, Lease!At, LeaseProofs!At, Lease!RowKept, LeaseProofs!RowKept
  <1> QED BY <1>1, <1>2, <1>3, <1>4, <1>5

\* CommandsUnderLock: beside whatever else is done with the repository, a supervised command holds the operation
\* lock and a row that lives (supervise_command, LeaseHeartbeat).
THEOREM CommandsUnderLock == MCSpec => []CommandExact
  <1>1. MCInit => LeaseProofs!Init
    BY SameLease DEF MCInit
  <1>2. [MCNext]_<<part, vars, submissionVars, leaseVars, registrationVars>> => [LeaseProofs!Next]_(LeaseProofs!vars)
    BY SameLease DEF MCNext
  <1>3. LeaseProofs!Spec => []LeaseProofs!CommandExact
    BY SameLease, LeaseProofs!CommandsCovered
  <1>4. LeaseProofs!CommandExact => CommandExact
    BY SameLease
  <1> QED BY <1>1, <1>2, <1>3, <1>4, PTL DEF MCSpec, LeaseProofs!Spec

-----------------------------------------------------------------------------
(* The registration of a repository: commands that race and stop anywhere,   *)
(* also inside an effect, leave a directory that the next one accepts, and   *)
(* end in one repository that is complete and at the commit reserved first.  *)
(*                                                                           *)
(* Backed is what the directory shows in every phase, the half-done effects  *)
(* of the phase included; an effect keeps it (one lemma each), and the       *)
(* effect that is complete gives it for the next phase (AdvanceBacked).      *)

\* A directory under the phase recorded: accepted by the verification, and with what
\* the effects of the phase add to it.
Backed(t) ==
  /\ Registration!EffectsHold(t)
  /\ Registration!Relocated(t) \/ Registration!BindingHolds(t)
  /\ t.at = "staging" => t.stage >= Registration!Directory
  /\ t.stage >= Registration!Object => t.sha = intent.sha
  /\ intent.phase = "rift_initialized" => t.row /\ t.marker

\* One key is owned, with either an intent or a registration.
RowsAgree ==
  /\ owner = None => intent = None /\ registered = None
  /\ owner # None => (intent = None) # (registered = None)

\* The requests and the commands know no other key, and no other key has a directory.
KeysAgree ==
  /\ \A p \in Registrars : requests[p] \in Registration!Keys => requests[p] = owner
  /\ \A p \in Registrars : registrar[p].pc \in {"planned", "fenced", "synced"} => registrar[p].key = owner /\
       owner # None
  /\ \A k \in Registration!Keys : tree[k].at # "nowhere" => k = owner
  /\ \A k \in Registration!Keys : tree[k].at = "nowhere" => tree[k].stage = Registration!Nothing

\* A command that joined the repository asked for its storage root.
HomesAgree ==
  \A p \in Registrars :
    /\ registrar[p].pc \in {"planned", "fenced", "synced", "done"} => Registration!DurableHome = Storage[p]
    /\ registrar[p].pc = "done" => registered # None

\* One command is inside the fence, and there is an intent to complete.
FenceAlone ==
  /\ \A p, q \in Registrars : registrar[p].pc \in {"fenced", "synced"} /\ registrar[q].pc \in {"fenced", "synced"} =>
       p = q
  /\ \A p \in Registrars : registrar[p].pc \in {"fenced", "synced"} => intent # None

\* A command that will reserve has seen a commit.
SeenSha == \A p \in Registrars : registrar[p].pc \in {"preflighted", "asked", "reserving"} =>
  registrar[p].sha \in Shas

TreeBacked == intent # None => Backed(tree[owner])

\* What was synced is complete until the phase is recorded.
SyncedComplete == \A p \in Registrars : registrar[p].pc = "synced" => Registration!Complete(p)

ProvisionInv ==
  /\ Registration!TypeOK /\ RowsAgree /\ KeysAgree /\ HomesAgree /\ FenceAlone /\ SeenSha /\ TreeBacked
  /\ SyncedComplete
  /\ Registration!ReadyIsExact

-----------------------------------------------------------------------------
(* Facts about phases and directories *)

LEMMA PhaseOrder ==
  /\ DOMAIN Registration!Phases = 1..12
  /\ Registration!Phases[1] = "reserved" /\ Registration!Phases[2] = "staging_directory"
  /\ Registration!Phases[3] = "git_initialized"
  /\ Registration!Phases[4] = "remote_configured" /\ Registration!Phases[5] = "target_fetched"
  /\ Registration!Phases[6] = "target_checked_out"
  /\ Registration!Phases[7] = "root_published" /\ Registration!Phases[8] = "policy_published"
  /\ Registration!Phases[9] = "rift_initialized"
  /\ Registration!Phases[10] = "rift_verified" /\ Registration!Phases[11] = "owner_published"
  /\ Registration!Phases[12] = "child_roots_published"
  BY DEF Registration!Phases

\* A phase is followed by the next one of the list.
LEMMA NextPhaseIs ==
  ASSUME NEW n \in 1..11, intent.phase = Registration!Phases[n]
  PROVE  Registration!NextPhase = n + 1
  <1>1. n + 1 \in DOMAIN Registration!Phases /\ n + 1 > 1 /\ Registration!Phases[(n + 1) - 1] = intent.phase
    BY PhaseOrder
  <1>2. ASSUME NEW m \in DOMAIN Registration!Phases, m > 1, Registration!Phases[m - 1] = intent.phase PROVE m = n + 1
    <2>1. m - 1 \in 1..11
      BY <1>2, PhaseOrder
    <2>2. \A i, j \in 1..11 : Registration!Phases[i] = Registration!Phases[j] => i = j
      BY PhaseOrder
    <2> QED BY <1>2, <2>1, <2>2
  <1> QED BY <1>2 DEF Registration!NextPhase

LEMMA BackedSame == ASSUME TreeBacked, UNCHANGED <<owner, intent, tree>> PROVE TreeBacked'
  BY DEF TreeBacked, Backed, Registration!EffectsHold, Registration!BindingHolds, Registration!Relocated,
       Registration!GoodGit

LEMMA CompleteSame ==
  ASSUME NEW q \in Registrars, UNCHANGED <<intent, tree>>, registrar'[q].key = registrar[q].key,
           Registration!Complete(q)
  PROVE  Registration!Complete(q)'
  BY DEF Registration!Complete, Registration!T

\* The command inside the fence works on the directory of the repository.
LEMMA FencedTree ==
  ASSUME Registration!ConstantsOK, ProvisionInv, NEW p \in Registrars, registrar[p].pc \in {"fenced", "synced"}
  PROVE  /\ intent # None /\ intent \in Registration!Intent /\ Registration!T(p) = tree[owner]
         /\ Registration!T(p) \in Registration!Tree /\ Backed(Registration!T(p))
  BY DEF ProvisionInv, Registration!TypeOK, KeysAgree, FenceAlone, TreeBacked, Registration!T

-----------------------------------------------------------------------------
(* Every action keeps the invariant *)

\* An effect that leaves a directory backed keeps the invariant.
LEMMA EffectKeeps ==
  ASSUME Registration!ConstantsOK, ProvisionInv, NEW p \in Registrars, NEW t \in Registration!Tree,
           Registration!At(p, "fenced"), Registration!Effect(p, t),
         Backed(t), t.at # "nowhere"
  PROVE  ProvisionInv'
  <1>1. /\ Registration!TypeOK /\ RowsAgree /\ KeysAgree /\ HomesAgree /\ FenceAlone /\ SeenSha /\ TreeBacked
        /\ SyncedComplete
        /\ Registration!ReadyIsExact
    BY DEF ProvisionInv
  <1>2. UNCHANGED <<owner, intent, registered, requests, registrar, crashes>>
    BY DEF Registration!Effect
  <1>3. registrar[p].key = owner /\ owner \in Registration!Keys /\ intent # None /\ registered = None
    BY <1>1 DEF KeysAgree, FenceAlone, RowsAgree, Registration!TypeOK, Registration!At
  <1>4. tree' \in [Registration!Keys -> Registration!Tree] /\ tree'[owner] = t /\
          \A k \in Registration!Keys : k # owner => tree'[k] = tree[k]
    BY <1>1, <1>3 DEF Registration!TypeOK, Registration!Effect
  <1>5. Registration!TypeOK'
    BY <1>1, <1>2, <1>4 DEF Registration!TypeOK
  <1>6. KeysAgree'
    BY <1>1, <1>2, <1>4 DEF KeysAgree
  <1>7. TreeBacked'
    BY <1>2, <1>4 DEF TreeBacked, Backed, Registration!EffectsHold, Registration!BindingHolds,
         Registration!Relocated, Registration!GoodGit
  <1>8. SyncedComplete'
    BY <1>1, <1>2 DEF SyncedComplete, FenceAlone, Registration!At
  <1>9. Registration!ReadyIsExact'
    BY <1>2, <1>3 DEF Registration!ReadyIsExact
  <1> QED BY <1>2, <1>5, <1>6, <1>7, <1>8, <1>9 DEF ProvisionInv, RowsAgree, HomesAgree,
            Registration!DurableHome, FenceAlone, SeenSha

\* Ask (prepare_bootstrap_request) keeps the invariant.
LEMMA AskKeeps ==
  ASSUME Registration!ConstantsOK, ProvisionInv, NEW p \in Registrars, Registration!Ask(p)
  PROVE  ProvisionInv'
  <1>1. /\ Registration!TypeOK /\ RowsAgree /\ KeysAgree /\ HomesAgree /\ FenceAlone /\ SeenSha /\ TreeBacked
        /\ SyncedComplete
        /\ Registration!ReadyIsExact
    BY DEF ProvisionInv
  <1>2. /\ registrar \in [Registrars -> Registration!Proc] /\ registrar[p] \in Registration!Proc
        /\ requests \in [Registrars -> Registration!Absent..MaxKey]
        /\ owner \in Registration!Keys \cup {None} /\ MaxKey \in Nat /\ crashes \in 0..MaxCrash /\ MaxCrash \in Nat
    BY <1>1 DEF Registration!TypeOK, Registration!ConstantsOK
  <1>3. \A q \in Registrars : q # p => registrar'[q] = registrar[q]
    BY DEF Registration!Goto, Registration!Ask
  <1>4. registrar'[p].pc = "asked" /\ registrar'[p].sha = registrar[p].sha /\ registrar'[p].key = registrar[p].key
    BY <1>2 DEF Registration!Goto, Registration!Ask
  <1>5. registrar[p].pc = "preflighted"
    BY DEF Registration!At, Registration!Ask
  <1>6. UNCHANGED <<owner, intent, registered, tree, crashes>>
    BY DEF Registration!Ask
  <1>7. /\ \A q \in Registrars : q # p => requests'[q] = requests[q]
        /\ requests'[p] \in {requests[p], Registration!Unlinked}
    BY DEF Registration!Ask
  <1>8. registrar' \in [Registrars -> Registration!Proc]
    BY <1>2 DEF Registration!Proc, Registration!Goto, Registration!Ask
  <1>9. requests' \in [Registrars -> Registration!Absent..MaxKey]
    BY <1>2 DEF Registration!Absent, Registration!Unlinked, Registration!Ask
  <1>10. Registration!TypeOK'
    BY <1>1, <1>6, <1>8, <1>9 DEF Registration!TypeOK
  <1>11. RowsAgree'
    BY <1>1, <1>6 DEF RowsAgree
  <1>12. KeysAgree'
    BY <1>1, <1>3, <1>4, <1>6, <1>7 DEF KeysAgree, Registration!Unlinked, Registration!Keys
  <1>13. HomesAgree'
    BY <1>1, <1>3, <1>4, <1>6 DEF HomesAgree, Registration!DurableHome
  <1>14. FenceAlone'
    BY <1>1, <1>3, <1>4, <1>6 DEF FenceAlone
  <1>15. SeenSha'
    BY <1>1, <1>3, <1>4, <1>5 DEF SeenSha
  <1>16. TreeBacked'
    BY <1>1, <1>6, BackedSame
  <1>17. SyncedComplete'
    BY <1>1, <1>3, <1>4, <1>6, CompleteSame DEF SyncedComplete
  <1>18. Registration!ReadyIsExact'
    BY <1>1, <1>6 DEF Registration!ReadyIsExact
  <1> QED BY <1>10, <1>11, <1>12, <1>13, <1>14, <1>15, <1>16, <1>17, <1>18 DEF ProvisionInv

\* FindReady (find_registered) keeps the invariant.
LEMMA FindReadyKeeps ==
  ASSUME Registration!ConstantsOK, ProvisionInv, NEW p \in Registrars, Registration!FindReady(p)
  PROVE  ProvisionInv'
  <1>1. /\ Registration!TypeOK /\ RowsAgree /\ KeysAgree /\ HomesAgree /\ FenceAlone /\ SeenSha /\ TreeBacked
        /\ SyncedComplete
        /\ Registration!ReadyIsExact
    BY DEF ProvisionInv
  <1>2. /\ registrar \in [Registrars -> Registration!Proc] /\ registrar[p] \in Registration!Proc
        /\ requests \in [Registrars -> Registration!Absent..MaxKey]
        /\ owner \in Registration!Keys \cup {None} /\ MaxKey \in Nat /\ crashes \in 0..MaxCrash /\ MaxCrash \in Nat
    BY <1>1 DEF Registration!TypeOK, Registration!ConstantsOK
  <1>3. \A q \in Registrars : q # p => registrar'[q] = registrar[q]
    BY <1>2 DEF Registration!Goto, Registration!Refuse, Registration!FindReady
  <1>4. \/ registrar'[p].pc = "refused" /\ registrar'[p].sha = registrar[p].sha /\
          registrar'[p].key = registrar[p].key
        \/ registrar'[p].pc = "done" /\ registrar'[p].sha = registrar[p].sha /\
          registrar'[p].key = registrar[p].key /\ Registration!DurableHome = Storage[p]
    BY <1>2 DEF Registration!Proc, Registration!Goto, Registration!Refuse, Registration!FindReady
  <1>5. registrar[p].pc = "asked" /\ registered # None
    BY DEF Registration!At, Registration!FindReady
  <1>6. UNCHANGED <<owner, intent, registered, tree, crashes>>
    BY DEF Registration!FindReady
  <1>7. /\ \A q \in Registrars : q # p => requests'[q] = requests[q]
        /\ requests'[p] \in {requests[p], Registration!Absent, owner}
    BY <1>2 DEF Registration!Refuse, Registration!Link, Registration!FindReady
  <1>8. registrar' \in [Registrars -> Registration!Proc]
    BY <1>2 DEF Registration!Proc, Registration!Goto, Registration!Refuse, Registration!FindReady
  <1>9. requests' \in [Registrars -> Registration!Absent..MaxKey]
    BY <1>1, <1>2 DEF Registration!Absent, Registration!Keys, RowsAgree, Registration!Refuse, Registration!Link,
         Registration!FindReady
  <1>10. Registration!TypeOK'
    BY <1>1, <1>6, <1>8, <1>9 DEF Registration!TypeOK
  <1>11. RowsAgree'
    BY <1>1, <1>6 DEF RowsAgree
  <1>12. KeysAgree'
    BY <1>1, <1>3, <1>4, <1>6, <1>7 DEF KeysAgree, Registration!Absent, Registration!Keys
  <1>13. HomesAgree'
    BY <1>1, <1>3, <1>4, <1>5, <1>6 DEF HomesAgree, Registration!DurableHome
  <1>14. FenceAlone'
    BY <1>1, <1>3, <1>4, <1>6 DEF FenceAlone
  <1>15. SeenSha'
    BY <1>1, <1>3, <1>4 DEF SeenSha
  <1>16. TreeBacked'
    BY <1>1, <1>6, BackedSame
  <1>17. SyncedComplete'
    BY <1>1, <1>3, <1>4, <1>6, CompleteSame DEF SyncedComplete
  <1>18. Registration!ReadyIsExact'
    BY <1>1, <1>6 DEF Registration!ReadyIsExact
  <1> QED BY <1>10, <1>11, <1>12, <1>13, <1>14, <1>15, <1>16, <1>17, <1>18 DEF ProvisionInv

\* LoadIntent (load_intent_by_repo_key) keeps the invariant.
LEMMA LoadIntentKeeps ==
  ASSUME Registration!ConstantsOK, ProvisionInv, NEW p \in Registrars, Registration!LoadIntent(p)
  PROVE  ProvisionInv'
  <1>1. /\ Registration!TypeOK /\ RowsAgree /\ KeysAgree /\ HomesAgree /\ FenceAlone /\ SeenSha /\ TreeBacked
        /\ SyncedComplete
        /\ Registration!ReadyIsExact
    BY DEF ProvisionInv
  <1>2. /\ registrar \in [Registrars -> Registration!Proc] /\ registrar[p] \in Registration!Proc
        /\ requests \in [Registrars -> Registration!Absent..MaxKey]
        /\ owner \in Registration!Keys \cup {None} /\ MaxKey \in Nat /\ crashes \in 0..MaxCrash /\ MaxCrash \in Nat
    BY <1>1 DEF Registration!TypeOK, Registration!ConstantsOK
  <1>3. \A q \in Registrars : q # p => registrar'[q] = registrar[q]
    BY <1>2 DEF Registration!Goto, Registration!Planned, Registration!Refuse, Registration!LoadIntent
  <1>4. \/ registrar'[p].pc = "refused" /\ registrar'[p].sha = registrar[p].sha /\
          registrar'[p].key = registrar[p].key
        \/ registrar'[p].pc = "planned" /\ registrar'[p].sha = registrar[p].sha /\ registrar'[p].key = owner /\
          Registration!DurableHome = Storage[p]
    BY <1>2 DEF Registration!Proc, Registration!Goto, Registration!Planned, Registration!Refuse,
         Registration!LoadIntent
  <1>5. registrar[p].pc = "asked" /\ intent # None
    BY DEF Registration!At, Registration!LoadIntent
  <1>6. UNCHANGED <<owner, intent, registered, tree, crashes>>
    BY DEF Registration!LoadIntent
  <1>7. /\ \A q \in Registrars : q # p => requests'[q] = requests[q]
        /\ requests'[p] \in {requests[p], Registration!Absent, owner}
    BY <1>2 DEF Registration!Refuse, Registration!Link, Registration!LoadIntent
  <1>8. registrar' \in [Registrars -> Registration!Proc]
    BY <1>2 DEF Registration!Proc, Registration!Goto, Registration!Planned, Registration!Refuse,
         Registration!LoadIntent
  <1>9. requests' \in [Registrars -> Registration!Absent..MaxKey]
    BY <1>1, <1>2 DEF Registration!Absent, Registration!Keys, RowsAgree, Registration!Refuse, Registration!Link,
         Registration!LoadIntent
  <1>10. Registration!TypeOK'
    BY <1>1, <1>6, <1>8, <1>9 DEF Registration!TypeOK
  <1>11. RowsAgree'
    BY <1>1, <1>6 DEF RowsAgree
  <1>12. KeysAgree'
    BY <1>1, <1>3, <1>4, <1>5, <1>6, <1>7 DEF KeysAgree, RowsAgree, Registration!Absent, Registration!Keys
  <1>13. HomesAgree'
    BY <1>1, <1>3, <1>4, <1>6 DEF HomesAgree, Registration!DurableHome
  <1>14. FenceAlone'
    BY <1>1, <1>3, <1>4, <1>6 DEF FenceAlone
  <1>15. SeenSha'
    BY <1>1, <1>3, <1>4 DEF SeenSha
  <1>16. TreeBacked'
    BY <1>1, <1>6, BackedSame
  <1>17. SyncedComplete'
    BY <1>1, <1>3, <1>4, <1>6, CompleteSame DEF SyncedComplete
  <1>18. Registration!ReadyIsExact'
    BY <1>1, <1>6 DEF Registration!ReadyIsExact
  <1> QED BY <1>10, <1>11, <1>12, <1>13, <1>14, <1>15, <1>16, <1>17, <1>18 DEF ProvisionInv

\* FindNothing (nothing is reserved) keeps the invariant.
LEMMA FindNothingKeeps ==
  ASSUME Registration!ConstantsOK, ProvisionInv, NEW p \in Registrars, Registration!FindNothing(p)
  PROVE  ProvisionInv'
  <1>1. /\ Registration!TypeOK /\ RowsAgree /\ KeysAgree /\ HomesAgree /\ FenceAlone /\ SeenSha /\ TreeBacked
        /\ SyncedComplete
        /\ Registration!ReadyIsExact
    BY DEF ProvisionInv
  <1>2. /\ registrar \in [Registrars -> Registration!Proc] /\ registrar[p] \in Registration!Proc
        /\ requests \in [Registrars -> Registration!Absent..MaxKey]
        /\ owner \in Registration!Keys \cup {None} /\ MaxKey \in Nat /\ crashes \in 0..MaxCrash /\ MaxCrash \in Nat
    BY <1>1 DEF Registration!TypeOK, Registration!ConstantsOK
  <1>3. \A q \in Registrars : q # p => registrar'[q] = registrar[q]
    BY DEF Registration!Goto, Registration!FindNothing
  <1>4. registrar'[p].pc = "reserving" /\ registrar'[p].sha = registrar[p].sha /\ registrar'[p].key = registrar[p].key
    BY <1>2 DEF Registration!Goto, Registration!FindNothing
  <1>5. registrar[p].pc = "asked"
    BY DEF Registration!At, Registration!FindNothing
  <1>6. UNCHANGED <<owner, intent, registered, tree, crashes>>
    BY DEF Registration!FindNothing
  <1>7. requests' = requests
    BY DEF Registration!FindNothing
  <1>8. registrar' \in [Registrars -> Registration!Proc]
    BY <1>2 DEF Registration!Proc, Registration!Goto, Registration!FindNothing
  <1>9. requests' \in [Registrars -> Registration!Absent..MaxKey]
    BY <1>2 DEF Registration!FindNothing
  <1>10. Registration!TypeOK'
    BY <1>1, <1>6, <1>8, <1>9 DEF Registration!TypeOK
  <1>11. RowsAgree'
    BY <1>1, <1>6 DEF RowsAgree
  <1>12. KeysAgree'
    BY <1>1, <1>3, <1>4, <1>6, <1>7 DEF KeysAgree
  <1>13. HomesAgree'
    BY <1>1, <1>3, <1>4, <1>6 DEF HomesAgree, Registration!DurableHome
  <1>14. FenceAlone'
    BY <1>1, <1>3, <1>4, <1>6 DEF FenceAlone
  <1>15. SeenSha'
    BY <1>1, <1>3, <1>4, <1>5 DEF SeenSha
  <1>16. TreeBacked'
    BY <1>1, <1>6, BackedSame
  <1>17. SyncedComplete'
    BY <1>1, <1>3, <1>4, <1>6, CompleteSame DEF SyncedComplete
  <1>18. Registration!ReadyIsExact'
    BY <1>1, <1>6 DEF Registration!ReadyIsExact
  <1> QED BY <1>10, <1>11, <1>12, <1>13, <1>14, <1>15, <1>16, <1>17, <1>18 DEF ProvisionInv

\* Fence (ProvisioningFence::acquire) keeps the invariant.
LEMMA FenceKeeps ==
  ASSUME Registration!ConstantsOK, ProvisionInv, NEW p \in Registrars, Registration!Fence(p)
  PROVE  ProvisionInv'
  <1>1. /\ Registration!TypeOK /\ RowsAgree /\ KeysAgree /\ HomesAgree /\ FenceAlone /\ SeenSha /\ TreeBacked
        /\ SyncedComplete
        /\ Registration!ReadyIsExact
    BY DEF ProvisionInv
  <1>2. /\ registrar \in [Registrars -> Registration!Proc] /\ registrar[p] \in Registration!Proc
        /\ requests \in [Registrars -> Registration!Absent..MaxKey]
        /\ owner \in Registration!Keys \cup {None} /\ MaxKey \in Nat /\ crashes \in 0..MaxCrash /\ MaxCrash \in Nat
    BY <1>1 DEF Registration!TypeOK, Registration!ConstantsOK
  <1>3. \A q \in Registrars : q # p => registrar'[q] = registrar[q]
    BY DEF Registration!Goto, Registration!Fence
  <1>4. /\ registrar'[p].pc = (IF registered # None THEN "done" ELSE "fenced") /\ registrar'[p].sha = registrar[p].sha
        /\ registrar'[p].key = registrar[p].key
    BY <1>2 DEF Registration!Goto, Registration!Fence
  <1>5. registrar[p].pc = "planned" /\ \A q \in Registrars : registrar[q].pc \notin {"fenced", "synced"}
    BY DEF Registration!At, Registration!Fence
  <1>6. UNCHANGED <<owner, intent, registered, tree, crashes>>
    BY DEF Registration!Fence
  <1>7. requests' = requests
    BY DEF Registration!Fence
  <1>8. registrar' \in [Registrars -> Registration!Proc]
    BY <1>2 DEF Registration!Proc, Registration!Goto, Registration!Fence
  <1>9. requests' \in [Registrars -> Registration!Absent..MaxKey]
    BY <1>2 DEF Registration!Fence
  <1>10. Registration!TypeOK'
    BY <1>1, <1>6, <1>8, <1>9 DEF Registration!TypeOK
  <1>11. RowsAgree'
    BY <1>1, <1>6 DEF RowsAgree
  <1>12. KeysAgree'
    BY <1>1, <1>3, <1>4, <1>5, <1>6, <1>7 DEF KeysAgree
  <1>13. HomesAgree'
    BY <1>1, <1>3, <1>4, <1>5, <1>6 DEF HomesAgree, Registration!DurableHome
  <1>14. FenceAlone'
    BY <1>1, <1>3, <1>4, <1>5, <1>6 DEF FenceAlone, RowsAgree, KeysAgree
  <1>15. SeenSha'
    BY <1>1, <1>3, <1>4 DEF SeenSha
  <1>16. TreeBacked'
    BY <1>1, <1>6, BackedSame
  <1>17. SyncedComplete'
    BY <1>3, <1>4, <1>5 DEF SyncedComplete
  <1>18. Registration!ReadyIsExact'
    BY <1>1, <1>6 DEF Registration!ReadyIsExact
  <1> QED BY <1>10, <1>11, <1>12, <1>13, <1>14, <1>15, <1>16, <1>17, <1>18 DEF ProvisionInv

\* Sync (sync_plan_effects) keeps the invariant.
LEMMA SyncKeeps ==
  ASSUME Registration!ConstantsOK, ProvisionInv, NEW p \in Registrars, Registration!Sync(p)
  PROVE  ProvisionInv'
  <1>1. /\ Registration!TypeOK /\ RowsAgree /\ KeysAgree /\ HomesAgree /\ FenceAlone /\ SeenSha /\ TreeBacked
        /\ SyncedComplete
        /\ Registration!ReadyIsExact
    BY DEF ProvisionInv
  <1>2. /\ registrar \in [Registrars -> Registration!Proc] /\ registrar[p] \in Registration!Proc
        /\ requests \in [Registrars -> Registration!Absent..MaxKey]
        /\ owner \in Registration!Keys \cup {None} /\ MaxKey \in Nat /\ crashes \in 0..MaxCrash /\ MaxCrash \in Nat
    BY <1>1 DEF Registration!TypeOK, Registration!ConstantsOK
  <1>3. \A q \in Registrars : q # p => registrar'[q] = registrar[q]
    BY DEF Registration!Goto, Registration!Sync
  <1>4. registrar'[p].pc = "synced" /\ registrar'[p].sha = registrar[p].sha /\ registrar'[p].key = registrar[p].key
    BY <1>2 DEF Registration!Goto, Registration!Sync
  <1>5. registrar[p].pc = "fenced" /\ Registration!Complete(p)
    BY DEF Registration!At, Registration!Sync
  <1>6. UNCHANGED <<owner, intent, registered, tree, crashes>>
    BY DEF Registration!Sync
  <1>7. requests' = requests
    BY DEF Registration!Sync
  <1>8. registrar' \in [Registrars -> Registration!Proc]
    BY <1>2 DEF Registration!Proc, Registration!Goto, Registration!Sync
  <1>9. requests' \in [Registrars -> Registration!Absent..MaxKey]
    BY <1>2 DEF Registration!Sync
  <1>10. Registration!TypeOK'
    BY <1>1, <1>6, <1>8, <1>9 DEF Registration!TypeOK
  <1>11. RowsAgree'
    BY <1>1, <1>6 DEF RowsAgree
  <1>12. KeysAgree'
    BY <1>1, <1>3, <1>4, <1>5, <1>6, <1>7 DEF KeysAgree
  <1>13. HomesAgree'
    BY <1>1, <1>3, <1>4, <1>5, <1>6 DEF HomesAgree, Registration!DurableHome
  <1>14. FenceAlone'
    BY <1>1, <1>3, <1>5, <1>6 DEF FenceAlone
  <1>15. SeenSha'
    BY <1>1, <1>3, <1>4 DEF SeenSha
  <1>16. TreeBacked'
    BY <1>1, <1>6, BackedSame
  <1>17. SyncedComplete'
    BY <1>1, <1>3, <1>4, <1>5, <1>6, CompleteSame DEF SyncedComplete
  <1>18. Registration!ReadyIsExact'
    BY <1>1, <1>6 DEF Registration!ReadyIsExact
  <1> QED BY <1>10, <1>11, <1>12, <1>13, <1>14, <1>15, <1>16, <1>17, <1>18 DEF ProvisionInv

\* Crash (a command that stops) keeps the invariant.
LEMMA CrashKeeps ==
  ASSUME Registration!ConstantsOK, ProvisionInv, NEW p \in Registrars, Registration!Crash(p)
  PROVE  ProvisionInv'
  <1>1. /\ Registration!TypeOK /\ RowsAgree /\ KeysAgree /\ HomesAgree /\ FenceAlone /\ SeenSha /\ TreeBacked
        /\ SyncedComplete
        /\ Registration!ReadyIsExact
    BY DEF ProvisionInv
  <1>2. /\ registrar \in [Registrars -> Registration!Proc] /\ registrar[p] \in Registration!Proc
        /\ requests \in [Registrars -> Registration!Absent..MaxKey]
        /\ owner \in Registration!Keys \cup {None} /\ MaxKey \in Nat /\ crashes \in 0..MaxCrash /\ MaxCrash \in Nat
    BY <1>1 DEF Registration!TypeOK, Registration!ConstantsOK
  <1>3. \A q \in Registrars : q # p => registrar'[q] = registrar[q]
    BY DEF Registration!Goto, Registration!Crash
  <1>4. registrar'[p].pc = "idle" /\ registrar'[p].sha = registrar[p].sha /\ registrar'[p].key = registrar[p].key
    BY <1>2 DEF Registration!Goto, Registration!Crash
  <1>5. TRUE
    OBVIOUS
  <1>6. UNCHANGED <<owner, intent, registered, tree>> /\ crashes' \in 0..MaxCrash
    BY <1>2 DEF Registration!Crash
  <1>7. requests' = requests
    BY DEF Registration!Crash
  <1>8. registrar' \in [Registrars -> Registration!Proc]
    BY <1>2 DEF Registration!Proc, Registration!Goto, Registration!Crash
  <1>9. requests' \in [Registrars -> Registration!Absent..MaxKey]
    BY <1>2 DEF Registration!Crash
  <1>10. Registration!TypeOK'
    BY <1>1, <1>6, <1>8, <1>9 DEF Registration!TypeOK
  <1>11. RowsAgree'
    BY <1>1, <1>6 DEF RowsAgree
  <1>12. KeysAgree'
    BY <1>1, <1>3, <1>4, <1>6, <1>7 DEF KeysAgree
  <1>13. HomesAgree'
    BY <1>1, <1>3, <1>4, <1>6 DEF HomesAgree, Registration!DurableHome
  <1>14. FenceAlone'
    BY <1>1, <1>3, <1>4, <1>6 DEF FenceAlone
  <1>15. SeenSha'
    BY <1>1, <1>3, <1>4 DEF SeenSha
  <1>16. TreeBacked'
    BY <1>1, <1>6, BackedSame
  <1>17. SyncedComplete'
    BY <1>1, <1>3, <1>4, <1>6, CompleteSame DEF SyncedComplete
  <1>18. Registration!ReadyIsExact'
    BY <1>1, <1>6 DEF Registration!ReadyIsExact
  <1> QED BY <1>10, <1>11, <1>12, <1>13, <1>14, <1>15, <1>16, <1>17, <1>18 DEF ProvisionInv

\* Preflight (PreflightedProvision::capture) keeps the invariant.
LEMMA PreflightKeeps ==
  ASSUME Registration!ConstantsOK, ProvisionInv, NEW p \in Registrars, Registration!Preflight(p)
  PROVE  ProvisionInv'
  <1>1. /\ Registration!TypeOK /\ RowsAgree /\ KeysAgree /\ HomesAgree /\ FenceAlone /\ SeenSha /\ TreeBacked
        /\ SyncedComplete
        /\ Registration!ReadyIsExact
    BY DEF ProvisionInv
  <1>2. /\ registrar \in [Registrars -> Registration!Proc] /\ registrar[p] \in Registration!Proc
        /\ requests \in [Registrars -> Registration!Absent..MaxKey]
        /\ owner \in Registration!Keys \cup {None} /\ MaxKey \in Nat /\ crashes \in 0..MaxCrash /\ MaxCrash \in Nat
    BY <1>1 DEF Registration!TypeOK, Registration!ConstantsOK
  <1>3. \A q \in Registrars : q # p => registrar'[q] = registrar[q]
    BY <1>2 DEF Registration!Preflight
  <1>4. registrar'[p].pc = "preflighted" /\ registrar'[p].sha \in Shas /\ registrar'[p].key = registrar[p].key
    BY <1>2 DEF Registration!Preflight
  <1>5. registrar[p].pc = "idle"
    BY DEF Registration!At, Registration!Preflight
  <1>6. UNCHANGED <<owner, intent, registered, tree, crashes>>
    BY DEF Registration!Preflight
  <1>7. requests' = requests
    BY DEF Registration!Preflight
  <1>8. registrar' \in [Registrars -> Registration!Proc]
    <2>1. PICK s \in Shas : registrar' = [registrar EXCEPT ![p].pc = "preflighted", ![p].sha = s]
      BY DEF Registration!Preflight
    <2>2. [registrar[p] EXCEPT !.pc = "preflighted", !.sha = s] \in Registration!Proc
      BY <1>2 DEF Registration!Proc
    <2> QED BY <1>2, <2>1, <2>2
  <1>9. requests' \in [Registrars -> Registration!Absent..MaxKey]
    BY <1>2 DEF Registration!Preflight
  <1>10. Registration!TypeOK'
    BY <1>1, <1>6, <1>8, <1>9 DEF Registration!TypeOK
  <1>11. RowsAgree'
    BY <1>1, <1>6 DEF RowsAgree
  <1>12. KeysAgree'
    BY <1>1, <1>3, <1>4, <1>6, <1>7 DEF KeysAgree
  <1>13. HomesAgree'
    BY <1>1, <1>3, <1>4, <1>6 DEF HomesAgree, Registration!DurableHome
  <1>14. FenceAlone'
    BY <1>1, <1>3, <1>4, <1>6 DEF FenceAlone
  <1>15. SeenSha'
    BY <1>1, <1>3, <1>4 DEF SeenSha
  <1>16. TreeBacked'
    BY <1>1, <1>6, BackedSame
  <1>17. SyncedComplete'
    BY <1>1, <1>3, <1>4, <1>6, CompleteSame DEF SyncedComplete
  <1>18. Registration!ReadyIsExact'
    BY <1>1, <1>6 DEF Registration!ReadyIsExact
  <1> QED BY <1>10, <1>11, <1>12, <1>13, <1>14, <1>15, <1>16, <1>17, <1>18 DEF ProvisionInv

\* StagingDirectory (ensure_staging_directory) keeps the invariant.
LEMMA StagingDirectoryKeeps ==
  ASSUME Registration!ConstantsOK, ProvisionInv, NEW p \in Registrars, Registration!StagingDirectory(p)
  PROVE  ProvisionInv'
  <1>1. /\ intent # None /\ intent \in Registration!Intent /\ Registration!T(p) = tree[owner]
        /\ Registration!T(p) \in Registration!Tree /\ Backed(Registration!T(p))
    BY FencedTree DEF Registration!At, Registration!StagingDirectory
  <1> DEFINE t == [Registration!T(p) EXCEPT !.at = "staging", !.stage = Registration!Directory]
  <1>2. t \in Registration!Tree
    <2>1. Registration!Directory \in 0..8
      BY DEF Registration!Directory
    <2> QED BY <1>1, <2>1 DEF Registration!Tree
  <1>3. Backed(t)
    BY DEF Registration!StagingDirectory, Backed, Registration!EffectsHold, Registration!BindingHolds,
         Registration!Directory, Registration!Object
  <1>4. t.at # "nowhere"
    OBVIOUS
  <1> QED BY <1>2, <1>3, <1>4, EffectKeeps DEF Registration!StagingDirectory

\* Stage (initialize_git, configure_remote, fetch_target, checkout_target) keeps the invariant.
LEMMA StageKeeps ==
  ASSUME Registration!ConstantsOK, ProvisionInv, NEW p \in Registrars, Registration!Stage(p)
  PROVE  ProvisionInv'
  <1>1. /\ intent # None /\ intent \in Registration!Intent /\ Registration!T(p) = tree[owner]
        /\ Registration!T(p) \in Registration!Tree /\ Backed(Registration!T(p))
    BY FencedTree DEF Registration!At, Registration!Stage
  <1> DEFINE t == [Registration!T(p) EXCEPT !.stage = @ + 1,
    !.sha = IF Registration!T(p).stage + 1 >= Registration!Object THEN intent.sha ELSE @]
  <1>2. t \in Registration!Tree
    <2>1. Registration!T(p).stage + 1 \in 0..8
      BY <1>1 DEF Registration!Stage, Registration!Tree, Registration!Goal, Registration!GitReady,
           Registration!RemoteReady, Registration!Object, Registration!Clean
    <2>2. (IF Registration!T(p).stage + 1 >= Registration!Object THEN intent.sha ELSE Registration!T(p).sha) \in Shas \cup {None}
      BY <1>1 DEF Registration!Tree, Registration!Intent
    <2> QED BY <1>1, <2>1, <2>2 DEF Registration!Tree
  <1>3. Backed(t)
    BY <1>1 DEF Registration!Stage, Registration!Tree, Registration!Goal, Backed, Registration!EffectsHold,
         Registration!BindingHolds, Registration!Relocated, Registration!InPlace, Registration!Directory,
       Registration!GitReady, Registration!RemoteReady, Registration!Object
  <1>4. t.at # "nowhere"
    BY <1>1 DEF Registration!Stage, Registration!Goal, Backed, Registration!EffectsHold
  <1> QED BY <1>2, <1>3, <1>4, EffectKeeps DEF Registration!Stage

\* PublishRoot (publish_root) keeps the invariant.
LEMMA PublishRootKeeps ==
  ASSUME Registration!ConstantsOK, ProvisionInv, NEW p \in Registrars, Registration!PublishRoot(p)
  PROVE  ProvisionInv'
  <1>1. /\ intent # None /\ intent \in Registration!Intent /\ Registration!T(p) = tree[owner]
        /\ Registration!T(p) \in Registration!Tree /\ Backed(Registration!T(p))
    BY FencedTree DEF Registration!At, Registration!PublishRoot
  <1> DEFINE t == [Registration!T(p) EXCEPT !.at = "root"]
  <1>2. t \in Registration!Tree
    BY <1>1 DEF Registration!Tree
  <1>3. Backed(t)
    BY <1>1 DEF Registration!PublishRoot, Backed, Registration!EffectsHold, Registration!Relocated,
         Registration!GoodGit
  <1>4. t.at # "nowhere"
    OBVIOUS
  <1> QED BY <1>2, <1>3, <1>4, EffectKeeps DEF Registration!PublishRoot

\* CopyPolicy (copy_policy) keeps the invariant.
LEMMA CopyPolicyKeeps ==
  ASSUME Registration!ConstantsOK, ProvisionInv, NEW p \in Registrars, Registration!CopyPolicy(p)
  PROVE  ProvisionInv'
  <1>1. /\ intent # None /\ intent \in Registration!Intent /\ Registration!T(p) = tree[owner]
        /\ Registration!T(p) \in Registration!Tree /\ Backed(Registration!T(p))
    BY FencedTree DEF Registration!At, Registration!CopyPolicy
  <1> DEFINE t == [Registration!T(p) EXCEPT !.policy = TRUE]
  <1>2. t \in Registration!Tree
    BY <1>1 DEF Registration!Tree
  <1>3. Backed(t)
    BY <1>1 DEF Backed, Registration!EffectsHold, Registration!BindingHolds, Registration!Relocated,
         Registration!GoodGit, Registration!InPlace
  <1>4. t.at # "nowhere"
    BY <1>1 DEF Registration!CopyPolicy, Backed, Registration!EffectsHold
  <1> QED BY <1>2, <1>3, <1>4, EffectKeeps DEF Registration!CopyPolicy

\* WriteOwnerMarker (write_owner_marker) keeps the invariant.
LEMMA WriteOwnerMarkerKeeps ==
  ASSUME Registration!ConstantsOK, ProvisionInv, NEW p \in Registrars, Registration!WriteOwnerMarker(p)
  PROVE  ProvisionInv'
  <1>1. /\ intent # None /\ intent \in Registration!Intent /\ Registration!T(p) = tree[owner]
        /\ Registration!T(p) \in Registration!Tree /\ Backed(Registration!T(p))
    BY FencedTree DEF Registration!At, Registration!WriteOwnerMarker
  <1> DEFINE t == [Registration!T(p) EXCEPT !.owner = TRUE]
  <1>2. t \in Registration!Tree
    BY <1>1 DEF Registration!Tree
  <1>3. Backed(t)
    BY <1>1 DEF Backed, Registration!EffectsHold, Registration!BindingHolds, Registration!Relocated,
         Registration!GoodGit, Registration!InPlace
  <1>4. t.at # "nowhere"
    BY <1>1 DEF Registration!WriteOwnerMarker, Backed, Registration!EffectsHold
  <1> QED BY <1>2, <1>3, <1>4, EffectKeeps DEF Registration!WriteOwnerMarker

\* ProvisionRift (provision_rift) keeps the invariant.
LEMMA ProvisionRiftKeeps ==
  ASSUME Registration!ConstantsOK, ProvisionInv, NEW p \in Registrars, Registration!ProvisionRift(p)
  PROVE  ProvisionInv'
  <1>1. /\ intent # None /\ intent \in Registration!Intent /\ Registration!T(p) = tree[owner]
        /\ Registration!T(p) \in Registration!Tree /\ Backed(Registration!T(p))
    BY FencedTree DEF Registration!At, Registration!ProvisionRift
  <1>2. PICK t \in Registration!Tree : /\ Registration!Effect(p, t)
                                       /\ t.at = Registration!T(p).at /\ t.stage = Registration!T(p).stage
                                       /\ t.sha = Registration!T(p).sha
                                       /\ t.policy = Registration!T(p).policy /\ t.owner = Registration!T(p).owner
                                       /\ t.children = Registration!T(p).children
                                       /\ t.row \/ t.inode = Registration!T(p).inode
                                       /\ Registration!T(p).row => t.row
    <2>1. CASE Registration!T(p).row
      <3> DEFINE t == [Registration!T(p) EXCEPT !.marker = TRUE]
      <3>1. t \in Registration!Tree
        BY <1>1 DEF Registration!Tree
      <3>2. /\ t.at = Registration!T(p).at /\ t.stage = Registration!T(p).stage /\ t.sha = Registration!T(p).sha
            /\ t.policy = Registration!T(p).policy /\ t.owner = Registration!T(p).owner
            /\ t.children = Registration!T(p).children
            /\ t.row = Registration!T(p).row
        OBVIOUS
      <3> QED BY <2>1, <3>1, <3>2 DEF Registration!ProvisionRift
    <2>2. CASE ~Registration!T(p).row
      <3>1. PICK r \in BOOLEAN, m \in BOOLEAN, i \in {Registration!T(p).inode, 1} :
              /\ r \/ i = Registration!T(p).inode
              /\ Registration!Effect(p, [Registration!T(p) EXCEPT !.row = r, !.marker = m, !.inode = i])
        BY <2>2 DEF Registration!ProvisionRift
      <3> DEFINE t == [Registration!T(p) EXCEPT !.row = r, !.marker = m, !.inode = i]
      <3>2. t \in Registration!Tree
        <4>1. i \in 0..1
          BY <1>1 DEF Registration!Tree
        <4> QED BY <1>1, <4>1 DEF Registration!Tree
      <3>3. /\ t.at = Registration!T(p).at /\ t.stage = Registration!T(p).stage /\ t.sha = Registration!T(p).sha
            /\ t.policy = Registration!T(p).policy /\ t.owner = Registration!T(p).owner
            /\ t.children = Registration!T(p).children
            /\ t.row = r /\ t.inode = i
        OBVIOUS
      <3> QED BY <2>2, <3>1, <3>2, <3>3
    <2> QED BY <2>1, <2>2
  <1>3. intent.phase = "policy_published"
    BY <1>1 DEF Registration!ProvisionRift, Backed
  <1>4. Backed(t) /\ t.at # "nowhere"
    BY <1>1, <1>2, <1>3 DEF Backed, Registration!EffectsHold, Registration!BindingHolds, Registration!Relocated,
         Registration!GoodGit, Registration!InPlace
  <1> QED BY <1>2, <1>4, EffectKeeps DEF Registration!ProvisionRift

\* ProvisionChild (provision_child_roots) keeps the invariant.
LEMMA ProvisionChildKeeps ==
  ASSUME Registration!ConstantsOK, ProvisionInv, NEW p \in Registrars, Registration!ProvisionChild(p)
  PROVE  ProvisionInv'
  <1>1. /\ intent # None /\ intent \in Registration!Intent /\ Registration!T(p) = tree[owner]
        /\ Registration!T(p) \in Registration!Tree /\ Backed(Registration!T(p))
    BY FencedTree DEF Registration!At, Registration!ProvisionChild
  <1>2. PICK c \in Registration!Children : Registration!Effect(p, [Registration!T(p) EXCEPT !.children = @ \cup {c}])
    BY DEF Registration!ProvisionChild
  <1> DEFINE t == [Registration!T(p) EXCEPT !.children = @ \cup {c}]
  <1>3. t \in Registration!Tree
    BY <1>1 DEF Registration!Tree
  <1>4. Backed(t) /\ t.at # "nowhere"
    BY <1>1 DEF Registration!ProvisionChild, Backed, Registration!EffectsHold, Registration!BindingHolds,
         Registration!Relocated, Registration!GoodGit, Registration!InPlace
  <1> QED BY <1>2, <1>3, <1>4, EffectKeeps DEF Registration!ProvisionChild

\* A complete effect gives what the next phase asks of the directory.
LEMMA AdvanceBacked ==
  ASSUME Registration!ConstantsOK, ProvisionInv, NEW p \in Registrars, Registration!Advance(p)
  PROVE  intent' \in Registration!Intent /\ intent'.home = intent.home /\ TreeBacked'
  <1>1. /\ intent # None /\ intent \in Registration!Intent /\ Registration!T(p) = tree[owner]
        /\ Registration!T(p) \in Registration!Tree /\ Backed(Registration!T(p))
        /\ Registration!Complete(p)
    BY FencedTree DEF Registration!Advance, Registration!At, ProvisionInv, SyncedComplete
  <1>2. UNCHANGED <<owner, tree>>
    BY DEF Registration!Advance
  <1>3. PICK n \in 1..11 : intent.phase = Registration!Phases[n]
    <2>1. intent.phase \in Registration!Phase /\ intent.phase # "child_roots_published"
      BY <1>1 DEF Registration!Advance, Registration!Intent
    <2>2. PICK n \in DOMAIN Registration!Phases : intent.phase = Registration!Phases[n]
      BY <2>1 DEF Registration!Phase
    <2> QED BY <2>1, <2>2, PhaseOrder
  <1>4. intent' = [intent EXCEPT !.phase = Registration!Phases[n + 1], !.binding = Registration!NextBinding(p)]
    BY <1>3, NextPhaseIs DEF Registration!Advance, Registration!UpdateLifecycle
  <1>5. /\ intent'.phase = Registration!Phases[n + 1] /\ intent'.binding = Registration!NextBinding(p)
        /\ intent'.sha = intent.sha /\ intent'.home = intent.home
    BY <1>4
  <1>6. intent' \in Registration!Intent
    <2>1. Registration!Phases[n + 1] \in Registration!Phase
      <3>1. n + 1 \in DOMAIN Registration!Phases
        BY PhaseOrder
      <3> QED BY <3>1 DEF Registration!Phase
    <2>2. intent.phase \in {"staging_directory", "target_checked_out", "policy_published"} =>
            Registration!T(p).at # "nowhere"
      BY <1>1 DEF Backed, Registration!EffectsHold
    <2>3. Registration!NextBinding(p) \in Registration!Binding \cup {None}
      BY <1>1, <2>2 DEF Registration!NextBinding, Registration!Intent, Registration!Tree, Registration!Binding
    <2> QED BY <1>1, <1>4, <2>1, <2>3 DEF Registration!Intent
  <1> DEFINE t == tree[owner]
  <1>7. /\ t \in Registration!Tree /\ t' = t
        /\ intent.phase \in {"staging_directory", "target_checked_out", "policy_published"} =>
             intent'.binding # None /\ intent'.binding.at = t.at /\ intent'.binding.inode = t.inode
    <2>1. ASSUME intent.phase \in {"staging_directory", "target_checked_out", "policy_published"}
          PROVE  intent'.binding = [at |-> t.at, inode |-> t.inode] /\ t.at # "nowhere"
      BY <1>1, <1>5, <2>1 DEF Registration!NextBinding, Backed, Registration!EffectsHold
    <2>2. t.at # "nowhere" => [at |-> t.at, inode |-> t.inode] \in Registration!Binding
      BY <1>1 DEF Registration!Tree, Registration!Binding
    <2> QED BY <1>1, <1>2, <2>1, <2>2 DEF Registration!ConstantsOK
  <1>8. CASE n = 1
    <2>1. intent.phase = Registration!Phases[1] /\ intent'.phase = Registration!Phases[2]
      BY <1>3, <1>5, <1>8
    <2>2. Backed(t)'
      BY <1>1, <1>5, <1>7, <2>1, PhaseOrder DEF Registration!Complete, Registration!Goal, Backed,
           Registration!EffectsHold, Registration!BindingHolds
    <2> QED BY <1>5, <1>6, <2>2 DEF TreeBacked
  <1>9. CASE n = 2
    <2>1. intent.phase = Registration!Phases[2] /\ intent'.phase = Registration!Phases[3]
      BY <1>3, <1>5, <1>9
    <2>2. Backed(t)'
      BY <1>1, <1>5, <1>7, <2>1, PhaseOrder DEF Registration!Complete, Registration!Goal, Backed,
           Registration!EffectsHold, Registration!BindingHolds,
         Registration!InPlace
    <2> QED BY <1>5, <1>6, <2>2 DEF TreeBacked
  <1>10. CASE n = 3
    <2>1. intent.phase = Registration!Phases[3] /\ intent'.phase = Registration!Phases[4]
      BY <1>3, <1>5, <1>10
    <2>2. Backed(t)'
      BY <1>1, <1>5, <1>7, <2>1, PhaseOrder DEF Registration!Complete, Registration!NextBinding, Registration!Goal,
           Backed, Registration!EffectsHold,
         Registration!BindingHolds, Registration!Relocated
    <2> QED BY <1>5, <1>6, <2>2 DEF TreeBacked
  <1>11. CASE n = 4
    <2>1. intent.phase = Registration!Phases[4] /\ intent'.phase = Registration!Phases[5]
      BY <1>3, <1>5, <1>11
    <2>2. Backed(t)'
      BY <1>1, <1>5, <1>7, <2>1, PhaseOrder DEF Registration!Complete, Registration!NextBinding, Registration!Goal,
           Backed, Registration!EffectsHold,
         Registration!BindingHolds, Registration!Relocated
    <2> QED BY <1>5, <1>6, <2>2 DEF TreeBacked
  <1>12. CASE n = 5
    <2>1. intent.phase = Registration!Phases[5] /\ intent'.phase = Registration!Phases[6]
      BY <1>3, <1>5, <1>12
    <2>2. Backed(t)'
      BY <1>1, <1>5, <1>7, <2>1, PhaseOrder DEF Registration!Tree, Registration!Complete, Registration!NextBinding,
           Registration!Goal, Backed,
         Registration!EffectsHold, Registration!BindingHolds, Registration!Relocated, Registration!GoodGit,
           Registration!Clean
    <2> QED BY <1>5, <1>6, <2>2 DEF TreeBacked
  <1>13. CASE n = 6
    <2>1. intent.phase = Registration!Phases[6] /\ intent'.phase = Registration!Phases[7]
      BY <1>3, <1>5, <1>13
    <2>2. Backed(t)'
      BY <1>1, <1>5, <1>7, <2>1, PhaseOrder DEF Registration!Complete, Backed, Registration!EffectsHold,
           Registration!BindingHolds,
         Registration!GoodGit, Registration!InPlace
    <2> QED BY <1>5, <1>6, <2>2 DEF TreeBacked
  <1>14. CASE n = 7
    <2>1. intent.phase = Registration!Phases[7] /\ intent'.phase = Registration!Phases[8]
      BY <1>3, <1>5, <1>14
    <2>2. Backed(t)'
      BY <1>1, <1>5, <1>7, <2>1, PhaseOrder DEF Registration!Complete, Registration!NextBinding, Backed,
           Registration!EffectsHold,
         Registration!BindingHolds, Registration!Relocated, Registration!GoodGit
    <2> QED BY <1>5, <1>6, <2>2 DEF TreeBacked
  <1>15. CASE n = 8
    <2>1. intent.phase = Registration!Phases[8] /\ intent'.phase = Registration!Phases[9]
      BY <1>3, <1>5, <1>15
    <2>2. Backed(t)'
      BY <1>1, <1>5, <1>7, <2>1, PhaseOrder DEF Registration!Complete, Backed, Registration!EffectsHold,
           Registration!BindingHolds,
         Registration!GoodGit, Registration!InPlace
    <2> QED BY <1>5, <1>6, <2>2 DEF TreeBacked
  <1>16. CASE n = 9
    <2>1. intent.phase = Registration!Phases[9] /\ intent'.phase = Registration!Phases[10]
      BY <1>3, <1>5, <1>16
    <2>2. Backed(t)'
      BY <1>1, <1>5, <1>7, <2>1, PhaseOrder DEF Registration!NextBinding, Backed, Registration!EffectsHold,
           Registration!BindingHolds,
         Registration!Relocated, Registration!GoodGit
    <2> QED BY <1>5, <1>6, <2>2 DEF TreeBacked
  <1>17. CASE n = 10
    <2>1. intent.phase = Registration!Phases[10] /\ intent'.phase = Registration!Phases[11]
      BY <1>3, <1>5, <1>17
    <2>2. Backed(t)'
      BY <1>1, <1>5, <1>7, <2>1, PhaseOrder DEF Registration!Complete, Registration!NextBinding, Backed,
           Registration!EffectsHold,
         Registration!BindingHolds, Registration!Relocated, Registration!GoodGit
    <2> QED BY <1>5, <1>6, <2>2 DEF TreeBacked
  <1>18. CASE n = 11
    <2>1. intent.phase = Registration!Phases[11] /\ intent'.phase = Registration!Phases[12]
      BY <1>3, <1>5, <1>18
    <2>2. Backed(t)'
      BY <1>1, <1>5, <1>7, <2>1, PhaseOrder DEF Registration!Complete, Registration!NextBinding, Backed,
           Registration!EffectsHold,
         Registration!BindingHolds, Registration!Relocated, Registration!GoodGit
    <2> QED BY <1>5, <1>6, <2>2 DEF TreeBacked
  <1> QED BY <1>8, <1>9, <1>10, <1>11, <1>12, <1>13, <1>14, <1>15, <1>16, <1>17, <1>18

\* Advance (update_lifecycle) keeps the invariant.
LEMMA AdvanceKeeps ==
  ASSUME Registration!ConstantsOK, ProvisionInv, NEW p \in Registrars, Registration!Advance(p)
  PROVE  ProvisionInv'
  <1>1. /\ Registration!TypeOK /\ RowsAgree /\ KeysAgree /\ HomesAgree /\ FenceAlone /\ SeenSha /\ SyncedComplete
        /\ Registration!ReadyIsExact
    BY DEF ProvisionInv
  <1>2. /\ UNCHANGED <<owner, registered, requests, tree, crashes>>
        /\ registrar' = [registrar EXCEPT ![p].pc = "fenced"] /\ registrar[p].pc = "synced"
    BY DEF Registration!Advance, Registration!Goto, Registration!At
  <1>3. intent' \in Registration!Intent /\ intent'.home = intent.home /\ TreeBacked'
    BY AdvanceBacked
  <1>4. intent # None /\ intent' # None /\ registered = None
    BY <1>1, <1>2, <1>3 DEF FenceAlone, RowsAgree, Registration!ConstantsOK
  <1>5. /\ registrar' \in [Registrars -> Registration!Proc] /\ \A q \in Registrars : q # p =>
             registrar'[q] = registrar[q]
        /\ registrar'[p].pc = "fenced" /\ registrar'[p].key = registrar[p].key
    BY <1>1, <1>2 DEF Registration!TypeOK, Registration!Proc
  <1>6. Registration!TypeOK'
    BY <1>1, <1>2, <1>3, <1>5 DEF Registration!TypeOK
  <1>7. RowsAgree'
    BY <1>1, <1>2, <1>4 DEF RowsAgree
  <1>8. KeysAgree'
    BY <1>1, <1>2 DEF KeysAgree
  <1>9. HomesAgree'
    BY <1>1, <1>2, <1>3, <1>4 DEF HomesAgree, Registration!DurableHome
  <1>10. FenceAlone'
    BY <1>1, <1>2, <1>4 DEF FenceAlone
  <1>11. SeenSha'
    BY <1>1, <1>5 DEF SeenSha
  <1>12. SyncedComplete'
    BY <1>1, <1>2, <1>5 DEF SyncedComplete, FenceAlone
  <1>13. Registration!ReadyIsExact'
    BY <1>2, <1>4 DEF Registration!ReadyIsExact
  <1> QED BY <1>3, <1>6, <1>7, <1>8, <1>9, <1>10, <1>11, <1>12, <1>13 DEF ProvisionInv

\* PersistReady (persist_ready) keeps the invariant.
LEMMA PersistReadyKeeps ==
  ASSUME Registration!ConstantsOK, ProvisionInv, NEW p \in Registrars, Registration!PersistReady(p)
  PROVE  ProvisionInv'
  <1>1. /\ Registration!TypeOK /\ RowsAgree /\ KeysAgree /\ HomesAgree /\ FenceAlone /\ SeenSha /\ SyncedComplete
    BY DEF ProvisionInv
  <1>2. /\ UNCHANGED <<owner, requests, tree, crashes>> /\ intent' = None
        /\ registered' = [sha |-> intent.sha, home |-> intent.home]
        /\ registrar' = [registrar EXCEPT ![p].pc = "done"] /\ registrar[p].pc = "synced"
    BY DEF Registration!PersistReady, Registration!Goto, Registration!At
  <1>3. intent # None /\ intent \in Registration!Intent /\ Registration!T(p) = tree[owner] /\ Backed(tree[owner])
    BY <1>2, FencedTree
  <1>4. /\ registered' \in [sha : Shas, home : {Storage[q] : q \in Registrars}]
        /\ registered'.sha = intent.sha /\ registered'.home = intent.home
    BY <1>2, <1>3 DEF Registration!Intent
  <1>5. registered' # None
    BY <1>4 DEF Registration!ConstantsOK
  <1>6. /\ registrar' \in [Registrars -> Registration!Proc] /\ \A q \in Registrars : q # p =>
             registrar'[q] = registrar[q]
        /\ registrar'[p].pc = "done"
    BY <1>1, <1>2 DEF Registration!TypeOK, Registration!Proc
  <1>7. Registration!TypeOK'
    BY <1>1, <1>2, <1>4, <1>6 DEF Registration!TypeOK
  <1>8. RowsAgree'
    BY <1>1, <1>2, <1>3, <1>5 DEF RowsAgree
  <1>9. KeysAgree'
    BY <1>1, <1>2 DEF KeysAgree
  <1>10. HomesAgree'
    BY <1>1, <1>2, <1>3, <1>5 DEF HomesAgree, Registration!DurableHome
  <1>11. FenceAlone'
    BY <1>1, <1>2, <1>6 DEF FenceAlone
  <1>12. SeenSha'
    BY <1>1, <1>6 DEF SeenSha
  <1>13. TreeBacked'
    BY <1>2 DEF TreeBacked
  <1>14. SyncedComplete'
    BY <1>1, <1>2, <1>6 DEF SyncedComplete, FenceAlone
  <1>15. Registration!ReadyIsExact'
    BY <1>3 DEF Registration!ReadyIsExact, Registration!PersistReady, Backed, Registration!EffectsHold,
         Registration!GoodGit
  <1> QED BY <1>7, <1>8, <1>9, <1>10, <1>11, <1>12, <1>13, <1>14, <1>15 DEF ProvisionInv

\* Reserve (reserve_plan) keeps the invariant: a new key, a reservation that is joined, or
\* one that became a registration in between.
LEMMA ReserveKeeps ==
  ASSUME Registration!ConstantsOK, ProvisionInv, NEW p \in Registrars, Registration!Reserve(p)
  PROVE  ProvisionInv'
  <1>1. /\ Registration!TypeOK /\ RowsAgree /\ KeysAgree /\ HomesAgree /\ FenceAlone /\ SeenSha /\ TreeBacked
        /\ SyncedComplete
        /\ Registration!ReadyIsExact
    BY DEF ProvisionInv
  <1>2. /\ registrar \in [Registrars -> Registration!Proc] /\ registrar[p] \in Registration!Proc
        /\ requests \in [Registrars -> Registration!Absent..MaxKey]
        /\ owner \in Registration!Keys \cup {None} /\ MaxKey \in Nat /\ registrar[p].pc = "reserving"
        /\ UNCHANGED <<tree, crashes>>
    BY <1>1 DEF Registration!TypeOK, Registration!ConstantsOK, Registration!Reserve, Registration!At
  <1>3. CASE owner = None /\ Registration!NewReservation(p, Registration!FreshKey)
    <2>1. PICK k \in Registration!Keys :
            /\ owner' = k /\ requests' = [requests EXCEPT ![p] = k] /\ UNCHANGED registered
            /\ intent' = [phase |-> "reserved", sha |-> registrar[p].sha, home |-> Storage[p], binding |-> None]
            /\ registrar' = [registrar EXCEPT ![p].pc = "planned", ![p].key = k]
      BY <1>3 DEF Registration!NewReservation, Registration!Planned
    <2>2. /\ intent' \in Registration!Intent /\ intent'.home = Storage[p] /\ intent'.sha = registrar[p].sha
          /\ intent'.phase = "reserved"
      <3>1. registrar[p].sha \in Shas
        BY <1>1, <1>2 DEF SeenSha
      <3>2. "reserved" \in Registration!Phase
        BY PhaseOrder DEF Registration!Phase
      <3> QED BY <2>1, <3>1, <3>2 DEF Registration!Intent
    <2>3. intent' # None /\ owner' # None /\ registered = None /\ intent = None
      BY <1>1, <1>3, <2>1, <2>2 DEF Registration!ConstantsOK, RowsAgree
    <2>4. [registrar[p] EXCEPT !.pc = "planned", !.key = k] \in Registration!Proc
      BY <1>2 DEF Registration!Proc
    <2>5. /\ registrar' \in [Registrars -> Registration!Proc] /\ \A q \in Registrars : q # p =>
               registrar'[q] = registrar[q]
          /\ registrar'[p].pc = "planned" /\ registrar'[p].key = k
      BY <1>2, <2>1, <2>4
    <2>6. requests' \in [Registrars -> Registration!Absent..MaxKey]
      BY <1>2, <2>1 DEF Registration!Absent, Registration!Keys
    <2>7. \A q \in Registrars : registrar[q].pc \notin {"planned", "fenced", "synced", "done"}
      BY <1>1, <1>3, <2>3 DEF KeysAgree, HomesAgree
    <2>8. tree[k].at = "nowhere" /\ tree[k].stage = Registration!Nothing
      BY <1>1, <1>3 DEF KeysAgree, Registration!ConstantsOK
    <2>9. Registration!TypeOK'
      BY <1>1, <1>2, <2>1, <2>2, <2>5, <2>6 DEF Registration!TypeOK
    <2>10. RowsAgree'
      BY <2>1, <2>3 DEF RowsAgree
    <2>11. KeysAgree'
      BY <1>1, <1>2, <1>3, <2>1 DEF KeysAgree, Registration!ConstantsOK
    <2>12. HomesAgree'
      BY <2>2, <2>3, <2>5, <2>7 DEF HomesAgree, Registration!DurableHome
    <2>13. FenceAlone'
      BY <2>5, <2>7 DEF FenceAlone
    <2>14. SeenSha'
      BY <1>1, <2>5 DEF SeenSha
    <2>15. TreeBacked'
      BY <1>2, <2>1, <2>8 DEF TreeBacked, Backed, Registration!EffectsHold, Registration!BindingHolds,
           Registration!Nothing, Registration!Object
    <2>16. SyncedComplete'
      BY <2>5, <2>7 DEF SyncedComplete
    <2>17. Registration!ReadyIsExact'
      BY <2>1, <2>3 DEF Registration!ReadyIsExact
    <2> QED BY <2>9, <2>10, <2>11, <2>12, <2>13, <2>14, <2>15, <2>16, <2>17 DEF ProvisionInv
  <1>4. CASE ~(owner = None /\ Registration!NewReservation(p, Registration!FreshKey))
    <2>1. /\ UNCHANGED <<owner, intent, registered>>
          /\ \/ registrar' = [registrar EXCEPT ![p].pc = "refused"] \/
               registrar' = [registrar EXCEPT ![p].pc = "idle"]
             \/ /\ registrar' = [registrar EXCEPT ![p].pc = "planned", ![p].key = owner]
                /\ Registration!DurableHome = Storage[p] /\ owner # None
      BY <1>4 DEF Registration!Reserve, Registration!Refuse, Registration!Planned, Registration!Goto
    <2>2. /\ registrar' \in [Registrars -> Registration!Proc] /\ \A q \in Registrars : q # p =>
               registrar'[q] = registrar[q]
          /\ \/ registrar'[p].pc \in {"refused", "idle"}
             \/ registrar'[p].pc = "planned" /\ registrar'[p].key = owner /\ Registration!DurableHome = Storage[p] /\
               owner # None
      BY <1>2, <2>1 DEF Registration!Proc
    <2>3. /\ requests' \in [Registrars -> Registration!Absent..MaxKey]
          /\ \A q \in Registrars : requests'[q] \in {requests[q], Registration!Absent, owner}
      BY <1>2, <1>4 DEF Registration!Reserve, Registration!Refuse, Registration!Link, Registration!Absent,
           Registration!Keys
    <2>4. Registration!TypeOK'
      BY <1>1, <1>2, <2>1, <2>2, <2>3 DEF Registration!TypeOK
    <2>5. KeysAgree'
      BY <1>1, <1>2, <2>1, <2>2, <2>3 DEF KeysAgree, Registration!Absent, Registration!Keys
    <2>6. HomesAgree'
      BY <1>1, <2>1, <2>2 DEF HomesAgree, Registration!DurableHome
    <2>7. FenceAlone'
      BY <1>1, <2>1, <2>2 DEF FenceAlone
    <2>8. SeenSha'
      BY <1>1, <2>2 DEF SeenSha
    <2>9. TreeBacked'
      BY <1>1, <1>2, <2>1, BackedSame
    <2>10. SyncedComplete'
      BY <1>1, <1>2, <2>1, <2>2, CompleteSame DEF SyncedComplete
    <2> QED BY <1>2, <2>1, <2>4, <2>5, <2>6, <2>7, <2>8, <2>9, <2>10 DEF ProvisionInv, RowsAgree,
              Registration!ReadyIsExact
  <1> QED BY <1>3, <1>4

-----------------------------------------------------------------------------
(* The theorem *)

LEMMA ProvisionInit == ASSUME Registration!ConstantsOK, Registration!Init PROVE ProvisionInv
  <1>1. [pc |-> "idle", sha |-> None, key |-> None] \in Registration!Proc
    BY DEF Registration!Proc
  <1>2. [at |-> "nowhere", stage |-> Registration!Nothing, sha |-> None, inode |-> 0, policy |-> FALSE, row |-> FALSE,
         marker |-> FALSE, owner |-> FALSE, children |-> {}] \in Registration!Tree
    BY DEF Registration!Tree, Registration!Nothing
  <1>3. requests \in [Registrars -> Registration!Absent..MaxKey]
    BY DEF Registration!Init, Registration!Absent, Registration!ConstantsOK
  <1>4. Registration!TypeOK
    BY <1>1, <1>2, <1>3 DEF Registration!Init, Registration!TypeOK, Registration!ConstantsOK
  <1>5. \A p \in Registrars : registrar[p].pc = "idle" /\ requests[p] \notin Registration!Keys
    BY DEF Registration!Init, Registration!Absent, Registration!Keys
  <1>6. \A k \in Registration!Keys : tree[k].at = "nowhere" /\ tree[k].stage = Registration!Nothing
    BY DEF Registration!Init
  <1> QED BY <1>4, <1>5 DEF Registration!Init, ProvisionInv, RowsAgree, KeysAgree, HomesAgree, FenceAlone,
            SeenSha, TreeBacked, SyncedComplete, Registration!ReadyIsExact

LEMMA ProvisionNext ==
  ASSUME Registration!ConstantsOK, ProvisionInv, [Registration!Next]_registrationVars
  PROVE  ProvisionInv'
  <1>1. CASE Registration!Next
    <2> PICK p \in Registrars : Registration!Step(p) \/ Registration!Crash(p)
      BY <1>1 DEF Registration!Next
    <2> QED BY PreflightKeeps, AskKeeps, FindReadyKeeps, LoadIntentKeeps, FindNothingKeeps,
              ReserveKeeps, FenceKeeps, StagingDirectoryKeeps, StageKeeps, PublishRootKeeps,
              CopyPolicyKeeps, ProvisionRiftKeeps, WriteOwnerMarkerKeeps, ProvisionChildKeeps,
              SyncKeeps, AdvanceKeeps, PersistReadyKeeps, CrashKeeps DEF Registration!Step
  <1>2. CASE UNCHANGED registrationVars
    <2>1. UNCHANGED <<owner, intent, registered, requests, registrar, tree, crashes>>
      BY <1>2 DEF registrationVars
    <2>2. TreeBacked'
      BY <2>1, BackedSame DEF ProvisionInv
    <2>3. SyncedComplete'
      BY <2>1, CompleteSame DEF ProvisionInv, SyncedComplete
    <2> QED BY <2>1, <2>2, <2>3 DEF ProvisionInv, Registration!TypeOK, RowsAgree, KeysAgree, HomesAgree,
              Registration!DurableHome, FenceAlone, SeenSha, Registration!ReadyIsExact
  <1> QED BY <1>1, <1>2

\* The invariant gives what a registration relies on.
LEMMA ProvisionExact == ASSUME Registration!ConstantsOK, ProvisionInv PROVE Registration!RegistrationExact
  <1>1. /\ Registration!TypeOK /\ RowsAgree /\ KeysAgree /\ HomesAgree /\ TreeBacked /\ Registration!ReadyIsExact
    BY DEF ProvisionInv
  <1>2. Registration!NeverStuck
    BY FencedTree DEF Registration!NeverStuck, Registration!At, Registration!Accepted, Backed
  <1>3. Registration!PhaseBacked
    BY <1>1 DEF Registration!PhaseBacked, TreeBacked, Backed
  <1>4. Registration!OneRepository
    BY <1>1 DEF Registration!OneRepository, KeysAgree
  <1>5. Registration!DoneIsRegistered
    BY <1>1 DEF Registration!DoneIsRegistered, HomesAgree, RowsAgree, Registration!DurableHome, Registration!At
  <1> QED BY <1>1, <1>2, <1>3, <1>4, <1>5 DEF Registration!RegistrationExact


\* RegistrationsAgree: registrations of any number of commands that race, from any storage roots, and that stop at any
\* point of any effect, are never stuck and end in one repository: complete, in the storage root asked for and at the
\* commit reserved first (provision, verify_completed_effects, verify_stored_provisioning_binding, persist_ready).
THEOREM RegistrationsAgree == MCSpec => []RegistrationExact
  <1>1. MCInit => ProvisionInv
    BY PartsAssumption, ProvisionInit DEF MCInit
  <1>2. ProvisionInv /\ [MCNext]_<<part, vars, submissionVars, leaseVars, registrationVars>> => ProvisionInv'
    <2>1. [MCNext]_<<part, vars, submissionVars, leaseVars, registrationVars>> => [Registration!Next]_registrationVars
      BY DEF MCNext
    <2> QED BY <2>1, PartsAssumption, ProvisionNext
  <1>3. ProvisionInv => RegistrationExact
    BY PartsAssumption, ProvisionExact DEF RegistrationExact
  <1> QED BY <1>1, <1>2, <1>3, PTL DEF MCSpec

-----------------------------------------------------------------------------
(* The submissions of a development workspace: one is live, and what is in   *)
(* the queue can be read again, whichever command stops where.               *)
(*                                                                           *)
(* Commands work one at a time under the guard, but read the row before they *)
(* have it; the invariant (SubInv) therefore says what is left when no       *)
(* command has it.  Submissions are numbered in order, so that a new one     *)
(* takes a row nobody used (Numbered); an item and its submission are in     *)
(* states that agree (ItemsAgree); refs are made up to the step of the       *)
(* command that makes them (RefsAt); the row is marked before the Rift goes, *)
(* so that a row that says active or submitted has one (RiftThere,           *)
(* RemovalMarked).                                                           *)

\* The statuses of a workspace that is being removed, or is gone.
Ending == {"cleanup_pending", "cleanup_failed", "removed"}

\* A command at work has the guard, and only it.
GuardExact == \A p \in Developers : command[p].pc \notin {"idle", "submit", "remove"} <=> guard = p

\* Submissions are numbered one after the other, and one that is not used has nothing.
Numbered ==
  /\ \E n \in 0..MaxSub : {s \in Submission!Subs : subs[s].state # "none"} = 1..n
  /\ \A s \in Submission!Subs : subs[s].state = "none" =>
       subs[s].private = Submission!NoCommit /\ subs[s].staging = Submission!NoCommit

\* What a submission is, its item is.
ItemsAgree ==
  \A s \in Submission!Subs :
    /\ subs[s].state \in {"none", "creating"} <=> subItems[s].status = "none"
    /\ subs[s].state = "queued" <=> subItems[s].status \in {"ready", "blocked", "landing"}
    /\ subs[s].state = "integrated" <=> subItems[s].status = "integrated"
    /\ subs[s].state \in {"cancelled", "replaced"} <=> subItems[s].status = "cancelled"

\* One submission is live, and the row of the workspace says so.
LiveRow ==
  /\ \A s, t \in Submission!Subs : Submission!Live(s) /\ Submission!Live(t) => s = t
  /\ \A s \in Submission!Subs : subs[s].state = "queued" => ws.status \in Ending \cup {"submitted"}
  /\ \A s \in Submission!Subs : subs[s].state = "integrated" => ws.status \in Ending
  /\ ~asked => \A s \in Submission!Subs : subs[s].state = "queued" => ws.status = "submitted"

\* The refs of a submission, up to the step of the command that makes them.
RefsAt ==
  /\ \A s \in Submission!Subs : subs[s].private \in {Submission!NoCommit, subs[s].commit}
  /\ \A s \in Submission!Subs : subItems[s].status # "none" =>
       subs[s].private = subs[s].commit /\ subs[s].staging = Submission!NoCommit
  /\ \A p \in Developers : command[p].pc \in {"intent", "staged", "private", "unstaged", "superseded"} =>
       /\ command[p].sub \in Submission!Subs /\ Submission!S(p).state = "creating"
       /\ command[p].pc = "staged" => Submission!S(p).staging = Submission!S(p).commit
       /\ command[p].pc \in {"private", "unstaged", "superseded"} => Submission!S(p).private = Submission!S(p).commit
       /\ command[p].pc \in {"unstaged", "superseded"} => Submission!S(p).staging = Submission!NoCommit

\* The workspace is there from its making to its removal, which has its row marked first.
RiftThere ==
  /\ ws.status \in {"active", "submitted"} => rift.at # "absent"
  /\ ws.status = "removed" => rift.at = "absent"
  /\ ws.status \in {"none", "creating"} => ~ws.identity
  /\ \A p \in Developers : command[p].pc \in {"rift", "branch", "bind"} => ws.status = "creating"
  /\ \A p \in Developers : command[p].pc \in {"branch", "bind"} => rift.at # "absent"

\* A removal works from a row that says so, as the row of the workspace does since.
RemovalMarked ==
  /\ \A p \in Developers : command[p].pc \in {"remove", "removing"} /\ command[p].row.status \in Ending =>
       ws.status \in Ending
  /\ \A p \in Developers : command[p].pc \in {"unlink", "unlinked"} => ws.status \in Ending
  /\ \A p \in Developers : command[p].pc = "unlinked" => rift.at = "absent"

\* Work that goes with the workspace is integrated, or the developer or an operator had it so.
RemovalAllowed ==
  /\ ws.cleanup \in {"operator", "operator_failed"} => asked
  /\ \A p \in Developers :
       command[p].pc \in {"remove", "removing"} /\ command[p].row.cleanup \in {"operator", "operator_failed"} => asked
  /\ \A p \in Developers : command[p].pc = "unlink" /\ rift.at # "absent" =>
       asked \/ late \/ \E s \in Submission!Subs : subs[s].state = "integrated" /\ subs[s].commit = rift.head

\* An intent is made in a repository that is enabled, and is finished before it drains.
IntentEnabled == Submission!Creating # {} => subOp = "enabled"

SubInv ==
  /\ Submission!TypeOK /\ GuardExact /\ Numbered /\ ItemsAgree /\ LiveRow /\ RefsAt /\ RiftThere /\ RemovalMarked
  /\ RemovalAllowed /\ IntentEnabled

\* The steps of a command before it has the guard, and those of a submit that records and keeps its commit.
Waiting == {"idle", "submit", "remove"}
Submitting == {"intent", "staged", "private", "unstaged", "superseded"}

-----------------------------------------------------------------------------
(* Commands and what they leave alone *)

\* The module counts with the operator of its own instance of FiniteSets.
LEMMA SubmissionCounts == \A T : Submission!Cardinality(T) = Cardinality(T)
  BY DEF Submission!Cardinality, Cardinality

LEMMA IdleIs ==
  Submission!ConstantsOK =>
    /\ Submission!Idle \in Submission!Proc /\ Submission!Idle.pc = "idle" /\ Submission!Idle.sub = 0
    /\ Submission!Idle.row = Submission!NoRow
  BY DEF Submission!ConstantsOK, Submission!Idle, Submission!NoRow, Submission!Proc, Submission!Row

LEMMA EnterIs ==
  ASSUME Submission!ConstantsOK, SubInv, NEW p \in Developers, NEW r \in Submission!Proc, Submission!Enter(p, r),
           r.pc \notin Waiting
  PROVE  /\ command' \in [Developers -> Submission!Proc] /\ command'[p] = r /\ \A q \in Developers : q # p =>
           command'[q] = command[q]
         /\ \A q \in Developers : command[q].pc \in Waiting
         /\ guard' \in Developers \cup {None} /\ GuardExact'
  BY DEF Submission!ConstantsOK, SubInv, Submission!TypeOK, Submission!Enter, GuardExact, Waiting

LEMMA LeaveIs ==
  ASSUME Submission!ConstantsOK, SubInv, NEW p \in Developers, Submission!Leave(p), command[p].pc \notin Waiting
  PROVE  /\ command' \in [Developers -> Submission!Proc] /\ command'[p] = Submission!Idle
           /\ \A q \in Developers : q # p => command'[q] = command[q]
         /\ \A q \in Developers : command'[q].pc \in Waiting
         /\ guard' \in Developers \cup {None} /\ GuardExact'
  BY IdleIs DEF Submission!ConstantsOK, SubInv, Submission!TypeOK, Submission!Leave, GuardExact, Waiting

LEMMA GotoIs ==
  ASSUME Submission!ConstantsOK, SubInv, NEW p \in Developers, command[p].pc \notin Waiting, UNCHANGED guard,
         NEW pc \in {"branch", "bind", "staged", "private", "unstaged", "superseded", "unlink", "unlinked"},
           Submission!Goto(p, pc)
  PROVE  /\ command' \in [Developers -> Submission!Proc] /\ command'[p].pc = pc /\ command'[p].sub = command[p].sub
         /\ command'[p].row = command[p].row
         /\ \A q \in Developers : q # p => command'[q] = command[q] /\ command[q].pc \in Waiting
         /\ guard' \in Developers \cup {None} /\ GuardExact'
  <1>1. command \in [Developers -> Submission!Proc] /\ command[p] \in Submission!Proc
    BY DEF SubInv, Submission!TypeOK
  <1>2. /\ command' \in [Developers -> Submission!Proc] /\ command'[p].pc = pc /\ command'[p].sub = command[p].sub
        /\ command'[p].row = command[p].row
    BY <1>1 DEF Submission!Goto, Submission!Proc
  <1>3. \A q \in Developers : q # p => command'[q] = command[q] /\ command[q].pc \in Waiting
    BY DEF Submission!Goto, SubInv, GuardExact, Waiting
  <1> QED BY <1>2, <1>3 DEF SubInv, Submission!TypeOK, GuardExact, Waiting

\* A command that only reads, before it has the guard.
LEMMA WaitIs ==
  ASSUME Submission!ConstantsOK, SubInv, NEW p \in Developers, command[p].pc \in Waiting, UNCHANGED guard,
           NEW r \in Submission!Proc,
         r.pc \in Waiting, command' = [command EXCEPT ![p] = r]
  PROVE  /\ command' \in [Developers -> Submission!Proc] /\ command'[p] = r /\ \A q \in Developers : q # p =>
           command'[q] = command[q]
         /\ guard' \in Developers \cup {None} /\ GuardExact'
  BY DEF SubInv, Submission!TypeOK, GuardExact, Waiting

LEMMA RowsSame ==
  ASSUME SubInv, UNCHANGED <<subs, subItems, subOp>>
  PROVE  Numbered' /\ ItemsAgree' /\ IntentEnabled'
  BY DEF SubInv, Numbered, ItemsAgree, IntentEnabled, Submission!Creating

LEMMA RefsSame ==
  ASSUME SubInv, UNCHANGED <<subs, subItems>>,
         \A q \in Developers : command'[q] = command[q] \/ command'[q].pc \notin Submitting
  PROVE  RefsAt'
  BY DEF SubInv, RefsAt, Submission!S, Submitting

LEMMA LiveSame ==
  ASSUME SubInv, UNCHANGED subs, asked => asked',
         ws'.status = ws.status \/ \A s \in Submission!Subs : ~Submission!Live(s)
  PROVE  LiveRow'
  BY DEF SubInv, LiveRow, Submission!Live

-----------------------------------------------------------------------------
(* The creation of a workspace *)

LEMMA BeginCreateKeeps ==
  ASSUME Submission!ConstantsOK, SubInv, NEW p \in Developers, Submission!BeginCreate(p)
  PROVE  SubInv'
  <1>1. /\ Submission!TypeOK /\ GuardExact /\ LiveRow /\ RefsAt /\ RiftThere /\ RemovalMarked /\ RemovalAllowed
    BY DEF SubInv
  <1> DEFINE r == [Submission!Idle EXCEPT !.pc = "rift"]
  <1>2. r \in Submission!Proc /\ r.pc = "rift"
    BY IdleIs DEF Submission!Proc, Submission!Idle
  <1>3. UNCHANGED <<rift, subs, subItems, subOp, asked, late, edits, subStops, removes>> /\ Submission!Enter(p, r)
    BY DEF Submission!BeginCreate, Submission!bounds
  <1> HIDE DEF r
  <1>4. /\ command' \in [Developers -> Submission!Proc] /\ command'[p].pc = "rift" /\ \A q \in Developers : q # p =>
             command'[q] = command[q]
        /\ \A q \in Developers : command[q].pc \in Waiting
        /\ guard' \in Developers \cup {None} /\ GuardExact'
    BY <1>2, <1>3, EnterIs DEF Waiting
  <1>5. /\ ws' \in Submission!Row /\ ws'.status = "creating" /\ ws.status \in {"none", "creating"}
        /\ root' \in {"base", "moved"}
        /\ ws'.identity = ws.identity /\ ws'.cleanup = ws.cleanup
    BY <1>1 DEF Submission!BeginCreate, Submission!TypeOK, Submission!Row
  <1>6. Submission!TypeOK'
    BY <1>1, <1>3, <1>4, <1>5 DEF Submission!TypeOK
  <1>7. RefsAt'
    BY <1>3, <1>4, RefsSame DEF Submitting
  <1>8. LiveRow'
    BY <1>1, <1>3, <1>5 DEF LiveRow, Submission!Live, Ending
  <1>9. RiftThere'
    BY <1>1, <1>3, <1>4, <1>5 DEF RiftThere, Waiting
  <1>10. RemovalMarked'
    BY <1>1, <1>3, <1>4, <1>5 DEF RemovalMarked, Ending, Waiting
  <1>11. RemovalAllowed'
    BY <1>1, <1>3, <1>4, <1>5 DEF RemovalAllowed
  <1> QED BY <1>3, <1>4, <1>6, <1>7, <1>8, <1>9, <1>10, <1>11, RowsSame DEF SubInv

LEMMA CreateRiftKeeps ==
  ASSUME Submission!ConstantsOK, SubInv, NEW p \in Developers, Submission!CreateRift(p)
  PROVE  SubInv'
  <1>1. /\ Submission!TypeOK /\ GuardExact /\ LiveRow /\ RefsAt /\ RiftThere /\ RemovalMarked /\ RemovalAllowed
    BY DEF SubInv
  <1>2. /\ UNCHANGED <<ws, root, subs, subItems, subOp, guard, asked, late, edits, subStops, removes>>
        /\ Submission!Goto(p, "branch") /\ command[p].pc = "rift"
    BY DEF Submission!CreateRift, Submission!bounds, Submission!At
  <1>3. /\ command' \in [Developers -> Submission!Proc] /\ command'[p].pc = "branch"
             /\ \A q \in Developers : q # p => command'[q] = command[q]
        /\ \A q \in Developers : q # p => command[q].pc \in Waiting
        /\ guard' \in Developers \cup {None} /\ GuardExact'
    BY <1>2, GotoIs DEF Waiting
  <1>4. rift' \in Submission!Rift /\ rift'.at # "absent"
    BY <1>1 DEF Submission!CreateRift, Submission!TypeOK, Submission!Rift, Submission!Commit
  <1>5. ws.status = "creating"
    BY <1>1, <1>2 DEF RiftThere
  <1>6. Submission!TypeOK'
    BY <1>1, <1>2, <1>3, <1>4 DEF Submission!TypeOK
  <1>7. RefsAt'
    BY <1>2, <1>3, RefsSame DEF Submitting
  <1>8. LiveRow'
    BY <1>1, <1>2 DEF LiveRow, Submission!Live
  <1>9. RiftThere'
    BY <1>1, <1>2, <1>3, <1>4, <1>5 DEF RiftThere, Waiting
  <1>10. RemovalMarked'
    BY <1>1, <1>2, <1>3, <1>4, <1>5 DEF RemovalMarked, Ending, Waiting
  <1>11. RemovalAllowed'
    BY <1>1, <1>2, <1>3, <1>4, <1>5 DEF RemovalAllowed, Waiting
  <1> QED BY <1>2, <1>3, <1>6, <1>7, <1>8, <1>9, <1>10, <1>11, RowsSame DEF SubInv

LEMMA CreateBranchKeeps ==
  ASSUME Submission!ConstantsOK, SubInv, NEW p \in Developers, Submission!CreateBranch(p)
  PROVE  SubInv'
  <1>1. /\ Submission!TypeOK /\ GuardExact /\ LiveRow /\ RefsAt /\ RiftThere /\ RemovalMarked /\ RemovalAllowed
    BY DEF SubInv
  <1>2. /\ UNCHANGED <<ws, root, subs, subItems, subOp, guard, asked, late, edits, subStops, removes>>
        /\ Submission!Goto(p, "bind") /\ command[p].pc = "branch"
    BY DEF Submission!CreateBranch, Submission!bounds, Submission!At
  <1>3. /\ command' \in [Developers -> Submission!Proc] /\ command'[p].pc = "bind" /\ \A q \in Developers : q # p =>
             command'[q] = command[q]
        /\ \A q \in Developers : q # p => command[q].pc \in Waiting
        /\ guard' \in Developers \cup {None} /\ GuardExact'
    BY <1>2, GotoIs DEF Waiting
  <1>4. rift' \in Submission!Rift /\ rift'.at # "absent"
    BY <1>1 DEF Submission!CreateBranch, Submission!TypeOK, Submission!Rift
  <1>5. ws.status = "creating"
    BY <1>1, <1>2 DEF RiftThere
  <1>6. Submission!TypeOK'
    BY <1>1, <1>2, <1>3, <1>4 DEF Submission!TypeOK
  <1>7. RefsAt'
    BY <1>2, <1>3, RefsSame DEF Submitting
  <1>8. LiveRow'
    BY <1>1, <1>2 DEF LiveRow, Submission!Live
  <1>9. RiftThere'
    BY <1>1, <1>2, <1>3, <1>4, <1>5 DEF RiftThere, Waiting
  <1>10. RemovalMarked'
    BY <1>1, <1>2, <1>3, <1>4, <1>5 DEF RemovalMarked, Ending, Waiting
  <1>11. RemovalAllowed'
    BY <1>1, <1>2, <1>3, <1>4, <1>5 DEF RemovalAllowed, Waiting
  <1> QED BY <1>2, <1>3, <1>6, <1>7, <1>8, <1>9, <1>10, <1>11, RowsSame DEF SubInv

LEMMA SetIdentityKeeps ==
  ASSUME Submission!ConstantsOK, SubInv, NEW p \in Developers, Submission!SetIdentity(p)
  PROVE  SubInv'
  <1>1. /\ Submission!TypeOK /\ GuardExact /\ LiveRow /\ RefsAt /\ RiftThere /\ RemovalMarked /\ RemovalAllowed
    BY DEF SubInv
  <1>2. /\ UNCHANGED <<rift, root, subs, subItems, subOp, asked, late, edits, subStops, removes>>
        /\ Submission!Leave(p) /\ command[p].pc = "bind"
    BY DEF Submission!SetIdentity, Submission!bounds, Submission!At
  <1>3. /\ command' \in [Developers -> Submission!Proc] /\ command'[p] = Submission!Idle
             /\ \A q \in Developers : q # p => command'[q] = command[q]
        /\ \A q \in Developers : command'[q].pc \in Waiting
        /\ guard' \in Developers \cup {None} /\ GuardExact'
    BY <1>2, LeaveIs DEF Waiting
  <1>4. ws' \in Submission!Row /\ ws'.status = "active" /\ ws.status = "creating" /\ ws'.cleanup = ws.cleanup
    BY <1>1 DEF Submission!SetIdentity, Submission!TypeOK, Submission!Row
  <1>5. rift.at # "absent"
    BY <1>1, <1>2 DEF RiftThere
  <1>6. Submission!TypeOK'
    BY <1>1, <1>2, <1>3, <1>4 DEF Submission!TypeOK
  <1>7. RefsAt'
    BY <1>2, <1>3, RefsSame DEF Submitting, Waiting
  <1>8. LiveRow'
    BY <1>1, <1>2, <1>4 DEF LiveRow, Submission!Live, Ending
  <1>9. RiftThere'
    BY <1>1, <1>2, <1>3, <1>4, <1>5 DEF RiftThere, Waiting
  <1>10. RemovalMarked'
    BY <1>1, <1>2, <1>3, <1>4, IdleIs DEF RemovalMarked, Ending, Waiting
  <1>11. RemovalAllowed'
    BY <1>1, <1>2, <1>3, <1>4, IdleIs DEF RemovalAllowed, Waiting
  <1> QED BY <1>2, <1>3, <1>6, <1>7, <1>8, <1>9, <1>10, <1>11, RowsSame DEF SubInv

-----------------------------------------------------------------------------
(* A submit *)

LEMMA SubmitKeeps ==
  ASSUME Submission!ConstantsOK, SubInv, NEW p \in Developers, NEW n \in Submission!Subs \cup {0},
           Submission!Submit(p, n) PROVE SubInv'
  <1>1. /\ Submission!TypeOK /\ GuardExact /\ LiveRow /\ RefsAt /\ RiftThere /\ RemovalMarked /\ RemovalAllowed
    BY DEF SubInv
  <1> DEFINE r == [Submission!Idle EXCEPT !.pc = "submit", !.sub = n]
  <1>2. r \in Submission!Proc /\ r.pc = "submit"
    BY IdleIs DEF Submission!Proc, Submission!Idle
  <1>3. /\ UNCHANGED <<ws, rift, root, subs, subItems, subOp, guard, asked, late, edits, subStops, removes>>
        /\ command' = [command EXCEPT ![p] = r] /\ command[p].pc = "idle"
    BY DEF Submission!Submit, Submission!bounds, Submission!At
  <1> HIDE DEF r
  <1>4. /\ command' \in [Developers -> Submission!Proc] /\ command'[p].pc = "submit"
             /\ \A q \in Developers : q # p => command'[q] = command[q]
        /\ guard' \in Developers \cup {None} /\ GuardExact'
    BY <1>2, <1>3, WaitIs DEF Waiting
  <1>5. Submission!TypeOK'
    BY <1>1, <1>3, <1>4 DEF Submission!TypeOK
  <1>6. RefsAt'
    BY <1>3, <1>4, RefsSame DEF Submitting
  <1>7. LiveRow' /\ RiftThere' /\ RemovalMarked' /\ RemovalAllowed'
    BY <1>1, <1>3, <1>4 DEF LiveRow, Submission!Live, RiftThere, RemovalMarked, RemovalAllowed
  <1> QED BY <1>3, <1>4, <1>5, <1>6, <1>7, RowsSame DEF SubInv

\* What begins, goes on with or ends the work of a submit, and leaves the rows and the Rift alone.
LEMMA WorkKeeps ==
  ASSUME Submission!ConstantsOK, SubInv, NEW p \in Developers,
         UNCHANGED <<ws, rift, root, subs, subItems, subOp, asked, late, edits, removes>>,
         subStops' \in 0..MaxSubStops, command' \in [Developers -> Submission!Proc], guard' \in Developers \cup {None},
           GuardExact',
         \A q \in Developers : q # p => command'[q] = command[q],
         command'[p].pc \in Submitting \cup {"idle"}, RefsAt'
  PROVE  SubInv'
  <1>1. Submission!TypeOK /\ LiveRow /\ RiftThere /\ RemovalMarked /\ RemovalAllowed
    BY DEF SubInv
  <1>2. Submission!TypeOK'
    BY <1>1 DEF Submission!TypeOK
  <1>3. LiveRow' /\ RiftThere' /\ RemovalMarked' /\ RemovalAllowed'
    BY <1>1 DEF LiveRow, Submission!Live, RiftThere, RemovalMarked, RemovalAllowed, Submitting
  <1> QED BY <1>2, <1>3, RowsSame DEF SubInv

LEMMA ResumeIntentKeeps ==
  ASSUME Submission!ConstantsOK, SubInv, NEW p \in Developers, Submission!ResumeIntent(p)
  PROVE  SubInv'
  <1>1. Submission!TypeOK /\ RefsAt
    BY DEF SubInv
  <1>2. PICK s \in Submission!Creating : Submission!Enter(p, [Submission!Idle EXCEPT !.pc = "intent", !.sub = s])
    BY DEF Submission!ResumeIntent
  <1>3. UNCHANGED <<ws, rift, root, subs, subItems, subOp, asked, late, edits, subStops, removes>>
    BY DEF Submission!ResumeIntent, Submission!bounds
  <1> DEFINE r == [Submission!Idle EXCEPT !.pc = "intent", !.sub = s]
  <1>4. r \in Submission!Proc /\ r.pc = "intent" /\ r.sub = s /\ s \in Submission!Subs /\ subs[s].state = "creating"
    BY IdleIs DEF Submission!Proc, Submission!Idle, Submission!Creating
  <1> HIDE DEF r
  <1>5. /\ command' \in [Developers -> Submission!Proc] /\ command'[p] = r /\ \A q \in Developers : q # p =>
             command'[q] = command[q]
        /\ \A q \in Developers : command[q].pc \in Waiting
        /\ guard' \in Developers \cup {None} /\ GuardExact'
    BY <1>2, <1>4, EnterIs DEF Waiting, r
  <1>6. RefsAt'
    BY <1>1, <1>3, <1>4, <1>5 DEF RefsAt, Submission!S, Waiting
  <1>7. subStops' \in 0..MaxSubStops
    BY <1>1, <1>3 DEF Submission!TypeOK
  <1> QED BY <1>3, <1>4, <1>5, <1>6, <1>7, WorkKeeps DEF Submitting

\* The next submission is one that was not used.
LEMMA NextSub ==
  ASSUME Submission!ConstantsOK, SubInv, NEW s,
           s = Cardinality({t \in Submission!Subs : subs[t].state # "none"}) + 1, s \in Submission!Subs
  PROVE  /\ subs[s].state = "none" /\ subs[s].private = Submission!NoCommit /\ subs[s].staging = Submission!NoCommit
         /\ subItems[s].status = "none"
         /\ {t \in Submission!Subs : subs[t].state # "none"} = 1..(s - 1) /\ s - 1 \in Nat
  <1>1. PICK n \in 0..MaxSub : {t \in Submission!Subs : subs[t].state # "none"} = 1..n
    BY DEF SubInv, Numbered
  <1>2. n \in Nat
    BY <1>1 DEF Submission!ConstantsOK
  <1>3. Cardinality(1..n) = n
    <2>1. Cardinality(1..n) = IF 1 > n THEN 0 ELSE n - 1 + 1
      BY <1>2, FS_Interval
    <2> QED BY <1>2, <2>1
  <1>4. s = n + 1 /\ s - 1 = n
    <2>1. Cardinality({t \in Submission!Subs : subs[t].state # "none"}) = n
      BY <1>1, <1>3
    <2>2. s = n + 1
      BY <2>1
    <2> QED BY <1>2, <2>2
  <1>5. s \notin 1..n
    BY <1>2, <1>4
  <1>6. subs[s].state = "none"
    BY <1>1, <1>5
  <1> QED BY <1>1, <1>2, <1>4, <1>6 DEF SubInv, Numbered, ItemsAgree

LEMMA BeginIntentKeeps ==
  ASSUME Submission!ConstantsOK, SubInv, NEW p \in Developers, Submission!BeginIntent(p)
  PROVE  SubInv'
  <1>1. /\ Submission!TypeOK /\ GuardExact /\ LiveRow /\ RefsAt /\ RiftThere /\ RemovalMarked /\ RemovalAllowed
        /\ Numbered /\ ItemsAgree /\ IntentEnabled
    BY DEF SubInv
  <1> DEFINE s == Cardinality({t \in Submission!Subs : subs[t].state # "none"}) + 1
             r == [Submission!Idle EXCEPT !.pc = "intent", !.sub = s]
             n == command[p].sub
             b == [subs[s] EXCEPT !.state = "creating", !.commit = rift.head, !.replaces = n]
  <1>2. /\ s \in Submission!Subs /\ subOp = "enabled" /\ Submission!Enter(p, r)
        /\ subs' = [subs EXCEPT ![s].state = "creating", ![s].commit = rift.head, ![s].replaces = n]
        /\ UNCHANGED <<ws, rift, root, subItems, subOp, asked, late, edits, subStops, removes>>
    BY SubmissionCounts DEF Submission!BeginIntent, Submission!Intended, Submission!bounds
  <1>3. /\ subs[s].state = "none" /\ subs[s].private = Submission!NoCommit /\ subs[s].staging = Submission!NoCommit
        /\ subItems[s].status = "none"
        /\ {t \in Submission!Subs : subs[t].state # "none"} = 1..(s - 1) /\ s - 1 \in Nat
    BY <1>2, NextSub
  <1> HIDE DEF s
  <1>4. r \in Submission!Proc /\ r.pc = "intent" /\ r.sub = s
    BY <1>2, IdleIs DEF Submission!Proc, Submission!Idle
  <1>5. n \in Submission!Subs \cup {0} /\ rift.head \in Submission!Commit
    BY <1>1 DEF Submission!TypeOK, Submission!Proc, Submission!Rift
  <1> HIDE DEF n, r
  <1>6. /\ b \in Submission!Sub /\ b.state = "creating" /\ b.commit = rift.head /\ b.private = Submission!NoCommit
        /\ b.staging = Submission!NoCommit
    BY <1>1, <1>2, <1>3, <1>5 DEF Submission!TypeOK, Submission!Sub
  <1>7. subs' = [subs EXCEPT ![s] = b]
    BY <1>1, <1>2 DEF Submission!TypeOK, Submission!Sub
  <1> HIDE DEF b
  <1>8. subs' \in [Submission!Subs -> Submission!Sub] /\ subs'[s] = b /\ \A t \in Submission!Subs : t # s =>
          subs'[t] = subs[t]
    BY <1>1, <1>2, <1>6, <1>7 DEF Submission!TypeOK
  <1>9. /\ command' \in [Developers -> Submission!Proc] /\ command'[p] = r /\ \A q \in Developers : q # p =>
             command'[q] = command[q]
        /\ \A q \in Developers : command[q].pc \in Waiting
        /\ guard' \in Developers \cup {None} /\ GuardExact'
    BY <1>2, <1>4, EnterIs DEF Waiting
  <1>10. Submission!TypeOK'
    BY <1>1, <1>2, <1>8, <1>9 DEF Submission!TypeOK
  <1>11. Numbered'
    <2>1. {t \in Submission!Subs : subs'[t].state # "none"} = {t \in Submission!Subs : subs[t].state # "none"} \cup {s}
      BY <1>2, <1>3, <1>6, <1>8
    <2>2. s \in 0..MaxSub /\ (1..(s - 1)) \cup {s} = 1..s
      BY <1>2, <1>3 DEF Submission!Subs, Submission!ConstantsOK
    <2>3. \E m \in 0..MaxSub : {t \in Submission!Subs : subs'[t].state # "none"} = 1..m
      BY <1>3, <2>1, <2>2
    <2> QED BY <1>1, <1>6, <1>8, <2>3 DEF Numbered
  <1>12. ItemsAgree'
    BY <1>1, <1>2, <1>3, <1>6, <1>8 DEF ItemsAgree
  <1>13. LiveRow'
    BY <1>1, <1>2, <1>3, <1>6, <1>8 DEF LiveRow, Submission!Live
  <1>14. RefsAt'
    BY <1>1, <1>2, <1>3, <1>4, <1>6, <1>8, <1>9 DEF RefsAt, Submission!S, Waiting
  <1>15. RiftThere' /\ RemovalMarked'
    BY <1>1, <1>2, <1>4, <1>9 DEF RiftThere, RemovalMarked
  <1>16. RemovalAllowed'
    BY <1>1, <1>2, <1>3, <1>4, <1>6, <1>8, <1>9 DEF RemovalAllowed
  <1>17. IntentEnabled'
    BY <1>2 DEF IntentEnabled
  <1> QED BY <1>9, <1>10, <1>11, <1>12, <1>13, <1>14, <1>15, <1>16, <1>17 DEF SubInv

\* A step of the refs of the submission a command works on.
LEMMA RefStep ==
  ASSUME Submission!ConstantsOK, SubInv, NEW p \in Developers, command[p].pc \in Submitting,
         NEW pc \in {"staged", "private", "unstaged"}, Submission!Goto(p, pc),
         UNCHANGED <<ws, rift, root, subItems, subOp, guard, asked, late, edits, subStops, removes>>,
         NEW b \in Submission!Sub, subs' = [subs EXCEPT ![command[p].sub] = b],
         b.state = Submission!S(p).state, b.commit = Submission!S(p).commit, b.private \in {Submission!NoCommit,
           Submission!S(p).commit},
         pc = "staged" => b.staging = Submission!S(p).commit,
         pc \in {"private", "unstaged"} => b.private = Submission!S(p).commit,
         pc = "unstaged" => b.staging = Submission!NoCommit
  PROVE  SubInv'
  <1>1. /\ Submission!TypeOK /\ GuardExact /\ LiveRow /\ RefsAt /\ RiftThere /\ RemovalMarked /\ RemovalAllowed
        /\ Numbered /\ ItemsAgree /\ IntentEnabled
    BY DEF SubInv
  <1> DEFINE s == command[p].sub
  <1>2. s \in Submission!Subs /\ Submission!S(p) = subs[s] /\ subs[s].state = "creating"
    BY <1>1 DEF RefsAt, Submitting, Submission!S
  <1>3. /\ command' \in [Developers -> Submission!Proc] /\ command'[p].pc = pc /\ command'[p].sub = s
        /\ \A q \in Developers : q # p => command'[q] = command[q] /\ command[q].pc \in Waiting
        /\ guard' \in Developers \cup {None} /\ GuardExact'
    BY GotoIs DEF Waiting, Submitting
  <1> HIDE DEF s
  <1>4. subs' \in [Submission!Subs -> Submission!Sub] /\ subs'[s] = b /\ \A t \in Submission!Subs : t # s =>
          subs'[t] = subs[t]
    BY <1>1, <1>2 DEF Submission!TypeOK, s
  <1>5. Submission!TypeOK'
    BY <1>1, <1>3, <1>4 DEF Submission!TypeOK
  <1>6. \A t \in Submission!Subs : subs'[t].state = subs[t].state /\ subs'[t].commit = subs[t].commit
    BY <1>2, <1>4
  <1>7. Numbered' /\ ItemsAgree' /\ LiveRow' /\ IntentEnabled'
    <2>1. {t \in Submission!Subs : subs'[t].state # "none"} = {t \in Submission!Subs : subs[t].state # "none"}
            /\ Submission!Creating' = Submission!Creating
      BY <1>6 DEF Submission!Creating
    <2>2. Numbered'
      BY <1>1, <1>2, <1>4, <1>6, <2>1 DEF Numbered
    <2> QED BY <1>1, <1>6, <2>1, <2>2 DEF ItemsAgree, LiveRow, Submission!Live, IntentEnabled
  <1>8. RefsAt'
    <2>1. \A t \in Submission!Subs : subs'[t].private \in {Submission!NoCommit, subs'[t].commit}
      BY <1>1, <1>2, <1>4, <1>6 DEF RefsAt
    <2>2. subItems[s].status = "none"
      BY <1>1, <1>2 DEF ItemsAgree
    <2>3. \A t \in Submission!Subs : subItems'[t].status # "none" => subs'[t].private = subs'[t].commit
            /\ subs'[t].staging = Submission!NoCommit
      BY <1>1, <1>4, <2>2 DEF RefsAt
    <2>4. \A q \in Developers : command'[q].pc \in Submitting => q = p
      BY <1>3 DEF Submitting, Waiting
    <2> QED BY <1>2, <1>3, <1>4, <2>1, <2>3, <2>4 DEF RefsAt, Submission!S, Submitting
  <1>9. RiftThere' /\ RemovalMarked' /\ RemovalAllowed'
    BY <1>1, <1>3, <1>6 DEF RiftThere, RemovalMarked, RemovalAllowed
  <1> QED BY <1>3, <1>5, <1>7, <1>8, <1>9 DEF SubInv

LEMMA RefStepFrom ==
  ASSUME Submission!ConstantsOK, SubInv, NEW p \in Developers, command[p].pc \in Submitting
  PROVE  /\ command[p].sub \in Submission!Subs /\ Submission!S(p) \in Submission!Sub
         /\ Submission!S(p) = subs[command[p].sub] /\ Submission!S(p).state = "creating"
         /\ Submission!S(p).commit \in Submission!Commit \cup {Submission!NoCommit}
         /\ Submission!S(p).private \in {Submission!NoCommit, Submission!S(p).commit}
         /\ subItems[command[p].sub].status = "none" /\ subs \in [Submission!Subs -> Submission!Sub]
         /\ command[p].pc = "staged" => Submission!S(p).staging = Submission!S(p).commit
         /\ command[p].pc \in {"private", "unstaged", "superseded"} =>
              Submission!S(p).private = Submission!S(p).commit
         /\ command[p].pc \in {"unstaged", "superseded"} => Submission!S(p).staging = Submission!NoCommit
  BY DEF SubInv, RefsAt, Submitting, Submission!S, Submission!TypeOK, ItemsAgree, Submission!Sub

LEMMA StageRefKeeps ==
  ASSUME Submission!ConstantsOK, SubInv, NEW p \in Developers, Submission!Stage(p)
  PROVE  SubInv'
  <1>1. /\ command[p].pc \in Submitting
        /\ UNCHANGED <<ws, rift, root, subItems, subOp, guard, asked, late, edits, subStops, removes>>
    BY DEF Submission!Stage, Submission!At, Submitting, Submission!bounds
  <1>2. /\ command[p].sub \in Submission!Subs /\ Submission!S(p) \in Submission!Sub
        /\ Submission!S(p) = subs[command[p].sub] /\ Submission!S(p).state = "creating"
        /\ Submission!S(p).commit \in Submission!Commit \cup {Submission!NoCommit}
        /\ Submission!S(p).private \in {Submission!NoCommit, Submission!S(p).commit}
        /\ subs \in [Submission!Subs -> Submission!Sub]
    BY <1>1, RefStepFrom
  <1>3. CASE Submission!S(p).private = Submission!NoCommit
    <2> DEFINE b == [Submission!S(p) EXCEPT !.staging = Submission!S(p).commit]
    <2>1. /\ b \in Submission!Sub /\ b.state = Submission!S(p).state /\ b.commit = Submission!S(p).commit
          /\ b.private = Submission!S(p).private
          /\ b.staging = Submission!S(p).commit
      BY <1>2 DEF Submission!Sub
    <2>2. subs' = [subs EXCEPT ![command[p].sub] = b] /\ Submission!Goto(p, "staged")
      BY <1>2, <1>3 DEF Submission!Stage
    <2> HIDE DEF b
    <2> QED BY <1>1, <1>2, <2>1, <2>2, RefStep
  <1>4. CASE Submission!S(p).private # Submission!NoCommit
    <2>1. subs' = [subs EXCEPT ![command[p].sub] = Submission!S(p)] /\ Submission!Goto(p, "private")
      BY <1>2, <1>4 DEF Submission!Stage
    <2> QED BY <1>1, <1>2, <1>4, <2>1, RefStep
  <1> QED BY <1>3, <1>4

LEMMA PublishKeeps ==
  ASSUME Submission!ConstantsOK, SubInv, NEW p \in Developers, Submission!Publish(p)
  PROVE  SubInv'
  <1>1. /\ command[p].pc \in Submitting /\ command[p].pc = "staged" /\ Submission!Goto(p, "private")
        /\ UNCHANGED <<ws, rift, root, subItems, subOp, guard, asked, late, edits, subStops, removes>>
    BY DEF Submission!Publish, Submission!At, Submitting, Submission!bounds
  <1>2. /\ command[p].sub \in Submission!Subs /\ Submission!S(p) \in Submission!Sub
        /\ Submission!S(p) = subs[command[p].sub] /\ Submission!S(p).staging = Submission!S(p).commit
        /\ Submission!S(p).commit \in Submission!Commit \cup {Submission!NoCommit}
        /\ subs \in [Submission!Subs -> Submission!Sub]
    BY <1>1, RefStepFrom
  <1> DEFINE b == [Submission!S(p) EXCEPT !.private = Submission!S(p).commit]
  <1>3. /\ b \in Submission!Sub /\ b.state = Submission!S(p).state /\ b.commit = Submission!S(p).commit
        /\ b.private = Submission!S(p).commit
    BY <1>2 DEF Submission!Sub
  <1>4. subs' = [subs EXCEPT ![command[p].sub] = b]
    BY <1>2 DEF Submission!Publish
  <1> HIDE DEF b
  <1> QED BY <1>1, <1>3, <1>4, RefStep

LEMMA UnstageKeeps ==
  ASSUME Submission!ConstantsOK, SubInv, NEW p \in Developers, Submission!Unstage(p)
  PROVE  SubInv'
  <1>1. /\ command[p].pc \in Submitting /\ command[p].pc = "private" /\ Submission!Goto(p, "unstaged")
        /\ UNCHANGED <<ws, rift, root, subItems, subOp, guard, asked, late, edits, subStops, removes>>
    BY DEF Submission!Unstage, Submission!At, Submitting, Submission!bounds
  <1>2. /\ command[p].sub \in Submission!Subs /\ Submission!S(p) \in Submission!Sub
        /\ Submission!S(p) = subs[command[p].sub] /\ Submission!S(p).private = Submission!S(p).commit
        /\ subs \in [Submission!Subs -> Submission!Sub]
    BY <1>1, RefStepFrom
  <1> DEFINE b == [Submission!S(p) EXCEPT !.staging = Submission!NoCommit]
  <1>3. /\ b \in Submission!Sub /\ b.state = Submission!S(p).state /\ b.commit = Submission!S(p).commit
        /\ b.private = Submission!S(p).commit
        /\ b.staging = Submission!NoCommit
    BY <1>2 DEF Submission!Sub
  <1>4. subs' = [subs EXCEPT ![command[p].sub] = b]
    BY <1>2 DEF Submission!Unstage
  <1> HIDE DEF b
  <1> QED BY <1>1, <1>3, <1>4, RefStep

\* cancel_local_submission, by whoever cancels: the only live submission ends and the workspace is active.
LEMMA CancelledKeeps ==
  ASSUME Submission!ConstantsOK, SubInv, NEW i \in Submission!Subs, Submission!Cancelled(i), UNCHANGED <<rift, root,
           subOp, asked, late, edits, subStops, removes>>,
         command' \in [Developers -> Submission!Proc], guard' \in Developers \cup {None}, GuardExact',
         \A q \in Developers : command'[q].row = command[q].row /\ command'[q].sub = command[q].sub /\
           (command'[q].pc = command[q].pc \/ (command[q].pc = "unstaged" /\ command'[q].pc = "superseded"))
  PROVE  SubInv'
  <1>1. /\ Submission!TypeOK /\ LiveRow /\ RefsAt /\ RiftThere /\ RemovalMarked /\ RemovalAllowed
        /\ Numbered /\ ItemsAgree /\ IntentEnabled
    BY DEF SubInv
  <1>2. /\ subs[i].state = "queued" /\ ws.status = "submitted" /\ subs' = [subs EXCEPT ![i].state = "cancelled"]
        /\ ws' = [ws EXCEPT !.status = "active", !.cleanup = "pending"]
        /\ subItems' = [subItems EXCEPT ![i].status = "cancelled"]
    BY DEF Submission!Cancelled
  <1>3. /\ subs' \in [Submission!Subs -> Submission!Sub] /\ subs'[i].state = "cancelled"
             /\ \A t \in Submission!Subs : t # i => subs'[t] = subs[t]
        /\ subs'[i].private = subs[i].private /\ subs'[i].staging = subs[i].staging
        /\ subs'[i].commit = subs[i].commit
    BY <1>1, <1>2 DEF Submission!TypeOK, Submission!Sub
  <1>4. subItems' \in [Submission!Subs -> Submission!Item] /\ subItems'[i].status = "cancelled"
          /\ \A t \in Submission!Subs : t # i => subItems'[t] = subItems[t]
    BY <1>1, <1>2 DEF Submission!TypeOK, Submission!Item
  <1>5. ws' \in Submission!Row /\ ws'.status = "active" /\ ws'.cleanup = "pending" /\ ws'.identity = ws.identity
    BY <1>1, <1>2 DEF Submission!TypeOK, Submission!Row
  <1>6. Submission!TypeOK'
    BY <1>1, <1>3, <1>4, <1>5 DEF Submission!TypeOK
  <1>7. Numbered'
    <2>1. {t \in Submission!Subs : subs'[t].state # "none"} = {t \in Submission!Subs : subs[t].state # "none"}
      BY <1>2, <1>3
    <2> QED BY <1>1, <1>2, <1>3, <2>1 DEF Numbered
  <1>8. ItemsAgree'
    BY <1>1, <1>2, <1>3, <1>4 DEF ItemsAgree
  <1>9. LiveRow'
    BY <1>1, <1>2, <1>3, <1>5 DEF LiveRow, Submission!Live
  <1>10. RefsAt'
    <2>1. \A t \in Submission!Subs : subs'[t].private \in {Submission!NoCommit, subs'[t].commit}
      BY <1>1, <1>3 DEF RefsAt
    <2>2. \A t \in Submission!Subs : subItems'[t].status # "none" => subs'[t].private = subs'[t].commit
            /\ subs'[t].staging = Submission!NoCommit
      <3>1. subItems[i].status # "none"
        BY <1>1, <1>2 DEF ItemsAgree
      <3> QED BY <1>1, <1>3, <1>4, <3>1 DEF RefsAt
    <2>3. \A q \in Developers : command[q].pc \in Submitting => command[q].sub # i
      BY <1>1, <1>2 DEF RefsAt, Submission!S, Submitting
    <2> QED BY <1>1, <1>3, <2>1, <2>2, <2>3 DEF RefsAt, Submission!S, Submitting
  <1>11. RiftThere'
    BY <1>1, <1>2, <1>5 DEF RiftThere
  <1>12. RemovalMarked'
    BY <1>1, <1>2, <1>5 DEF RemovalMarked, Ending
  <1>13. RemovalAllowed'
    BY <1>1, <1>2, <1>3, <1>5 DEF RemovalAllowed
  <1>14. IntentEnabled'
    BY <1>1, <1>2, <1>3 DEF IntentEnabled, Submission!Creating
  <1> QED BY <1>6, <1>7, <1>8, <1>9, <1>10, <1>11, <1>12, <1>13, <1>14 DEF SubInv

LEMMA SupersedeKeeps ==
  ASSUME Submission!ConstantsOK, SubInv, NEW p \in Developers, Submission!Supersede(p)
  PROVE  SubInv'
  <1>1. /\ command[p].pc \in Submitting /\ command[p].pc = "unstaged" /\ Submission!Goto(p, "superseded")
        /\ UNCHANGED <<rift, root, subOp, guard, asked, late, edits, subStops, removes>>
    BY DEF Submission!Supersede, Submission!At, Submitting, Submission!bounds
  <1>2. /\ command' \in [Developers -> Submission!Proc] /\ command'[p].pc = "superseded"
        /\ command'[p].sub = command[p].sub
        /\ command'[p].row = command[p].row
        /\ \A q \in Developers : q # p => command'[q] = command[q]
        /\ guard' \in Developers \cup {None} /\ GuardExact'
    BY <1>1, GotoIs DEF Waiting
  <1>3. CASE UNCHANGED <<subs, ws, subItems>>
    <2>1. RefsAt'
      BY <1>1, <1>2, <1>3 DEF SubInv, RefsAt, Submission!S, Submitting
    <2>2. subStops' \in 0..MaxSubStops
      BY <1>1 DEF SubInv, Submission!TypeOK
    <2> QED BY <1>1, <1>2, <1>3, <2>1, <2>2, WorkKeeps DEF Submitting
  <1>4. CASE Submission!S(p).replaces # 0 /\ Submission!Cancelled(Submission!S(p).replaces)
    <2>1. Submission!S(p).replaces \in Submission!Subs
      BY <1>1, <1>4, RefStepFrom DEF Submission!Sub
    <2>2. UNCHANGED <<rift, root, subOp, asked, late, edits, subStops, removes>>
      BY <1>1
    <2>3. \A q \in Developers : command'[q].row = command[q].row /\ command'[q].sub = command[q].sub /\
            (command'[q].pc = command[q].pc \/ (command[q].pc = "unstaged" /\ command'[q].pc = "superseded"))
      BY <1>1, <1>2
    <2> QED BY <1>2, <1>4, <2>1, <2>2, <2>3, CancelledKeeps
  <1> QED BY <1>3, <1>4 DEF Submission!Supersede

LEMMA CancelItemKeeps ==
  ASSUME Submission!ConstantsOK, SubInv, NEW i \in Submission!Subs, Submission!CancelItem(i)
  PROVE  SubInv'
  <1>1. /\ Submission!Cancelled(i)
        /\ UNCHANGED <<rift, root, subOp, guard, command, asked, late, edits, subStops, removes>>
    BY DEF Submission!CancelItem, Submission!bounds
  <1>2. GuardExact' /\ guard' \in Developers \cup {None} /\ command' \in [Developers -> Submission!Proc]
    BY <1>1 DEF SubInv, GuardExact, Submission!TypeOK
  <1>3. UNCHANGED <<rift, root, subOp, asked, late, edits, subStops, removes>>
    BY <1>1
  <1>4. \A q \in Developers : command'[q].row = command[q].row /\ command'[q].sub = command[q].sub /\
          (command'[q].pc = command[q].pc \/ (command[q].pc = "unstaged" /\ command'[q].pc = "superseded"))
    BY <1>1
  <1> QED BY <1>1, <1>2, <1>3, <1>4, CancelledKeeps

LEMMA FinalizeKeeps ==
  ASSUME Submission!ConstantsOK, SubInv, NEW p \in Developers, Submission!Finalize(p)
  PROVE  SubInv'
  <1>1. /\ Submission!TypeOK /\ LiveRow /\ RefsAt /\ RiftThere /\ RemovalMarked /\ RemovalAllowed
        /\ Numbered /\ ItemsAgree /\ IntentEnabled
    BY DEF SubInv
  <1> DEFINE s == command[p].sub
             r == Submission!S(p).replaces
  <1>2. /\ command[p].pc = "superseded" /\ command[p].pc \in Submitting /\ Submission!Leave(p)
        /\ r # 0 => subItems[r].status = "cancelled"
        /\ ws.status = "active" /\ ws' = [ws EXCEPT !.status = "submitted"]
        /\ subs' = [t \in Submission!Subs |-> IF t = s THEN [subs[t] EXCEPT !.state = "queued"]
                                   ELSE IF t = r THEN [subs[t] EXCEPT !.state = "replaced"] ELSE subs[t]]
        /\ subItems' = [subItems EXCEPT ![s].status = "ready"]
        /\ UNCHANGED <<rift, root, subOp, asked, late, edits, subStops, removes>>
    BY DEF Submission!Finalize, Submission!At, Submitting, Submission!bounds
  <1>3. /\ s \in Submission!Subs /\ Submission!S(p) = subs[s] /\ subs[s].state = "creating"
        /\ r \in Submission!Subs \cup {0}
        /\ subItems[s].status = "none" /\ subs[s].private = subs[s].commit /\ subs[s].staging = Submission!NoCommit
    BY <1>2, RefStepFrom DEF Submission!Sub
  <1>4. /\ command' \in [Developers -> Submission!Proc] /\ command'[p] = Submission!Idle
             /\ \A q \in Developers : q # p => command'[q] = command[q]
        /\ \A q \in Developers : command'[q].pc \in Waiting
        /\ guard' \in Developers \cup {None} /\ GuardExact'
    BY <1>2, LeaveIs DEF Waiting
  <1> HIDE DEF s, r
  <1>5. \A t \in Submission!Subs : t = r => subs[t].state \in {"cancelled", "replaced"} /\ t # s
    <2>1. ASSUME NEW t \in Submission!Subs, t = r PROVE subItems[t].status = "cancelled"
      BY <1>2, <2>1 DEF Submission!Subs
    <2> QED BY <1>1, <1>3, <2>1 DEF ItemsAgree
  <1>6. /\ subs'[s].state = "queued"
        /\ \A t \in Submission!Subs :
             /\ subs'[t] \in Submission!Sub
             /\ subs'[t].private = subs[t].private /\ subs'[t].staging = subs[t].staging
             /\ subs'[t].commit = subs[t].commit
             /\ t # s => \/ subs'[t].state = subs[t].state
                         \/ subs'[t].state = "replaced" /\ subs[t].state \in {"cancelled", "replaced"}
    BY <1>1, <1>2, <1>3, <1>5 DEF Submission!TypeOK, Submission!Sub
  <1>7. subs' \in [Submission!Subs -> Submission!Sub]
    BY <1>2, <1>6
  <1>8. subItems' \in [Submission!Subs -> Submission!Item] /\ subItems'[s].status = "ready"
          /\ \A t \in Submission!Subs : t # s => subItems'[t] = subItems[t]
    BY <1>1, <1>2, <1>3 DEF Submission!TypeOK, Submission!Item
  <1>9. ws' \in Submission!Row /\ ws'.status = "submitted" /\ ws'.cleanup = ws.cleanup /\ ws'.identity = ws.identity
    BY <1>1, <1>2 DEF Submission!TypeOK, Submission!Row
  <1>10. Submission!TypeOK'
    BY <1>1, <1>2, <1>4, <1>7, <1>8, <1>9 DEF Submission!TypeOK
  <1>11. Numbered'
    <2>1. {t \in Submission!Subs : subs'[t].state # "none"} = {t \in Submission!Subs : subs[t].state # "none"}
      BY <1>3, <1>6
    <2> QED BY <1>1, <1>3, <1>6, <2>1 DEF Numbered
  <1>12. ItemsAgree'
    BY <1>1, <1>3, <1>6, <1>8 DEF ItemsAgree
  <1>13. LiveRow'
    BY <1>1, <1>2, <1>6, <1>9 DEF LiveRow, Submission!Live, Ending
  <1>14. RefsAt'
    BY <1>1, <1>3, <1>4, <1>6, <1>8 DEF RefsAt, Waiting
  <1>15. RiftThere'
    BY <1>1, <1>2, <1>4, <1>9 DEF RiftThere, Waiting
  <1>16. RemovalMarked'
    BY <1>1, <1>2, <1>4, <1>9, IdleIs DEF RemovalMarked, Ending, Waiting
  <1>17. RemovalAllowed'
    BY <1>1, <1>2, <1>4, <1>9, IdleIs DEF RemovalAllowed, Waiting
  <1>18. IntentEnabled'
    BY <1>1, <1>2, <1>6 DEF IntentEnabled, Submission!Creating
  <1> QED BY <1>4, <1>10, <1>11, <1>12, <1>13, <1>14, <1>15, <1>16, <1>17, <1>18 DEF SubInv

-----------------------------------------------------------------------------
(* The removal of a workspace *)

LEMMA RemoveKeeps ==
  ASSUME Submission!ConstantsOK, SubInv, NEW p \in Developers, Submission!Remove(p)
  PROVE  SubInv'
  <1>1. /\ Submission!TypeOK /\ GuardExact /\ LiveRow /\ RefsAt /\ RiftThere /\ RemovalMarked /\ RemovalAllowed
    BY DEF SubInv
  <1> DEFINE r == [Submission!Idle EXCEPT !.pc = "remove", !.row = ws]
  <1>2. r \in Submission!Proc /\ r.pc = "remove" /\ r.row = ws
    BY <1>1, IdleIs DEF Submission!Proc, Submission!Idle, Submission!TypeOK
  <1>3. /\ UNCHANGED <<ws, rift, root, subs, subItems, subOp, guard, asked, late, edits, subStops>>
        /\ command' = [command EXCEPT ![p] = r] /\ command[p].pc = "idle" /\ removes' = removes + 1
        /\ removes < MaxRemoves
    BY DEF Submission!Remove, Submission!At
  <1> HIDE DEF r
  <1>4. /\ command' \in [Developers -> Submission!Proc] /\ command'[p] = r /\ \A q \in Developers : q # p =>
             command'[q] = command[q]
        /\ guard' \in Developers \cup {None} /\ GuardExact'
    BY <1>2, <1>3, WaitIs DEF Waiting
  <1>5. removes' \in 0..MaxRemoves
    BY <1>1, <1>3 DEF Submission!TypeOK, Submission!ConstantsOK
  <1>6. Submission!TypeOK'
    BY <1>1, <1>3, <1>4, <1>5 DEF Submission!TypeOK
  <1>7. RefsAt'
    BY <1>2, <1>3, <1>4, RefsSame DEF Submitting
  <1>8. LiveRow' /\ RiftThere'
    BY <1>1, <1>2, <1>3, <1>4 DEF LiveRow, Submission!Live, RiftThere
  <1>9. RemovalMarked' /\ RemovalAllowed'
    BY <1>1, <1>2, <1>3, <1>4 DEF RemovalMarked, RemovalAllowed
  <1> QED BY <1>3, <1>4, <1>6, <1>7, <1>8, <1>9, RowsSame DEF SubInv

LEMMA AuthorizeKeeps ==
  ASSUME Submission!ConstantsOK, SubInv, NEW p \in Developers, Submission!Authorize(p)
  PROVE  SubInv'
  <1>1. /\ Submission!TypeOK /\ GuardExact /\ LiveRow /\ RefsAt /\ RiftThere /\ RemovalMarked /\ RemovalAllowed
    BY DEF SubInv
  <1> DEFINE seen == command[p].row
             row == IF seen.status = "active" THEN [seen EXCEPT !.status = "cleanup_pending", !.cleanup = "operator"]
                    ELSE seen
             r == [Submission!Idle EXCEPT !.pc = "removing", !.row = row]
  <1>2. /\ command[p].pc = "remove" /\ Submission!Enter(p, r)
        /\ ws' = IF seen.status = "active" THEN [ws EXCEPT !.status = row.status, !.cleanup = row.cleanup] ELSE ws
        /\ asked' = (asked \/ seen.status = "active")
        /\ UNCHANGED <<rift, root, subs, subItems, subOp, late, edits, subStops, removes>>
    BY DEF Submission!Authorize, Submission!At, Submission!bounds
  <1>3. seen \in Submission!Row
    BY <1>1 DEF Submission!TypeOK, Submission!Proc
  <1>4. /\ row \in Submission!Row
        /\ seen.status = "active" => row.status = "cleanup_pending" /\ row.cleanup = "operator"
        /\ seen.status # "active" => row = seen
    BY <1>3 DEF Submission!Row
  <1> HIDE DEF seen, row
  <1>5. r \in Submission!Proc /\ r.pc = "removing" /\ r.row = row
    BY <1>4, IdleIs DEF Submission!Proc, Submission!Idle
  <1> HIDE DEF r
  <1>6. /\ command' \in [Developers -> Submission!Proc] /\ command'[p] = r /\ \A q \in Developers : q # p =>
             command'[q] = command[q]
        /\ \A q \in Developers : command[q].pc \in Waiting
        /\ guard' \in Developers \cup {None} /\ GuardExact'
    BY <1>2, <1>5, EnterIs DEF Waiting
  <1>7. /\ ws' \in Submission!Row /\ ws'.identity = ws.identity
        /\ seen.status = "active" => ws'.status = "cleanup_pending" /\ ws'.cleanup = "operator"
        /\ seen.status # "active" => ws' = ws
    BY <1>1, <1>2, <1>4 DEF Submission!TypeOK, Submission!Row
  <1>8. asked' \in BOOLEAN /\ (asked => asked') /\ (seen.status = "active" => asked')
        /\ (seen.status # "active" => asked' = asked)
    BY <1>1, <1>2 DEF Submission!TypeOK
  <1>9. Submission!TypeOK'
    BY <1>1, <1>2, <1>6, <1>7, <1>8 DEF Submission!TypeOK
  <1>10. RefsAt'
    BY <1>2, <1>5, <1>6, RefsSame DEF Submitting
  <1>11. LiveRow'
    BY <1>1, <1>2, <1>7, <1>8 DEF LiveRow, Submission!Live, Ending
  <1>12. RiftThere'
    BY <1>1, <1>2, <1>5, <1>6, <1>7 DEF RiftThere, Waiting
  <1>13. RemovalMarked'
    BY <1>1, <1>2, <1>4, <1>5, <1>6, <1>7 DEF RemovalMarked, Ending, Waiting, seen
  <1>14. RemovalAllowed'
    BY <1>1, <1>2, <1>4, <1>5, <1>6, <1>7, <1>8 DEF RemovalAllowed, Waiting, seen
  <1> QED BY <1>2, <1>6, <1>9, <1>10, <1>11, <1>12, <1>13, <1>14, RowsSame DEF SubInv

LEMMA CleanupKeeps ==
  ASSUME Submission!ConstantsOK, SubInv, NEW p \in Developers, Submission!Cleanup(p)
  PROVE  SubInv'
  <1>1. /\ Submission!TypeOK /\ GuardExact /\ LiveRow /\ RefsAt /\ RiftThere /\ RemovalMarked /\ RemovalAllowed
    BY DEF SubInv
  <1> DEFINE r == [Submission!Idle EXCEPT !.pc = "removing", !.row = ws]
  <1>2. r \in Submission!Proc /\ r.pc = "removing" /\ r.row = ws
    BY <1>1, IdleIs DEF Submission!Proc, Submission!Idle, Submission!TypeOK
  <1>3. /\ UNCHANGED <<ws, rift, root, subs, subItems, subOp, asked, late, edits, subStops, removes>>
        /\ Submission!Enter(p, r)
    BY DEF Submission!Cleanup, Submission!bounds
  <1> HIDE DEF r
  <1>4. /\ command' \in [Developers -> Submission!Proc] /\ command'[p] = r /\ \A q \in Developers : q # p =>
             command'[q] = command[q]
        /\ guard' \in Developers \cup {None} /\ GuardExact'
    BY <1>2, <1>3, EnterIs DEF Waiting
  <1>5. Submission!TypeOK'
    BY <1>1, <1>3, <1>4 DEF Submission!TypeOK
  <1>6. RefsAt'
    BY <1>2, <1>3, <1>4, RefsSame DEF Submitting
  <1>7. LiveRow' /\ RiftThere'
    BY <1>1, <1>2, <1>3, <1>4 DEF LiveRow, Submission!Live, RiftThere
  <1>8. RemovalMarked' /\ RemovalAllowed'
    BY <1>1, <1>2, <1>3, <1>4 DEF RemovalMarked, RemovalAllowed
  <1> QED BY <1>3, <1>4, <1>5, <1>6, <1>7, <1>8, RowsSame DEF SubInv

\* The end of a command, with the row of the workspace left or marked further.
LEMMA LeaveKeeps ==
  ASSUME Submission!ConstantsOK, SubInv, NEW p \in Developers, command[p].pc \notin Waiting, Submission!Leave(p),
         UNCHANGED <<rift, root, subs, subItems, subOp, asked, late, edits, removes>>, subStops' \in 0..MaxSubStops,
         ws' \in Submission!Row, ws'.identity = ws.identity,
         ws'.cleanup \in {"operator", "operator_failed"} => asked,
         \/ ws'.status = ws.status
         \/ ws'.status \in Ending /\ ws.status \notin {"active", "submitted"},
         ws'.status = "removed" => rift.at = "absent"
  PROVE  SubInv'
  <1>1. /\ Submission!TypeOK /\ GuardExact /\ LiveRow /\ RefsAt /\ RiftThere /\ RemovalMarked /\ RemovalAllowed
    BY DEF SubInv
  <1>2. /\ command' \in [Developers -> Submission!Proc] /\ command'[p] = Submission!Idle
             /\ \A q \in Developers : q # p => command'[q] = command[q]
        /\ \A q \in Developers : command'[q].pc \in Waiting
        /\ guard' \in Developers \cup {None} /\ GuardExact'
    BY LeaveIs
  <1>3. Submission!TypeOK'
    BY <1>1, <1>2 DEF Submission!TypeOK
  <1>4. RefsAt'
    BY <1>2, RefsSame DEF Submitting, Waiting
  <1>5. LiveRow'
    BY <1>1 DEF LiveRow, Submission!Live, Ending
  <1>6. RiftThere'
    BY <1>1, <1>2 DEF RiftThere, Waiting, Ending
  <1>7. RemovalMarked'
    BY <1>1, <1>2, IdleIs DEF RemovalMarked, Ending, Waiting
  <1>8. RemovalAllowed'
    BY <1>1, <1>2, IdleIs DEF RemovalAllowed, Waiting
  <1> QED BY <1>2, <1>3, <1>4, <1>5, <1>6, <1>7, <1>8, RowsSame DEF SubInv

\* The row a removal works from.
LEMMA RemovingRow ==
  ASSUME SubInv, NEW p \in Developers, command[p].pc \in {"remove", "removing"}
  PROVE  /\ command[p].row.status \in Ending => ws.status \in Ending
         /\ command[p].row.cleanup \in {"operator", "operator_failed"} => asked
  BY DEF SubInv, RemovalMarked, RemovalAllowed

LEMMA RemoveUnmadeKeeps ==
  ASSUME Submission!ConstantsOK, SubInv, NEW p \in Developers, Submission!RemoveUnmade(p)
  PROVE  SubInv'
  <1>1. /\ Submission!TypeOK /\ RiftThere
    BY DEF SubInv
  <1>2. /\ command[p].pc = "removing" /\ Submission!Leave(p) /\ rift.at = "absent"
        /\ ws' = [ws EXCEPT !.status = "removed", !.cleanup = "complete"]
        /\ UNCHANGED <<rift, root, subs, subItems, subOp, asked, late, edits, subStops, removes>>
    BY DEF Submission!RemoveUnmade, Submission!At, Submission!bounds
  <1>3. ws' \in Submission!Row /\ ws'.identity = ws.identity /\ ws'.status = "removed" /\ ws'.cleanup = "complete"
    BY <1>1, <1>2 DEF Submission!TypeOK, Submission!Row
  <1>4. ws.status \notin {"active", "submitted"} /\ subStops' \in 0..MaxSubStops
    BY <1>1, <1>2 DEF RiftThere, Submission!TypeOK
  <1> QED BY <1>2, <1>3, <1>4, LeaveKeeps DEF Waiting, Ending

LEMMA PreserveKeeps ==
  ASSUME Submission!ConstantsOK, SubInv, NEW p \in Developers, Submission!Preserve(p)
  PROVE  SubInv'
  <1>1. Submission!TypeOK
    BY DEF SubInv
  <1>2. /\ command[p].pc = "removing" /\ command[p].row.status \in Ending /\ Submission!Leave(p)
        /\ ws' = [ws EXCEPT !.status = "cleanup_failed",
                            !.cleanup = IF command[p].row.cleanup = "operator" THEN "operator_failed" ELSE "failed"]
        /\ UNCHANGED <<rift, root, subs, subItems, subOp, asked, late, edits, subStops, removes>>
    BY DEF Submission!Preserve, Submission!Cleaning, Submission!At, Submission!bounds, Ending
  <1>3. /\ ws' \in Submission!Row /\ ws'.identity = ws.identity /\ ws'.status = "cleanup_failed"
        /\ ws'.cleanup = IF command[p].row.cleanup = "operator" THEN "operator_failed" ELSE "failed"
    BY <1>1, <1>2 DEF Submission!TypeOK, Submission!Row
  <1>4. ws.status \in Ending /\ (ws'.cleanup \in {"operator", "operator_failed"} => asked)
    BY <1>2, <1>3, RemovingRow
  <1>5. subStops' \in 0..MaxSubStops
    BY <1>1, <1>2 DEF Submission!TypeOK
  <1> QED BY <1>2, <1>3, <1>4, <1>5, LeaveKeeps DEF Waiting, Ending

LEMMA CompleteRemovalKeeps ==
  ASSUME Submission!ConstantsOK, SubInv, NEW p \in Developers, Submission!CompleteRemoval(p)
  PROVE  SubInv'
  <1>1. Submission!TypeOK /\ RemovalMarked
    BY DEF SubInv
  <1>2. /\ command[p].pc = "unlinked" /\ Submission!Leave(p)
        /\ ws' = [ws EXCEPT !.status = "removed", !.cleanup = "complete"]
        /\ UNCHANGED <<rift, root, subs, subItems, subOp, asked, late, edits, subStops, removes>>
    BY DEF Submission!CompleteRemoval, Submission!At, Submission!bounds
  <1>3. ws' \in Submission!Row /\ ws'.identity = ws.identity /\ ws'.status = "removed" /\ ws'.cleanup = "complete"
    BY <1>1, <1>2 DEF Submission!TypeOK, Submission!Row
  <1>4. ws.status \in Ending /\ rift.at = "absent" /\ subStops' \in 0..MaxSubStops
    BY <1>1, <1>2 DEF RemovalMarked, Submission!TypeOK
  <1> QED BY <1>2, <1>3, <1>4, LeaveKeeps DEF Waiting, Ending

\* Commands that end and leave everything as it is.
LEMMA EndKeeps ==
  ASSUME Submission!ConstantsOK, SubInv, NEW p \in Developers,
         Submission!Refuse(p) \/ Submission!Stuck(p) \/ Submission!Fail(p)
  PROVE  SubInv'
  <1>1. Submission!TypeOK /\ RiftThere /\ RemovalAllowed /\ GuardExact
    BY DEF SubInv
  <1>2. /\ Submission!Leave(p) /\ UNCHANGED <<ws, rift, root, subs, subItems, subOp, asked, late, edits, removes>>
        /\ subStops' = subStops \/ (subStops < MaxSubStops /\ subStops' = subStops + 1)
    BY DEF Submission!Refuse, Submission!Stuck, Submission!Fail, Submission!bounds
  <1>3. command[p].pc \notin Waiting
    BY <1>1 DEF Submission!Refuse, Submission!Stuck, Submission!Fail, Submission!At, Waiting, GuardExact
  <1>4. subStops' \in 0..MaxSubStops
    BY <1>1, <1>2 DEF Submission!TypeOK, Submission!ConstantsOK
  <1>5. /\ ws' \in Submission!Row /\ (ws'.cleanup \in {"operator", "operator_failed"} => asked)
        /\ (ws'.status = "removed" => rift.at = "absent")
    BY <1>1, <1>2 DEF Submission!TypeOK, RemovalAllowed, RiftThere
  <1> QED BY <1>2, <1>3, <1>4, <1>5, LeaveKeeps

LEMMA GiveUpKeeps ==
  ASSUME Submission!ConstantsOK, SubInv, NEW p \in Developers, Submission!GiveUp(p)
  PROVE  SubInv'
  <1>1. /\ UNCHANGED <<ws, rift, root, subs, subItems, subOp, guard, asked, late, edits, subStops, removes>>
        /\ command' = [command EXCEPT ![p] = Submission!Idle] /\ command[p].pc \in Waiting
    BY DEF Submission!GiveUp, Submission!bounds, Waiting
  <1>2. /\ command' \in [Developers -> Submission!Proc] /\ command'[p] = Submission!Idle
             /\ \A q \in Developers : q # p => command'[q] = command[q]
        /\ guard' \in Developers \cup {None} /\ GuardExact'
    BY <1>1, IdleIs, WaitIs DEF Waiting
  <1>3. RefsAt'
    BY <1>1, <1>2, IdleIs, RefsSame DEF Submitting
  <1>4. subStops' \in 0..MaxSubStops
    BY <1>1 DEF SubInv, Submission!TypeOK
  <1> QED BY <1>1, <1>2, <1>3, <1>4, IdleIs, WorkKeeps

LEMMA BeginRemovalKeeps ==
  ASSUME Submission!ConstantsOK, SubInv, NEW p \in Developers, Submission!BeginRemoval(p)
  PROVE  SubInv'
  <1>1. /\ Submission!TypeOK /\ GuardExact /\ LiveRow /\ RefsAt /\ RiftThere /\ RemovalMarked /\ RemovalAllowed
    BY DEF SubInv
  <1>2. /\ command[p].pc = "removing" /\ command[p].row.status \in Ending /\ Submission!Goto(p, "unlink")
        /\ UNCHANGED <<rift, root, subs, subItems, subOp, guard, asked, late, edits, subStops, removes>>
        /\ \/ /\ rift.at # "absent" /\ Submission!Removable(command[p].row)
              /\ ws' = [ws EXCEPT !.status = "cleanup_pending", !.cleanup = "pending"]
           \/ rift.at = "absent" /\ UNCHANGED ws
    BY DEF Submission!BeginRemoval, Submission!Cleaning, Submission!At, Submission!bounds, Ending
  <1>3. /\ command' \in [Developers -> Submission!Proc] /\ command'[p].pc = "unlink"
             /\ \A q \in Developers : q # p => command'[q] = command[q]
        /\ \A q \in Developers : q # p => command[q].pc \in Waiting
        /\ guard' \in Developers \cup {None} /\ GuardExact'
    BY <1>2, GotoIs DEF Waiting
  <1>4. /\ ws.status \in Ending /\ ws'.status \in Ending /\ ws' \in Submission!Row /\ ws'.identity = ws.identity
        /\ ws'.cleanup = "pending" \/ ws' = ws
        /\ ws'.status = "removed" => rift.at = "absent"
    BY <1>1, <1>2, RemovingRow DEF Submission!TypeOK, Submission!Row, Ending, RiftThere
  <1>5. rift.at # "absent" => asked \/ \E s \in Submission!Subs : subs[s].state = "integrated"
          /\ subs[s].commit = rift.head
    BY <1>2, RemovingRow DEF Submission!Removable
  <1>6. Submission!TypeOK'
    BY <1>1, <1>2, <1>3, <1>4 DEF Submission!TypeOK
  <1>7. RefsAt'
    BY <1>2, <1>3, RefsSame DEF Submitting
  <1>8. LiveRow'
    BY <1>1, <1>2, <1>4 DEF LiveRow, Submission!Live, Ending
  <1>9. RiftThere'
    BY <1>1, <1>2, <1>3, <1>4 DEF RiftThere, Waiting, Ending
  <1>10. RemovalMarked'
    BY <1>1, <1>2, <1>3, <1>4 DEF RemovalMarked, Waiting
  <1>11. RemovalAllowed'
    BY <1>1, <1>2, <1>3, <1>4, <1>5 DEF RemovalAllowed, Waiting
  <1> QED BY <1>2, <1>3, <1>6, <1>7, <1>8, <1>9, <1>10, <1>11, RowsSame DEF SubInv

LEMMA RemoveRiftKeeps ==
  ASSUME Submission!ConstantsOK, SubInv, NEW p \in Developers, Submission!RemoveRift(p)
  PROVE  SubInv'
  <1>1. /\ Submission!TypeOK /\ GuardExact /\ LiveRow /\ RefsAt /\ RiftThere /\ RemovalMarked /\ RemovalAllowed
    BY DEF SubInv
  <1>2. /\ command[p].pc = "unlink" /\ Submission!Goto(p, "unlinked") /\ rift' = [rift EXCEPT !.at = "absent"]
        /\ UNCHANGED <<ws, root, subs, subItems, subOp, guard, asked, late, edits, subStops, removes>>
    BY DEF Submission!RemoveRift, Submission!At, Submission!bounds
  <1>3. /\ command' \in [Developers -> Submission!Proc] /\ command'[p].pc = "unlinked"
             /\ \A q \in Developers : q # p => command'[q] = command[q]
        /\ \A q \in Developers : q # p => command[q].pc \in Waiting
        /\ guard' \in Developers \cup {None} /\ GuardExact'
    BY <1>2, GotoIs DEF Waiting
  <1>4. rift' \in Submission!Rift /\ rift'.at = "absent" /\ ws.status \in Ending
    BY <1>1, <1>2 DEF Submission!TypeOK, Submission!Rift, RemovalMarked
  <1>5. Submission!TypeOK'
    BY <1>1, <1>2, <1>3, <1>4 DEF Submission!TypeOK
  <1>6. RefsAt'
    BY <1>2, <1>3, RefsSame DEF Submitting
  <1>7. LiveRow'
    BY <1>1, <1>2 DEF LiveRow, Submission!Live
  <1>8. RiftThere'
    BY <1>1, <1>2, <1>3, <1>4 DEF RiftThere, Waiting, Ending
  <1>9. RemovalMarked'
    BY <1>1, <1>2, <1>3, <1>4 DEF RemovalMarked, Waiting
  <1>10. RemovalAllowed'
    BY <1>1, <1>2, <1>3, <1>4 DEF RemovalAllowed, Waiting
  <1> QED BY <1>2, <1>3, <1>5, <1>6, <1>7, <1>8, <1>9, <1>10, RowsSame DEF SubInv

-----------------------------------------------------------------------------
(* The developer, the operator and the queue *)

\* Steps of others than commands that leave the rows of submissions alone.
LEMMA EditKeeps ==
  ASSUME Submission!ConstantsOK, SubInv, Submission!Edit
  PROVE  SubInv'
  <1>1. /\ Submission!TypeOK /\ GuardExact /\ LiveRow /\ RefsAt /\ RiftThere /\ RemovalMarked /\ RemovalAllowed
    BY DEF SubInv
  <1>2. /\ UNCHANGED <<ws, root, subs, subItems, subOp, guard, command, asked, subStops, removes>>
        /\ rift' \in [at : {"detached", "branch"}, head : Submission!Work \cup {Submission!Unbased}, clean : BOOLEAN]
        /\ edits' = edits + 1 /\ edits < MaxEdits /\ rift.at # "absent"
        /\ late' = (late \/ \E p \in Developers : command[p].pc = "unlink")
    BY DEF Submission!Edit, Submission!At
  <1>3. rift' \in Submission!Rift /\ rift'.at # "absent" /\ edits' \in 0..MaxEdits /\ late' \in BOOLEAN
    BY <1>1, <1>2 DEF Submission!TypeOK, Submission!Rift, Submission!Commit, Submission!ConstantsOK
  <1>4. Submission!TypeOK'
    BY <1>1, <1>2, <1>3 DEF Submission!TypeOK
  <1>5. GuardExact'
    BY <1>1, <1>2 DEF GuardExact
  <1>6. RefsAt' /\ LiveRow'
    BY <1>1, <1>2, RefsSame DEF LiveRow, Submission!Live
  <1>7. RiftThere' /\ RemovalMarked'
    BY <1>1, <1>2, <1>3 DEF RiftThere, RemovalMarked
  <1>8. RemovalAllowed'
    BY <1>1, <1>2 DEF RemovalAllowed
  <1> QED BY <1>2, <1>4, <1>5, <1>6, <1>7, <1>8, RowsSame DEF SubInv

LEMMA HostKeeps ==
  ASSUME Submission!ConstantsOK, SubInv, Submission!Drain \/ Submission!MoveRoot
  PROVE  SubInv'
  <1>1. /\ Submission!TypeOK /\ GuardExact /\ LiveRow /\ RefsAt /\ RiftThere /\ RemovalMarked /\ RemovalAllowed
        /\ Numbered
        /\ ItemsAgree /\ IntentEnabled
    BY DEF SubInv
  <1>2. /\ UNCHANGED <<ws, rift, subs, subItems, guard, command, asked, late, edits, subStops, removes>>
        /\ root' \in {root, "moved"} /\ subOp' \in {subOp, "draining"} /\ (subOp' # subOp => Submission!Creating = {})
    BY DEF Submission!Drain, Submission!MoveRoot, Submission!bounds
  <1>3. Submission!TypeOK'
    BY <1>1, <1>2 DEF Submission!TypeOK
  <1>4. GuardExact' /\ LiveRow' /\ RiftThere' /\ RemovalMarked' /\ RemovalAllowed'
    BY <1>1, <1>2 DEF GuardExact, LiveRow, Submission!Live, RiftThere, RemovalMarked, RemovalAllowed
  <1>5. RefsAt' /\ Numbered' /\ ItemsAgree'
    BY <1>1, <1>2, RefsSame DEF Numbered, ItemsAgree
  <1>6. IntentEnabled'
    BY <1>1, <1>2 DEF IntentEnabled, Submission!Creating
  <1> QED BY <1>3, <1>4, <1>5, <1>6 DEF SubInv

\* An item moves on and stays active.
LEMMA ItemMoves ==
  ASSUME Submission!ConstantsOK, SubInv, NEW i \in Submission!Subs, NEW b \in Submission!Item,
         subItems[i].status \in {"ready", "blocked", "landing"}, b.status \in {"ready", "blocked", "landing"},
         subItems' = [subItems EXCEPT ![i] = b],
         UNCHANGED <<ws, rift, root, subs, subOp, guard, command, asked, late, edits, subStops, removes>>
  PROVE  SubInv'
  <1>1. /\ Submission!TypeOK /\ GuardExact /\ LiveRow /\ RefsAt /\ RiftThere /\ RemovalMarked /\ RemovalAllowed
        /\ Numbered
        /\ ItemsAgree /\ IntentEnabled
    BY DEF SubInv
  <1>2. subItems' \in [Submission!Subs -> Submission!Item] /\ subItems'[i] = b /\ \A t \in Submission!Subs : t # i =>
          subItems'[t] = subItems[t]
    BY <1>1 DEF Submission!TypeOK
  <1>3. Submission!TypeOK'
    BY <1>1, <1>2 DEF Submission!TypeOK
  <1>4. GuardExact' /\ LiveRow' /\ RiftThere' /\ RemovalMarked' /\ RemovalAllowed'
    BY <1>1 DEF GuardExact, LiveRow, Submission!Live, RiftThere, RemovalMarked, RemovalAllowed
  <1>5. ItemsAgree'
    BY <1>1, <1>2 DEF ItemsAgree
  <1>6. RefsAt'
    BY <1>1, <1>2 DEF RefsAt, Submission!S
  <1>7. Numbered' /\ IntentEnabled'
    BY <1>1 DEF Numbered, IntentEnabled, Submission!Creating
  <1> QED BY <1>3, <1>4, <1>5, <1>6, <1>7 DEF SubInv

LEMMA ComposeKeeps ==
  ASSUME Submission!ConstantsOK, SubInv, NEW i \in Submission!Subs, Submission!Compose(i) \/ Submission!Progress(i)
  PROVE  SubInv'
  <1>1. /\ UNCHANGED <<ws, rift, root, subs, subOp, guard, command, asked, late, edits, subStops, removes>>
        /\ subItems[i].status \in {"ready", "blocked", "landing"}
    BY DEF Submission!Compose, Submission!Progress, Submission!bounds
  <1>2. subItems \in [Submission!Subs -> Submission!Item] /\ subItems[i] \in Submission!Item
    BY DEF SubInv, Submission!TypeOK
  <1>3. \/ subItems' = [subItems EXCEPT ![i].effort = TRUE]
        \/ \E x \in {"ready", "blocked", "landing"} : subItems' = [subItems EXCEPT ![i].status = x]
    BY DEF Submission!Compose, Submission!Progress
  <1>4. CASE subItems' = [subItems EXCEPT ![i].effort = TRUE]
    <2> DEFINE b == [subItems[i] EXCEPT !.effort = TRUE]
    <2>1. b \in Submission!Item /\ b.status = subItems[i].status /\ subItems' = [subItems EXCEPT ![i] = b]
      BY <1>2, <1>4 DEF Submission!Item
    <2> HIDE DEF b
    <2> QED BY <1>1, <2>1, ItemMoves
  <1>5. ASSUME NEW x \in {"ready", "blocked", "landing"}, subItems' = [subItems EXCEPT ![i].status = x] PROVE SubInv'
    <2> DEFINE b == [subItems[i] EXCEPT !.status = x]
    <2>1. b \in Submission!Item /\ b.status = x /\ subItems' = [subItems EXCEPT ![i] = b]
      BY <1>2, <1>5 DEF Submission!Item
    <2> HIDE DEF b
    <2> QED BY <1>1, <2>1, ItemMoves
  <1> QED BY <1>3, <1>4, <1>5

LEMMA MarkIntegratedKeeps ==
  ASSUME Submission!ConstantsOK, SubInv, NEW i \in Submission!Subs, Submission!MarkIntegrated(i)
  PROVE  SubInv'
  <1>1. /\ Submission!TypeOK /\ GuardExact /\ LiveRow /\ RefsAt /\ RiftThere /\ RemovalMarked /\ RemovalAllowed
        /\ Numbered
        /\ ItemsAgree /\ IntentEnabled
    BY DEF SubInv
  <1>2. /\ subs[i].state = "queued" /\ ws.status \in {"submitted", "cleanup_pending", "cleanup_failed"}
        /\ subItems' = [subItems EXCEPT ![i].status = "integrated"] /\ subs' = [subs EXCEPT ![i].state = "integrated"]
        /\ ws' = [ws EXCEPT !.status = "cleanup_pending", !.cleanup = "pending"] /\ root' = "moved"
        /\ UNCHANGED <<rift, subOp, guard, command, asked, late, edits, subStops, removes>>
    BY DEF Submission!MarkIntegrated, Submission!bounds
  <1>3. /\ subs' \in [Submission!Subs -> Submission!Sub] /\ subs'[i].state = "integrated"
             /\ \A t \in Submission!Subs : t # i => subs'[t] = subs[t]
        /\ subs'[i].private = subs[i].private /\ subs'[i].staging = subs[i].staging
        /\ subs'[i].commit = subs[i].commit
    BY <1>1, <1>2 DEF Submission!TypeOK, Submission!Sub
  <1>4. subItems' \in [Submission!Subs -> Submission!Item] /\ subItems'[i].status = "integrated"
          /\ \A t \in Submission!Subs : t # i => subItems'[t] = subItems[t]
    BY <1>1, <1>2 DEF Submission!TypeOK, Submission!Item
  <1>5. /\ ws' \in Submission!Row /\ ws'.status = "cleanup_pending" /\ ws'.cleanup = "pending"
        /\ ws'.identity = ws.identity
    BY <1>1, <1>2 DEF Submission!TypeOK, Submission!Row
  <1>6. Submission!TypeOK' /\ GuardExact'
    BY <1>1, <1>2, <1>3, <1>4, <1>5 DEF Submission!TypeOK, GuardExact
  <1>7. Numbered'
    <2>1. {t \in Submission!Subs : subs'[t].state # "none"} = {t \in Submission!Subs : subs[t].state # "none"}
      BY <1>2, <1>3
    <2> QED BY <1>1, <1>2, <1>3, <2>1 DEF Numbered
  <1>8. ItemsAgree'
    BY <1>1, <1>2, <1>3, <1>4 DEF ItemsAgree
  <1>9. LiveRow'
    BY <1>1, <1>2, <1>3, <1>5 DEF LiveRow, Submission!Live, Ending
  <1>10. RefsAt'
    <2>1. \A t \in Submission!Subs : subs'[t].private \in {Submission!NoCommit, subs'[t].commit}
      BY <1>1, <1>3 DEF RefsAt
    <2>2. \A t \in Submission!Subs : subItems'[t].status # "none" => subs'[t].private = subs'[t].commit
            /\ subs'[t].staging = Submission!NoCommit
      <3>1. subItems[i].status # "none"
        BY <1>1, <1>2 DEF ItemsAgree
      <3> QED BY <1>1, <1>3, <1>4, <3>1 DEF RefsAt
    <2>3. \A q \in Developers : command[q].pc \in Submitting => command[q].sub # i
      BY <1>1, <1>2 DEF RefsAt, Submission!S, Submitting
    <2> QED BY <1>1, <1>2, <1>3, <2>1, <2>2, <2>3 DEF RefsAt, Submission!S, Submitting
  <1>11. RiftThere'
    BY <1>1, <1>2, <1>5 DEF RiftThere
  <1>12. RemovalMarked'
    BY <1>1, <1>2, <1>5 DEF RemovalMarked, Ending
  <1>13. RemovalAllowed'
    <2>1. ASSUME NEW t \in Submission!Subs, subs[t].state = "integrated"
          PROVE  subs'[t].state = "integrated" /\ subs'[t].commit = subs[t].commit
      BY <1>2, <1>3, <2>1
    <2> QED BY <1>1, <1>2, <1>5, <2>1 DEF RemovalAllowed
  <1>14. IntentEnabled'
    BY <1>1, <1>2, <1>3 DEF IntentEnabled, Submission!Creating
  <1> QED BY <1>6, <1>7, <1>8, <1>9, <1>10, <1>11, <1>12, <1>13, <1>14 DEF SubInv

-----------------------------------------------------------------------------
(* What a developer relies on *)

LEMMA SubmissionInit == Submission!ConstantsOK /\ Submission!Init => SubInv
  <1> SUFFICES ASSUME Submission!ConstantsOK, Submission!Init PROVE SubInv
    OBVIOUS
  <1> DEFINE b == [state |-> "none", commit |-> Submission!NoCommit, replaces |-> 0, private |-> Submission!NoCommit,
    staging |-> Submission!NoCommit]
             i == [status |-> "none", effort |-> FALSE]
  <1>1. /\ b \in Submission!Sub /\ b.state = "none" /\ b.private = Submission!NoCommit
        /\ b.staging = Submission!NoCommit
        /\ i \in Submission!Item /\ i.status = "none" /\ Submission!NoRow \in Submission!Row
    BY DEF Submission!Sub, Submission!Item, Submission!NoRow, Submission!Row
  <1>2. /\ ws = Submission!NoRow /\ rift = [at |-> "absent", head |-> Submission!Base, clean |-> TRUE]
        /\ root = "base"
        /\ subs = [s \in Submission!Subs |-> b] /\ subItems = [s \in Submission!Subs |-> i] /\ subOp = "enabled"
        /\ guard = None
        /\ command = [p \in Developers |-> Submission!Idle] /\ asked = FALSE /\ late = FALSE /\ edits = 0
        /\ subStops = 0 /\ removes = 0
    BY DEF Submission!Init
  <1> HIDE DEF b, i
  <1>3. rift \in Submission!Rift /\ rift.at = "absent"
    BY <1>2 DEF Submission!Rift, Submission!Commit
  <1>4. Submission!TypeOK
    <2>1. /\ subs \in [Submission!Subs -> Submission!Sub] /\ subItems \in [Submission!Subs -> Submission!Item]
          /\ command \in [Developers -> Submission!Proc]
      BY <1>1, <1>2, IdleIs
    <2>2. edits \in 0..MaxEdits /\ subStops \in 0..MaxSubStops /\ removes \in 0..MaxRemoves
      BY <1>2 DEF Submission!ConstantsOK
    <2> QED BY <1>1, <1>2, <1>3, <2>1, <2>2 DEF Submission!TypeOK
  <1>5. GuardExact
    BY <1>2, IdleIs DEF GuardExact, Submission!ConstantsOK
  <1>6. Numbered
    <2>1. {s \in Submission!Subs : subs[s].state # "none"} = 1..0 /\ 0 \in 0..MaxSub
      BY <1>1, <1>2 DEF Submission!ConstantsOK
    <2> QED BY <1>1, <1>2, <2>1 DEF Numbered
  <1>7. ItemsAgree /\ LiveRow /\ IntentEnabled
    BY <1>1, <1>2 DEF ItemsAgree, LiveRow, Submission!Live, IntentEnabled
  <1>8. RefsAt
    BY <1>1, <1>2, IdleIs DEF RefsAt
  <1>9. RiftThere /\ RemovalMarked /\ RemovalAllowed
    BY <1>2, <1>3, IdleIs DEF RiftThere, RemovalMarked, RemovalAllowed, Submission!NoRow
  <1> QED BY <1>4, <1>5, <1>6, <1>7, <1>8, <1>9 DEF SubInv

LEMMA SubmissionNext == Submission!ConstantsOK /\ SubInv /\ [Submission!Next]_submissionVars => SubInv'
  <1> SUFFICES ASSUME Submission!ConstantsOK, SubInv, [Submission!Next]_submissionVars PROVE SubInv'
    OBVIOUS
  <1>1. CASE UNCHANGED submissionVars
    <2>1. UNCHANGED <<ws, rift, root, subs, subItems, subOp, guard, command, asked, late, edits, subStops, removes>>
      BY <1>1 DEF submissionVars, Submission!bounds
    <2>2. /\ GuardExact' /\ subStops' \in 0..MaxSubStops /\ guard' \in Developers \cup {None}
          /\ command' \in [Developers -> Submission!Proc]
      BY <2>1 DEF SubInv, GuardExact, Submission!TypeOK
    <2>3. Submission!TypeOK' /\ LiveRow' /\ RiftThere' /\ RemovalMarked' /\ RemovalAllowed' /\ RefsAt'
      BY <2>1, RefsSame DEF SubInv, Submission!TypeOK, LiveRow, Submission!Live, RiftThere, RemovalMarked,
           RemovalAllowed
    <2> QED BY <2>1, <2>2, <2>3, RowsSame DEF SubInv
  <1>2. ASSUME NEW p \in Developers, Submission!Create(p) \/ Submission!Begin(p) \/ Submission!Refs(p) PROVE SubInv'
    BY <1>2, BeginCreateKeeps, CreateRiftKeeps, CreateBranchKeeps, SetIdentityKeeps, ResumeIntentKeeps,
       BeginIntentKeeps, StageRefKeeps, PublishKeeps, UnstageKeeps, SupersedeKeeps, FinalizeKeeps
         DEF Submission!Create, Submission!Begin, Submission!Refs
  <1>3. ASSUME NEW p \in Developers, Submission!Remove(p) \/ Submission!Removal(p) PROVE SubInv'
    BY <1>3, RemoveKeeps, AuthorizeKeeps, CleanupKeeps, RemoveUnmadeKeeps, PreserveKeeps, BeginRemovalKeeps,
       RemoveRiftKeeps, CompleteRemovalKeeps DEF Submission!Removal
  <1>4. ASSUME NEW p \in Developers,
               \/ Submission!GiveUp(p) \/ Submission!Refuse(p) \/ Submission!Stuck(p) \/ Submission!Fail(p)
               \/ \E n \in Submission!Subs \cup {0} : Submission!Submit(p, n)
        PROVE  SubInv'
    BY <1>4, GiveUpKeeps, EndKeeps, SubmitKeeps
  <1>5. ASSUME NEW i \in Submission!Subs, Submission!Compose(i) \/ Submission!Progress(i)
          \/ Submission!MarkIntegrated(i) \/ Submission!CancelItem(i) PROVE SubInv'
    BY <1>5, ComposeKeeps, MarkIntegratedKeeps, CancelItemKeeps
  <1> QED BY <1>1, <1>2, <1>3, <1>4, <1>5, EditKeeps, HostKeeps DEF Submission!Next

LEMMA SubmissionSays ==
  ASSUME Submission!ConstantsOK, SubInv
  PROVE  Submission!TypeOK /\ Submission!OneLive /\ Submission!RefsExact /\ Submission!ReceiptKept
  <1>1. Submission!TypeOK /\ ItemsAgree /\ LiveRow /\ RefsAt /\ RiftThere
    BY DEF SubInv
  <1>2. Submission!OneLive
    <2>1. Cardinality({s \in Submission!Subs : Submission!Live(s)}) <= 1
      <3>1. CASE {s \in Submission!Subs : Submission!Live(s)} = {}
        BY <3>1, FS_EmptySet
      <3>2. ASSUME NEW s \in Submission!Subs, Submission!Live(s)
              PROVE Cardinality({t \in Submission!Subs : Submission!Live(t)}) <= 1
        <4>1. {t \in Submission!Subs : Submission!Live(t)} = {s}
          BY <1>1, <3>2 DEF LiveRow
        <4>2. Cardinality({s}) = 1
          BY FS_Singleton
        <4> QED BY <4>1, <4>2
      <3> QED BY <3>1, <3>2
    <2> QED BY <1>1, <2>1, SubmissionCounts DEF Submission!OneLive, ItemsAgree
  <1>3. Submission!RefsExact
    BY <1>1 DEF Submission!RefsExact, RefsAt
  <1>4. Submission!ReceiptKept
    <2>1. SUFFICES ASSUME ~asked, NEW s \in Submission!Subs, Submission!Untouched(s) PROVE Submission!Replayed(s)
      BY DEF Submission!ReceiptKept, Submission!ReceiptReplays
    <2>2. Submission!Live(s) /\ Submission!Creating = {} /\ (rift.at = "absent" \/ (Submission!SubmissionState
            /\ rift.head = subs[s].commit))
      BY <2>1 DEF Submission!Untouched
    <2>3. {t \in Submission!Subs : Submission!Live(t)} = {s}
      BY <1>1, <2>2 DEF LiveRow
    <2>4. subs[s].private = subs[s].commit /\ subs[s].staging = Submission!NoCommit
      BY <1>1, <2>2 DEF RefsAt, ItemsAgree, Submission!Live
    <2>5. \/ ws.status = "submitted" /\ subs[s].state = "queued" /\ rift.at # "absent"
          \/ /\ ws.status \in {"cleanup_pending", "cleanup_failed", "removed"} /\ subs[s].state = "integrated"
             /\ ws.status = "removed" => rift.at = "absent"
      BY <1>1, <2>1, <2>2 DEF Submission!Live, LiveRow, RiftThere, Ending
    <2> QED BY <2>2, <2>3, <2>4, <2>5 DEF Submission!Replayed
  <1> QED BY <1>1, <1>2, <1>3, <1>4

\* The Rift leaves the disk in one step, and what is in it then was looked at.
LEMMA RiftLeaves ==
  ASSUME Submission!ConstantsOK, SubInv, [Submission!Next]_submissionVars, rift.at # "absent", rift'.at = "absent"
  PROVE  /\ rift.clean
         /\ asked \/ late \/ \E s \in Submission!Subs : subs[s].state = "integrated" /\ subs[s].commit = rift.head
  <1>1. \E p \in Developers : Submission!RemoveRift(p)
    <2>1. ASSUME NEW p \in Developers, Submission!CreateRift(p) \/ Submission!CreateBranch(p) PROVE FALSE
      BY <2>1 DEF Submission!CreateRift, Submission!CreateBranch, SubInv, Submission!TypeOK, Submission!Rift
    <2>2. ASSUME Submission!Edit PROVE FALSE
      BY <2>2 DEF Submission!Edit
    <2>3. ASSUME NEW p \in Developers, Submission!BeginCreate(p) \/ Submission!SetIdentity(p)
            \/ Submission!Begin(p) \/ Submission!Refs(p) \/ Submission!Remove(p) PROVE rift' = rift
      BY <2>3 DEF Submission!BeginCreate, Submission!SetIdentity, Submission!Begin, Submission!ResumeIntent,
           Submission!BeginIntent, Submission!Refs, Submission!Stage, Submission!Publish, Submission!Unstage,
         Submission!Supersede, Submission!Finalize, Submission!Remove
    <2>4. ASSUME NEW p \in Developers, Submission!Removal(p), ~Submission!RemoveRift(p) PROVE rift' = rift
      BY <2>4 DEF Submission!Removal, Submission!Authorize, Submission!Cleanup, Submission!RemoveUnmade,
           Submission!Preserve, Submission!BeginRemoval, Submission!CompleteRemoval
    <2>5. ASSUME NEW p \in Developers,
                 \/ Submission!GiveUp(p) \/ Submission!Refuse(p) \/ Submission!Stuck(p) \/ Submission!Fail(p)
                 \/ \E n \in Submission!Subs \cup {0} : Submission!Submit(p, n)
          PROVE  rift' = rift
      BY <2>5 DEF Submission!GiveUp, Submission!Refuse, Submission!Stuck, Submission!Fail, Submission!Submit
    <2>6. ASSUME NEW i \in Submission!Subs, Submission!Compose(i) \/ Submission!Progress(i)
            \/ Submission!MarkIntegrated(i) \/ Submission!CancelItem(i) PROVE rift' = rift
      BY <2>6 DEF Submission!Compose, Submission!Progress, Submission!MarkIntegrated, Submission!CancelItem
    <2>7. ASSUME UNCHANGED submissionVars \/ Submission!Drain \/ Submission!MoveRoot PROVE rift' = rift
      BY <2>7 DEF submissionVars, Submission!Drain, Submission!MoveRoot
    <2> QED BY <2>1, <2>2, <2>3, <2>4, <2>5, <2>6, <2>7 DEF Submission!Next, Submission!Create
  <1>2. PICK p \in Developers : Submission!RemoveRift(p)
    BY <1>1
  <1> QED BY <1>2 DEF Submission!RemoveRift, Submission!At, SubInv, RemovalAllowed

\* A submission becomes an item in one step, which a repository that drains does not take.
LEMMA ItemAppears ==
  ASSUME Submission!ConstantsOK, SubInv, [Submission!Next]_submissionVars, subOp = "draining",
           NEW s \in Submission!Subs, subItems[s].status = "none"
  PROVE  subItems'[s].status = "none"
  <1>1. subItems \in [Submission!Subs -> Submission!Item]
    BY DEF SubInv, Submission!TypeOK
  <1>2. ASSUME NEW p \in Developers, Submission!Finalize(p) PROVE FALSE
    <2>1. command[p].pc \in Submitting
      BY <1>2 DEF Submission!Finalize, Submission!At, Submitting
    <2>2. command[p].sub \in Submission!Creating
      BY <2>1, RefStepFrom DEF Submission!Creating
    <2> QED BY <2>2 DEF SubInv, IntentEnabled
  <1>3. ASSUME NEW i \in Submission!Subs, Submission!Cancelled(i) PROVE subItems'[s].status = "none"
    BY <1>1, <1>3 DEF Submission!Cancelled, SubInv, ItemsAgree
  <1>4. ASSUME NEW p \in Developers, Submission!Supersede(p) PROVE subItems'[s].status = "none"
    <2>1. command[p].pc \in Submitting
      BY <1>4 DEF Submission!Supersede, Submission!At, Submitting
    <2>2. Submission!S(p).replaces \in Submission!Subs \cup {0}
      BY <2>1, RefStepFrom DEF Submission!Sub
    <2> QED BY <1>3, <1>4, <2>2 DEF Submission!Supersede
  <1>5. ASSUME NEW i \in Submission!Subs, Submission!Compose(i) \/ Submission!Progress(i)
          \/ Submission!MarkIntegrated(i) \/ Submission!CancelItem(i)
        PROVE  subItems'[s].status = "none"
    <2>1. ASSUME Submission!CancelItem(i) PROVE subItems'[s].status = "none"
      BY <1>3, <2>1 DEF Submission!CancelItem
    <2>2. ASSUME Submission!MarkIntegrated(i) PROVE subItems'[s].status = "none"
      BY <1>1, <2>2 DEF Submission!MarkIntegrated
    <2>3. ASSUME Submission!Compose(i) PROVE subItems'[s].status = "none"
      BY <1>1, <2>3 DEF Submission!Compose
    <2>4. ASSUME Submission!Progress(i) PROVE subItems'[s].status = "none"
      BY <1>1, <2>4 DEF Submission!Progress
    <2> QED BY <1>5, <2>1, <2>2, <2>3, <2>4
  <1>6. ASSUME NEW p \in Developers, Submission!Create(p) \/ Submission!Begin(p) \/ Submission!Stage(p)
          \/ Submission!Publish(p) \/ Submission!Unstage(p) \/ Submission!Remove(p)
        PROVE  subItems' = subItems
    BY <1>6 DEF Submission!Create, Submission!BeginCreate, Submission!CreateRift, Submission!CreateBranch,
         Submission!SetIdentity, Submission!Begin, Submission!ResumeIntent, Submission!BeginIntent, Submission!Stage,
       Submission!Publish, Submission!Unstage, Submission!Remove
  <1>7. ASSUME NEW p \in Developers, Submission!Removal(p) PROVE subItems' = subItems
    BY <1>7 DEF Submission!Removal, Submission!Authorize, Submission!Cleanup, Submission!RemoveUnmade,
         Submission!Preserve, Submission!BeginRemoval, Submission!RemoveRift, Submission!CompleteRemoval
  <1>8. ASSUME NEW p \in Developers,
               \/ Submission!GiveUp(p) \/ Submission!Refuse(p) \/ Submission!Stuck(p) \/ Submission!Fail(p)
               \/ \E n \in Submission!Subs \cup {0} : Submission!Submit(p, n)
        PROVE  subItems' = subItems
    BY <1>8 DEF Submission!GiveUp, Submission!Refuse, Submission!Stuck, Submission!Fail, Submission!Submit
  <1>9. ASSUME UNCHANGED submissionVars \/ Submission!Drain \/ Submission!MoveRoot \/ Submission!Edit
          PROVE subItems' = subItems
    BY <1>9 DEF submissionVars, Submission!Drain, Submission!MoveRoot, Submission!Edit
  <1> QED BY <1>2, <1>4, <1>5, <1>6, <1>7, <1>8, <1>9 DEF Submission!Next, Submission!Refs

-----------------------------------------------------------------------------

\* SubmissionsExact: whatever developers submit, replace, cancel and remove, and wherever their commands stop, a
\* workspace has one live submission, its item has the exact commit in its private ref, its receipt can be read
\* again until an operator asks for a removal, no work leaves the disk unasked, and a repository that drains takes
\* no item (begin_local_submission, finalize_local_submission, cancel_local_submission, remove_workspace_locked).
THEOREM SubmissionsExact == MCSpec => SubmissionExact
  <1> DEFINE Leaves ==
               rift.at # "absent" /\ rift'.at = "absent"
                 => /\ rift.clean
                    /\ asked \/ late
                         \/ \E s \in Submission!Subs : subs[s].state = "integrated" /\ subs[s].commit = rift.head
             Appears ==
               subOp = "draining" =>
                 \A s \in Submission!Subs : subItems[s].status = "none" => subItems'[s].status = "none"
  <1>1. MCInit => SubInv
    BY PartsAssumption, SubmissionInit DEF MCInit
  <1>2. [MCNext]_<<part, vars, submissionVars, leaseVars, registrationVars>> => [Submission!Next]_submissionVars
    BY DEF MCNext
  <1>3. SubInv /\ [Submission!Next]_submissionVars => SubInv'
    BY PartsAssumption, SubmissionNext
  <1>4. SubInv => Submission!TypeOK /\ Submission!OneLive /\ Submission!RefsExact /\ Submission!ReceiptKept
    BY PartsAssumption, SubmissionSays
  <1>5. SubInv /\ [Submission!Next]_submissionVars => [Leaves]_submissionVars
    BY PartsAssumption, RiftLeaves
  <1>6. SubInv /\ [Submission!Next]_submissionVars => [Appears]_submissionVars
    BY PartsAssumption, ItemAppears
  <1> QED BY <1>1, <1>2, <1>3, <1>4, <1>5, <1>6, PTL
          DEF MCSpec, SubmissionExact, Submission!Exact, Submission!WorkKept, Submission!DrainedNoItem, submissionVars,
              Submission!vars
=============================================================================
