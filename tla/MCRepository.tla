---------------------------- MODULE MCRepository ----------------------------
(* The work on one repository: its queue (Queue), the workspace its developer  *)
(* submits from (Submission), the lease of its operations (RepoLease) and its  *)
(* registration (Provisioning).  They meet in the operation lock, which each   *)
(* module has in the form it needs, so a behaviour is about one of them and    *)
(* the others stay as they were at first.                                      *)
EXTENDS Queue, TLC

CONSTANTS
  Parts,                                                                 \* what behaviours are about
  Developers, MaxSub, MaxCommit, MaxEdits, MaxSubStops, MaxRemoves,      \* Submission
  Operations, Ttl, Poll, LeaseReserve, Grace, MaxTime, MaxBusy, MaxStalls, MaxOpStops, \* RepoLease
  Registrars, Storage, r3, here, there, Shas, MaxCrash, MaxKey   \* Provisioning

VARIABLES
  part,
  ws, rift, root, subs, subItems, subOp, guard, command, asked, late, edits, subStops, removes,
  now, lock, lease, operation, child, busy, stalls, opStops,
  owner, intent, registered, requests, registrar, tree, crashes

submissionVars == <<ws, rift, root, subs, subItems, subOp, guard, command, asked, late, edits, subStops, removes>>
leaseVars == <<now, lock, lease, operation, child, busy, stalls, opStops>>
registrationVars == <<owner, intent, registered, requests, registrar, tree, crashes>>

Submission == INSTANCE Submission
  WITH Procs <- Developers, MaxStops <- MaxSubStops,
       items <- subItems, op <- subOp, proc <- command, stops <- subStops

Lease == INSTANCE RepoLease
  WITH Procs <- Operations, Reserve <- LeaseReserve, MaxStops <- MaxOpStops, proc <- operation, stops <- opStops

Registration == INSTANCE Provisioning
  WITH Procs <- Registrars, Home <- Storage, proc <- registrar

\* In the runs the third registers in another storage root.
TwoRoots == [p \in Registrars |-> IF p = r3 THEN there ELSE here]

\* What the proofs about the three modules assume of their constants.
ASSUME PartsAssumption == Submission!ConstantsOK /\ Lease!ConstantsOK /\ Registration!ConstantsOK

MCInit ==
  /\ part \in Parts
  /\ Init /\ Submission!Init /\ Lease!Init /\ Registration!Init

MCNext ==
  \/ part = "queue" /\ Next /\ UNCHANGED <<part, submissionVars, leaseVars, registrationVars>>
  \/ part = "submission" /\ Submission!Next /\ UNCHANGED <<part, vars, leaseVars, registrationVars>>
  \/ part = "lease" /\ Lease!Next /\ UNCHANGED <<part, vars, submissionVars, registrationVars>>
  \/ part = "registration" /\ Registration!Next /\ UNCHANGED <<part, vars, submissionVars, leaseVars>>

MCSpec == MCInit /\ [][MCNext]_<<part, vars, submissionVars, leaseVars, registrationVars>>

InQueue(A) == part = "queue" /\ A
InSubmission(A) == part = "submission" /\ A

\* The fairness of the modules.
MCFairSpec ==
  /\ MCSpec
  /\ WF_vars(InQueue(RunOnce)) /\ WF_vars(InQueue(Debts))
  /\ \A p \in Developers :
       /\ WF_submissionVars(InSubmission(
            \/ Submission!CreateRift(p) \/ Submission!CreateBranch(p) \/ Submission!SetIdentity(p)
            \/ Submission!Refs(p) \/ Submission!Stuck(p) \/ Submission!GiveUp(p)))
       /\ WF_submissionVars(InSubmission(
            \/ Submission!RemoveUnmade(p) \/ Submission!Preserve(p) \/ Submission!BeginRemoval(p)
            \/ Submission!RemoveRift(p) \/ Submission!CompleteRemoval(p) \/ Submission!Refuse(p)))
       /\ SF_submissionVars(InSubmission(Submission!Begin(p)))
       /\ SF_submissionVars(InSubmission(Submission!BeginCreate(p)))
       /\ \A r \in 0..MaxSub : SF_submissionVars(InSubmission(Submission!Submit(p, r)))
  /\ \A p \in Registrars : WF_registrationVars(part = "registration" /\ Registration!Step(p))

\* The same two processes are developers, operations and registrars, and are compared for
\* equality only.
Symmetry == Permutations(Operations)

-----------------------------------------------------------------------------
\* A workspace has one live submission with its exact commit and a receipt that can be
\* read again, and no work leaves the disk unasked (submit, remove_workspace).
SubmissionExact == Submission!Exact

\* A supervised command holds the operation lock and a row that lives
\* (supervise_command, LeaseHeartbeat).
CommandExact == Lease!CommandExact

\* Registrations that stop anywhere and race end in one repository, complete and at the
\* commit that was reserved (register_repository).
RegistrationExact == Registration!RegistrationExact

\* A head that is ready is claimed or withdrawn although another target is blocked.
HeadServed == part = "queue" => ReadyServed

\* A submit or a creation that was interrupted is finished when it is repeated.
SubmissionFinishes == part = "submission" => Submission!SubmitFinishes /\ Submission!CreationFinishes

\* A reservation becomes a registration.
Registers == part = "registration" => Registration!Registers
=============================================================================
