---------------------------- MODULE Provisioning ----------------------------
(***************************************************************************)
(* Registration of one canonical repository (src/src/repository.rs         *)
(* provision and what it calls): commands started from several bootstrap   *)
(* checkouts find or reserve one repository key, and whoever holds the     *)
(* provisioning fence takes the owned root from phase to phase, an effect  *)
(* on disk first and the durable phase after it, until it is ready.        *)
(*                                                                         *)
(* A command stops at any point, also inside an effect, and is repeated.   *)
(*                                                                         *)
(* Abstractions.                                                           *)
(*  - The policies, targets and URLs of all commands agree; what differs   *)
(*    is the storage root they ask for and the commit they saw.            *)
(*  - The binding of a Git directory is its path and its inode.  rift init *)
(*    (external) registers the root, writes its marker and may replace the *)
(*    directory, which it does only once the root is registered.           *)
(*  - Others do not write to the storage root; every effect is synced      *)
(*    before its phase, and a stop loses the process and not the disk.     *)
(***************************************************************************)
EXTENDS Integers, FiniteSets

CONSTANTS
  Procs,     \* commands, each with its bootstrap checkout
  Home,      \* the storage root each asks for
  Shas,      \* commits the remote target has shown
  MaxCrash,  \* bound on the commands that stop
  MaxKey,    \* bound on the repository keys generated
  None

VARIABLES
  owner,       \* physical_repository_ownership: the key of the repository
  intent,      \* its row of repository_provisioning_intents
  registered,  \* its row of registered_repositories, with the commit recorded
  requests,    \* repository_bootstrap_requests: absent, unlinked or a key
  proc,        \* the commands
  tree,        \* the directory of each key
  crashes

vars == <<owner, intent, registered, requests, proc, tree, crashes>>

Keys == 1..MaxKey

\* A bootstrap request that does not exist, and one without a repository.
Absent == -1
Unlinked == 0

\* Phases of ProvisioningLifecycle in order.
Phases == <<"reserved", "staging_directory", "git_initialized", "remote_configured",
            "target_fetched", "target_checked_out", "root_published", "policy_published",
            "rift_initialized", "rift_verified", "owner_published", "child_roots_published">>

Phase == {Phases[n] : n \in DOMAIN Phases}

\* Stages of the checkout, the half-done ones included.
Nothing == 0
Directory == 1
GitHalf == 2
GitReady == 3
RemoteHalf == 4
RemoteReady == 5
Object == 6
CheckoutHalf == 7
Clean == 8

Children == {"development", "integration"}

Tree == [at : {"nowhere", "staging", "root"}, stage : 0..8, sha : Shas \cup {None}, inode : 0..1,
         policy : BOOLEAN, row : BOOLEAN, marker : BOOLEAN, owner : BOOLEAN,
         children : SUBSET Children]

\* Where and what the binding stored with a phase is.
Binding == [at : {"staging", "root"}, inode : 0..1]

Intent == [phase : Phase, sha : Shas, home : {Home[p] : p \in Procs}, binding : Binding \cup {None}]

Proc == [pc : {"idle", "preflighted", "asked", "reserving", "planned", "fenced", "synced", "done", "refused"},
         sha : Shas \cup {None}, key : Keys \cup {None}]

\* None is no value of a row.
ConstantsOK ==
  /\ MaxKey \in Nat /\ MaxCrash \in Nat
  /\ None \notin Keys /\ None \notin Shas /\ None \notin Binding /\ None \notin Intent
  /\ None \notin [sha : Shas, home : {Home[p] : p \in Procs}]

Init ==
  /\ owner = None
  /\ intent = None
  /\ registered = None
  /\ requests = [p \in Procs |-> Absent]
  /\ proc = [p \in Procs |-> [pc |-> "idle", sha |-> None, key |-> None]]
  /\ tree = [k \in Keys |-> [at |-> "nowhere", stage |-> Nothing, sha |-> None, inode |-> 0,
                             policy |-> FALSE, row |-> FALSE, marker |-> FALSE, owner |-> FALSE,
                             children |-> {}]]
  /\ crashes = 0

At(p, pc) == proc[p].pc = pc
Goto(p, pc) == proc' = [proc EXCEPT ![p].pc = pc]
Planned(p, k) == proc' = [proc EXCEPT ![p].pc = "planned", ![p].key = k]

-----------------------------------------------------------------------------
(* The request and its repository key *)

\* PreflightedProvision::capture observes the target.
Preflight(p) ==
  /\ At(p, "idle")
  /\ \E s \in Shas : proc' = [proc EXCEPT ![p].pc = "preflighted", ![p].sha = s]
  /\ UNCHANGED <<owner, intent, registered, requests, tree, crashes>>

\* prepare_bootstrap_request keeps the request.
Ask(p) ==
  /\ At(p, "preflighted")
  /\ requests' = [requests EXCEPT ![p] = IF @ = Absent THEN Unlinked ELSE @]
  /\ Goto(p, "asked")
  /\ UNCHANGED <<owner, intent, registered, tree, crashes>>

\* Storage root of the repository that is reserved or registered.
DurableHome == IF intent # None THEN intent.home ELSE registered.home

\* require_requested_locations: another storage root is refused, and an unlinked
\* request forgotten.
Refuse(p) ==
  /\ owner # None
  /\ DurableHome # Home[p]
  /\ requests' = [requests EXCEPT ![p] = IF @ = Unlinked THEN Absent ELSE @]
  /\ Goto(p, "refused")

\* link_bootstrap_request.
Link(p) == requests' = [requests EXCEPT ![p] = owner]

\* find_registered: a repository that is ready is returned at once.
FindReady(p) ==
  /\ At(p, "asked")
  /\ registered # None
  /\ Refuse(p) \/ (DurableHome = Home[p] /\ Link(p) /\ Goto(p, "done"))
  /\ UNCHANGED <<owner, intent, registered, tree, crashes>>

\* load_intent_by_bootstrap, load_intent_by_repo_key: a reservation is joined.
LoadIntent(p) ==
  /\ At(p, "asked")
  /\ intent # None
  /\ Refuse(p) \/ (DurableHome = Home[p] /\ Link(p) /\ Planned(p, owner))
  /\ UNCHANGED <<owner, intent, registered, tree, crashes>>

\* Nothing is reserved: the reservation comes in a transaction of its own.
FindNothing(p) ==
  /\ At(p, "asked")
  /\ owner = None
  /\ Goto(p, "reserving")
  /\ UNCHANGED <<owner, intent, registered, requests, tree, crashes>>

FreshKey == Cardinality(({k \in Keys : tree[k].at # "nowhere"} \cup {owner}) \ {None}) + 1

\* INSERT of the policy, the ownership and the intent.
NewReservation(p, k) ==
  /\ k \in Keys
  /\ owner' = k
  /\ intent' = [phase |-> "reserved", sha |-> proc[p].sha, home |-> Home[p], binding |-> None]
  /\ requests' = [requests EXCEPT ![p] = k]
  /\ Planned(p, k)
  /\ UNCHANGED registered

\* reserve_plan: the owner is looked for again in the transaction.  A repository
\* that became ready in between has no intent: the command fails.
Reserve(p) ==
  /\ At(p, "reserving")
  /\ \/ owner = None /\ NewReservation(p, FreshKey)
     \/ /\ owner # None /\ intent # None
        /\ Refuse(p) \/ (DurableHome = Home[p] /\ Link(p) /\ Planned(p, owner))
        /\ UNCHANGED <<owner, intent, registered>>
     \/ /\ owner # None /\ intent = None
        /\ Goto(p, "idle")
        /\ UNCHANGED <<owner, intent, registered, requests>>
  /\ UNCHANGED <<tree, crashes>>

\* ProvisioningFence::acquire, then the repository may be ready already.
Fence(p) ==
  /\ At(p, "planned")
  /\ \A q \in Procs : proc[q].pc \notin {"fenced", "synced"}
  /\ Goto(p, IF registered # None THEN "done" ELSE "fenced")
  /\ UNCHANGED <<owner, intent, registered, requests, tree, crashes>>

-----------------------------------------------------------------------------
(* Verification at the head of the loop *)

T(p) == tree[proc[p].key]

InPlace(t, b) == b # None /\ t.at = b.at /\ t.inode = b.inode

GoodGit(t) == t.stage = Clean /\ t.sha = intent.sha

\* Mutant of BindingHolds: the directory that rift init replaced is refused.
BindingHoldsExactly(t) ==
  IF intent.phase \in {"reserved", "staging_directory"} THEN TRUE ELSE InPlace(t, intent.binding)

\* verify_stored_provisioning_binding; a directory that rift init replaced is
\* accepted while its phase is not recorded, when the root is registered.
BindingHolds(t) ==
  CASE intent.phase \in {"reserved", "staging_directory"} -> TRUE
    [] intent.phase = "policy_published" -> InPlace(t, intent.binding) \/ t.row
    [] OTHER -> InPlace(t, intent.binding)

\* verify_completed_effects.
EffectsHold(t) ==
  CASE intent.phase = "reserved" -> TRUE
    [] intent.phase = "staging_directory" -> t.at = "staging" /\ t.stage >= Directory
    [] intent.phase = "git_initialized" -> t.at = "staging" /\ t.stage >= GitReady
    [] intent.phase = "remote_configured" -> t.at = "staging" /\ t.stage >= RemoteReady
    [] intent.phase = "target_fetched" -> t.at = "staging" /\ t.stage >= Object
    [] intent.phase = "target_checked_out" -> t.at # "nowhere" /\ GoodGit(t)
    [] intent.phase = "root_published" -> t.at = "root" /\ GoodGit(t)
    [] intent.phase \in {"policy_published", "rift_initialized"} ->
         t.at = "root" /\ GoodGit(t) /\ t.policy
    [] intent.phase = "rift_verified" ->
         t.at = "root" /\ GoodGit(t) /\ t.policy /\ t.row /\ t.marker
    [] intent.phase = "owner_published" ->
         t.at = "root" /\ GoodGit(t) /\ t.policy /\ t.row /\ t.marker /\ t.owner
    [] OTHER ->
         t.at = "root" /\ GoodGit(t) /\ t.policy /\ t.row /\ t.marker /\ t.owner
         /\ t.children = Children

\* A root that was renamed before its phase was recorded is accepted as it is.
Relocated(t) == intent.phase = "target_checked_out" /\ t.at = "root"

Accepted(p) == EffectsHold(T(p)) /\ (Relocated(T(p)) \/ BindingHolds(T(p)))

-----------------------------------------------------------------------------
(* Effects *)

\* An effect becomes visible whole: files and directories are prepared under
\* another name, synced and renamed without replacement.
Effect(p, t) ==
  /\ At(p, "fenced")
  /\ Accepted(p)
  /\ tree' = [tree EXCEPT ![proc[p].key] = t]
  /\ UNCHANGED <<owner, intent, registered, requests, proc, crashes>>

\* ensure_staging_directory.
StagingDirectory(p) ==
  /\ At(p, "fenced")
  /\ intent.phase = "reserved"
  /\ T(p).at = "nowhere"
  /\ Effect(p, [T(p) EXCEPT !.at = "staging", !.stage = Directory])

\* The stage the effect of a phase ends with.
Goal == [staging_directory |-> GitReady, git_initialized |-> RemoteReady,
         remote_configured |-> Object, target_fetched |-> Clean]

\* initialize_git, configure_remote, fetch_target and
\* checkout_target, command by command: what a stop left is continued.
Stage(p) ==
  /\ At(p, "fenced")
  /\ intent.phase \in DOMAIN Goal
  /\ T(p).stage < Goal[intent.phase]
  /\ Effect(p, [T(p) EXCEPT !.stage = @ + 1,
                            !.sha = IF T(p).stage + 1 >= Object THEN intent.sha ELSE @])

\* publish_root: rename_noreplace.
PublishRoot(p) ==
  /\ At(p, "fenced")
  /\ intent.phase = "target_checked_out"
  /\ T(p).at = "staging"
  /\ Effect(p, [T(p) EXCEPT !.at = "root"])

\* copy_policy: the exclusion and the file, each replaced or created whole.
CopyPolicy(p) ==
  /\ At(p, "fenced")
  /\ intent.phase = "root_published"
  /\ ~T(p).policy
  /\ Effect(p, [T(p) EXCEPT !.policy = TRUE])

\* provision_rift: registered roots get their marker back; a marker alone is
\* removed and rift init runs, which a stop may leave half done.
ProvisionRift(p) ==
  /\ At(p, "fenced")
  /\ intent.phase \in {"policy_published", "rift_initialized"}
  /\ ~(T(p).row /\ T(p).marker)
  /\ IF T(p).row
     THEN Effect(p, [T(p) EXCEPT !.marker = TRUE])
     ELSE \E r \in BOOLEAN, m \in BOOLEAN, i \in {T(p).inode, 1} :
            /\ r \/ i = T(p).inode
            /\ r \/ m
            /\ Effect(p, [T(p) EXCEPT !.row = r, !.marker = m, !.inode = i])

\* write_owner_marker: published once, compared afterwards.
WriteOwnerMarker(p) ==
  /\ At(p, "fenced")
  /\ intent.phase = "rift_verified"
  /\ ~T(p).owner
  /\ Effect(p, [T(p) EXCEPT !.owner = TRUE])

\* provision_child_roots.
ProvisionChild(p) ==
  /\ At(p, "fenced")
  /\ intent.phase = "owner_published"
  /\ \E c \in Children \ T(p).children :
       /\ c = "integration" => "development" \in T(p).children
       /\ Effect(p, [T(p) EXCEPT !.children = @ \cup {c}])

-----------------------------------------------------------------------------
(* Phases *)

\* The effect of the current phase is on disk.
Complete(p) ==
  CASE intent.phase = "reserved" -> T(p).at = "staging"
    [] intent.phase \in DOMAIN Goal -> T(p).stage >= Goal[intent.phase]
    [] intent.phase = "target_checked_out" -> T(p).at = "root"
    [] intent.phase = "root_published" -> T(p).policy
    [] intent.phase \in {"policy_published", "rift_initialized"} -> T(p).row /\ T(p).marker
    [] intent.phase = "rift_verified" -> T(p).owner
    [] intent.phase = "owner_published" -> T(p).children = Children
    [] OTHER -> TRUE

\* sync_plan_effects.
Sync(p) ==
  /\ At(p, "fenced")
  /\ Accepted(p) /\ Complete(p)
  /\ Goto(p, "synced")
  /\ UNCHANGED <<owner, intent, registered, requests, tree, crashes>>

\* The binding captured with the next phase: of the staging directory, of the
\* published root, of the root rift init left; otherwise the one stored.
NextBinding(p) ==
  IF intent.phase \in {"staging_directory", "target_checked_out", "policy_published"}
  THEN [at |-> T(p).at, inode |-> T(p).inode]
  ELSE intent.binding

NextPhase == CHOOSE n \in DOMAIN Phases : n > 1 /\ Phases[n - 1] = intent.phase

\* update_lifecycle.
UpdateLifecycle(phase, binding) ==
  intent' = [intent EXCEPT !.phase = phase, !.binding = binding]

\* advance: update_lifecycle after the sync.
Advance(p) ==
  /\ At(p, "synced")
  /\ intent.phase # "child_roots_published"
  /\ UpdateLifecycle(Phases[NextPhase], NextBinding(p))
  /\ Goto(p, "fenced")
  /\ UNCHANGED <<owner, registered, requests, tree, crashes>>

\* Mutant of PersistReady: the commit this command saw is registered.
PersistReadySeen(p) ==
  /\ At(p, "synced")
  /\ intent.phase = "child_roots_published"
  /\ registered' = [sha |-> proc[p].sha, home |-> intent.home]
  /\ intent' = None
  /\ Goto(p, "done")
  /\ UNCHANGED <<owner, requests, tree, crashes>>

\* persist_ready: the intent is replaced by the registration.
PersistReady(p) ==
  /\ At(p, "synced")
  /\ intent.phase = "child_roots_published"
  /\ registered' = [sha |-> intent.sha, home |-> intent.home]
  /\ intent' = None
  /\ Goto(p, "done")
  /\ UNCHANGED <<owner, requests, tree, crashes>>

\* The command stops; the kernel releases the fence.
Crash(p) ==
  /\ proc[p].pc \notin {"idle", "done", "refused"}
  /\ crashes < MaxCrash
  /\ crashes' = crashes + 1
  /\ Goto(p, "idle")
  /\ UNCHANGED <<owner, intent, registered, requests, tree>>

Step(p) ==
  \/ Preflight(p) \/ Ask(p) \/ FindReady(p) \/ LoadIntent(p) \/ FindNothing(p) \/ Reserve(p) \/ Fence(p)
  \/ StagingDirectory(p) \/ Stage(p) \/ PublishRoot(p) \/ CopyPolicy(p) \/ ProvisionRift(p) \/ WriteOwnerMarker(p)
  \/ ProvisionChild(p) \/ Sync(p) \/ Advance(p) \/ PersistReady(p)

Next == \E p \in Procs : Step(p) \/ Crash(p)

Spec == Init /\ [][Next]_vars

\* A command that runs goes on, and one that stopped is repeated by its user.
FairSpec == Spec /\ \A p \in Procs : WF_vars(Step(p))

-----------------------------------------------------------------------------
(* Properties *)

\* Types of the rows, the commands and the directories.
TypeOK ==
  /\ owner \in Keys \cup {None}
  /\ intent \in Intent \cup {None}
  /\ registered \in [sha : Shas, home : {Home[p] : p \in Procs}] \cup {None}
  /\ requests \in [Procs -> Absent..MaxKey]
  /\ proc \in [Procs -> Proc]
  /\ tree \in [Keys -> Tree]
  /\ crashes \in 0..MaxCrash

\* What a stop leaves, at every point of every effect, passes the verification of
\* the next command: a registration is never stuck (verify_completed_effects,
\* verify_stored_provisioning_binding).
NeverStuck == \A p \in Procs : At(p, "fenced") => Accepted(p)

\* A recorded phase is backed by its effects although no lock covers the disk and
\* the database together.
PhaseBacked == intent # None => EffectsHold(tree[owner])

\* Every command, from whichever bootstrap checkout, ends with the same key, and
\* no other key has a directory.
OneRepository ==
  /\ \A p \in Procs : requests[p] \in Keys => requests[p] = owner
  /\ \A k \in Keys : tree[k].at # "nowhere" => k = owner

\* The root that is registered is complete and has the commit reserved first,
\* whatever later commands saw on the remote.
ReadyIsExact ==
  registered # None =>
    LET t == tree[owner]
    IN  /\ t.at = "root" /\ t.stage = Clean /\ t.sha = registered.sha
        /\ t.policy /\ t.row /\ t.marker /\ t.owner /\ t.children = Children

\* A command that ends without error has a registered repository in its own storage
\* root.
DoneIsRegistered ==
  \A p \in Procs : At(p, "done") => registered # None /\ registered.home = Home[p]

\* What a registration relies on, wherever another one stopped.
RegistrationExact ==
  TypeOK /\ NeverStuck /\ PhaseBacked /\ OneRepository /\ ReadyIsExact /\ DoneIsRegistered

\* A reservation always becomes a registration.
Registers == (intent # None) ~> (registered # None)
=============================================================================
