# A TLA+ model of iq

iq is a durable Git integration coordinator. It takes branches submitted to a
queue, composes each with the current target branch (with the help of a coding
agent that runs in a sandbox), reviews and validates the result and lands it on
the canonical target with a compare-and-swap push. Everything it decides is a
row in one SQLite database, so that a process may die at any point and another
one goes on.

This directory holds TLA+ modules for its core protocols, TLC configurations
that check them on small instances, and TLAPS proofs of the most important
results for every value of the constants.

    tlc -workers 2 -config MCEffort.cfg MCEffort      # one run
    tlapm EffortProofs.tla                            # the proofs of one module

`PROJECT.json` lists the components, the runs, the mutants (small faults that
each property is known to catch), the source lines of every definition, the
hazards and the theorems.

## 1. The system

### Components

| Component | Source (under `src/src/`) | State it keeps | Operations | Module |
| --- | --- | --- | --- | --- |
| Integration effort | `control_store.rs`, `control_domain.rs`, attempt rows in `lib.rs` | `integration_efforts` (tagged state, failure count, attempt, target, composition), cycles, candidate evidence, reviews, guidance requests, attempt evidence columns | prepare and start a cycle, consume a failure, accept a result, record, review, reject a candidate, validate, sign off, begin, release and finish a landing, move the target, block, retry, cancel, rebind | `Effort` |
| Agent runner | `agent_runner.rs`, `control_store.rs` 1469-1863 and 3888-4058, `lib.rs` 15249-15440 | launch record with spawn authority, runner termination debt, the systemd unit, its admission gate | prepare, surrender, recheck, spawn, record the start, open the gate, supervise, close, abort, resume after a restart, cancel, reconcile | `RunnerLaunch` |
| Landing | `lib.rs` 17946-19060, 15905-16193, 20690-20985 | landing states of the effort, target SHA of the attempt, the target branch itself | fetch, decide, sign off, prepare, release, push, confirm, reconcile, move the target, recompose | `Landing` |
| Provider integration | `lib.rs` (`integrate_provider_item`, `reconcile_provider_landing`) | candidate, signoff and landing guarantee of a merge request item; the request at the provider | pass the gates, sign off, move the base, reconcile an open landing | `ProviderLanding` |
| Queue | `lib.rs` 4302-5155, 6036-6317, 15132-15208 | queue items, claims, repository state (enabled, draining, disabled) with its captured obligations | admit, choose, claim, project, block, resume, cancel, clean up, drain, disable | `Queue` |
| Repository lease | `lib.rs` 5157 ff., 14346-14407, 20690 ff. | lease row, `flock` on `.git/iq-operation.lock`, running commands | acquire, renew, authorise and supervise a command, release, take over | `RepoLease` |
| Development workspaces, local submission | `composition.rs`, `lib.rs` 6320 ff. | workspace row, Rift on disk, submission intents, staging and private refs | create, submit, replay, replace, remove, clean up | `Submission` |
| Registration | `repository.rs` | provisioning intent with its phase, bootstrap records, owned root on disk | find or reserve a key, fence, stage, publish, initialise, register | `Provisioning` |
| Replication | `composition.rs` 2352-2765, `lib.rs` 4930-5053, 6582-6847 and 16195 ff. | sequenced replication debt, pinned refs | record, push, supersede, clean up | `Replication` |
| State repository projection | `state_repository.rs`, issue adapters in `lib.rs` | reservation outbox, artifact row, projection debt, comment receipts | reserve, ingest answers, project, settle, alert | `StateProjection` |
| Database authority | `control_store.rs` (`DatabaseProcessLease`), `lib.rs` (`SqliteQueue::open`) | lock file, database file | lease, validate, hand over, publish a fresh database | `DatabaseLease` |
| Migration | `lib.rs` (`migrate_schema3` to `5`) | database, backup, candidate, publication state | back up, convert, exchange, validate, recover | `DatabaseMigration` |
| Control API | `control_api.rs`, `main.rs` | connections, permits, stream registry, event cursors | accept, answer, stream, time out, shut down | `ControlApi` |
| Daemon start | `control_api.rs` (`bind`), `main.rs` (`run_daemon_config`) | daemon lease, control socket | lease, probe, remove, bind, recover, serve, unwind | `DaemonStart` |
| Notifications | `notifications.rs` | delivery rows with claims and attempts | alert, claim, start, finish, recover, redeliver, purge | `Notifications` |
| Terminal cleanup, private refs | `lib.rs` 6564 ff. | cleanup debt per ref | record, delete, complete | partly in `Effort`, `Replication` |
| Git commands | `git_command.rs` | none of its own | run | supervision in `RepoLease` |
| Agent protocol files, configuration, file system | `agent_protocol.rs`, `agent_config.rs`, `repository_policy.rs`, `secure_fs.rs`, `git_object.rs` | none of their own | read, write | not modelled |

### Interactions

All components meet in the database. Every public operation of `ControlStore`
is one immediate transaction that re-reads the effort it changes; triggers
(`control_store.rs` 5790 ff.) check legal transitions and that the cycle,
evidence and review a state names exist. The actors are:

- the **integrator** (a command-line run, or a round of the daemon), which holds
  `.git/iq-operation.lock` and a lease while it works on a repository;
- the **reviewer** and the **operator**, whose approval, answer, cancellation and
  retry take no lock and may come at any moment;
- the **daemon**, which reconciles unfinished cancellations when it starts, and
  then in every cycle reserves issues, reads answers, projects and runs the queue;
- the **developer**, whose `submit`, `remove` and `create` are processes that may
  stop between two effects and are repeated;
- **clients** of the control socket and **dispatchers** of notifications;
- **systemd**, which runs the agent's service and outlives all of them;
- the **canonical repository**, which others push to as well.

### What is hard

Between two transactions, or a transaction and an external command, every
other actor may act. The external commands (`systemd-run`, `git push`) take
effect later than they are issued, after the process that issued them died, or
never. The states that bridge this (launch authority, landing authority,
termination debt, pending target movement) must be right under each such
order, and tests reach few of them. The list of hazards with their lines is in
`PROJECT.json`; the properties below were chosen from it.

What makes each component correct:

- *effort*: only what was reviewed, validated and signed off on the current
  target lands; no request outlives its work; the failure count and its limit
  agree; no operation is aborted by a trigger or a constraint;
- *runner*: no agent runs that no durable row accounts for, cancellation is
  final and its debt is settled in the end;
- *landing*: at most one candidate of an item enters the branch, directly after
  the target it was built on, and its fate is known in the end;
- *provider landing*: what passes the gates is the candidate that was signed off
  on the base the provider named last, and an open landing is never given up;
- *queue*: FIFO per target, one claim at a time, draining covers all work there
  is, and a ready head is served although another target is blocked;
- *lease*: a supervised command holds the lock and a row that lives;
- *submission*: one live submission with its exact commit and a receipt that
  can be read again; no work leaves the disk unasked;
- *registration*: commands that stop anywhere and race end in one repository;
- *replication*: a replica never moves back, and catches up in the end;
- *projection*: one issue, every event on it once, closed in the end or alerted;
- *database*: a migration has the file alone, loses nothing wherever it stops,
  and ends when it is repeated;
- *control API and daemon*: one server at a time, no permit or stream leaks,
  a client that resumes misses no event, and the server ends when told to;
- *notifications*: an alert is shown once per delivery, and deliveries settle.

## 2. Modules

| Module | What it is |
| --- | --- |
| `Effort`, `EffortProofs` | the effort aggregate, all actors interleaved; its theorems |
| `RunnerLaunch`, `RunnerLaunchProofs` | launch and cancellation of an agent cycle as a systemd service; its theorems |
| `Landing`, `ExactLanding`, `LandingProofs` | landing a candidate on the canonical target; what it promises; the theorems of both landings, with the refinement |
| `ProviderLanding` | a merge request item at the gates, and reconciliation of an open landing |
| `Queue`, `QueueProofs` | the queue of one repository, with draining; its theorems, and those of the other parts of `MCRepository` |
| `RepoLease`, `RepoLeaseProofs` | the operation lease of a repository, with time; its theorem |
| `Submission` | one development workspace and its submissions |
| `Provisioning` | registration of one repository |
| `Replication`, `ReplicationProofs` | replication of landings to one target of one replica; its theorems and that of `StateProjection` |
| `StateProjection` | the issue of an item |
| `DatabaseLease`, `ProcessLease`, `HostProofs` | the process fence of the database; what it promises; its theorems, with the refinement, and those of the other parts of `MCHost` |
| `DatabaseMigration` | offline migration of the database |
| `ControlApi`, `ApiProofs` | the local server and its event stream; its theorem |
| `DaemonStart` | how a daemon takes and gives up its place |
| `Notifications` | delivery of alerts |
| `MCEffort`, `MCRunnerLaunch`, `MCLanding` | TLC instances of one module |
| `MCBothLandings` | TLC instance of `Landing` and `ProviderLanding` |
| `MCReplication` | of `Replication` and `StateProjection` (three times) |
| `MCRepository` | of `Queue`, `Submission`, `RepoLease` and `Provisioning` |
| `MCHost` | of `DatabaseLease`, `DatabaseMigration`, `DaemonStart`, `ControlApi` (twice) and `Notifications` |

The last four instance modules put components that share one resource side by
side. Each behaviour is about one of them (`part`, or `policy`); the others keep
their first state, because each module already holds the shared resource in the
form it needs. Such a run explores the sum of the state spaces and not their
product; nothing is concluded from it about two components acting at once. Where
the interaction of two components matters it is inside one module: the admitting
command beside the daemon in `StateProjection`, the operator and the queue in
`Submission`, integration, draining and cancellation in `Queue`.

### Effort

One action is one operation of `ControlStore`, or of the attempt row in
`lib.rs` that belongs to it. `eff` is the tagged JSON state with its payload:
`ResumeState` and `EffortState` are the enums of `control_domain.rs`, and a
blocked state carries the state it will resume. `last` and `cycles` are the
cycle rows, `evidence`, `reviews` and `guidance` the rows of these tables, `att`
the evidence columns of the attempt, `pinDebt` the cleanup debt of its landing
ref. A candidate SHA is abstracted to what it commits to: cycle, parent target
and tree. `UpdateState` is `update_state_and_count` with its refusal to drop
external landing authority. `start_candidate_build` and
`reset_interrupted_candidate_build` have no caller in the integrator and are
left out, and so are receipts and the event log.

### RunnerLaunch

The steps of `OpenCodeRunner::run` are split wherever another actor can act:
prepare, surrender, recheck, spawn, wait, record, open the gate, supervise,
finish; on failure abort and acknowledge. `child` is `systemd-run`, which
survives its parent, `unit` the service and `gate` the pipe from which the
sandbox helper reads `run` before it executes the agent: a dead launcher closes
the pipe. `Crash` kills an iq process at any step. `Cancel` is
`cancel_effort_transaction`, which leaves a `debt` row, and the three steps of
`reconcile_cancelled_runner_termination` are separate actions because the row
may change between them. `LockFree` is the operation lock: launching and
resuming take it, cancelling and reconciling do not. The effort itself is
reduced to ready, launching, running, done and cancelled. A process identity
(pid and start ticks) is a process, which never returns; a launch operation,
its unit and its cgroup are the cycle. Legacy scopes, the publication of the
result and the contents of the sandbox are left out.

### Landing

`line` is the first-parent history of the canonical target: position `i` holds a
candidate of the item or 0 for anybody else's commit, and a tip SHA is the
length of the branch. `proc` is the one run of `integrate_item` that the
operation lock admits, with what it has read; `flight` holds the pushes that
left. A push is a child in its own process group: it may arrive after its run
died or gave up. It lands when the target is still the expected one
(`--force-with-lease`), and is refused otherwise; the run hears of it, or not.
Only the porcelain report `[rejected] (stale info)` counts as a definite
refusal. Composition, review and validation are one step, `Compose`; a
movement of the target under review and ref cleanup are in `Effort`.
`ExactLanding` sees only the branch and what the item shows (open, integrated,
cancelled); the mapping is `Abstract` in `Landing`.

### Replication

`debts` are the `replication_debt` rows of one destination and target, by
sequence number, which stands for the source SHA as well; `replica` is what the
target points at, 0 while the ref does not exist. `run` is the one execution of
`reconcile_replication_debt` that the operation lock admits, split at every git
command and every transaction, with the observation it acts on. `Start` takes any
debt: `iq replication retry` names one, a daemon round takes the first open one
(`StartHead`). Pushes in `flight` behave as in `Landing`. Others may write to the
replica at any moment, but never a commit that it has shown before: after a
rewind of the replica to the very SHA some late push expects, a lease cannot
tell the difference. The supersession of a debt needs a newer completed one,
which `FinishedInOrder` shows never to exist in rows this program wrote (a
migration copies rows unchanged; the test of that branch writes the row itself),
so it has no action.

### ProviderLanding

Every query to the provider is a step of its own, and between two of them people
push to the branch, retarget or merge the request, rename the repository or push
to the target. The gates end without a landing, for no adapter can pin the base;
a row migrated from an earlier version may be uncertain, and is reconciled
against the commit the provider names. `merge_resumed` events are no longer
recorded and `revalidate_moved_base` is reached by no call; both are left out.

### Queue

Items are numbered in the order of admission. `runner` is the one run of
`run_once`; it reads the head of each target, chooses, and claims in a
transaction of its own, so that a cancellation comes in between. `op` is the
repository's operation state with the obligations that draining captured.
`oldest_active_item`, `has_active_predecessor` and the projection of the effort's
state are translated as they are; the effort itself is what
`project_queue_state` shows of it. With `ClockSteps` the wall clock may step back
between two admissions.

### RepoLease

Time is a counter. `Ttl`, `Poll`, `Reserve` and `Grace` are the constants of
`lib.rs` in small; a process that is not stalled does what is due before time
goes on, one that is stalled does nothing and finds its row expired. A command
is a child in its own process group. The rows of the physical repositories are
written by the same transactions with the same values: one row stands for them.

### Submission

One workspace: its row, its Rift on disk, the submissions made from it and what
their items show. Every command reads what it reads before it takes the guard,
and may stop between any two effects (intent, staging ref, private ref, item,
status; row, Rift, branch, identity). The developer edits and commits at any
moment, the root moves, the item is blocked, retried, lands or ends. Discarding
residue file by file, the loop of `cleanup_repo` and the replacement of
integration Rifts are left out.

### Provisioning

Commands from several checkouts find or reserve a repository key; who holds the
fence takes the owned root from phase to phase, an effect on disk first and the
durable phase after it. A stop may come inside an effect. `tree` is what is on
disk, `intent` the reservation with the bindings (path and inode) it recorded,
`requests` the bootstrap records. `rift init` is external: it registers the root,
writes its marker and may replace the directory.

### StateProjection

One item with its effort, event log, binding, artifact, projection debt and
receipts, and the provider's issues. Each provider command may fail with or
without effect, and each process may die between two steps. The provider's issue
search is assumed to be exact. A slow admitting command may overwrite the body
of the issue with an older one; the next projection writes it again.

### DatabaseLease and DatabaseMigration

The fence is a lock file that may not exist yet, so that the database file is
locked first, while a migration exchanges that very file: `flock` belongs to the
inode and not to the path. `ProcessLease` is the promise (shared by many or held
by one), and `IsLease` the refinement. `DatabaseMigration` has the steps of the
three migrations: backup, candidate, publication state, exchange, validation,
clean-up, and the recovery of an interrupted publication; the database that was
published may be damaged or used before the recovery looks at it. A database
file is its schema and the work in it; the conversion of rows is left out.

### ControlApi and DaemonStart

One accept loop, a worker per connection, a producer per watch with a bounded
queue, a socket with room for some frames, and clients that stop reading, go
away, send nothing or send a bad frame. An error of one worker ends the server
for all, by design (`control_api.rs` collects the first error and shuts down).
Clients connect a bounded number of times: with no bound they could keep the
loop accepting. `DaemonStart` has the order of lease, probe, removal, bind, mode,
recovery of deliveries and service, and the order in which a failing daemon
gives them up. A death between bind and chmod leaves a socket of another mode at
which later starts fail; `Begins` names that exception.

### Notifications

A dispatcher claims a row, runs the backend and stores the outcome in three
transactions, and may die between them. Times are two flags: the event is too
old, the next attempt is due.

## 3. Runs

| Run | Configuration | States | Shows |
| --- | --- | --- | --- |
| `effort` | `MCEffort.cfg` | 1.05 M | the whole life of an effort |
| `runner` | `MCRunnerLaunch.cfg` | 480 k | launch and cancellation with three processes |
| `landing` | `MCBothLandings.cfg` | 145 k | landing directly and through a provider, safety and liveness, refinement |
| `replication` | `MCReplication.cfg` | 250 k | replication and projection, safety and liveness |
| `repository` | `MCRepository.cfg` | 1.42 M | queue, submission, lease and registration, safety |
| `repository_progress` | `RepositoryProgress.cfg` | 86 k | the same, liveness |
| `host` | `MCHost.cfg` | 1.29 M | database, daemon, server and alerts, safety, refinement |
| `host_progress` | `HostProgress.cfg` | 54 k | the same, liveness |
| `effort_next_cycle`, `effort_guidance`, `runner_orphan`, `landing_second_move` | `EffortNextCycle.cfg`, `EffortGuidance.cfg`, `RunnerOrphan.cfg`, `LandingMove.cfg` | | one disagreement each, see below |

### Properties

Several properties are conjunctions whose parts are named definitions with a
comment of their own; TLC names the part that fails.

*Effort.* `RelatedState`: the trigger that relates state, cycle, evidence and
review never has to abort an operation, also when a state suspended long ago is
resumed. `EvidenceExact`: only git's own clean merge goes unreviewed
(`ReviewNotSkipped`), and the attempt's columns never mix two candidates
(`EvidenceCurrent`). `NothingStale`: no open review, question or cycle belongs to
work that is gone (`NoOrphanRequest`), a landing ref is never deleted while in use
(`CleanupBeforeReuse`), no failure is counted twice (`CountedOnce`).
`LandingAuthorized`: what lands was recorded, reviewed, validated and signed off
on the target it replaces. `AutomaticCycleLimit`: failure count and limit agree.
`LegalTransition`: no operation attempts what the transition trigger aborts.
`ExternalAuthorityKept`: a push of unknown outcome is never forgotten.

*RunnerLaunch.* `LaunchExact`: an agent runs only for the running cycle or as the
debt of a cancelled one, never two at once (`AgentAccounted`), and nobody resets
or settles a launch behind the back of a live launcher (`AuthorityHeld`).
`CancelKept`: closed spawn authority stays closed, and nothing revives a
cancelled effort. `CancelSettles`: termination debt goes away in the end, unless
the launcher gave up without closing its authority and lives on; the debt then
waits for that process to exit.

*Landing.* `LandedOnBase`: a candidate directly follows the target it was composed
and validated on. `ReleaseRecorded`: a push that can still land, or has, is
recorded. `LandsOnce`: the refinement of `ExactLanding`. `LandedKnown`: when a
candidate is on the branch, the item is integrated in the end. *ProviderLanding.*
`ProviderExact`: the candidate at the last gate is the one signed off, on the base
named after signoff; an integrated item names the commit that merged its request,
with the validated tree on the validated base; an open landing is never given up.
`ProviderSettles`: an exact landing is recorded in the end, and cycles over a head
that moved end at the limit (a pending target move excepted, which is refused
both the rejection and the block).

*Replication.* `InOrder`: a debt is applied only after all older ones are finished,
a push that can still change the replica belongs to an open debt, a debt counts as
applied only if the replica was seen to have it, and no push takes the replica
back. `PinHeld`: a source is pinned from before it may be pushed until its
application is durable, and no pin outlives its debt. `DebtSettles`: once failures
stop, every debt succeeds, unless others wrote to the replica between the intent
and the push; such a debt stays uncertain and later debts wait behind it, as
`integrator_tests.rs` 1175-1222 wants. *StateProjection.* `ProjectionExact`: one
issue, every event that its visibility shows on it exactly once, a row that says
closed is true, no request is answered twice. `ProjectionSettles`: the issue of an
effort that ended is closed, or the operator is alerted.

*Queue.* `QueueOrder`: one item in flight per target, one active item per source,
claims strictly in order whatever happens between the choice and the claim, a
landing at the provider is not cancelled, and what ended stays so. `Draining`: while
a repository drains every active item is one of its obligations, a disabled one
owes nothing, and every workspace on disk has an owner. `HeadServed`: a ready head
is claimed or withdrawn although another target is blocked.

*Submission.* `SubmissionExact`: one live submission per workspace, with refs at its
exact commit; its receipt can be read again; no changed file and no commit that is
not integrated leaves the disk unasked (a commit made after HEAD was compared
excepted, `late`); a draining repository gets no item. `SubmissionFinishes`: an
interrupted submit or creation that is repeated ends. *RepoLease.* `CommandExact`: a
supervised command runs under the lock, its row has not expired while the
supervisor is not stalled, and nobody takes or deletes the row of a process that
lives. *Provisioning.* `RegistrationExact`: what a stop leaves is accepted by the next
command, a recorded phase is backed by the disk, there is one key and one
directory, and what is registered is complete and at the commit reserved first.
`Registers`: a reservation becomes a registration.

*Database.* `LeaseExact`: a migration has the database alone, what others validated
and wrote is the database at the path, and the fence implements `ProcessLease`.
`MigrationExact`: at every stop the path or the candidate has a readable database, a
migrated one has its backup, a recovery can decide, and work committed in a
published database is not taken back. `Migrates`: a repeated migration ends.

*Daemon.* `DaemonExact`: one daemon serves, the socket path leads to it, and it never
takes a delivery of a living daemon for abandoned. `ApiExact`: permits are held by
running workers only, nothing runs and no error is lost when the server has
returned, a shutdown reaches every worker, and a client that resumes reads every
event once, in order. `DaemonStops`: a daemon that has its lease begins, and its
server ends with all its threads. `NotifiedOnce`: an alert is shown at most once per
delivery, attempts are counted over restarts, two processes never run the same
delivery, and no item is purged under a running command. `DeliveriesSettle`: every
delivery is settled.

### Bounds

- `MCEffort`: two targets (symmetric), so that the target moves away and back;
  limit 2 and four cycle numbers, so that the limit is reached, reset and
  reached again and the range is exhausted; two attempts, so that a replacement
  meets the rows of its predecessor. The code has limit 10 and 255 numbers,
  which the proofs cover.
- `MCRunnerLaunch`: three processes, so that a second takes over from a dead
  one and a third from it; two cycles, so that a late service of the first
  meets the launch of the second. The last live process does not crash.
- `MCBothLandings`: three candidates and a branch of six commits, so that two target
  moves separate three candidates and a push of the first may still be under
  way when the third is built; for a provider, three commits and four candidates,
  so that base and head both move and the cycle limit of 2 is reached, and one
  failed command or death.
- `MCReplication`: three debts, so that one is finished, one in doubt and one
  blocked behind it; one foreign commit. For an issue up to four events and two
  failed commands with a debt limit of 2 (`IssueSetups` has the daemon alone, minimal
  visibility, and the admitting command beside it), so that projection fails halfway, is
  retried and exhausts its debt; one comment, read twice.
- `MCRepository`: three items from two sources for one target, so that a choice
  made before a cancellation meets the next two, and two items of two targets in
  the progress run; two submissions and two processes with one stop and one
  removal; two operations with a time to live of 6, one stall and one death; two
  registrations in one storage root and one in another (`TwoRoots`), with two stops.
- `MCHost`: two openers, one sharer and two migrators on three inodes with two
  stops; two migrating commands with four stops and two damages; four daemon
  processes in two places; two clients and one permit; one client that resumes
  three times over seven events; one alert, a dispatcher beside the daemon, two
  backends of which a configuration may name any (`Configs`), two tries and one
  delivery again, so that tries are used up, counted over a death and begun anew.

Symmetry is over processes that are compared for equality only, in runs without
liveness. Every cap is a constant in the guard it bounds. Deadlock checking is
off: efforts, commands and servers end, and the caps end the rest.

### Fairness

`Effort`, `RepoLease` and `DatabaseLease` have none. In `RunnerLaunch` a live process
continues what it began (agent cycles have a timeout), systemd does what it was
asked, and a cancellation with open debt is repeated: `composition.rs` 857-877
does so on every repeated cancellation, `main.rs` 2107 when the daemon starts
(`docs/adr/0009`: "Daemon startup and a repeated cancellation use the same
reconciler"). Failures, crashes, cancellation, launching and resuming are not
fair. In `Landing` the daemon takes up an open item again (`Start`), a run goes
on (`Step`), the operator retries a blocked item (`Retry`), and fetching,
deciding, recording the integration and recomposing are not cut off every
single time (strong fairness, for a run may crash before each of them). Without
the last, a crash in every round would keep any item open. `ProviderLanding` is
weakly fair in the same four (a crash is bounded there). In `Replication` a run
goes on (`Step`), a push is delivered unless it is lost (`Delivery`), and the
daemon, which reconciles at the start of every round (`lib.rs` 15154), gets its
turn between the retries of operators (`StartHead`, strong, for it needs the
operation lock). `DebtSettles` assumes that failures stop some day (`Calm`).

The daemon's loop is fair in `StateProjection`, `Queue` (`HeadServed` assumes that
the operator is away from some time on, `Settled`) and `Notifications`; time
passes. In `Submission` a started command goes on, and a command that was
interrupted is repeated, as `docs/composition-workspaces.md` asks the developer to;
this is strong, for the guard may be busy. In `Provisioning` and `DatabaseMigration`
the command is repeated; the latter is strong, for it waits for the lease. In
`ControlApi` the threads of the server run and its time limits pass; nothing is
assumed of clients.

### Disagreements

Each of these has a run that shows it:

1. **A taken cycle number** (`effort_next_cycle`). `reject_candidate`
   (`control_store.rs:3498`) numbers the next cycle by the failure count, all
   other transitions by `MAX(cycle_number)+1`. After a cycle that was not
   counted, the number is taken and `prepare_cycle_launch` fails on its UNIQUE
   constraint every time.
2. **The last question** (`effort_guidance`). `require_guidance`
   (`control_store.rs:1945`) counts the cycle and stores `guidance_required`. If
   the count reaches the limit, a CHECK aborts the transaction, and the restart
   meets the same result again.
3. **An orphaned systemd-run** (`runner_orphan`). Debt of a surrendered launch is
   settled once the launcher is dead and the unit missing
   (`control_store.rs:3956`), while `docs/adr/0009` has a missing unit terminal
   only after spawn authority is closed. The late service runs no agent, its
   gate being at end of file: `AgentAccounted` holds.
4. **A second target move** (`landing_second_move`). If a run stops between
   recording a movement and completing the recomposition, and the target moves
   again, `begin_target_move` refuses the newer target (`control_store.rs:3321`)
   and every later run fails there until the item is cancelled.

The following disagreements were met in the same way, by adding the property named
to the configuration of its module. The property is defined and commented in the
module; no run is kept for it. Line numbers are those of `src/src`, docs those of
`src/docs` (`prd` is `prd-integration-agent-control-plane.md`, `cw` is
`composition-workspaces.md`).

5. `Queue!ProviderRetried` (`lib.rs:4518`): while the oldest blocked head waits for
   its user, a younger head of another target that only waits for the provider is
   never reconciled by the daemon; `README.md:143` says a blocked target does not
   block work for a different target.
6. `Queue!StrictFifo` with `ClockSteps` (`lib.rs:4568`): the order is the wall clock;
   after a step back the later admission is claimed first. `README.md:143`: "Queue
   FIFO is strict for each repository and target ref."
7. `Notifications!AgedExpires` (`notifications.rs:105`): a delivery whose backend is no
   longer configured stays claimed until the daemon restarts. `prd:220`: "A delivery
   that exceeds configured event age becomes `expired`."
8. `RepoLease!Serialized` (`lib.rs:20851`): a command outlives its dead supervisor,
   and the next operation runs its own beside it. `README.md:141`: "Repository
   operation leases serialize mutation for one repository".
9. `StateProjection!OneIssue` beside the admitting command (`state_repository.rs:240`):
   both search before either creates, and both create. `prd:199`: "one issue per
   queue item".
10. `StateProjection!TerminalSettles` with minimal visibility
    (`state_repository.rs:161`): a cancellation between the reads of effort and
    events is commented and recorded as projected while the issue stays open for
    good. `prd:132`: closed "at `integrated` or `cancelled`".
11. `StateProjection!DroppedCloses` (`control_store.rs:2157`): an item cancelled before
    its effort exists keeps its reserved issue open. `prd:133` has terminal closure.
12. `ControlApi!TypedEnd` (`control_api.rs:665`): a slow client is cut off without a
    frame, and its error ends the server for all. `prd:213`: "then a typed
    disconnect with the last sent cursor".
13. `Submission!ReceiptReplays` (`composition.rs:1321`): `remove` reads the row before it
    takes the guard; a submit that finishes in between leaves a queued item whose
    workspace is being removed and whose receipt cannot be replayed (`cw:27`).
14. `Submission!IntentResumes` (`composition.rs:1329`): an active workspace with an
    incomplete intent can be removed; nothing finishes the intent then (`cw:27`).
15. `Submission!RemovalResumes` (`composition.rs:2049`): the operator's request is
    overwritten before the Rift goes; a removal that stops there cannot be
    repeated (`cw:21`).
16. `Submission!CreationResumes` (`composition.rs:1887`): a creation resumed after the
    root has moved copies another commit and is refused from then on (`cw:19`).
17. `Submission!ReplacementResumes` (`composition.rs:1186`): an item blocked before it
    had an effort can be named by `--replace`; the intent can then neither be
    finished nor its item be cancelled (`lib.rs:4719`).

Kept open on purpose: a definite refusal is known only to the run that heard
it. If that run then fails to fetch or dies, the effort stays uncertain for
good, as `docs/adr/0003` and `docs/repository-policy.md` accept.

## 4. Proofs

Every theorem holds for all values of the constants that satisfy the named
assumptions: bounds are natural numbers, the limits of the code are positive,
sets that are counted are finite, `None` is no value it could be confused with. A
module that a run extends states them as ASSUMEs; a module that is instantiated has
them in the definition `ConstantsOK`, which the instance module assumes of each
instance (`PartsAssumption`, `ProviderAssumption`, `IssueAssumption`,
`AlertsAssumption`, `StartAssumption`, `MigrationAssumption`, `ApiAssumption`). TLC
evaluates all of them. Each inductive invariant was checked by TLC on the constants
of the component's run before it was proved.

The proofs about a component that is instantiated speak of the variables of the
instance module, so that a theorem is about the specification a run checks
(`MCSpec`). `RepoLease` and `ControlApi` are proved about in modules of their own;
`LeaseProofs`, `CrowdProofs` and `WatcherProofs` are the instances of these, and
`SameLease`, `SameCrowd` and `SameWatcher` show that they are about the same
definitions.

| Module | Theorem | States |
| --- | --- | --- |
| `EffortProofs` | `TypeCorrect` | `TypeOK` |
| | `LimitRespected` | `AutomaticCycleLimit` |
| | `OnlyAuthorizedLands` | `LandingAuthorized` |
| | `TriggerNeverAborts` | `RelatedState` |
| | `UncertainLandingKept` | `ExternalAuthorityKept` (action property) |
| | `EvidenceFollowsCandidate` | `EvidenceExact` |
| | `NoLeftovers` | `NothingStale` |
| | `OnlyLegalTransitions` | `LegalTransition` (action property) |
| `LandingProofs` | `ExactBase` | `LandedOnBase` |
| | `PushRecorded` | `ReleaseRecorded` |
| | `Implements` | `LandsOnce` (refinement of `ExactLanding`) |
| | `BothTyped` | `TypesOK` of both landings |
| | `ProviderLandsExact` | `ProviderExact` |
| `RunnerLaunchProofs` | `LaunchTyped` | `TypeOK` |
| | `AgentsAccounted` | `LaunchExact` |
| | `CancellationIsFinal` | `CancelKept` (invariant and action property) |
| `ReplicationProofs` | `InOrderAlways` | `InOrder` (invariant and action property) |
| | `PinsHeldAlways` | `PinHeld` |
| | `IssueExact` | `ProjectionExact` |
| `QueueProofs` | `DrainingLeavesNothing` | `Draining` |
| | `LateStepsHarmless` | `NoCancelOfLanding`, `TerminalStays` (action properties) |
| | `OrderWithSteadyClock` | `QueueOrder`, when `ClockSteps = FALSE` |
| | `CommandsUnderLock` | `CommandExact` |
| | `RegistrationsAgree` | `RegistrationExact` |
| | `SubmissionsExact` | `SubmissionExact` (invariants and action properties) |
| `RepoLeaseProofs` | `CommandsCovered` | the same of `RepoLease` by itself |
| `HostProofs` | `FenceIsLease` | `IsLease` (refinement of `ProcessLease`) |
| | `FenceExact` | `LeaseExact` |
| | `MigrationsExact` | `MigrationExact` |
| | `DaemonsAlone` | `DaemonExact` |
| | `HostNotifiesOnce` | `NotifiedOnce` |
| | `ApiExactAlways` | `ApiExact` |
| `ApiProofs` | `ServedExactly` | the same of `ControlApi`, for every bound on permits, queues and frames |

Every safety property of a passing run, be it an invariant, an action property or a
refinement, is stated by one of these theorems.

### The arguments

`Effort`. `TypeInv` is `TypeOK` with `AutomaticCycleLimit`: the count stays in range
only because an effort at the limit is blocked, and the other way round. The
lemmas named `...Tag` say what the tag of a state implies for its payload.
`LandingAuthorized` is not inductive: `begin_landing_owned` asks only whether
signoff and validation evidence exist, so one has to know that the columns
follow the candidate (`EvidenceCurrent`), and that needs the evidence and review
rows (`RelatedState`). `Authority` is the conjunction of the three. `Leftover` is
proved over both: no candidate is on record while the agent works
(`EvidenceGone`), the debt of a target move is of the candidate it gave up
(`PinIsCandidate`), and a provider blocks only what its reconciliation resumes
(`ProviderResumes`); without these `NoOrphanRequest` and `CleanupBeforeReuse` are
lost by the steps that reuse a number. That no failure is counted twice
(`CountedOnce`) compares the count with the cardinality of the failed cycles and
rests on the library's theorems about finite sets. `LegalTransition` follows
action by action from the tags.

`Landing`. `LandingInv` adds that a candidate on its way is based on the attempt's
target (`EffBased`), that what a run has read is still what the effort names
(`RunCurrent`), that a push names the base of its candidate and is sent once
(`FlightBased`), that numbers are not reused (`CandBuilt`), and that a run told of
a refusal is right (`RefusalDefinite`). The last is what makes it safe to leave
the uncertain state for a target move: the refused push is over, and no other
push of that candidate exists. Under it every step is a step of `ExactLanding` or
none: a landing push is `Land`, `mark_integrated` is `Report`.

`ProviderLanding`. Between two queries of the provider everything it answered may
change, so `RunExact` says what a run may still rely on: the base it compared is
that of the candidate until a movement begins, and a merge it read is the one the
request has, which the provider never takes back. What is about to be recorded
(`LandsItem`) is then the merge of this request, with the tree, the parent and, for
a merge commit, the history that was validated (`LandedExact`). `EffExact` ties the
fields of the row to its phase; that no cycle begins past the limit is a part of it.

`RunnerLaunch`. `LaunchExact` is about an agent and a row that no transaction joins.
`LaunchInv` follows each live process through its steps (`StepExact`): what it has
found or left of the child, the unit and the gate at each of them. The admission
gate closes the window between a started service and its record: it opens only
once the start is recorded (`GateShut`), and a service behind an open gate is
accounted for (`GateExact`). A reconciler acts on a debt it read earlier;
`ReconcilerExact` says why its reading is still good: a service that was stopped
cannot come back, and a launcher found dead stays so. `OneWorks` is the operation
lock.

`Replication`. `FinishedInOrder` says nothing of a debt that was begun and failed,
whose push may still be on its way, so `BegunInOrder` orders the beginnings.
`StartsFromShown` gives every push an expected value that the replica has shown
and that is no younger landing, and `LateHarmless` says that a push of a debt that
is over finds another value than it expects: the compare-and-swap of the replica
refuses it. `RunCurrent` carries what a run has read over its steps. `RowsExact`
is what keeps a failed debt pinned.

`StateProjection`. The projection reads once and writes many times; each write may
fail with its effect, and the next round has only the rows. `CarriedAll` says that
every shown event up to the one a round will record is on the issue or still to be
written by this round, which makes the recorded cursor true (`ProjectedAll`). That
every event is there once, that there is one issue and that a closed row is true hold
when the daemon alone writes (`AloneExact`: it creates where there is nothing, and
shows what it read); beside the admitting command they do not (disagreement 9). An
answer ends the request it is for, so a receipt is never applied twice
(`AnswersExact`).

`Queue`. `DrainInv` is about obligations: a debt of a landing belongs to a
repository that drains (`DrainingCoversDebts`), landing authority is found only at
items that no answer and no cancellation ends (`ExternalLands`), and a workspace
being made was announced (`WorkspaceAnnounced`). It holds whatever the clock does.
`OneInFlight` is not preserved by a cancellation or an admission by itself; that
the item in flight is the head of its target is (`InFlightIsHead`), and this needs
times in the order of admission, hence the hypothesis `ClockSteps = FALSE`. Without
it `StrictFifo` is false (disagreement 6).

`DatabaseLease`. The locks are on two files, one of which a migration exchanges and
the other of which may not exist yet. A process leases the database file only
while there is no lock file; until then no migration can have exchanged the file,
so all who are on their way to the fence wait at the very file it leased
(`NoDetour`), and a migration among them is refused by its lock. With `Compatible`
and `LocksHeld` a migration is alone, and `ValidatedCurrent` and `WorkCurrent`
follow because the path changes only under it. `FenceIsLease` then needs that one
process moves at a time and none goes from one kind of lease to the other.

`RepoLease`. The lock makes its holder the only writer of the row (`LockHeld`,
`BeatAlive`), so what the gate or the last look saw of the row bounds it until the
next look (`Covered`), and a supervisor that is not stalled looks in time (`Tick`).
The hypothesis on the intervals is `Poll <= Reserve` and `Grace = Poll`: all three
are 100 ms in the code (`lib.rs:7510`, `lib.rs:21208`). With `Poll > Reserve` a row
may expire between two looks.

`Provisioning`. `Backed` is what the directory shows in each phase, the half-done
effects of the phase included. Every effect keeps it (one lemma each over
`EffectKeeps`), and an effect that is complete gives it for the next phase
(`AdvanceBacked`, one case per phase). It adds to the verification of the code
that `rift_initialized` is recorded only with row and marker: the binding of that
phase is exact again, so an incomplete root would have been refused for ever.

`Submission`. Commands work one at a time under the guard, but act on a row they read
before they had it. `SubInv` therefore says what any of them leaves when it stops: a
new submission takes a number nobody used (`Numbered`, about the cardinality of the
set of used ones), an item and its submission agree (`ItemsAgree`), refs are made up
to the step of the command that makes them (`RefsAt`), the row is marked before the
Rift goes (`RiftThere`, `RemovalMarked`), and what goes with the Rift is integrated
or asked for (`RemovalAllowed`). That a draining repository gets no item needs
`IntentEnabled`: a repository drains only while no intent is open. `WorkKept` and
`DrainedNoItem` are about one step each (`RiftLeaves`, `ItemAppears`).

`DatabaseMigration`. Files and publication state are tied to the step of the one
command under way (`FromThree`, `FromFour`: the two protocols differ); when none is
under way they are in a state a recovery resolves (`FilesExact`), wherever the last
one stopped. `CommandAlone` is the lease.

`DaemonStart`. Whoever is past the lease has it (`LeaseHeld`), so nobody else touches
what is at the socket path, and a daemon that serves has the listener of that socket
(`ListenerOpen`).

`Notifications`. A command whose dispatcher died may have shown its alert. `RowsExact`
says which rows may have been shown, and that such a row is not tried again;
`DispatchersExact` that a dispatcher whose command may run finds its row as it left
it, or given up by a daemon that started. A row that an operator delivers again is
over (`Chained`), so the newest row of an event and a backend is the only open one.

`ControlApi`. What is on its way to a client is a chain (`Chain`): the frames in the
socket, the frame of a write that is held and the queue of the producer continue each
other from the cursor of the client to that of the producer (`StreamExact`). A watch
may be cut off at any link, and the client resumes from what it has read
(`ReadExact`). `WorkerExact` and `LoopExact` say who is registered and has a permit,
which the shutdown relies on; that permits are the number of workers that run is an
argument about cardinalities.

### Only model-checked

- Liveness (`CancelSettles`, `LandedKnown`, `ProviderSettles`, `DebtSettles`,
  `ProjectionSettles`, `HeadServed`, `SubmissionFinishes`, `Registers`, `Migrates`,
  `DaemonStops`, `DeliveriesSettle`): fairness and ENABLED are out of the prover's
  reach.
- The disagreements of section 3: their counterexamples are found by TLC, not
  proved.

## 5. Not modelled

- Parsing of the output of `gh`, `glab` and git, building of arguments, framing and
  JSON: input and output without protocol state.
- `agent_config.rs`, `repository_policy.rs`, `agent_protocol.rs`, `secure_fs.rs`:
  validation of files and permissions; no state that changes.
- The conversion of rows in a migration, the text of issues and notifications, the
  contents of the sandbox.
- The inventory that reconciles leftover private refs of ended items, and residue
  discard of workspaces: file by file and ref by ref, under the guard.
- `start_candidate_build` and `reset_interrupted_candidate_build`, which the
  integrator does not call, legacy systemd scopes, and replication supersession,
  which `FinishedInOrder` excludes.

## 6. Plan

1. `AgentResult`: publication and acceptance of the agent's result file.
2. `TerminalCleanup`: the inventory of private refs, and residue discard.
