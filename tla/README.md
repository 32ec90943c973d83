# A verification of pi-dag-workflow

TLA+ models of `src/extensions/dag-workflow`, the extension that lets a Pi coding
agent work through a plan whose items form a dependency graph: one worker process
per item, checks in nine stages, and a Git landing for every item that passes.
TLC checks the models on small instances, TLAPS proves the theorems for all of them.

    tlc -config Locks.cfg MCLocks         # one run; the list is below
    tlapm StoreV2Proofs.tla               # the proofs of one module

`PROJECT.json` has the machine-readable side: which lines of the source each
definition stands for, the runs, the mistakes each property is shown to notice,
the hazards, the theorems.

## 1. The system

Two generations of the runtime live side by side. V2 (`runtime-v2/`) starts every
new run; V1 (`dag-runtime/`) finishes and reads the old ones. Around them stand the
worker runtime, the project model, the planning store and the original in-session
workflow.

| Component | Source | State it keeps | Operations | What is hard |
|---|---|---|---|---|
| V2 snapshot store | `runtime-v2/store.ts` | one `state.json` per session, a `writer.lock` | `read`, `transaction` with any number of `publish` | writers die anywhere; power is lost between rename and directory sync |
| V2 run service | `service.ts`, `state.ts` | run status, lease, gates, a node per item: status, generation, reservation | reserve, dispatch, replace, integrate, pause, resume, cancel, reconcileCancellation | processes follow one another; dispatch launches a worker in the middle of its transaction; late results |
| Item lifecycle | `lifecycle.ts`, `lifecycle-schema.ts`, `service.ts` 307-470 | stage F0..F8, round, executions, findings, retry ledger, back-edges | setCandidate, prepareCheck, recordResult, advance, retryCheck, dispositionFinding | results come in after their attempt is over; repairs must end |
| Product facade | `product.ts`, `registration.ts` | none of its own | the tools of the agent; `next()` says what is left to do | every call is a read followed by transactions of others' state |
| V2 command runner | `command-runner.ts`, `command-supervisor.py` | a job, a process journal and a receipt per execution | ensure, recover, settle | processes outlive those who started them |
| Workspace ownership | `worker-runtime/workspace-ownership.mjs` | one ownership record per workspace | claim, publish, handoff | worker, checks and Git share one directory; the record outlives its owner |
| V2 Git driver | `git-*.ts`, `reference-transaction.py` | operations of the run, a workspace journal, a claim in Git's common directory | integrate, closeOperation | thirty steps of journal and process, a user in the same worktree, other stores in the same repository |
| Worker adapter | `worker-adapter.ts`, `worker-direction.ts` | launch capabilities | ensure, settled, candidate, cancel | a launch that was never acknowledged |
| Worker manager | `worker-runtime/manager.mjs`, `core.mjs` | a session file: worker, attempts, completion queue; files of each attempt | launch, retry, scan, adopt, quarantine, cancel, deliver, attach | its operations are many mutations with looks at files between them, several at a time; a result races its cancellation; a completion is delivered to a session that may reload |
| Worker supervisor | `worker-runtime/supervisor.mjs` | mailbox, receipt, one result | settle, report, repair, cancel, exit | output, timers, cancellation and the child's exit in any order |
| File locks | `project-model/persistence.ts`, `core.mjs`, `planning/store.ts` | a directory whose name is the lock | acquire, recover, release | recovering the lock of a dead owner |
| Project model | `project-model/` | `model.json`, the files generated from it, reviews | mutate, generate, review, migrate | a failure between the model and its files |
| Planning store | `planning/` | a head and an immutable history per plan | create, mutateDraft, mutateDecision | a crash between history and head |
| V1 run state and reducer | `dag-runtime/run-state.ts`, `reducer.ts` | reservations, attempts, effects, candidates, cancellations, trains | forty commands over one snapshot | what was dispatched to the world before a cancellation or a new owner comes back after it |
| V1 conductor and lifecycle | `conductor.ts`, `lifecycle-runtime.ts` | none of its own | the frontier of offered actions and their execution | every action is several commands and calls of adapters |
| V1 run store | `dag-runtime/store.ts` | a snapshot, its archives, two directory locks, a recovery intent | initialize, mutate, read, reattachAfterDeadOwner | the successor of a dead owner dies too; readers hold no lock |
| V1 Git integration | `integration-driver.ts`, `git-integration.ts`, the integration commands of `reducer.ts` | a train per repository: entries, attempts, one lock | begin, compose, validate, land, accept, retry | the target moves between composition and landing; the owner dies with a merge under way |
| V1 scheduler, evaluation, widgets, diagrams, session workflow | `scheduler.ts`, `evaluation*.ts`, the rest | reports, views | | see section 7 |

How they interact. A tool call enters `product.ts`, reads the run from the store and
calls a method of `RuntimeV2`, which is a store transaction guarded by the lease of
the process and by the revision that was read. The adapter asks the worker manager
for a process per item; the manager spawns a supervisor, which runs the Pi child and
leaves the one result of the attempt, which the manager adopts on its next scan and
tells the session. Checks are prepared by the service, run by the command runner under its own
supervisor, and recorded by the service. When F8 is reached the Git driver lands the
candidate and the service marks the item complete, which admits its dependents.
Store, session file, ownership record, journals and Git's references are the only shared
state; each has its own lock, and no transaction spans two of them. That is where most of
the hazards come from. V1 has the same shape with one snapshot for everything: an effect is
recorded, dispatched, observed and reconciled, each in a publication of its own, with a
process, a worker or a Git command between them.

## 2. What makes each part correct

* Store: callers may think of one log of whole updates. What a returned transaction
  was based on is durable; equal revisions are equal snapshots; the lock is never leaked.
* Run service: no legal sequence of calls reaches a snapshot that its own audit
  rejects; limits hold; nothing starts once the run has left `active`; every worker
  that runs is known; a cancelled run is quiet, and cancellation gets there.
* Lifecycle: what counts was made for the current candidate, worker, generation
  and round; a ready item has every stage verified; the retry ceilings hold over
  every kind of repair and repairs end; evaluators are independent.
* Command runner: one writer per workspace; a settled job is extinct; PASS was seen;
  what was fenced before its launch never starts; jobs settle.
* Git driver: the target only moves to a proposal that passed, on top of the
  accepted prefix, once per item; the claim shuts out other stores as long as the
  operation is unresolved; nobody's changes are overwritten; a cancelled operation closes.
* Worker manager: after a published cancellation no result counts but a cancelled one;
  an adopted result means that the attempt's processes are gone; every completion reaches
  the session, or is still queued; a dead attempt is marked lost.
* Worker supervisor: one result, written after the child's exit; a cancelled worker ends.
* Locks: one process inside; a dead owner's lock is recovered and given back.
* Planning store and project model: the history is the past of the head, and what a call
  returned stays; the generated files follow the model, or the next call finds out.
* V1: a worker that runs holds its lane, pool unit and mutex; verdicts are of the present
  candidate; nothing late passes the fence of a cancellation; a cancellation closes and
  leaves nothing behind; the audit refuses nothing the frontier offers, with the exceptions of
  section 6; each snapshot extends the one before, whoever wrote it; a dead owner is
  replaced; the train lands like the driver of V2, item after item, each once.

## 3. Modules

    SnapshotRegister  <--implements--  StoreV2            (StoreV2Proofs)
    ItemLife          <--implements--  DagRun             (DagRunProofs)
    ItemLife          <--implements--  Lifecycle          (LifecycleProofs)
                                       Lifecycle  --EXTENDS-->  RetryRules
    RepairBudget      --INSTANCE---->  RetryLedger  --EXTENDS-->  RetryRules
                                       CommandRunner      (CommandRunnerProofs)
    TargetBranch      <--implements--  GitLanding         (GitLandingProofs)
    TargetBranch      <--implements--  IntegrationV1      (GitLandingProofs)
    WorkerAttempt     <--implements--  WorkerSupervisor   (WorkersProofs)
    WorkerAttempt     <--is built on-  WorkerManager      (WorkersProofs)
    FileLock          <--EXTENDS-----  PlanningStore, ModelStore   (LocksProofs: all three)
                                       OwnerRecoveryV1    (RunV1Proofs)
    DagRunV1          <--EXTENDS-----  RunAuditV1         (RunV1Proofs)

An `MC` module instantiates modules for TLC. Several of them hold more than one instance:
a variable `part`, which no step changes, says which one a behaviour is about, and the
others stay in their initial states. That is a sum of state spaces and not a product; a
property that only some parts are to have names them. Four small modules give a component
variables of its own and say what it promises, so that a run and a theorem speak of the same
definition: **SupervisedAttempt** (WorkerSupervisor: `ImplementsAttempt`), **RepairBudget**
(RetryLedger: `RetriesAreBounded`), **RunSnapshot** (OwnerRecoveryV1: `SnapshotsAreSafe`) and
**TrainV1** (IntegrationV1: `TrainKeepsThePromise`). In every module the definition that a plausible
mistake would change has the mistaken form next to it (`LockShared`, `LandableUnready`,
...); no specification uses those, the mutants of `PROJECT.json` do.

**StoreV2** - `store.ts`. A snapshot is the sequence of its writers, so its
length is the revision. `visible` is the file as an open sees it, `durable` as a power
loss would leave it; `Lock, Load, SyncLoaded, WriteTemp, Rename, SyncPublished, Return`
are the steps of `transaction` and `publish`, `Throw` every exception, `ProcessDies` and
`PowerLoss` the crashes. The checks of the descriptor chain (symbolic links, replaced
directories) only make a step throw.

**SnapshotRegister** - what the store promises: a log to which whole updates
are appended, and the longest log anybody was promised.

**DagRun** - `service.ts`, `state.ts`, `product.ts`. A step is a transaction,
as StoreV2 justifies, except `dispatch`, which publishes three times around a launch
(`BeginDispatch, PrepareWorkspace, PlanWorker, Launch, Bind, AbandonDispatch`). `seen`
abstracts the revision: what a call has read, taken away by every publication. The
parameters are the plan: dependencies, scope, order, resources, mutexes, gates, lanes.
`Annotate` stands for the publications nobody reads again. The lifecycle is the six
facts of it that the service reads, the Git operation its phase.

**ItemLife** - what DagRun assumes of an item's lifecycle. DagRun is checked
against it from above and Lifecycle from below, so that the two models cannot drift apart.

**RetryRules, RetryLedger** - the pure rules of `lifecycle.ts` 100-160: what is
counted, what is refused. A ledger is the sequence of repairs spent; the places in it that
belong to a dimension or a counter are sets of positions. RetryLedger drives the rules with any
requests, under the code's own limits (three, and one for infrastructure).

**Lifecycle** - stages, rounds, executions, back-edges, findings, quarantine,
and the call `checks()`, which spans many transactions and so is a process of its own.
A result is a disposition, a kind of finding, a fingerprint and a context. The call keeps the
set of checks it has still to make (`left`) and takes the first of them in plan order.

**CommandRunner** - `ensure()` step by step, its supervisor, the command and
its descendants, the journal, the receipt, recovery, and the ownership record that
worker and checks share. Any process may die at any step. Time is left out: what waits
for a deadline may happen at any time, so no property depends on a timeout's length.

**GitLanding** - `integrate()` and `closeOperation()` step by step, the
workspace journal (`transition`, `landing`, `jobs`), supervised Git processes, the
claim of the common directory, a user who edits, another store that lands, a commit of
a stranger. A call may end between any two steps; it is also how throwing, aborting
and dying look to the next call. A commit is the sequence of items it holds; the prefix an
operation is opened on is the proposal of the last accepted one, as in the code.

**TargetBranch** - what the driver promises of the target: items land in
their order, each once, on top of what was accepted; what is closed never lands later.

**FileLock** - one lock made of a renamed directory, in the three protocols of the
repository (`kind`). A claim is prepared and renamed to the path; a recoverer reads the
owner, finds it dead, and renames *whatever stands at the path*. The protocols of the
model and of the sessions read the owner again under a second lock; that of the planning
store does not, which is the second finding of section 6.

**PlanningStore, ModelStore** - what is done under those locks: history entry and head;
model, generated files and their restoration after a failure. A plan or model is the
sequence of the calls that made it. The way back may fail as well: the model cannot be
read again, so nothing is restored, or single files cannot be written, which leaves them as
they are or cut off (`Torn`). `unrestored` remembers those files, and those of a call that
died on the way, until they are generated again.

**WorkerAttempt** - an attempt as its manager sees it: two processes and four files, and
the ways in which they may change. **WorkerSupervisor** is the detached process in
detail: the events of the child's output, the timers, the poll of the cancellation file,
signals and the exit. It implements WorkerAttempt (`ImplementsAttempt`), and
**WorkerManager** is built on that abstraction: `scan`, `launch`, `retry`, reconciliation
and delivery as operations that remember what they have read and interleave at each of
their mutations, with a manager that dies or loses its session at any moment.

**OwnerRecoveryV1** - the V1 store: `initialize`, `mutate`, the conductor lock, the
snapshot with its archives, readers without a lock, and `reattachAfterDeadOwner` from the
intent to its removal. Any process may die at any step and a lock knows its owner only
by its identity.

**DagRunV1** - the V1 reducer with what drives it. A command is one action, because
OwnerRecoveryV1 publishes it against the revision it read. An effect is intended,
dispatching, observed, ambiguous, proven absent or reconciled; between two of its commands
the world goes on (`WorkerStarts, WorkerEnds, CancelWorker, Execute, CallCleanup`).
`Reattach` is the death of the owner with all its calls and the attachment of another.

**RunAuditV1** - what `run-state.ts` demands of each snapshot that a command makes,
conjunct by conjunct. The reducer throws where the audit refuses, so a command of DagRunV1
that the audit may refuse has that as its guard; `Audit` says that these guards are all.

**IntegrationV1** - the train of a repository: the queue of the items that passed F8, one
attempt with its lock at a time, composition onto the target, validation before and after
the landing, acceptance, conflicts, a stranger on the target, pause, cancellation and an
owner who dies with a merge under way. It implements TargetBranch, like GitLanding.

**ItemCases** - the checks and outcomes with which the MC modules look at the lifecycle.


## 4. Runs

| Run | Instance | Distinct states | Shows |
|---|---|---|---|
| `locks` | the three lock protocols, 4 processes of which 2 die and 3 use the store at a time | 1 374 000 | a recovered lock excludes; history and files follow, until two are inside |
| `run` | 2 dependent items, a gate, 2 calls of one process and one of its successor, 2 generations; 3 items over one resource, a mutex and 2 lanes | 235 800 | audit, limits, cancellation, base, ItemLife |
| `lifecycle` | one item with 7 checks; its candidates and workers replaced; a producer and 2 items; the retry ledger under the code's limits | 271 800 | audit, evidence, contexts, retries, the life of an item |
| `lifecycle_implementers` | 1 item, 2 generations | 260, until violated | **violated**: an evaluator that implemented |
| `runner_safety` | 2 requests, 2 processes, 1 handoff | 2 372 000 | exclusion, extinction, fencing |
| `git_landing` | 2 items, 1 command, a rival store, a user, a stranger | 1 975 000 | audit, records, the target, nobody's changes lost |
| `settles` | store, runner, Git, lock, supervisor and item, each a part of its own | 172 000 | everything that must end; what store and supervisor implement |
| `planning_decisions` | 3 processes, one dies | 6 300, until violated | **violated**: a decision that was returned is gone |
| `workers` | a worker of a run with 1 attempt and 2 faults; a worker of a session with 2 attempts and 1 | 928 000 | cancellation wins, adopted is extinct, completions are kept |
| `workers_lost` | 1 attempt | 258 600, until violated | **violated**: a dead attempt is never marked |
| `v1` | one coded item; two that exclude each other; one that is cancelled under two owners; the store with 3 processes; the train with 3 items | 400 700 | reservations, audit, fence, closing, the store, the train |
| `v1_recovery` | 3 processes, 1 starter | 13 700, until violated | **violated**: a dead owner is not replaced |

*Bounds.* Two of a kind is where their interleavings begin: two processes (the second may
continue or race the first), two items (one may wait for or be landed on the other), two
generations (a replaced one and its successor). Counters that the code lets grow are cut off in
the guards of the actions that raise them, each late enough for a second round of what it
counts: `MaxGen` (generations), `MaxRevision` (publications of the store, the plan and the V1
snapshot), `MaxModels`, `MaxEpoch` (handoffs and owners), `MaxAttempts` (of a worker),
`MaxRepairs` (of a result by the child), `MaxReroutes` (attempts of a V1 stage), `MaxDeaths`,
`MaxFaults`. `Keepers` are the processes that use the planning store and the project model,
`MaxUsers` limits how many do so at a time, the dead included. LocksProofs has neither bound,
nor the one on processes. `Times` are the moments a V1 observation can have, two of them because
only their order matters; `Starters` are the processes that may start a V1 run, the rest only
take over. `Chain` is a part of F0..F8 with the two coding stages, an evaluation and the end:
the other stages are judged like those. `OneIsEdited` keeps the changes of users and checks in
`git_landing` to one workspace at a time. The parts of a run are bounded by conditions on the
state a step leads to, which are named in the MC module. In `lifecycle` (parts "item",
"replaced", "produced", "ledger") they are `OutcomesIn` (what may come out of a check), `Alone`
(one item is worked on), `OneCandidate`, `OneWorker`, `FirstIsX`, `FiveRounds`, `EvaluatedOnce`
and `ClosedByCancellation`; in `v1` (parts "one", "two", "cancelled", "owner", "train") `Alone`,
`UpTo` (the stages that are reserved), `OneCleanup` and `OneOwner`. The lifecycle runs limit
every retry to one (`SmallLimits`), because the rules themselves are exhausted under the code's
limits by the part "ledger"; where candidates and workers are replaced no check fails
(`PassOutcomes`), where checks fail nothing is replaced; `settles` lets only tests fail
(`TestOutcomes`). Every safety property of `lifecycle` and of `v1` is also a theorem for any of
these values, so what the parts keep apart (a replaced worker and a failing check, two items and
two owners) is covered by the proofs. Requests, processes, files and items are symmetric where
no property is temporal. `workers` has a `VIEW` that forgets the processes of an attempt which
was retried and whose child had exited by its own account.

*Deadlock.* The store of V2, the runner and the landing never stop on their own account:
another transaction, a user or a rival is always possible. A run that is complete or
cancelled, a worker whose completion was delivered, a bound that is reached do stop; their
configurations say `CHECK_DEADLOCK FALSE`.

*Fairness.* Store: a process that is not killed goes on with its transaction, which
is a chain of file operations that complete. DagRun: somebody keeps making the calls that
`next()` offers for a cancelling run (`product.ts` 273) and a signalled worker ends;
nothing is assumed of a run that is not being cancelled. Strong fairness is needed
because another call may publish in between and make the revision stale; that is the
retry loop of the agent. Lifecycle: the agent follows `next()`, and calls may be cut
short any number of times but not for ever. CommandRunner: live calls and supervisors
go on, an aborting supervisor kills, recovery is used when offered. GitLanding:
`finalize()` closes again and again, and deaths eventually stop. Without that last
assumption nothing that needs five steps in a row could ever be promised. FileLock: a
process that lives takes its next step and leaves. WorkerSupervisor: the event loop runs,
its timers fire, a killed child exits. WorkerManager: the heartbeat scans for ever, and
reconciles what the scan finds missing (strong, because a scan may come between).
DagRunV1: the agent keeps invoking what the conductor's frontier offers, and the adapters
answer. OwnerRecoveryV1: a process that lives goes on with its call, and one that was
refused asks again.

## 5. Proofs

**StoreV2Proofs** proves all safety properties of StoreV2 for any set of
processes and any number of publications. The inductive invariant adds two facts to
the properties: `LockHeldInside` (the lock's holder is the one process inside a
transaction) and `CopiesAgree` (what that process's copy has to do with the file at
each phase). The point of the argument is `SyncLoaded`: because every
transaction makes durable what it loaded before its update runs, a rename never
replaces a version that is not durable, so at most one update is in doubt
(`OneUpdateInDoubt`), and it extends the durable log by exactly one entry
(`DurableStep`); with that the refinement of SnapshotRegister is a case split.
Assumption: `NoProc` is not a process.

**DagRunProofs** proves, for any plan, any number of calls and processes and any bound on
generations, the safety of the run and that it implements ItemLife. Most of what the audit
demands is not inductive by itself. The parts added: `DispatchAgrees` (a dispatch that holds the
lock still sees the active run and the dispatching item it began with, because nothing else
publishes meanwhile, which is what lets `Launch` satisfy the fence), `SeenIsCurrent` (what a
call may still act on is what is accepted; it makes the base of a reservation current),
`CurrentIsActive` and `UnresolvedIsWorked` (results that count and landings belong to items that
are worked on; they keep a late result from reviving a terminal run), `ReadyIsClean`,
`ScopeKept` and `GenerationsFit` (only a cancelled item uses the extra generation). `NextIInv`
has one step per action. In `Reserve` the serial prefix rests on the injectivity of the order;
in `Cancel` every part moves at once. That no resource is overdrawn (`NoOvercommit`) is about
sums over the items that are worked on. Sums are folds over finite sets, for which the induction
theorems are not to be had; the lemmas about them (a sum is a term and the sum of the rest,
fewer terms sum to no more) are proved from a smallest set that would contradict them, which
exists because the proper subsets of a finite set are well-founded
(`FS_StrictSubsetOrderingWellFounded`). `LifeNext` maps each action to a step of ItemLife;
`ResultIsAllowed` is its only case that is not immediate. Assumption: `PlanAssumption`, which is
what `parsePlanV2` and `assertScopeV2` have checked.

**CommandRunnerProofs** proves the safety of CommandRunner for any requests, processes
and handoffs. Added to the properties: `PhasesAgree` (service, job and call agree on how
far an execution is), `RunningHolds` (an unsettled job holds its workspace's record),
`LaunchIsSent` (what is alive was launched by a supervisor that was told to),
`ResultIsExtinct` and `SettledIsOver` (nothing publishes a result before the supervisor is
gone or was never launched, and afterwards the call is over or its process dead),
`PassWasSeen`, `CancelledIsRecorded`. The argument for exclusion: a command that is alive
was launched for a job that is not settled, and such a job holds the workspace, so no
worker and no other command does. `FencedNeverStarts` is an action property: of all
actions only `Launch` sends, and it passes through `Gate`. Assumption: `RunnerAssumption`.

**LocksProofs** proves FileLock, PlanningStore and ModelStore for any number of processes and
deaths. `LockIsSafe` says that no two processes are inside, as long as the protocol has means to
promise it (`Sound`: for a worker's session always, for the project model unless a recoverer
died, for the planning store unless somebody died). Inductive are `HoldersOwn` (the path names
the one who is inside), `JudgedIsDead`, `RetiredIsSeen` (who is about to retire an owner still
finds it there, or the name taken under which it would be retired) and `OneRecovers` (the second
lock of the project model is the recoverer's). On top, `PlanIsSafe` and `ModelIsSafe` follow the
call inside: what it has made of the plan or model it read at each of its steps, what its backup
holds, and which files are already written. `WorkFollowsModel` says so for the model, of all
files but the unrestored, and `EndsWithTheModel` that a call which ends or dies at any of its
steps leaves no other file behind. Both stores go on after a lock has failed, so their
invariants hold until two calls have met (`together`, `met`), and the theorems say under which
deaths that can be. `DecisionsOfTheLiving` is the other side of a finding: without a death no
returned decision is lost. Assumptions: `LockAssumption` (the marks of an empty path are not
processes) and `PlanAssumption` (a bound is a number).

**WorkersProofs** proves WorkerManager for any number of attempts, with its two operations
interleaved at every mutation. `IInv` has eight parts beside the types. `InOrder`
and `AdoptedIsOver`: attempts follow one another, and what an operation still holds in its
hand is not ahead of the session. `OneDispatches`: between claim and spawn an attempt has one
claimant and no process. `RecoveryIsHarmless`: a result of the manager's own is
written, or about to be, only where the child is gone or never will be; it is what makes
`AdoptedIsExtinct` survive an operation that read before a crash and writes after it.
`AdoptedIsPublished` carries `CancelWins`; `OnePlace` and `FlightIsKnown` carry
`CompletionsAreKept`. Steps are sorted by what they may do to these parts (`RunsFollow`,
`SessionFollows`, `RecoveryFollows`), so that most actions are shown once to be of a kind.
Assumption: `AttemptsAssumption`, a positive bound.

It also proves WorkerSupervisor, for any number of repairs and of records in its pipe.
`TurnsAreTold` is the part that is not obvious: a turn of the child is settled
once, by the last of its records, and there is no other prompt before it has been handled;
without it a stale report could decide a later turn. `IntentIsTold` and `ResultIsTold` follow
with it, and `SupervisorIsAnAttempt` maps each action to a step of WorkerAttempt or to none.
So the theorems about the manager speak of the supervisor too. No assumption.

**GitLandingProofs** proves GitLanding for any items and any number of commands, with calls
that end and supervisors that die at any step. `IInv` has six parts beside the types:

* `OpenedInv`: operations are opened one after the other, each on the accepted prefix, and
  only the last can be unresolved; so its expected commit is `Chain`.
* `LaneInv`: the claim stands from before the publication to the resolution.
* `JournalInv`: the phase of an operation, its workspace journal, its checks and its landing
  say compatible things; of these processes at most one is journaled as under way.
* `StepInv`: what a call knows at each step (`Fits`), such as that no merge can be under way
  any more when it looks at the target before it closes the operation.
* `ChildInv`: a process, orphans included, is journaled where it belongs, its operation is
  unresolved, and it has left no receipt; so a call that needs a receipt cannot pass it.
* `WorkInv`: what a workspace may hold at each phase of its journal. Changes that look like
  half a checkout occur only while the journal says `composed`, and a repair only when it does
  not: that is why `ChangesSurvive` holds.

Three lemmas carry most steps: a call moves on (`CallMoves`), changes its operation
(`OperationStep`), or journals and starts a process (`OperationStarts`). `OrderStays`,
`OrderOpened` and `OrderAccepted` say what becomes of the accepted prefix; they need no
induction, because `Prefix` is defined by the last accepted operation and not by recursion.
`LandingIsABranch` then sends the publication of an intent, the move of a merge, the acceptance
and the closing to the steps of TargetBranch of the same names. Assumption: `LandingAssumption`
(there is a command, the foreign commit is no sequence of items, the marks of the lane are not
items).

The module also proves the train of V1, for any number of items. `TrainInv`: the accepted prefix
is the plan up to its head (`PrefixInv`), entries before it are integrated and those behind it
wait (`PlaceInv`, `Standing`), only the head is worked on, and it has the lock (`AttemptInv`,
`ActiveInv`), the target extends the prefix by at most the head, or a stranger has moved it
(`TargetInv`). A merge that has outlived its owner (`MergeInv`) is of the active attempt, or a
stranger has the target, or it expects a prefix that is shorter than the accepted one: the
target never is that prefix again, so the merge cannot move it. `TrainKeepsItsPromise` maps each
command to a step of TargetBranch or to none. Assumption: `TrainAssumption` (each item is in the
train once, the foreign commit is no sequence of items, and the mark for none is no item or
record).

**LifecycleProofs** proves Lifecycle for any items, checks, candidates, outcomes and limits.
The audit alone is not inductive: nothing in it keeps two executions of one check from
counting, nor evidence from surviving its candidate. `LifeInv` says of each item:

* `Fit`, `OnePerCheck`, `Live`: an execution is as far as its fields tell; of one check of a
  stage at most one is not quarantined; and that one is of the candidate, worker, generation
  and round under way. The last is `LiveIsCurrent`, and it is what turns "was shown to pass"
  into "holds": with it `StageHolds`, which counts current matches, follows from `Shown`, which
  only asks that there is one (`HoldsWhenShown`).
* `Frame` and `Bound`: without a candidate nothing counts and the stage is the first; with one
  there is a worker, that of the generation.
* `InOrder`, `Evidence`, `Ready`: every stage before the present one is shown, and readiness
  means the last stage, no stop, no finding and nothing awaited.
* `Landing`: an item with an open Git operation is ready. It survives because everything that
  takes readiness away asks `Unresolved` first, or cancels.

Beside them stands `CallNotReady`: a `checks()` call is of an item that is not ready, so a
result it records late cannot disturb an item that is. Each action has a lemma; items it does not
concern are `Same`, and `OfOneItem` puts the two together. Quarantine has its own lemmas
(`Without...`), because repair, candidate, replacement and cancellation all go through it.
`CallsDoNotMixAttempts` sorts steps by what they may do to executions (`Kin`) and to passed
stages (`Less`). For `AcceptedContextsAreTheirOwn` the invariant needs `Known`: a context that
an execution used is that of a worker there has been, or of none, so no later worker is given
it; that recorded contexts stay apart is then a matter of `ContextReused`, which looks at all
of them, quarantined ones too. `LifecyclesLiveAsAssumed` describes the abstract item field by
field (`View`) and maps each action to one of the steps of ItemLife. `EvidenceStaysInForce` puts
`LiveIsCurrent`, the evidence of an open landing and the contexts together, as the run does.
`RetriesStayBounded` is
about the rules alone and holds for any limits; what it adds to its properties is `LatestExist`:
among the repairs of a dimension before any place one is the latest, which is what the rules
compare a new repair with. Assumptions:
`LifecycleAssumption` (the plan has a check at every stage; a
passed result has no finding; workers of different items or generations have different
identities, and a producer reports a context that is not the mark for none) and
`LimitAssumption`, with `CeilingAssumption` for the ledger (limits are numbers).

**RunV1Proofs** proves the run and the store of V1.

*The run*, for any items, chain of stages, limits, replacements and owners. `IInv` carries the
reservations and the fence: `OpenHolds` (an attempt is open only while it is the last of its
stage and its reservation lives), `LaunchesAreKnown` (a launch that may still start a worker
belongs to an open attempt that nobody is bound to), `WorkersFit` (a worker was launched for a
stage that is done by one and runs no longer than its attempt is open), `Accounted` (lanes,
mutex and pool units are those of the live reservations, however often a worker is replaced),
`Fence` and `Closed` (what a cancellation has left, while it is open and when it is closed). It
is enough for `WorkersHoldTheirReservations`, `ClosedIsQuiet` and `FencedStaysFenced`. The audit
needs more, `Sound`, which says of each item what is known of it (`AllOf`): stages are reserved
and begun in their order (`InOrder`), an attempt is as far as its fields and its effects tell
(`AttemptSound`, `Latest`), a stage rests on an attempt from its begin until it is sent back and
then holds a lane (`StageSound`), a candidate is that of an attempt there is (`ItemSound`), and an
effect is in the states that its kind may be in (`EffectSound`). Commands are sorted by how much
they move: those that leave what the audit looks at as it is; those that change one item, for
which the other items are shown to be undisturbed once; `BeginAttempt`, `Seal` and the candidate,
which are taken apart conjunct by conjunct; and the fence, which moves all items at once.

*The store*, for any number of processes that die anywhere. `OwnerInv` says what each process
knows at its step (`Knows`), what stands at the path of the lock and in the quarantine, and who
may still write. The point is that the lock excludes only before there is an owner: afterwards
locks of the dead are put aside, and what decides who may write is the owner that the snapshot
names, who is either the one process that lives and writes, or dead and about to be replaced by
the one recovery that has the recovery lock (`StartInv`, `RecoveryInv`, `WritersInv`). `ReaderInv`
says that the snapshot has its archives at each moment, so that a reader without a lock finds
them or finds that the snapshot has changed.

Three definitions of DagRunV1, RunAuditV1 and IntegrationV1 were chains of CASE whose guards
overlap, where TLA+ does not say which arm is taken; they are chains of IF now, in the order of
the code. Assumptions: `DagRunV1Assumption`, `ChainAssumption` (the shape of the constants: the
chain is a part of F0..F8 in its order, from F1 to F8), `NoneAssumption` (the mark for none is
no item, worker or record), `NobodyAssumption` (the same for the store).

*Proved and no longer run.* `AckedIsDurable`, `RevisionIdentifiesSnapshot`,
`WorkersAreKnown`, `TerminalIsFinal`, the runner's `PassIsObserved` and `CancelledIsQuiet`
and the type invariants of the modules were checked by TLC before they were proved;
the proofs now stand for both. Each inductive invariant was also checked by TLC on a small
instance before its proof.

*Only model-checked.* Liveness and everything under fairness, and what speaks of `ENABLED`:
`CancellationSettles`, `CancellationEndsUnlessStranded` and the properties of `settles` except
`ImplementsAttempt` and `ImplementsRegister`. `ParallelAuditPasses` puts the audit of DagRun,
which is proved for every plan, to a second plan in the same run. The findings are runs of TLC.

## 6. Findings

Each one is also in `PROJECT.json`, with the line it contradicts.

**Shown by a run of its own.**

*An evaluator may have implemented the item* (`lifecycle_implementers`).
`contextReusedV2` compares with the worker that is bound now and with those of
generations that had an execution (`lifecycle.ts` 54-55), not with
`archivedReservations`. The trace: a worker is replaced before any check of its
generation was prepared, and its context is later accepted as the independent evaluator
of its successor's work.

*A decision of the planning store can be lost* (`planning_decisions`). Two processes
recover the lock of a third that died. Both have seen its owner dead, the faster one
renames it away and takes the lock, the slower one renames away what now stands there.
Two are inside, both extend the same head, and a decision that was returned is gone.

*A dead attempt is never marked lost* (`workers_lost`). The branch of the scan that finds
a mailbox never looks whether the supervisor lives (`manager.mjs` 1209).

*A V1 recovery cannot be resumed by a later process* (`v1_recovery`). The intent asks for
the same moment of observation (`store.ts` 319), and each process observes the death at
its own time.

**Shown by an exception a property needs.** Each of these exceptions is a named operator,
and the property is violated without it.

* An exit of the child before the handler is attached is never seen (`missed`, of
  CancellationEnds); an aborted launch is adopted while its child runs (`aborted`, of
  AdoptedIsExtinct).
* A V1 cleanup under way at the cancellation, whose caller died, keeps the cancellation
  open (`Stranded`, of CancellationEndsUnlessStranded).
* *A failed transaction can leave its files behind.* When a transaction of the project model
  fails after it has generated files, the model is read again before they are restored
  (`project-model/store.ts` 71). If that read fails, nothing is restored; if the restoration of
  a file fails (`domain.ts` 640-650), the others are restored and the error says so. The files
  are then ahead of the model, or cut off, and nobody has died (`unrestored`, of
  FilesFollowTheModel). `FilesFollowTheModel` says that nothing else does this, and that the
  next transaction or generation that succeeds brings every file back in line.
* *A repair can disown a checkout.* `closeOperation()` repairs a half checkout with a
  transition that overwrites the journal of the checkout it repairs (`git-workspace.ts`
  134). A call that ends between the two leaves a workspace that no journal explains:
  `GIT_NODE_RESTORE_BLOCKED`, for ever (`Disowned`, of CancelledOperationCloses).

**Shown by a guard the audit forces.** The V1 audit refuses snapshots that the commands of
the frontier would make, so an offered command fails each time it is taken. In
the model the refusal is a guard (`MayBeFenced`, `MaySeal`, `PutCleanup`); without it
`Audit` or `TrainKeepsThePromise` is violated. A cancellation is refused while a launch
is prepared but not dispatched (`run-state.ts` 2122), while a procedure is dispatched and not
recorded (2293), while an integration attempt is active (2496), and while two items of a train
wait (2415). An F3 that carried F2 along cannot be sealed with anything but a pass (3075).
A clean-up after F8 is refused (2034). An integration that met a conflict is never tried
again (`integration-driver.ts` 165), and its failed effect keeps a later cancellation open
(`lifecycle-runtime.ts` 322). The reconciliation of a worker whose late result went into
quarantine ends in a TypeError (`lifecycle-runtime.ts` 350).

**Met while reading.** Nothing in the repository says otherwise, so these are no findings of
`PROJECT.json`; the models have them.

* The claim of Git's common directory is written before its operation is published
  (`git-driver.ts` 106). A crash in between, followed by the cancellation of the run,
  leaves a claim of an operation that will never exist; another store cannot land until
  somebody removes it.
* A worker whose termination failed is `needs_attention`. The timer's scans skip it, and to
  cancel it again does nothing. An open authorization of a retry whose token was lost
  blocks further retries (`manager.mjs` 780-797). The completion of a launch that was
  adopted outside a scan stays queued until the next one.
* Two concurrent V1 calls may execute one procedure twice; from then on the two
  observations of it are refused as ambiguous (`lifecycle-runtime.ts` 866-876).
* A V1 cleanup that was only intended at the cancellation is recorded as proven absent,
  and the worktree stays.
* In a V1 train, a target that somebody else moved into a conflict leaves the entry
  blocked for good; a validation that failed keeps the lock; a landing that is dispatched
  again keeps its old reconciliation; `mergeTree` takes any failure of Git for a conflict
  (`git-integration.ts` 475-483).

## 7. What is left out

* V2: the contents of plans, findings and prompts; the sandbox of commands; producers
  other than by the context they report; leases and the lifecycle inside GitLanding;
  several checks at once over one workspace that is not a node's; replacement counters;
  reloading the product inside one process. `transfer_owner` and `release_owner` are
  called by nobody under `src/extensions`.
* GitLanding knows one operation per item (a new generation is a new item to it) and
  one candidate per operation; calling `integrate` again on a closed operation, which
  takes the workspace until `close` is called again, is left out.
* Lifecycle identifies a commit with its tree; DagRun knows that trees may repeat.
* V1: findings, precedence, gates, replanning and the cancellation of a single item;
  the hashes, references, times and authorities that the audit compares; session
  bindings, start intents and the activation pump; adapters, which its callers supply.
  `ExactGitIntegrationV1` is used by tests only.
* Worker runtime: working roots, migrations and forks of a session, compaction and
  archives, tails, damaged files.
* Everything that only renders or converts: review presentation, diagrams, widgets, the
  migration of documents. `PROJECT.json` lists each part with its reason.

## 8. Plan

1. Done: store, run, lifecycle, command runner and Git landing of V2; the locks and
   the two stores on them; the worker manager over its supervisor; V1's run, store,
   recovery and integration train. Every safety property that a run checks of them is a
   theorem.
2. Next to prove: that DagRun with its abstract lifecycle and Git operation composes with
   Lifecycle and GitLanding (each is proved against its own abstraction so far); that
   WorkerManager keeps its promises with WorkerSupervisor put in the place of WorkerAttempt.
3. Next to model: the store of V1's evaluations with its process-owned lock
   (`evaluation-store.ts`); the scheduler of V1 as a decision over a snapshot, checked
   against what the reducer accepts of it; the worker adapter of V2 with overlapping
   workspaces; the widget controller's coalescing of refreshes.
