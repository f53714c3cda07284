# A TLA+ development of abstract-block-dumper

abstract-block-dumper runs a function of a Django project once for every block of a chain
that meets a condition. This directory models the parts of it that are concurrent: the
processes that submit work, the Celery workers that do it, the sweeps that recover what was
lost, and the table and the broker they share. Paths below are relative to
`src/src/abstract_block_dumper/`, "the README" is `src/README.md`.

## 1. Inventory

| Component | State | Operations | Hard behaviours | What makes it correct |
|---|---|---|---|---|
| `TaskAttempt` table (`models.py`, `_internal/dal/`) | one row per (block, task, args): status, count, retry time, lease, claim token, queue, stamp of the last send, give-up deadline and reason | conditional `UPDATE`s of `attempt_transitions.py`, filters of `queue_attempts.py` | every statement commits by itself; the WHERE clause is all that protects a row | outcomes are final, a failed row is decided, tries are limited |
| `QueueExecutor` | none | `execute()`, `dispatch_retry()` | several statements and a send, a crash between any two; two submitters | no lost attempts, no re-opened outcomes |
| `TaskRunner` | the claim token, what it read | `run()`: claim, load, function, outcome, retry | duplicate delivery, hard time limits, take-over while it runs | one worker at a time, a late outcome is refused |
| `QueueReconciler` | none | three recoveries: expired lease, expired message, stuck attempt | decides from earlier reads; clocks differ; what looks lost may only be late | recovers everything, breaks nothing |
| `block_dumper_give_up_v1` | none | gives attempts up by hand | at any point of the others | a give-up is final |
| `@block_task` path (`v1/decorators.py`, `executor.py`, `block_processor.py`, `django_dal.py`) | the same table, the row lock of a worker's transaction | `execute()`, the wrapper, its retry, the stuck-task sweep | whole rows read earlier are saved back | no save undoes an outcome or a counted try |
| `cleanup_old_tasks` | none | deletes old rows | next to sends and retries | only finished rows |
| `TaskScheduler` | last processed block of every head, in memory | polls, lookback fill, sweep | restarts, heads that jump or fail, submissions that raise | windows without holes, heads that do not disturb each other |
| `backfill_blocks_v1`, `BackfillScheduler`, `ThrottleGate` | gaps and blocks left, the room read last | gaps, submissions, waiting, Ctrl+C | room read earlier, waiting on workers, interrupts | covers its range, stays within the throttle, ends |
| `RetryPolicy`, `retry_rules`, `recovery_settings`, `time_limits` | settings | pure rules | boundary values; rows and messages that outlive the code that made them | limits end a run before its lease, delays do not decrease |
| registries, `BlockDumper` declaration, checks, Celery set-up, broker contacts | registries of a process, Celery's queue table, the queues on the broker | imports, `register_queues()`, `install_queues()`, `declare_queue()` | imports that fail half-way and run again, an unreachable broker, versions side by side | tasks once, queues with their arguments only |
| chain clients, metrics, admin | none of the program's own | I/O | none a property here speaks of | - |

How they interact: the scheduler and backfills call `execute()`, which writes the row and
sends a message; a worker gets the message, claims the row, runs the function, records the
outcome and sends the retry of a failure itself; the sweep, called from the scheduler's loop,
finds rows nothing works on and calls `execute()` or `dispatch_retry()` for them. The
processes share the table and the broker and nothing else.

`PROJECT.json` lists each hazard of this code at its line with the properties that watch it.

## 2. Modules

| Module | Models |
|---|---|
| `Clock` | time: instants relative to now, NULL in comparisons |
| `TaskAttempts` | the row of a `BlockDumper` attempt; each `UPDATE` as a WHERE and a SET operator; the policies |
| `QueueTasks` | `QueueExecutor`, `TaskRunner`, `QueueReconciler`, the give-up command, the broker and its faults |
| `AttemptLifecycle` | abstract: what the table promises of one attempt, and of the tries it counts |
| `QueueTasksProofs`, `LifecycleProofs`, `FenceProofs` | the theorems about `QueueTasks` |
| `Numbers` | lemmas about numbers, and induction for sets, that the proofs share |
| `BlockTasksProofs` | the theorems about `BlockTasks` |
| `SchedulersProofs` | the theorems about `find_gaps()` and about `Schedulers` |
| `DeploymentsProofs` | the theorems about time limits, retry delays and `Deployments` |
| `StartupProofs` | the theorems about `Startup` |
| `RetryDelays`, `TimeLimits` | the formulas of retry delays and time limits |
| `Deployments` | attempts, sweeps with a batch limit and messages while the queues of the code change |
| `Startup` | imports, registries, checks, Celery's queue table and queue declarations of several processes |
| `BlockTasks` | the `@block_task` path, its sweep and the cleanup |
| `Submissions` | what the two schedulers share: chain, attempts as submitters see them, throttle |
| `LiveScheduler` | `TaskScheduler` with `DefaultBlockStateResolver` and lookback |
| `Backfill` | `backfill_blocks_v1`, `find_gaps()`, `BackfillScheduler`, the waiting gate |
| `Schedulers` | `LiveScheduler` and `Backfill` together, with the chain and the workers |
| `MCQueueTasks`, `MCBlockTasks`, `MCSchedulers`, `MCDeployments`, `MCStartup` | values of the constants for TLC |

Operators under a comment "Mutant" are altered forms of the operator after them. They are
used by no specification; each shows that a property notices the mistake it describes.

### Time

An instant is an integer relative to the present on the database clock; `Tick` lowers every
stored instant by one. Instants older than `Horizon` are not told apart, and assumptions
(`HorizonAssumption`, `BlockTasksAssumption`) make `Horizon` larger than every age the code
compares with, so nothing is lost by it. `timezone.now()` of a process is `Skew[p]`.

### QueueTasks

`row` is the table, `broker` the messages by id, `proc[p]` the local variables of a process
with a `pc` that says which statement it executes next, `stable` a switch that stops faults
and submissions. One action is one statement or one send, because each statement commits
before the next starts (autocommit, PostgreSQL READ COMMITTED; a conditional `UPDATE` checks
its WHERE on the row it locks). What a process read stays in `proc[p]` and goes stale there.

| Code | Actions |
|---|---|
| `QueueExecutor.execute()` | `Submit`, `Create` / `Get`, `Reopen`, `SetGiveUpDeadline`, `CheckDeadline`, `RecordDispatch`, `Send` / `SendFails` |
| `QueueExecutor.dispatch_retry()` | `RefreshFailed`, `RequeueForRetry`, `Send` / `SendFails` |
| `TaskRunner.run()` | `Receive`, `Claim`, `GiveUpRefused`, `LoadClaim`, `FinishSuccess`, `FinishFailure` |
| `QueueReconciler.reconcile()` | `ListExpiredLease`, `ReadExpiredLease`, `FailExpiredLease`; `RecoverExpiredMessage`; `RecoverStuckTask`; then `execute()` |
| give-up command | `GiveUpByHand` |
| environment | `HardKill`, `Crash`, `LoseMessage`, `DropExpired`, redelivery in `Receive`, `Tick`, `Stabilise` |

Abstractions:

* `RecoverExpiredMessage` and `RecoverStuckTask` take the listing and the conditional claim
  after it as one step. The claim repeats the conditions of the listing; the time the
  listing compared with is only stricter than the later one; the queue it passes on is
  replaced by the recorded one, since `execute()` reads the row again.
* A sweep picks any row at any time. The order of the three lists and their batch limit are
  in `Deployments`.
* The function's own writes, its result, the archive-network hint, metrics and logs are left
  out. The retry delay is a table (`RetryDelays`) with a last entry for all later tries.
* A message id is reused once no message, worker or row refers to it.
* Rows are never deleted here. `cleanup_old_tasks()` deletes rows of either path; it is an
  action of `BlockTasks` only.
* `MayStall` names the processes between whose statements time may pass. The others do a
  sequence of statements within a second; a run says which assumption it needs.

### AttemptLifecycle

An attempt is `absent`, `open`, `running`, `success` or `given_up`; it counts the starts of
workers, has at most one runner, and is recovered only when it has none. `Lifecycle` in `QueueTasks` is the instance: `Phase` reads the
phase off a row, pending and failed rows without a reason being open, `Tries` is the count,
and `Runners` are the workers that execute. `ImplementsLifecycle` says that whatever the
processes do to the rows, statement by statement, is a step of the lifecycle or none. It
holds where workers are killed before a take-over (`KilledBeforeTakeover`).

### BlockTasks

Here most writes are `Model.save()` of an object read earlier: `proc[p].copy` is that object.
A worker runs in one transaction under `select_for_update(nowait=True)`: `lock` is the row
lock, `row` the committed table, so RUNNING is never visible to others and a crash rolls back
to PENDING. A crash is not the only way back (`Rollback`): a worker killed at its hard limit
leaves nothing, and `task_mark_as_failed()` itself raises if the function broke the enclosing
transaction or its result cannot be serialised; then no try is counted, and only the sweep sees
the attempt again. All processes have the same clock. Left out: the queue a retry is sent to, the
archive hint, the removal of phantom rows at start-up.

### Schedulers

`attempt` gives each (task, block) the status submitters tell apart: `inflight` is what
`count_inflight()` counts, `waiting` a pending attempt it does not count (a retry that is not
due, a message lost or expired), `failed` a failure whose retry was not sent, `given_up` a
final one. `Executed(r, queue)` is the set of ways `execute()` can leave a row and whether a
message went out; `execute()` is one step here, its interleavings are the subject of
`QueueTasks`. Each task has one set of arguments. The order in which a round takes the
sources and the items is any order. `ComeBack` stands for the due retry and for the sweep.
Backfill ranges are of blocks that exist; dry runs, the rate limit and the archive threshold
change no shared state and are left out. Units in `Fragile` may fail or have their messages
lost, and the submission of those in `Raising`, some of them, may raise before or after it
wrote the row. The throttle is stated for the units that are not fragile, because retries and
re-sends never wait (`queue_policy.py:36`) and a submission that raises is not accounted for.

### Deployments

`code` is the version the scheduler and the worker run, `row` the rows, with the statements
of `TaskAttempts` under the policies of a version (`P(v)`), `msg` the messages and executions.
`execute()`, `dispatch_retry()`, `run()` and `reconcile()` are one step each. A version
defines queues by name and declares the task; versions that `block_task()` or
`Queue.__post_init__()` would refuse are never deployed (`Declarable`). A worker is restarted
between executions; one that dies with its execution is `Kill`. `Sweep` takes the three lists
in the order of `reconcile()`, oldest first, within the batch limit. A message
carries the limits its sender gave it: those of the queue, for want of them those of the
sender's task, the default hard limit included (`Enqueued`). A worker uses the limits of its
own version, those of the Celery config among them, only for what the message leaves open
(`Deliver`), and the pool kills at the later of the two limits (`KilledAfter`, external). The
two may therefore come from two versions. `declared` marks the executions whose soft and hard
limit `check_time_limits()` of some version accepted together (`AcceptedLimits`);
`SentLimitsAreDeclared` says which these are. Deadlines are left out: no chain head is known here.

`RetryDelays` computes with integers; `FloatMax` is the result above which `**` raises
`OverflowError`, at which `_exponential_delay()` of a queue's policy takes `max_delay`. The
policy of the settings (`SettingsDelaySeconds`) has no such branch: there `**` raises
(`SettingsRaise`), and `DeploymentAssumption` leaves such settings out. That delays never
decrease and that the legacy settings give B, B^2, ... minutes are assumptions TLC evaluates
over `Policies` (`DelaysNeverDecrease`, `LegacyDelays`); the first is proved for every policy
too (`DelaysGrow`, `SettingsDelaysGrow`).

### Startup

`proc[x]` is the memory of a process: imported modules, `task_registry` (`registry`),
`dumper_registry` (`dumpers`, and `queues` by the app of the dumper), Celery's queue tables
(`table`, by app), the queues still to be declared. `broker` holds the queues that exist with their arguments.

| Code | Actions |
|---|---|
| `check_block_dumper_queues()` | `Check`, any number of times before the process goes on |
| `ensure_modules_loaded()` and what precedes `prepare_block_dumpers()` in the entry points | `Load` |
| `prepare_block_dumpers()` | `Install`, then `Verify` once per queue, or `GoBlind` |
| Celery's own declarations by producers and workers | `Use` (external) |
| operator, supervisor, network | `Start`, `Delete`, `Connection` |

A module is a sequence of statements: it creates a `BlockDumper` or declares a task. An import
may fail after any of them with an `ImportError` or another exception, and the next import
runs the module from its first statement. A task module that does not exist is not listed. The
arguments of a queue are its TTL in milliseconds; priority and queue type are the same for all
queues of an app. Local steps of a process are whole functions, as no other process sees them.
`StatementsAssumption` says which modules are meant: a task has the path of its function, which
a module defines once, and its dumper is created next to the Celery app or above it in its
module. A task module that imports another one for its dumper is not modelled.

## 3. Runs

| Run | Instance | Shows |
|---|---|---|
| `lease` | hard limit, redelivery, two workers, a sweeper, every process may stall anywhere | `OneRunner`: one worker at a time; `OutcomeIsRecorded`: nothing takes the claim from a worker in time; `FailedIsDecided`; `SuccessIsFinal`; `ImplementsLifecycle` |
| `takeover` | no hard limit, two workers, two sweepers, messages that expire, clocks apart by the margin | `FenceIsExact`: a late outcome is refused; `TriesLeft`: no try beyond `max_attempts`; `ExpiredMessageIsGone`: what the sweep counts as expired can no longer be delivered |
| `settles` | two queues: limited tries and a TTL; no limits but a give-up age. Fair | `Settles`: every attempt succeeds or is given up once faults stop; `GivenUpIsFinal`; `FailedIsDecided` |
| `block_tasks` | one dispatcher that sweeps, two workers, redelivery, outcomes that roll back, cleanup. Fair | `SuccessIsFinal`, `TriesAreKept`, `FailedIsDecided`, `Settles` for `@block_task`: every attempt settles once faults stop, if outcomes are committed at last |
| `polls` | two heads, four blocks, lookback of one, restarts at any point | `WindowIsFilled`: no hole in a completed window; `StartsAtItsHead` |
| `catch_up` | a head whose reads fail, a submission that may raise each time, a throttled lookback. Fair | `HealthyHeadsCatchUp` |
| `backfill` | all ranges of three blocks, two tasks, a throttle, two units that fail or get lost, one of which may raise when it is submitted. One gate. Fair | `WithinThrottle`; `BackfillCovers`: an error costs its own unit only; `BackfillEnds` |
| `deployments` | two attempts, four versions of the code, messages with the limits of their sender, a batch of one, losses and deaths. Fair | `DeclaredRunKeepsClaim`: no execution under limits that a version declares together outlives its lease; `QueueIsKept`: an attempt stays on its queue while it is defined; `Settles` |
| `startup` | a command and a worker, seven versions, two apps, imports that fail, broker outages, deleted queues | `RegisteredOnce`, `VerifiedQueuesAgree`, `CreatedWithItsArguments`, `WarnedBeforeRefusal` |
| `fence_redelivery`, `lost_update`, `finalized_start` | see section 6 | disagreements |

Bounds, and why they are enough:

* One attempt (`Attempts = {a1}`): no action of `QueueTasks` or `BlockTasks` relates two
  rows, and a worker busy with another row is a worker that is late, which the model has.
* Two workers and two sweepers: every race here is between two processes for one row.
* Three message ids: a delayed original, its re-send and the retry at once. With all ids in
  use `apply_async()` fails, which the code handles like any broker error.
* Two tries: a first, a last, and the count that must not be exceeded. `settles` has no
  limit on tries for one of its queues.
* Windows of one or two seconds with a margin of one: each window is shorter, equal and
  longer than the time that passed in some behaviour; a worker outlives its limit by 0 or 1.
* Three or four blocks: a head that moves by none, one, or more than the lookback; gaps at
  the start, in the middle, at the end, of one block and of all.
* `deployments`: two attempts and a batch of one, the least with which a list can starve
  another; the versions rename a queue, remove it, give it to another task and change limits, so
  that the default hard limit of a sender and the soft limit of a queue meet in one message.
* `startup`: two processes, since they meet at the broker only, two by two; two apps, so that
  one can be prepared without the other. At most one module fails per import of all, in any
  place. The versions: a plain one, one with another TTL, one whose `task_queues` clashes, one
  with a policy for Celery's default queue, one with an app on another broker, one with an
  invalid poll setting, and one whose dumper is created by a task module.

Workers and message ids of `QueueTasks` and `BlockTasks` are symmetric in the runs without
liveness: no action tells two of them apart. Deadlock is checked in all runs.

### Fairness

`QueueTasks` and `BlockTasks`: time passes (`Tick`, strong, since a step of a process can
disable it again and again); a message that stays deliverable is delivered (strong: its ETA,
its expiry and a busy worker disable it in between); a process that started a sequence goes
on (weak), which includes that a function returns, raises or is killed, in `BlockTasks` with
its outcome committed or rolled back; the sweep runs again
and again, since the loop of the scheduler calls it (weak); faults and new submissions stop
at some point (`Stabilise`). Crashes, losses, failures and submissions are never required.
Nothing is assumed about which outcome a function has. `Settles` of `BlockTasks` says what it
needs beyond that as its own premise: outcomes are not rolled back for ever
(`OutcomesAreCommitted`), which fairness cannot promise and without which it fails (section 6).

`Deployments`: as `QueueTasks`, and deployments end with one version everywhere (`Stabilise`).

`Schedulers`: the two loops go on (weak), and an attempt that is in flight again and again
ends at last (strong), because its tries or its age are limited. No fairness says that a
process is started, that an unreliable head is read or that a submission succeeds.

## 4. Proofs

For every value of the constants that satisfies the named assumptions
(`ConstantsAssumption`, `ProcessAssumption`, `HorizonAssumption`, `BlockTasksAssumption`,
`SubmissionsAssumption`, `LiveSchedulerAssumption`, `BackfillAssumption`, `LimitsAssumption`,
`DelaysAssumption`, `DeploymentAssumption`, `StartupAssumption`, `StatementsAssumption`): any
number of attempts, workers, submitters, sweepers and queues, any delays, limits and skew, any
chain, registry, lookback and range, any number of processes, versions, apps and modules. The hypotheses a theorem has beyond them are in its ASSUME.

| Module | Theorem | States |
|---|---|---|
| `QueueTasksProofs` | `TypeCorrect`, `AlwaysDecided` | `TypeOK`, `FailedIsDecided` |
| | `SuccessStays`, `GiveUpStays` | `SuccessIsFinal`, `GivenUpIsFinal` |
| | `OnlyOneRunner` (with `KilledBeforeTakeover`), `OutcomesAreRecorded` | `OneRunner`, `OutcomeIsRecorded` |
| `LifecycleProofs` | `LifecycleImplemented` (with `KilledBeforeTakeover`) | `ImplementsLifecycle`, a refinement |
| `FenceProofs` | `FenceHolds`, `TriesAreLimited`, `ExpiredIsGone` | `FenceIsExact`, `TriesLeft`, `ExpiredMessageIsGone` |
| `BlockTasksProofs` | `Types`, `FailuresAreDecided` | `TypeOK`, `FailedIsDecided` of `BlockTasks` |
| | `SuccessStays`, `TriesStay` | `SuccessIsFinal`, `TriesAreKept` |
| `SchedulersProofs` | `GapsAreExact` | what `find_gaps()` returns |
| | `Types`, `BackfillsCover`, `PollsFill`, `StartsWithinHead`, `ThrottleHolds` | `TypeOK`, `BackfillCovers`, `WindowIsFilled`, `StartsAtItsHead`, `WithinThrottle` |
| `DeploymentsProofs` | `DefaultIsAccepted` (with `Margin > 0`), `DelaysGrow`, `SettingsDelaysGrow` | what a default hard limit and a retry delay are |
| | `SentLimitsAreDeclared` | which executions count as declared |
| | `Types`, `ClaimsAreKept`, `QueuesAreKept` | `TypeOK`, `DeclaredRunKeepsClaim`, `QueueIsKept` of `Deployments` |
| `StartupProofs` | `StartupTypes`, `NoTaskTwice` | `TypeOK`, `RegisteredOnce` of `Startup` |
| | `VerifiedQueues` (with `OneApp`), `CreatedAsDeclared`, `RefusedAfterWarning` | `VerifiedQueuesAgree`, `CreatedWithItsArguments`, `WarnedBeforeRefusal` |

### Attempts of a `BlockDumper`

* `TypeCorrect`: `TypeInv` adds to `TypeOK` what each program counter knows of the locals
  (`ProcOK`): a process about to send has an attempt and a queue. Without it a step could
  write a `None` queue into a message.
* `AlwaysDecided`: `RowStep(r, r2)` is the relation between a row before and after any
  statement, or a second; `NextOK` shows that every action is a `RowStep` on every row, once.
  `RowDecided` adds to the property that a row with a reason is failed and that an absent row
  has neither, and is preserved by `RowStep`.
* `SuccessStays` follows from `RowStep` alone: no WHERE clause accepts a successful row.
  `GiveUpStays` needs `RowDecided` too: a row with a reason is failed, and the clauses that
  take a failed row ask for no reason.
* `OnlyOneRunner` and `OutcomesAreRecorded`: `LeaseInv`: while a worker executes, its row is
  running under its token and its lease ends at least `Margin` after the worker's time limit
  (`Protected`), the worker outlives the limit by at most `KillDelay <= Margin` (`LimitOK`),
  and no two workers execute one attempt. Time lowers lease and limit alike, so the lease has
  not expired, no sweep matches the row (`HeldRow`) and no claim does.
* `LifecycleImplemented`: the steps of the workers, action by action, map to steps of
  `AttemptLifecycle`: a claim starts a try, an outcome or a take-over ends it, a give-up
  closes the attempt. `LeaseInv` shows that a runner and a running row come and go together.
* `FenceHolds`: most steps are calm (`RowTame`, `ProcTame`): they give no worker and no row a
  token. Where messages are delivered once (`~Redelivers`), `OwnTokens` says what a token
  stands for: a message that waits, or the one worker that took it, and the row that carries
  the token of a worker carries that worker's claim and count. Where `KilledBeforeTakeover`
  holds, `LatestClaims` follows from `LeaseInv`. The theorem assumes one or the other.
* `TriesAreLimited`: `TriesInv` follows the count from the read that allows a try to the
  claim that makes it: every message and every process that may lead to a claim belongs to a
  row with a queue, a running row whose token a worker holds counts that worker's try, and a
  sweep whose expired lease is still there has read the latest count (`SweepInv`). It assumes
  the hypothesis of `FenceHolds`; sweeps that do not stall between the read of a lease and its
  `UPDATE` (`Sweepers \cap MayStall = {}`; else the race of section 6); and one
  limit for all queues (`SameLimits`), since of two submissions under different policies the later `record_dispatch()` is the one that stays. TLC violates
  `TriesLeft` when any one of the three is dropped.
* `ExpiredIsGone`: the expiry of a message was computed when it was sent, the sweep compares
  stamps and retry times that other statements have written since, and each is read on a clock
  of its own. `ExpiryInv` bounds the expiry of every message by the stamp of its row
  (`ExpiryOK`: it was sent in the instant of a stamp, and stamps only get later), or, if it was
  sent with the ETA of a retry, by the retry time of the row. The latter is the hard part, as a
  failure chooses a new retry time without regard to the old one: `Chosen` keeps for every
  retry time in a message, in a process or in the row the try it was chosen for, which is an
  earlier one than that of a running row, so that `FailureKeeps` can compare the two delays.
  `MarginIsEnough` is what comes out: the margin has to cover the difference between the clocks
  and, once more, what the retry time of a later failure may lie before that of an earlier one.
  `TwiceIsEnough`: for delays that never decrease (`DelaysGrow`) that is twice the difference;
  where at most one failure is retried, as in `takeover`, it is the difference alone. The
  theorem also assumes the hypothesis of `FenceHolds`, that no process stalls between a stamp
  and its send (`MayStall = {}`), and queues with the same limits, delays and TTL
  (`SamePolicies`). TLC violates `ExpiredMessageIsGone` with submitters that stall, with two
  queues of different TTL, and with a margin that is too small (section 6). TLC checked
  `ExpiryInv` on `takeover`, and with three tries and a margin of 2, before it was proved.

`KilledBeforeTakeover` means that every queue has a hard limit, or nothing sweeps claims
without one; the pool kills within the recovery margin (`KillDelay <= Margin`).
`fence_redelivery` shows what happens otherwise.

### The `@block_task` path

* `Types`, `FailuresAreDecided`: here a step may write back any row that was read before, so
  `RowStep` allows every row of the type as the copy. The save of a failure decides by the
  count it writes, which is why staleness does not matter for these two.
* `SuccessStays`, `TriesStay`: it does for these. `CopiesFresh` says that whoever may save a
  copy holds what the table still says: a worker that runs, because of the row lock
  (`LockIsHeld`, `RunHoldsRow`); a worker that failed and has its retry to record, because
  the retry is not due before (`RetryIsNext`, `OneRetries`); a submission that read FAILED,
  because no other process dispatches (`ReopenIsFresh`). Hence the hypotheses: one dispatching
  process, workers that do not stall between outcome and retry, and delays above zero. TLC
  violates both properties when any one of them is dropped; `lost_update` is the first.

### The schedulers

* `GapsAreExact`: after `n` blocks the gaps found and the one that is open hold exactly the
  unprocessed blocks among the first `n`. The induction over `n` is on the least
  counterexample (`LeastNat`, `Count`), as the induction theorems of the library take an
  operator.
* `BackfillsCover`: `CoverInv`: every wanted unit of the range has a success on its block, an
  attempt, or is still in a gap that waits or in what the running scheduler has left
  (`NotLost`). `GapsAreExact` gives the start. Submissions may raise: an error costs its own unit
  (`Raising`), which the property excepts, and no other, as the command logs it and goes on.
* `PollsFill`: `FillInv`: the head of each task that had its turn has an attempt, and the
  window of each lookback that is done; what is missing of the one that is being filled is in
  `todo`. It assumes that no submission raises (`Raising = {}`), as an error ends the lookback of
  its task, and no throttle, at which lookback skips blocks on purpose.
* `StartsWithinHead`: whatever the table, the scheduler and the command hold for a task lies
  within the head of its own source (`RecordedBelow`, `BusyBelow`, `BackfillBelow`). It assumes
  that no starting block is set and that backfills submit for the latest head only, or not at
  all: `finalized_start` is the other case.
* `ThrottleHolds`: `GateInv`: what counts against the throttle and the room a gate still has
  fit in it together (`Fits`), since what others do can only lower the count. It assumes one
  gate (`OneGate`): either the command runs without the scheduler, or the scheduler runs without
  the command and lookback has a queue of its own. Both may raise: a unit that does is not
  counted, since the gate does not account for it either. TLC violates `WithinThrottle` with two
  gates and with lookback into the queue of the heads, which the gate does not hold
  back.

### Time limits, delays and deployments

* `DefaultIsAccepted`: the default hard limit is the greatest element of a finite set
  (`GreatestInt`) that holds each soft limit plus the margin, hence above each of them. With a
  margin of 0 it is not, see section 6.
* `DelaysGrow`, `SettingsDelaysGrow`: `Power` is a recursive function, so its value at `n` is
  that of any function that satisfies the recursion up to `n` (`PowerExists`, `PowersAgree`), again by a least
  counterexample; from there `base ** n` does not decrease, and neither do the larger of two
  delays and the smaller of a delay and the cap. The case to look at is the overflow, where
  `_exponential_delay()` leaves the product for `max_delay`; the settings do not, and theirs is
  stated for the tries at which `**` does not raise.
* `ClaimsAreKept`: `IInv` holds of each attempt by itself (`AttemptOK`): an execution that
  counts (`Claims`) is the holder of a running row whose lease ends at least `Margin` after
  the execution does, and the pool is late by `KillDelay` at most (`Holds`). A claim gets there
  because its two limits are ones that `check_time_limits()` accepted together, in whichever
  version: the soft limit is below the hard one (`AcceptedBelow`), so the pool kills at the hard
  limit, from which the lease is computed (`KilledType`). Time keeps it, and then no list of a
  sweep of whatever version has the row (`NotHeld`).
* `SentLimitsAreDeclared`: what `declared` comes to. A message to a queue of its sender's task
  runs under accepted limits if its worker has the sender's version, and under any worker if the
  sender gave it both limits, since then the worker adds none. What is left are the mixtures
  of section 6.
* `QueuesAreKept`: every dispatch is `Kept(v, ...)` for the version that makes it. `IInv` adds
  what this needs: a row that exists has a queue, and one that does not has none.

### Startup

`IInv` holds of each process by itself and of the broker (`ProcessInv`), and TLC checked it on
`startup` before it was proved. Its parts follow the phases of a start:

* `Registered`, always: the queues of the dumpers are declared by the code, have a dumper and a
  name of their own, and no task is registered twice.
* `StartingInv`, while checks may still run: the tasks registered are tasks of the modules
  imported, since a check takes back what a failed import registered. A module that is
  imported again therefore registers tasks nobody has registered (`TasksOfTwo`), and that is
  `NoTaskTwice`. What imported modules declare is there (`ImportsHaveRun`). If the last check
  reached the queues, everything is imported, the process's own loading changes nothing
  (`HalfLoaded`), and what W001 named then is what it would name now.
* `PreparingInv`, `PreparedInv`: all queues of the code have a dumper unless the process knows
  that an import failed (`incomplete`); after `install_queues()` each is in the table of its app
  with the arguments of its policy (`InTable`), because what the table had with others was
  refused. `CreatedAsDeclared` follows for declarations and for use.
* `OnBroker`: a verified queue is on the broker as the table has it. A declaration adds queues
  and changes none (`BrokerGrows`); a deletion takes the queue from what is verified.

Imports are loops over modules, and over the statements of a module, written as recursive
functions. `LoopDefines` and `LoopKeeps` in `Numbers` carry an invariant through such a loop:
`IsLoop` says that a function satisfies the recursion, its existence and the invariant are by
the least counterexample. A lemma per loop says what a round keeps (`StatementRuns`,
`ModuleImports`, `TaskModuleImports`, `ModuleLoads`).

`VerifiedQueues` assumes that no version gives the name of a queue to two apps (`OneApp`).
`register_queues()` raises for the second one, so such a version loads nowhere completely; a
worker that met an `ImportError` before it reached either declaration could use the queue under
the other app, whose table lacks it.

### Only model-checked

Every invariant and every action property of the passing runs is stated by a theorem. Left to
TLC are `LegacyDelays`, a table, and the liveness properties (`Settles`, `BackfillEnds`,
`HealthyHeadsCatchUp`), which, with fairness and ENABLED, are outside what the prover handles.

## 5. What is not modelled

* Chain clients, block sources and archive routing: I/O; a head is an input, and its read may
  fail. The archive hint changes which node a function reads from, and no state here.
* Metrics, logs, the admin, the listing of queues and the queue monitor: they report.
* Warnings W002, W003, W005 and W006 of the checks: each restates a condition on the
  declaration once and has no effect.
* Settings under which `**` overflows in `_get_retry_delay_seconds()` (`django_dal.py:46`), which
  raises there: excluded by `DeploymentAssumption`. The tries of `@block_task` are limited, so it
  takes extreme settings.
* Deletion of rows of a `BlockDumper` by `cleanup_old_tasks()` while `QueueTasks` works on them.
* The queue override and the removal of phantom rows at start-up of the `@block_task` path;
  several sets of arguments per block.
* Celery's autodiscovery, which imports `tasks` modules before `celeryd_init`: outside the
  repository; a module that fails there ends the worker.

## 6. Disagreements between the code and what it says

Each run ends in a counterexample.

* `fence_redelivery` (`task_runner.py:60`). The claim token is the id of the message, which a
  redelivery repeats. Without a hard limit: the sweep takes a claim over, the redelivered
  message makes the next claim under the same token, and the first worker's outcome passes
  the fence.
* `lost_update` (`django_dal.py:328`). `task_create_or_get_pending()` saves the row it read
  without a lock. With two dispatching processes a FAILED row that was retried and succeeded
  meanwhile becomes PENDING again and the block runs twice.
* `finalized_start` (`scheduler.py:61`). The starting block of a head is the maximum over all
  attempts of its tasks, a backfill's included, which may go beyond the finalized head; the
  finalized head then skips the blocks up to there.

Others were met while modelling and have no run:

* Ctrl+C ends the scheduler of one gap, which returns normally, and the command starts the
  next gap (`backfill_scheduler.py:316`, against "Press Ctrl+C to stop gracefully..." at
  `backfill_blocks_v1.py:249`). `Interrupt` in `Backfill` is what the code does.
* A failure of `@block_task` is recorded in the transaction of the function
  (`v1/decorators.py:179`). If the function broke it, or its result cannot be serialised,
  `task_mark_as_failed()` raises as well: the row is PENDING again, no try is counted, and the
  sweep sends it again, for ever if the function does it every time. A kill at the hard limit
  has the same effect. The README says that failed attempts are retried "until
  `BLOCK_DUMPER_MAX_ATTEMPTS`". `block_tasks` with `AlwaysSettles`, which is `Settles` without
  its premise, shows it: a lasso under `FairSpec`, without crashes or losses in its loop.
* An execution can outlive its lease although its task has the default hard limit
  (`time_limits.py:80`, "the sweep never takes over a task that is still running"). A message
  gets its soft limit from the queue and, if the queue has no hard one, the default hard limit
  of its sender's task, which allows for the soft limits of the queues the task has now. An
  attempt recorded on a queue the task has left, and another task still defines, is sent to it
  under a soft limit the default does not allow for; the pool kills at the later of the two, the
  lease counts from the hard one. `deployments` shows it if `DeclaredRunKeepsClaim` drops its
  condition `declared`. The same comes of a message with a hard and without a soft limit
  whose worker has another version, with a soft limit above it (`utils.py:40`). Where the sender
  gives both limits for a queue of its task, or the worker has its version too, neither can
  happen (`SentLimitsAreDeclared`). With a recovery margin of 0 the default equals the largest
  soft limit, and the declaration is refused ("stays above every soft limit",
  `time_limits.py:82`).
* "These checks cannot stop a command from running" (`checks.py:6`): the rollback after a
  failed import restores the tasks and not the dumpers. A module that creates a `BlockDumper`
  and then fails with an `ImportError` is passed over by `ensure_modules_loaded()`; after the
  checks imported it once, its second import raises `ValueError` from `register_dumper()`
  and the command ends. `Check` and then `Load` with the same fault show it in `startup`.
* "Every process that sends or consumes BlockDumper tasks therefore installs the same
  definitions first" (`celery_config.py:8`): an exception of a task module that is not an
  `ImportError` leaves `setup_celery_tasks()` before `prepare_block_dumpers()`, `celeryd_init`
  swallows it, and the worker creates the queues of its `-Q` without arguments. The same
  happens for tasks below a failing `import`. `CreatedWithItsArguments` excepts such workers.
* `setup_celery_tasks()` called again after a module failed with an `ImportError` registers
  the tasks above the failing line twice ("Should be safe to call multiple times",
  `tests/unit/test_celery_integration.py:15`); `RegisteredOnce` is about the entry points,
  which call it once.
* A policy for Celery's default queue, with `task_queues` empty, is refused at startup
  without a W001 before (`checks.py:174`); `WarnedBeforeRefusal` names the exception.
* The sweep of the `@block_task` path lists the oldest rows first and never touches rows of
  tasks that are no longer registered; enough of them fill every batch
  (`block_processor.py:89`, against "the backlog drains over several sweeps" in the README).
* Two submissions of one block under different queues that both read the row before either
  recorded its queue: the second `record_dispatch()` replaces the policy of the first
  (`queue_executor.py:64`, against the docstring at line 39).
* `_recover_expired_lease()` decides on a retry from a count it read before; if the attempt fails,
  is retried, claimed for its last try and expires again before the `UPDATE`, it is allowed a
  try too many (`reconciler.py:103`, against "Most attempts, the first execution included",
  `retry_policy.py:20`). `TriesLeft` in `takeover` with `MayStall <- Sweepers` shows it.
* A recovery margin equal to the largest difference between two clocks does not always make
  an expired message undeliverable (`queue_attempts.py:20`, "a retry's ETA (`next_retry_at`,
  the Python clock Celery compares it with) also lies that far back"): the retry time of one
  failure is read on a clock that is ahead, the next one on a clock that is behind, and the
  message of the first is compared with the retry time of the second, so that the difference
  counts twice. The claim still decides which message runs; the sweep sends one too early.
  `takeover` with `WorkersBehind`, one sweeper, `MaxAttempts` 3, a TTL of 3, a stale timeout
  of 1 and `Horizon` 6 shows it; with a margin of 2 (and `Horizon` 7) the property holds.
* Lookback and a backfill read the room of a queue, one after the other, and both spend it
  (`throttle.py:49`, against "Maximum number of attempts in flight on the queue" in the README).
  `WithinThrottle` in `backfill` with `Runs = TRUE`, one task and nothing fragile shows it: two
  attempts under a throttle of one, without a retry or a re-send.
* `cleanup_old_tasks()` deletes failed attempts that have a retry left (`v1/tasks.py:66`,
  against the docstring at line 25), which is why `Settles` of `BlockTasks` counts a deleted
  attempt as settled.

## 7. Plan

Done, in this order: the attempt row and its statements; `QueueTasks` with its safety and
liveness; the proofs of its types, decisions, finality and of the lease; `BlockTasks`; the
schedulers; `AttemptLifecycle`, the refinement and its proof; retry delays, time limits and
deployments; startup; the proofs of the fence, of the tries and of expired messages, of
`BlockTasks`, of the schedulers, of deployments and of startup.

Next, if the code grows there: rows that relate to each other (nothing does now, but a throttle
over several queues would), and the throttle of the queue path together with `QueueTasks`.
