# A TLA+ verification of Runiq

Runiq is a background-job framework in Go: clients enqueue jobs into a storage
(PostgreSQL, SQLite or Redis), worker pools take them out, run them and record
the outcome. This directory holds TLA+ models of its core, the TLC
configurations that check them on small instances, and TLAPS proofs that hold
for every instance. All paths below are relative to the repository; the models
are written from the code, and `PROJECT.json` gives the source lines of every
definition.

## 1. Inventory

| Component | Source | State | Operations |
|---|---|---|---|
| Worker pool | `queue/worker.go` | the channel `sem`, `activeWorkers`, `currentConcurrency` | fetch loop, one goroutine per job, heartbeat, graceful shutdown |
| Autoscaler | `queue/autoscaler.go` | `currentConcurrency` under `concurrencyMutex`, placeholder tokens in `sem` | `setupSemaphore`, `scaleUp`, `scaleDown`, one iteration per tick |
| SQL storage | `queue/postgres*.go`, `queue/sqlite*.go` | tables for jobs, unique locks, batches, dependencies, processes, rate limits, cron locks, leader | `Enqueue`, `Dequeue`, `Ack`, `Fail`, `PostponeJob`, batches, workflows, administration |
| Redis storage | `queue/redis*.go` | a hash of envelopes, a sorted set per queue and one for scheduled jobs, sets of active, processed and dead ids, lock keys, batch hashes, dependency sets | the same interface, one Redis command after another |
| Client | `queue/client.go`, `queue/circuit_breaker.go` | breaker state, failure counter, time of the last change | `Enqueue*`, `beforeCall`, `afterCall` |
| Batch API | `queue/batch.go` | batch id | `NewBatch`, `Enqueue`, `Submit` |
| Leader election and schedulers | `queue/worker.go`, `queue/cron.go` | lease row or key, `isLeader` flag, `lastMinute`, `lastIntervalTicks`, locks by name and minute | acquire or renew, release, cron and interval ticks, `LockCronExecution`, timeout watcher, purges |
| Dashboard | `queue/server.go` | none of its own | retry, cancel, purge, pause, search |
| Pure helpers | `queue/helpers.go`, `queue/crypto.go` | none | backoff, tag matching, argument encryption |
| Telemetry, command line, assets | `queue/telemetry.go`, `cmd/runiq`, `queue/assets` | none | output |

**How they interact.** A pool calls its storage from the fetch loop (`Dequeue`),
from every job goroutine (`GetRunningJobsCount`, `CheckRateLimit`,
`PostponeJob`, `Ack`, `Fail`) and from its background loops (`PollScheduled`,
`FailExpiredBatches`, purges, heartbeat). Processes share nothing but the
storage: every rule that spans two of them is kept by the order of SQL
statements or Redis commands. Inside a process the fetch loop, the job
goroutines and the autoscaler share one buffered channel and one mutex; clients
share one breaker.

**What is hard.**

- *Concurrency*: unlocked reads that decide later writes (`Ack` counts the
  dependencies a child has left, `Fail` reads the attempts, `Enqueue` reads the
  lock holder, Redis reads a counter and a status with two commands).
- *Failure*: processes die between `Dequeue` and `Ack`; a cancelled context makes
  every later storage call fail and the callers ignore those errors; an enqueuer
  dies between the unique lock and the job.
- *Ordering*: `Submit` against the last `Ack`; the late result of a call admitted
  by a breaker in another state; two parents of a child, one acknowledged and one
  dead, whose loops over the children meet.
- *Timeouts*: unique locks, batches, leases on several clocks, locks of cron runs,
  breaker cooldown, shutdown timeout.
- *Stale beliefs*: a process takes itself for the leader until a call returns,
  while its lease runs out elsewhere.
- *Progress*: `scaleUp` receives from a channel with a mutex held; dependent jobs
  and sealed batches wait for something that has to happen.

`PROJECT.json` lists these hazards line by line with the property for each, or
the reason there is none.

**What makes each component correct.** Pool: tokens are conserved, the bound
holds, nobody blocks for good, shutdown reports the truth. Storage: a job is in
one pair of hands, is neither lost nor run beyond its attempts, unique jobs are
refused only for a real holder, throttling holds, parents run before children
and take them along when they fail. Batches: the callback comes once, after the
members, and does come. Election: nobody leads next to a successor within a TTL,
a leader that renews in time stays one, and a dead one is replaced. Schedulers: a
run is enqueued once, and not lost. Breaker: it trips at its threshold, recovers only
while a trial is under way, and does come to one.

## 2. Modules

| Module | Models | Used by |
|---|---|---|
| `WorkerPool` | pool, autoscaler, shutdown | `MCWorkerPool`, `WorkerPoolProofs` |
| `JobLifecycle` | what the queue promises of a job, in single steps (abstract) | `SqlStorage`, `RedisQueue` |
| `SqlStorage` | both SQL drivers composed with clients, workers, watcher and dashboard | `MCSqlStorage`, `SqlStorageProofs` |
| `RedisQueue` | the Redis queue composed with clients, workers, a poller and the administration | `MCRedisQueue`, `RedisQueueProofs` |
| `RedisBatch` | one batch on Redis: `Submit`, the members' `Ack`s and deaths, the watcher | `MCRedisBatch`, `RedisBatchProofs` |
| `RedisWorkflow` | dependent jobs on Redis: the loops of `Ack`, `Fail` and `Cancel` over children | `MCRedisWorkflow`, `RedisWorkflowProofs` |
| `LeaderElection` | the elector of every process and the lease of each driver | `MCLeaderElection`, `LeaderElectionProofs` |
| `Schedulers` | cron and interval loops, `MatchCron`, `LockCronExecution` | `MCSchedulers`, `SchedulersProofs` |
| `CircuitBreaker` | the client's breaker and the calls under way | `MCCircuitBreaker`, `CircuitBreakerProofs` |

Each `MC` module instantiates one specification for TLC: the workflow shapes, the
assignment of keys, attempts and batches, the symmetry sets. Configurations only
give constants their values.

Some definitions are introduced by a comment "Fault:". They are not used by the
specification. Each is a plausible wrong version of the definition next to it
(a dropped test, a missing reset, a swapped order), and substituting it makes TLC
find one of the properties violated; this is how the properties are shown to be
able to fail. `PROJECT.json` pairs them with the properties under `mutants`.

### 2.1 WorkerPool

`tokens` is `len(w.sem)`; the channel carries empty structs, so its length is its
whole state. `loop` is the place of `runProcessingLoop` and `fetchAndSpawn`, and
job goroutines are counted by where they are: `executing` (in `executeJob`),
`finishing` (before the deferred receive), `released` (before
`activeWorkers.Done`). `pendingUp` are the receives left to `scaleUp`, which holds
`concurrencyMutex` until it is 0; `pendingDown` are the sends left to the
goroutines `scaleDown` started. A blocking channel operation is a guard. Which
goroutine a channel serves next is left open, which contains Go's FIFO order. A
pool without autoscaling is the instance with equal minimum and maximum.

### 2.2 SqlStorage

The tables are functions (`status`, `attempts`, `deps`, `lock`, `bstatus`,
`bpending`), every call in progress has a program counter (`epc` for the enqueue
of a job, `pc` for a worker goroutine) and the values it has read and not yet used
(`holder`, `seenRow`, `seenAttempts`, `kids`, `cut`, `ready`).

*Grain.* A statement outside a transaction is a step. So `Enqueue` with a unique
key is `EnqueueLock`, `EnqueueCheck`, `EnqueueCollide`, `EnqueueTakeover`,
`EnqueueInsert`, and `Ack` and `Fail` begin with a `SELECT` of their own. A
transaction that writes each row once and decides nothing from rows it has not
locked is one step. Two transactions decide from rows they have not locked, and
PostgreSQL runs them at READ COMMITTED (no isolation level is asked for), so their
reads are steps of their own. That of `Ack` is `AckBegin` (it reads the children),
`AckDelete` (their dependency rows), one `AckCount` per child, and `AckCommit`. That of
`EnqueueInBatch`, once it finds its unique key taken, goes through `EnqueueCheck` and
`EnqueueCollide` to `TakeoverInBatch`. What they wrote stays locked until the end
(`RowFree`, `DepsFree`, `BatchFree`) and only then becomes visible. `SingleWriter`
turns this into SQLite, whose first write in a transaction excludes all other writers.
`EnqueueWorkflow` decides about keys in one step, which is exact with a single writer
and without keys (`KeyedWorkflowAssumption`); its parents may be any ids.

*The drivers differ* in one thing besides: on PostgreSQL a job that is deleted takes its own
dependency rows with it (`ON DELETE CASCADE`, `postgres.go:327`), on SQLite they stay
(`DropDeps`), because foreign keys are not enforced there.

*A cascade* (`Kill`) counts an attempt at every visit: a job that dies reads its children
before the first of them dies, so one that is its child and its grandchild is updated
once on either way. `Visits` are the counts a cascade can come to, in whatever order
the children are read.

*Faults* are chosen per run: `crash` (a process dies; an open transaction is
rolled back), `shutdown` (its context is cancelled: every later call fails and the
callers ignore it), `storageError` (a single call fails), `clientCrash`, `lockTTL`,
`batchTTL`, and `rateLimit` (`CheckRateLimit` refuses). *Administration* is chosen
per run too: every call of `AdminStep` may hit any job in any state.

*Time* decides only whether a job is due and a lock or batch expired. A pending
job may be found due by any poll, and expiries are actions.

*Refinement.* `JobLifecycle` is the queue as its users see it: a job waits, is
taken by one worker that has none, and is finished, given back or dead in one step
with those that wait for it; it may be withdrawn, or let go of. `Lifecycle` in
`SqlStorage` maps a row to such a state (`LifecycleOf`: blocked and pending wait, a
row that is missing after its enqueue call is gone) and `job` to the worker's hands.
`ImplementsLifecycle` says that every statement is one of these steps or changes
nothing that is seen: in particular the steps of an `Ack` happen at once, a
cascade never touches a job that runs or is finished, and no job is in two hands.
`WithdrawnForGood` is TRUE here: the row of a job that is cancelled while it runs is
gone, and no `Fail` or `PostponeJob` brings it back.

### 2.3 RedisQueue, RedisBatch and RedisWorkflow

A job is an envelope in `runiq:jobs` plus membership in the sorted sets and sets
of its queue; nothing but the order of commands ties them together, so a command
is a step, a `TxPipeline` is one step, and so is a pipeline whose commands write
what nobody reads together. `RedisQueue` follows a job through `SETNX`/`GET`/
`HEXISTS`/`SET`/`HSET`, `ZREVRANGE`, `ZREM`, `SADD`, the counting of active jobs,
`PostponeJob`, `Ack`, `Fail` (which writes back the envelope it has read),
`PollScheduled` and the administration: `Cancel`, `RetryAllFailed`, the two
purges and `ArchiveJobs`, each of which reads ids first and deals with them later.
`dead` and `processed` are the sets `runiq:dead_ttl` and `runiq:processed_ttl`,
`dlq` is the list the dashboard shows, cut to its newest `DeadListSize` ids with every
death (`LTRIM`; 50 in the code); `PurgeAllFailed` deletes that list as a whole. One administration call is under way at a time. A dead worker keeps its job in `job`: nobody looks
for it.

`RedisQueue` is shown to implement `JobLifecycle` as well. Its `LifecycleOf` reads the
state of a job off the keys: a job without an envelope is gone, one in `dead` or
`processed` is dead or finished, one in the queue or the scheduled set waits, and one
that is in none of them runs. So `ZREM` is the taking, and what comes before and after
it (`ZREVRANGE`, `SADD`, the counting) is not seen; of `PollScheduled`, which puts a
job into another key, nothing is seen at all. `WithdrawnForGood` is FALSE: `Fail`
writes back an envelope it read earlier, and the job of a `Cancel` in between waits or
is dead again. This is the only thing in which Redis promises less than SQL here, and
with TRUE the property is violated.

`RedisBatch` follows the batch hash through the commands of `Submit`, of
`handleBatchAck` and of `FailExpiredBatches`. `AckCut` and `SubmitCut` end an `Ack` or a
`Submit` between any two commands, because a command failed or the process died. An
`Ack` whose `HSET completed` fails goes on to the callback all the same
(`redis_admin.go:29`); a `Submit` that fails after its `HSET sealed` leaves the batch
sealed (`halfDone`).

`RedisWorkflow` follows `resolveDependencies` (`SMEMBERS`, then for each child
`SREM`, `SCARD`, `HGET`, and `DEL` with the enqueue) and `cascadeDependencyFailure`,
which calls itself for the children it declares dead. Every caller has the stack of
its loops, each with the children it read and has still to deal with; several callers
are in such loops at once, and any of them may die. A missing envelope is an error
that ends the loop (`Abandon`). Jobs come in several calls of `EnqueueWorkflow`
(`Workflows`), whose parents may be of another call, not enqueued, or at their end.

### 2.4 LeaderElection and Schedulers

In `LeaderElection` a call of `AcquireLeader` is sent, executed by the storage and
returned in three steps with time between them, and may fail before or after the
storage has done its part. `left` is what is left of the lease by the clock of the
storage, `fresh` for how long the last granted call of a process is less than a TTL
old. Redis counts the lease itself; PostgreSQL gets an end computed by the client
before the statement is sent (`postgres.go:239`) and compares it with its own
clock; SQLite writes and compares with the clock of the client. `Skew` is how far
that clock is ahead. SQLite reports a commit that fails as a refusal (`sqlite.go:248`);
`electLeader` treats a refusal and an error alike, so it is a call that fails here. A process may stop with `ReleaseLeader`, or die.

`Schedulers` leaves the election open: any set of processes takes itself for the
leader at any time, which contains every behaviour of `LeaderElection` and a
cluster without election. So the two modules compose by their interface,
`isLeader`, and what is shown here does not need an exclusive leader. A tick of
either loop spawns goroutines, each of which takes the lock for its name and minute
and then enqueues; each may fail or die before or after it has the lock. Locks are
forgotten after `LockLife`, as `LockCronExecution` of the driver does.
`MatchCron` works on a set of list parts per field.

### 2.5 CircuitBreaker

`beforeCall` and `afterCall` hold the mutex and are one step each; any number of
calls is under way between them. `cooled` is `time.Since(lastStateChg) > Cooldown`,
reset by every `transitionTo`. `trials` are the calls that were let through since
the breaker became half-open, until a result arrives: a history, since the code does not
keep in which state a call was admitted.

## 3. Runs

| Run | Instance | Checks | Shows |
|---|---|---|---|
| `worker_pool` | min 1, max 3, up by 2, down by 1, at most 4 job goroutines | `Conservation`, `BoundWhenSettled`, `FinishedMeansIdle`, `ScaleUpCompletes`, `ShutdownLeavesNothing` | no token is leaked or forged on any path, `scaleUp` always gets the mutex back, "all workers finished" is true, nothing is left after shutdown |
| `sql_lifecycle` | PostgreSQL, 3 jobs, two with one key, 2 workers, limit 1, all single-job faults, one `RetryAllFailed` | `ExclusiveExecution`, `RetryBudget`, `ThrottleBound`, `RefusedOnlyForAnother` | the life of a job with crashes, expiring locks and dying enqueuers |
| `sql_batch` | PostgreSQL, 3 jobs in a batch, two with one key, one `Submit`, timeout | `BatchCount`, `CallbackOnce`, `CallbackAfterAll`, `UniqueLive`, `EveryBatchSettles` | Submit and Acks in any order: one callback, after all members, and it does come |
| `sqlite_workflow` | SQLite, a diamond of 4 jobs with 2 attempts, the first in a call of its own | `ParentsFirst`, `DeadParentKillsChild`, `EveryJobSettles`, `ImplementsLifecycle` | parents before children, fail-fast, every job ends but behind a parent that had finished before, and the statements implement `JobLifecycle` |
| `pg_admin` | PostgreSQL, a tree of 3 jobs, one administration call of any kind, cancelled contexts, failing calls | `BlockedHasDeps` | with at most one parent per job no child is left blocked with nothing to wait for |
| `pg_join_stuck` | PostgreSQL, one job with two parents | `BlockedHasDeps` | **refuted**, see below |
| `redis_queue` | 3 jobs, two with one key, 2 workers, limit 1, a poller, one administration call, crashes, expiring locks | `ExclusiveExecution`, `NotLost`, `ThrottleBound`, `RetryBudget`, `RefusedOnlyForAnother`, `ImplementsLifecycle` | jobs move between Redis keys without being lost or run twice at a time, and the commands implement `JobLifecycle` |
| `redis_batch` | 2 members, 2 calls of `Submit`, timeout, commands that fail | `CallbackNotLost`, `NoCallbackBeforeSubmit`, `PendingCoversQueued`, `SealedSettles` | the callback is lost only when a command fails, and never before `Submit` |
| `redis_workflow` | a diamond of 4 jobs in two calls, 2 workers, one `Cancel`, crashes | `ParentsFirst`, `NoneForgotten` | loops over children next to each other: a job runs after its parents, and none is forgotten between the keys but those of a loop cut short or behind a parent that had finished |
| `leader_election` | PostgreSQL, 2 processes with clocks 1 ahead and 1 behind, TTL of 3 ticks | `LeaseExclusive`, `RefusedOnlyWhenLate`, `Failover` | slow, failing and late calls, stops and crashes: one covered leader at a time, and always a next one |
| `schedulers` | Redis, 2 processes, one name with a cron and an interval schedule, an "hour" of 2 minutes, locks remembered for 2 | `OncePerMinute`, `LedMinuteServed`, `NotedBlockServed` | two leaders at a time enqueue a run once, and a run is lost only with a goroutine that failed or a whole number of hours after its leader's last one |
| `circuit_breaker` | 4 callers, threshold 2 | `ClosedBelowThreshold`, `ClosedInTrial`, `TrialComes` | late results do not hide a trip, and close a breaker only while a trial is under way |

The type invariants are not repeated in the runs: all of them are proved (section 4).

**Where code and documentation disagree.** One run ends in a counterexample to a
sentence of the repository's README, and is kept as a run because no weaker setting
hides it:

- `BlockedHasDeps` (README line 402, `queue/postgres_workflow.go:132`): two
  parents acknowledged by overlapping READ COMMITTED transactions each still count
  the dependency row the other has deleted and not committed; neither unblocks the
  child. It holds on SQLite and with at most one parent per job. For the same
  reason a dead child may be made pending again.

The models reach further disagreements, which the properties of the passing runs
carry as an exception, a hypothesis or a bound:

- *A late success closes a half-open breaker* (README line 430: the next write passes as a
  trial, and "If it succeeds, the breaker resets"; `queue/circuit_breaker.go:72`): a call that was admitted
  before the breaker tripped and succeeds while another caller's trial is under way
  closes it, whatever becomes of the trial; and every call passes, not only
  one, until the first result is in. `ClosedInTrial` says what remains true: a
  breaker that has tripped is closed only while a trial is under way, never
  straight out of the open state.
- *More than `MaxConcurrency` jobs* (README line 436, `queue/autoscaler.go:56`):
  `scaleDown` sends its placeholders from a goroutine that waits while all slots are
  busy; a `scaleUp` in the meantime receives the token of an executing job, and the
  fetch loop starts one job too many. `BoundWhenSettled` says what remains true:
  once the placeholders are in, the bound holds again.
- *Two live jobs with one unique key* (README line 198, `queue/postgres.go:121`):
  `Enqueue` writes lock and job in separate statements; an enqueuer that comes
  between them finds a lock without a job, takes it over, and both jobs are
  inserted. `UniqueLive` holds for jobs enqueued in a transaction (`sql_batch`), while no
  lock is stale: on PostgreSQL two transactions of different batches that find the lock of
  a removed job both take it over.
- *A child of a parent that has finished* (README line 402; `queue/postgres_workflow.go:63`,
  `queue/sqlite_workflow.go:63`, `queue/redis_workflow.go:46`): the ids in `Dependencies`
  are not looked up, so a child of a job that was processed or dead before, or was never
  enqueued, is blocked for ever. `EveryJobSettles` and `NoneForgotten` state it as their
  exception. On PostgreSQL it is enough that the workflow is committed between two
  statements of the parent's `Ack`, which then deletes the dependency of a child
  it has not read; `ParentsEnqueuedTogether` is the hypothesis of `ChildrenReleased` for it.
- *A purged parent* (`queue/postgres_admin.go:154`): `ClearQueue`, `BulkPurge` and
  `BulkCancel` do not cascade, and a child of a job they remove is blocked for ever.
- *More attempts than `MaxRetries`* (`queue/postgres_workflow.go:100`): a job that a cascade
  reaches on two ways is counted twice. `RetryBudget` bounds the attempts of dead jobs
  without dependencies, and of all jobs that are still to run.
- *The callback comes early or twice on Redis* (README line 338,
  `queue/redis_admin.go:25`, `queue/redis_batch.go:98`): an `Ack` compares the
  counter of its own `HINCRBY` with a status it reads later, so a member added and a
  `Submit` in between make it complete a batch with a queued member; and when
  `Submit` and the last `Ack` both look last, both enqueue the callback.
- *The callback is lost on Redis* (README line 338; `queue/redis_admin.go:11`,
  `queue/redis_batch.go:94`): errors of `handleBatchAck` go to nobody, and a `Submit`
  whose read of the counter fails after the last `Ack` leaves the batch sealed, one whose
  `Enqueue` fails leaves it completed without its callback. `CallbackNotLost` and
  `SealedSettles` state it as `CutShort`.
- *A child on Redis runs twice, or although it is dead* (README line 403,
  `queue/redis_workflow.go:84`): two parents that take themselves out of the set
  before either counts it both find it empty and both enqueue the child; and the
  cascade of a dead parent may delete the set between `SREM` and `SCARD` of the other
  parent. `ParentsFirst` of `RedisWorkflow` states the second as its exception.
- *A cancelled job that comes back on Redis* (README line 305, "**Cancel** it
  permanently"; `docs/openapi.yaml` line 120, "Cancel a specific running or pending
  job"; `queue/redis_admin.go:131` and `:140`): `Fail` reads the envelope and writes it
  back with the new attempts in a later transaction, whether or not it is still there.
  A `Cancel` in between is undone; with attempts left the job runs again.
  `ImplementsLifecycle` of `RedisQueue` admits it by `WithdrawnForGood <- FALSE`.
- *A cron run lost to the same minute of another hour* (README line 217 promises recurring
  tasks by cron expressions; `queue/worker.go:602`): `lastMinute` holds the minute of the hour, so a leader whose loop ran at 10:05 and next at 12:05,
  and not in between, takes the second minute for dealt with. `LedMinuteServed` states
  it as its exception (`HoursLater`).
- *A batch with a cancelled member* (`queue/postgres_admin.go:154`): `Cancel` leaves
  `pending_jobs` as it was, and a sealed batch without a timeout waits for ever.
- *A job of a dead worker stays running* (README line 266): nothing looks for such
  rows, so `EveryJobSettles` is stated without crashes.
- *An interval longer than a lock lives* (README line 245, which uses 10 minutes,
  `queue/redis_admin_helper.go:152`): the lock is forgotten after 5 minutes on
  Redis, and a leader elected later in the block enqueues the block again.
  `OncePerMinute` holds for intervals up to the life of a lock.
- *`Retry` of a running job* (`queue/queue.go:138` speaks of a failed job) gives it to
  a second worker; `ExclusiveExecution` is stated without `Retry`.

**Bounds.** `MaxJobs`, `MaxSubmits`, `MaxAdminCalls`, `MaxCancels` and
`MaxFailures` cap what the code leaves unbounded. Two workers and three jobs
suffice for every race between two holders of a job, two enqueuers of a key and a
third job that fills the limit; two parents and a diamond are the smallest
dependencies with a join; two members are the smallest batch in which one Ack can
overtake another, and a second `Submit` reopens the question after completion. The
pool's maximum of 3 with a step of 2 lets `scaleUp` block half way; four job
goroutines exceed it. One administration call is enough to hit any state of any
job once. `DeadListSize` is 2 in `redis_queue`, so that three dead jobs overflow the list. The diamond of `redis_workflow` has a join below a chain, so that a resolve
and a cascade meet at both levels; a stack of loops is never deeper than the longest
chain. Its last job comes in a call of its own, at any time. With a TTL of 3 ticks and a skew of 1 a lease of PostgreSQL can be too short
to cover anybody, just long enough, and longer; the ages of calls are capped where
they make no difference (`AgeCap`). In `schedulers` the 5 minutes of the clock
contain several blocks of the interval and the same minute of the "hour" three times:
with fewer, an exception of `LedMinuteServed` for a gap of exactly one hour would look
sufficient, and it is not. `MaxTime` is
the bound of that clock. `MaxFailures` lies above the threshold by more than the number of
callers, and above the threshold the counter's value is never looked at.

**Symmetry** is used only for workers and members that no constant tells apart,
and only in runs without liveness properties.

**Deadlock** is checked in every run; the disjuncts `AtRest` and `Terminated`
describe the states in which the system may really stop. In `leader_election` time
never stops.

**Fairness** and why the code justifies it:

- `WorkerPool`: goroutines run on (weak), and a channel serves its parked senders
  and receivers in FIFO order, so an operation that is possible again and again is
  served (strong). `executeJob` returns. Nothing is assumed of `Cancel`, of what a
  fetch finds or of what the autoscaler decides.
- `SqlStorage`: enqueue calls and worker goroutines go on (weak); a pool polls for
  ever, and `Dequeue` orders by priority and age, so a job that is pending again
  and again is dequeued (strong). Handlers return. No fairness is given to faults,
  administration, the creation of a batch, `Submit` or the watcher.
- `RedisBatch`: a worker that has run a member finalizes it and `Submit` goes on, unless
  a command fails.
  The watcher, which runs only on a leader, gets none.
- `LeaderElection`: time passes and the elector goes on (weak); a storage that is
  asked again and again executes a call, and some call that was granted returns
  without an error again and again (strong): with a storage that never answers there
  is no leader. Processes may stop and die at any time.
- `CircuitBreaker`: time passes, calls return, somebody goes on writing.

## 4. Proofs

`tlapm` checks all of them. They rest on the named assumptions about constants
(`PoolAssumption`, `StorageAssumption`, `AcyclicAssumption`, `KeyedWorkflowAssumption`, `QueueAssumption`,
`BatchAssumption`, `WorkflowAssumption`, `LeaderAssumption`, `SchedulerAssumption`,
`BreakerAssumption`), which TLC evaluates in the runs, and on hypotheses that a
theorem states and this section explains.

- **`WorkerPoolProofs`**: for every configuration of the pool, `PoolTypeCorrect`,
  `TokensConserved`, `ReceiversServed`, `SettledBound` and `GracefulOutcome`. The
  inductive invariant joins the types with `Conservation`; the range of `tokens`
  alone is not inductive, since only conservation shows that a receive or a send
  finds the channel as it must. The other invariants follow by arithmetic;
  `FinishedMeansIdle` needs in addition that the outcome is set only when the loop
  has stopped.
- **`SqlStorageProofs`**: `StorageTypeCorrect` for every set of jobs, workers, keys
  and batches, and `OneWorkerPerJob`, i.e. `ExclusiveExecution` for any number of
  workers and jobs with every fault and every administration call except `Retry`.
  `ExclusiveExecution` is not inductive. The strengthening, `Ownership`
  (`OwnershipHolds`), says that a
  job in somebody's hands was enqueued, waits for nobody and is running or deleted;
  that a job that runs, may run or is dead waits for nobody; that a job has no rows
  before its enqueue call is over; and that the children an open Ack has read, or
  is about to unblock, still wait for its job (alone). So no row that an Ack sets
  to pending is in anybody's hands. Hypothesis of the
  theorem: a dependency is only resolved for a job that is still blocked
  (`SafeUnblocking`: one writer at a time, or at most one parent per job).
  Without it the theorem would be false on PostgreSQL for the reason
  `pg_join_stuck` shows, and with `Retry` it is false because `Retry` resets a
  running job.
  The second half of the module proves the refinement: under the same two hypotheses
  `SqlImplementsLifecycle` shows `Spec => ImplementsLifecycle`, with the mapping of section
  2.2. Each statement or transaction maps to one step of `JobLifecycle` or to
  a stutter; `Ownership` is needed because a finalizing worker must map to a step on a
  job that is running or gone, and a cascade to a step on jobs that wait.
  The rest of the module proves every other invariant of `SqlStorage`, each with a
  strengthening of its own on top of the types and `Ownership`. Most of them need the
  hypotheses that the runs show to be necessary, named in the module:

  | Theorem | Property | Hypotheses | Inductive invariant and why |
  | --- | --- | --- | --- |
  | `AttemptsWithinBudget` | `RetryBudget` | `SafeUnblocking`, no `Retry` | `Budget`: what a `Fail` has read of `attempts` is what is in the row as long as there is a row, because nobody else has the job; a cascade adds one per visit, to jobs that have dependencies |
  | `CallbackPaidFor` | `CallbackOnce` | none | `CallbackCredit`: a sealed batch has a `Submit` that has not led to a callback yet |
  | `PendingJobsCount` | `BatchCount` | `SafeUnblocking`, `LeavesUnfinished`, finitely many jobs | `Counting`, on top of `Standing`: the row of a held job says it runs, and an acknowledged job is not started again, so no member is counted down twice |
  | `CallbackComesLast` | `CallbackAfterAll` | those, and at most one `Submit` per batch | `Sealing`: a batch is sealed with enqueued members; with `Counting`, a counter at 0 means all of them were acknowledged |
  | `ThrottleHolds` | `ThrottleBound` | `SafeUnblocking`, `LeavesUnfinished`, `CountsAnswer`, finitely many jobs | `Throttle`: workers that perform have different running rows (`PerformersHaveRows`), so the last one to count has counted them all |
  | `RefusedForAnotherJob` | `RefusedOnlyForAnother` | `KeylessWorkflow` | `Refusals`: a lock is in the name of a job with its key, and a colliding call has read another job's |
  | `OneLiveJobPerKey` | `UniqueLive` | `SafeUnblocking`, `KeysInTransactions` | `OwnLocks` and `KeyHolders`: a live job holds the lock of its key, and the holder a transaction has found has a row, so it never takes the lock over |
  | `ParentsComeFirst` | `ParentsFirst` | `SafeUnblocking`, `NoRevival` | `Ordered`: a job of the workflow that is neither dead nor gone still has the row of a parent or saw it acknowledged |
  | `DeadParentsKill` | `DeadParentKillsChild` | `SafeUnblocking`, `NoAdministration` | `FailFast`: rows stay, and what a cascade kills is closed under children |
  | `ChildrenReleased` | `BlockedHasDeps` | `SafeUnblocking`, `ParentsEnqueuedTogether`, no `Retry` | `Releasing`: one Ack at a time, or one parent per job, so the children a transaction has read are all the children it has to release (`KidsAll`), and each is ready once it is counted (`ReadyAll`) |

  `LeavesUnfinished` admits the administration calls that touch only finished and dead
  jobs (and `Pause`); with `Cancel` of a member `BatchCount` is false (section 3).
  `CountsAnswer` excludes cancelled contexts and failing calls, since a count that fails lets
  the job run. `KeysInTransactions` excludes the statement-by-statement `Enqueue` of
  jobs with keys, locks that expire, and the removal of jobs that a transaction may
  have found holding a key, with which two live jobs can share a key (section 3). `NoRevival` excludes `Retry` and `RetryAllFailed`, which make a job pending
  whatever its parents did; `NoAdministration` excludes everything but `Pause`.
  `ChildrenReleased` is the counterpart of `pg_join_stuck`, where its hypothesis fails
  and the property is violated.
- **`RedisQueueProofs`**: the types, all five invariants of `redis_queue` and the
  refinement, for any number of jobs, workers and keys. `QueueTypeCorrect`, `NothingLost` (nearly inductive: every command
  that takes an id out of a key has put it elsewhere, has finished the job or deletes
  its envelope) and `RefusedForAnotherOnly` (a holder with an envelope has been
  enqueued, and the refused job has not) hold with any number of pollers. The others
  have the hypothesis `OnePoller`, without which they are false. `Placement`, their
  invariant, says that a job is in one place: in the queue, scheduled (perhaps read
  by the poller), in the hands of one worker, or in the list of dead jobs, and that
  what `RetryAllFailed` has still to do is dead. `OneWorkerAtATime`,
  `AttemptsBounded` and `LimitHolds` follow from it, the last one because the jobs that
  perform are an injection away from the active set a worker has counted.
  `RedisImplementsLifecycle` shows `Spec => ImplementsLifecycle` under `OnePoller`: each
  command maps to one step of `JobLifecycle` or to a stutter. It needs `Placement`, since
  a finalizing worker must map to a step on a job that is nowhere else, and `Ended`: a job
  that is dead or has finished is in no set of the queue and with nobody, nothing is in
  both sets, and a job the poller is about to activate is still scheduled unless it has no
  envelope. Without the last one an activation could make a job wait that did not.
- **`RedisBatchProofs`**: `BatchTypeCorrect`, `CallbackNeverLost`, `SubmitComesFirst`
  and `PendingNeverShort` for any finite number of members and any number of calls of
  `Submit`. The argument: the Ack whose `HINCRBY` returned 0 is on the way until it
  has looked at the status, and `Submit` is on the way from the moment it seals
  until it has read the counter; whichever comes second sees both, unless a command
  of one of them failed (`CutShort`). The invariant
  needs `PendingCoversQueued` (a negative counter could come back to 0 when a member
  is added), that nothing is counted before the batch exists, and that whoever may
  complete the batch has seen it sealed.
- **`RedisWorkflowProofs`**: `WorkflowTypeCorrect` and `ParentsComeFirst`, i.e.
  `ParentsFirst` for any dependencies and any number of workers and callers of `Cancel`. The
  invariant (`WorkflowInvariant`) says that a parent missing from the set of
  a job's dependencies was acknowledged, or the job itself is settled (its parents
  were, or one of them failed); that every loop on every caller's stack is over
  children of a job that was acknowledged (resolve) or has failed (cascade); and that
  a job that is queued, about to be enqueued or executed is ready.
  `NothingForgotten` is `NoneForgotten`, in the same generality and without a hypothesis:
  a stored job that has not finished is queued, in somebody's hands, before a
  loop, or waits for parents of which the same is true, unless a loop over it was cut
  short or a parent was at its end, or unknown, when it was enqueued. Its invariant,
  `KeptInv` (`KeptInvariant`), is about the loops: `SMEMBERS` has returned
  every child that still waits for the parent, and these stay in the loop until they have lost
  the parent or are dead (`StackKept`); so who waits for a parent that is settled is
  before a loop (`SettledKept`); and a child whose set of parents has become empty is in the queue,
  held, or in the hands of the caller that emptied it (`OpenKept`). That a set of parents only
  shrinks is what makes loops next to each other harmless to it.
- **`LeaderElectionProofs`**: `LeaseIsExclusive` and `OnlyLateIsRefused` for any number
  of processes, any TTL, each driver and clocks within `MaxSkew`. The invariant: from
  the moment the storage executes a call, the lease is held for the caller for what
  its call leaves of the TTL (`Secured`), before and after it has the answer; the
  margin absorbs the skew of the clocks that write and compare the end of the lease. A secured lease cannot be acquired by another process (`SecuredHolds`).
- **`SchedulersProofs`**: `EnqueuedOnce`, i.e. `OncePerMinute` for any number of
  processes and schedules and any way of electing leaders, under `ShortBlocks`: the
  lock for the first minute of an interval's block is remembered until the last minute of the
  block. The code's defaults do not give this for intervals above 5 minutes (Redis)
  or an hour (SQL); see the disagreements in section 3.
  `LedMinutesServed` and `NotedBlocksServed` prove `LedMinuteServed` and
  `NotedBlockServed` for any schedules and drivers, with no hypothesis. Their invariant,
  `ServiceInv` (`ServiceHolds`), adds that a lock that is taken has a run, a goroutine about
  to enqueue, or one that failed behind it (`LocksSecured`): so whoever is refused it loses
  nothing. And it says what `lastMinute` knows: the minute of the hour of the loop's last
  run (`LastNoted`), from which the exception of `LedMinuteServed` follows.
- **`CircuitBreakerProofs`**: `BreakerSafe` (types and `ClosedBelowThreshold`) for
  any threshold and number of callers, and the action property `ClosedInTrial`
  (`RecoversInTrial`): who finds the breaker half-open has a trial beside it, because
  the trials of the last cooldown are under way as long as it is half-open.

Every safety property the passing runs check is proved, each under the hypotheses named
above. Only model-checked is liveness under fairness (`ScaleUpCompletes`,
`ShutdownLeavesNothing`, `EveryBatchSettles`, `EveryJobSettles`, `SealedSettles`,
`Failover`, `TrialComes`), which the installed provers do not reach, as they do not reach
`ENABLED`, induction over data or RECURSIVE operators.

## 5. Assumptions and abstractions

- Dependencies are acyclic (`AcyclicAssumption` of `SqlStorage`); the code does not check
  it. `RedisWorkflow` does not assume it, its instance is acyclic.
- Job ids are unique; payloads, arguments, names, priorities and tags are left
  out, and `Dequeue` may return any pending job.
- PostgreSQL runs at READ COMMITTED, its default; row locks are held to the end of
  a transaction. The statements inside the loop over an open result set are taken
  to work as written.
- A Redis pipeline whose commands write what nobody reads together is one step, and so
  is a SQL cascade, whose transaction locks every row it decides from.
- Redis commands are atomic; `RedisQueue` has no failing connections and, in its run,
  one poller. With two pollers a job can be activated twice; the documentation assigns
  this to leader election.
- A paused queue is one nobody dequeues from, which is a behaviour of `RedisQueue`
  and `WorkerPool` already; the flag itself is state of `SqlStorage` only.
- `RedisBatch` acknowledges a member once; retrying an acknowledged member by hand
  is left out.
- In `RedisWorkflow` `EnqueueWorkflow` is one step (it is one `TxPipeline` after
  the unique locks, which are left out), and `queue` stands for the queue and the
  scheduled set, which `RedisQueue` tells apart.
- In `LeaderElection` a call that has failed for its client is not executed by the
  storage later on; the clocks of processes differ by a constant, at most `MaxSkew`.
- In `Schedulers` a goroutine gets to its lock before the lock of its minute would be
  forgotten (`Advance`), and who leads is arbitrary: any set of processes at any time.

## 6. Not modelled

- *Redis administration*: `Retry` of a job that is not dead (it makes a running job run
  twice, as in `SqlStorage`, and `ExclusiveExecution` is stated without it) and
  `ClearQueue`, which deletes the keys of a queue as a whole some commands after reading
  them: a job put there in between keeps an envelope no key leads to, so `NotLost` is
  stated without it. Its reads multiply the states of `redis_queue` beyond what
  a run can cover. The migration of lists of an older version.
- *Rate limits*: the answer of `CheckRateLimit` is arbitrary in `SqlStorage`; the
  number of jobs per window is not counted.
- *Time of a retry*: `ComputeBackoffDelay` is abstracted to "due or not", its 64-bit
  shift included; so are time zones and the fields of a cron expression, of which
  `Schedulers` keeps the minute of the hour.
- *Tags and the weighted order of queues*: any job may be found.
- *Cron tables in the storage* (`AddCron` and its relatives, dynamic schedules): rows one
  process writes and each scheduler reloads; a schedule is a constant in `Schedulers`.
- *Output and data transformation*: statistics and search, process registration,
  `RetryModified` (one row, no other component decides from it), schema migrations,
  telemetry, argument encryption, the HTML and JSON of the dashboard, the command
  line, the browser code, and the middleware chain, which changes no state the
  properties speak of.

## 7. Plan

The plan ordered the parts by what a fault in them would cost: the pool and the SQL
storage, the Redis queue and batches and the breaker first, then the Redis dependencies,
leader election and the schedulers, with the abstract `JobLifecycle` and its
refinement by `SqlStorage` and `RedisQueue`, and the proofs along with each. All of this
is done. What remains worth doing, most important first:

1. `ClearQueue` and `Retry` of any job on Redis, in a module with one job per key so
   that the reads of `ClearQueue` can be told apart.
2. `CallbackAfterAll` for batches that are submitted again, and `UniqueLive` with
   statement-by-statement enqueues that do not overlap.
3. `CheckRateLimit` as a component, and pure operators for `ComputeBackoffDelay` on 64
   bits and tag matching against reference definitions.
