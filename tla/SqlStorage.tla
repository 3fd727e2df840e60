------------------------------ MODULE SqlStorage ------------------------------
(***************************************************************************)
(* The SQL storage drivers (queue/postgres*.go; queue/sqlite*.go holds the *)
(* same statements) together with the callers that race on them: clients   *)
(* that enqueue, worker goroutines that dequeue, perform and finalize, the *)
(* batch timeout watcher and the dashboard's administration calls.         *)
(*                                                                         *)
(* Grain of atomicity.  A statement outside a transaction is a step of its *)
(* own, so Enqueue with a unique key is up to five steps, and Ack and Fail *)
(* start with a SELECT of their own.  A transaction that writes each row   *)
(* once and decides nothing from rows it has not locked is one step.  The  *)
(* transaction of Ack does decide from rows it has not locked (it counts   *)
(* the dependencies a child has left) and PostgreSQL runs it at READ       *)
(* COMMITTED, so its reads are steps of their own: its writes become       *)
(* visible at the last one, the rows it wrote stay locked until then, and  *)
(* each read sees what is committed at that moment.  The same holds for    *)
(* EnqueueInBatch once it has found its unique key taken.  SQLite has one  *)
(* writer at a time (SingleWriter): the first write of a transaction       *)
(* excludes every other.                                                   *)
(*                                                                         *)
(* Time only decides whether a job is due, a lock or a batch expired.  Any *)
(* of these may happen at any moment, so run_at is left out (a pending job *)
(* may be found due by any poll) and expiries are actions.                 *)
(***************************************************************************)
EXTENDS Integers, FiniteSets

CONSTANTS
  Jobs,          \* job ids; every id is generated once, by one enqueue call
  Workers,       \* job goroutines, over all pools and processes
  Keys,          \* unique keys, within one queue
  Batches,       \* batch ids
  NoJob, NoKey, NoBatch,
  UniqueKey,     \* [Jobs -> Keys \cup {NoKey}], JobEnvelope.UniqueKey
  BatchOf,       \* [Jobs -> Batches \cup {NoBatch}], the batch a job is added to
  Workflow,      \* the jobs given to the one EnqueueWorkflow call
  Parents,       \* [Workflow -> SUBSET Jobs], JobEnvelope.Dependencies
  MaxAttempts,   \* [Jobs -> positive], JobEnvelope.MaxAttempts
  MaxRunning,    \* WithMaxConcurrency of the handler, 0 for no limit
  SingleWriter,  \* TRUE for SQLite
  MaxSubmits,    \* bound: calls of Submit per batch
  Faults,        \* which of FaultKinds may happen
  AdminOps,      \* which of AdminKinds are called
  MaxAdminCalls  \* bound: administration calls in a behaviour

FaultKinds == {"crash", "shutdown", "lockTTL", "batchTTL", "storageError",
               "clientCrash", "rateLimit"}

AdminKinds == {"Retry", "RetryAllFailed", "Cancel", "BulkCancel", "BulkPurge",
               "ClearQueue", "PurgeAllFailed", "ArchiveJobs", "Pause"}

ASSUME StorageAssumption ==
  /\ NoJob \notin Jobs /\ NoKey \notin Keys /\ NoBatch \notin Batches
  /\ UniqueKey \in [Jobs -> Keys \cup {NoKey}]
  /\ BatchOf \in [Jobs -> Batches \cup {NoBatch}]
  /\ Workflow \subseteq Jobs
  /\ IsFiniteSet(Workflow)
  /\ Parents \in [Workflow -> SUBSET Jobs]
  /\ \A j \in Workflow : BatchOf[j] = NoBatch
  /\ MaxAttempts \in [Jobs -> Nat \ {0}]
  /\ MaxRunning \in Nat
  /\ SingleWriter \in BOOLEAN
  /\ MaxSubmits \in Nat
  /\ Faults \subseteq FaultKinds
  /\ AdminOps \subseteq AdminKinds
  /\ MaxAdminCalls \in Nat

\* EnqueueWorkflow decides about its unique keys in one step, which is exact for
\* SQLite; on PostgreSQL only workflows without unique keys are followed.
ASSUME KeyedWorkflowAssumption ==
  SingleWriter \/ \A j \in Workflow : UniqueKey[j] = NoKey

\* The dependencies have no cycle: the code does not check it, and its cascade
\* would recurse for ever on one.
ASSUME AcyclicAssumption ==
  \A S \in SUBSET Workflow : S # {} => \E j \in S : Parents[j] \cap S = {}

VARIABLES
  status,        \* runiq_jobs.status, "absent" when there is no row
  attempts,      \* runiq_jobs.attempts
  deps,          \* runiq_job_dependencies: parents a job still waits for
  lock,          \* runiq_unique_locks.job_id by key, NoJob when no row
  ttlOver,       \* jobs whose UniqueTTL has passed since they took their lock
  bstatus,       \* runiq_batches.status, "none" before CreateBatch
  bpending,      \* runiq_batches.pending_jobs
  expired,       \* batches past expires_at
  callbacks,     \* callback jobs inserted for a batch
  submits,       \* calls of Submit so far
  epc, holder,   \* where the enqueue call of a job is; the lock holder it read
  pc, job,       \* where a worker goroutine is; the job it has
  seenRow,       \* Ack: the SELECT found the row (else key and batch are "")
  seenAttempts,  \* Fail: the attempts the SELECT returned
  kids,          \* Ack: the children it has read and not counted yet
  cut,           \* Ack: the children whose dependency row it has deleted
  ready,         \* Ack: the children it has counted no dependency for
  down,          \* workers whose pool's context is cancelled
  paused,        \* the queue is paused
  adminCalls,    \* administration calls so far
  acked,         \* history: committed Acks of a job
  sealedWith     \* history: members of a batch when it was last sealed

jobVars    == <<status, attempts, deps>>
lockVars   == <<lock, ttlOver>>
batchVars  == <<bstatus, bpending, expired, callbacks, submits, sealedWith>>
enqVars    == <<epc, holder>>
workerVars == <<pc, job, seenRow, seenAttempts, kids, cut, ready>>
envVars    == <<down, paused, adminCalls>>
vars == <<jobVars, lockVars, batchVars, enqVars, workerVars, envVars, acked>>

Statuses == {"absent", "blocked", "pending", "running", "processed", "dead"}
BatchStatuses == {"none", "open", "sealed", "completed", "failed"}
EnqueuePcs == {"new", "check", "collide", "takeover", "insert", "done",
               "duplicate", "error"}
WorkerPcs == {"idle", "poll", "limits", "postpone", "perform", "ackread",
              "acktx", "ackkids", "ackcount", "failread", "failtx", "off"}

-----------------------------------------------------------------------------
(* Rows, row locks and transactions.                                       *)

Exists(j) == status[j] # "absent"

\* The key and the batch of a job are read from its row.
WithRow(js) == {j \in js : Exists(j)}

\* queryChildJobIDs.
Children(j) == {c \in Jobs : j \in deps[c]}

\* Workers whose Ack transaction is open, and has written its first row.
InTransaction == {w \in Workers : pc[w] \in {"ackkids", "ackcount"}}

\* No open transaction of the given workers has written the row of job j.
RowFree(j, others) ==
  \A w \in others \cap InTransaction :
    job[w] # j /\ j \notin ready[w]

\* ... or has deleted a dependency row of child c.
DepsFree(c, others) ==
  \A w \in others \cap InTransaction : c \notin cut[w]

\* No open transaction of EnqueueInBatch has written the row of batch b.
BatchFree(b) ==
  \A j \in Jobs : BatchOf[j] = b => epc[j] \notin {"check", "collide", "takeover"}

\* SQLite: none of the given workers is inside a writing transaction.
WriterFree(others) == SingleWriter => others \cap InTransaction = {}

\* Faults: the cascade stops at the children; there is no cascade.
DirectChildren(j) == Children(j)
NoDescendants(j)  == {}

\* cascadeDependencyFailure and failChildren, down to the last descendant: the
\* least set that holds the children of j and of its own members.
Descendants(j) ==
  {c \in Jobs : \A S \in SUBSET Jobs :
     (Children(j) \subseteq S /\ \A d \in S : Children(d) \subseteq S) => c \in S}

\* deleteUniqueLock deletes by key, whoever holds the lock.
DeleteLocks(js) ==
  [k \in Keys |-> IF \E j \in js : UniqueKey[j] = k THEN NoJob ELSE lock[k]]

BatchesOf(js) == {BatchOf[j] : j \in js} \ {NoBatch}

FailBatches(js) ==
  [b \in Batches |-> IF b \in BatchesOf(js) THEN "failed" ELSE bstatus[b]]

-----------------------------------------------------------------------------
Init ==
  /\ status = [j \in Jobs |-> "absent"]
  /\ attempts = [j \in Jobs |-> 0]
  /\ deps = [j \in Jobs |-> {}]
  /\ lock = [k \in Keys |-> NoJob]
  /\ ttlOver = {}
  /\ bstatus = [b \in Batches |-> "none"]
  /\ bpending = [b \in Batches |-> 0]
  /\ expired = {}
  /\ callbacks = [b \in Batches |-> 0]
  /\ submits = [b \in Batches |-> 0]
  /\ sealedWith = [b \in Batches |-> {}]
  /\ epc = [j \in Jobs |-> "new"]
  /\ holder = [j \in Jobs |-> NoJob]
  /\ pc = [w \in Workers |-> "idle"]
  /\ job = [w \in Workers |-> NoJob]
  /\ seenRow = [w \in Workers |-> FALSE]
  /\ seenAttempts = [w \in Workers |-> 0]
  /\ kids = [w \in Workers |-> {}]
  /\ cut = [w \in Workers |-> {}]
  /\ ready = [w \in Workers |-> {}]
  /\ down = {}
  /\ paused = FALSE
  /\ adminCalls = 0
  /\ acked = [j \in Jobs |-> 0]

-----------------------------------------------------------------------------
(* Enqueue of a single job.  acquireUniqueLock and insertJob run outside a *)
(* transaction: every statement is a step.                                 *)

Alone(j) == j \notin Workflow /\ BatchOf[j] = NoBatch

\* Fault: only a pending holder keeps its lock.
LockStandsWhilePending(h) == h \notin ttlOver /\ status[h] = "pending"

\* Fault: the row of the holder is not looked up.
LockStandsUntilExpiry(h) == h \notin ttlOver

\* The collision rule of handleLockCollision: the lock stands only if it has not
\* expired and the job that holds it has a row.
LockStands(h) == h \notin ttlOver /\ Exists(h)

\* Enqueue up to tryInsertLock: INSERT ... ON CONFLICT DO NOTHING.
EnqueueLock(j) ==
  /\ Alone(j)
  /\ epc[j] = "new"
  /\ WriterFree(Workers)
  /\ IF UniqueKey[j] = NoKey
     THEN /\ epc' = [epc EXCEPT ![j] = "insert"]
          /\ UNCHANGED lock
     ELSE /\ epc' = [epc EXCEPT ![j] = "check"]
          /\ lock' = [lock EXCEPT ![UniqueKey[j]] =
                       IF lock[UniqueKey[j]] = NoJob THEN j ELSE @]
  /\ UNCHANGED <<jobVars, ttlOver, batchVars, holder, workerVars, envVars, acked>>

\* checkLockCollision: the SELECT of the lock row, which fails when it is gone.
EnqueueCheck(j) ==
  /\ epc[j] = "check"
  /\ LET h == lock[UniqueKey[j]]
     IN /\ epc' = [epc EXCEPT ![j] = IF h = NoJob THEN "error"
                                     ELSE IF h = j THEN "insert" ELSE "collide"]
        /\ holder' = [holder EXCEPT ![j] = h]
  /\ UNCHANGED <<jobVars, lockVars, batchVars, workerVars, envVars, acked>>

\* handleLockCollision: SELECT EXISTS and the verdict.
EnqueueCollide(j) ==
  /\ epc[j] = "collide"
  /\ epc' = [epc EXCEPT ![j] = IF LockStands(holder[j]) THEN "duplicate"
                               ELSE "takeover"]
  /\ UNCHANGED <<jobVars, lockVars, batchVars, holder, workerVars, envVars, acked>>

\* handleLockCollision: INSERT ... ON CONFLICT DO UPDATE.
EnqueueTakeover(j) ==
  /\ Alone(j)
  /\ epc[j] = "takeover"
  /\ WriterFree(Workers)
  /\ lock' = [lock EXCEPT ![UniqueKey[j]] = j]
  /\ epc' = [epc EXCEPT ![j] = "insert"]
  /\ UNCHANGED <<jobVars, ttlOver, batchVars, holder, workerVars, envVars, acked>>

\* insertJob.
EnqueueInsert(j) ==
  /\ epc[j] = "insert"
  /\ WriterFree(Workers)
  /\ status' = [status EXCEPT ![j] = "pending"]
  /\ attempts' = [attempts EXCEPT ![j] = 0]
  /\ epc' = [epc EXCEPT ![j] = "done"]
  /\ UNCHANGED <<deps, lockVars, batchVars, holder, workerVars, envVars, acked>>

\* The enqueuing process dies, or its call is cut off, between two statements.
EnqueueDies(j) ==
  /\ "clientCrash" \in Faults
  /\ epc[j] \in {"check", "collide", "takeover", "insert"}
  /\ epc' = [epc EXCEPT ![j] = "error"]
  /\ UNCHANGED <<jobVars, lockVars, batchVars, holder, workerVars, envVars, acked>>

-----------------------------------------------------------------------------
(* Enqueue in one transaction: batches and workflows.                      *)

\* acquireUniqueLock inside a transaction, for all of js: no key is held by
\* another job whose lock stands, nor wanted twice.
LocksAvailable(js) ==
  \A j \in js : UniqueKey[j] # NoKey =>
    /\ lock[UniqueKey[j]] = NoJob \/ ~LockStands(lock[UniqueKey[j]])
    /\ \A i \in js \ {j} : UniqueKey[i] # UniqueKey[j]

TakeLocks(js) ==
  [k \in Keys |-> IF \E j \in js : UniqueKey[j] = k
                  THEN CHOOSE j \in js : UniqueKey[j] = k ELSE lock[k]]

\* INSERT INTO runiq_batches with status 'open' and no jobs.
CreateBatch(b) ==
  /\ bstatus[b] = "none"
  /\ WriterFree(Workers)
  /\ bstatus' = [bstatus EXCEPT ![b] = "open"]
  /\ UNCHANGED <<jobVars, lockVars, bpending, expired, callbacks, submits,
                 sealedWith, enqVars, workerVars, envVars, acked>>

\* The rows of a member, once its key is granted: the counter, the lock and the
\* job commit together.
AddToBatch(j) ==
  /\ bpending' = [bpending EXCEPT ![BatchOf[j]] = @ + 1]
  /\ lock' = TakeLocks({j})
  /\ status' = [status EXCEPT ![j] = "pending"]
  /\ attempts' = [attempts EXCEPT ![j] = 0]
  /\ epc' = [epc EXCEPT ![j] = "done"]

\* The key is wanted and not free, and others may write while the transaction
\* looks at its holder.
MustLook(j) ==
  ~SingleWriter /\ UniqueKey[j] # NoKey /\ lock[UniqueKey[j]] # NoJob

\* EnqueueInBatch: a duplicate rolls all of it back.  The status of the batch is
\* not looked at.  On PostgreSQL a transaction that finds its key taken goes on
\* to EnqueueCheck and EnqueueCollide, with the row of its batch locked.
EnqueueInBatch(j) ==
  LET b == BatchOf[j]
  IN /\ b # NoBatch
     /\ bstatus[b] # "none"
     /\ epc[j] = "new"
     /\ WriterFree(Workers)
     /\ BatchFree(b)
     /\ IF ~MustLook(j) /\ LocksAvailable({j})
        THEN AddToBatch(j)
        ELSE /\ epc' = [epc EXCEPT ![j] = IF MustLook(j) THEN "check" ELSE "duplicate"]
             /\ UNCHANGED <<bpending, lock, status, attempts>>
     /\ UNCHANGED <<deps, ttlOver, bstatus, expired, callbacks, submits,
                    sealedWith, holder, workerVars, envVars, acked>>

\* handleLockCollision inside EnqueueInBatch: the lock is overwritten, whoever has
\* it by now, the job inserted, and all of it committed.
TakeoverInBatch(j) ==
  /\ BatchOf[j] # NoBatch
  /\ epc[j] = "takeover"
  /\ AddToBatch(j)
  /\ UNCHANGED <<deps, ttlOver, bstatus, expired, callbacks, submits,
                 sealedWith, holder, workerVars, envVars, acked>>

\* insertWorkflowJob: a job with dependencies starts blocked.
FirstStatus(j) == IF Parents[j] = {} THEN "pending" ELSE "blocked"

\* EnqueueWorkflow: all jobs and dependency rows, or none on a duplicate.  Nobody
\* asks whether a parent exists or has finished already.
EnqueueWorkflow ==
  /\ Workflow # {}
  /\ \A j \in Workflow : epc[j] = "new"
  /\ WriterFree(Workers)
  /\ IF LocksAvailable(Workflow)
     THEN /\ lock' = TakeLocks(Workflow)
          /\ status' = [j \in Jobs |-> IF j \in Workflow THEN FirstStatus(j)
                                       ELSE status[j]]
          /\ attempts' = [j \in Jobs |-> IF j \in Workflow THEN 0 ELSE attempts[j]]
          /\ deps' = [j \in Jobs |-> IF j \in Workflow THEN deps[j] \cup Parents[j]
                                     ELSE deps[j]]
          /\ epc' = [j \in Jobs |-> IF j \in Workflow THEN "done" ELSE epc[j]]
     ELSE /\ epc' = [j \in Jobs |-> IF j \in Workflow THEN "duplicate" ELSE epc[j]]
          /\ UNCHANGED <<lock, status, attempts, deps>>
  /\ UNCHANGED <<ttlOver, batchVars, holder, workerVars, envVars, acked>>

\* Faults: Submit completes the batch at once; Submit leaves it to the last Ack.
CompleteAtOnce(b) == TRUE
CompleteNever(b)  == FALSE

\* processSubmit: the pending_jobs that sealBatch returns.
NothingPending(b) == bpending[b] = 0

\* SubmitBatch: checkBatchExpired, then sealBatch, whatever the status was, and
\* completeBatchAndEnqueue if no job is left.
SubmitBatch(b) ==
  /\ bstatus[b] # "none"
  /\ submits[b] < MaxSubmits
  /\ WriterFree(Workers)
  /\ BatchFree(b)
  /\ submits' = [submits EXCEPT ![b] = @ + 1]
  /\ IF b \in expired
     THEN /\ bstatus' = [bstatus EXCEPT ![b] = "failed"]
          /\ UNCHANGED <<callbacks, sealedWith>>
     ELSE /\ bstatus' = [bstatus EXCEPT ![b] =
                          IF NothingPending(b) THEN "completed" ELSE "sealed"]
          /\ callbacks' = [callbacks EXCEPT ![b] =
                            IF NothingPending(b) THEN @ + 1 ELSE @]
          /\ sealedWith' = [sealedWith EXCEPT ![b] =
                             {j \in Jobs : BatchOf[j] = b /\ epc[j] = "done"}]
  /\ UNCHANGED <<jobVars, lockVars, bpending, expired, enqVars, workerVars,
                 envVars, acked>>

-----------------------------------------------------------------------------
(* A worker goroutine: fetchAndSpawn, executeJob, finalizeJob.  Storage    *)
(* calls are made with the pool's context: once it is cancelled they fail. *)

Up(w) == w \notin down

\* dequeueFromQueue: IsQueuePaused, whose error counts as not paused.
Poll(w) ==
  /\ pc[w] = "idle"
  /\ Up(w)
  /\ ~paused \/ "storageError" \in Faults
  /\ pc' = [pc EXCEPT ![w] = "poll"]
  /\ UNCHANGED <<jobVars, lockVars, batchVars, enqVars, job, seenRow,
                 seenAttempts, kids, cut, ready, envVars, acked>>

\* Fault: the row lock is trusted and the status is not tested again.
TakeableUnlocked(j) == status[j] \in {"pending", "running"}

\* tryLockJob: WHERE status = 'pending'.
Takeable(j) == status[j] = "pending"

\* The handler was registered with a limit.  CheckRateLimit is modelled by its
\* answer: it may refuse at any moment.
Limited == MaxRunning > 0 \/ "rateLimit" \in Faults

\* Dequeue: tryLockJob skips locked rows and takes a pending one.
Dequeue(w, j) ==
  /\ pc[w] = "poll"
  /\ Up(w)
  /\ Takeable(j)
  /\ RowFree(j, Workers)
  /\ WriterFree(Workers)
  /\ status' = [status EXCEPT ![j] = "running"]
  /\ job' = [job EXCEPT ![w] = j]
  /\ pc' = [pc EXCEPT ![w] = IF Limited THEN "limits" ELSE "perform"]
  /\ UNCHANGED <<attempts, deps, lockVars, batchVars, enqVars, seenRow,
                 seenAttempts, kids, cut, ready, envVars, acked>>

\* Dequeue finds no job that is due and matches the tags, or fails.
DequeueNothing(w) ==
  /\ pc[w] = "poll"
  /\ pc' = [pc EXCEPT ![w] = "idle"]
  /\ UNCHANGED <<jobVars, lockVars, batchVars, enqVars, job, seenRow,
                 seenAttempts, kids, cut, ready, envVars, acked>>

RunningJobsCount == Cardinality({j \in Jobs : status[j] = "running"})

\* Fault: the job itself is taken out of the count.
OverLimitOthers == MaxRunning > 0 /\ RunningJobsCount > MaxRunning + 1

\* checkLimitsAndPostpone: count > cfg.maxConcurrency.
OverLimit == MaxRunning > 0 /\ RunningJobsCount > MaxRunning

\* checkLimitsAndPostpone: the count includes the job just dequeued; an error
\* of the count or of the rate limit lets the job run.
CheckLimits(w) ==
  /\ pc[w] = "limits"
  /\ \/ /\ Up(w)
        /\ pc' = [pc EXCEPT ![w] = IF OverLimit THEN "postpone"
                                   ELSE "perform"]
     \/ /\ "rateLimit" \in Faults
        /\ Up(w)
        /\ pc' = [pc EXCEPT ![w] = "postpone"]
     \/ /\ "storageError" \in Faults \/ ~Up(w)
        /\ pc' = [pc EXCEPT ![w] = "perform"]
  /\ UNCHANGED <<jobVars, lockVars, batchVars, enqVars, job, seenRow,
                 seenAttempts, kids, cut, ready, envVars, acked>>

\* UPDATE ... SET status = 'pending', which does nothing without the row.
Requeued(s) == IF s = "absent" THEN s ELSE "pending"

\* PostponeJob: pending again, with run_at one second ahead.
PostponeJob(w) ==
  /\ pc[w] = "postpone"
  /\ Up(w)
  /\ RowFree(job[w], Workers \ {w})
  /\ WriterFree(Workers \ {w})
  /\ status' = [status EXCEPT ![job[w]] = Requeued(@)]
  /\ pc' = [pc EXCEPT ![w] = "idle"]
  /\ job' = [job EXCEPT ![w] = NoJob]
  /\ UNCHANGED <<attempts, deps, lockVars, batchVars, enqVars, seenRow,
                 seenAttempts, kids, cut, ready, envVars, acked>>

\* runJobPerform: Perform returns nil; or it returns an error or panics, or the
\* handler is missing or the payload cannot be decrypted.
Perform(w) ==
  /\ pc[w] = "perform"
  /\ \/ pc' = [pc EXCEPT ![w] = "ackread"]
     \/ pc' = [pc EXCEPT ![w] = "failread"]
  /\ UNCHANGED <<jobVars, lockVars, batchVars, enqVars, job, seenRow,
                 seenAttempts, kids, cut, ready, envVars, acked>>

\* Ack: the SELECT of unique_key, queue and batch_id before the transaction.
AckRead(w) ==
  /\ pc[w] = "ackread"
  /\ Up(w)
  /\ seenRow' = [seenRow EXCEPT ![w] = Exists(job[w])]
  /\ pc' = [pc EXCEPT ![w] = "acktx"]
  /\ UNCHANGED <<jobVars, lockVars, batchVars, enqVars, job, seenAttempts,
                 kids, cut, ready, envVars, acked>>

\* performAck: UPDATE of the job row, then queryChildJobIDs.
AckBegin(w) ==
  /\ pc[w] = "acktx"
  /\ Up(w)
  /\ RowFree(job[w], Workers \ {w})
  /\ WriterFree(Workers \ {w})
  /\ kids' = [kids EXCEPT ![w] = Children(job[w])]
  /\ cut' = [cut EXCEPT ![w] = {}]
  /\ ready' = [ready EXCEPT ![w] = {}]
  /\ pc' = [pc EXCEPT ![w] = "ackkids"]
  /\ UNCHANGED <<jobVars, lockVars, batchVars, enqVars, job, seenRow,
                 seenAttempts, envVars, acked>>

\* resolveDependencies: DELETE of the rows of this parent, those that an
\* EnqueueWorkflow has committed since the children were read included.
AckDelete(w) ==
  /\ pc[w] = "ackkids"
  /\ Up(w)
  /\ cut' = [cut EXCEPT ![w] = Children(job[w])]
  /\ pc' = [pc EXCEPT ![w] = "ackcount"]
  /\ UNCHANGED <<jobVars, lockVars, batchVars, enqVars, job, seenRow,
                 seenAttempts, kids, ready, envVars, acked>>

\* Faults: the count is taken before the delete; no count is taken.
UnblockedBefore(c, j) == deps[c] = {}
UnblockedAlways(c, j) == TRUE

\* checkBlockedChildren: COUNT(*) = 0 once the rows of parent j are deleted.
Unblocked(c, j) == deps[c] \subseteq {j}

\* checkBlockedChildren, for one child: count what it has left, as committed by
\* now, and make it pending if that is nothing.
AckCount(w, c) ==
  /\ pc[w] = "ackcount"
  /\ Up(w)
  /\ c \in kids[w]
  /\ Unblocked(c, job[w]) => RowFree(c, Workers \ {w})
  /\ kids' = [kids EXCEPT ![w] = @ \ {c}]
  /\ ready' = [ready EXCEPT ![w] = IF Unblocked(c, job[w]) THEN @ \cup {c} ELSE @]
  /\ UNCHANGED <<jobVars, lockVars, batchVars, enqVars, pc, job, seenRow,
                 seenAttempts, cut, envVars, acked>>

AckResolve(w) == AckDelete(w) \/ \E c \in Jobs : AckCount(w, c)

\* Faults: only a sealed batch is counted down; any batch with no job left is
\* completed.
HandleBatchAckIfSealed(b) ==
  /\ bpending' = [bpending EXCEPT ![b] = IF bstatus[b] = "sealed" THEN @ - 1 ELSE @]
  /\ UNCHANGED <<bstatus, callbacks>>

HandleBatchAckUnsealed(b) ==
  LET last == bpending[b] = 1
  IN /\ bpending' = [bpending EXCEPT ![b] = @ - 1]
     /\ bstatus' = [bstatus EXCEPT ![b] = IF last THEN "completed" ELSE @]
     /\ callbacks' = [callbacks EXCEPT ![b] = IF last THEN @ + 1 ELSE @]

\* handleBatchAck: one pending job less; an expired batch fails, a sealed one
\* with no job left is completed and its callback inserted.
HandleBatchAck(b) ==
  LET last == bstatus[b] = "sealed" /\ bpending[b] = 1 /\ b \notin expired
  IN /\ bpending' = [bpending EXCEPT ![b] = @ - 1]
     /\ bstatus' = [bstatus EXCEPT ![b] = IF b \in expired THEN "failed"
                                          ELSE IF last THEN "completed" ELSE @]
     /\ callbacks' = [callbacks EXCEPT ![b] = IF last THEN @ + 1 ELSE @]

\* The last statements of performAck and the COMMIT that makes all of it
\* visible.  Without the row the SELECT returned no key and no batch.
AckCommit(w) ==
  LET j == job[w]
      b == BatchOf[j]
  IN /\ pc[w] = "ackcount"
     /\ Up(w)
     /\ kids[w] = {}
     /\ status' = [i \in Jobs |-> IF status[i] = "absent" THEN "absent"
                                  ELSE IF i \in ready[w] THEN "pending"
                                  ELSE IF i = j THEN "processed" ELSE status[i]]
     /\ deps' = [c \in Jobs |-> IF c \in cut[w] THEN deps[c] \ {j} ELSE deps[c]]
     /\ lock' = IF seenRow[w] THEN DeleteLocks({j}) ELSE lock
     /\ IF seenRow[w] /\ b # NoBatch
        THEN BatchFree(b) /\ HandleBatchAck(b)
        ELSE UNCHANGED <<bpending, bstatus, callbacks>>
     /\ acked' = [acked EXCEPT ![j] = @ + 1]
     /\ pc' = [pc EXCEPT ![w] = "idle"]
     /\ job' = [job EXCEPT ![w] = NoJob]
     /\ UNCHANGED <<attempts, ttlOver, expired, submits, sealedWith, enqVars,
                    seenRow, seenAttempts, kids, cut, ready, envVars>>

\* Fail: the SELECT before the transaction; a missing row is an error that
\* finalizeJobFailure ignores.
FailRead(w) ==
  /\ pc[w] = "failread"
  /\ Up(w)
  /\ IF Exists(job[w])
     THEN /\ seenAttempts' = [seenAttempts EXCEPT ![w] = attempts[job[w]]]
          /\ pc' = [pc EXCEPT ![w] = "failtx"]
          /\ UNCHANGED job
     ELSE /\ pc' = [pc EXCEPT ![w] = "idle"]
          /\ job' = [job EXCEPT ![w] = NoJob]
          /\ UNCHANGED seenAttempts
  /\ UNCHANGED <<jobVars, lockVars, batchVars, enqVars, seenRow, kids, cut, ready,
                 envVars, acked>>

\* Fault: one attempt too many.
ExhaustedLate(n, j) == n >= MaxAttempts[j]

\* performFail: no attempt is left after this one (n attempts were read).
Exhausted(n, j) == n + 1 >= MaxAttempts[j]

\* performFail below the limit: back to pending with a backoff delay.
FailRetry(w) ==
  LET j == job[w]
  IN /\ pc[w] = "failtx"
     /\ Up(w)
     /\ ~Exhausted(seenAttempts[w], j)
     /\ RowFree(j, Workers \ {w})
     /\ WriterFree(Workers \ {w})
     /\ status' = [status EXCEPT ![j] = Requeued(@)]
     /\ attempts' = [attempts EXCEPT ![j] = IF status[j] = "absent" THEN @ ELSE @ + 1]
     /\ pc' = [pc EXCEPT ![w] = "idle"]
     /\ job' = [job EXCEPT ![w] = NoJob]
     /\ UNCHANGED <<deps, lockVars, batchVars, enqVars, seenRow, seenAttempts,
                    kids, cut, ready, envVars, acked>>

\* How often the cascade from j may come to job c: a dying job reads its children
\* before the first of them dies, so c is reached once by each of its parents on
\* the path that leads to c first, and loses its dependency rows after that.
Visits(j, c) ==
  {Cardinality(S) : S \in {T \in SUBSET (deps[c] \cap (Descendants(j) \cup {j})) :
     /\ T # {}
     /\ j \in deps[c] => j \in T
     /\ \A p, q \in T : p = q \/ p \in Descendants(q) \/ q \in Descendants(p)}}

VisitCounts(j) ==
  {n \in [Descendants(j) -> 1 .. Cardinality(Workflow)] :
     \A c \in Descendants(j) : n[c] \in Visits(j, c)}

CountVisits(n) ==
  [i \in Jobs |-> IF i \in DOMAIN n /\ Exists(i) THEN attempts[i] + n[i]
                  ELSE attempts[i]]

\* transitionToDead of j, and of its descendants at every visit.
Kill(j) ==
  /\ status' = [i \in Jobs |-> IF i \in Descendants(j) \cup {j} /\ Exists(i)
                               THEN "dead" ELSE status[i]]
  /\ \E n \in VisitCounts(j) :
       attempts' = [CountVisits(n) EXCEPT ![j] = IF Exists(j) THEN @ + 1 ELSE @]

\* performFail at the limit: transitionToDead, the lock, the cascade over all
\* descendants and the batch, in one transaction.
FailDead(w) ==
  LET j    == job[w]
      fall == Descendants(j)
  IN /\ pc[w] = "failtx"
     /\ Up(w)
     /\ Exhausted(seenAttempts[w], j)
     /\ \A i \in fall \cup {j} : RowFree(i, Workers \ {w})
     /\ \A c \in fall : DepsFree(c, Workers \ {w})
     /\ \A b \in BatchesOf(WithRow(fall) \cup {j}) : BatchFree(b)
     /\ WriterFree(Workers \ {w})
     /\ Kill(j)
     /\ deps' = [c \in Jobs |-> IF c \in fall THEN {} ELSE deps[c]]
     /\ lock' = DeleteLocks(WithRow(fall) \cup {j})
     /\ bstatus' = FailBatches(WithRow(fall) \cup {j})
     /\ pc' = [pc EXCEPT ![w] = "idle"]
     /\ job' = [job EXCEPT ![w] = NoJob]
     /\ UNCHANGED <<ttlOver, bpending, expired, callbacks, submits, sealedWith,
                    enqVars, seenRow, seenAttempts, kids, cut, ready, envVars, acked>>

-----------------------------------------------------------------------------
(* Failures and the passage of time.                                       *)

\* The pool's context is cancelled.
Shutdown(w) ==
  /\ "shutdown" \in Faults
  /\ Up(w)
  /\ down' = down \cup {w}
  /\ UNCHANGED <<jobVars, lockVars, batchVars, enqVars, workerVars, paused,
                 adminCalls, acked>>

\* A storage call returns an error, as it always does with a cancelled context;
\* an open transaction is rolled back, and nobody looks at the errors of Ack,
\* Fail and PostponeJob.
CallFails(w) ==
  /\ ~Up(w) \/ "storageError" \in Faults
  /\ pc[w] \in {"postpone", "ackread", "acktx", "ackkids", "ackcount",
                "failread", "failtx"}
  /\ pc' = [pc EXCEPT ![w] = "idle"]
  /\ job' = [job EXCEPT ![w] = NoJob]
  /\ UNCHANGED <<jobVars, lockVars, batchVars, enqVars, seenRow, seenAttempts,
                 kids, cut, ready, envVars, acked>>

\* The process dies; an open transaction is rolled back.
Crash(w) ==
  /\ "crash" \in Faults
  /\ pc[w] # "off"
  /\ pc' = [pc EXCEPT ![w] = "off"]
  /\ job' = [job EXCEPT ![w] = NoJob]
  /\ UNCHANGED <<jobVars, lockVars, batchVars, enqVars, seenRow, seenAttempts,
                 kids, cut, ready, envVars, acked>>

\* getLockExpires: the lock of j passes its expires_at.
LockExpires(j) ==
  /\ "lockTTL" \in Faults
  /\ \E k \in Keys : lock[k] = j
  /\ j \notin ttlOver
  /\ ttlOver' = ttlOver \cup {j}
  /\ UNCHANGED <<jobVars, lock, batchVars, enqVars, workerVars, envVars, acked>>

\* A batch created with a timeout passes its expires_at.
BatchExpires(b) ==
  /\ "batchTTL" \in Faults
  /\ bstatus[b] # "none"
  /\ b \notin expired
  /\ expired' = expired \cup {b}
  /\ UNCHANGED <<jobVars, lockVars, bstatus, bpending, callbacks, submits,
                 sealedWith, enqVars, workerVars, envVars, acked>>

\* FailExpiredBatches, called by the leader's timeout watcher.
FailExpiredBatches ==
  LET late == {b \in expired : bstatus[b] \in {"open", "sealed"}}
  IN /\ late # {}
     /\ WriterFree(Workers)
     /\ \A b \in late : BatchFree(b)
     /\ bstatus' = [b \in Batches |-> IF b \in late THEN "failed" ELSE bstatus[b]]
     /\ UNCHANGED <<jobVars, lockVars, bpending, expired, callbacks, submits,
                    sealedWith, enqVars, workerVars, envVars, acked>>

-----------------------------------------------------------------------------
(* Administration, from the dashboard and the maintenance loops.  Each is  *)
(* one statement or one transaction (Cancel reads key and queue just       *)
(* before; both never change).  None looks at the status of the job unless *)
(* its WHERE clause says so.                                               *)

Admin(kind) ==
  /\ kind \in AdminOps
  /\ adminCalls < MaxAdminCalls
  /\ adminCalls' = adminCalls + 1
  /\ WriterFree(Workers)

\* UPDATE ... SET status = 'pending', attempts = 0.
Reset(js) ==
  /\ \A j \in js : RowFree(j, Workers)
  /\ status' = [j \in Jobs |-> IF j \in js THEN "pending" ELSE status[j]]
  /\ attempts' = [j \in Jobs |-> IF j \in js THEN 0 ELSE attempts[j]]
  /\ UNCHANGED <<deps, lockVars, batchVars, enqVars, workerVars, down, paused,
                 acked>>

\* BulkRetry, and Retry for a single id: whatever the status of the job is.
BulkRetry(js) ==
  /\ Admin("Retry")
  /\ Reset(WithRow(js))

RetryAllFailed ==
  /\ Admin("RetryAllFailed")
  /\ Reset({j \in Jobs : status[j] = "dead"})

\* The dependency rows of deleted jobs go with them on PostgreSQL (ON DELETE
\* CASCADE); SQLite does not enforce its foreign keys, and they stay.
DropDeps(js) ==
  IF SingleWriter THEN UNCHANGED deps
  ELSE /\ \A j \in js : DepsFree(j, Workers)
       /\ deps' = [j \in Jobs |-> IF j \in js THEN {} ELSE deps[j]]

\* DELETE FROM runiq_jobs.
Remove(js) ==
  /\ \A j \in js : RowFree(j, Workers)
  /\ status' = [j \in Jobs |-> IF j \in js THEN "absent" ELSE status[j]]
  /\ DropDeps(js)

\* Cancel: delete the row and its lock, then cascade to the descendants, also
\* when the row is gone already.
Cancel(j) ==
  LET fall == Descendants(j)
      gone == IF SingleWriter THEN fall ELSE fall \cup {j}
  IN /\ Admin("Cancel")
     /\ \A i \in fall \cup {j} : RowFree(i, Workers)
     /\ \A c \in gone : DepsFree(c, Workers)
     /\ \A b \in BatchesOf(WithRow(fall)) : BatchFree(b)
     /\ status' = [i \in Jobs |-> IF i = j THEN "absent"
                                  ELSE IF i \in fall /\ Exists(i) THEN "dead"
                                  ELSE status[i]]
     /\ \E n \in VisitCounts(j) : attempts' = CountVisits(n)
     /\ deps' = [c \in Jobs |-> IF c \in gone THEN {} ELSE deps[c]]
     /\ lock' = DeleteLocks(WithRow(fall \cup {j}))
     /\ bstatus' = FailBatches(WithRow(fall))
     /\ UNCHANGED <<ttlOver, bpending, expired, callbacks, submits, sealedWith,
                    enqVars, workerVars, down, paused, acked>>

\* BulkCancel: delete the rows and their locks; nothing cascades to their children.
BulkCancel(js) ==
  /\ Admin("BulkCancel")
  /\ Remove(js)
  /\ lock' = DeleteLocks(WithRow(js))
  /\ UNCHANGED <<attempts, ttlOver, batchVars, enqVars, workerVars, down,
                 paused, acked>>

\* BulkPurge: delete the rows only.
BulkPurge(js) ==
  /\ Admin("BulkPurge")
  /\ Remove(js)
  /\ UNCHANGED <<attempts, lockVars, batchVars, enqVars, workerVars, down,
                 paused, acked>>

\* ClearQueue: every row and every lock of the queue.
ClearQueue ==
  /\ Admin("ClearQueue")
  /\ Remove({j \in Jobs : Exists(j)})
  /\ lock' = [k \in Keys |-> NoJob]
  /\ UNCHANGED <<attempts, ttlOver, batchVars, enqVars, workerVars, down,
                 paused, acked>>

\* PurgeAllFailed, and PurgeExpiredDLQ for those old enough.
PurgeDLQ(js) ==
  /\ Admin("PurgeAllFailed")
  /\ \A j \in js : status[j] = "dead"
  /\ Remove(js)
  /\ UNCHANGED <<attempts, lockVars, batchVars, enqVars, workerVars, down,
                 paused, acked>>

\* ArchiveJobs moves finished jobs that are old enough to the archive.
ArchiveJobs(js) ==
  /\ Admin("ArchiveJobs")
  /\ \A j \in js : status[j] \in {"processed", "dead"}
  /\ Remove(js)
  /\ UNCHANGED <<attempts, lockVars, batchVars, enqVars, workerVars, down,
                 paused, acked>>

\* PauseQueue and ResumeQueue.
SetPaused(value) ==
  /\ Admin("Pause")
  /\ paused # value
  /\ paused' = value
  /\ UNCHANGED <<jobVars, lockVars, batchVars, enqVars, workerVars, down, acked>>

-----------------------------------------------------------------------------
EnqueueStep(j) ==
  \/ EnqueueLock(j) \/ EnqueueCheck(j) \/ EnqueueCollide(j)
  \/ EnqueueTakeover(j) \/ EnqueueInsert(j) \/ EnqueueInBatch(j)
  \/ TakeoverInBatch(j)

\* What a worker does with the job it has, once Perform has returned.
Finalize(w) ==
  \/ AckRead(w) \/ AckBegin(w) \/ AckResolve(w) \/ AckCommit(w)
  \/ FailRead(w) \/ FailRetry(w) \/ FailDead(w)

WorkerStep(w) ==
  \/ Poll(w) \/ DequeueNothing(w) \/ \E j \in Jobs : Dequeue(w, j)
  \/ CheckLimits(w) \/ PostponeJob(w) \/ Perform(w) \/ Finalize(w)

FaultStep ==
  \/ \E w \in Workers : Shutdown(w) \/ CallFails(w) \/ Crash(w)
  \/ \E j \in Jobs : EnqueueDies(j) \/ LockExpires(j)
  \/ \E b \in Batches : BatchExpires(b)

AdminStep ==
  \/ \E j \in Jobs : Cancel(j)
  \/ \E js \in SUBSET Jobs \ {{}} :
       \/ BulkRetry(js) \/ BulkCancel(js) \/ BulkPurge(js)
       \/ PurgeDLQ(js) \/ ArchiveJobs(js)
  \/ RetryAllFailed \/ ClearQueue
  \/ \E value \in BOOLEAN : SetPaused(value)

\* Nothing polls: every process is gone, shut down, or finds the queue paused.
AtRest ==
  /\ \A w \in Workers : pc[w] = "off" \/ (pc[w] = "idle" /\ (paused \/ ~Up(w)))
  /\ UNCHANGED vars

Next ==
  \/ \E j \in Jobs : EnqueueStep(j)
  \/ EnqueueWorkflow
  \/ \E b \in Batches : CreateBatch(b) \/ SubmitBatch(b)
  \/ FailExpiredBatches
  \/ \E w \in Workers : WorkerStep(w)
  \/ FaultStep
  \/ AdminStep
  \/ AtRest

Spec == Init /\ [][Next]_vars

\* Every enqueue call and every worker goroutine goes on; a pool polls again and
\* again, and finds a pending job that stays pending when its run_at has passed
\* and the jobs before it are gone (Dequeue orders by priority and age).
Fairness ==
  /\ \A j \in Jobs : WF_vars(EnqueueStep(j))
  /\ WF_vars(EnqueueWorkflow)
  /\ \A w \in Workers : WF_vars(Poll(w)) /\ WF_vars(Perform(w))
                         /\ WF_vars(Finalize(w))
  /\ \A j \in Jobs : SF_vars(\E w \in Workers : Dequeue(w, j))

FairSpec == Spec /\ Fairness

-----------------------------------------------------------------------------
(* Properties.                                                             *)

JobTypes ==
  /\ status \in [Jobs -> Statuses]
  /\ attempts \in [Jobs -> Nat]
  /\ deps \in [Jobs -> SUBSET Jobs]

LockTypes ==
  /\ lock \in [Keys -> Jobs \cup {NoJob}]
  /\ ttlOver \subseteq Jobs

BatchTypes ==
  /\ bstatus \in [Batches -> BatchStatuses]
  /\ bpending \in [Batches -> Int]
  /\ expired \subseteq Batches
  /\ callbacks \in [Batches -> Nat]
  /\ submits \in [Batches -> Nat]
  /\ sealedWith \in [Batches -> SUBSET Jobs]

EnqueueTypes ==
  /\ epc \in [Jobs -> EnqueuePcs]
  /\ holder \in [Jobs -> Jobs \cup {NoJob}]
  /\ \A j \in Jobs : epc[j] \in {"check", "collide", "takeover"} =>
                      UniqueKey[j] # NoKey

WorkerTypes ==
  /\ pc \in [Workers -> WorkerPcs]
  /\ job \in [Workers -> Jobs \cup {NoJob}]
  /\ seenRow \in [Workers -> BOOLEAN]
  /\ seenAttempts \in [Workers -> Nat]
  /\ kids \in [Workers -> SUBSET Jobs]
  /\ cut \in [Workers -> SUBSET Jobs]
  /\ ready \in [Workers -> SUBSET Jobs]
  /\ \A w \in Workers : pc[w] \notin {"idle", "poll", "off"} <=> job[w] # NoJob

EnvTypes ==
  /\ down \subseteq Workers
  /\ paused \in BOOLEAN
  /\ adminCalls \in Nat

\* Every table column and program counter keeps its type, and a worker has a
\* job exactly while it is between Dequeue and the end of Ack or Fail.
TypeOK ==
  /\ JobTypes /\ LockTypes /\ BatchTypes /\ EnqueueTypes /\ WorkerTypes
  /\ EnvTypes
  /\ acked \in [Jobs -> Nat]

\* No job is in the hands of two workers: FOR UPDATE SKIP LOCKED, the status
\* test of Dequeue and the unconditional writes of Fail, PostponeJob and of the
\* parents' Acks never make a job that is being worked on available again, with
\* crashes, shutdowns and every administration call but Retry of a running job.
ExclusiveExecution ==
  \A v, w \in Workers : v # w /\ job[v] # NoJob => job[v] # job[w]

\* A job that waits to be run again has attempts left, although Fail reads the
\* counter in one statement and increments it in another.  Dead, it has counted no
\* more than its attempts, if it has no dependencies: a cascade counts each visit.
RetryBudget ==
  \A j \in Jobs :
    /\ status[j] \in {"pending", "running"} => attempts[j] < MaxAttempts[j]
    /\ j \notin Workflow \/ Parents[j] = {} => attempts[j] <= MaxAttempts[j]

\* checkLimitsAndPostpone counts after dequeuing and so never lets more than
\* WithMaxConcurrency jobs of the handler perform at the same time.
ThrottleBound ==
  MaxRunning > 0 =>
    Cardinality({w \in Workers : pc[w] = "perform"}) <= MaxRunning

\* pending_jobs counts the members that are not acknowledged yet.
BatchCount ==
  \A b \in Batches :
    bpending[b] = Cardinality({j \in Jobs : /\ BatchOf[j] = b
                                            /\ epc[j] = "done"
                                            /\ acked[j] = 0})

\* One Submit leads to at most one callback job, whether the last Ack comes
\* before or after it.
CallbackOnce == \A b \in Batches : callbacks[b] <= submits[b]

\* The callback is enqueued only after every job the batch was sealed with has
\* been acknowledged.
CallbackAfterAll ==
  \A b \in Batches :
    callbacks[b] > 0 => \A j \in sealedWith[b] : acked[j] > 0

\* A job is refused as a duplicate only in favour of another job with its key
\* that was really enqueued, not of a lock whose enqueuer died half way.
RefusedOnlyForAnother ==
  \A j \in Jobs : epc[j] = "duplicate" =>
    \E i \in Jobs \ {j} : UniqueKey[i] = UniqueKey[j] /\ epc[i] = "done"

\* A job that has not finished.
Live(j) == status[j] \in {"blocked", "pending", "running"}

\* At most one live job has a given unique key.  Holds for keys that are taken in
\* transactions, while no lock expires and, on PostgreSQL, no row is removed before
\* a transaction has looked for it.  It does not hold for Enqueue, whose lock and
\* row are written by separate statements, nor for two transactions that both take
\* over the stale lock of a third job.
UniqueLive ==
  \A i, j \in Jobs : i # j /\ UniqueKey[i] = UniqueKey[j] /\ UniqueKey[i] # NoKey
                     => ~(Live(i) /\ Live(j))

\* A blocked job waits for something: when its last parent is acknowledged it
\* is unblocked.  Refuted for PostgreSQL when two parents finish together.
BlockedHasDeps == \A j \in Jobs : status[j] = "blocked" => deps[j] # {}

\* A job starts only after all its parents have been acknowledged.
ParentsFirst ==
  \A j \in Workflow :
    status[j] \in {"pending", "running", "processed"} =>
      \A p \in Parents[j] : acked[p] > 0

\* Fail-fast: the children of a dead job are dead, within one call of
\* EnqueueWorkflow.  (A parent that was dead before leaves its child blocked.)
DeadParentKillsChild ==
  \A j \in Workflow : \A p \in Parents[j] \cap Workflow :
    status[p] = "dead" => status[j] = "dead"

\* Every job that was enqueued ends up processed or dead, unless some job of the
\* workflow waits for a parent outside it that had finished before the call: nobody
\* takes it from the dependencies any more.
EveryJobSettles ==
  \A j \in Jobs :
    (epc[j] = "done") ~> \/ status[j] \in {"processed", "dead"}
                         \/ \E i \in Workflow : \E p \in deps[i] \ Workflow :
                              status[p] \in {"processed", "dead"}

\* Every sealed batch completes or, when it expires, fails, unless one of its
\* jobs is dead: then it fails, or stays sealed if the job died before Submit.
EveryBatchSettles ==
  \A b \in Batches :
    (bstatus[b] = "sealed") ~> \/ bstatus[b] \in {"completed", "failed"}
                               \/ \E j \in Jobs : BatchOf[j] = b /\ status[j] = "dead"

-----------------------------------------------------------------------------
(* What a caller sees of it.                                               *)

\* A blocked job waits, too; a row that is missing after the enqueue call is gone.
LifecycleOf(j) ==
  IF status[j] \in {"running", "dead"} THEN status[j]
  ELSE IF status[j] = "processed" THEN "finished"
  ELSE IF Exists(j) THEN "waiting"
  ELSE IF epc[j] = "done" THEN "gone" ELSE "none"

Lifecycle == INSTANCE JobLifecycle WITH
  st   <- [j \in Jobs |-> LifecycleOf(j)],
  hold <- job,
  WithdrawnForGood <- TRUE

\* The statements and transactions of the SQL drivers implement the life of a job, of
\* which every step is one of theirs and happens at once.
ImplementsLifecycle == Lifecycle!Spec

=============================================================================
