----------------------------- MODULE RedisQueue -----------------------------
(***************************************************************************)
(* The queue of the Redis driver (queue/redis.go, redis_admin.go and       *)
(* redis_admin_helper.go) with the clients that enqueue, the workers, the  *)
(* poller of scheduled jobs and cancellation.                              *)
(*                                                                         *)
(* A job is an envelope in the hash runiq:jobs, and its id is a member of  *)
(* the sorted set of the queue, of the sorted set of scheduled jobs or of  *)
(* the set of active jobs.  Nothing but the order of commands keeps these  *)
(* apart.  A command is a step; so is a pipeline whose commands write what *)
(* nobody reads together, and a transaction (TxPipeline).                  *)
(*                                                                         *)
(* A scheduled job may be found due by any poll, and Dequeue may stop at   *)
(* any of the candidates it has read (tags, priority and age decide).      *)
(* Lists of an older version (migrateListToZSet), dependencies and batches *)
(* are left out here; the batch of a job is in RedisBatch.                 *)
(***************************************************************************)
EXTENDS Integers, FiniteSets

CONSTANTS
  Jobs,         \* job ids; every id is generated once
  Workers,      \* job goroutines, over all processes
  Pollers,      \* processes that run the poller of scheduled jobs
  Keys,         \* unique keys
  NoJob, NoKey,
  UniqueKey,    \* [Jobs -> Keys \cup {NoKey}], JobEnvelope.UniqueKey
  MaxAttempts,  \* [Jobs -> positive], JobEnvelope.MaxAttempts
  MaxRunning,   \* WithMaxConcurrency of the handler, 0 for no limit
  DeadListSize, \* length of the list of dead jobs, 50 in the code
  MaxAdminCalls \* bound: administration calls, one at a time

ASSUME QueueAssumption ==
  /\ IsFiniteSet(Jobs) /\ IsFiniteSet(Workers)
  /\ NoJob \notin Jobs /\ NoKey \notin Keys
  /\ UniqueKey \in [Jobs -> Keys \cup {NoKey}]
  /\ MaxAttempts \in [Jobs -> Nat \ {0}]
  /\ MaxRunning \in Nat
  /\ DeadListSize \in Nat \ {0}
  /\ MaxAdminCalls \in Nat

VARIABLES
  stored,     \* ids with an envelope in runiq:jobs
  attempts,   \* the attempts in the envelope
  queue,      \* runiq:queue:<q>
  scheduled,  \* runiq:scheduled:<q>
  active,     \* runiq:active:<q>
  processed,  \* runiq:processed_ttl
  dead,       \* runiq:dead_ttl
  dlq,        \* runiq:dead:<q>, the list of the dashboard, trimmed
  lock,       \* runiq:unique:<q>:<key>, NoJob if there is none
  epc,        \* where the enqueue call of a job is
  pc, job,    \* where a worker is; the job it has
  found,      \* Dequeue: the candidates read by ZREVRANGE
  tried,      \* the attempts in the envelope the worker has read
  due,        \* PollScheduled: the ids a poller has read
  apc, ids,   \* the administration call under way; the ids it has still to do
  adminCalls, \* administration calls so far
  refused     \* history: the holder a job was refused for

data    == <<stored, attempts, queue, scheduled, active, processed, dead, dlq>>
worker  == <<pc, job, found, tried>>
admin   == <<apc, ids, adminCalls>>
vars    == <<data, lock, epc, worker, due, admin, refused>>

EnqueuePcs == {"new", "get", "exists", "set", "store", "done", "duplicate"}
WorkerPcs  == {"idle", "scan", "popped", "limits", "postpone", "perform",
               "ackread", "ack", "failread", "fail", "off"}
AdminPcs   == {"idle", "cancel", "retry", "purge", "expire", "archive"}

Init ==
  /\ stored = {} /\ queue = {} /\ scheduled = {} /\ active = {}
  /\ processed = {} /\ dead = {} /\ dlq = {}
  /\ attempts = [j \in Jobs |-> 0]
  /\ lock = [k \in Keys |-> NoJob]
  /\ epc = [j \in Jobs |-> "new"]
  /\ pc = [w \in Workers |-> "idle"]
  /\ job = [w \in Workers |-> NoJob]
  /\ found = [w \in Workers |-> {}]
  /\ tried = [w \in Workers |-> 0]
  /\ due = [p \in Pollers |-> {}]
  /\ apc = "idle" /\ ids = {} /\ adminCalls = 0
  /\ refused = [j \in Jobs |-> NoJob]

-----------------------------------------------------------------------------
(* Enqueue.                                                                *)

\* acquireUniqueLock: SETNX.
EnqueueSetNX(j) ==
  /\ epc[j] = "new"
  /\ IF UniqueKey[j] = NoKey \/ lock[UniqueKey[j]] = NoJob
     THEN /\ epc' = [epc EXCEPT ![j] = "store"]
          /\ lock' = [k \in Keys |-> IF k = UniqueKey[j] THEN j ELSE lock[k]]
     ELSE /\ epc' = [epc EXCEPT ![j] = "get"]
          /\ UNCHANGED lock
  /\ UNCHANGED <<data, worker, due, admin, refused>>

\* checkLockDuplicate: GET; a lock that is gone by now is no duplicate.
EnqueueGet(j) ==
  /\ epc[j] = "get"
  /\ LET h == lock[UniqueKey[j]]
     IN /\ epc' = [epc EXCEPT ![j] = IF h = NoJob THEN "set" ELSE "exists"]
        /\ refused' = [refused EXCEPT ![j] = h]
  /\ UNCHANGED <<data, lock, worker, due, admin>>

\* Fault: the envelope of the holder is not looked up.
HolderTrusted(h) == TRUE

\* checkLockDuplicate: HEXISTS of the holder.
HolderExists(h) == h \in stored

EnqueueExists(j) ==
  /\ epc[j] = "exists"
  /\ epc' = [epc EXCEPT ![j] = IF HolderExists(refused[j]) THEN "duplicate"
                               ELSE "set"]
  /\ UNCHANGED <<data, lock, worker, due, admin, refused>>

\* acquireUniqueLock: SET, over whatever is there.
EnqueueSet(j) ==
  /\ epc[j] = "set"
  /\ lock' = [lock EXCEPT ![UniqueKey[j]] = j]
  /\ epc' = [epc EXCEPT ![j] = "store"]
  /\ UNCHANGED <<data, worker, due, admin, refused>>

\* execEnqueue, for now or for later.
EnqueueStore(j) ==
  /\ epc[j] = "store"
  /\ epc' = [epc EXCEPT ![j] = "done"]
  /\ stored' = stored \cup {j}
  /\ attempts' = [attempts EXCEPT ![j] = 0]
  /\ \/ queue' = queue \cup {j} /\ UNCHANGED scheduled
     \/ scheduled' = scheduled \cup {j} /\ UNCHANGED queue
  /\ UNCHANGED <<active, processed, dead, dlq, lock, worker, due, admin, refused>>

\* The lock passes its TTL.
LockExpires(k) ==
  /\ lock[k] # NoJob
  /\ lock' = [lock EXCEPT ![k] = NoJob]
  /\ UNCHANGED <<data, epc, worker, due, admin, refused>>

-----------------------------------------------------------------------------
(* PollScheduled.                                                          *)

\* ZRANGEBYSCORE: the ids that are due.
PollRead(p, js) ==
  /\ due[p] = {}
  /\ js # {} /\ js \subseteq scheduled
  /\ due' = [due EXCEPT ![p] = js]
  /\ UNCHANGED <<data, lock, epc, worker, admin, refused>>

\* activateScheduledJobs: ZREM and ZADD, whether or not the id is still there.
PollActivate(p) ==
  /\ due[p] # {}
  /\ scheduled' = scheduled \ due[p]
  /\ queue' = queue \cup due[p]
  /\ due' = [due EXCEPT ![p] = {}]
  /\ UNCHANGED <<stored, attempts, active, processed, dead, dlq, lock, epc, worker,
                 admin, refused>>

-----------------------------------------------------------------------------
(* A worker.                                                               *)

\* Dequeue: ZREVRANGE.
DequeueScan(w) ==
  /\ pc[w] = "idle"
  /\ queue # {}
  /\ found' = [found EXCEPT ![w] = queue]
  /\ pc' = [pc EXCEPT ![w] = "scan"]
  /\ UNCHANGED <<data, lock, epc, job, tried, due, admin, refused>>

\* Fault: the result of ZREM is not looked at.
RemovedAnyway(j) == TRUE

\* findAndPopJob: ZREM returned 1.
Removed(j) == j \in queue

\* findAndPopJob: the envelope is there and its tags match; ZREM decides whose
\* the job is.
DequeuePop(w, j) ==
  /\ pc[w] = "scan"
  /\ j \in found[w] \cap stored
  /\ IF Removed(j)
     THEN /\ queue' = queue \ {j}
          /\ job' = [job EXCEPT ![w] = j]
          /\ pc' = [pc EXCEPT ![w] = "popped"]
          /\ found' = [found EXCEPT ![w] = {}]
     ELSE /\ found' = [found EXCEPT ![w] = @ \ {j}]
          /\ UNCHANGED <<queue, job, pc>>
  /\ UNCHANGED <<stored, attempts, scheduled, active, processed, dead, dlq, lock, epc,
                 tried, due, admin, refused>>

\* findAndPopJob runs out of candidates, or of candidates with matching tags.
DequeueNothing(w) ==
  /\ pc[w] = "scan"
  /\ pc' = [pc EXCEPT ![w] = "idle"]
  /\ found' = [found EXCEPT ![w] = {}]
  /\ UNCHANGED <<data, lock, epc, job, tried, due, admin, refused>>

\* findAndPopJob: SADD, a command of its own.
DequeueActive(w) ==
  /\ pc[w] = "popped"
  /\ active' = active \cup {job[w]}
  /\ pc' = [pc EXCEPT ![w] = IF MaxRunning > 0 THEN "limits" ELSE "perform"]
  /\ UNCHANGED <<stored, attempts, queue, scheduled, processed, dead, dlq, lock,
                 epc, job, found, tried, due, admin, refused>>

\* GetRunningJobsCount: the active ids that have an envelope.
RunningJobsCount == Cardinality(active \cap stored)

\* Fault: the job itself is taken out of the count.
OverLimitOthers == RunningJobsCount > MaxRunning + 1

OverLimit == RunningJobsCount > MaxRunning

\* checkLimitsAndPostpone.
CheckLimits(w) ==
  /\ pc[w] = "limits"
  /\ pc' = [pc EXCEPT ![w] = IF OverLimit THEN "postpone" ELSE "perform"]
  /\ UNCHANGED <<data, lock, epc, job, found, tried, due, admin, refused>>

\* Fault: the worker keeps the job.
ReleaseKeeps(w) ==
  /\ pc' = [pc EXCEPT ![w] = "idle"]
  /\ UNCHANGED job

\* The worker lets the job go.
Release(w) ==
  /\ pc' = [pc EXCEPT ![w] = "idle"]
  /\ job' = [job EXCEPT ![w] = NoJob]

\* Fault: the job is taken off the active set and put nowhere.
RescheduledNot(j) == scheduled

\* rescheduleJob and PostponeJob: ZADD.
Rescheduled(j) == scheduled \cup {j}

\* PostponeJob: SREM and ZADD in a transaction, with or without an envelope.
PostponeJob(w) ==
  /\ pc[w] = "postpone"
  /\ active' = active \ {job[w]}
  /\ scheduled' = Rescheduled(job[w])
  /\ Release(w)
  /\ UNCHANGED <<stored, attempts, queue, processed, dead, dlq, lock, epc, found,
                 tried, due, admin, refused>>

\* runJobPerform: Perform succeeds or fails.
Perform(w) ==
  /\ pc[w] = "perform"
  /\ \/ pc' = [pc EXCEPT ![w] = "ackread"]
     \/ pc' = [pc EXCEPT ![w] = "failread"]
  /\ UNCHANGED <<data, lock, epc, job, found, tried, due, admin, refused>>

\* Ack and Fail: HGET of the envelope; without one there is nothing to do.
FinalizeRead(w, from, to) ==
  /\ pc[w] = from
  /\ IF job[w] \in stored
     THEN /\ pc' = [pc EXCEPT ![w] = to]
          /\ tried' = [tried EXCEPT ![w] = attempts[job[w]]]
          /\ UNCHANGED job
     ELSE Release(w) /\ UNCHANGED tried
  /\ UNCHANGED <<data, lock, epc, found, due, admin, refused>>

AckRead(w)  == FinalizeRead(w, "ackread", "ack")
FailRead(w) == FinalizeRead(w, "failread", "fail")

\* The lock is deleted by its key, whoever holds it.
Unlock(j) == [k \in Keys |-> IF k = UniqueKey[j] THEN NoJob ELSE lock[k]]

\* performAck.
Ack(w) ==
  /\ pc[w] = "ack"
  /\ active' = active \ {job[w]}
  /\ processed' = processed \cup {job[w]}
  /\ lock' = Unlock(job[w])
  /\ Release(w)
  /\ UNCHANGED <<stored, attempts, queue, scheduled, dead, dlq, epc, found,
                 tried, due, admin, refused>>

\* Fault: one attempt too many.
AttemptsLeftLate(n, j) == n <= MaxAttempts[j]

\* prepareFailStep, with the attempt that has just failed counted.
AttemptsLeft(n, j) == n < MaxAttempts[j]

\* handleDeadJob: LPUSH and LTRIM of the list of dead jobs, whose order is left out:
\* any other id may be the oldest.
DeadLists(j) ==
  IF Cardinality(dlq \cup {j}) <= DeadListSize THEN {dlq \cup {j}}
  ELSE {d \in SUBSET (dlq \cup {j}) : j \in d /\ Cardinality(d) = DeadListSize}

\* processFail: the envelope is written back as it was read, with one more
\* attempt; the job is scheduled again or dead.
Fail(w) ==
  LET j == job[w]
      n == tried[w] + 1
  IN /\ pc[w] = "fail"
     /\ active' = active \ {j}
     /\ stored' = stored \cup {j}
     /\ attempts' = [attempts EXCEPT ![j] = n]
     /\ IF AttemptsLeft(n, j)
        THEN scheduled' = Rescheduled(j) /\ UNCHANGED <<dead, dlq, lock>>
        ELSE /\ dead' = dead \cup {j}
             /\ dlq' \in DeadLists(j)
             /\ lock' = Unlock(j)
             /\ UNCHANGED scheduled
     /\ Release(w)
     /\ UNCHANGED <<queue, processed, epc, found, tried, due, admin, refused>>

\* The process dies; the job it had is not looked for by anybody.
Crash(w) ==
  /\ pc[w] # "off"
  /\ pc' = [pc EXCEPT ![w] = "off"]
  /\ UNCHANGED <<data, lock, epc, job, found, tried, due, admin, refused>>

-----------------------------------------------------------------------------
(* Administration, from the dashboard and the maintenance loops.  A call   *)
(* reads the ids it is about and deals with them later.  BulkCancel and    *)
(* BulkPurge repeat Cancel.                                                *)

\* The call reads the ids js.
AdminRead(kind, js) ==
  /\ apc = "idle"
  /\ adminCalls < MaxAdminCalls
  /\ js # {}
  /\ apc' = kind
  /\ ids' = js
  /\ adminCalls' = adminCalls + 1
  /\ UNCHANGED <<data, lock, epc, worker, due, refused>>

\* The call has dealt with the ids js.
AdminDone(js) ==
  /\ ids' = ids \ js
  /\ apc' = IF ids \subseteq js THEN "idle" ELSE apc
  /\ UNCHANGED <<adminCalls, epc, worker, due, refused>>

\* Cancel: HGET of the envelope.
CancelRead(j) == j \in stored /\ AdminRead("cancel", {j})

\* executeCancelTx.
CancelWrite ==
  /\ apc = "cancel"
  /\ queue' = queue \ ids
  /\ active' = active \ ids
  /\ scheduled' = scheduled \ ids
  /\ dead' = dead \ ids
  /\ dlq' = dlq \ ids
  /\ stored' = stored \ ids
  /\ lock' = [k \in Keys |-> IF \E j \in ids : k = UniqueKey[j] THEN NoJob
                             ELSE lock[k]]
  /\ AdminDone(ids)
  /\ UNCHANGED <<attempts, processed>>

\* retryQueueFailed: LRANGE of the list of dead jobs.
RetryAllFailed == AdminRead("retry", dlq)

\* Retry of one of them and executeRetryTx: with no attempts, at once.  Nobody
\* else writes the envelope of a dead job, so the HGET is part of the step.  An
\* id without an envelope ends the call.
Retry(j) ==
  /\ apc = "retry"
  /\ j \in ids
  /\ IF j \in stored
     THEN /\ attempts' = [attempts EXCEPT ![j] = 0]
          /\ dead' = dead \ {j}
          /\ dlq' = dlq \ {j}
          /\ queue' = queue \cup {j}
          /\ AdminDone({j})
     ELSE /\ AdminDone(ids)
          /\ UNCHANGED <<attempts, dead, dlq, queue>>
  /\ UNCHANGED <<stored, scheduled, active, processed, lock>>

\* purgeQueueFailed: LRANGE of the list of dead jobs.
PurgeAllFailed == AdminRead("purge", dlq)

\* deleteFailedJobs: the envelopes and dead_ttl entries that were read, but the
\* list as a whole.
PurgeWrite ==
  /\ apc = "purge"
  /\ stored' = stored \ ids
  /\ dead' = dead \ ids
  /\ dlq' = {}
  /\ AdminDone(ids)
  /\ UNCHANGED <<attempts, queue, scheduled, active, processed, lock>>

\* PurgeExpiredDLQ: ZRANGEBYSCORE of dead_ttl, those old enough.
PurgeExpiredDLQ(js) == js \subseteq dead /\ AdminRead("expire", js)

\* executePurgeDLQ.
ExpireWrite ==
  /\ apc = "expire"
  /\ stored' = stored \ ids
  /\ dead' = dead \ ids
  /\ dlq' = dlq \ ids
  /\ AdminDone(ids)
  /\ UNCHANGED <<attempts, queue, scheduled, active, processed, lock>>

\* getExpiredJobs: finished jobs that are old enough.
ArchiveJobs(js) == js \subseteq processed \cup dead /\ AdminRead("archive", js)

\* archiveSingleJob: the envelope moves to the archive, if it is there, and the
\* id leaves the lists and sets of finished jobs.
ArchiveOne(j) ==
  /\ apc = "archive"
  /\ j \in ids
  /\ stored' = stored \ {j}
  /\ processed' = processed \ {j}
  /\ dead' = dead \ {j}
  /\ dlq' = dlq \ {j}
  /\ AdminDone({j})
  /\ UNCHANGED <<attempts, queue, scheduled, active, lock>>

AdminStep ==
  \/ CancelWrite \/ RetryAllFailed \/ PurgeAllFailed \/ PurgeWrite \/ ExpireWrite
  \/ \E j \in Jobs : CancelRead(j) \/ Retry(j) \/ ArchiveOne(j)
  \/ \E js \in SUBSET Jobs : PurgeExpiredDLQ(js) \/ ArchiveJobs(js)

-----------------------------------------------------------------------------
EnqueueStep(j) ==
  \/ EnqueueSetNX(j) \/ EnqueueGet(j) \/ EnqueueExists(j) \/ EnqueueSet(j)
  \/ EnqueueStore(j)

Finalize(w) == AckRead(w) \/ Ack(w) \/ FailRead(w) \/ Fail(w)

WorkerStep(w) ==
  \/ DequeueScan(w) \/ DequeueNothing(w) \/ \E j \in Jobs : DequeuePop(w, j)
  \/ DequeueActive(w) \/ CheckLimits(w) \/ PostponeJob(w) \/ Perform(w)
  \/ Finalize(w)

\* Every process is gone or finds nothing to do.
AtRest ==
  /\ \A w \in Workers : pc[w] = "off" \/ (pc[w] = "idle" /\ queue = {})
  /\ UNCHANGED vars

Next ==
  \/ \E j \in Jobs : EnqueueStep(j)
  \/ AdminStep
  \/ \E k \in Keys : LockExpires(k)
  \/ \E p \in Pollers : PollActivate(p) \/ \E js \in SUBSET Jobs : PollRead(p, js)
  \/ \E w \in Workers : WorkerStep(w) \/ Crash(w)
  \/ AtRest

Spec == Init /\ [][Next]_vars

-----------------------------------------------------------------------------
(* Properties.                                                             *)

\* Types, and a worker that is not between Dequeue and Ack has no job.
TypeOK ==
  /\ stored \subseteq Jobs /\ queue \subseteq Jobs /\ scheduled \subseteq Jobs
  /\ active \subseteq Jobs /\ processed \subseteq Jobs
  /\ dead \subseteq Jobs /\ dlq \subseteq Jobs
  /\ attempts \in [Jobs -> Nat]
  /\ lock \in [Keys -> Jobs \cup {NoJob}]
  /\ epc \in [Jobs -> EnqueuePcs]
  /\ pc \in [Workers -> WorkerPcs]
  /\ job \in [Workers -> Jobs \cup {NoJob}]
  /\ \A w \in Workers : pc[w] \in {"idle", "scan"} => job[w] = NoJob
  /\ \A w \in Workers : pc[w] \notin {"idle", "scan", "off"} => job[w] # NoJob
  /\ found \in [Workers -> SUBSET Jobs]
  /\ tried \in [Workers -> Nat]
  /\ due \in [Pollers -> SUBSET Jobs]
  /\ apc \in AdminPcs /\ ids \subseteq Jobs /\ adminCalls \in Nat
  /\ refused \in [Jobs -> Jobs \cup {NoJob}]

\* The workers that have job j, those that died with it included.
Holders(j) == {w \in Workers : job[w] = j}

\* With one poller no job is in the hands of two workers, although four keys
\* are written one after the other and Cancel and crashes come in between.
ExclusiveExecution == \A j \in Jobs : Cardinality(Holders(j)) <= 1

\* No job falls through between the keys: an envelope that is not finished is
\* queued, scheduled or in the hands of a worker, alive or dead.
NotLost ==
  \A j \in stored \ (processed \cup dead) :
    j \in queue \cup scheduled \/ Holders(j) # {}

\* The jobs performing stay within WithMaxConcurrency, those cancelled meanwhile
\* aside: every worker counts after it has added itself.
ThrottleBound ==
  MaxRunning > 0 =>
    Cardinality({w \in Workers : pc[w] = "perform" /\ job[w] \in active \cap stored})
      <= MaxRunning

\* The envelope never shows more attempts than allowed, and a job that waits to
\* be run again has one left.
RetryBudget ==
  /\ \A j \in Jobs : attempts[j] <= MaxAttempts[j]
  /\ \A j \in (queue \cup scheduled) \cap stored : attempts[j] < MaxAttempts[j]

\* A job is refused as a duplicate only for another one that was enqueued.
RefusedOnlyForAnother ==
  \A j \in Jobs : epc[j] = "duplicate" =>
    refused[j] \in Jobs \ {j} /\ epc[refused[j]] = "done"

-----------------------------------------------------------------------------
(* The queue as an implementation of JobLifecycle.                         *)

\* A job that is neither finished nor in a set of the queue is with a worker.
LifecycleOf(j) ==
  IF epc[j] # "done" THEN "none"
  ELSE IF j \notin stored THEN "gone"
  ELSE IF j \in dead THEN "dead"
  ELSE IF j \in processed THEN "finished"
  ELSE IF j \in queue \cup scheduled THEN "waiting"
  ELSE "running"

Lifecycle == INSTANCE JobLifecycle WITH
  st   <- [j \in Jobs |-> LifecycleOf(j)],
  hold <- job,
  WithdrawnForGood <- FALSE

\* With one poller the commands of the Redis driver, however those of clients, workers
\* and administration interleave and wherever a worker dies, implement the life of a
\* job, but for one thing: a job that is cancelled between the HGET and the pipeline of
\* Fail comes back, for the envelope is written as it was read.
ImplementsLifecycle == Lifecycle!Spec

=============================================================================
