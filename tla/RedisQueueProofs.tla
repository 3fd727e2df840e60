--------------------------- MODULE RedisQueueProofs ---------------------------
(***************************************************************************)
(* Proofs about the queue of the Redis driver, for any number of jobs,     *)
(* workers and keys, with crashes, expiring locks and any bound on         *)
(* administration calls: types, refusals, that nothing is lost, one place  *)
(* per job, the retry budget, the concurrency limit, and the refinement of *)
(* JobLifecycle.                                                           *)
(***************************************************************************)
EXTENDS RedisQueue, FunctionTheorems, FiniteSetTheorems, TLAPS

\* A job's envelope, or its id in any key or in anybody's hands, means that its
\* enqueue call is over.
Known(j) ==
  \/ j \in stored \cup queue \cup scheduled \cup dead
  \/ \E p \in Pollers : j \in due[p]
  \/ \E w \in Workers : job[w] = j \/ j \in found[w]

\* Only a call with a unique key goes on to look at the lock's holder.
KeyedCalls ==
  \A j \in Jobs : epc[j] \in {"get", "exists", "set"} => UniqueKey[j] \in Keys

\* A job is nowhere before its enqueue call has stored it.
EnqueuedFirst == \A j \in Jobs : Known(j) => epc[j] = "done"

\* What an enqueue call that was refused by the lock has read.
RefusedByHolder ==
  \A j \in Jobs :
    /\ epc[j] \in {"exists", "duplicate"} => refused[j] \in Jobs
    /\ epc[j] = "duplicate" => refused[j] # j /\ epc[refused[j]] = "done"

\* A job in the hands of a worker, alive or dead.
Held(j) == \E w \in Workers : job[w] = j

\* A job that a poller is about to activate.
IsDue(j) == \E p \in Pollers : j \in due[p]

\* A job is in one place at a time, a scheduled job that is due aside.
OnePlace(j) ==
  /\ j \in queue => j \notin scheduled /\ ~IsDue(j) /\ ~Held(j) /\ j \notin dead
  /\ j \in scheduled \/ IsDue(j) => ~Held(j) /\ j \notin dead
  /\ Held(j) => j \notin dead

\* No two workers have the same job.
OneHolder == \A v, w \in Workers : job[v] = job[w] /\ job[v] # NoJob => v = w

\* What RetryAllFailed has still to retry is dead.
RetriedIsDead == apc = "retry" => ids \subseteq dead

\* The list of dead jobs shows dead ones only, those it still shows.
ListedAreDead == dlq \subseteq dead

Placement ==
  (\A j \in Jobs : OnePlace(j)) /\ OneHolder /\ RetriedIsDead /\ ListedAreDead

\* A job that will be run or is being run has an attempt left.
AttemptLeft(j) ==
  /\ j \in stored /\ (j \in queue \cup scheduled \/ IsDue(j) \/ Held(j)) =>
       attempts[j] < MaxAttempts[j]
  /\ attempts[j] <= MaxAttempts[j]

\* The attempts a worker has read leave one for its run.
TriedLess ==
  \A w \in Workers : pc[w] \in {"ack", "fail"} => tried[w] < MaxAttempts[job[w]]

Budget == (\A j \in Jobs : AttemptLeft(j)) /\ TriedLess

\* Trimmed or not, the list of dead jobs gains no id but the new one.
LEMMA DeadListKept ==
  ASSUME NEW j \in Jobs, NEW d \in DeadLists(j)
  PROVE  d \subseteq dlq \cup {j}
BY DEF DeadLists

\* The keys start empty and the goroutines idle.
LEMMA InitTypes == Init => TypeOK
BY QueueAssumption DEF Init, TypeOK, EnqueuePcs, WorkerPcs, AdminPcs

\* The steps of an enqueue call keep the types.
LEMMA EnqueueTypes ==
  ASSUME TypeOK, KeyedCalls, NEW j \in Jobs, EnqueueStep(j)
  PROVE  TypeOK' /\ KeyedCalls'
<1> USE DEF TypeOK, KeyedCalls, EnqueuePcs, data, worker, admin
<1>1. CASE EnqueueSetNX(j)
  BY <1>1, QueueAssumption DEF EnqueueSetNX
<1>2. CASE EnqueueGet(j)
  BY <1>2 DEF EnqueueGet
<1>3. CASE EnqueueExists(j)
  BY <1>3 DEF EnqueueExists
<1>4. CASE EnqueueSet(j)
  BY <1>4 DEF EnqueueSet
<1>5. CASE EnqueueStore(j)
  BY <1>5 DEF EnqueueStore
<1> QED
  BY <1>1, <1>2, <1>3, <1>4, <1>5 DEF EnqueueStep

\* An expired lock, and the poller, keep the types.
LEMMA ClockTypes ==
  ASSUME TypeOK,
         \/ \E k \in Keys : LockExpires(k)
         \/ \E p \in Pollers : PollActivate(p) \/ \E js \in SUBSET Jobs : PollRead(p, js)
  PROVE  TypeOK' /\ UNCHANGED epc
<1> USE DEF TypeOK, data, worker, admin
<1>1. CASE \E k \in Keys : LockExpires(k)
  BY <1>1 DEF LockExpires
<1>2. CASE \E p \in Pollers : PollActivate(p)
  BY <1>2 DEF PollActivate
<1>3. CASE \E p \in Pollers : \E js \in SUBSET Jobs : PollRead(p, js)
  BY <1>3 DEF PollRead
<1> QED
  BY <1>1, <1>2, <1>3

\* A worker that lets go has no job and is idle.
LEMMA WorkerTypes ==
  ASSUME TypeOK, NEW w \in Workers, WorkerStep(w) \/ Crash(w)
  PROVE  TypeOK' /\ UNCHANGED epc
<1> USE DEF TypeOK, WorkerPcs, data, worker, admin
<1>1. CASE DequeueScan(w) \/ DequeueNothing(w)
  BY <1>1 DEF DequeueScan, DequeueNothing
<1>2. CASE \E j \in Jobs : DequeuePop(w, j)
  BY <1>2, QueueAssumption DEF DequeuePop, Removed
<1>3. CASE DequeueActive(w)
  BY <1>3 DEF DequeueActive
<1>4. CASE CheckLimits(w) \/ Perform(w)
  BY <1>4 DEF CheckLimits, Perform
<1>5. CASE PostponeJob(w)
  BY <1>5 DEF PostponeJob, Rescheduled, Release
<1>6. CASE AckRead(w)
  BY <1>6 DEF AckRead, FinalizeRead, Release
<1>7. CASE FailRead(w)
  BY <1>7 DEF FailRead, FinalizeRead, Release
<1>8. CASE Ack(w)
  BY <1>8 DEF Ack, Release, Unlock
<1>9. CASE Fail(w)
  BY <1>9, DeadListKept DEF Fail, Release, Unlock, Rescheduled
<1>10. CASE Crash(w)
  BY <1>10 DEF Crash
<1> QED
  BY <1>1, <1>2, <1>3, <1>4, <1>5, <1>6, <1>7, <1>8, <1>9, <1>10
  DEF WorkerStep, Finalize

\* An administration call keeps the types.
LEMMA AdminTypes ==
  ASSUME TypeOK, AdminStep
  PROVE  TypeOK' /\ UNCHANGED epc
<1> USE DEF TypeOK, AdminPcs, data, worker, admin, AdminRead, AdminDone
<1>1. CASE CancelWrite
  BY <1>1 DEF CancelWrite
<1>2. CASE RetryAllFailed \/ PurgeAllFailed
  BY <1>2 DEF RetryAllFailed, PurgeAllFailed
<1>3. CASE PurgeWrite
  BY <1>3 DEF PurgeWrite
<1>4. CASE ExpireWrite
  BY <1>4 DEF ExpireWrite
<1>5. CASE \E j \in Jobs : CancelRead(j)
  BY <1>5 DEF CancelRead
<1>6. CASE \E j \in Jobs : Retry(j)
  BY <1>6 DEF Retry
<1>7. CASE \E j \in Jobs : ArchiveOne(j)
  BY <1>7 DEF ArchiveOne
<1>8. CASE \E js \in SUBSET Jobs : PurgeExpiredDLQ(js) \/ ArchiveJobs(js)
  BY <1>8 DEF PurgeExpiredDLQ, ArchiveJobs
<1> QED
  BY <1>1, <1>2, <1>3, <1>4, <1>5, <1>6, <1>7, <1>8 DEF AdminStep

\* Every step keeps the types.
LEMMA NextTypes ==
  ASSUME TypeOK, KeyedCalls, [Next]_vars
  PROVE  TypeOK' /\ KeyedCalls'
<1>1. CASE \E j \in Jobs : EnqueueStep(j)
  BY <1>1, EnqueueTypes
<1>2. CASE AdminStep
  BY <1>2, AdminTypes DEF KeyedCalls
<1>3. CASE \/ \E k \in Keys : LockExpires(k)
           \/ \E p \in Pollers : PollActivate(p) \/ \E js \in SUBSET Jobs : PollRead(p, js)
  BY <1>3, ClockTypes DEF KeyedCalls
<1>4. CASE \E w \in Workers : WorkerStep(w) \/ Crash(w)
  BY <1>4, WorkerTypes DEF KeyedCalls
<1>5. CASE UNCHANGED vars
  BY <1>5 DEF TypeOK, KeyedCalls, vars, data, worker, admin
<1> QED
  BY <1>1, <1>2, <1>3, <1>4, <1>5 DEF Next, AtRest

\* Every variable keeps its type, and a worker has a job exactly between Dequeue
\* and the end of the run (a dead one may have had one).
THEOREM QueueTypeCorrect == Spec => []TypeOK
<1>1. Init => TypeOK /\ KeyedCalls
  BY InitTypes DEF Init, KeyedCalls
<1>2. TypeOK /\ KeyedCalls /\ [Next]_vars => TypeOK' /\ KeyedCalls'
  BY NextTypes
<1> QED
  BY <1>1, <1>2, PTL DEF Spec

-----------------------------------------------------------------------------
\* The poller and an expired lock bring up no job that was not known.
LEMMA ClockKnows ==
  ASSUME TypeOK, NEW j \in Jobs, Known(j)',
         \/ \E k \in Keys : LockExpires(k)
         \/ \E p \in Pollers : PollActivate(p) \/ \E js \in SUBSET Jobs : PollRead(p, js)
  PROVE  Known(j)
<1> USE DEF TypeOK, Known, data, worker, admin
<1>1. CASE \E k \in Keys : LockExpires(k)
  BY <1>1 DEF LockExpires
<1>2. CASE \E p \in Pollers : PollActivate(p)
  BY <1>2 DEF PollActivate
<1>3. CASE \E p \in Pollers : \E js \in SUBSET Jobs : PollRead(p, js)
  BY <1>3 DEF PollRead
<1> QED
  BY <1>1, <1>2, <1>3

\* Nor does a worker: what it puts somewhere it had taken from somewhere.
LEMMA WorkerKnows ==
  ASSUME TypeOK, NEW w \in Workers, WorkerStep(w) \/ Crash(w),
         NEW j \in Jobs, Known(j)'
  PROVE  Known(j)
<1> USE QueueAssumption DEF TypeOK, Known, data, worker, admin
<1>1. CASE DequeueScan(w) \/ DequeueNothing(w)
  BY <1>1 DEF DequeueScan, DequeueNothing
<1>2. CASE \E i \in Jobs : DequeuePop(w, i)
  BY <1>2 DEF DequeuePop, Removed
<1>3. CASE DequeueActive(w) \/ CheckLimits(w) \/ Perform(w) \/ Crash(w)
  BY <1>3 DEF DequeueActive, CheckLimits, Perform, Crash
<1>4. CASE PostponeJob(w)
  BY <1>4 DEF PostponeJob, Rescheduled, Release
<1>5. CASE AckRead(w) \/ FailRead(w)
  BY <1>5 DEF AckRead, FailRead, FinalizeRead, Release
<1>6. CASE Ack(w)
  BY <1>6 DEF Ack, Release
<1>7. CASE Fail(w)
  BY <1>7, DeadListKept DEF Fail, Release, Rescheduled
<1> QED
  BY <1>1, <1>2, <1>3, <1>4, <1>5, <1>6, <1>7 DEF WorkerStep, Finalize

\* Nor does an administration call: it retries only jobs that have an envelope.
LEMMA AdminKnows ==
  ASSUME TypeOK, AdminStep, NEW j \in Jobs, Known(j)'
  PROVE  Known(j)
<1> USE DEF TypeOK, Known, data, worker, admin, AdminRead, AdminDone
<1>1. CASE CancelWrite \/ PurgeWrite \/ ExpireWrite
  BY <1>1 DEF CancelWrite, PurgeWrite, ExpireWrite
<1>2. CASE RetryAllFailed \/ PurgeAllFailed
  BY <1>2 DEF RetryAllFailed, PurgeAllFailed
<1>3. CASE \E i \in Jobs : CancelRead(i)
  BY <1>3 DEF CancelRead
<1>4. CASE \E i \in Jobs : Retry(i)
  BY <1>4 DEF Retry
<1>5. CASE \E i \in Jobs : ArchiveOne(i)
  BY <1>5 DEF ArchiveOne
<1>6. CASE \E js \in SUBSET Jobs : PurgeExpiredDLQ(js) \/ ArchiveJobs(js)
  BY <1>6 DEF PurgeExpiredDLQ, ArchiveJobs
<1> QED
  BY <1>1, <1>2, <1>3, <1>4, <1>5, <1>6 DEF AdminStep

\* A job is known, and a holder of a lock found, only once it is enqueued.
EnqueueInv == TypeOK /\ KeyedCalls /\ EnqueuedFirst /\ RefusedByHolder

\* An enqueue call that goes on keeps it.
LEMMA EnqueueKeeps ==
  ASSUME EnqueueInv, NEW j \in Jobs, EnqueueStep(j)
  PROVE  EnqueuedFirst' /\ RefusedByHolder'
<1> USE DEF EnqueueInv, TypeOK, EnqueuedFirst, RefusedByHolder, EnqueuePcs, data,
            worker, admin
<1>1. CASE EnqueueSetNX(j)
  BY <1>1 DEF EnqueueSetNX, Known
<1>2. CASE EnqueueGet(j)
  BY <1>2 DEF EnqueueGet, Known, KeyedCalls
<1>3. CASE EnqueueExists(j)
  BY <1>3 DEF EnqueueExists, HolderExists, Known
<1>4. CASE EnqueueSet(j)
  BY <1>4 DEF EnqueueSet, Known
<1>5. CASE EnqueueStore(j)
  BY <1>5 DEF EnqueueStore, Known
<1> QED
  BY <1>1, <1>2, <1>3, <1>4, <1>5 DEF EnqueueStep

\* Only an enqueue call writes where it is and what it was refused for.
LEMMA RefusedUnchanged ==
  ASSUME \/ AdminStep
         \/ \E k \in Keys : LockExpires(k)
         \/ \E p \in Pollers : PollActivate(p) \/ \E js \in SUBSET Jobs : PollRead(p, js)
         \/ \E w \in Workers : WorkerStep(w) \/ Crash(w)
  PROVE  UNCHANGED <<epc, refused>>
<1>1. CASE AdminStep
  BY <1>1 DEF AdminStep, AdminRead, AdminDone, CancelWrite, PurgeWrite, ExpireWrite,
              RetryAllFailed, PurgeAllFailed, CancelRead, Retry, ArchiveOne,
              PurgeExpiredDLQ, ArchiveJobs
<1>2. CASE \/ \E k \in Keys : LockExpires(k)
           \/ \E p \in Pollers : PollActivate(p) \/ \E js \in SUBSET Jobs : PollRead(p, js)
  BY <1>2 DEF LockExpires, PollActivate, PollRead
<1>3. CASE \E w \in Workers : WorkerStep(w) \/ Crash(w)
  BY <1>3 DEF WorkerStep, Crash, DequeueScan, DequeueNothing, DequeuePop, DequeueActive,
              CheckLimits, Perform, PostponeJob, Finalize, AckRead, FailRead,
              FinalizeRead, Ack, Fail
<1> QED
  BY <1>1, <1>2, <1>3

\* Every step keeps the invariant about enqueue calls.
LEMMA EnqueueInvNext ==
  ASSUME EnqueueInv, [Next]_vars
  PROVE  EnqueueInv'
<1>1. TypeOK' /\ KeyedCalls'
  BY NextTypes DEF EnqueueInv
<1>2. CASE \E j \in Jobs : EnqueueStep(j)
  BY <1>1, <1>2, EnqueueKeeps DEF EnqueueInv
<1>3. CASE \/ AdminStep
           \/ \E k \in Keys : LockExpires(k)
           \/ \E p \in Pollers : PollActivate(p) \/ \E js \in SUBSET Jobs : PollRead(p, js)
           \/ \E w \in Workers : WorkerStep(w) \/ Crash(w)
  <2>1. UNCHANGED <<epc, refused>>
    BY <1>3, RefusedUnchanged
  <2>2. \A j \in Jobs : Known(j)' => Known(j)
    BY <1>3, AdminKnows, ClockKnows, WorkerKnows DEF EnqueueInv
  <2> QED
    BY <1>1, <2>1, <2>2 DEF EnqueueInv, EnqueuedFirst, RefusedByHolder
<1>4. CASE UNCHANGED vars
  BY <1>1, <1>4 DEF EnqueueInv, EnqueuedFirst, RefusedByHolder, Known, vars, data, worker,
               admin
<1> QED
  BY <1>2, <1>3, <1>4 DEF Next, AtRest

\* The invariant about enqueue calls holds.
LEMMA EnqueueInvHolds == Spec => []EnqueueInv
<1>1. Init => EnqueueInv
  BY InitTypes, QueueAssumption DEF Init, EnqueueInv, KeyedCalls, EnqueuedFirst, Known,
                                    RefusedByHolder
<1>2. EnqueueInv /\ [Next]_vars => EnqueueInv'
  BY EnqueueInvNext
<1> QED
  BY <1>1, <1>2, PTL DEF Spec

\* Enqueue (acquireUniqueLock, checkLockDuplicate) refuses a job only when another
\* job has been enqueued.
THEOREM RefusedForAnotherOnly == Spec => []RefusedOnlyForAnother
<1>1. EnqueueInv => RefusedOnlyForAnother
  BY DEF EnqueueInv, RefusedByHolder, RefusedOnlyForAnother
<1> QED
  BY <1>1, EnqueueInvHolds, PTL

-----------------------------------------------------------------------------
\* A job that is stored is put in a set with its envelope.
LEMMA EnqueueNotLost ==
  ASSUME TypeOK, NotLost, NEW j \in Jobs, EnqueueStep(j)
  PROVE  NotLost'
<1> USE DEF TypeOK, NotLost, Holders, data, worker, admin
<1>1. CASE EnqueueSetNX(j)
  BY <1>1 DEF EnqueueSetNX
<1>2. CASE EnqueueGet(j)
  BY <1>2 DEF EnqueueGet
<1>3. CASE EnqueueExists(j)
  BY <1>3 DEF EnqueueExists
<1>4. CASE EnqueueSet(j)
  BY <1>4 DEF EnqueueSet
<1>5. CASE EnqueueStore(j)
  BY <1>5 DEF EnqueueStore
<1> QED
  BY <1>1, <1>2, <1>3, <1>4, <1>5 DEF EnqueueStep

\* A due job leaves the scheduled set for the queue.
LEMMA ClockNotLost ==
  ASSUME TypeOK, NotLost,
         \/ \E k \in Keys : LockExpires(k)
         \/ \E p \in Pollers : PollActivate(p) \/ \E js \in SUBSET Jobs : PollRead(p, js)
  PROVE  NotLost'
<1> USE DEF TypeOK, NotLost, Holders, data, worker, admin
<1>1. CASE \E k \in Keys : LockExpires(k)
  BY <1>1 DEF LockExpires
<1>2. CASE \E p \in Pollers : PollActivate(p)
  BY <1>2 DEF PollActivate
<1>3. CASE \E p \in Pollers : \E js \in SUBSET Jobs : PollRead(p, js)
  BY <1>3 DEF PollRead
<1> QED
  BY <1>1, <1>2, <1>3

\* A worker puts the job it lets go into a set, or it is finished, or has no envelope.
LEMMA WorkerNotLost ==
  ASSUME TypeOK, NotLost, NEW w \in Workers, WorkerStep(w) \/ Crash(w)
  PROVE  NotLost'
<1> USE QueueAssumption DEF TypeOK, NotLost, Holders, data, worker, admin
<1>1. CASE DequeueScan(w) \/ DequeueNothing(w)
  BY <1>1 DEF DequeueScan, DequeueNothing
<1>2. CASE \E j \in Jobs : DequeuePop(w, j)
  BY <1>2 DEF DequeuePop, Removed
<1>3. CASE DequeueActive(w) \/ CheckLimits(w)
  BY <1>3 DEF DequeueActive, CheckLimits
<1>4. CASE Perform(w) \/ Crash(w)
  BY <1>4 DEF Perform, Crash
<1>5. CASE PostponeJob(w)
  BY <1>5 DEF PostponeJob, Rescheduled, Release
<1>6. CASE AckRead(w) \/ FailRead(w)
  BY <1>6 DEF AckRead, FailRead, FinalizeRead, Release
<1>7. CASE Ack(w)
  BY <1>7 DEF Ack, Release
<1>8. CASE Fail(w)
  BY <1>8, DeadListKept DEF Fail, Release, Rescheduled
<1> QED
  BY <1>1, <1>2, <1>3, <1>4, <1>5, <1>6, <1>7, <1>8
  DEF WorkerStep, Finalize

\* What leaves a set for good loses its envelope; a dead job is retried into the queue.
LEMMA AdminNotLost ==
  ASSUME TypeOK, NotLost, AdminStep
  PROVE  NotLost'
<1> USE DEF TypeOK, NotLost, Holders, data, worker, admin, AdminRead, AdminDone
<1>1. CASE CancelWrite
  BY <1>1 DEF CancelWrite
<1>2. CASE PurgeWrite \/ ExpireWrite
  BY <1>2 DEF PurgeWrite, ExpireWrite
<1>3. CASE RetryAllFailed \/ PurgeAllFailed
  BY <1>3 DEF RetryAllFailed, PurgeAllFailed
<1>4. CASE \E j \in Jobs : CancelRead(j)
  BY <1>4 DEF CancelRead
<1>5. CASE \E j \in Jobs : Retry(j)
  BY <1>5 DEF Retry
<1>6. CASE \E j \in Jobs : ArchiveOne(j)
  BY <1>6 DEF ArchiveOne
<1>7. CASE \E js \in SUBSET Jobs : PurgeExpiredDLQ(js) \/ ArchiveJobs(js)
  BY <1>7 DEF PurgeExpiredDLQ, ArchiveJobs
<1> QED
  BY <1>1, <1>2, <1>3, <1>4, <1>5, <1>6, <1>7 DEF AdminStep

\* No step loses a job.
LEMMA NotLostNext ==
  ASSUME TypeOK, NotLost, [Next]_vars
  PROVE  NotLost'
<1>1. CASE UNCHANGED vars
  BY <1>1 DEF NotLost, Holders, vars, data, worker, admin
<1> QED
  BY <1>1, EnqueueNotLost, ClockNotLost, WorkerNotLost, AdminNotLost DEF Next, AtRest

\* Every job with an envelope that has not finished is queued, scheduled or with a
\* worker, with any number of pollers.
THEOREM NothingLost == Spec => []NotLost
<1>1. Init => TypeOK /\ KeyedCalls /\ NotLost
  BY InitTypes DEF Init, KeyedCalls, NotLost
<1>2. TypeOK /\ KeyedCalls /\ NotLost /\ [Next]_vars => (TypeOK /\ KeyedCalls /\ NotLost)'
  BY NextTypes, NotLostNext
<1> QED
  BY <1>1, <1>2, PTL DEF Spec

-----------------------------------------------------------------------------
\* One poller, which is what leader election is for.
OnePoller == \A p, q \in Pollers : p = q

PlaceInv == EnqueueInv /\ Placement

\* A job that is stored was nowhere before.
LEMMA EnqueuePlacement ==
  ASSUME PlaceInv, OnePoller, NEW j \in Jobs, EnqueueStep(j)
  PROVE  Placement'
<1> USE DEF PlaceInv, EnqueueInv, EnqueuedFirst, Known, Placement, OnePlace, OneHolder,
           OnePoller, RetriedIsDead, ListedAreDead, Held, IsDue, TypeOK, data, worker, admin
<1>1. CASE EnqueueSetNX(j)
  BY <1>1 DEF EnqueueSetNX
<1>2. CASE EnqueueGet(j)
  BY <1>2 DEF EnqueueGet
<1>3. CASE EnqueueExists(j)
  BY <1>3 DEF EnqueueExists
<1>4. CASE EnqueueSet(j)
  BY <1>4 DEF EnqueueSet
<1>5. CASE EnqueueStore(j)
  BY <1>5 DEF EnqueueStore
<1> QED
  BY <1>1, <1>2, <1>3, <1>4, <1>5 DEF EnqueueStep

\* What a poller has read is with nobody; an activated job leaves the due ones.
LEMMA ClockPlacement ==
  ASSUME PlaceInv, OnePoller,
         \/ \E k \in Keys : LockExpires(k)
         \/ \E p \in Pollers : PollActivate(p) \/ \E js \in SUBSET Jobs : PollRead(p, js)
  PROVE  Placement'
<1> USE DEF PlaceInv, EnqueueInv, EnqueuedFirst, Known, Placement, OnePlace, OneHolder,
           OnePoller, RetriedIsDead, ListedAreDead, Held, IsDue, TypeOK, data, worker, admin
<1>1. CASE \E k \in Keys : LockExpires(k)
  BY <1>1 DEF LockExpires
<1>2. CASE \E p \in Pollers : PollActivate(p)
  BY <1>2 DEF PollActivate
<1>3. CASE \E p \in Pollers : \E js \in SUBSET Jobs : PollRead(p, js)
  BY <1>3 DEF PollRead
<1> QED
  BY <1>1, <1>2, <1>3

\* Whoever removes the id from the queue has the job; nobody else has it when it is let go.
LEMMA WorkerPlacement ==
  ASSUME PlaceInv, OnePoller, NEW w \in Workers, WorkerStep(w) \/ Crash(w)
  PROVE  Placement'
<1> USE QueueAssumption
    DEF PlaceInv, EnqueueInv, EnqueuedFirst, Known, Placement, OnePlace, OneHolder,
        OnePoller, RetriedIsDead, ListedAreDead, Held, IsDue, TypeOK, data, worker, admin
<1>1. CASE DequeueScan(w) \/ DequeueNothing(w)
  BY <1>1 DEF DequeueScan, DequeueNothing
<1>2. CASE \E j \in Jobs : DequeuePop(w, j)
  BY <1>2 DEF DequeuePop, Removed
<1>3. CASE DequeueActive(w) \/ CheckLimits(w)
  BY <1>3 DEF DequeueActive, CheckLimits
<1>4. CASE Perform(w) \/ Crash(w)
  BY <1>4 DEF Perform, Crash
<1>5. CASE PostponeJob(w)
  BY <1>5 DEF PostponeJob, Rescheduled, Release
<1>6. CASE AckRead(w) \/ FailRead(w)
  BY <1>6 DEF AckRead, FailRead, FinalizeRead, Release
<1>7. CASE Ack(w)
  BY <1>7 DEF Ack, Release
<1>8. CASE Fail(w)
  BY <1>8, DeadListKept DEF Fail, Release, Rescheduled
<1> QED
  BY <1>1, <1>2, <1>3, <1>4, <1>5, <1>6, <1>7, <1>8
  DEF WorkerStep, Finalize

\* Only a dead job is retried, and it is in one place before and after.
LEMMA AdminPlacement ==
  ASSUME PlaceInv, OnePoller, AdminStep
  PROVE  Placement'
<1> USE DEF PlaceInv, EnqueueInv, EnqueuedFirst, Known, Placement, OnePlace, OneHolder,
           OnePoller, RetriedIsDead, ListedAreDead, Held, IsDue, TypeOK, data, worker, admin,
           AdminRead, AdminDone
<1>1. CASE CancelWrite
  BY <1>1 DEF CancelWrite
<1>2. CASE PurgeWrite \/ ExpireWrite
  BY <1>2 DEF PurgeWrite, ExpireWrite
<1>3. CASE RetryAllFailed \/ PurgeAllFailed
  BY <1>3 DEF RetryAllFailed, PurgeAllFailed
<1>4. CASE \E j \in Jobs : CancelRead(j)
  BY <1>4 DEF CancelRead
<1>5. CASE \E j \in Jobs : Retry(j)
  BY <1>5 DEF Retry
<1>6. CASE \E j \in Jobs : ArchiveOne(j)
  BY <1>6 DEF ArchiveOne
<1>7. CASE \E js \in SUBSET Jobs : PurgeExpiredDLQ(js) \/ ArchiveJobs(js)
  BY <1>7 DEF PurgeExpiredDLQ, ArchiveJobs
<1> QED
  BY <1>1, <1>2, <1>3, <1>4, <1>5, <1>6, <1>7 DEF AdminStep

\* Every step keeps a job in one place.
LEMMA PlaceInvNext ==
  ASSUME PlaceInv, OnePoller, [Next]_vars
  PROVE  PlaceInv'
<1>1. EnqueueInv'
  BY EnqueueInvNext DEF PlaceInv
<1>2. CASE UNCHANGED vars
  BY <1>1, <1>2 DEF PlaceInv, Placement, OnePlace, OneHolder, RetriedIsDead, ListedAreDead, Held, IsDue,
               vars, data, worker, admin
<1> QED
  BY <1>1, <1>2, EnqueuePlacement, ClockPlacement, WorkerPlacement, AdminPlacement
  DEF Next, AtRest, PlaceInv

\* With one poller a job is in one place.
LEMMA PlaceInvHolds ==
  ASSUME OnePoller
  PROVE  Spec => []PlaceInv
<1>1. Init => PlaceInv
  BY InitTypes, QueueAssumption
  DEF Init, PlaceInv, EnqueueInv, KeyedCalls, EnqueuedFirst, Known, RefusedByHolder,
      Placement, OnePlace, OneHolder, RetriedIsDead, ListedAreDead, Held, IsDue
<1>2. PlaceInv /\ [Next]_vars => PlaceInv'
  BY PlaceInvNext
<1> QED
  BY <1>1, <1>2, PTL DEF Spec

\* With one poller, no job is in the hands of two workers (findAndPopJob: the ZREM
\* that returns 1 decides), those that died with it included.
THEOREM OneWorkerAtATime ==
  ASSUME OnePoller
  PROVE  Spec => []ExclusiveExecution
<1>1. ASSUME PlaceInv, NEW j \in Jobs
      PROVE  Cardinality(Holders(j)) <= 1
  <2>1. \A v, w \in Holders(j) : v = w
    BY <1>1, QueueAssumption DEF PlaceInv, Placement, OneHolder, Holders
  <2>2. CASE Holders(j) = {}
    BY <2>2, FS_EmptySet
  <2>3. CASE Holders(j) # {}
    <3>1. PICK w \in Holders(j) : TRUE
      BY <2>3
    <3>2. Holders(j) = {w}
      BY <2>1, <3>1
    <3>3. Cardinality({w}) = 1
      BY FS_Singleton
    <3> QED
      BY <3>2, <3>3
  <2> QED
    BY <2>2, <2>3
<1>2. PlaceInv => ExclusiveExecution
  BY <1>1 DEF ExclusiveExecution
<1> QED
  BY <1>2, PlaceInvHolds, PTL

-----------------------------------------------------------------------------
\* A new envelope has no attempts.
LEMMA EnqueueBudget ==
  ASSUME PlaceInv, Budget, NEW j \in Jobs, EnqueueStep(j)
  PROVE  Budget'
<1> USE DEF PlaceInv, EnqueueInv, EnqueuedFirst, Known, Placement, OnePlace, OneHolder,
           RetriedIsDead, ListedAreDead, Budget, AttemptLeft, TriedLess, Held, IsDue, TypeOK, data,
           worker, admin
<1>1. CASE EnqueueSetNX(j)
  BY <1>1 DEF EnqueueSetNX
<1>2. CASE EnqueueGet(j)
  BY <1>2 DEF EnqueueGet
<1>3. CASE EnqueueExists(j)
  BY <1>3 DEF EnqueueExists
<1>4. CASE EnqueueSet(j)
  BY <1>4 DEF EnqueueSet
<1>5. CASE EnqueueStore(j)
  <2>1. MaxAttempts[j] \in Nat \ {0}
    BY QueueAssumption
  <2>2. AttemptLeft(j)'
    BY <1>5, <2>1 DEF EnqueueStore
  <2>3. \A i \in Jobs \ {j} : AttemptLeft(i)'
    BY <1>5 DEF EnqueueStore
  <2>4. TriedLess'
    BY <1>5 DEF EnqueueStore
  <2> QED
    BY <2>2, <2>3, <2>4 DEF Budget
<1> QED
  BY <1>1, <1>2, <1>3, <1>4, <1>5 DEF EnqueueStep

\* A job that becomes due was scheduled, one that is activated was due.
LEMMA ClockBudget ==
  ASSUME PlaceInv, Budget,
         \/ \E k \in Keys : LockExpires(k)
         \/ \E p \in Pollers : PollActivate(p) \/ \E js \in SUBSET Jobs : PollRead(p, js)
  PROVE  Budget'
<1> USE DEF PlaceInv, EnqueueInv, EnqueuedFirst, Known, Placement, OnePlace, OneHolder,
           RetriedIsDead, ListedAreDead, Budget, AttemptLeft, TriedLess, Held, IsDue, TypeOK, data,
           worker, admin
<1>1. CASE \E k \in Keys : LockExpires(k)
  BY <1>1 DEF LockExpires
<1>2. CASE \E p \in Pollers : PollActivate(p)
  BY <1>2 DEF PollActivate
<1>3. CASE \E p \in Pollers : \E js \in SUBSET Jobs : PollRead(p, js)
  BY <1>3 DEF PollRead
<1> QED
  BY <1>1, <1>2, <1>3

\* A worker writes one attempt more than it has read, and puts the job back only with
\* one left.
LEMMA WorkerBudget ==
  ASSUME PlaceInv, Budget, NEW w \in Workers, WorkerStep(w) \/ Crash(w)
  PROVE  Budget'
<1> USE QueueAssumption
    DEF PlaceInv, EnqueueInv, EnqueuedFirst, Known, Placement, OnePlace, OneHolder,
        RetriedIsDead, ListedAreDead, Budget, AttemptLeft, TriedLess, Held, IsDue, TypeOK, data,
           worker, admin
<1>1. CASE DequeueScan(w) \/ DequeueNothing(w)
  BY <1>1 DEF DequeueScan, DequeueNothing
<1>2. CASE \E j \in Jobs : DequeuePop(w, j)
  BY <1>2 DEF DequeuePop, Removed
<1>3. CASE DequeueActive(w) \/ CheckLimits(w)
  BY <1>3 DEF DequeueActive, CheckLimits
<1>4. CASE Perform(w) \/ Crash(w)
  BY <1>4 DEF Perform, Crash
<1>5. CASE PostponeJob(w)
  BY <1>5 DEF PostponeJob, Rescheduled, Release
<1>6. CASE AckRead(w) \/ FailRead(w)
  BY <1>6 DEF AckRead, FailRead, FinalizeRead, Release
<1>7. CASE Ack(w)
  BY <1>7 DEF Ack, Release
<1>8. CASE Fail(w)
  <2>0. PICK j \in Jobs : j = job[w]
    BY <1>8 DEF Fail
  <2>1. MaxAttempts[j] \in Nat \ {0} /\ tried[w] \in Nat
    OBVIOUS
  <2>2. tried[w] < MaxAttempts[j] /\ Held(j)
    BY <1>8, <2>0 DEF Fail
  <2>3. CASE tried[w] + 1 < MaxAttempts[j]
    <3>1. AttemptLeft(j)'
      BY <1>8, <2>0, <2>1, <2>3 DEF Fail
    <3> QED
      BY <1>8, <2>0, <2>1, <3>1 DEF Fail, Release, Rescheduled, AttemptsLeft
  <2>4. CASE ~(tried[w] + 1 < MaxAttempts[j])
    <3>1. ~(j \in queue' \cup scheduled' \/ IsDue(j)' \/ Held(j)')
      BY <1>8, <2>0, <2>1, <2>2, <2>4 DEF Fail, Release, AttemptsLeft
    <3>2. AttemptLeft(j)'
      BY <1>8, <2>0, <2>1, <2>2, <3>1 DEF Fail
    <3> QED
      BY <1>8, <2>0, <2>1, <2>4, <3>2 DEF Fail, Release, AttemptsLeft
  <2> QED
    BY <2>3, <2>4
<1> QED
  BY <1>1, <1>2, <1>3, <1>4, <1>5, <1>6, <1>7, <1>8
  DEF WorkerStep, Finalize

\* A retried job starts again with no attempts.
LEMMA AdminBudget ==
  ASSUME PlaceInv, Budget, AdminStep
  PROVE  Budget'
<1> USE DEF PlaceInv, EnqueueInv, EnqueuedFirst, Known, Placement, OnePlace, OneHolder,
           RetriedIsDead, ListedAreDead, Budget, AttemptLeft, TriedLess, Held, IsDue, TypeOK, data,
           worker, admin, AdminRead, AdminDone
<1>1. CASE CancelWrite
  BY <1>1 DEF CancelWrite
<1>2. CASE PurgeWrite \/ ExpireWrite
  BY <1>2 DEF PurgeWrite, ExpireWrite
<1>3. CASE RetryAllFailed \/ PurgeAllFailed
  BY <1>3 DEF RetryAllFailed, PurgeAllFailed
<1>4. CASE \E j \in Jobs : CancelRead(j)
  BY <1>4 DEF CancelRead
<1>5. CASE \E j \in Jobs : Retry(j)
  BY <1>5, QueueAssumption DEF Retry
<1>6. CASE \E j \in Jobs : ArchiveOne(j)
  BY <1>6 DEF ArchiveOne
<1>7. CASE \E js \in SUBSET Jobs : PurgeExpiredDLQ(js) \/ ArchiveJobs(js)
  BY <1>7 DEF PurgeExpiredDLQ, ArchiveJobs
<1> QED
  BY <1>1, <1>2, <1>3, <1>4, <1>5, <1>6, <1>7 DEF AdminStep

\* With one poller a job in some place has an attempt left.
LEMMA BudgetHolds ==
  ASSUME OnePoller
  PROVE  Spec => []Budget
<1>1. Init => Budget
  BY QueueAssumption DEF Init, Budget, AttemptLeft, TriedLess, Held, IsDue
<1>2. PlaceInv /\ Budget /\ [Next]_vars => Budget'
  <2>1. ASSUME UNCHANGED vars, Budget
        PROVE  Budget'
    BY <2>1 DEF Budget, AttemptLeft, TriedLess, Held, IsDue, vars, data, worker, admin
  <2> QED
    BY <2>1, EnqueueBudget, ClockBudget, WorkerBudget, AdminBudget DEF Next, AtRest
<1> QED
  BY <1>1, <1>2, PlaceInvHolds, PTL DEF Spec

\* With one poller, prepareFailStep never lets the envelope show more attempts than
\* MaxAttempts, and what is queued or scheduled has one left.
THEOREM AttemptsBounded ==
  ASSUME OnePoller
  PROVE  Spec => []RetryBudget
<1>1. PlaceInv /\ Budget => RetryBudget
  BY DEF PlaceInv, EnqueueInv, TypeOK, Budget, AttemptLeft, RetryBudget
<1> QED
  BY <1>1, PlaceInvHolds, BudgetHolds, PTL

-----------------------------------------------------------------------------
\* The jobs that run and count for WithMaxConcurrency.
Performing == {w \in Workers : pc[w] = "perform" /\ job[w] \in active \cap stored}

\* No enqueue call makes a job perform.
LEMMA EnqueuePerforming ==
  ASSUME PlaceInv, MaxRunning > 0, NEW j \in Jobs, EnqueueStep(j)
  PROVE  Performing' \subseteq Performing
<1> USE DEF PlaceInv, EnqueueInv, EnqueuedFirst, Known, Placement, OnePlace, OneHolder,
           Performing, Held, IsDue, TypeOK, data, worker, admin
<1>1. CASE EnqueueSetNX(j)
  BY <1>1 DEF EnqueueSetNX
<1>2. CASE EnqueueGet(j)
  BY <1>2 DEF EnqueueGet
<1>3. CASE EnqueueExists(j)
  BY <1>3 DEF EnqueueExists
<1>4. CASE EnqueueSet(j)
  BY <1>4 DEF EnqueueSet
<1>5. CASE EnqueueStore(j)
  BY <1>5 DEF EnqueueStore
<1> QED
  BY <1>1, <1>2, <1>3, <1>4, <1>5 DEF EnqueueStep

\* Nor does the clock.
LEMMA ClockPerforming ==
  ASSUME PlaceInv, MaxRunning > 0,
         \/ \E k \in Keys : LockExpires(k)
         \/ \E p \in Pollers : PollActivate(p) \/ \E js \in SUBSET Jobs : PollRead(p, js)
  PROVE  Performing' \subseteq Performing
<1> USE DEF PlaceInv, EnqueueInv, EnqueuedFirst, Known, Placement, OnePlace, OneHolder,
           Performing, Held, IsDue, TypeOK, data, worker, admin
<1>1. CASE \E k \in Keys : LockExpires(k)
  BY <1>1 DEF LockExpires
<1>2. CASE \E p \in Pollers : PollActivate(p)
  BY <1>2 DEF PollActivate
<1>3. CASE \E p \in Pollers : \E js \in SUBSET Jobs : PollRead(p, js)
  BY <1>3 DEF PollRead
<1> QED
  BY <1>1, <1>2, <1>3

\* Apart from the check of the limit no step of a worker makes a job perform.
LEMMA WorkerPerforming ==
  ASSUME PlaceInv, MaxRunning > 0, NEW w \in Workers, WorkerStep(w) \/ Crash(w),
         ~CheckLimits(w)
  PROVE  Performing' \subseteq Performing
<1> USE QueueAssumption
    DEF PlaceInv, EnqueueInv, EnqueuedFirst, Known, Placement, OnePlace, OneHolder,
        Performing, Held, IsDue, TypeOK, data, worker, admin
<1>1. CASE DequeueScan(w) \/ DequeueNothing(w)
  BY <1>1 DEF DequeueScan, DequeueNothing
<1>2. CASE \E j \in Jobs : DequeuePop(w, j)
  BY <1>2 DEF DequeuePop, Removed
<1>3. CASE DequeueActive(w)
  BY <1>3 DEF DequeueActive
<1>4. CASE Perform(w) \/ Crash(w)
  BY <1>4 DEF Perform, Crash
<1>5. CASE PostponeJob(w)
  BY <1>5 DEF PostponeJob, Rescheduled, Release
<1>6. CASE AckRead(w) \/ FailRead(w)
  BY <1>6 DEF AckRead, FailRead, FinalizeRead, Release
<1>7. CASE Ack(w)
  BY <1>7 DEF Ack, Release
<1>8. CASE Fail(w)
  BY <1>8, DeadListKept DEF Fail, Release, Rescheduled
<1> QED
  BY <1>1, <1>2, <1>3, <1>4, <1>5, <1>6, <1>7, <1>8
  DEF WorkerStep, Finalize

\* Administration only takes jobs off the active set.
LEMMA AdminPerforming ==
  ASSUME PlaceInv, MaxRunning > 0, AdminStep
  PROVE  Performing' \subseteq Performing
<1> USE DEF PlaceInv, EnqueueInv, EnqueuedFirst, Known, Placement, OnePlace, OneHolder,
           Performing, Held, IsDue, TypeOK, data, worker, admin,
           AdminRead, AdminDone
<1>1. CASE CancelWrite
  BY <1>1 DEF CancelWrite
<1>2. CASE PurgeWrite \/ ExpireWrite
  BY <1>2 DEF PurgeWrite, ExpireWrite
<1>3. CASE RetryAllFailed \/ PurgeAllFailed
  BY <1>3 DEF RetryAllFailed, PurgeAllFailed
<1>4. CASE \E j \in Jobs : CancelRead(j)
  BY <1>4 DEF CancelRead
<1>5. CASE \E j \in Jobs : Retry(j)
  BY <1>5 DEF Retry
<1>6. CASE \E j \in Jobs : ArchiveOne(j)
  BY <1>6 DEF ArchiveOne
<1>7. CASE \E js \in SUBSET Jobs : PurgeExpiredDLQ(js) \/ ArchiveJobs(js)
  BY <1>7 DEF PurgeExpiredDLQ, ArchiveJobs
<1> QED
  BY <1>1, <1>2, <1>3, <1>4, <1>5, <1>6, <1>7 DEF AdminStep

\* When a job passes the check, all that perform and count are on the active set
\* that was counted, each for a worker of its own.
LEMMA LimitKept ==
  ASSUME PlaceInv, MaxRunning > 0, Cardinality(Performing) <= MaxRunning,
         NEW w \in Workers, CheckLimits(w)
  PROVE  Cardinality(Performing') <= MaxRunning
<1> USE QueueAssumption DEF PlaceInv, EnqueueInv, TypeOK, Performing
<1>1. IsFiniteSet(Performing)
  BY FS_Subset
<1>2. CASE OverLimit
  <2>1. Performing' \subseteq Performing
    BY <1>2 DEF CheckLimits, data
  <2>2. Cardinality(Performing') <= Cardinality(Performing)
    BY <1>1, <2>1, FS_Subset
  <2>3. Cardinality(Performing) \in Nat /\ Cardinality(Performing') \in Nat
    BY <1>1, <2>1, FS_Subset, FS_CardinalityType
  <2> QED
    BY <2>2, <2>3
<1>3. CASE ~OverLimit
  <2> DEFINE S == Performing'
             T == active \cap stored
             f == [v \in S |-> job[v]]
  <2>1. UNCHANGED <<active, stored, job>>
    BY DEF CheckLimits, data
  <2>2. f \in [S -> T]
    BY <2>1
  <2>3. \A a, b \in S : f[a] = f[b] => a = b
    BY <2>1 DEF Placement, OneHolder
  <2>4. f \in Injection(S, T)
    <3> HIDE DEF S, T, f
    <3> QED
      BY <2>2, <2>3, Fun_IsInj
  <2>5. IsFiniteSet(T)
    BY FS_Subset
  <2>6. IsFiniteSet(S) /\ Cardinality(S) <= Cardinality(T)
    <3> HIDE DEF S, T, f
    <3> QED
      BY <2>4, <2>5, FS_Injection
  <2>7. Cardinality(T) \in Nat /\ Cardinality(S) \in Nat
    BY <2>5, <2>6, FS_CardinalityType
  <2>8. ~(Cardinality(T) > MaxRunning)
    BY <1>3 DEF OverLimit, RunningJobsCount
  <2> QED
    BY <2>6, <2>7, <2>8
<1> QED
  BY <1>2, <1>3

\* No step lets more jobs perform than the limit allows.
LEMMA PerformingNext ==
  ASSUME PlaceInv, MaxRunning > 0, Cardinality(Performing) <= MaxRunning, [Next]_vars
  PROVE  Cardinality(Performing') <= MaxRunning
<1>1. CASE \E w \in Workers : CheckLimits(w)
  BY <1>1, LimitKept
<1>2. CASE ~\E w \in Workers : CheckLimits(w)
  <2>1. CASE UNCHANGED vars
    BY <2>1 DEF Performing, vars, data, worker, admin
  <2>2. Performing' \subseteq Performing
    BY <1>2, <2>1, EnqueuePerforming, ClockPerforming, WorkerPerforming, AdminPerforming
    DEF Next, AtRest, Performing, vars, data, worker, admin
  <2>3. IsFiniteSet(Performing)
    BY FS_Subset, QueueAssumption DEF Performing
  <2>4. IsFiniteSet(Performing') /\ Cardinality(Performing') <= Cardinality(Performing)
    BY <2>2, <2>3, FS_Subset
  <2>5. Cardinality(Performing) \in Nat /\ Cardinality(Performing') \in Nat
    BY <2>3, <2>4, FS_CardinalityType
  <2> QED
    BY <2>4, <2>5, QueueAssumption
<1> QED
  BY <1>1, <1>2

\* With one poller, checkLimitsAndPostpone keeps the jobs that perform within
\* WithMaxConcurrency, although it counts after the job was added and others are
\* added and cancelled meanwhile.
THEOREM LimitHolds ==
  ASSUME OnePoller
  PROVE  Spec => []ThrottleBound
<1>1. Init => ThrottleBound
  <2>1. Init => Performing = {}
    BY DEF Init, Performing
  <2>2. Cardinality({}) = 0
    BY FS_EmptySet
  <2> QED
    BY <2>1, <2>2, QueueAssumption DEF ThrottleBound, Performing
<1>2. PlaceInv /\ ThrottleBound /\ [Next]_vars => ThrottleBound'
  BY PerformingNext DEF ThrottleBound, Performing
<1> QED
  BY <1>1, <1>2, PlaceInvHolds, PTL DEF Spec

-----------------------------------------------------------------------------
(***************************************************************************)
(* RedisQueue implements JobLifecycle.  A command is one step in the life  *)
(* of the jobs, or nobody sees it.  The argument needs that a job is in    *)
(* one place, also when it has finished or is dead: then it is in no set   *)
(* of the queue and with nobody, so that only Retry makes it wait again.   *)
(* A job that is due is still scheduled when it is activated, or it was    *)
(* cancelled and has no envelope.                                          *)
(***************************************************************************)

\* A job that is dead or has finished was enqueued, and nothing will run it.
AtEnd(j) ==
  /\ epc[j] = "done"
  /\ j \notin queue \cup scheduled /\ ~IsDue(j) /\ ~Held(j)

Ended ==
  /\ \A j \in dead \cup processed : AtEnd(j)
  /\ dead \cap processed = {}
  /\ \A j \in ids : epc[j] = "done"
  /\ \A j \in stored : IsDue(j) => j \in scheduled

\* A job that is enqueued is not at its end.
LEMMA EnqueueEnded ==
  ASSUME PlaceInv, OnePoller, Ended, NEW j \in Jobs, EnqueueStep(j)
  PROVE  Ended'
<1> USE DEF PlaceInv, EnqueueInv, EnqueuedFirst, Known, Placement, OnePlace, OnePoller,
            Ended, AtEnd, Held, IsDue, TypeOK, data, worker, admin
<1>1. CASE EnqueueSetNX(j)
  BY <1>1 DEF EnqueueSetNX
<1>2. CASE EnqueueGet(j)
  BY <1>2 DEF EnqueueGet
<1>3. CASE EnqueueExists(j)
  BY <1>3 DEF EnqueueExists
<1>4. CASE EnqueueSet(j)
  BY <1>4 DEF EnqueueSet
<1>5. CASE EnqueueStore(j)
  BY <1>5 DEF EnqueueStore
<1> QED
  BY <1>1, <1>2, <1>3, <1>4, <1>5 DEF EnqueueStep

\* A poller finds scheduled jobs only.
LEMMA ClockEnded ==
  ASSUME PlaceInv, OnePoller, Ended,
         \/ \E k \in Keys : LockExpires(k)
         \/ \E p \in Pollers : PollActivate(p) \/ \E js \in SUBSET Jobs : PollRead(p, js)
  PROVE  Ended'
<1> USE DEF PlaceInv, EnqueueInv, EnqueuedFirst, Known, Placement, OnePlace, OnePoller,
            Ended, AtEnd, Held, IsDue, TypeOK, data, worker, admin
<1>1. CASE \E k \in Keys : LockExpires(k)
  BY <1>1 DEF LockExpires
<1>2. CASE \E p \in Pollers : PollActivate(p)
  BY <1>2 DEF PollActivate
<1>3. CASE \E p \in Pollers : \E js \in SUBSET Jobs : PollRead(p, js)
  BY <1>3 DEF PollRead
<1> QED
  BY <1>1, <1>2, <1>3

\* A worker finishes the job that it has, which is nowhere else, and was not at its end.
LEMMA WorkerEnded ==
  ASSUME PlaceInv, OnePoller, Ended, NEW w \in Workers, WorkerStep(w) \/ Crash(w)
  PROVE  Ended'
<1> USE QueueAssumption
    DEF PlaceInv, EnqueueInv, EnqueuedFirst, Known, Placement, OnePlace, OneHolder,
        Ended, AtEnd, Held, IsDue, TypeOK, data, worker, admin
<1>1. CASE DequeueScan(w) \/ DequeueNothing(w)
  BY <1>1 DEF DequeueScan, DequeueNothing
<1>2. CASE \E j \in Jobs : DequeuePop(w, j)
  BY <1>2 DEF DequeuePop, Removed
<1>3. CASE DequeueActive(w) \/ CheckLimits(w)
  BY <1>3 DEF DequeueActive, CheckLimits
<1>4. CASE Perform(w) \/ Crash(w)
  BY <1>4 DEF Perform, Crash
<1>5. CASE PostponeJob(w)
  BY <1>5 DEF PostponeJob, Rescheduled, Release
<1>6. CASE AckRead(w) \/ FailRead(w)
  BY <1>6 DEF AckRead, FailRead, FinalizeRead, Release
<1>7. CASE Ack(w)
  BY <1>7 DEF Ack, Release
<1>8. CASE Fail(w)
  BY <1>8, DeadListKept DEF Fail, Release, Rescheduled
<1> QED
  BY <1>1, <1>2, <1>3, <1>4, <1>5, <1>6, <1>7, <1>8 DEF WorkerStep, Finalize

\* Retry takes a job away from the dead before it is queued; the other calls read jobs
\* that are known, and put none anywhere.
LEMMA AdminEnded ==
  ASSUME PlaceInv, OnePoller, Ended, AdminStep
  PROVE  Ended'
<1> USE DEF PlaceInv, EnqueueInv, EnqueuedFirst, Known, Placement, RetriedIsDead, ListedAreDead,
            Ended, AtEnd, Held, IsDue, TypeOK, data, worker, admin, AdminRead, AdminDone
<1>1. CASE CancelWrite
  BY <1>1 DEF CancelWrite
<1>2. CASE PurgeWrite \/ ExpireWrite
  BY <1>2 DEF PurgeWrite, ExpireWrite
<1>3. CASE RetryAllFailed \/ PurgeAllFailed
  BY <1>3 DEF RetryAllFailed, PurgeAllFailed
<1>4. CASE \E j \in Jobs : CancelRead(j)
  BY <1>4 DEF CancelRead
<1>5. CASE \E j \in Jobs : Retry(j)
  BY <1>5 DEF Retry
<1>6. CASE \E j \in Jobs : ArchiveOne(j)
  BY <1>6 DEF ArchiveOne
<1>7. CASE \E js \in SUBSET Jobs : PurgeExpiredDLQ(js) \/ ArchiveJobs(js)
  BY <1>7 DEF PurgeExpiredDLQ, ArchiveJobs
<1> QED
  BY <1>1, <1>2, <1>3, <1>4, <1>5, <1>6, <1>7 DEF AdminStep

\* What is at its end stays out of the queue.
LEMMA EndedHolds ==
  ASSUME OnePoller
  PROVE  Spec => []Ended
<1>1. Init => Ended
  BY DEF Init, Ended
<1>2. PlaceInv /\ Ended /\ [Next]_vars => Ended'
  <2> SUFFICES ASSUME PlaceInv, Ended, [Next]_vars
               PROVE  Ended'
    OBVIOUS
  <2>1. CASE UNCHANGED vars
    BY <2>1 DEF Ended, AtEnd, IsDue, Held, vars, data, worker, admin
  <2> QED
    BY <2>1, EnqueueEnded, ClockEnded, WorkerEnded, AdminEnded DEF Next, AtRest
<1> QED
  BY <1>1, <1>2, PlaceInvHolds, PTL DEF Spec

\* What JobLifecycle sees of a step.
Seen == [Lifecycle!Next]_<<[j \in Jobs |-> LifecycleOf(j)], job>>

\* A step that gives no job another state, and no worker another job.
LEMMA Unseen ==
  ASSUME UNCHANGED job, \A j \in Jobs : LifecycleOf(j)' = LifecycleOf(j)
  PROVE  Seen
BY DEF Seen

\* A worker is through with its job: it has finished, waits again, or is dead; the rest
\* stays as it is.
LEMMA SettleSeen ==
  ASSUME NEW w \in Workers, NEW j \in Jobs, job[w] = j, j # NoJob,
         job' = [job EXCEPT ![w] = NoJob],
         NEW s \in {"finished", "waiting", "dead"},
         \/ LifecycleOf(j)' = s /\ LifecycleOf(j) # "gone"
         \/ LifecycleOf(j)' = s /\ s # "finished"
         \/ LifecycleOf(j)' = "gone" /\ LifecycleOf(j) = "gone",
         \A i \in Jobs \ {j} : LifecycleOf(i)' = LifecycleOf(i)
  PROVE  Seen
<1>1. LifecycleOf(j)' \in Lifecycle!Outcomes(LifecycleOf(j), s)
  BY DEF Lifecycle!Outcomes
<1>2. Lifecycle!Settle(w, s, {})
  BY <1>1 DEF Lifecycle!Settle
<1>3. {} \in SUBSET Lifecycle!In("waiting")
  OBVIOUS
<1>4. Lifecycle!Finish(w) \/ Lifecycle!GiveBack(w) \/ Lifecycle!Die(w)
  BY <1>2, <1>3 DEF Lifecycle!Finish, Lifecycle!GiveBack, Lifecycle!Die
<1> QED
  BY <1>4 DEF Seen, Lifecycle!Next, Lifecycle!WorkerStep

\* The jobs js are withdrawn.
LEMMA WithdrawSeen ==
  ASSUME UNCHANGED job, NEW js \in SUBSET Jobs,
         \A j \in js : LifecycleOf(j) # "none" /\ LifecycleOf(j)' = "gone",
         \A j \in Jobs \ js : LifecycleOf(j)' = LifecycleOf(j)
  PROVE  Seen
<1>1. js \in SUBSET (Jobs \ Lifecycle!In("none")) /\ {} \in SUBSET Lifecycle!In("waiting")
  BY DEF Lifecycle!In
<1>2. Lifecycle!Withdraw(js, {})
  BY DEF Lifecycle!Withdraw
<1> QED
  BY <1>1, <1>2 DEF Seen, Lifecycle!Next

\* The steps of an enqueue call: only the last one is seen.
LEMMA EnqueueSeen ==
  ASSUME PlaceInv, Ended, NEW j \in Jobs, EnqueueStep(j)
  PROVE  Seen
<1> USE DEF data, worker, admin
<1>1. CASE EnqueueSetNX(j) \/ EnqueueGet(j) \/ EnqueueExists(j) \/ EnqueueSet(j)
  <2>1. /\ epc[j] # "done" /\ epc'[j] # "done"
        /\ \A i \in Jobs \ {j} : epc'[i] = epc[i]
        /\ UNCHANGED <<data, job>>
    BY <1>1 DEF EnqueueSetNX, EnqueueGet, EnqueueExists, EnqueueSet, PlaceInv, EnqueueInv, TypeOK
  <2>2. \A i \in Jobs : LifecycleOf(i)' = LifecycleOf(i)
    BY <2>1 DEF LifecycleOf
  <2> QED
    BY <2>1, <2>2, Unseen
<1>2. CASE EnqueueStore(j)
  <2>1. /\ epc[j] # "done" /\ epc'[j] = "done"
        /\ \A i \in Jobs \ {j} : epc'[i] = epc[i]
        /\ j \in stored' /\ j \in queue' \cup scheduled'
        /\ \A i \in Jobs \ {j} : /\ i \in stored' <=> i \in stored
                                 /\ i \in queue' \cup scheduled' <=> i \in queue \cup scheduled
        /\ UNCHANGED <<processed, dead, job>>
    BY <1>2 DEF EnqueueStore, PlaceInv, EnqueueInv, TypeOK
  <2>2. j \notin dead \cup processed
    BY <2>1 DEF Ended, AtEnd
  <2>3. LifecycleOf(j) = "none" /\ LifecycleOf(j)' = "waiting"
    BY <2>1, <2>2 DEF LifecycleOf
  <2>4. \A i \in Jobs \ {j} : LifecycleOf(i)' = LifecycleOf(i)
    BY <2>1 DEF LifecycleOf
  <2>5. {j} \in SUBSET Lifecycle!In("none")
    BY <2>3 DEF Lifecycle!In
  <2>6. Lifecycle!Submit({j})
    BY <2>1, <2>3, <2>4 DEF Lifecycle!Submit
  <2> QED
    BY <2>5, <2>6 DEF Seen, Lifecycle!Next
<1> QED
  BY <1>1, <1>2 DEF EnqueueStep

\* Nobody sees a lock expire, or a scheduled job go to the queue.
LEMMA ClockSeen ==
  ASSUME PlaceInv, Ended,
         \/ \E k \in Keys : LockExpires(k)
         \/ \E p \in Pollers : PollActivate(p) \/ \E js \in SUBSET Jobs : PollRead(p, js)
  PROVE  Seen
<1> USE DEF data, worker, admin
<1>1. CASE \/ \E k \in Keys : LockExpires(k)
           \/ \E p \in Pollers : \E js \in SUBSET Jobs : PollRead(p, js)
  <2>1. UNCHANGED <<epc, stored, dead, processed, queue, scheduled, job>>
    BY <1>1 DEF LockExpires, PollRead
  <2> QED
    BY <2>1, Unseen DEF LifecycleOf
<1>2. ASSUME NEW p \in Pollers, PollActivate(p)
      PROVE  Seen
  <2>1. UNCHANGED <<epc, stored, dead, processed, job>>
        /\ queue' = queue \cup due[p] /\ scheduled' = scheduled \ due[p]
    BY <1>2 DEF PollActivate
  <2>2. \A j \in stored : j \in due[p] => j \in scheduled
    BY DEF Ended, IsDue
  <2>3. \A j \in Jobs : j \in stored =>
          (j \in queue \cup scheduled <=> j \in queue' \cup scheduled')
    BY <2>1, <2>2
  <2>4. \A j \in Jobs : LifecycleOf(j)' = LifecycleOf(j)
    BY <2>1, <2>3 DEF LifecycleOf
  <2> QED
    BY <2>1, <2>4, Unseen
<1> QED
  BY <1>1, <1>2

\* A job in a worker's hands runs, or was withdrawn.
LEMMA HeldRuns ==
  ASSUME PlaceInv, Ended, NEW w \in Workers, job[w] \in Jobs
  PROVE  /\ epc[job[w]] = "done" /\ job[w] \notin dead \cup processed
         /\ job[w] \notin queue \cup scheduled
         /\ LifecycleOf(job[w]) = IF job[w] \in stored THEN "running" ELSE "gone"
<1>1. epc[job[w]] = "done" /\ Held(job[w])
  BY DEF PlaceInv, EnqueueInv, EnqueuedFirst, Known, Held
<1>2. job[w] \notin dead \cup processed /\ job[w] \notin queue \cup scheduled
  BY <1>1 DEF Ended, AtEnd, PlaceInv, Placement, OnePlace
<1> QED
  BY <1>1, <1>2 DEF LifecycleOf

\* A worker that is not idle has a job.
LEMMA HasJob ==
  ASSUME TypeOK, NEW w \in Workers, pc[w] \notin {"idle", "scan", "off"}
  PROVE  job[w] \in Jobs /\ job[w] # NoJob
BY DEF TypeOK

\* Nothing changes for a job whose memberships stay as they are.
LEMMA SameSeen ==
  ASSUME NEW i \in Jobs, epc'[i] = epc[i], i \in stored' <=> i \in stored,
         i \in dead' <=> i \in dead, i \in processed' <=> i \in processed,
         i \in queue' \cup scheduled' <=> i \in queue \cup scheduled
  PROVE  LifecycleOf(i)' = LifecycleOf(i)
BY DEF LifecycleOf

\* Dequeue: the job that is popped waited, and nobody has it.
LEMMA DequeueSeen ==
  ASSUME PlaceInv, Ended, NEW w \in Workers, NEW j \in Jobs, DequeuePop(w, j)
  PROVE  Seen
<1>1. CASE Removed(j)
  <2>1. /\ j \in queue \cap stored /\ queue' = queue \ {j} /\ job' = [job EXCEPT ![w] = j]
        /\ UNCHANGED <<stored, scheduled, processed, dead, epc>> /\ pc[w] = "scan"
    BY <1>1 DEF DequeuePop, Removed
  <2>2. epc[j] = "done" /\ j \notin scheduled /\ j \notin dead \cup processed
    BY <2>1 DEF PlaceInv, EnqueueInv, EnqueuedFirst, Known, Placement, OnePlace, Ended, AtEnd
  <2>3. LifecycleOf(j) = "waiting" /\ LifecycleOf(j)' = "running"
    BY <2>1, <2>2 DEF LifecycleOf
  <2>4. \A i \in Jobs \ {j} : LifecycleOf(i)' = LifecycleOf(i)
    BY <2>1, SameSeen
  <2>5. job[w] = NoJob /\ j \in Lifecycle!In("waiting")
    BY <2>1, <2>3 DEF PlaceInv, EnqueueInv, TypeOK, Lifecycle!In
  <2>6. Lifecycle!Take(w, j)
    BY <2>1, <2>3, <2>4, <2>5 DEF Lifecycle!Take
  <2> QED
    BY <2>6 DEF Seen, Lifecycle!Next, Lifecycle!WorkerStep
<1>2. CASE ~Removed(j)
  <2>1. UNCHANGED <<epc, stored, dead, processed, queue, scheduled, job>>
    BY <1>2 DEF DequeuePop
  <2> QED
    BY <2>1, Unseen DEF LifecycleOf
<1> QED
  BY <1>1, <1>2

\* Ack, Fail and PostponeJob, and an Ack or Fail that finds no envelope.
LEMMA FinalizeSeen ==
  ASSUME PlaceInv, Ended, NEW w \in Workers, PostponeJob(w) \/ Finalize(w)
  PROVE  Seen
<1>1. PICK j \in Jobs : j = job[w] /\ j # NoJob
  BY HasJob DEF PostponeJob, Finalize, AckRead, FailRead, FinalizeRead, Ack, Fail,
                PlaceInv, EnqueueInv
<1>2. /\ epc[j] = "done" /\ j \notin dead \cup processed /\ j \notin queue \cup scheduled
      /\ LifecycleOf(j) = IF j \in stored THEN "running" ELSE "gone"
  BY <1>1, HeldRuns
<1>3. CASE PostponeJob(w)
  <2>1. /\ scheduled' = scheduled \cup {j} /\ job' = [job EXCEPT ![w] = NoJob]
        /\ UNCHANGED <<epc, stored, dead, processed, queue>>
    BY <1>1, <1>3 DEF PostponeJob, Rescheduled, Release
  <2>2. LifecycleOf(j)' = IF j \in stored THEN "waiting" ELSE "gone"
    BY <1>2, <2>1 DEF LifecycleOf
  <2>3. \A i \in Jobs \ {j} : LifecycleOf(i)' = LifecycleOf(i)
    BY <2>1, SameSeen
  <2> QED
    BY <1>1, <1>2, <2>1, <2>2, <2>3, SettleSeen
<1>4. CASE AckRead(w) \/ FailRead(w)
  <2>1. UNCHANGED <<epc, stored, dead, processed, queue, scheduled>>
    BY <1>4 DEF AckRead, FailRead, FinalizeRead, data
  <2>2. \A i \in Jobs : LifecycleOf(i)' = LifecycleOf(i)
    BY <2>1, SameSeen
  <2>3. \/ UNCHANGED job
        \/ j \notin stored /\ job' = [job EXCEPT ![w] = NoJob]
    BY <1>1, <1>4 DEF AckRead, FailRead, FinalizeRead, Release
  <2> QED
    BY <1>1, <1>2, <2>2, <2>3, SettleSeen, Unseen
<1>5. CASE Ack(w)
  <2>1. /\ processed' = processed \cup {j} /\ job' = [job EXCEPT ![w] = NoJob]
        /\ UNCHANGED <<epc, stored, dead, queue, scheduled>>
    BY <1>1, <1>5 DEF Ack, Release
  <2>2. LifecycleOf(j)' = IF j \in stored THEN "finished" ELSE "gone"
    BY <1>2, <2>1 DEF LifecycleOf
  <2>3. \A i \in Jobs \ {j} : LifecycleOf(i)' = LifecycleOf(i)
    BY <2>1, SameSeen
  <2> QED
    BY <1>1, <1>2, <2>1, <2>2, <2>3, SettleSeen
<1>6. CASE Fail(w)
  <2>1. /\ stored' = stored \cup {j} /\ job' = [job EXCEPT ![w] = NoJob]
        /\ UNCHANGED <<epc, processed, queue>>
        /\ \/ scheduled' = scheduled \cup {j} /\ UNCHANGED dead
           \/ dead' = dead \cup {j} /\ UNCHANGED scheduled
    BY <1>1, <1>6 DEF Fail, Release, Rescheduled
  <2>2. LifecycleOf(j)' \in {"waiting", "dead"}
    BY <1>2, <2>1 DEF LifecycleOf
  <2>3. \A i \in Jobs \ {j} : LifecycleOf(i)' = LifecycleOf(i)
    BY <2>1, SameSeen
  <2> QED
    BY <1>1, <2>1, <2>2, <2>3, SettleSeen
<1> QED
  BY <1>3, <1>4, <1>5, <1>6 DEF Finalize

\* The other steps of a worker, and its death, are not seen.
LEMMA WorkerSeen ==
  ASSUME PlaceInv, Ended, NEW w \in Workers, WorkerStep(w) \/ Crash(w)
  PROVE  Seen
<1>1. CASE \/ DequeueScan(w) \/ DequeueNothing(w) \/ DequeueActive(w) \/ CheckLimits(w)
           \/ Perform(w) \/ Crash(w)
  <2>1. UNCHANGED <<epc, stored, dead, processed, queue, scheduled, job>>
    BY <1>1 DEF DequeueScan, DequeueNothing, DequeueActive, CheckLimits, Perform, Crash, data
  <2> QED
    BY <2>1, Unseen DEF LifecycleOf
<1> QED
  BY <1>1, DequeueSeen, FinalizeSeen DEF WorkerStep

\* An administration call withdraws jobs that are known, or revives a dead one.
LEMMA AdminSeen ==
  ASSUME PlaceInv, Ended, AdminStep
  PROVE  Seen
<1>1. ids \subseteq Jobs /\ \A j \in ids : epc[j] = "done"
  BY DEF Ended, PlaceInv, EnqueueInv, TypeOK
<1>2. CASE CancelWrite \/ PurgeWrite \/ ExpireWrite
  <2>1. /\ stored' = stored \ ids /\ dead' = dead \ ids
        /\ queue' \in {queue, queue \ ids} /\ scheduled' \in {scheduled, scheduled \ ids}
        /\ UNCHANGED <<epc, processed, job>>
    BY <1>2 DEF CancelWrite, PurgeWrite, ExpireWrite, AdminDone, worker
  <2>2. \A j \in ids : LifecycleOf(j) # "none" /\ LifecycleOf(j)' = "gone"
    BY <1>1, <2>1 DEF LifecycleOf
  <2>3. \A j \in Jobs \ ids : LifecycleOf(j)' = LifecycleOf(j)
    BY <2>1, SameSeen
  <2> QED
    BY <1>1, <2>1, <2>2, <2>3, WithdrawSeen
<1>3. ASSUME NEW j \in Jobs, ArchiveOne(j)
      PROVE  Seen
  <2>1. /\ j \in ids /\ stored' = stored \ {j} /\ dead' = dead \ {j} /\ processed' = processed \ {j}
        /\ UNCHANGED <<epc, queue, scheduled, job>>
    BY <1>3 DEF ArchiveOne, AdminDone, worker
  <2>2. LifecycleOf(j) # "none" /\ LifecycleOf(j)' = "gone"
    BY <1>1, <2>1 DEF LifecycleOf
  <2>3. \A i \in Jobs \ {j} : LifecycleOf(i)' = LifecycleOf(i)
    BY <2>1, SameSeen
  <2>4. PICK js \in SUBSET Jobs : js = {j}
    OBVIOUS
  <2>5. /\ \A i \in js : LifecycleOf(i) # "none" /\ LifecycleOf(i)' = "gone"
        /\ \A i \in Jobs \ js : LifecycleOf(i)' = LifecycleOf(i)
    BY <2>2, <2>3, <2>4
  <2> QED
    BY <2>1, <2>5, WithdrawSeen
<1>4. ASSUME NEW j \in Jobs, Retry(j)
      PROVE  Seen
  <2>1. CASE j \in stored
    <3>1. /\ j \in ids /\ apc = "retry" /\ dead' = dead \ {j} /\ queue' = queue \cup {j}
          /\ UNCHANGED <<epc, stored, processed, scheduled, job>>
      BY <1>4, <2>1 DEF Retry, AdminDone, worker
    <3>2. epc[j] = "done" /\ j \in dead /\ j \notin processed
      BY <1>1, <3>1 DEF Ended, PlaceInv, Placement, RetriedIsDead, ListedAreDead
    <3>3. LifecycleOf(j) = "dead" /\ LifecycleOf(j)' = "waiting"
      BY <2>1, <3>1, <3>2 DEF LifecycleOf
    <3>4. \A i \in Jobs \ {j} : LifecycleOf(i)' = LifecycleOf(i)
      BY <3>1, SameSeen
    <3>5. {j} \in SUBSET Lifecycle!In("dead")
      BY <3>3 DEF Lifecycle!In
    <3>6. Lifecycle!Revive({j})
      BY <3>1, <3>3, <3>4 DEF Lifecycle!Revive
    <3> QED
      BY <3>5, <3>6 DEF Seen, Lifecycle!Next
  <2>2. CASE j \notin stored
    <3>1. UNCHANGED <<epc, stored, dead, processed, queue, scheduled, job>>
      BY <1>4, <2>2 DEF Retry, AdminDone, worker
    <3> QED
      BY <3>1, Unseen DEF LifecycleOf
  <2> QED
    BY <2>1, <2>2
<1>5. CASE \/ RetryAllFailed \/ PurgeAllFailed \/ \E j \in Jobs : CancelRead(j)
           \/ \E js \in SUBSET Jobs : PurgeExpiredDLQ(js) \/ ArchiveJobs(js)
  <2>1. UNCHANGED <<epc, stored, dead, processed, queue, scheduled, job>>
    BY <1>5 DEF RetryAllFailed, PurgeAllFailed, CancelRead, PurgeExpiredDLQ, ArchiveJobs,
                AdminRead, data, worker
  <2> QED
    BY <2>1, Unseen DEF LifecycleOf
<1> QED
  BY <1>2, <1>3, <1>4, <1>5 DEF AdminStep

\* With one poller the Redis driver implements the life of a job: for any number of jobs
\* and workers, with crashes and administration calls between any two commands, a job is
\* handed to one worker at a time, what has finished stays so until it is withdrawn, only
\* Retry makes a dead job wait again, and of the withdrawn ones only those come back that
\* are in the middle of Fail.
THEOREM RedisImplementsLifecycle ==
  ASSUME OnePoller
  PROVE  Spec => ImplementsLifecycle
<1>1. Init => Lifecycle!Init
  BY DEF Init, Lifecycle!Init, LifecycleOf
<1>2. PlaceInv /\ Ended /\ [Next]_vars => Seen
  <2> SUFFICES ASSUME PlaceInv, Ended, [Next]_vars
               PROVE  Seen
    OBVIOUS
  <2>1. CASE UNCHANGED vars
    BY <2>1, Unseen DEF LifecycleOf, vars, data, worker
  <2> QED
    BY <2>1, EnqueueSeen, ClockSeen, WorkerSeen, AdminSeen DEF Next, AtRest
<1> QED
  BY <1>1, <1>2, PlaceInvHolds, EndedHolds, PTL
  DEF Spec, Seen, ImplementsLifecycle, Lifecycle!Spec

=============================================================================
