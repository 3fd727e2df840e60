-------------------------- MODULE SqlStorageProofs --------------------------
(***************************************************************************)
(* Proofs about the SQL storage drivers, for any number of jobs, workers,  *)
(* keys and batches, any faults and any bound on administration calls:     *)
(* types, ownership of jobs, the refinement of JobLifecycle, the retry     *)
(* budget, batches and their callbacks, the concurrency limit, unique      *)
(* keys, and workflows: order, fail-fast and release.                      *)
(***************************************************************************)
EXTENDS SqlStorage, FiniteSetTheorems, TLAPS

\* The tables start empty and the goroutines idle.
LEMMA InitTypeOK == Init => TypeOK
<1> SUFFICES ASSUME Init
             PROVE  TypeOK
  OBVIOUS
<1>1. JobTypes /\ LockTypes
  BY DEF Init, JobTypes, LockTypes, Statuses
<1>2. BatchTypes
  BY DEF Init, BatchTypes, BatchStatuses
<1>3. EnqueueTypes
  BY DEF Init, EnqueueTypes, EnqueuePcs
<1>4. WorkerTypes
  <2>1. seenRow \in [Workers -> BOOLEAN]
    BY Zenon DEF Init
  <2> QED
    BY <2>1 DEF Init, WorkerTypes, WorkerPcs
<1>5. EnvTypes
  <2>1. paused \in BOOLEAN
    BY Zenon DEF Init
  <2> QED
    BY <2>1 DEF Init, EnvTypes
<1>6. acked \in [Jobs -> Nat]
  BY DEF Init
<1> QED
  BY <1>1, <1>2, <1>3, <1>4, <1>5, <1>6 DEF TypeOK

\* What a step leaves alone keeps its type.
LEMMA UnchangedTypes ==
  /\ JobTypes /\ UNCHANGED jobVars => JobTypes'
  /\ LockTypes /\ UNCHANGED lockVars => LockTypes'
  /\ BatchTypes /\ UNCHANGED batchVars => BatchTypes'
  /\ EnqueueTypes /\ UNCHANGED enqVars => EnqueueTypes'
  /\ WorkerTypes /\ UNCHANGED workerVars => WorkerTypes'
  /\ EnvTypes /\ UNCHANGED envVars => EnvTypes'
BY DEF JobTypes, LockTypes, BatchTypes, EnqueueTypes, WorkerTypes, EnvTypes,
       jobVars, lockVars, batchVars, enqVars, workerVars, envVars

\* An enqueue call moves on to another of its statements.
LEMMA EnqueueMoves ==
  ASSUME EnqueueTypes, NEW j \in Jobs, NEW p \in EnqueuePcs,
         p \in {"check", "collide", "takeover"} => UniqueKey[j] # NoKey,
         epc' = [epc EXCEPT ![j] = p], UNCHANGED holder
  PROVE  EnqueueTypes'
BY DEF EnqueueTypes

\* The steps of the enqueue calls keep the types.
LEMMA EnqueueTypeOK ==
  ASSUME TypeOK, NEW j \in Jobs, EnqueueStep(j) \/ EnqueueDies(j)
  PROVE  TypeOK'
<1> USE StorageAssumption, UnchangedTypes
<1> USE DEF TypeOK
<1>1. CASE EnqueueLock(j)
  <2>1. EnqueueTypes'
    BY <1>1, EnqueueMoves DEF EnqueueLock, EnqueuePcs
  <2>2. LockTypes'
    BY <1>1 DEF EnqueueLock, LockTypes
  <2> QED
    BY <1>1, <2>1, <2>2 DEF EnqueueLock
<1>2. CASE EnqueueCheck(j)
  <2>1. lock[UniqueKey[j]] \in Jobs \cup {NoJob}
    BY <1>2 DEF EnqueueCheck, EnqueueTypes, LockTypes
  <2>2. EnqueueTypes'
    BY <1>2, <2>1 DEF EnqueueCheck, EnqueueTypes, EnqueuePcs
  <2> QED
    BY <1>2, <2>2 DEF EnqueueCheck
<1>3. CASE EnqueueCollide(j)
  <2>1. EnqueueTypes'
    BY <1>3, EnqueueMoves DEF EnqueueCollide, EnqueuePcs, EnqueueTypes
  <2> QED
    BY <1>3, <2>1 DEF EnqueueCollide
<1>4. CASE EnqueueTakeover(j)
  <2>1. EnqueueTypes'
    BY <1>4, EnqueueMoves DEF EnqueueTakeover, EnqueuePcs
  <2>2. LockTypes'
    BY <1>4 DEF EnqueueTakeover, LockTypes
  <2> QED
    BY <1>4, <2>1, <2>2 DEF EnqueueTakeover
<1>5. CASE EnqueueInsert(j)
  <2>1. EnqueueTypes'
    BY <1>5, EnqueueMoves DEF EnqueueInsert, EnqueuePcs
  <2>2. JobTypes'
    BY <1>5 DEF EnqueueInsert, JobTypes, Statuses
  <2> QED
    BY <1>5, <2>1, <2>2 DEF EnqueueInsert
<1>6. CASE EnqueueInBatch(j) \/ TakeoverInBatch(j)
  <2>1. EnqueueTypes'
    BY <1>6, EnqueueMoves
    DEF EnqueueInBatch, TakeoverInBatch, AddToBatch, EnqueuePcs, MustLook
  <2>2. JobTypes'
    BY <1>6 DEF EnqueueInBatch, TakeoverInBatch, AddToBatch, JobTypes, Statuses
  <2>3. LockTypes'
    <3>1. TakeLocks({j}) \in [Keys -> Jobs \cup {NoJob}]
      BY DEF TakeLocks, LockTypes
    <3> QED
      BY <1>6, <3>1 DEF EnqueueInBatch, TakeoverInBatch, AddToBatch, LockTypes
  <2>4. BatchTypes'
    BY <1>6 DEF EnqueueInBatch, TakeoverInBatch, AddToBatch, BatchTypes
  <2> QED
    BY <1>6, <2>1, <2>2, <2>3, <2>4 DEF EnqueueInBatch, TakeoverInBatch, AddToBatch
<1>7. CASE EnqueueDies(j)
  BY <1>7, EnqueueMoves DEF EnqueueDies, EnqueuePcs
<1> QED
  BY <1>1, <1>2, <1>3, <1>4, <1>5, <1>6, <1>7 DEF EnqueueStep

\* The workflow transaction keeps the types.
LEMMA WorkflowTypeOK ==
  ASSUME TypeOK, EnqueueWorkflow
  PROVE  TypeOK'
<1> USE StorageAssumption, UnchangedTypes
<1> USE DEF TypeOK, EnqueueWorkflow
<1>1. TakeLocks(Workflow) \in [Keys -> Jobs \cup {NoJob}]
  BY DEF TakeLocks, LockTypes
<1>2. LockTypes'
  BY <1>1 DEF LockTypes
<1>3. JobTypes'
  BY DEF JobTypes, Statuses, FirstStatus
<1>4. EnqueueTypes'
  BY DEF EnqueueTypes, EnqueuePcs
<1> QED
  BY <1>2, <1>3, <1>4

\* The steps on the batch row that are not part of an Ack keep the types.
LEMMA BatchTypeOK ==
  ASSUME TypeOK, NEW b \in Batches,
         CreateBatch(b) \/ SubmitBatch(b) \/ BatchExpires(b) \/ FailExpiredBatches
  PROVE  TypeOK'
<1> USE StorageAssumption, UnchangedTypes
<1> USE DEF TypeOK, BatchTypes, BatchStatuses
<1>1. CASE CreateBatch(b)
  BY <1>1 DEF CreateBatch
<1>2. CASE SubmitBatch(b)
  <2>1. BatchTypes'
    BY <1>2 DEF SubmitBatch
  <2> QED
    BY <1>2, <2>1 DEF SubmitBatch
<1>3. CASE BatchExpires(b)
  BY <1>3 DEF BatchExpires
<1>4. CASE FailExpiredBatches
  BY <1>4 DEF FailExpiredBatches
<1> QED
  BY <1>1, <1>2, <1>3, <1>4

\* A worker goroutine moves on and keeps, takes or drops its job.
LEMMA WorkerMoves ==
  ASSUME WorkerTypes, NEW w \in Workers, NEW p \in WorkerPcs,
         NEW q \in Jobs \cup {NoJob},
         p \notin {"idle", "poll", "off"} <=> q # NoJob,
         pc' = [pc EXCEPT ![w] = p],
         job' = [job EXCEPT ![w] = q] \/ (q = job[w] /\ UNCHANGED job),
         seenRow' \in [Workers -> BOOLEAN],
         seenAttempts' \in [Workers -> Nat],
         kids' \in [Workers -> SUBSET Jobs],
         cut' \in [Workers -> SUBSET Jobs],
         ready' \in [Workers -> SUBSET Jobs]
  PROVE  WorkerTypes'
<1>1. pc' \in [Workers -> WorkerPcs] /\ job' \in [Workers -> Jobs \cup {NoJob}]
  BY DEF WorkerTypes
<1>2. pc'[w] = p /\ job'[w] = q
  BY DEF WorkerTypes
<1>3. \A v \in Workers \ {w} : pc'[v] = pc[v] /\ job'[v] = job[v]
  BY DEF WorkerTypes
<1>4. \A v \in Workers : pc'[v] \notin {"idle", "poll", "off"} <=> job'[v] # NoJob
  BY <1>2, <1>3 DEF WorkerTypes
<1> QED
  BY <1>1, <1>4 DEF WorkerTypes

\* Outside "idle", "poll" and "off" a worker has a job.
LEMMA HasJob ==
  ASSUME TypeOK, NEW w \in Workers, pc[w] \notin {"idle", "poll", "off"}
  PROVE  job[w] \in Jobs
BY DEF TypeOK, WorkerTypes

\* Fetching a job keeps the types.
LEMMA FetchTypeOK ==
  ASSUME TypeOK, NEW w \in Workers,
         \/ Poll(w) \/ DequeueNothing(w) \/ \E j \in Jobs : Dequeue(w, j)
         \/ CheckLimits(w) \/ PostponeJob(w) \/ Perform(w)
  PROVE  TypeOK'
<1> USE StorageAssumption, UnchangedTypes, WorkerMoves, HasJob
<1> USE DEF TypeOK, WorkerPcs
<1>1. CASE Poll(w)
  <2>1. WorkerTypes'
    BY <1>1 DEF Poll, WorkerTypes
  <2> QED
    BY <1>1, <2>1 DEF Poll
<1>2. CASE DequeueNothing(w)
  <2>1. WorkerTypes'
    BY <1>2 DEF DequeueNothing, WorkerTypes
  <2> QED
    BY <1>2, <2>1 DEF DequeueNothing
<1>3. ASSUME NEW j \in Jobs, Dequeue(w, j)
      PROVE  TypeOK'
  <2>1. WorkerTypes'
    BY <1>3 DEF Dequeue, WorkerTypes
  <2>2. JobTypes'
    BY <1>3 DEF Dequeue, JobTypes, Statuses
  <2> QED
    BY <1>3, <2>1, <2>2 DEF Dequeue
<1>4. CASE CheckLimits(w)
  <2>1. WorkerTypes'
    BY <1>4 DEF CheckLimits, WorkerTypes
  <2> QED
    BY <1>4, <2>1 DEF CheckLimits
<1>5. CASE PostponeJob(w)
  <2>1. WorkerTypes'
    BY <1>5 DEF PostponeJob, WorkerTypes
  <2>2. JobTypes'
    BY <1>5 DEF PostponeJob, JobTypes, Statuses, Requeued
  <2> QED
    BY <1>5, <2>1, <2>2 DEF PostponeJob
<1>6. CASE Perform(w)
  <2>1. pc[w] = "perform" /\ job[w] # NoJob
    BY <1>6 DEF Perform, WorkerTypes
  <2>2. UNCHANGED <<job, seenRow, seenAttempts, kids, cut, ready>>
    BY <1>6 DEF Perform
  <2>3. pc' = [pc EXCEPT ![w] = "ackread"] => WorkerTypes'
    BY <2>1, <2>2 DEF WorkerTypes, WorkerPcs
  <2>4. pc' = [pc EXCEPT ![w] = "failread"] => WorkerTypes'
    BY <2>1, <2>2 DEF WorkerTypes, WorkerPcs
  <2> QED
    BY <1>6, <2>3, <2>4 DEF Perform
<1> QED
  BY <1>1, <1>2, <1>3, <1>4, <1>5, <1>6

\* handleBatchAck keeps the types of the batch row.
LEMMA HandleBatchAckTypes ==
  ASSUME BatchTypes, NEW b \in Batches, HandleBatchAck(b),
         UNCHANGED <<expired, submits, sealedWith>>
  PROVE  BatchTypes'
BY DEF HandleBatchAck, BatchTypes, BatchStatuses

\* Deleting locks, failing batches and killing jobs keep the types.
LEMMA KillTypes ==
  ASSUME TypeOK, NEW js \in SUBSET Jobs
  PROVE  /\ DeleteLocks(js) \in [Keys -> Jobs \cup {NoJob}]
         /\ FailBatches(js) \in [Batches -> BatchStatuses]
BY DEF TypeOK, LockTypes, BatchTypes, DeleteLocks, FailBatches, BatchStatuses

\* A cascade counts an attempt or more for the jobs it reaches, and none for others.
LEMMA VisitsCounted ==
  ASSUME TypeOK, NEW j, NEW n \in VisitCounts(j)
  PROVE  /\ CountVisits(n) \in [Jobs -> Nat]
         /\ \A i \in Jobs \ Descendants(j) : CountVisits(n)[i] = attempts[i]
         /\ \A i \in Jobs : ~Exists(i) => CountVisits(n)[i] = attempts[i]
<1>1. /\ DOMAIN n = Descendants(j)
      /\ \A i \in Descendants(j) : n[i] \in Nat
  BY FS_CardinalityType, StorageAssumption DEF VisitCounts
<1> QED
  BY <1>1 DEF CountVisits, TypeOK, JobTypes

\* Killing jobs keeps the types.
LEMMA KilledTypes ==
  ASSUME TypeOK, NEW j \in Jobs, Kill(j)
  PROVE  /\ status' \in [Jobs -> Statuses]
         /\ attempts' \in [Jobs -> Nat]
<1>1. status' \in [Jobs -> Statuses]
  BY DEF Kill, TypeOK, JobTypes, Statuses
<1>2. PICK n \in VisitCounts(j) :
         attempts' = [CountVisits(n) EXCEPT ![j] = IF Exists(j) THEN @ + 1 ELSE @]
  BY DEF Kill
<1>3. CountVisits(n) \in [Jobs -> Nat]
  BY VisitsCounted
<1> QED
  BY <1>1, <1>2, <1>3

\* The cascade reaches jobs only.
LEMMA DescendantsAreJobs == \A j : Descendants(j) \subseteq Jobs
BY DEF Descendants

\* Ack and Fail keep the types.
LEMMA FinalizeTypeOK ==
  ASSUME TypeOK, NEW w \in Workers, Finalize(w)
  PROVE  TypeOK'
<1> USE StorageAssumption, UnchangedTypes, HasJob
<1> USE DEF TypeOK, WorkerPcs
<1>1. CASE AckRead(w)
  <2>1. Exists(job[w]) \in BOOLEAN
    BY DEF Exists
  <2>2. WorkerTypes'
    BY <1>1, <2>1 DEF AckRead, WorkerTypes
  <2> QED
    BY <1>1, <2>2 DEF AckRead
<1>2. CASE AckBegin(w)
  <2>1. WorkerTypes'
    BY <1>2 DEF AckBegin, WorkerTypes, Children
  <2> QED
    BY <1>2, <2>1 DEF AckBegin
<1>3. CASE AckResolve(w)
  <2>1. CASE AckDelete(w)
    BY <2>1 DEF AckDelete, WorkerTypes, Children
  <2>2. ASSUME NEW c \in Jobs, AckCount(w, c)
        PROVE  WorkerTypes'
    BY <2>2 DEF AckCount, WorkerTypes
  <2>3. WorkerTypes'
    BY <1>3, <2>1, <2>2 DEF AckResolve, AckDelete
  <2> QED
    BY <1>3, <2>3 DEF AckResolve, AckDelete, AckCount
<1>4. CASE AckCommit(w)
  <2>1. job[w] \in Jobs
    BY <1>4 DEF AckCommit
  <2>2. WorkerTypes'
    BY <1>4 DEF AckCommit, WorkerTypes
  <2>3. JobTypes'
    BY <1>4 DEF AckCommit, JobTypes, Statuses
  <2>4. LockTypes'
    BY <1>4, <2>1, KillTypes DEF AckCommit, LockTypes
  <2>5. BatchTypes'
    <3>1. CASE seenRow[w] /\ BatchOf[job[w]] # NoBatch
      BY <1>4, <2>1, <3>1, HandleBatchAckTypes DEF AckCommit
    <3>2. CASE ~(seenRow[w] /\ BatchOf[job[w]] # NoBatch)
      BY <1>4, <3>2 DEF AckCommit, BatchTypes
    <3> QED
      BY <3>1, <3>2
  <2>6. acked' \in [Jobs -> Nat]
    BY <1>4, <2>1 DEF AckCommit
  <2> QED
    BY <1>4, <2>2, <2>3, <2>4, <2>5, <2>6 DEF AckCommit
<1>5. CASE FailRead(w)
  <2>1. WorkerTypes'
    <3>1. CASE Exists(job[w])
      <4>1. attempts[job[w]] \in Nat
        BY <1>5 DEF FailRead, JobTypes
      <4>2. seenAttempts' \in [Workers -> Nat]
        BY <1>5, <3>1, <4>1 DEF FailRead, WorkerTypes
      <4> QED
        BY <1>5, <3>1, <4>2 DEF FailRead, WorkerTypes
    <3>2. CASE ~Exists(job[w])
      BY <1>5, <3>2 DEF FailRead, WorkerTypes
    <3> QED
      BY <3>1, <3>2
  <2> QED
    BY <1>5, <2>1 DEF FailRead
<1>6. CASE FailRetry(w)
  <2>1. WorkerTypes'
    BY <1>6 DEF FailRetry, WorkerTypes
  <2>2. JobTypes'
    BY <1>6 DEF FailRetry, JobTypes, Statuses, Requeued
  <2> QED
    BY <1>6, <2>1, <2>2 DEF FailRetry
<1>7. CASE FailDead(w)
  <2>1. /\ Descendants(job[w]) \cup {job[w]} \in SUBSET Jobs
        /\ WithRow(Descendants(job[w])) \cup {job[w]} \in SUBSET Jobs
    BY <1>7, DescendantsAreJobs DEF FailDead, WithRow
  <2>2. WorkerTypes'
    BY <1>7 DEF FailDead, WorkerTypes
  <2>3. JobTypes'
    <3>1. deps' \in [Jobs -> SUBSET Jobs]
      BY <1>7 DEF FailDead, JobTypes
    <3> QED
      BY <1>7, <3>1, KilledTypes DEF FailDead, JobTypes
  <2>4. LockTypes'
    BY <1>7, <2>1, KillTypes DEF FailDead, LockTypes
  <2>5. BatchTypes'
    BY <1>7, <2>1, KillTypes DEF FailDead, BatchTypes
  <2> QED
    BY <1>7, <2>2, <2>3, <2>4, <2>5 DEF FailDead
<1> QED
  BY <1>1, <1>2, <1>3, <1>4, <1>5, <1>6, <1>7 DEF Finalize

\* Cancelled contexts, crashes and expiring locks keep the types.
LEMMA FaultTypeOK ==
  ASSUME TypeOK, FaultStep
  PROVE  TypeOK'
<1> USE StorageAssumption, UnchangedTypes
<1> USE DEF TypeOK, WorkerPcs
<1>1. ASSUME NEW w \in Workers, Shutdown(w)
      PROVE  TypeOK'
  <2>1. EnvTypes'
    BY <1>1 DEF Shutdown, EnvTypes
  <2> QED
    BY <1>1, <2>1 DEF Shutdown
<1>2. ASSUME NEW w \in Workers, CallFails(w)
      PROVE  TypeOK'
  <2>1. WorkerTypes'
    BY <1>2 DEF CallFails, WorkerTypes
  <2> QED
    BY <1>2, <2>1 DEF CallFails
<1>3. ASSUME NEW w \in Workers, Crash(w)
      PROVE  TypeOK'
  <2>1. WorkerTypes'
    BY <1>3 DEF Crash, WorkerTypes
  <2> QED
    BY <1>3, <2>1 DEF Crash
<1>4. ASSUME NEW j \in Jobs, LockExpires(j)
      PROVE  TypeOK'
  <2>1. LockTypes'
    BY <1>4 DEF LockExpires, LockTypes
  <2> QED
    BY <1>4, <2>1 DEF LockExpires
<1> QED
  BY <1>1, <1>2, <1>3, <1>4, EnqueueTypeOK, BatchTypeOK DEF FaultStep

\* The administration calls keep the types.
LEMMA AdminTypeOK ==
  ASSUME TypeOK, AdminStep
  PROVE  TypeOK'
<1> USE StorageAssumption, UnchangedTypes
<1> USE DEF TypeOK
<1>1. ASSUME NEW kind, Admin(kind), UNCHANGED <<down, paused>>
      PROVE  EnvTypes'
  BY <1>1 DEF Admin, EnvTypes
<1>2. ASSUME NEW js \in SUBSET Jobs, Reset(js)
      PROVE  JobTypes'
  BY <1>2 DEF Reset, JobTypes, Statuses
<1>3. ASSUME NEW js \in SUBSET Jobs, Remove(js), UNCHANGED attempts
      PROVE  JobTypes'
  BY <1>3 DEF Remove, DropDeps, JobTypes, Statuses
<1>4. ASSUME NEW js \in SUBSET Jobs, BulkRetry(js)
      PROVE  TypeOK'
  <2>1. WithRow(js) \in SUBSET Jobs
    BY DEF WithRow
  <2>2. JobTypes'
    BY <1>2, <1>4, <2>1 DEF BulkRetry
  <2> QED
    BY <1>1, <1>4, <2>2 DEF BulkRetry, Reset
<1>5. CASE RetryAllFailed
  <2>1. JobTypes'
    BY <1>2, <1>5 DEF RetryAllFailed
  <2> QED
    BY <1>1, <1>5, <2>1 DEF RetryAllFailed, Reset
<1>6. ASSUME NEW j \in Jobs, Cancel(j)
      PROVE  TypeOK'
  <2>1. /\ WithRow(Descendants(j)) \in SUBSET Jobs
        /\ WithRow(Descendants(j) \cup {j}) \in SUBSET Jobs
    BY DescendantsAreJobs DEF WithRow
  <2>2. JobTypes'
    <3>1. attempts' \in [Jobs -> Nat]
      BY <1>6, VisitsCounted DEF Cancel
    <3> QED
      BY <1>6, <3>1 DEF Cancel, JobTypes, Statuses
  <2>3. LockTypes'
    BY <1>6, <2>1, KillTypes DEF Cancel, LockTypes
  <2>4. BatchTypes'
    BY <1>6, <2>1, KillTypes DEF Cancel, BatchTypes
  <2> QED
    BY <1>1, <1>6, <2>2, <2>3, <2>4 DEF Cancel
<1>7. ASSUME NEW js \in SUBSET Jobs, BulkCancel(js)
      PROVE  TypeOK'
  <2>1. WithRow(js) \in SUBSET Jobs
    BY DEF WithRow
  <2>2. LockTypes'
    BY <1>7, <2>1, KillTypes DEF BulkCancel, LockTypes
  <2> QED
    BY <1>1, <1>3, <1>7, <2>2 DEF BulkCancel
<1>8. ASSUME NEW js \in SUBSET Jobs, BulkPurge(js) \/ PurgeDLQ(js) \/ ArchiveJobs(js)
      PROVE  TypeOK'
  BY <1>1, <1>3, <1>8 DEF BulkPurge, PurgeDLQ, ArchiveJobs
<1>9. CASE ClearQueue
  <2>1. LockTypes'
    BY <1>9 DEF ClearQueue, LockTypes
  <2> QED
    BY <1>1, <1>3, <1>9, <2>1 DEF ClearQueue
<1>10. ASSUME NEW value \in BOOLEAN, SetPaused(value)
       PROVE  TypeOK'
  <2>1. EnvTypes'
    BY <1>10 DEF SetPaused, Admin, EnvTypes
  <2> QED
    BY <1>10, <2>1 DEF SetPaused
<1> QED
  BY <1>4, <1>5, <1>6, <1>7, <1>8, <1>9, <1>10 DEF AdminStep

\* Every step keeps the types.
LEMMA NextTypeOK == TypeOK /\ [Next]_vars => TypeOK'
<1> SUFFICES ASSUME TypeOK, [Next]_vars
             PROVE  TypeOK'
  OBVIOUS
<1>1. CASE UNCHANGED vars \/ AtRest
  BY <1>1, UnchangedTypes DEF vars, AtRest, TypeOK
<1>2. CASE FailExpiredBatches
  <2>1. PICK b \in Batches : b \in expired
    BY <1>2 DEF FailExpiredBatches, TypeOK, BatchTypes
  <2> QED
    BY <1>2, <2>1, BatchTypeOK
<1>3. CASE Next /\ ~AtRest /\ ~FailExpiredBatches
  BY <1>3, EnqueueTypeOK, WorkflowTypeOK, BatchTypeOK, FetchTypeOK,
     FinalizeTypeOK, FaultTypeOK, AdminTypeOK DEF Next, WorkerStep
<1> QED
  BY <1>1, <1>2, <1>3

\* Type correctness of the SQL storage and its callers.
THEOREM StorageTypeCorrect == Spec => []TypeOK
BY InitTypeOK, NextTypeOK, PTL DEF Spec

-----------------------------------------------------------------------------
(* No job is ever in the hands of two workers.                             *)

\* When unblocking is sound: either the driver has one writer at a time, or no
\* job waits for more than one parent.  Without it two Acks at READ COMMITTED
\* can make a job pending again after it was killed, retried and dequeued.
SafeUnblocking ==
  \/ SingleWriter
  \/ \A j \in Workflow : \A p, q \in Parents[j] : p = q

\* A held job was enqueued, waits for nobody and is running, unless somebody
\* deleted its row.
HeldJobs ==
  \A w \in Workers : job[w] # NoJob =>
    /\ epc[job[w]] = "done"
    /\ deps[job[w]] = {}
    /\ status[job[w]] \in {"running", "absent"}

\* Only a blocked job waits for others.
RunnableIsFree ==
  \A j \in Jobs : status[j] \in {"pending", "running", "processed", "dead"} => deps[j] = {}

\* A job has no rows before its enqueue call is over.
NoRowsYet ==
  \A j \in Jobs : epc[j] # "done" => status[j] = "absent" /\ deps[j] = {}

\* Dependency rows come from the Dependencies of the envelope.
DepsDeclared ==
  \A j \in Jobs : \A p \in deps[j] : j \in Workflow /\ p \in Parents[j]

\* The children an open Ack has read, or is about to unblock, still wait for its
\* job, unless their row is gone; while it counts, it has deleted what they wait for.
KidsWait ==
  \A w \in InTransaction : \A c \in kids[w] \cup ready[w] :
    /\ epc[c] = "done"
    /\ Exists(c) => job[w] \in deps[c] /\ (pc[w] = "ackcount" => c \in cut[w])

\* The dependency rows an open Ack has deleted are there until it commits.
CutRows ==
  \A w \in InTransaction : \A c \in cut[w] : job[w] \in deps[c]

\* The children an open Ack is about to unblock wait for its job alone.
ReadyLast ==
  \A w \in InTransaction : \A c \in ready[w] : deps[c] \subseteq {job[w]}

Ownership ==
  /\ ExclusiveExecution /\ HeldJobs /\ RunnableIsFree /\ NoRowsYet
  /\ DepsDeclared /\ KidsWait /\ CutRows /\ ReadyLast

\* Only a job that waits for j or for a descendant of j is a descendant of j.
LEMMA DescendantsWait ==
  ASSUME NEW i, NEW c \in Descendants(i)
  PROVE  \E p \in deps[c] : p = i \/ p \in Descendants(i)
<1> DEFINE Closed(S) == Children(i) \subseteq S /\ \A d \in S : Children(d) \subseteq S
<1>1. \A S \in SUBSET Jobs : Closed(S) => Descendants(i) \subseteq S
  BY DEF Descendants
<1>2. Closed(Descendants(i))
  BY DEF Descendants, Children
<1>3. SUFFICES ASSUME \A p \in deps[c] : p # i /\ p \notin Descendants(i)
               PROVE  FALSE
  OBVIOUS
<1>4. Closed(Descendants(i) \ {c})
  BY <1>2, <1>3 DEF Children
<1>5. Descendants(i) \subseteq Descendants(i) \ {c}
  BY <1>1, <1>4, DescendantsAreJobs
<1> QED
  BY <1>5

\* Steps that add no dependency: a row is deleted, and its dependencies with it;
\* or a row is written for a job that nobody holds (any more) and that waits for
\* nobody; a worker may drop its job and leave its transaction, but neither takes
\* a job nor opens a transaction.
LEMMA QuietStep ==
  ASSUME TypeOK, Ownership,
         \A j \in Jobs :
            \/ deps'[j] = deps[j]
            \/ /\ deps'[j] = {} /\ status'[j] = "absent"
               /\ \A w \in InTransaction : j \notin cut[w],
         \A j \in Jobs : epc[j] = "done" => epc'[j] = "done",
         \A j \in Jobs :
            \/ status'[j] \in {status[j], "absent"}
            \/ /\ deps[j] = {} /\ epc'[j] = "done" /\ \A w \in Workers : job'[w] # j
               /\ Exists(j) \/ epc[j] # "done",
         \A w \in Workers : job'[w] \in {job[w], NoJob},
         \A w \in Workers : pc'[w] \in {"ackkids", "ackcount"} =>
            /\ pc'[w] = pc[w] /\ job'[w] = job[w]
            /\ kids'[w] = kids[w] /\ cut'[w] = cut[w] /\ ready'[w] = ready[w]
  PROVE  Ownership'
<1> USE DEF TypeOK, WorkerTypes, JobTypes
<1>1. ExclusiveExecution'
  BY DEF Ownership, ExclusiveExecution
<1>2. HeldJobs'
  BY DEF Ownership, HeldJobs
<1>3. RunnableIsFree' /\ DepsDeclared'
  BY DEF Ownership, RunnableIsFree, DepsDeclared
<1>4. NoRowsYet'
  BY DEF Ownership, NoRowsYet
<1>5. KidsWait'
  <2>1. SUFFICES ASSUME NEW w \in InTransaction', NEW c \in kids'[w] \cup ready'[w]
                 PROVE  /\ epc'[c] = "done"
                        /\ Exists(c)' => /\ job'[w] \in deps'[c]
                                         /\ pc'[w] = "ackcount" => c \in cut'[w]
    BY DEF KidsWait
  <2>2. /\ w \in InTransaction /\ c \in kids[w] \cup ready[w] /\ c \in Jobs
        /\ pc'[w] = pc[w] /\ job'[w] = job[w] /\ cut'[w] = cut[w]
    BY DEF InTransaction
  <2>3. epc[c] = "done" /\ (Exists(c) => job[w] \in deps[c]
                                        /\ (pc[w] = "ackcount" => c \in cut[w]))
    BY <2>2 DEF Ownership, KidsWait
  <2>4. Exists(c)' => Exists(c) /\ deps'[c] = deps[c]
    BY <2>2, <2>3 DEF Exists
  <2> QED
    BY <2>2, <2>3, <2>4
<1>6. CutRows' /\ ReadyLast'
  BY DEF Ownership, CutRows, ReadyLast, InTransaction
<1> QED
  BY <1>1, <1>2, <1>3, <1>4, <1>5, <1>6 DEF Ownership

\* Enqueue calls: a row appears for a job nobody can hold yet.
LEMMA EnqueueOwnership ==
  ASSUME TypeOK, Ownership, NEW j \in Jobs, EnqueueStep(j) \/ EnqueueDies(j)
  PROVE  Ownership'
<1> USE DEF TypeOK, EnqueueTypes, JobTypes, WorkerTypes
<1>1. CASE \/ EnqueueLock(j) \/ EnqueueCheck(j) \/ EnqueueCollide(j)
           \/ EnqueueTakeover(j) \/ EnqueueDies(j)
  BY <1>1, QuietStep
  DEF EnqueueLock, EnqueueCheck, EnqueueCollide, EnqueueTakeover, EnqueueDies,
      jobVars, workerVars
<1>2. CASE EnqueueInsert(j) \/ EnqueueInBatch(j) \/ TakeoverInBatch(j)
  <2>1. epc[j] # "done" /\ deps[j] = {} /\ \A w \in Workers : job[w] # j
    BY <1>2, StorageAssumption
    DEF EnqueueInsert, EnqueueInBatch, TakeoverInBatch, Ownership, NoRowsYet, HeldJobs
  <2> QED
    BY <1>2, <2>1, QuietStep
    DEF EnqueueInsert, EnqueueInBatch, TakeoverInBatch, AddToBatch, workerVars
<1> QED
  BY <1>1, <1>2 DEF EnqueueStep

\* EnqueueWorkflow: the rows of jobs nobody can hold yet.
LEMMA WorkflowOwnership ==
  ASSUME TypeOK, Ownership, EnqueueWorkflow
  PROVE  Ownership'
<1> USE StorageAssumption
<1> USE DEF TypeOK, EnqueueTypes, JobTypes, WorkerTypes
<1>1. CASE UNCHANGED <<status, deps>>
  BY <1>1, QuietStep DEF EnqueueWorkflow, workerVars, jobVars
<1>2. CASE /\ status' = [j \in Jobs |-> IF j \in Workflow THEN FirstStatus(j)
                                        ELSE status[j]]
           /\ deps' = [j \in Jobs |-> IF j \in Workflow THEN deps[j] \cup Parents[j]
                                      ELSE deps[j]]
           /\ epc' = [j \in Jobs |-> IF j \in Workflow THEN "done" ELSE epc[j]]
  <2>1. UNCHANGED workerVars
    BY DEF EnqueueWorkflow
  <2>2. \A j \in Workflow : epc[j] # "done"
    BY DEF EnqueueWorkflow
  <2>3. \A j \in Workflow : deps[j] = {} /\ \A w \in Workers : job[w] # j
    BY <2>2 DEF Ownership, NoRowsYet, HeldJobs
  <2>4. ExclusiveExecution'
    BY <2>1 DEF Ownership, ExclusiveExecution, workerVars
  <2>5. HeldJobs'
    BY <1>2, <2>1, <2>3 DEF Ownership, HeldJobs, workerVars
  <2>6. RunnableIsFree'
    BY <1>2, <2>3 DEF Ownership, RunnableIsFree, FirstStatus
  <2>7. NoRowsYet'
    BY <1>2 DEF Ownership, NoRowsYet
  <2>8. DepsDeclared'
    BY <1>2 DEF Ownership, DepsDeclared
  <2>9. KidsWait'
    BY <1>2, <2>1, <2>2 DEF Ownership, KidsWait, InTransaction, workerVars, Exists
  <2>10. CutRows' /\ ReadyLast'
    <3>1. \A w \in InTransaction : \A c \in cut[w] \cup ready[w] : c \notin Workflow
      BY <2>2, <2>3 DEF Ownership, KidsWait, CutRows
    <3> QED
      BY <1>2, <2>1, <3>1 DEF Ownership, CutRows, ReadyLast, InTransaction, workerVars
  <2> QED
    BY <2>4, <2>5, <2>6, <2>7, <2>8, <2>9, <2>10 DEF Ownership
<1> QED
  BY <1>1, <1>2 DEF EnqueueWorkflow, jobVars

\* Dequeue takes a pending job, which nobody holds; the other steps around
\* Perform give it back or keep it.
LEMMA FetchOwnership ==
  ASSUME TypeOK, Ownership, NEW w \in Workers,
         \/ Poll(w) \/ DequeueNothing(w) \/ \E j \in Jobs : Dequeue(w, j)
         \/ CheckLimits(w) \/ PostponeJob(w) \/ Perform(w)
  PROVE  Ownership'
<1> USE StorageAssumption
<1> USE DEF TypeOK, EnqueueTypes, JobTypes, WorkerTypes
<1>1. CASE Poll(w) \/ DequeueNothing(w) \/ CheckLimits(w) \/ Perform(w)
  BY <1>1, QuietStep
  DEF Poll, DequeueNothing, CheckLimits, Perform, jobVars, enqVars
<1>2. CASE PostponeJob(w)
  <2>1. job[w] \in Jobs /\ deps[job[w]] = {} /\ epc[job[w]] = "done"
    BY <1>2 DEF PostponeJob, Ownership, HeldJobs
  <2>2. \A v \in Workers : job'[v] # job[w]
    BY <1>2, <2>1 DEF PostponeJob, Ownership, ExclusiveExecution
  <2> QED
    BY <1>2, <2>1, <2>2, QuietStep DEF PostponeJob, Requeued, Exists, enqVars
<1>3. ASSUME NEW j \in Jobs, Dequeue(w, j)
      PROVE  Ownership'
  <2>1. /\ status[j] = "pending" /\ deps[j] = {} /\ epc[j] = "done"
        /\ \A v \in Workers : job[v] # j
    BY <1>3 DEF Dequeue, Takeable, Ownership, RunnableIsFree, NoRowsYet, HeldJobs
  <2>2. /\ status' = [status EXCEPT ![j] = "running"]
        /\ job' = [job EXCEPT ![w] = j]
        /\ UNCHANGED <<deps, epc, kids, cut, ready>>
    BY <1>3 DEF Dequeue, enqVars
  <2>3. ExclusiveExecution' /\ HeldJobs'
    BY <2>1, <2>2 DEF Ownership, ExclusiveExecution, HeldJobs
  <2>4. RunnableIsFree' /\ NoRowsYet' /\ DepsDeclared'
    BY <2>1, <2>2 DEF Ownership, RunnableIsFree, NoRowsYet, DepsDeclared
  <2>5. KidsWait' /\ CutRows' /\ ReadyLast'
    BY <1>3, <2>1, <2>2
    DEF Dequeue, Ownership, KidsWait, CutRows, ReadyLast, InTransaction, Exists
  <2> QED
    BY <2>3, <2>4, <2>5 DEF Ownership
<1> QED
  BY <1>1, <1>2, <1>3

\* The cascade of a job that no open transaction works on does not reach what
\* waits for the job of an open transaction.
LEMMA CascadeKeepsOff ==
  ASSUME TypeOK, Ownership, SafeUnblocking, NEW i \in Jobs,
         NEW w \in InTransaction, job[w] # i,
         SingleWriter => InTransaction = {},
         NEW c \in Jobs, job[w] \in deps[c]
  PROVE  c \notin Descendants(i)
<1> SUFFICES ASSUME c \in Descendants(i)
             PROVE  FALSE
  OBVIOUS
<1> USE DEF TypeOK, WorkerTypes, JobTypes, InTransaction
<1>1. w \in Workers /\ job[w] \in Jobs
  OBVIOUS
<1>2. ~SingleWriter
  OBVIOUS
<1>3. \A p \in deps[c] : p = job[w]
  BY <1>1, <1>2 DEF Ownership, DepsDeclared, SafeUnblocking
<1>4. job[w] \in Descendants(i)
  BY <1>3, DescendantsWait
<1>5. deps[job[w]] # {}
  BY <1>4, DescendantsWait
<1> QED
  BY <1>1, <1>5, StorageAssumption DEF Ownership, HeldJobs

\* A cascade from job i, which at most the worker that drops it holds; its own
\* dependency rows go if its row does.
LEMMA CascadeOwnership ==
  ASSUME TypeOK, Ownership, SafeUnblocking, NEW i \in Jobs,
         SingleWriter => InTransaction = {},
         \A w \in InTransaction : job[w] # i,
         UNCHANGED <<epc, kids, cut, ready>>,
         \A c \in Jobs :
            \/ deps'[c] = IF c \in Descendants(i) THEN {} ELSE deps[c]
            \/ /\ c = i /\ deps'[i] = {} /\ status'[i] = "absent"
               /\ \A w \in InTransaction : i \notin cut[w],
         \A c \in Jobs :
            \/ status'[c] = status[c]
            \/ status'[c] = "absent"
            \/ status'[c] = "dead" /\ Exists(c) /\ c \in Descendants(i)
            \/ status'[c] = "dead" /\ Exists(c) /\ c = i /\ deps[i] = {}
                                   /\ \A w \in Workers : job'[w] # i,
         \A w \in Workers : job'[w] \in {job[w], NoJob},
         \A w \in Workers : pc'[w] \in {"ackkids", "ackcount"} =>
            pc'[w] = pc[w] /\ job'[w] = job[w]
  PROVE  Ownership'
<1> USE DEF TypeOK, WorkerTypes, JobTypes
<1>0. \A c \in Jobs : deps'[c] \subseteq deps[c]
  OBVIOUS
<1>1. ExclusiveExecution'
  BY DEF Ownership, ExclusiveExecution
<1>2. HeldJobs'
  <2>1. SUFFICES ASSUME NEW w \in Workers, job'[w] # NoJob
                 PROVE  /\ epc'[job'[w]] = "done"
                        /\ deps'[job'[w]] = {}
                        /\ status'[job'[w]] \in {"running", "absent"}
    BY DEF HeldJobs
  <2>2. job'[w] = job[w] /\ job[w] \in Jobs
    BY <2>1
  <2>3. /\ epc[job[w]] = "done" /\ deps[job[w]] = {}
        /\ status[job[w]] \in {"running", "absent"}
    BY <2>1, <2>2 DEF Ownership, HeldJobs
  <2>4. job[w] \notin Descendants(i)
    BY <2>3, DescendantsWait
  <2> QED
    BY <1>0, <2>2, <2>3, <2>4
<1>3. RunnableIsFree'
  BY <1>0 DEF Ownership, RunnableIsFree
<1>4. NoRowsYet'
  BY <1>0 DEF Ownership, NoRowsYet, Exists
<1>5. DepsDeclared'
  BY <1>0 DEF Ownership, DepsDeclared
<1>6. KidsWait' /\ CutRows'
  <2>1. ASSUME NEW w \in InTransaction', NEW c \in Jobs, job[w] \in deps[c],
               Exists(c)' \/ c \in cut[w]
        PROVE  job'[w] \in deps'[c]
    <3>1. w \in InTransaction /\ job'[w] = job[w]
      BY DEF InTransaction
    <3>2. c \notin Descendants(i)
      BY <2>1, <3>1, CascadeKeepsOff
    <3>3. deps'[c] = deps[c]
      BY <2>1, <3>1, <3>2 DEF Exists
    <3> QED
      BY <2>1, <3>1, <3>3
  <2>2. \A w \in InTransaction' : w \in InTransaction /\ pc'[w] = pc[w] /\ job'[w] = job[w]
    BY DEF InTransaction
  <2>3. \A c \in Jobs : Exists(c)' => Exists(c)
    BY DEF Exists
  <2>4. CutRows'
    BY <2>1, <2>2 DEF Ownership, CutRows, InTransaction
  <2>5. ASSUME NEW w \in InTransaction', NEW c \in kids'[w] \cup ready'[w]
        PROVE  /\ epc'[c] = "done"
               /\ Exists(c)' => /\ job'[w] \in deps'[c]
                                /\ pc'[w] = "ackcount" => c \in cut'[w]
    <3>1. w \in Workers /\ c \in Jobs /\ c \in kids[w] \cup ready[w]
      BY DEF InTransaction
    <3>2. /\ epc[c] = "done"
          /\ Exists(c) => job[w] \in deps[c] /\ (pc[w] = "ackcount" => c \in cut[w])
      BY <2>2, <3>1 DEF Ownership, KidsWait
    <3> QED
      BY <2>1, <2>2, <2>3, <3>1, <3>2
  <2> QED
    BY <2>4, <2>5 DEF KidsWait
<1>7. ReadyLast'
  BY <1>0 DEF Ownership, ReadyLast, InTransaction
<1> QED
  BY <1>1, <1>2, <1>3, <1>4, <1>5, <1>6, <1>7 DEF Ownership

\* Ack and Fail: the children that become pending were waiting, so nobody holds
\* them, and a job that is killed or given back is dropped.
LEMMA FinalizeOwnership ==
  ASSUME TypeOK, Ownership, SafeUnblocking, NEW w \in Workers, Finalize(w)
  PROVE  Ownership'
<1> USE StorageAssumption, HasJob
<1> USE DEF TypeOK, EnqueueTypes, JobTypes, WorkerTypes
<1>1. CASE AckRead(w) \/ FailRead(w)
  BY <1>1, QuietStep DEF AckRead, FailRead, jobVars, enqVars
<1>2. CASE AckBegin(w)
  <2>1. ExclusiveExecution' /\ HeldJobs' /\ RunnableIsFree' /\ NoRowsYet'
        /\ DepsDeclared'
    BY <1>2 DEF AckBegin, Ownership, ExclusiveExecution, HeldJobs,
                RunnableIsFree, NoRowsYet, DepsDeclared, jobVars, enqVars
  <2>2. \A c \in Children(job[w]) : epc[c] = "done"
    BY DEF Ownership, NoRowsYet, Children
  <2>3. KidsWait' /\ CutRows' /\ ReadyLast'
    BY <1>2, <2>2 DEF AckBegin, Ownership, KidsWait, CutRows, ReadyLast,
                      InTransaction, Children, Exists, jobVars, enqVars
  <2> QED
    BY <2>1, <2>3 DEF Ownership
<1>3. CASE AckResolve(w)
  <2>1. UNCHANGED <<status, deps, epc, job>>
        /\ (\A v \in Workers : pc'[v] = pc[v] \/ {pc[v], pc'[v]} \subseteq {"ackkids", "ackcount"})
    BY <1>3 DEF AckResolve, AckDelete, AckCount, jobVars, enqVars
  <2>2. ExclusiveExecution' /\ HeldJobs' /\ RunnableIsFree' /\ NoRowsYet'
        /\ DepsDeclared'
    BY <2>1 DEF Ownership, ExclusiveExecution, HeldJobs, RunnableIsFree, NoRowsYet,
                DepsDeclared
  <2>3. CASE AckDelete(w)
    BY <2>2, <2>3 DEF AckDelete, Ownership, KidsWait, CutRows, ReadyLast, InTransaction,
                      Children, Exists, jobVars, enqVars
  <2>4. ASSUME NEW c \in Jobs, AckCount(w, c)
        PROVE  Ownership'
    BY <2>2, <2>4 DEF AckCount, Ownership, KidsWait, CutRows, ReadyLast, InTransaction,
                      Unblocked, Exists, jobVars, enqVars
  <2> QED
    BY <1>3, <2>3, <2>4 DEF AckResolve
<1>4. CASE AckCommit(w)
  <2> DEFINE j == job[w]
  <2>1. /\ pc[w] = "ackcount" /\ j \in Jobs /\ j # NoJob
        /\ status' = [i \in Jobs |-> IF status[i] = "absent" THEN "absent"
                                     ELSE IF i \in ready[w] THEN "pending"
                                     ELSE IF i = j THEN "processed" ELSE status[i]]
        /\ deps' = [c \in Jobs |-> IF c \in cut[w] THEN deps[c] \ {j} ELSE deps[c]]
        /\ pc' = [pc EXCEPT ![w] = "idle"]
        /\ job' = [job EXCEPT ![w] = NoJob]
        /\ UNCHANGED <<epc, kids, cut, ready>>
    BY <1>4 DEF AckCommit, enqVars
  <2>2. \A c \in ready[w] : /\ Exists(c) => j \in deps[c] /\ c \in cut[w]
                           /\ deps[c] \subseteq {j}
    BY <2>1 DEF Ownership, KidsWait, ReadyLast, InTransaction
  <2>3. \A v \in Workers \ {w} : job[v] # j
    BY <2>1 DEF Ownership, ExclusiveExecution
  <2>4. ExclusiveExecution'
    BY <2>1 DEF Ownership, ExclusiveExecution
  <2>5. HeldJobs'
    BY <2>1, <2>2, <2>3 DEF Ownership, HeldJobs, Exists
  <2>6. RunnableIsFree'
    <3>1. deps[j] = {}
      BY <2>1 DEF Ownership, HeldJobs
    <3> QED
      BY <2>1, <2>2, <3>1 DEF Ownership, RunnableIsFree, Exists
  <2>7. NoRowsYet' /\ DepsDeclared'
    BY <2>1, <2>2 DEF Ownership, NoRowsYet, DepsDeclared
  <2>8. KidsWait' /\ CutRows' /\ ReadyLast'
    <3>1. \A v \in InTransaction' : v \in InTransaction /\ v # w
                                    /\ job'[v] = job[v] /\ pc'[v] = pc[v] /\ job[v] # j
      BY <2>1, <2>3 DEF InTransaction
    <3>2. \A c \in Jobs : /\ Exists(c)' <=> Exists(c)
                          /\ deps'[c] \subseteq deps[c] /\ deps[c] \subseteq deps'[c] \cup {j}
      BY <2>1 DEF Exists
    <3>3. KidsWait'
      <4>1. SUFFICES ASSUME NEW v \in InTransaction', NEW c \in kids[v] \cup ready[v]
                     PROVE  /\ epc[c] = "done"
                            /\ Exists(c)' => /\ job'[v] \in deps'[c]
                                             /\ pc'[v] = "ackcount" => c \in cut[v]
        BY <2>1 DEF KidsWait
      <4>2. c \in Jobs
        BY <3>1 DEF InTransaction
      <4> QED
        BY <3>1, <3>2, <4>2 DEF Ownership, KidsWait
    <3>4. CutRows' /\ ReadyLast'
      BY <2>1, <3>1, <3>2 DEF Ownership, CutRows, ReadyLast, InTransaction
    <3> QED
      BY <3>3, <3>4
  <2> QED
    BY <2>4, <2>5, <2>6, <2>7, <2>8 DEF Ownership
<1>5. CASE FailRetry(w)
  <2>1. job[w] \in Jobs /\ deps[job[w]] = {} /\ epc[job[w]] = "done"
    BY <1>5 DEF FailRetry, Ownership, HeldJobs
  <2>2. \A v \in Workers : job'[v] # job[w]
    BY <1>5, <2>1 DEF FailRetry, Ownership, ExclusiveExecution
  <2> QED
    BY <1>5, <2>1, <2>2, QuietStep DEF FailRetry, Requeued, Exists, enqVars
<1>6. CASE FailDead(w)
  <2>1. job[w] \in Jobs /\ deps[job[w]] = {} /\ w \notin InTransaction
    BY <1>6 DEF FailDead, Ownership, HeldJobs, InTransaction
  <2>2. \A v \in Workers : job'[v] # job[w]
    BY <1>6, <2>1 DEF FailDead, Ownership, ExclusiveExecution
  <2>3. /\ SingleWriter => InTransaction = {}
        /\ \A v \in InTransaction : job[v] # job[w]
    BY <1>6, <2>1 DEF FailDead, WriterFree, InTransaction, Ownership, ExclusiveExecution
  <2>4. \A c \in Jobs :
          \/ status'[c] = status[c]
          \/ status'[c] = "dead" /\ Exists(c) /\ c \in Descendants(job[w])
          \/ status'[c] = "dead" /\ Exists(c) /\ c = job[w]
    BY <1>6 DEF FailDead, Kill
  <2>5. /\ UNCHANGED <<epc, kids, cut, ready>>
        /\ deps' = [c \in Jobs |-> IF c \in Descendants(job[w]) THEN {} ELSE deps[c]]
        /\ pc' = [pc EXCEPT ![w] = "idle"]
        /\ job' = [job EXCEPT ![w] = NoJob]
    BY <1>6 DEF FailDead, enqVars
  <2> QED
    BY <2>1, <2>2, <2>3, <2>4, <2>5, CascadeOwnership
<1> QED
  BY <1>1, <1>2, <1>3, <1>4, <1>5, <1>6 DEF Finalize

\* Administration without Retry.
LEMMA AdminOwnership ==
  ASSUME TypeOK, Ownership, SafeUnblocking, "Retry" \notin AdminOps, AdminStep
  PROVE  Ownership'
<1> USE StorageAssumption
<1> USE DEF TypeOK, EnqueueTypes, JobTypes, WorkerTypes
<1>1. ASSUME NEW js \in SUBSET Jobs, Remove(js),
             UNCHANGED <<enqVars, workerVars>>
      PROVE  Ownership'
  <2>1. \A j \in Jobs : \/ deps'[j] = deps[j]
                        \/ /\ deps'[j] = {} /\ status'[j] = "absent"
                           /\ \A w \in InTransaction : j \notin cut[w]
    BY <1>1 DEF Remove, DropDeps, DepsFree, InTransaction
  <2> QED
    BY <1>1, <2>1, QuietStep DEF Remove, enqVars, workerVars
<1>2. CASE \/ ClearQueue
           \/ \E js \in SUBSET Jobs \ {{}} :
                BulkCancel(js) \/ BulkPurge(js) \/ PurgeDLQ(js) \/ ArchiveJobs(js)
  BY <1>1, <1>2 DEF ClearQueue, BulkCancel, BulkPurge, PurgeDLQ, ArchiveJobs
<1>3. CASE RetryAllFailed
  <2>1. \A j \in Jobs : status[j] = "dead" =>
           deps[j] = {} /\ epc[j] = "done" /\ \A w \in Workers : job[w] # j
    BY DEF Ownership, RunnableIsFree, NoRowsYet, HeldJobs
  <2> QED
    BY <1>3, <2>1, QuietStep DEF RetryAllFailed, Reset, enqVars, workerVars, Exists
<1>4. ASSUME NEW j \in Jobs, Cancel(j)
      PROVE  Ownership'
  <2>1. /\ SingleWriter => InTransaction = {}
        /\ \A w \in InTransaction : job[w] # j
    BY <1>4 DEF Cancel, Admin, WriterFree, RowFree, InTransaction
  <2>2. /\ UNCHANGED <<epc, kids, cut, ready, pc, job>>
        /\ \A c \in Jobs :
             \/ deps'[c] = IF c \in Descendants(j) THEN {} ELSE deps[c]
             \/ /\ c = j /\ deps'[j] = {} /\ status'[j] = "absent"
                /\ \A w \in InTransaction : j \notin cut[w]
    BY <1>4 DEF Cancel, DepsFree, InTransaction, enqVars, workerVars
  <2>3. \A c \in Jobs :
          \/ status'[c] = status[c]
          \/ status'[c] = "absent"
          \/ status'[c] = "dead" /\ Exists(c) /\ c \in Descendants(j)
    BY <1>4 DEF Cancel
  <2> QED
    BY <2>1, <2>2, <2>3, CascadeOwnership
<1>5. ASSUME NEW value \in BOOLEAN, SetPaused(value)
      PROVE  Ownership'
  BY <1>5, QuietStep DEF SetPaused, jobVars, enqVars, workerVars
<1>6. \A js : ~BulkRetry(js)
  BY DEF BulkRetry, Admin
<1> QED
  BY <1>2, <1>3, <1>4, <1>5, <1>6 DEF AdminStep

\* Faults, batches and stuttering leave the job rows alone.
LEMMA OtherOwnership ==
  ASSUME TypeOK, Ownership,
         \/ \E w \in Workers : Shutdown(w) \/ CallFails(w) \/ Crash(w)
         \/ \E j \in Jobs : LockExpires(j)
         \/ \E b \in Batches : BatchExpires(b) \/ CreateBatch(b) \/ SubmitBatch(b)
         \/ FailExpiredBatches \/ AtRest \/ UNCHANGED vars
  PROVE  Ownership'
<1> USE DEF TypeOK, EnqueueTypes, JobTypes, WorkerTypes
<1>1. CASE \E w \in Workers : Shutdown(w) \/ CallFails(w) \/ Crash(w)
  BY <1>1, QuietStep DEF Shutdown, CallFails, Crash, jobVars, enqVars, workerVars
<1>2. CASE \/ \E j \in Jobs : LockExpires(j)
           \/ \E b \in Batches : BatchExpires(b) \/ CreateBatch(b) \/ SubmitBatch(b)
           \/ FailExpiredBatches \/ AtRest \/ UNCHANGED vars
  <2>1. UNCHANGED <<jobVars, enqVars, workerVars>>
    BY <1>2 DEF LockExpires, BatchExpires, CreateBatch, SubmitBatch,
                FailExpiredBatches, AtRest, vars
  <2> QED
    BY <2>1, QuietStep DEF jobVars, enqVars, workerVars
<1> QED
  BY <1>1, <1>2

\* Ownership is an invariant.
THEOREM OwnershipHolds ==
  ASSUME SafeUnblocking, "Retry" \notin AdminOps
  PROVE  Spec => []Ownership
<1>1. Init => Ownership
  BY StorageAssumption
  DEF Init, Ownership, ExclusiveExecution, HeldJobs, RunnableIsFree, NoRowsYet,
      DepsDeclared, KidsWait, CutRows, ReadyLast, InTransaction
<1>2. TypeOK /\ Ownership /\ [Next]_vars => Ownership'
  BY EnqueueOwnership, WorkflowOwnership, FetchOwnership, FinalizeOwnership,
     AdminOwnership, OtherOwnership DEF Next, WorkerStep, FaultStep
<1> QED
  BY <1>1, <1>2, StorageTypeCorrect, PTL DEF Spec

\* With crashes, cancelled contexts, expiring locks and every administration
\* call but Retry, no job is in the hands of two workers: for any number of jobs
\* and workers, and any dependencies on SQLite, chains and trees on PostgreSQL.
THEOREM OneWorkerPerJob ==
  ASSUME SafeUnblocking, "Retry" \notin AdminOps
  PROVE  Spec => []ExclusiveExecution
<1>1. Ownership => ExclusiveExecution
  BY DEF Ownership
<1> QED
  BY <1>1, OwnershipHolds, PTL

-----------------------------------------------------------------------------
(***************************************************************************)
(* SqlStorage implements JobLifecycle.  Every statement or transaction of  *)
(* the SQL drivers, of the clients and of the dashboard is one step in the *)
(* life of the jobs, or changes nothing a caller sees.  The argument needs *)
(* what Ownership says: a held job is running or gone, and only a blocked  *)
(* job waits for others, so that a cascade never reaches a job that runs   *)
(* or has finished, and an unblocked child was really waiting.             *)
(***************************************************************************)

\* The state a caller sees, by the row.
LEMMA SeenState ==
  ASSUME TypeOK, NEW j \in Jobs
  PROVE  /\ status[j] \in {"blocked", "pending"} <=> LifecycleOf(j) = "waiting"
         /\ status[j] = "running" <=> LifecycleOf(j) = "running"
         /\ status[j] = "processed" <=> LifecycleOf(j) = "finished"
         /\ status[j] = "dead" <=> LifecycleOf(j) = "dead"
         /\ status[j] = "absent" /\ epc[j] = "done" <=> LifecycleOf(j) = "gone"
         /\ status[j] = "absent" /\ epc[j] # "done" <=> LifecycleOf(j) = "none"
BY DEF TypeOK, JobTypes, Statuses, LifecycleOf, Exists

\* The same after a step.
LEMMA SeenStateNext ==
  ASSUME TypeOK', NEW j \in Jobs
  PROVE  /\ status'[j] \in {"blocked", "pending"} <=> LifecycleOf(j)' = "waiting"
         /\ status'[j] = "running" <=> LifecycleOf(j)' = "running"
         /\ status'[j] = "processed" <=> LifecycleOf(j)' = "finished"
         /\ status'[j] = "dead" <=> LifecycleOf(j)' = "dead"
         /\ status'[j] = "absent" /\ epc'[j] = "done" <=> LifecycleOf(j)' = "gone"
         /\ status'[j] = "absent" /\ epc'[j] # "done" <=> LifecycleOf(j)' = "none"
BY DEF TypeOK, JobTypes, Statuses, LifecycleOf, Exists

\* What JobLifecycle sees of a step.
Seen == [Lifecycle!Next]_<<[j \in Jobs |-> LifecycleOf(j)], job>>

\* A step that leaves the rows alone, and the enqueue calls where they count.
LEMMA Unseen ==
  ASSUME TypeOK, TypeOK', UNCHANGED job,
         \A j \in Jobs : LifecycleOf(j)' = LifecycleOf(j)
  PROVE  Seen
BY DEF Seen

\* The enqueue of the jobs js, which have no rows yet.
LEMMA SubmitSeen ==
  ASSUME UNCHANGED job, NEW js \in SUBSET Jobs,
         \A j \in js : LifecycleOf(j) = "none" /\ LifecycleOf(j)' = "waiting",
         \A j \in Jobs \ js : LifecycleOf(j)' = LifecycleOf(j)
  PROVE  Seen
<1>1. js \in SUBSET Lifecycle!In("none")
  BY DEF Lifecycle!In
<1>2. Lifecycle!Submit(js)
  BY DEF Lifecycle!Submit
<1> QED
  BY <1>1, <1>2 DEF Seen, Lifecycle!Next

\* A worker is through with its job, which has finished or is given back.
LEMMA SettleSeen ==
  ASSUME NEW w \in Workers, NEW j \in Jobs, job[w] = j, j # NoJob,
         job' = [job EXCEPT ![w] = NoJob],
         NEW s \in {"finished", "waiting"},
         LifecycleOf(j)' = IF LifecycleOf(j) = "gone" THEN "gone" ELSE s,
         \A i \in Jobs \ {j} : LifecycleOf(i)' = LifecycleOf(i)
  PROVE  Seen
<1>1. LifecycleOf(j)' \in Lifecycle!Outcomes(LifecycleOf(j), s)
  BY DEF Lifecycle!Outcomes
<1>2. Lifecycle!Settle(w, s, {})
  BY <1>1 DEF Lifecycle!Settle
<1>3. Lifecycle!Finish(w) \/ Lifecycle!GiveBack(w)
  BY <1>2 DEF Lifecycle!Finish, Lifecycle!GiveBack
<1> QED
  BY <1>3 DEF Seen, Lifecycle!Next, Lifecycle!WorkerStep

\* A worker's job dies, and the waiting jobs js with it.
LEMMA DieSeen ==
  ASSUME NEW w \in Workers, NEW j \in Jobs, job[w] = j, j # NoJob,
         job' = [job EXCEPT ![w] = NoJob],
         NEW js \in SUBSET Jobs, j \notin js,
         \A i \in js : LifecycleOf(i) = "waiting" /\ LifecycleOf(i)' = "dead",
         LifecycleOf(j)' = IF LifecycleOf(j) = "gone" THEN "gone" ELSE "dead",
         \A i \in Jobs \ (js \cup {j}) : LifecycleOf(i)' = LifecycleOf(i)
  PROVE  Seen
<1>1. js \in SUBSET Lifecycle!In("waiting")
  BY DEF Lifecycle!In
<1>2. LifecycleOf(j)' \in Lifecycle!Outcomes(LifecycleOf(j), "dead")
  BY DEF Lifecycle!Outcomes
<1>3. Lifecycle!Settle(w, "dead", js)
  BY <1>2 DEF Lifecycle!Settle
<1>4. Lifecycle!Die(w)
  BY <1>1, <1>3 DEF Lifecycle!Die
<1> QED
  BY <1>4 DEF Seen, Lifecycle!Next, Lifecycle!WorkerStep

\* A worker goes, or its job was withdrawn: the job stays as it is.
LEMMA LetGoSeen ==
  ASSUME TypeOK, NEW w \in Workers,
         job' = [job EXCEPT ![w] = NoJob],
         \A j \in Jobs : LifecycleOf(j)' = LifecycleOf(j)
  PROVE  Seen
<1>1. CASE job[w] = NoJob
  <2>1. job' = job
    BY <1>1 DEF TypeOK, WorkerTypes
  <2> QED
    BY <2>1 DEF Seen
<1>2. CASE job[w] # NoJob
  <2>1. Lifecycle!LetGo(w)
    BY <1>2 DEF Lifecycle!LetGo
  <2> QED
    BY <2>1 DEF Seen, Lifecycle!Next, Lifecycle!WorkerStep
<1> QED
  BY <1>1, <1>2

\* Rows are deleted.
LEMMA RemoveSeen ==
  ASSUME UNCHANGED job, NEW js \in SUBSET Jobs,
         \A j \in js : LifecycleOf(j) # "none" /\ LifecycleOf(j)' = "gone",
         \A j \in Jobs \ js : LifecycleOf(j)' = LifecycleOf(j)
  PROVE  Seen
<1>1. js \in SUBSET (Jobs \ Lifecycle!In("none"))
  BY DEF Lifecycle!In
<1>2. Lifecycle!Withdraw(js, {})
  BY DEF Lifecycle!Withdraw
<1> QED
  BY <1>1, <1>2 DEF Seen, Lifecycle!Next

\* Rows are deleted, and a cascade kills jobs that wait.
LEMMA WithdrawSeen ==
  ASSUME UNCHANGED job, NEW js \in SUBSET Jobs, NEW fallen \in SUBSET Jobs,
         \A j \in js : LifecycleOf(j) # "none" /\ LifecycleOf(j)' = "gone",
         \A j \in fallen : LifecycleOf(j) = "waiting",
         \A j \in fallen \ js : LifecycleOf(j)' = "dead",
         \A j \in Jobs \ (js \cup fallen) : LifecycleOf(j)' = LifecycleOf(j)
  PROVE  Seen
<1>1. /\ js \in SUBSET (Jobs \ Lifecycle!In("none"))
      /\ fallen \in SUBSET Lifecycle!In("waiting")
  BY DEF Lifecycle!In
<1>2. Lifecycle!Withdraw(js, fallen)
  BY DEF Lifecycle!Withdraw
<1> QED
  BY <1>1, <1>2 DEF Seen, Lifecycle!Next

-----------------------------------------------------------------------------
\* The enqueue calls: nothing is seen before the row is there.
LEMMA EnqueueSeen ==
  ASSUME TypeOK, TypeOK', Ownership,
         NEW j \in Jobs, EnqueueStep(j) \/ EnqueueDies(j)
  PROVE  Seen
<1> USE SeenState, SeenStateNext
<1>1. CASE \/ EnqueueLock(j) \/ EnqueueCheck(j) \/ EnqueueCollide(j)
           \/ EnqueueTakeover(j) \/ EnqueueDies(j)
  <2>1. UNCHANGED <<status, job>>
    BY <1>1 DEF EnqueueLock, EnqueueCheck, EnqueueCollide, EnqueueTakeover,
                EnqueueDies, jobVars, workerVars
  <2>2. epc[j] # "done" /\ epc'[j] # "done"
        /\ \A i \in Jobs \ {j} : epc'[i] = epc[i]
    BY <1>1 DEF EnqueueLock, EnqueueCheck, EnqueueCollide, EnqueueTakeover,
                EnqueueDies, TypeOK, EnqueueTypes
  <2>3. \A i \in Jobs : LifecycleOf(i)' = LifecycleOf(i)
    BY <2>1, <2>2 DEF LifecycleOf, Exists
  <2> QED
    BY <2>1, <2>3, Unseen
<1>2. CASE EnqueueInsert(j) \/ (EnqueueInBatch(j) /\ epc'[j] = "done")
           \/ TakeoverInBatch(j)
  <2>1. /\ epc[j] # "done" /\ status[j] = "absent"
        /\ status'[j] = "pending"
        /\ \A i \in Jobs \ {j} : status'[i] = status[i] /\ epc'[i] = epc[i]
        /\ UNCHANGED job
    BY <1>2 DEF EnqueueInsert, EnqueueInBatch, TakeoverInBatch, AddToBatch, Ownership, NoRowsYet, workerVars,
                TypeOK, JobTypes, EnqueueTypes
  <2>2. LifecycleOf(j) = "none" /\ LifecycleOf(j)' = "waiting"
    BY <2>1
  <2>3. \A i \in Jobs \ {j} : LifecycleOf(i)' = LifecycleOf(i)
    BY <2>1 DEF LifecycleOf, Exists
  <2>4. {j} \in SUBSET Jobs
    OBVIOUS
  <2>5. \A i \in {j} : LifecycleOf(i) = "none" /\ LifecycleOf(i)' = "waiting"
    BY <2>2
  <2> QED
    BY <2>1, <2>3, <2>4, <2>5, SubmitSeen
<1>3. CASE EnqueueInBatch(j) /\ epc'[j] # "done"
  <2>1. /\ UNCHANGED <<status, job>> /\ epc[j] # "done"
        /\ \A i \in Jobs \ {j} : epc'[i] = epc[i]
    BY <1>3 DEF EnqueueInBatch, TakeoverInBatch, AddToBatch, workerVars, TypeOK, EnqueueTypes
  <2>2. \A i \in Jobs : LifecycleOf(i)' = LifecycleOf(i)
    BY <1>3, <2>1 DEF LifecycleOf, Exists
  <2> QED
    BY <2>1, <2>2, Unseen
<1> QED
  BY <1>1, <1>2, <1>3 DEF EnqueueStep

\* A workflow is submitted as a whole, or refused.
LEMMA WorkflowSeen ==
  ASSUME TypeOK, TypeOK', Ownership, EnqueueWorkflow
  PROVE  Seen
<1> USE SeenState, SeenStateNext, StorageAssumption
<1>1. UNCHANGED job /\ \A j \in Workflow : epc[j] = "new" /\ status[j] = "absent"
  BY DEF EnqueueWorkflow, workerVars, Ownership, NoRowsYet
<1>2. CASE LocksAvailable(Workflow)
  <2>1. \A j \in Workflow : LifecycleOf(j) = "none" /\ LifecycleOf(j)' = "waiting"
    BY <1>1, <1>2 DEF EnqueueWorkflow, FirstStatus
  <2>2. \A j \in Jobs \ Workflow : LifecycleOf(j)' = LifecycleOf(j)
    BY <1>2 DEF EnqueueWorkflow, LifecycleOf, Exists
  <2> QED
    BY <1>1, <2>1, <2>2, SubmitSeen
<1>3. CASE ~LocksAvailable(Workflow)
  <2>1. \A j \in Jobs : LifecycleOf(j)' = LifecycleOf(j)
    BY <1>1, <1>3 DEF EnqueueWorkflow, LifecycleOf, Exists
  <2> QED
    BY <1>1, <2>1, Unseen
<1> QED
  BY <1>2, <1>3

-----------------------------------------------------------------------------
\* A job that is given back is pending again, unless its row is gone.
LEMMA GivenBack ==
  ASSUME TypeOK, TypeOK', NEW w \in Workers, NEW j \in Jobs,
         job[w] = j, j # NoJob, epc[j] = "done", status[j] \in {"running", "absent"},
         job' = [job EXCEPT ![w] = NoJob], UNCHANGED epc,
         status' = [status EXCEPT ![j] = Requeued(@)]
  PROVE  Seen
<1>1. status'[j] = Requeued(status[j])
  BY DEF TypeOK, JobTypes
<1>2. LifecycleOf(j)' = IF LifecycleOf(j) = "gone" THEN "gone" ELSE "waiting"
  BY <1>1 DEF Requeued, LifecycleOf, Exists
<1>3. \A i \in Jobs \ {j} : LifecycleOf(i)' = LifecycleOf(i)
  BY DEF LifecycleOf, Exists, TypeOK, JobTypes
<1> QED
  BY <1>2, <1>3, SettleSeen

\* Dequeue, the limits and PostponeJob.
LEMMA FetchSeen ==
  ASSUME TypeOK, TypeOK', Ownership, NEW w \in Workers,
         \/ Poll(w) \/ DequeueNothing(w) \/ \E j \in Jobs : Dequeue(w, j)
         \/ CheckLimits(w) \/ PostponeJob(w) \/ Perform(w)
  PROVE  Seen
<1> USE SeenState, SeenStateNext
<1>1. CASE Poll(w) \/ DequeueNothing(w) \/ CheckLimits(w) \/ Perform(w)
  <2>1. UNCHANGED <<status, epc, job>>
    BY <1>1 DEF Poll, DequeueNothing, CheckLimits, Perform, jobVars, enqVars
  <2> QED
    BY <2>1, Unseen DEF LifecycleOf, Exists
<1>2. CASE \E j \in Jobs : Dequeue(w, j)
  <2>1. PICK j \in Jobs : Dequeue(w, j)
    BY <1>2
  <2>2. /\ job[w] = NoJob /\ job' = [job EXCEPT ![w] = j]
        /\ status[j] = "pending" /\ status' = [status EXCEPT ![j] = "running"]
        /\ UNCHANGED epc
    BY <2>1 DEF Dequeue, Takeable, TypeOK, WorkerTypes, enqVars
  <2>3. LifecycleOf(j) = "waiting" /\ LifecycleOf(j)' = "running"
    BY <2>2 DEF TypeOK, JobTypes
  <2>4. \A i \in Jobs \ {j} : LifecycleOf(i)' = LifecycleOf(i)
    BY <2>2 DEF LifecycleOf, Exists, TypeOK, JobTypes
  <2>5. Lifecycle!Take(w, j)
    BY <2>2, <2>3, <2>4 DEF Lifecycle!Take, Lifecycle!In
  <2> QED
    BY <2>5 DEF Seen, Lifecycle!Next, Lifecycle!WorkerStep
<1>3. CASE PostponeJob(w)
  <2>1. PICK j \in Jobs : /\ job[w] = j /\ j # NoJob /\ epc[j] = "done"
                          /\ status[j] \in {"running", "absent"}
    BY <1>3, HasJob, StorageAssumption DEF PostponeJob, Ownership, HeldJobs
  <2>2. /\ job' = [job EXCEPT ![w] = NoJob] /\ UNCHANGED epc
        /\ status' = [status EXCEPT ![j] = Requeued(@)]
    BY <1>3, <2>1 DEF PostponeJob, enqVars
  <2> QED
    BY <2>1, <2>2, GivenBack
<1> QED
  BY <1>1, <1>2, <1>3

-----------------------------------------------------------------------------
\* The commit of an Ack: the job has finished, and the children that become
\* pending were waiting.
LEMMA AckSeen ==
  ASSUME TypeOK, TypeOK', Ownership, NEW w \in Workers, AckCommit(w)
  PROVE  Seen
<1> USE SeenState, SeenStateNext
<1>0. pc[w] = "ackcount" /\ job[w] \in Jobs
  BY HasJob DEF AckCommit
<1>1. PICK j \in Jobs : /\ job[w] = j /\ j # NoJob /\ epc[j] = "done"
                        /\ status[j] \in {"running", "absent"} /\ deps[j] = {}
  BY <1>0, StorageAssumption DEF Ownership, HeldJobs
<1>2. /\ job' = [job EXCEPT ![w] = NoJob] /\ UNCHANGED epc
      /\ status' = [i \in Jobs |-> IF status[i] = "absent" THEN "absent"
                                   ELSE IF i \in ready[w] THEN "pending"
                                   ELSE IF i = j THEN "processed" ELSE status[i]]
  BY <1>1 DEF AckCommit, enqVars
<1>3. \A c \in ready[w] : Exists(c) => j \in deps[c]
  BY <1>0, <1>1 DEF Ownership, KidsWait, InTransaction
<1>4. \A c \in Jobs \cap ready[w] :
        /\ status[c] \in {"blocked", "absent"}
        /\ c = j => status[c] = "absent"
  BY <1>1, <1>3 DEF Ownership, RunnableIsFree, TypeOK, JobTypes, Statuses, Exists
<1>5. LifecycleOf(j)' = IF LifecycleOf(j) = "gone" THEN "gone" ELSE "finished"
  BY <1>1, <1>2, <1>4 DEF LifecycleOf, Exists
<1>6. \A i \in Jobs \ {j} : LifecycleOf(i)' = LifecycleOf(i)
  BY <1>2, <1>4 DEF LifecycleOf, Exists
<1> QED
  BY <1>1, <1>2, <1>5, <1>6, SettleSeen

\* Those a cascade reaches wait, or their rows are gone.
LEMMA CascadeWaits ==
  ASSUME TypeOK, Ownership, NEW i, NEW c \in Descendants(i), Exists(c)
  PROVE  c \in Jobs /\ LifecycleOf(c) = "waiting" /\ epc[c] = "done"
<1>1. c \in Jobs /\ deps[c] # {}
  BY DescendantsAreJobs, DescendantsWait
<1>2. status[c] = "blocked"
  BY <1>1 DEF Ownership, RunnableIsFree, TypeOK, JobTypes, Statuses, Exists
<1> QED
  BY <1>1, <1>2, SeenState DEF Ownership, NoRowsYet

\* Fail at the limit: the job dies with those that wait for it.
LEMMA FailDeadSeen ==
  ASSUME TypeOK, TypeOK', Ownership, NEW w \in Workers, FailDead(w)
  PROVE  Seen
<1> USE SeenState, SeenStateNext
<1>1. PICK j \in Jobs : /\ job[w] = j /\ j # NoJob /\ epc[j] = "done"
                        /\ status[j] \in {"running", "absent"} /\ deps[j] = {}
  BY HasJob, StorageAssumption DEF FailDead, Ownership, HeldJobs
<1> DEFINE js == {c \in Descendants(j) : Exists(c)}
<1>2. /\ job' = [job EXCEPT ![w] = NoJob] /\ UNCHANGED epc
      /\ status' = [i \in Jobs |-> IF i \in Descendants(j) \cup {j} /\ Exists(i)
                                   THEN "dead" ELSE status[i]]
  BY <1>1 DEF FailDead, Kill, enqVars
<1>3. js \in SUBSET Jobs /\ \A i \in js : LifecycleOf(i) = "waiting"
  BY CascadeWaits
<1>4. j \notin js
  BY <1>1, <1>3
<1>5. \A i \in js : LifecycleOf(i)' = "dead"
  BY <1>2, <1>3
<1>6. LifecycleOf(j)' = IF LifecycleOf(j) = "gone" THEN "gone" ELSE "dead"
  BY <1>1, <1>2 DEF Exists
<1>7. \A i \in Jobs \ (js \cup {j}) : LifecycleOf(i)' = LifecycleOf(i)
  BY <1>2 DEF LifecycleOf, Exists
<1> HIDE DEF js
<1> QED
  BY <1>1, <1>2, <1>3, <1>4, <1>5, <1>6, <1>7, DieSeen

\* Ack and Fail.
LEMMA FinalizeSeen ==
  ASSUME TypeOK, TypeOK', Ownership, NEW w \in Workers, Finalize(w)
  PROVE  Seen
<1>1. CASE AckRead(w) \/ AckBegin(w) \/ AckResolve(w)
  <2>1. UNCHANGED <<status, epc, job>>
    BY <1>1 DEF AckRead, AckBegin, AckResolve, AckDelete, AckCount, jobVars, enqVars
  <2> QED
    BY <2>1, Unseen DEF LifecycleOf, Exists
<1>2. CASE FailRead(w)
  <2>1. UNCHANGED <<status, epc>>
        /\ (job' = job \/ job' = [job EXCEPT ![w] = NoJob])
    BY <1>2 DEF FailRead, jobVars, enqVars
  <2>2. \A j \in Jobs : LifecycleOf(j)' = LifecycleOf(j)
    BY <2>1 DEF LifecycleOf, Exists
  <2> QED
    BY <2>1, <2>2, Unseen, LetGoSeen
<1>3. CASE FailRetry(w)
  <2>1. PICK j \in Jobs : /\ job[w] = j /\ j # NoJob /\ epc[j] = "done"
                          /\ status[j] \in {"running", "absent"}
    BY <1>3, HasJob, StorageAssumption DEF FailRetry, Ownership, HeldJobs
  <2>2. /\ job' = [job EXCEPT ![w] = NoJob] /\ UNCHANGED epc
        /\ status' = [status EXCEPT ![j] = Requeued(@)]
    BY <1>3, <2>1 DEF FailRetry, enqVars
  <2> QED
    BY <2>1, <2>2, GivenBack
<1> QED
  BY <1>1, <1>2, <1>3, AckSeen, FailDeadSeen DEF Finalize

-----------------------------------------------------------------------------
\* Administration without Retry.
LEMMA AdminSeen ==
  ASSUME TypeOK, TypeOK', Ownership, "Retry" \notin AdminOps, AdminStep
  PROVE  Seen
<1> USE SeenState, SeenStateNext
<1>1. ASSUME NEW js \in SUBSET Jobs, Remove(js), UNCHANGED <<epc, job>>
      PROVE  Seen
  <2> DEFINE gone == {j \in js : epc[j] = "done"}
  <2>1. \A j \in gone : LifecycleOf(j) # "none" /\ LifecycleOf(j)' = "gone"
    BY <1>1 DEF Remove
  <2>2. \A j \in Jobs \ gone : LifecycleOf(j)' = LifecycleOf(j)
    BY <1>1 DEF Remove, Ownership, NoRowsYet, LifecycleOf, Exists
  <2>3. gone \in SUBSET Jobs
    OBVIOUS
  <2> HIDE DEF gone
  <2> QED
    BY <1>1, <2>1, <2>2, <2>3, RemoveSeen
<1>2. CASE \/ ClearQueue
           \/ \E js \in SUBSET Jobs \ {{}} :
                BulkCancel(js) \/ BulkPurge(js) \/ PurgeDLQ(js) \/ ArchiveJobs(js)
  BY <1>1, <1>2 DEF ClearQueue, BulkCancel, BulkPurge, PurgeDLQ, ArchiveJobs,
                    enqVars, workerVars
<1>3. CASE RetryAllFailed
  <2> DEFINE js == {j \in Jobs : status[j] = "dead"}
  <2>1. /\ UNCHANGED <<epc, job>>
        /\ status' = [j \in Jobs |-> IF j \in js THEN "pending" ELSE status[j]]
    BY <1>3 DEF RetryAllFailed, Reset, enqVars, workerVars
  <2>2. \A j \in js : LifecycleOf(j) = "dead" /\ LifecycleOf(j)' = "waiting"
    BY <2>1
  <2>3. \A j \in Jobs \ js : LifecycleOf(j)' = LifecycleOf(j)
    BY <2>1 DEF LifecycleOf, Exists
  <2>4. js \in SUBSET Jobs
    OBVIOUS
  <2> HIDE DEF js
  <2>5. js \in SUBSET Lifecycle!In("dead")
    BY <2>2, <2>4 DEF Lifecycle!In
  <2>6. Lifecycle!Revive(js)
    BY <2>1, <2>2, <2>3, <2>4 DEF Lifecycle!Revive
  <2> QED
    BY <2>5, <2>6 DEF Seen, Lifecycle!Next
<1>4. ASSUME NEW j \in Jobs, Cancel(j)
      PROVE  Seen
  <2> DEFINE gone   == {i \in {j} : epc[i] = "done"}
             fallen == {c \in Descendants(j) : Exists(c)}
  <2>1. /\ UNCHANGED <<epc, job>>
        /\ status' = [i \in Jobs |-> IF i = j THEN "absent"
                                     ELSE IF i \in Descendants(j) /\ Exists(i)
                                     THEN "dead" ELSE status[i]]
    BY <1>4 DEF Cancel, enqVars, workerVars
  <2>2. \A i \in fallen : i \in Jobs /\ LifecycleOf(i) = "waiting" /\ epc[i] = "done"
    BY CascadeWaits
  <2>3. \A i \in gone : LifecycleOf(i) # "none" /\ LifecycleOf(i)' = "gone"
    BY <2>1
  <2>4. \A i \in fallen \ gone : LifecycleOf(i)' = "dead"
    BY <2>1, <2>2
  <2>5. \A i \in Jobs \ (gone \cup fallen) : LifecycleOf(i)' = LifecycleOf(i)
    BY <2>1 DEF Ownership, NoRowsYet, LifecycleOf, Exists
  <2>6. gone \in SUBSET Jobs /\ fallen \in SUBSET Jobs
    BY <2>2
  <2> HIDE DEF gone, fallen
  <2> QED
    BY <2>1, <2>2, <2>3, <2>4, <2>5, <2>6, WithdrawSeen
<1>5. ASSUME NEW value \in BOOLEAN, SetPaused(value)
      PROVE  Seen
  BY <1>5, Unseen DEF SetPaused, jobVars, enqVars, workerVars, LifecycleOf, Exists
<1>6. \A js : ~BulkRetry(js)
  BY DEF BulkRetry, Admin
<1> QED
  BY <1>2, <1>3, <1>4, <1>5, <1>6 DEF AdminStep

\* Faults, batches and stuttering.
LEMMA OtherSeen ==
  ASSUME TypeOK, TypeOK', Ownership,
         \/ \E w \in Workers : Shutdown(w) \/ CallFails(w) \/ Crash(w)
         \/ \E j \in Jobs : LockExpires(j)
         \/ \E b \in Batches : BatchExpires(b) \/ CreateBatch(b) \/ SubmitBatch(b)
         \/ FailExpiredBatches \/ AtRest \/ UNCHANGED vars
  PROVE  Seen
<1>1. CASE \E w \in Workers : CallFails(w) \/ Crash(w)
  <2>1. PICK w \in Workers : CallFails(w) \/ Crash(w)
    BY <1>1
  <2>2. UNCHANGED <<status, epc>> /\ job' = [job EXCEPT ![w] = NoJob]
    BY <2>1 DEF CallFails, Crash, jobVars, enqVars
  <2> QED
    BY <2>2, LetGoSeen DEF LifecycleOf, Exists
<1>2. CASE \/ \E w \in Workers : Shutdown(w)
           \/ \E j \in Jobs : LockExpires(j)
           \/ \E b \in Batches : BatchExpires(b) \/ CreateBatch(b) \/ SubmitBatch(b)
           \/ FailExpiredBatches \/ AtRest \/ UNCHANGED vars
  <2>1. UNCHANGED <<jobVars, enqVars, workerVars>>
    BY <1>2 DEF Shutdown, LockExpires, BatchExpires, CreateBatch, SubmitBatch,
                FailExpiredBatches, AtRest, vars
  <2> QED
    BY <2>1, Unseen DEF jobVars, enqVars, workerVars, LifecycleOf, Exists
<1> QED
  BY <1>1, <1>2

-----------------------------------------------------------------------------
\* Where Ownership holds, the drivers implement the life of a job: for any number
\* of jobs and workers, with the faults and every administration call but Retry,
\* a job that runs is not handed out again, one that has finished stays finished
\* until it is withdrawn, and a cascade takes only jobs that wait.
THEOREM SqlImplementsLifecycle ==
  ASSUME SafeUnblocking, "Retry" \notin AdminOps
  PROVE  Spec => ImplementsLifecycle
<1>1. Init => Lifecycle!Init
  BY DEF Init, Lifecycle!Init, LifecycleOf, Exists
<1>2. TypeOK /\ TypeOK' /\ Ownership /\ [Next]_vars => Seen
  BY EnqueueSeen, WorkflowSeen, FetchSeen, FinalizeSeen, AdminSeen, OtherSeen
  DEF Next, WorkerStep, FaultStep
<1> QED
  BY <1>1, <1>2, StorageTypeCorrect, OwnershipHolds, PTL
  DEF Spec, Seen, ImplementsLifecycle, Lifecycle!Spec

-----------------------------------------------------------------------------
(***************************************************************************)
(* The retry budget.  Fail reads the counter in one statement and writes   *)
(* it in a later transaction.  What it has read is still true when it      *)
(* writes, because nobody else holds its job and a cascade reaches only    *)
(* jobs that wait.                                                         *)
(***************************************************************************)

\* The counter of a job is below its limit while it may run, and never beyond it
\* if no cascade comes to it.
WithinBudget(j) ==
  /\ j \notin Workflow \/ Parents[j] = {} => attempts[j] <= MaxAttempts[j]
  /\ Live(j) => attempts[j] < MaxAttempts[j]

\* What Fail has read is what is in the row, as long as there is a row.
SeenCurrent ==
  \A w \in Workers : pc[w] = "failtx" /\ Exists(job[w]) =>
    seenAttempts[w] = attempts[job[w]]

Budget == (\A j \in Jobs : WithinBudget(j)) /\ SeenCurrent

\* Steps that count no attempt, but may count one for a job nobody holds, and
\* that revive no job with its counter as it is.
LEMMA QuietBudget ==
  ASSUME TypeOK, Budget,
         \A j \in Jobs :
            \/ WithinBudget(j)'
            \/ /\ attempts'[j] = attempts[j]
               /\ Live(j)' => Live(j),
         \A w \in Workers : pc'[w] = "failtx" =>
            /\ pc[w] = "failtx" /\ job'[w] = job[w]
            /\ seenAttempts'[w] = seenAttempts[w]
            /\ \/ status'[job[w]] = "absent"
               \/ Exists(job[w]) /\ attempts'[job[w]] = attempts[job[w]]
  PROVE  Budget'
<1>1. \A j \in Jobs : WithinBudget(j)'
  BY DEF Budget, WithinBudget
<1>2. SeenCurrent'
  BY DEF Budget, SeenCurrent, Exists
<1> QED
  BY <1>1, <1>2 DEF Budget

\* A descendant that has died is within its budget, however often it was visited:
\* it has parents, and does not run.
LEMMA DeadDescendant ==
  ASSUME Ownership, NEW j, NEW i \in Descendants(j), status'[i] = "dead"
  PROVE  WithinBudget(i)'
<1>1. i \in Jobs /\ deps[i] # {}
  BY DescendantsAreJobs, DescendantsWait
<1>2. i \in Workflow /\ Parents[i] # {}
  BY <1>1 DEF Ownership, DepsDeclared
<1> QED
  BY <1>2 DEF WithinBudget, Live

\* Enqueue calls start a row with no attempt.
LEMMA EnqueueBudget ==
  ASSUME TypeOK, Ownership, Budget,
         \/ \E j \in Jobs : EnqueueStep(j) \/ EnqueueDies(j)
         \/ EnqueueWorkflow
  PROVE  Budget'
<1> USE StorageAssumption, HasJob
<1>1. CASE UNCHANGED <<status, attempts, workerVars>>
  <2>1. \A j \in Jobs : Live(j)' => Live(j)
    BY <1>1 DEF Live
  <2> QED
    BY <1>1, <2>1, QuietBudget DEF workerVars, Exists
<1>2. ASSUME NEW js \in SUBSET Jobs,
             \A j \in js : epc[j] # "done",
             \A j \in Jobs : attempts'[j] = IF j \in js THEN 0 ELSE attempts[j],
             \A j \in Jobs \ js : status'[j] = status[j],
             UNCHANGED workerVars
      PROVE  Budget'
  <2>1. \A j \in Jobs : WithinBudget(j)' \/ (attempts'[j] = attempts[j] /\ (Live(j)' => Live(j)))
    BY <1>2 DEF WithinBudget, Live
  <2>2. \A w \in Workers : pc[w] = "failtx" => job[w] \in Jobs \ js
    BY <1>2 DEF Ownership, HeldJobs
  <2> QED
    BY <1>2, <2>1, <2>2, QuietBudget DEF workerVars, Exists
<1>3. ASSUME NEW j \in Jobs,
             EnqueueInsert(j) \/ EnqueueInBatch(j) \/ TakeoverInBatch(j)
      PROVE  Budget'
  <2>1. \/ UNCHANGED <<status, attempts, workerVars>>
        \/ /\ attempts' = [attempts EXCEPT ![j] = 0]
           /\ status' = [status EXCEPT ![j] = "pending"]
           /\ epc[j] # "done"
           /\ UNCHANGED workerVars
    BY <1>3 DEF EnqueueInsert, EnqueueInBatch, TakeoverInBatch, AddToBatch
  <2>2. ASSUME attempts' = [attempts EXCEPT ![j] = 0],
               status' = [status EXCEPT ![j] = "pending"],
               epc[j] # "done", UNCHANGED workerVars
        PROVE  Budget'
    <3>1. {j} \in SUBSET Jobs
      OBVIOUS
    <3>2. /\ \A i \in Jobs : attempts'[i] = IF i \in {j} THEN 0 ELSE attempts[i]
          /\ \A i \in Jobs \ {j} : status'[i] = status[i]
      BY <2>2 DEF TypeOK, JobTypes
    <3> QED
      BY <1>2, <2>2, <3>1, <3>2
  <2> QED
    BY <1>1, <2>1, <2>2
<1>4. CASE EnqueueWorkflow
  <2>1. \/ UNCHANGED <<status, attempts, workerVars>>
        \/ /\ attempts' = [j \in Jobs |-> IF j \in Workflow THEN 0 ELSE attempts[j]]
           /\ status' = [j \in Jobs |-> IF j \in Workflow THEN FirstStatus(j)
                                        ELSE status[j]]
           /\ UNCHANGED workerVars
    BY <1>4 DEF EnqueueWorkflow
  <2>2. \A j \in Workflow : epc[j] # "done"
    BY <1>4 DEF EnqueueWorkflow
  <2>3. ASSUME attempts' = [j \in Jobs |-> IF j \in Workflow THEN 0 ELSE attempts[j]],
               status' = [j \in Jobs |-> IF j \in Workflow THEN FirstStatus(j)
                                         ELSE status[j]],
               UNCHANGED workerVars
        PROVE  Budget'
    BY <1>2, <2>2, <2>3
  <2> QED
    BY <1>1, <2>1, <2>3
<1> QED
  BY <1>1, <1>3, <1>4
  DEF EnqueueStep, EnqueueLock, EnqueueCheck, EnqueueCollide, EnqueueTakeover,
      EnqueueDies, jobVars

\* Dequeue and PostponeJob move a row between pending and running.
LEMMA FetchBudget ==
  ASSUME TypeOK, Ownership, Budget, NEW w \in Workers,
         \/ Poll(w) \/ DequeueNothing(w) \/ \E j \in Jobs : Dequeue(w, j)
         \/ CheckLimits(w) \/ PostponeJob(w) \/ Perform(w)
  PROVE  Budget'
<1> USE StorageAssumption, HasJob
<1> USE DEF TypeOK, WorkerTypes, JobTypes
<1>1. CASE Poll(w) \/ DequeueNothing(w) \/ CheckLimits(w) \/ Perform(w)
  <2>1. UNCHANGED <<status, attempts, job, seenAttempts>>
    BY <1>1 DEF Poll, DequeueNothing, CheckLimits, Perform, jobVars
  <2>2. \A v \in Workers : pc'[v] = "failtx" => pc[v] = "failtx"
    BY <1>1 DEF Poll, DequeueNothing, CheckLimits, Perform
  <2> QED
    BY <2>1, <2>2, QuietBudget DEF Live, Exists
<1>2. ASSUME NEW j \in Jobs, Dequeue(w, j)
      PROVE  Budget'
  <2>1. /\ status[j] = "pending" /\ status' = [status EXCEPT ![j] = "running"]
        /\ UNCHANGED <<attempts, seenAttempts>>
    BY <1>2 DEF Dequeue, Takeable
  <2>2. \A v \in Workers : pc'[v] = "failtx" =>
           v # w /\ pc[v] = "failtx" /\ job'[v] = job[v]
    BY <1>2 DEF Dequeue
  <2> QED
    BY <2>1, <2>2, QuietBudget DEF Live, Exists
<1>3. CASE PostponeJob(w)
  <2>1. /\ status' = [status EXCEPT ![job[w]] = Requeued(@)]
        /\ UNCHANGED <<attempts, seenAttempts>> /\ job[w] \in Jobs
        /\ status[job[w]] \in {"running", "absent"}
    BY <1>3 DEF PostponeJob, Ownership, HeldJobs
  <2>2. \A v \in Workers : pc'[v] = "failtx" =>
           v # w /\ pc[v] = "failtx" /\ job'[v] = job[v]
    BY <1>3 DEF PostponeJob
  <2> QED
    BY <2>1, <2>2, QuietBudget DEF Live, Requeued, Exists
<1> QED
  BY <1>1, <1>2, <1>3

\* Ack unblocks jobs that wait; Fail counts one attempt more than it has read.
LEMMA FinalizeBudget ==
  ASSUME TypeOK, Ownership, Budget, NEW w \in Workers, Finalize(w)
  PROVE  Budget'
<1> USE StorageAssumption, HasJob
<1> USE DEF TypeOK, WorkerTypes, JobTypes
<1>0. \A v \in Workers \ {w} : job[v] # NoJob => job[v] # job[w]
  BY DEF Ownership, ExclusiveExecution
<1>1. CASE AckRead(w) \/ AckBegin(w) \/ AckResolve(w)
  <2>1. UNCHANGED <<status, attempts, job, seenAttempts>>
    BY <1>1 DEF AckRead, AckBegin, AckResolve, AckDelete, AckCount, jobVars
  <2>2. \A v \in Workers : pc'[v] = "failtx" => pc[v] = "failtx"
    BY <1>1 DEF AckRead, AckBegin, AckResolve, AckDelete, AckCount
  <2> QED
    BY <2>1, <2>2, QuietBudget DEF Live, Exists
<1>2. CASE AckCommit(w)
  <2>1. pc[w] = "ackcount" /\ job[w] \in Jobs /\ deps[job[w]] = {}
    BY <1>2 DEF AckCommit, Ownership, HeldJobs
  <2>2. /\ status' = [i \in Jobs |-> IF status[i] = "absent" THEN "absent"
                                     ELSE IF i \in ready[w] THEN "pending"
                                     ELSE IF i = job[w] THEN "processed" ELSE status[i]]
        /\ UNCHANGED <<attempts, seenAttempts>>
    BY <1>2 DEF AckCommit
  <2>3. \A c \in Jobs \cap ready[w] : status[c] \in {"blocked", "absent"}
    BY <2>1 DEF Ownership, KidsWait, InTransaction, RunnableIsFree, Exists, Statuses
  <2>4. \A i \in Jobs : Live(i)' => Live(i)
    BY <2>2, <2>3 DEF Live
  <2>5. \A v \in Workers : pc'[v] = "failtx" =>
           v # w /\ pc[v] = "failtx" /\ job'[v] = job[v]
    BY <1>2 DEF AckCommit
  <2> QED
    BY <2>2, <2>4, <2>5, QuietBudget DEF Exists
<1>3. CASE FailRead(w)
  <2>1. UNCHANGED <<status, attempts>>
    BY <1>3 DEF FailRead, jobVars
  <2>2. \A j \in Jobs : WithinBudget(j)'
    BY <2>1 DEF Budget, WithinBudget, Live
  <2>3. ASSUME NEW v \in Workers, pc'[v] = "failtx", Exists(job[v])', v # w
        PROVE  seenAttempts'[v] = attempts[job'[v]]
    BY <1>3, <2>1, <2>3 DEF FailRead, Budget, SeenCurrent, Exists
  <2>4. ASSUME pc'[w] = "failtx"
        PROVE  seenAttempts'[w] = attempts[job'[w]]
    BY <1>3, <2>4 DEF FailRead
  <2> QED
    BY <2>1, <2>2, <2>3, <2>4 DEF Budget, SeenCurrent
<1>4. CASE FailRetry(w)
  <2>1. PICK j \in Jobs : j = job[w] /\ status[j] \in {"running", "absent"}
    BY <1>4 DEF FailRetry, Ownership, HeldJobs
  <2>2. /\ pc[w] = "failtx"
        /\ status' = [status EXCEPT ![j] = Requeued(@)]
        /\ attempts' = [attempts EXCEPT ![j] =
                          IF status[j] = "absent" THEN @ ELSE @ + 1]
        /\ ~(seenAttempts[w] + 1 >= MaxAttempts[j])
        /\ UNCHANGED seenAttempts
    BY <1>4, <2>1 DEF FailRetry, Exhausted
  <2>3. WithinBudget(j)' \/ (attempts'[j] = attempts[j] /\ (Live(j)' => Live(j)))
    <3>1. CASE status[j] = "absent"
      BY <2>2, <3>1 DEF Requeued, Live
    <3>2. CASE status[j] = "running"
      <4>1. seenAttempts[w] = attempts[j]
        BY <2>1, <2>2, <3>2 DEF Budget, SeenCurrent, Exists
      <4>2. attempts'[j] = attempts[j] + 1 /\ attempts[j] \in Nat
        BY <2>2, <3>2
      <4>3. MaxAttempts[j] \in Nat
        OBVIOUS
      <4> QED
        BY <2>2, <4>1, <4>2, <4>3 DEF WithinBudget
    <3> QED
      BY <2>1, <3>1, <3>2
  <2>4. \A i \in Jobs \ {j} : status'[i] = status[i] /\ attempts'[i] = attempts[i]
    BY <2>2
  <2>5. \A i \in Jobs : WithinBudget(i)' \/ (attempts'[i] = attempts[i]
                                             /\ (Live(i)' => Live(i)))
    BY <2>3, <2>4 DEF Live
  <2>6. \A v \in Workers : pc'[v] = "failtx" =>
           v # w /\ pc[v] = "failtx" /\ job'[v] = job[v] /\ job[v] \in Jobs \ {j}
    BY <1>0, <1>4, <2>1 DEF FailRetry
  <2> QED
    BY <2>2, <2>4, <2>5, <2>6, QuietBudget DEF Exists
<1>5. CASE FailDead(w)
  <2>1. PICK j \in Jobs : /\ j = job[w] /\ epc[j] = "done"
                          /\ status[j] \in {"running", "absent"} /\ deps[j] = {}
    BY <1>5 DEF FailDead, Ownership, HeldJobs
  <2> DEFINE fallen == Descendants(j) \cup {j}
  <2>2. /\ status' = [i \in Jobs |-> IF i \in fallen /\ Exists(i) THEN "dead"
                                     ELSE status[i]]
        /\ UNCHANGED seenAttempts
    BY <1>5, <2>1 DEF FailDead, Kill
  <2>3. PICK n \in VisitCounts(j) :
          attempts' = [CountVisits(n) EXCEPT ![j] =
                         IF Exists(j) THEN @ + 1 ELSE @]
    BY <1>5, <2>1 DEF FailDead, Kill
  <2>4. \A i \in Jobs : i \in fallen /\ Exists(i) => WithinBudget(i)'
    <3>1. j \notin Descendants(j)
      BY <2>1, DescendantsWait
    <3>2. CountVisits(n)[j] = attempts[j]
      BY <2>1, <3>1, VisitsCounted
    <3>3. Exists(j) => WithinBudget(j)'
      <4>1. SUFFICES ASSUME Exists(j)
                     PROVE  WithinBudget(j)'
        OBVIOUS
      <4>2. attempts[j] < MaxAttempts[j]
        BY <2>1, <4>1 DEF Budget, WithinBudget, Live, Exists
      <4>3. attempts'[j] = attempts[j] + 1
        BY <2>1, <2>3, <3>2, <4>1, VisitsCounted
      <4>4. status'[j] = "dead"
        BY <2>1, <2>2, <4>1
      <4>5. attempts[j] \in Nat /\ MaxAttempts[j] \in Nat
        BY <2>1
      <4>6. attempts'[j] <= MaxAttempts[j]
        BY <4>2, <4>3, <4>5
      <4> QED
        BY <4>4, <4>6 DEF WithinBudget, Live
    <3>4. \A i \in Descendants(j) : Exists(i) => WithinBudget(i)'
      BY <2>2, DescendantsAreJobs, DeadDescendant
    <3> QED
      BY <3>3, <3>4
  <2>5. \A i \in Jobs : ~(i \in fallen /\ Exists(i)) =>
           status'[i] = status[i] /\ attempts'[i] = attempts[i]
    BY <2>1, <2>2, <2>3, VisitsCounted
  <2>6. \A i \in Jobs : WithinBudget(i)' \/ (attempts'[i] = attempts[i]
                                             /\ (Live(i)' => Live(i)))
    BY <2>4, <2>5 DEF Live
  <2>7. \A v \in Workers : pc'[v] = "failtx" =>
           v # w /\ pc[v] = "failtx" /\ job'[v] = job[v] /\ job[v] \in Jobs \ {j}
    BY <1>0, <1>5, <2>1 DEF FailDead
  <2>8. \A v \in Workers : pc[v] = "failtx" => job[v] \notin Descendants(j)
    BY DescendantsWait DEF Ownership, HeldJobs
  <2> HIDE DEF fallen
  <2>9. \A v \in Workers : pc'[v] = "failtx" => job[v] \notin fallen
    BY <2>7, <2>8 DEF fallen
  <2> QED
    BY <2>2, <2>5, <2>6, <2>7, <2>9, QuietBudget DEF Exists
<1> QED
  BY <1>1, <1>2, <1>3, <1>4, <1>5 DEF Finalize

\* Administration without Retry: RetryAllFailed starts over, Cancel cascades.
LEMMA AdminBudget ==
  ASSUME TypeOK, Ownership, Budget, "Retry" \notin AdminOps, AdminStep
  PROVE  Budget'
<1> USE StorageAssumption, HasJob
<1> USE DEF TypeOK, WorkerTypes, JobTypes
<1>1. ASSUME NEW js \in SUBSET Jobs, Remove(js), UNCHANGED <<attempts, workerVars>>
      PROVE  Budget'
  BY <1>1, QuietBudget DEF Remove, workerVars, Live, Exists
<1>2. CASE \/ ClearQueue
           \/ \E js \in SUBSET Jobs \ {{}} :
                BulkCancel(js) \/ BulkPurge(js) \/ PurgeDLQ(js) \/ ArchiveJobs(js)
  BY <1>1, <1>2 DEF ClearQueue, BulkCancel, BulkPurge, PurgeDLQ, ArchiveJobs
<1>3. CASE RetryAllFailed
  <2>1. \A w \in Workers : pc[w] = "failtx" => status[job[w]] # "dead"
    BY DEF Ownership, HeldJobs
  <2>2. /\ status' = [j \in Jobs |-> IF status[j] = "dead" THEN "pending" ELSE status[j]]
        /\ attempts' = [j \in Jobs |-> IF status[j] = "dead" THEN 0 ELSE attempts[j]]
        /\ UNCHANGED workerVars
    BY <1>3 DEF RetryAllFailed, Reset
  <2>3. \A j \in Jobs : WithinBudget(j)' \/ (attempts'[j] = attempts[j]
                                             /\ (Live(j)' => Live(j)))
    BY <2>2 DEF WithinBudget, Live
  <2>4. \A w \in Workers : pc[w] = "failtx" => job[w] \in Jobs
    OBVIOUS
  <2> QED
    BY <2>1, <2>2, <2>3, <2>4, QuietBudget DEF workerVars, Exists
<1>4. ASSUME NEW j \in Jobs, Cancel(j)
      PROVE  Budget'
  <2>1. /\ status' = [i \in Jobs |-> IF i = j THEN "absent"
                                     ELSE IF i \in Descendants(j) /\ Exists(i)
                                     THEN "dead" ELSE status[i]]
        /\ UNCHANGED workerVars
    BY <1>4 DEF Cancel
  <2>2. PICK n \in VisitCounts(j) : attempts' = CountVisits(n)
    BY <1>4 DEF Cancel
  <2>3. \A i \in Jobs : i \in Descendants(j) \ {j} /\ Exists(i) => WithinBudget(i)'
    BY <2>1, DeadDescendant
  <2>4. \A i \in Jobs : ~(i \in Descendants(j) \ {j} /\ Exists(i)) =>
           /\ status'[i] \in {status[i], "absent"}
           /\ i # j => attempts'[i] = attempts[i]
    BY <2>1, <2>2, VisitsCounted
  <2>5. \A i \in Jobs : WithinBudget(i)' \/ (attempts'[i] = attempts[i]
                                             /\ (Live(i)' => Live(i)))
    <3>1. CASE j \notin Descendants(j)
      <4>1. attempts'[j] = attempts[j] /\ status'[j] = "absent"
        BY <2>1, <2>2, <3>1, VisitsCounted
      <4> QED
        BY <2>3, <2>4, <4>1 DEF Live
    <3>2. CASE j \in Descendants(j)
      <4>1. j \in Workflow /\ Parents[j] # {}
        BY <3>2, DescendantsWait DEF Ownership, DepsDeclared
      <4>2. WithinBudget(j)'
        BY <2>1, <4>1 DEF WithinBudget, Live
      <4> QED
        BY <2>3, <2>4, <4>2 DEF Live
    <3> QED
      BY <3>1, <3>2
  <2>6. \A v \in Workers : pc[v] = "failtx" => job[v] \notin Descendants(j)
    BY DescendantsWait DEF Ownership, HeldJobs
  <2> QED
    BY <2>1, <2>4, <2>5, <2>6, QuietBudget DEF workerVars, Exists
<1>5. ASSUME NEW value \in BOOLEAN, SetPaused(value)
      PROVE  Budget'
  BY <1>5, QuietBudget DEF SetPaused, jobVars, workerVars, Live, Exists
<1>6. \A js : ~BulkRetry(js)
  BY DEF BulkRetry, Admin
<1> QED
  BY <1>2, <1>3, <1>4, <1>5, <1>6 DEF AdminStep

\* Faults, batches and stuttering count no attempt.
LEMMA OtherBudget ==
  ASSUME TypeOK, Budget,
         \/ \E w \in Workers : Shutdown(w) \/ CallFails(w) \/ Crash(w)
         \/ \E j \in Jobs : LockExpires(j)
         \/ \E b \in Batches : BatchExpires(b) \/ CreateBatch(b) \/ SubmitBatch(b)
         \/ FailExpiredBatches \/ AtRest \/ UNCHANGED vars
  PROVE  Budget'
<1> USE DEF TypeOK, WorkerTypes
<1>1. UNCHANGED <<status, attempts, seenAttempts>>
  BY DEF Shutdown, CallFails, Crash, LockExpires, BatchExpires, CreateBatch,
         SubmitBatch, FailExpiredBatches, AtRest, vars, jobVars, workerVars
<1>2. \A v \in Workers : pc'[v] = "failtx" => pc[v] = "failtx" /\ job'[v] = job[v]
  BY DEF Shutdown, CallFails, Crash, LockExpires, BatchExpires, CreateBatch,
         SubmitBatch, FailExpiredBatches, AtRest, vars, workerVars
<1> QED
  BY <1>1, <1>2, QuietBudget DEF Live, Exists

\* With crashes, cancelled contexts and every administration call but Retry, a
\* job that waits to be run again has attempts left, for any number of jobs,
\* workers and attempts; one without dependencies never counts more than it has.
\* (A cascade counts a job at every visit, so one with dependencies may.)
THEOREM AttemptsWithinBudget ==
  ASSUME SafeUnblocking, "Retry" \notin AdminOps
  PROVE  Spec => []RetryBudget
<1>1. Init => Budget
  BY StorageAssumption
  DEF Init, Budget, WithinBudget, Live, SeenCurrent
<1>2. TypeOK /\ Ownership /\ Budget /\ [Next]_vars => Budget'
  BY EnqueueBudget, FetchBudget, FinalizeBudget, AdminBudget, OtherBudget
  DEF Next, WorkerStep, FaultStep
<1>3. Budget => RetryBudget
  BY DEF Budget, WithinBudget, RetryBudget, Live
<1> QED
  BY <1>1, <1>2, <1>3, StorageTypeCorrect, OwnershipHolds, PTL DEF Spec

-----------------------------------------------------------------------------
(***************************************************************************)
(* What each kind of step leaves alone.                                    *)
(***************************************************************************)

\* Workers enqueue nothing and submit no batch; only the commit of an Ack counts.
LEMMA WorkerFrame ==
  ASSUME NEW w \in Workers, WorkerStep(w) \/ Shutdown(w) \/ CallFails(w) \/ Crash(w)
  PROVE  /\ UNCHANGED <<epc, holder, submits, sealedWith>>
         /\ ~AckCommit(w) => UNCHANGED <<bpending, callbacks, acked>>
<1>1. CASE \/ Poll(w) \/ DequeueNothing(w) \/ CheckLimits(w) \/ PostponeJob(w) \/ Perform(w)
           \/ \E j \in Jobs : Dequeue(w, j)
  BY <1>1 DEF Poll, DequeueNothing, CheckLimits, PostponeJob, Perform, Dequeue,
              enqVars, batchVars
<1>2. CASE AckRead(w) \/ AckBegin(w) \/ AckResolve(w) \/ FailRead(w) \/ FailRetry(w)
  BY <1>2 DEF AckRead, AckBegin, AckResolve, AckDelete, AckCount, FailRead, FailRetry, enqVars, batchVars
<1>3. CASE AckCommit(w)
  BY <1>3 DEF AckCommit, enqVars
<1>4. CASE FailDead(w)
  BY <1>4 DEF FailDead, enqVars
<1>5. CASE Shutdown(w) \/ CallFails(w) \/ Crash(w)
  BY <1>5 DEF Shutdown, CallFails, Crash, enqVars, batchVars
<1> QED
  BY <1>1, <1>2, <1>3, <1>4, <1>5 DEF WorkerStep, Finalize

\* Administration works on rows, locks and the status of batches only.
LEMMA AdminFrame ==
  ASSUME AdminStep
  PROVE  UNCHANGED <<epc, holder, bpending, callbacks, submits, sealedWith, acked>>
<1>1. CASE \E j \in Jobs : Cancel(j)
  BY <1>1 DEF Cancel, enqVars
<1>2. CASE RetryAllFailed \/ ClearQueue \/ \E value \in BOOLEAN : SetPaused(value)
  BY <1>2 DEF RetryAllFailed, Reset, ClearQueue, SetPaused, enqVars, batchVars
<1>3. ASSUME NEW js \in SUBSET Jobs, BulkRetry(js) \/ BulkCancel(js) \/ BulkPurge(js)
      PROVE  UNCHANGED <<epc, holder, bpending, callbacks, submits, sealedWith, acked>>
  BY <1>3 DEF BulkRetry, Reset, BulkCancel, BulkPurge, enqVars, batchVars
<1>4. ASSUME NEW js \in SUBSET Jobs, PurgeDLQ(js) \/ ArchiveJobs(js)
      PROVE  UNCHANGED <<epc, holder, bpending, callbacks, submits, sealedWith, acked>>
  BY <1>4 DEF PurgeDLQ, ArchiveJobs, enqVars, batchVars
<1> QED
  BY <1>1, <1>2, <1>3, <1>4 DEF AdminStep

\* Enqueue calls acknowledge nothing, submit nothing, and stay done.
LEMMA EnqueueFrame ==
  ASSUME TypeOK,
         EnqueueWorkflow \/ \E j \in Jobs : EnqueueStep(j) \/ EnqueueDies(j)
  PROVE  /\ UNCHANGED <<callbacks, submits, sealedWith, acked>>
         /\ \A i \in Jobs : epc[i] = "done" => epc'[i] = "done"
<1> USE StorageAssumption DEF TypeOK, EnqueueTypes
<1>1. CASE EnqueueWorkflow
  <2>1. \A i \in Jobs : epc'[i] = epc[i] \/ epc[i] = "new"
    BY <1>1 DEF EnqueueWorkflow
  <2> QED
    BY <1>1, <2>1 DEF EnqueueWorkflow, batchVars
<1>2. ASSUME NEW j \in Jobs, EnqueueStep(j) \/ EnqueueDies(j)
      PROVE  /\ UNCHANGED <<callbacks, submits, sealedWith, acked>>
             /\ \A i \in Jobs : epc[i] = "done" => epc'[i] = "done"
  <2>1. UNCHANGED <<callbacks, submits, sealedWith, acked>>
    BY <1>2 DEF EnqueueStep, EnqueueLock, EnqueueCheck, EnqueueCollide, EnqueueTakeover,
                EnqueueInsert, EnqueueInBatch, TakeoverInBatch, AddToBatch, EnqueueDies, batchVars
  <2>2. epc[j] # "done" /\ \A i \in Jobs \ {j} : epc'[i] = epc[i]
    BY <1>2 DEF EnqueueStep, EnqueueLock, EnqueueCheck, EnqueueCollide, EnqueueTakeover,
                EnqueueInsert, EnqueueInBatch, TakeoverInBatch, AddToBatch, EnqueueDies
  <2> QED
    BY <2>1, <2>2
<1> QED
  BY <1>1, <1>2

-----------------------------------------------------------------------------
(***************************************************************************)
(* Callbacks of batches.                                                   *)
(***************************************************************************)

\* A sealed batch has a Submit that has not led to its callback yet.
CallbackCredit ==
  /\ CallbackOnce
  /\ \A b \in Batches : bstatus[b] = "sealed" => callbacks[b] < submits[b]

\* Steps that seal no batch and insert no callback.
LEMMA QuietCredit ==
  ASSUME TypeOK, CallbackCredit, UNCHANGED <<callbacks, submits>>,
         \A b \in Batches : bstatus'[b] = "sealed" => bstatus[b] = "sealed"
  PROVE  CallbackCredit'
BY DEF CallbackCredit, CallbackOnce

\* The steps on the batch row: Submit pays for one callback, handleBatchAck
\* inserts it and leaves the batch completed.
LEMMA BatchCredit ==
  ASSUME TypeOK, CallbackCredit, NEW b \in Batches,
         \/ SubmitBatch(b)
         \/ HandleBatchAck(b) /\ UNCHANGED submits
  PROVE  CallbackCredit'
<1> USE DEF TypeOK, BatchTypes, BatchStatuses
<1>1. ASSUME NEW d \in Batches \ {b}
      PROVE  callbacks'[d] = callbacks[d] /\ submits'[d] = submits[d] /\ bstatus'[d] = bstatus[d]
  BY <1>1 DEF SubmitBatch, HandleBatchAck
<1>2. CASE SubmitBatch(b)
  <2>1. submits'[b] = submits[b] + 1
    BY <1>2 DEF SubmitBatch
  <2>2. \/ callbacks'[b] = callbacks[b]
        \/ callbacks'[b] = callbacks[b] + 1 /\ bstatus'[b] = "completed"
    BY <1>2 DEF SubmitBatch
  <2> QED
    BY <1>1, <2>1, <2>2 DEF CallbackCredit, CallbackOnce
<1>3. CASE HandleBatchAck(b) /\ UNCHANGED submits
  <2>1. \/ callbacks'[b] = callbacks[b] /\ bstatus'[b] \in {bstatus[b], "failed"}
        \/ /\ callbacks'[b] = callbacks[b] + 1
           /\ bstatus[b] = "sealed" /\ bstatus'[b] = "completed"
    BY <1>3 DEF HandleBatchAck
  <2> QED
    BY <1>1, <1>3, <2>1 DEF CallbackCredit, CallbackOnce
<1> QED
  BY <1>2, <1>3

\* Failing the batches of dead jobs seals none.
LEMMA FailBatchesCredit ==
  ASSUME TypeOK, CallbackCredit, NEW js, bstatus' = FailBatches(js),
         UNCHANGED <<callbacks, submits>>
  PROVE  CallbackCredit'
BY QuietCredit DEF FailBatches

\* Every other step leaves the callbacks and seals nothing.
LEMMA NextCredit == TypeOK /\ CallbackCredit /\ [Next]_vars => CallbackCredit'
<1> SUFFICES ASSUME TypeOK, CallbackCredit, [Next]_vars
             PROVE  CallbackCredit'
  OBVIOUS
<1> USE StorageAssumption
<1>1. ASSUME UNCHANGED batchVars
      PROVE  CallbackCredit'
  BY <1>1, QuietCredit DEF batchVars
<1>2. ASSUME NEW j \in Jobs, EnqueueStep(j) \/ EnqueueDies(j) \/ LockExpires(j)
      PROVE  CallbackCredit'
  BY <1>1, <1>2, QuietCredit
  DEF EnqueueStep, EnqueueLock, EnqueueCheck, EnqueueCollide, EnqueueTakeover,
      EnqueueInsert, EnqueueInBatch, TakeoverInBatch, AddToBatch, EnqueueDies, LockExpires
<1>3. ASSUME NEW b \in Batches, CreateBatch(b) \/ SubmitBatch(b) \/ BatchExpires(b)
      PROVE  CallbackCredit'
  BY <1>3, QuietCredit, BatchCredit DEF CreateBatch, BatchExpires, TypeOK, BatchTypes
<1>4. CASE FailExpiredBatches
  BY <1>4, QuietCredit DEF FailExpiredBatches
<1>5. ASSUME NEW w \in Workers, WorkerStep(w) \/ Shutdown(w) \/ CallFails(w) \/ Crash(w)
      PROVE  CallbackCredit'
  <2>1. CASE AckCommit(w)
    <3>1. job[w] \in Jobs
      BY <2>1, HasJob DEF AckCommit
    <3>2. CASE seenRow[w] /\ BatchOf[job[w]] # NoBatch
      BY <2>1, <3>1, <3>2, BatchCredit DEF AckCommit
    <3>3. CASE ~(seenRow[w] /\ BatchOf[job[w]] # NoBatch)
      BY <2>1, <3>3, QuietCredit DEF AckCommit
    <3> QED
      BY <3>2, <3>3
  <2>2. CASE FailDead(w)
    BY <2>2, FailBatchesCredit DEF FailDead
  <2>3. CASE ~AckCommit(w) /\ ~FailDead(w)
    <3>1. UNCHANGED batchVars
      BY <1>5, <2>3
      DEF WorkerStep, Finalize, Poll, DequeueNothing, Dequeue, CheckLimits,
          PostponeJob, Perform, AckRead, AckBegin, AckResolve, AckDelete, AckCount, FailRead,
          FailRetry, Shutdown, CallFails, Crash
    <3> QED
      BY <1>1, <3>1
  <2> QED
    BY <2>1, <2>2, <2>3
<1>6. CASE AdminStep
  <2>1. ASSUME NEW j \in Jobs, Cancel(j)
        PROVE  CallbackCredit'
    BY <2>1, FailBatchesCredit DEF Cancel
  <2>2. CASE \A j \in Jobs : ~Cancel(j)
    <3>1. UNCHANGED batchVars
      BY <1>6, <2>2
      DEF AdminStep, BulkRetry, RetryAllFailed, Reset, BulkCancel, BulkPurge,
          ClearQueue, PurgeDLQ, ArchiveJobs, SetPaused
    <3> QED
      BY <1>1, <3>1
  <2> QED
    BY <2>1, <2>2
<1>7. CASE EnqueueWorkflow \/ AtRest \/ UNCHANGED vars
  BY <1>1, <1>7 DEF EnqueueWorkflow, AtRest, vars
<1> QED
  BY <1>2, <1>3, <1>4, <1>5, <1>6, <1>7 DEF Next, FaultStep

\* Every callback is paid for by a call of Submit, with any faults and any
\* administration: the last Ack and a Submit never both insert it.
THEOREM CallbackPaidFor == Spec => []CallbackOnce
<1>1. Init => CallbackCredit
  BY DEF Init, CallbackCredit, CallbackOnce
<1>2. CallbackCredit => CallbackOnce
  BY DEF CallbackCredit
<1> QED
  BY <1>1, <1>2, NextCredit, StorageTypeCorrect, PTL DEF Spec

-----------------------------------------------------------------------------
(***************************************************************************)
(* What a held job can rely on when administration leaves the rows of      *)
(* unfinished jobs alone.                                                  *)
(***************************************************************************)

\* Only finished and dead jobs are removed, and only dead ones are retried.
LeavesUnfinished ==
  AdminOps \subseteq {"RetryAllFailed", "PurgeAllFailed", "ArchiveJobs", "Pause"}

\* The row of a held job says that it runs; an Ack has read its row; a job that
\* was acknowledged has finished and is not started again.
Standing ==
  /\ \A w \in Workers : job[w] # NoJob => status[job[w]] = "running"
  /\ \A w \in Workers : pc[w] \in {"acktx", "ackkids", "ackcount"} => seenRow[w]
  /\ \A j \in Jobs : acked[j] > 0 =>
        epc[j] = "done" /\ status[j] \in {"processed", "absent"}

\* Steps that acknowledge nothing, start no finished job and leave the rows of
\* the jobs that stay held.
LEMMA QuietStanding ==
  ASSUME TypeOK, Standing,
         \A w \in Workers : job'[w] # NoJob =>
            job'[w] = job[w] /\ status'[job[w]] = "running",
         \A w \in Workers : pc'[w] \in {"acktx", "ackkids", "ackcount"} =>
            pc[w] \in {"acktx", "ackkids", "ackcount"} /\ seenRow'[w] = seenRow[w],
         UNCHANGED acked,
         \A j \in Jobs : epc[j] = "done" => epc'[j] = "done",
         \A j \in Jobs : epc[j] = "done" /\ status[j] \in {"processed", "absent"} =>
            status'[j] \in {status[j], "absent"}
  PROVE  Standing'
BY DEF Standing

\* Enqueue calls write rows of jobs that nobody holds or has acknowledged.
LEMMA EnqueueStanding ==
  ASSUME TypeOK, Ownership, Standing,
         \/ \E j \in Jobs : EnqueueStep(j) \/ EnqueueDies(j)
         \/ EnqueueWorkflow
  PROVE  Standing'
<1> USE StorageAssumption
<1> USE DEF TypeOK, JobTypes, EnqueueTypes
<1>1. ASSUME \A i \in Jobs : epc[i] = "done" => epc'[i] = "done" /\ status'[i] = status[i],
             UNCHANGED <<workerVars, acked>>
      PROVE  Standing'
  BY <1>1, QuietStanding DEF Ownership, HeldJobs, workerVars, Standing, WorkerTypes
<1>2. ASSUME NEW j \in Jobs, EnqueueStep(j) \/ EnqueueDies(j)
      PROVE  Standing'
  BY <1>1, <1>2
  DEF EnqueueStep, EnqueueLock, EnqueueCheck, EnqueueCollide, EnqueueTakeover,
      EnqueueInsert, EnqueueInBatch, TakeoverInBatch, AddToBatch, EnqueueDies, jobVars
<1>3. CASE EnqueueWorkflow
  BY <1>1, <1>3 DEF EnqueueWorkflow
<1> QED
  BY <1>2, <1>3

\* Dequeue takes a pending job; the job PostponeJob gives back is dropped.
LEMMA FetchStanding ==
  ASSUME TypeOK, Ownership, Standing, NEW w \in Workers,
         \/ Poll(w) \/ DequeueNothing(w) \/ \E j \in Jobs : Dequeue(w, j)
         \/ CheckLimits(w) \/ PostponeJob(w) \/ Perform(w)
  PROVE  Standing'
<1> USE StorageAssumption, HasJob
<1> USE DEF TypeOK, JobTypes, WorkerTypes
<1>1. CASE Poll(w) \/ DequeueNothing(w) \/ CheckLimits(w) \/ Perform(w)
  <2>1. UNCHANGED <<status, job, seenRow, epc, acked>>
    BY <1>1 DEF Poll, DequeueNothing, CheckLimits, Perform, jobVars, enqVars
  <2>2. \A v \in Workers : pc'[v] \in {"acktx", "ackkids", "ackcount"} => pc'[v] = pc[v]
    BY <1>1 DEF Poll, DequeueNothing, CheckLimits, Perform
  <2> QED
    BY <2>1, <2>2, QuietStanding DEF Standing
<1>2. ASSUME NEW j \in Jobs, Dequeue(w, j)
      PROVE  Standing'
  <2>1. /\ status[j] = "pending" /\ status' = [status EXCEPT ![j] = "running"]
        /\ job' = [job EXCEPT ![w] = j]
        /\ UNCHANGED <<seenRow, epc, acked>>
    BY <1>2 DEF Dequeue, Takeable, enqVars
  <2>2. \A v \in Workers : pc'[v] \in {"acktx", "ackkids", "ackcount"} => pc'[v] = pc[v]
    BY <1>2 DEF Dequeue
  <2> QED
    BY <2>1, <2>2 DEF Standing
<1>3. CASE PostponeJob(w)
  <2>1. PICK j \in Jobs : j = job[w] /\ status[j] = "running"
    BY <1>3 DEF PostponeJob, Standing
  <2>2. /\ status' = [status EXCEPT ![j] = "pending"]
        /\ job' = [job EXCEPT ![w] = NoJob]
        /\ UNCHANGED <<seenRow, epc, acked>>
    BY <1>3, <2>1 DEF PostponeJob, Requeued, enqVars
  <2>3. \A v \in Workers \ {w} : job[v] # j
    BY <2>1 DEF Ownership, ExclusiveExecution
  <2>4. \A v \in Workers : pc'[v] \in {"acktx", "ackkids", "ackcount"} => pc'[v] = pc[v]
    BY <1>3 DEF PostponeJob
  <2> QED
    BY <2>1, <2>2, <2>3, <2>4, QuietStanding DEF Standing
<1> QED
  BY <1>1, <1>2, <1>3

\* The steps before the commit of an Ack, and Fail.
LEMMA FailStanding ==
  ASSUME TypeOK, Ownership, Standing, NEW w \in Workers,
         \/ AckRead(w) \/ AckBegin(w) \/ AckResolve(w)
         \/ FailRead(w) \/ FailRetry(w) \/ FailDead(w)
  PROVE  Standing'
<1> USE StorageAssumption, HasJob
<1> USE DEF TypeOK, JobTypes, WorkerTypes
<1>1. CASE AckRead(w)
  <2>1. /\ pc' = [pc EXCEPT ![w] = "acktx"]
        /\ seenRow' = [seenRow EXCEPT ![w] = TRUE]
        /\ UNCHANGED <<status, job, epc, acked>>
    BY <1>1 DEF AckRead, Standing, Exists, jobVars, enqVars
  <2> QED
    BY <2>1 DEF Standing
<1>2. CASE AckBegin(w) \/ AckResolve(w)
  <2>1. /\ UNCHANGED <<status, job, seenRow, epc, acked>>
        /\ \A v \in Workers : pc'[v] \in {"acktx", "ackkids", "ackcount"} =>
              pc[v] \in {"acktx", "ackkids", "ackcount"}
    BY <1>2 DEF AckBegin, AckResolve, AckDelete, AckCount, jobVars, enqVars
  <2> QED
    BY <2>1, QuietStanding DEF Standing
<1>3. CASE FailRead(w)
  <2>1. /\ UNCHANGED <<status, job, seenRow, epc, acked>>
        /\ \A v \in Workers : pc'[v] \in {"acktx", "ackkids", "ackcount"} => pc'[v] = pc[v]
    BY <1>3 DEF FailRead, Standing, Exists, jobVars, enqVars
  <2> QED
    BY <2>1, QuietStanding DEF Standing
<1>4. CASE FailRetry(w) \/ FailDead(w)
  <2>1. PICK j \in Jobs : j = job[w] /\ status[j] = "running" /\ deps[j] = {}
    BY <1>4 DEF FailRetry, FailDead, Standing, Ownership, HeldJobs
  <2>2. /\ pc' = [pc EXCEPT ![w] = "idle"]
        /\ job' = [job EXCEPT ![w] = NoJob]
        /\ UNCHANGED <<seenRow, epc, acked>>
    BY <1>4 DEF FailRetry, FailDead, enqVars
  <2>3. \A v \in Workers \ {w} : job[v] # NoJob => job[v] # j
    BY <2>1 DEF Ownership, ExclusiveExecution
  <2>4. \A i \in Jobs \ {j} : status'[i] # status[i] =>
           Exists(i) /\ i \in Descendants(j)
    BY <1>4, <2>1 DEF FailRetry, FailDead, Kill
  <2>5. \A i \in Jobs \ {j} : status'[i] # status[i] => LifecycleOf(i) = "waiting"
    BY <2>4, CascadeWaits
  <2>6. \A i \in Jobs \ {j} : status[i] \in {"running", "processed", "absent"}
                              => status'[i] = status[i]
    BY <2>5, SeenState
  <2> QED
    BY <2>1, <2>2, <2>3, <2>6, QuietStanding DEF Standing
<1> QED
  BY <1>1, <1>2, <1>3, <1>4

\* The commit of an Ack: the job has a row, it has finished now, and the children
\* that become pending were blocked.
LEMMA CommitStanding ==
  ASSUME TypeOK, Ownership, Standing, NEW w \in Workers, AckCommit(w)
  PROVE  /\ Standing'
         /\ job[w] \in Jobs /\ acked[job[w]] = 0 /\ epc[job[w]] = "done"
         /\ seenRow[w]
<1> USE StorageAssumption, HasJob
<1> USE DEF TypeOK, JobTypes, WorkerTypes
<1>1. PICK j \in Jobs : /\ j = job[w] /\ status[j] = "running"
                        /\ deps[j] = {} /\ epc[j] = "done"
  BY DEF AckCommit, Standing, Ownership, HeldJobs
<1>2. acked[j] = 0 /\ seenRow[w]
  <2>1. acked[j] \in Nat /\ ~(acked[j] > 0)
    BY <1>1 DEF Standing
  <2>2. pc[w] = "ackcount"
    BY DEF AckCommit
  <2> QED
    BY <2>1, <2>2 DEF Standing
<1>3. /\ status' = [i \in Jobs |-> IF status[i] = "absent" THEN "absent"
                                   ELSE IF i \in ready[w] THEN "pending"
                                   ELSE IF i = j THEN "processed" ELSE status[i]]
      /\ acked' = [acked EXCEPT ![j] = @ + 1]
      /\ pc' = [pc EXCEPT ![w] = "idle"]
      /\ job' = [job EXCEPT ![w] = NoJob]
      /\ UNCHANGED <<seenRow, epc>>
  BY <1>1 DEF AckCommit, enqVars
<1>4. \A c \in ready[w] : Exists(c) => j \in deps[c]
  BY <1>1 DEF AckCommit, Ownership, KidsWait, InTransaction
<1>5. j \notin ready[w] /\ \A c \in Jobs \cap ready[w] : status[c] \in {"blocked", "absent"}
  BY <1>1, <1>4 DEF Ownership, RunnableIsFree, Exists, Statuses
<1>6. \A v \in Workers \ {w} : job[v] # NoJob => job[v] # j
  BY <1>1 DEF Ownership, ExclusiveExecution
<1>7. \A v \in Workers : job'[v] # NoJob => v # w /\ job'[v] = job[v] /\ job[v] \in Jobs \ {j}
  BY <1>3, <1>6
<1>8. \A v \in Workers : job'[v] # NoJob => status'[job'[v]] = "running"
  BY <1>3, <1>5, <1>7 DEF Standing
<1>9. \A v \in Workers : pc'[v] \in {"acktx", "ackkids", "ackcount"} => seenRow'[v]
  BY <1>3 DEF Standing
<1>10. \A i \in Jobs : acked'[i] > 0 =>
          epc'[i] = "done" /\ status'[i] \in {"processed", "absent"}
  BY <1>1, <1>3, <1>5 DEF Standing
<1> QED
  BY <1>1, <1>2, <1>8, <1>9, <1>10 DEF Standing

\* Administration that leaves unfinished jobs alone, faults, batches, stuttering.
LEMMA OtherStanding ==
  ASSUME TypeOK, Standing, LeavesUnfinished,
         \/ AdminStep
         \/ \E w \in Workers : Shutdown(w) \/ CallFails(w) \/ Crash(w)
         \/ \E j \in Jobs : LockExpires(j)
         \/ \E b \in Batches : BatchExpires(b) \/ CreateBatch(b) \/ SubmitBatch(b)
         \/ FailExpiredBatches \/ AtRest \/ UNCHANGED vars
  PROVE  Standing'
<1> USE StorageAssumption
<1> USE DEF TypeOK, JobTypes, WorkerTypes
<1>1. CASE AdminStep
  <2>1. /\ \A js : ~BulkRetry(js) /\ ~BulkCancel(js) /\ ~BulkPurge(js)
        /\ \A j : ~Cancel(j)
        /\ ~ClearQueue
    BY DEF LeavesUnfinished, BulkRetry, BulkCancel, BulkPurge, Cancel, ClearQueue, Admin
  <2>2. \A j \in Jobs : status[j] \notin {"processed", "dead"} => status'[j] = status[j]
    BY <1>1, <2>1 DEF AdminStep, PurgeDLQ, ArchiveJobs, Remove, RetryAllFailed,
                      Reset, SetPaused, jobVars
  <2>3. \A j \in Jobs : status[j] = "processed" => status'[j] \in {status[j], "absent"}
    BY <1>1, <2>1 DEF AdminStep, PurgeDLQ, ArchiveJobs, Remove, RetryAllFailed,
                      Reset, SetPaused, jobVars
  <2>4. UNCHANGED <<workerVars, epc, acked>>
    BY <1>1, <2>1 DEF AdminStep, PurgeDLQ, ArchiveJobs, RetryAllFailed, Reset,
                      SetPaused, enqVars
  <2> QED
    BY <2>2, <2>3, <2>4, QuietStanding DEF Standing, workerVars
<1>2. CASE ~AdminStep
  <2>1. UNCHANGED <<status, epc, acked, seenRow>>
    BY <1>2 DEF Shutdown, CallFails, Crash, LockExpires, BatchExpires, CreateBatch,
                SubmitBatch, FailExpiredBatches, AtRest, vars, jobVars, enqVars, workerVars
  <2>2. /\ \A w \in Workers : job'[w] \in {job[w], NoJob}
        /\ \A w \in Workers : pc'[w] \in {"acktx", "ackkids", "ackcount"} => pc'[w] = pc[w]
    BY <1>2 DEF Shutdown, CallFails, Crash, LockExpires, BatchExpires, CreateBatch,
                SubmitBatch, FailExpiredBatches, AtRest, vars, workerVars
  <2> QED
    BY <2>1, <2>2, QuietStanding DEF Standing
<1> QED
  BY <1>1, <1>2

\* Standing is an invariant.
LEMMA StandingHolds ==
  ASSUME SafeUnblocking, LeavesUnfinished
  PROVE  Spec => [](TypeOK /\ Ownership /\ Standing)
<1>1. "Retry" \notin AdminOps
  BY DEF LeavesUnfinished
<1>2. Init => Standing
  BY StorageAssumption DEF Init, Standing
<1>3. TypeOK /\ Ownership /\ Standing /\ [Next]_vars => Standing'
  BY EnqueueStanding, FetchStanding, FailStanding, CommitStanding, OtherStanding
  DEF Next, WorkerStep, Finalize, FaultStep
<1> QED
  BY <1>1, <1>2, <1>3, StorageTypeCorrect, OwnershipHolds, PTL DEF Spec

-----------------------------------------------------------------------------
(***************************************************************************)
(* Statement by statement: where an enqueue call may be.                   *)
(***************************************************************************)

\* No row appears, and locks are only deleted.
NoNewRows ==
  /\ \A j \in Jobs : status[j] = "absent" => status'[j] = "absent"
  /\ \A k \in Keys : lock'[k] \in {lock[k], NoJob}

\* Workers, administration, faults and batches create no row, and only delete locks.
LEMMA LocksLeft ==
  ASSUME TypeOK,
         \/ \E w \in Workers :
              WorkerStep(w) \/ Shutdown(w) \/ CallFails(w) \/ Crash(w)
         \/ AdminStep
         \/ \E j \in Jobs : LockExpires(j)
         \/ \E b \in Batches : BatchExpires(b) \/ CreateBatch(b) \/ SubmitBatch(b)
         \/ FailExpiredBatches \/ AtRest \/ UNCHANGED vars
  PROVE  UNCHANGED enqVars /\ NoNewRows
<1> USE StorageAssumption, HasJob
<1> USE DEF TypeOK, LockTypes, JobTypes, NoNewRows
<1>1. ASSUME NEW w \in Workers,
             WorkerStep(w) \/ Shutdown(w) \/ CallFails(w) \/ Crash(w)
      PROVE  UNCHANGED enqVars /\ NoNewRows
  <2>1. UNCHANGED enqVars
    BY <1>1, WorkerFrame DEF enqVars
  <2>2. CASE AckCommit(w)
    <3>1. \A j \in Jobs : status[j] = "absent" => status'[j] = "absent"
      BY <2>2 DEF AckCommit
    <3>2. \A k \in Keys : lock'[k] \in {lock[k], NoJob}
      BY <2>2 DEF AckCommit, DeleteLocks
    <3> QED
      BY <2>1, <3>1, <3>2
  <2>3. CASE FailDead(w)
    <3>1. \A j \in Jobs : status[j] = "absent" => status'[j] = "absent"
      BY <2>3 DEF FailDead, Kill, Exists
    <3>2. \A k \in Keys : lock'[k] \in {lock[k], NoJob}
      BY <2>3 DEF FailDead, DeleteLocks
    <3> QED
      BY <2>1, <3>1, <3>2
  <2>4. CASE PostponeJob(w) \/ FailRetry(w)
    <3>1. \A j \in Jobs : status[j] = "absent" => status'[j] = "absent"
      BY <2>4 DEF PostponeJob, FailRetry, Requeued
    <3> QED
      BY <2>1, <2>4, <3>1 DEF PostponeJob, FailRetry, lockVars
  <2>5. ASSUME NEW j \in Jobs, Dequeue(w, j)
        PROVE  UNCHANGED enqVars /\ NoNewRows
    BY <2>1, <2>5 DEF Dequeue, Takeable, lockVars
  <2>6. CASE \/ Poll(w) \/ DequeueNothing(w) \/ CheckLimits(w) \/ Perform(w)
             \/ AckRead(w) \/ AckBegin(w) \/ AckResolve(w) \/ FailRead(w)
             \/ Shutdown(w) \/ CallFails(w) \/ Crash(w)
    <3>1. UNCHANGED <<status, lock>>
      BY <2>6 DEF Poll, DequeueNothing, CheckLimits, Perform, AckRead, AckBegin,
                  AckResolve, AckDelete, AckCount, FailRead, Shutdown, CallFails, Crash, jobVars, lockVars
    <3> QED
      BY <2>1, <3>1
  <2> QED
    BY <1>1, <2>2, <2>3, <2>4, <2>5, <2>6 DEF WorkerStep, Finalize
<1>2. CASE AdminStep
  <2>1. UNCHANGED enqVars
    BY <1>2, AdminFrame DEF enqVars
  <2>2. ASSUME NEW j \in Jobs, Cancel(j)
        PROVE  UNCHANGED enqVars /\ NoNewRows
    <3>1. \A i \in Jobs : status[i] = "absent" => status'[i] = "absent"
      BY <2>2 DEF Cancel, Exists
    <3>2. \A k \in Keys : lock'[k] \in {lock[k], NoJob}
      BY <2>2 DEF Cancel, DeleteLocks
    <3> QED
      BY <2>1, <3>1, <3>2
  <2>3. ASSUME NEW js \in SUBSET Jobs,
               \/ BulkRetry(js) \/ BulkCancel(js) \/ BulkPurge(js)
               \/ PurgeDLQ(js) \/ ArchiveJobs(js)
        PROVE  UNCHANGED enqVars /\ NoNewRows
    <3>1. \A i \in Jobs : status[i] = "absent" => status'[i] = "absent"
      BY <2>3 DEF BulkRetry, Reset, WithRow, BulkCancel, BulkPurge, PurgeDLQ,
                  ArchiveJobs, Remove, Exists
    <3>2. \A k \in Keys : lock'[k] \in {lock[k], NoJob}
      BY <2>3 DEF BulkRetry, Reset, BulkCancel, BulkPurge, PurgeDLQ, ArchiveJobs,
                  DeleteLocks, lockVars
    <3> QED
      BY <2>1, <3>1, <3>2
  <2>4. CASE RetryAllFailed
    BY <2>1, <2>4 DEF RetryAllFailed, Reset, lockVars
  <2>5. CASE ClearQueue
    BY <2>1, <2>5 DEF ClearQueue, Remove
  <2>6. ASSUME NEW value \in BOOLEAN, SetPaused(value)
        PROVE  UNCHANGED enqVars /\ NoNewRows
    BY <2>1, <2>6 DEF SetPaused, jobVars, lockVars
  <2> QED
    BY <1>2, <2>2, <2>3, <2>4, <2>5, <2>6 DEF AdminStep
<1>3. CASE \/ \E j \in Jobs : LockExpires(j)
           \/ \E b \in Batches : BatchExpires(b) \/ CreateBatch(b) \/ SubmitBatch(b)
           \/ FailExpiredBatches \/ AtRest \/ UNCHANGED vars
  <2>1. UNCHANGED <<enqVars, status, lock>>
    BY <1>3 DEF LockExpires, BatchExpires, CreateBatch, SubmitBatch,
                FailExpiredBatches, AtRest, vars, jobVars, lockVars, enqVars
  <2> QED
    BY <2>1
<1> QED
  BY <1>1, <1>2, <1>3


\* Only a job outside batches and workflows is inserted by a statement of its own,
\* and a workflow never stops between two; before the job of a batch is enqueued
\* no lock is in its name.
StatementsAlone ==
  \A j \in Jobs :
    /\ epc[j] = "insert" => Alone(j)
    /\ epc[j] \in {"check", "collide", "takeover"} => j \notin Workflow
    /\ ~Alone(j) => epc[j] = "done" \/ \A k \in Keys : lock[k] # j

\* StatementsAlone is an invariant.
LEMMA AloneHolds == Spec => []StatementsAlone
<1> USE StorageAssumption
<1> USE DEF TypeOK, EnqueueTypes, LockTypes
<1>1. Init => StatementsAlone
  BY DEF Init, StatementsAlone
<1>2. ASSUME TypeOK, StatementsAlone, NEW j \in Jobs, EnqueueStep(j) \/ EnqueueDies(j)
      PROVE  StatementsAlone'
  <2>1. \E p \in EnqueuePcs : epc' = [epc EXCEPT ![j] = p]
    BY <1>2 DEF EnqueueStep, EnqueueLock, EnqueueCheck, EnqueueCollide, EnqueueTakeover,
       EnqueueInsert, EnqueueInBatch, TakeoverInBatch, AddToBatch, EnqueueDies, EnqueuePcs
  <2>2. epc[j] # "done" /\ \A i \in Jobs \ {j} : epc'[i] = epc[i]
    BY <1>2, <2>1
    DEF EnqueueStep, EnqueueLock, EnqueueCheck, EnqueueCollide, EnqueueTakeover,
        EnqueueInsert, EnqueueInBatch, TakeoverInBatch, AddToBatch, EnqueueDies
  <2>3. \/ UNCHANGED lock
        \/ (Alone(j) \/ epc'[j] = "done") /\ \A k \in Keys : lock'[k] \in {lock[k], j}
    <3>1. ASSUME AddToBatch(j)
          PROVE  epc'[j] = "done" /\ \A k \in Keys : lock'[k] \in {lock[k], j}
      <4>1. lock' = TakeLocks({j}) /\ epc' = [epc EXCEPT ![j] = "done"]
        BY <3>1 DEF AddToBatch
      <4>2. \A k \in Keys : \/ (CHOOSE i \in {j} : UniqueKey[i] = k) = j
                            \/ UniqueKey[j] # k
        OBVIOUS
      <4>3. \A k \in Keys : lock'[k] \in {lock[k], j}
        BY <4>1, <4>2 DEF TakeLocks
      <4> QED
        BY <1>2, <4>1, <4>3
    <3>2. ASSUME EnqueueLock(j) \/ EnqueueTakeover(j)
          PROVE  Alone(j) /\ \A k \in Keys : lock'[k] \in {lock[k], j}
      <4>1. CASE EnqueueLock(j)
        <5>1. CASE UniqueKey[j] = NoKey
          BY <4>1, <5>1 DEF EnqueueLock
        <5>2. CASE UniqueKey[j] # NoKey
          <6>1. lock' = [lock EXCEPT ![UniqueKey[j]] =
                           IF lock[UniqueKey[j]] = NoJob THEN j ELSE @]
            BY <4>1, <5>2 DEF EnqueueLock
          <6>2. lock \in [Keys -> Jobs \cup {NoJob}]
            BY <1>2
          <6> QED
            BY <4>1, <6>1, <6>2 DEF EnqueueLock
        <5> QED
          BY <5>1, <5>2
      <4>2. CASE EnqueueTakeover(j)
        BY <4>2 DEF EnqueueTakeover
      <4> QED
        BY <3>2, <4>1, <4>2
    <3>3. UNCHANGED lock \/ AddToBatch(j) \/ EnqueueLock(j) \/ EnqueueTakeover(j)
      BY <1>2 DEF EnqueueStep, EnqueueCheck, EnqueueCollide, EnqueueInsert,
                  EnqueueInBatch, TakeoverInBatch, EnqueueDies, lockVars
    <3> QED
      BY <3>1, <3>2, <3>3
  <2>4. epc'[j] \in {"check", "collide", "takeover"} => j \notin Workflow
    BY <1>2 DEF StatementsAlone, Alone, EnqueueStep, EnqueueLock, EnqueueCheck,
       EnqueueCollide, EnqueueTakeover, EnqueueInsert, EnqueueInBatch, TakeoverInBatch,
       AddToBatch, EnqueueDies
  <2>5. epc'[j] = "insert" => Alone(j)
    BY <1>2, <2>2 DEF StatementsAlone, EnqueueStep, EnqueueLock, EnqueueCheck,
       EnqueueCollide, EnqueueTakeover, EnqueueInsert, EnqueueInBatch, TakeoverInBatch,
       AddToBatch, EnqueueDies
  <2>6. ~Alone(j) => epc'[j] = "done" \/ \A k \in Keys : lock'[k] # j
    BY <1>2, <2>2, <2>3 DEF StatementsAlone
  <2>7. ASSUME NEW i \in Jobs \ {j}, ~Alone(i)
        PROVE  epc'[i] = "done" \/ \A k \in Keys : lock'[k] # i
    BY <1>2, <2>2, <2>3, <2>7 DEF StatementsAlone
  <2>8. \A i \in Jobs \ {j} :
          /\ epc'[i] = "insert" => Alone(i)
          /\ epc'[i] \in {"check", "collide", "takeover"} => i \notin Workflow
    BY <1>2, <2>2 DEF StatementsAlone
  <2> QED
    BY <2>4, <2>5, <2>6, <2>7, <2>8 DEF StatementsAlone
<1>3. ASSUME TypeOK, StatementsAlone, EnqueueWorkflow
      PROVE  StatementsAlone'
  <2>1. \A j \in Jobs : IF j \in Workflow THEN epc'[j] \in {"done", "duplicate"}
                        ELSE epc'[j] = epc[j]
    BY <1>3 DEF EnqueueWorkflow
  <2>2. \/ /\ \A j \in Workflow : epc'[j] = "done"
           /\ \A k \in Keys : lock'[k] \in {lock[k]} \cup Workflow
        \/ lock' = lock /\ \A j \in Workflow : epc[j] # "done"
    BY <1>3 DEF EnqueueWorkflow, TakeLocks
  <2> QED
    BY <1>3, <2>1, <2>2 DEF StatementsAlone
<1>4. TypeOK /\ StatementsAlone /\ UNCHANGED enqVars /\ NoNewRows => StatementsAlone'
  BY DEF StatementsAlone, NoNewRows, enqVars
<1>5. TypeOK /\ StatementsAlone /\ [Next]_vars => StatementsAlone'
  BY <1>2, <1>3, <1>4, LocksLeft DEF Next, FaultStep
<1> QED
  BY <1>1, <1>5, StorageTypeCorrect, PTL DEF Spec

-----------------------------------------------------------------------------
(***************************************************************************)
(* What pending_jobs counts, and what a callback may rely on.              *)
(***************************************************************************)

\* The members of a batch that are not acknowledged.
Owed(b) == {j \in Jobs : BatchOf[j] = b /\ epc[j] = "done" /\ acked[j] = 0}

\* pending_jobs counts what is owed.
Counting == \A b \in Batches : bpending[b] = Cardinality(Owed(b))

\* Steps that enqueue no member of a batch and acknowledge none.
LEMMA QuietCount ==
  ASSUME TypeOK, Counting, UNCHANGED <<bpending, acked>>,
         \A j \in Jobs : BatchOf[j] \in Batches =>
            (epc'[j] = "done" <=> epc[j] = "done")
  PROVE  Counting'
<1>1. \A b \in Batches : Owed(b)' = Owed(b)
  BY DEF Owed
<1> QED
  BY <1>1 DEF Counting

\* EnqueueInBatch counts the member it inserts.
LEMMA EnqueueCount ==
  ASSUME TypeOK, Ownership, Standing, StatementsAlone, Counting, IsFiniteSet(Jobs),
         NEW j \in Jobs, EnqueueStep(j) \/ EnqueueDies(j)
  PROVE  Counting'
<1> USE StorageAssumption
<1> USE DEF TypeOK, EnqueueTypes
<1>1. ASSUME UNCHANGED <<bpending, acked>>, epc[j] # "done", epc'[j] # "done",
             \A i \in Jobs \ {j} : epc'[i] = epc[i]
      PROVE  Counting'
  BY <1>1, QuietCount
<1>2. CASE \/ EnqueueLock(j) \/ EnqueueCheck(j) \/ EnqueueCollide(j)
           \/ EnqueueTakeover(j) \/ EnqueueDies(j)
  BY <1>1, <1>2 DEF EnqueueLock, EnqueueCheck, EnqueueCollide, EnqueueTakeover,
                    EnqueueDies, batchVars
<1>3. CASE EnqueueInsert(j)
  <2>1. Alone(j)
    BY <1>3 DEF EnqueueInsert, StatementsAlone
  <2>2. UNCHANGED <<bpending, acked>> /\ \A i \in Jobs \ {j} : epc'[i] = epc[i]
    BY <1>3 DEF EnqueueInsert, batchVars
  <2> QED
    BY <2>1, <2>2, QuietCount DEF Alone
<1>4. ASSUME AddToBatch(j), epc[j] # "done", BatchOf[j] \in Batches, UNCHANGED acked
      PROVE  Counting'
  <2> DEFINE b == BatchOf[j]
  <2>1. /\ epc' = [epc EXCEPT ![j] = "done"]
        /\ bpending' = [bpending EXCEPT ![b] = @ + 1]
    BY <1>4 DEF AddToBatch
  <2>2. j \notin Owed(b) /\ acked[j] = 0
    <3>1. acked[j] \in Nat /\ ~(acked[j] > 0)
      BY <1>4 DEF Standing
    <3> QED
      BY <1>4, <3>1 DEF Owed
  <2>3. Owed(b)' = Owed(b) \cup {j}
    BY <1>4, <2>1, <2>2 DEF Owed
  <2>4. \A c \in Batches \ {b} : Owed(c)' = Owed(c) /\ bpending'[c] = bpending[c]
    BY <1>4, <2>1 DEF Owed, BatchTypes
  <2>5. IsFiniteSet(Owed(b))
    BY FS_Subset DEF Owed
  <2>6. Cardinality(Owed(b)') = Cardinality(Owed(b)) + 1
    <3>1. Cardinality(Owed(b) \cup {j}) = Cardinality(Owed(b)) + 1
      BY <2>2, <2>5, FS_AddElement
    <3> QED
      BY <2>3, <3>1
  <2>7. bpending'[b] = bpending[b] + 1
    BY <1>4, <2>1 DEF BatchTypes
  <2> QED
    BY <1>4, <2>4, <2>6, <2>7 DEF Counting
<1>5. CASE EnqueueInBatch(j)
  <2>1. epc[j] = "new" /\ BatchOf[j] \in Batches /\ acked' = acked
    BY <1>5 DEF EnqueueInBatch
  <2>2. AddToBatch(j) \/ (bpending' = bpending /\ \E p \in {"check", "duplicate"} :
                            epc' = [epc EXCEPT ![j] = p])
    BY <1>5 DEF EnqueueInBatch
  <2> QED
    BY <1>1, <1>4, <2>1, <2>2
<1>6. CASE TakeoverInBatch(j)
  BY <1>4, <1>6 DEF TakeoverInBatch
<1> QED
  BY <1>2, <1>3, <1>5, <1>6 DEF EnqueueStep

\* handleBatchAck counts down once for every member, when it is acknowledged.
LEMMA CommitCount ==
  ASSUME TypeOK, Ownership, Standing, Counting, IsFiniteSet(Jobs),
         NEW w \in Workers, AckCommit(w)
  PROVE  /\ Counting'
         /\ \A b \in Batches :
              Owed(b)' = IF BatchOf[job[w]] = b THEN Owed(b) \ {job[w]} ELSE Owed(b)
         /\ BatchOf[job[w]] # NoBatch => job[w] \in Owed(BatchOf[job[w]])
<1> USE StorageAssumption
<1> USE DEF TypeOK, EnqueueTypes
<1>1. PICK j \in Jobs : /\ j = job[w] /\ acked[j] = 0 /\ epc[j] = "done" /\ seenRow[w]
  BY CommitStanding
<1> DEFINE b == BatchOf[j]
<1>2. /\ acked' = [acked EXCEPT ![j] = @ + 1]
      /\ UNCHANGED epc
      /\ IF b # NoBatch THEN HandleBatchAck(b) ELSE UNCHANGED <<bpending, bstatus, callbacks>>
  BY <1>1 DEF AckCommit, enqVars
<1>3. \A c \in Batches : Owed(c)' = IF b = c THEN Owed(c) \ {j} ELSE Owed(c)
  BY <1>1, <1>2 DEF Owed
<1>4. b # NoBatch => j \in Owed(b)
  BY <1>1 DEF Owed
<1>5. CASE b # NoBatch
  <2>1. /\ bpending'[b] = bpending[b] - 1
        /\ \A c \in Batches \ {b} : bpending'[c] = bpending[c]
    BY <1>2, <1>5 DEF HandleBatchAck, BatchTypes
  <2>2. IsFiniteSet(Owed(b))
    BY FS_Subset DEF Owed
  <2>3. Cardinality(Owed(b)') = Cardinality(Owed(b)) - 1
    BY <1>3, <1>4, <1>5, <2>2, FS_RemoveElement
  <2>4. \A c \in Batches : bpending'[c] = Cardinality(Owed(c)')
    BY <1>3, <2>1, <2>3 DEF Counting
  <2> QED
    BY <1>1, <1>2, <1>3, <1>4, <2>4 DEF Counting
<1>6. CASE b = NoBatch
  BY <1>1, <1>2, <1>3, <1>6 DEF Counting
<1> QED
  BY <1>5, <1>6

\* All other steps leave the count and the members alone.
LEMMA OtherCount ==
  ASSUME TypeOK, Counting,
         \/ EnqueueWorkflow
         \/ \E w \in Workers :
              /\ WorkerStep(w) \/ Shutdown(w) \/ CallFails(w) \/ Crash(w)
              /\ ~AckCommit(w)
         \/ AdminStep
         \/ \E j \in Jobs : LockExpires(j)
         \/ \E b \in Batches : BatchExpires(b) \/ CreateBatch(b) \/ SubmitBatch(b)
         \/ FailExpiredBatches \/ AtRest \/ UNCHANGED vars
  PROVE  Counting'
<1> USE StorageAssumption
<1> USE DEF TypeOK, EnqueueTypes
<1>1. CASE EnqueueWorkflow
  <2>1. UNCHANGED <<bpending, acked>>
    BY <1>1 DEF EnqueueWorkflow, batchVars
  <2>2. \A j \in Jobs : IF j \in Workflow THEN epc'[j] \in {"done", "duplicate"}
                        ELSE epc'[j] = epc[j]
    BY <1>1 DEF EnqueueWorkflow
  <2> QED
    BY <2>1, <2>2, QuietCount DEF Counting
<1>2. CASE ~EnqueueWorkflow
  <2>1. CASE \/ \E j \in Jobs : LockExpires(j)
             \/ \E b \in Batches : BatchExpires(b) \/ CreateBatch(b) \/ SubmitBatch(b)
             \/ FailExpiredBatches \/ AtRest \/ UNCHANGED vars
    <3>1. UNCHANGED <<bpending, acked, epc>>
      BY <2>1 DEF LockExpires, BatchExpires, CreateBatch, SubmitBatch,
                  FailExpiredBatches, AtRest, vars, batchVars, enqVars
    <3> QED
      BY <3>1, QuietCount DEF Counting
  <2>2. UNCHANGED <<bpending, acked, epc>> => Counting'
    BY QuietCount DEF Counting
  <2> QED
    BY <1>2, <2>1, <2>2, WorkerFrame, AdminFrame
<1> QED
  BY <1>1, <1>2

\* Counting is an invariant as long as nobody removes the rows of unfinished jobs.
LEMMA CountingHolds ==
  ASSUME SafeUnblocking, LeavesUnfinished, IsFiniteSet(Jobs)
  PROVE  Spec => []Counting
<1>1. Init => Counting
  <2> SUFFICES ASSUME Init
               PROVE  Counting
    OBVIOUS
  <2>1. ASSUME NEW b \in Batches
        PROVE  bpending[b] = Cardinality(Owed(b))
    <3>1. Owed(b) = {}
      BY DEF Init, Owed
    <3>2. bpending[b] = 0
      BY DEF Init
    <3> QED
      BY <3>1, <3>2, FS_EmptySet
  <2> QED
    BY <2>1 DEF Counting
<1>2. TypeOK /\ Ownership /\ Standing /\ StatementsAlone /\ Counting /\ [Next]_vars
      => Counting'
  BY EnqueueCount, CommitCount, OtherCount DEF Next, WorkerStep, Finalize, FaultStep
<1> QED
  BY <1>1, <1>2, StandingHolds, AloneHolds, PTL DEF Spec

\* pending_jobs is the number of members that are not acknowledged, for any
\* number of batches, jobs and workers, with crashes, timeouts and dead jobs, as
\* long as administration touches only dead and finished jobs.
THEOREM PendingJobsCount ==
  ASSUME SafeUnblocking, LeavesUnfinished, IsFiniteSet(Jobs)
  PROVE  Spec => []BatchCount
<1>1. Counting => BatchCount
  BY DEF Counting, BatchCount, Owed
<1> QED
  BY <1>1, CountingHolds, PTL

\* A batch is sealed with members that were enqueued, at most MaxSubmits times.
Sealing ==
  /\ CallbackAfterAll
  /\ \A b \in Batches : submits[b] <= MaxSubmits
  /\ \A b \in Batches : \A j \in sealedWith[b] : BatchOf[j] = b /\ epc[j] = "done"

\* Steps that insert no callback and seal no batch.
LEMMA QuietSealing ==
  ASSUME TypeOK, Sealing, UNCHANGED <<callbacks, submits, sealedWith>>,
         \A j \in Jobs : epc[j] = "done" => epc'[j] = "done",
         \A j \in Jobs : acked[j] > 0 => acked'[j] > 0
  PROVE  Sealing'
<1> USE DEF TypeOK, BatchTypes
<1>1. \A b \in Batches : sealedWith[b] \subseteq Jobs
  OBVIOUS
<1> QED
  BY <1>1 DEF Sealing, CallbackAfterAll

\* Submit inserts the callback of a batch of which nothing is owed.
LEMMA SubmitSealing ==
  ASSUME TypeOK, CallbackCredit, Counting, Sealing, IsFiniteSet(Jobs),
         MaxSubmits <= 1, NEW b \in Batches, SubmitBatch(b)
  PROVE  Sealing'
<1> USE StorageAssumption
<1> USE DEF TypeOK, BatchTypes, EnqueueTypes
<1>1. submits[b] = 0 /\ callbacks[b] = 0
  BY DEF SubmitBatch, CallbackCredit, CallbackOnce
<1>2. /\ submits' = [submits EXCEPT ![b] = @ + 1]
      /\ UNCHANGED <<epc, acked>>
      /\ \A d \in Batches \ {b} : callbacks'[d] = callbacks[d] /\ sealedWith'[d] = sealedWith[d]
  BY DEF SubmitBatch, enqVars
<1>3. \/ callbacks'[b] = 0 /\ sealedWith'[b] = sealedWith[b]
      \/ /\ sealedWith'[b] = {j \in Jobs : BatchOf[j] = b /\ epc[j] = "done"}
         /\ callbacks'[b] > 0 => bpending[b] = 0
  BY <1>1 DEF SubmitBatch, NothingPending
<1>4. bpending[b] = 0 => Owed(b) = {}
  <2>1. IsFiniteSet(Owed(b))
    BY FS_Subset DEF Owed
  <2> QED
    BY <2>1, FS_EmptySet DEF Counting
<1>5. \A d \in Batches : submits'[d] <= MaxSubmits
  BY <1>1, <1>2 DEF Sealing, SubmitBatch
<1>6. \A d \in Batches : \A j \in sealedWith'[d] : BatchOf[j] = d /\ epc'[j] = "done"
  BY <1>2, <1>3 DEF Sealing
<1>7. callbacks'[b] > 0 => \A j \in sealedWith'[b] : acked'[j] > 0
  <2>1. \A j \in Jobs : acked[j] \in Nat
    OBVIOUS
  <2> QED
    BY <1>2, <1>3, <1>4, <2>1 DEF Owed
<1>8. CallbackAfterAll'
  BY <1>2, <1>7 DEF Sealing, CallbackAfterAll
<1> QED
  BY <1>5, <1>6, <1>8 DEF Sealing

\* The last Ack inserts it when its own job is all that is owed.
LEMMA CommitSealing ==
  ASSUME TypeOK, Ownership, Standing, Counting, Sealing, IsFiniteSet(Jobs),
         NEW w \in Workers, AckCommit(w)
  PROVE  Sealing'
<1> USE StorageAssumption
<1> USE DEF TypeOK, BatchTypes, EnqueueTypes
<1>1. PICK j \in Jobs : j = job[w]
  BY CommitStanding
<1> DEFINE b == BatchOf[j]
<1>2. /\ acked' = [acked EXCEPT ![j] = @ + 1]
      /\ UNCHANGED <<epc, submits, sealedWith>>
      /\ \/ HandleBatchAck(b) /\ b # NoBatch
         \/ UNCHANGED callbacks
  BY <1>1 DEF AckCommit, enqVars
<1>3. \A i \in Jobs : acked[i] \in Nat /\ acked'[i] \in Nat /\ (acked[i] > 0 => acked'[i] > 0)
  BY <1>2
<1>4. CASE UNCHANGED callbacks
  BY <1>2, <1>3, <1>4, QuietSealing
<1>5. CASE HandleBatchAck(b) /\ b # NoBatch
  <2>1. b \in Batches /\ \A d \in Batches \ {b} : callbacks'[d] = callbacks[d]
    BY <1>5 DEF HandleBatchAck
  <2>2. callbacks'[b] = callbacks[b] \/ bpending[b] = 1
    BY <1>5, <2>1 DEF HandleBatchAck
  <2>3. bpending[b] = 1 => Owed(b) = {j}
    <3>1. IsFiniteSet(Owed(b)) /\ j \in Owed(b)
      BY <1>1, <1>5, CommitCount, FS_Subset DEF Owed
    <3> QED
      BY <2>1, <3>1, FS_Singleton DEF Counting
  <2>4. bpending[b] = 1 => \A i \in sealedWith[b] : acked'[i] > 0
    <3>1. \A i \in sealedWith[b] : i \in Owed(b) \/ acked[i] > 0
      BY <1>3, <2>1 DEF Sealing, Owed
    <3>2. acked'[j] > 0
      BY <1>2, <1>3
    <3> QED
      BY <1>3, <2>1, <2>3, <3>1, <3>2
  <2>5. \A i \in sealedWith[b] : acked[i] > 0 => acked'[i] > 0
    BY <1>3, <2>1
  <2>6. CallbackAfterAll'
    BY <1>2, <1>3, <2>1, <2>2, <2>4, <2>5 DEF Sealing, CallbackAfterAll
  <2> QED
    BY <1>2, <2>6 DEF Sealing
<1> QED
  BY <1>2, <1>4, <1>5

\* All other steps insert no callback, seal nothing and acknowledge nothing.
LEMMA OtherSealing ==
  ASSUME TypeOK, Sealing,
         \/ EnqueueWorkflow \/ \E j \in Jobs : EnqueueStep(j) \/ EnqueueDies(j)
         \/ \E j \in Jobs : LockExpires(j)
         \/ \E w \in Workers :
              /\ WorkerStep(w) \/ Shutdown(w) \/ CallFails(w) \/ Crash(w)
              /\ ~AckCommit(w)
         \/ AdminStep
         \/ \E b \in Batches : BatchExpires(b) \/ CreateBatch(b)
         \/ FailExpiredBatches \/ AtRest \/ UNCHANGED vars
  PROVE  Sealing'
<1> USE DEF TypeOK, EnqueueTypes
<1>1. ASSUME UNCHANGED <<callbacks, submits, sealedWith, acked>>,
             \A j \in Jobs : epc[j] = "done" => epc'[j] = "done"
      PROVE  Sealing'
  BY <1>1, QuietSealing
<1>2. CASE EnqueueWorkflow \/ \E j \in Jobs : EnqueueStep(j) \/ EnqueueDies(j)
  BY <1>1, <1>2, EnqueueFrame
<1>3. CASE \E w \in Workers : /\ WorkerStep(w) \/ Shutdown(w) \/ CallFails(w) \/ Crash(w)
                             /\ ~AckCommit(w)
  BY <1>1, <1>3, WorkerFrame
<1>4. CASE AdminStep
  BY <1>1, <1>4, AdminFrame
<1>5. CASE \/ \E j \in Jobs : LockExpires(j)
           \/ \E b \in Batches : BatchExpires(b) \/ CreateBatch(b)
           \/ FailExpiredBatches \/ AtRest \/ UNCHANGED vars
  BY <1>1, <1>5 DEF LockExpires, BatchExpires, CreateBatch, FailExpiredBatches, AtRest,
                    vars, batchVars, enqVars
<1> QED
  BY <1>2, <1>3, <1>4, <1>5

\* A batch that is submitted once gets its callback only when every job it was
\* sealed with has been acknowledged, whatever the order of the last Ack and the
\* Submit, with crashes, timeouts and dead jobs.
THEOREM CallbackComesLast ==
  ASSUME SafeUnblocking, LeavesUnfinished, IsFiniteSet(Jobs), MaxSubmits <= 1
  PROVE  Spec => []CallbackAfterAll
<1>1. Init => Sealing /\ CallbackCredit
  BY StorageAssumption
  DEF Init, Sealing, CallbackAfterAll, CallbackCredit, CallbackOnce
<1>2. TypeOK /\ Ownership /\ Standing /\ Counting /\ CallbackCredit /\ Sealing /\ [Next]_vars
      => Sealing'
  BY SubmitSealing, CommitSealing, OtherSealing DEF Next, WorkerStep, Finalize, FaultStep
<1>3. Sealing => CallbackAfterAll
  BY DEF Sealing
<1> QED
  BY <1>1, <1>2, <1>3, NextCredit, StandingHolds, CountingHolds, PTL DEF Spec

-----------------------------------------------------------------------------
(***************************************************************************)
(* The concurrency limit.                                                  *)
(***************************************************************************)

\* Contexts and storage calls that do not fail: a failing count lets a job run.
CountsAnswer == Faults \cap {"shutdown", "storageError"} = {}

Performing == {w \in Workers : pc[w] = "perform"}
RunningRows == {j \in Jobs : status[j] = "running"}

\* No more goroutines perform than the limit allows, and no context is cancelled.
Throttle ==
  /\ MaxRunning > 0 => IsFiniteSet(Performing) /\ Cardinality(Performing) <= MaxRunning
  /\ down = {}

\* Workers with different jobs whose rows say running are no more than the rows.
LEMMA PerformersHaveRows ==
  ASSUME TypeOK, Ownership, Standing, IsFiniteSet(Jobs),
         NEW S \in SUBSET {w \in Workers : job[w] # NoJob}
  PROVE  IsFiniteSet(S) /\ Cardinality(S) <= Cardinality(RunningRows)
         /\ Cardinality(RunningRows) \in Nat
<1> USE StorageAssumption DEF TypeOK, WorkerTypes
<1> DEFINE jobOf == [w \in S |-> job[w]]
<1>1. jobOf \in [S -> RunningRows]
  BY DEF Standing, RunningRows
<1>2. \A v, w \in S : jobOf[v] = jobOf[w] => v = w
  BY DEF Ownership, ExclusiveExecution
<1>3. jobOf \in Injection(S, RunningRows)
  BY <1>1, <1>2 DEF Injection, IsInjective
<1>4. IsFiniteSet(RunningRows)
  BY FS_Subset DEF RunningRows
<1> QED
  BY <1>3, <1>4, FS_Injection, FS_CardinalityType

\* Steps after which nobody performs who did not before.
LEMMA QuietThrottle ==
  ASSUME Throttle, Performing' \subseteq Performing, down' = down
  PROVE  Throttle'
<1> USE StorageAssumption
<1>1. CASE MaxRunning > 0
  <2>1. /\ IsFiniteSet(Performing') /\ Cardinality(Performing') <= Cardinality(Performing)
    BY <1>1, FS_Subset DEF Throttle
  <2>2. Cardinality(Performing') \in Nat /\ Cardinality(Performing) \in Nat
    BY <1>1, <2>1, FS_CardinalityType DEF Throttle
  <2> QED
    BY <1>1, <2>1, <2>2 DEF Throttle
<1>2. CASE ~(MaxRunning > 0)
  BY <1>2 DEF Throttle
<1> QED
  BY <1>1, <1>2

\* checkLimitsAndPostpone counts the job itself, with all others that run.
LEMMA CheckThrottle ==
  ASSUME TypeOK, Ownership, Standing, Throttle, CountsAnswer, IsFiniteSet(Jobs),
         NEW w \in Workers, CheckLimits(w)
  PROVE  Throttle'
<1> USE StorageAssumption
<1> USE DEF TypeOK, WorkerTypes
<1>1. /\ pc[w] = "limits" /\ down' = down /\ job' = job
      /\ \/ pc' = [pc EXCEPT ![w] = "postpone"]
         \/ pc' = [pc EXCEPT ![w] = "perform"] /\ ~OverLimit
  BY DEF CheckLimits, CountsAnswer, Throttle, Up, envVars
<1>2. CASE pc' = [pc EXCEPT ![w] = "postpone"]
  BY <1>1, <1>2, QuietThrottle DEF Performing
<1>3. CASE pc' = [pc EXCEPT ![w] = "perform"] /\ ~OverLimit
  <2>1. Performing' = Performing \cup {w}
    BY <1>3 DEF Performing
  <2>2. Performing' \in SUBSET {v \in Workers : job[v] # NoJob}
    BY <1>1, <2>1 DEF Performing
  <2>3. /\ IsFiniteSet(Performing')
        /\ Cardinality(Performing') <= Cardinality(RunningRows)
        /\ Cardinality(RunningRows) \in Nat
    BY <2>2, PerformersHaveRows
  <2>4. MaxRunning > 0 => Cardinality(RunningRows) <= MaxRunning
    BY <1>3, <2>3 DEF OverLimit, RunningJobsCount, RunningRows
  <2>5. Cardinality(Performing') \in Nat
    BY <2>3, FS_CardinalityType
  <2> QED
    BY <1>1, <2>3, <2>4, <2>5 DEF Throttle
<1> QED
  BY <1>1, <1>2, <1>3

\* Nobody else starts to perform: with a limit, Dequeue goes to the check.
LEMMA NextThrottle ==
  ASSUME TypeOK, Ownership, Standing, Throttle, CountsAnswer, IsFiniteSet(Jobs),
         [Next]_vars
  PROVE  Throttle'
<1> USE StorageAssumption
<1> USE DEF TypeOK, WorkerTypes
<1>1. ASSUME UNCHANGED <<pc, down>>
      PROVE  Throttle'
  BY <1>1, QuietThrottle DEF Performing
<1>2. ASSUME NEW w \in Workers, UNCHANGED down,
             NEW p, p # "perform", pc' = [pc EXCEPT ![w] = p]
      PROVE  Throttle'
  BY <1>2, QuietThrottle DEF Performing
<1>3. ASSUME NEW w \in Workers, NEW j \in Jobs, Dequeue(w, j)
      PROVE  Throttle'
  <2>1. CASE MaxRunning > 0
    BY <1>2, <1>3, <2>1 DEF Dequeue, Limited, envVars
  <2>2. CASE ~(MaxRunning > 0)
    BY <1>3, <2>2 DEF Dequeue, Throttle, envVars
  <2> QED
    BY <2>1, <2>2
<1>4. ASSUME NEW w \in Workers, WorkerStep(w)
      PROVE  Throttle'
  <2>1. CASE Poll(w) \/ DequeueNothing(w) \/ PostponeJob(w) \/ Perform(w)
    BY <1>2, <2>1 DEF Poll, DequeueNothing, PostponeJob, Perform, envVars
  <2>2. CASE AckRead(w) \/ AckBegin(w) \/ AckResolve(w) \/ AckCommit(w)
    BY <1>2, <2>2 DEF AckRead, AckBegin, AckResolve, AckDelete, AckCount, AckCommit, envVars
  <2>3. CASE FailRead(w) \/ FailRetry(w) \/ FailDead(w)
    <3>1. UNCHANGED down
      BY <2>3 DEF FailRead, FailRetry, FailDead, envVars
    <3>2. pc' = [pc EXCEPT ![w] = "idle"] \/ pc' = [pc EXCEPT ![w] = "failtx"]
      BY <2>3 DEF FailRead, FailRetry, FailDead
    <3> QED
      BY <1>2, <3>1, <3>2
  <2> QED
    BY <1>3, <1>4, <2>1, <2>2, <2>3, CheckThrottle DEF WorkerStep, Finalize
<1>5. ASSUME NEW w \in Workers, Shutdown(w) \/ CallFails(w) \/ Crash(w)
      PROVE  Throttle'
  BY <1>2, <1>5 DEF Shutdown, CallFails, Crash, CountsAnswer, Throttle, envVars
<1>6. ASSUME \A w \in Workers : ~WorkerStep(w) /\ ~Shutdown(w) /\ ~CallFails(w) /\ ~Crash(w)
      PROVE  UNCHANGED <<pc, down>>
  BY <1>6
  DEF Next, FaultStep, EnqueueStep, EnqueueLock, EnqueueCheck, EnqueueCollide,
      EnqueueTakeover, EnqueueInsert, EnqueueInBatch, TakeoverInBatch, AddToBatch, EnqueueDies, LockExpires,
      EnqueueWorkflow, BatchExpires, CreateBatch, SubmitBatch, FailExpiredBatches,
      AdminStep, BulkRetry, RetryAllFailed, Reset, Cancel, BulkCancel, BulkPurge,
      ClearQueue, PurgeDLQ, ArchiveJobs, SetPaused, AtRest, vars, workerVars, envVars
<1> QED
  BY <1>1, <1>4, <1>5, <1>6

\* WithMaxConcurrency is a bound on the goroutines that perform, for any limit
\* and any number of workers, although the jobs are counted after they are
\* dequeued and many may be counted at once; with crashes and rate limits, but
\* with a storage that answers.
THEOREM ThrottleHolds ==
  ASSUME SafeUnblocking, LeavesUnfinished, CountsAnswer, IsFiniteSet(Jobs)
  PROVE  Spec => []ThrottleBound
<1>1. Init => Throttle
  <2> SUFFICES ASSUME Init
               PROVE  Throttle
    OBVIOUS
  <2>1. Performing = {} /\ down = {}
    BY DEF Init, Performing
  <2>2. IsFiniteSet(Performing) /\ Cardinality(Performing) = 0
    BY <2>1, FS_EmptySet
  <2> QED
    BY <2>1, <2>2, StorageAssumption DEF Throttle
<1>2. Throttle => ThrottleBound
  BY DEF Throttle, ThrottleBound, Performing
<1> QED
  BY <1>1, <1>2, NextThrottle, StandingHolds, PTL DEF Spec

-----------------------------------------------------------------------------
(***************************************************************************)
(* Unique keys: who is refused.                                            *)
(***************************************************************************)

\* No job of the workflow has a unique key, as EnqueueWorkflow refuses all of its
\* jobs for the sake of one.
KeylessWorkflow == \A j \in Workflow : UniqueKey[j] = NoKey

\* A row exists only after the enqueue call that wrote it; a lock is in the name
\* of a job with its key; and the lock holder a colliding call has read is
\* another job with the key.
Refusals ==
  /\ \A j \in Jobs : Exists(j) => epc[j] = "done"
  /\ \A k \in Keys : lock[k] # NoJob => UniqueKey[lock[k]] = k
  /\ \A j \in Jobs : epc[j] = "collide" =>
        holder[j] \in Jobs \ {j} /\ UniqueKey[holder[j]] = UniqueKey[j]
  /\ RefusedOnlyForAnother

\* Steps outside the enqueue calls: no row appears, and locks are only deleted.
LEMMA QuietRefusals ==
  ASSUME TypeOK, Refusals, UNCHANGED enqVars,
         \A j \in Jobs : status[j] = "absent" => status'[j] = "absent",
         \A k \in Keys : lock'[k] \in {lock[k], NoJob}
  PROVE  Refusals'
<1> USE StorageAssumption DEF TypeOK, LockTypes, EnqueueTypes
<1>1. UNCHANGED <<epc, holder>>
  BY DEF enqVars
<1>2. \A j \in Jobs : Exists(j)' => Exists(j)
  BY DEF Exists
<1>3. \A k \in Keys : lock'[k] # NoJob => UniqueKey[lock'[k]] = k
  BY DEF Refusals
<1> QED
  BY <1>1, <1>2, <1>3 DEF Refusals, RefusedOnlyForAnother

\* The statements of a single Enqueue.
LEMMA EnqueueRefusals ==
  ASSUME TypeOK, Refusals, NEW j \in Jobs,
         \/ EnqueueLock(j) \/ EnqueueCheck(j) \/ EnqueueCollide(j)
         \/ EnqueueTakeover(j) \/ EnqueueInsert(j) \/ EnqueueDies(j)
  PROVE  Refusals'
<1> USE StorageAssumption
<1> USE DEF TypeOK, LockTypes, EnqueueTypes, JobTypes
<1>1. epc[j] \notin {"done", "duplicate"}
  BY DEF EnqueueLock, EnqueueCheck, EnqueueCollide, EnqueueTakeover, EnqueueInsert,
         EnqueueDies
<1>2. \E p \in EnqueuePcs : epc' = [epc EXCEPT ![j] = p]
  BY DEF EnqueueLock, EnqueueCheck, EnqueueCollide, EnqueueTakeover, EnqueueInsert,
         EnqueueDies, EnqueuePcs, LockStands
<1>3. \A i \in Jobs \ {j} : epc'[i] = epc[i]
  BY <1>2
<1>4. \A i \in Jobs : Exists(i)' => epc'[i] = "done"
  <2>1. \A i \in Jobs \ {j} : status'[i] = status[i]
    BY DEF EnqueueLock, EnqueueCheck, EnqueueCollide, EnqueueTakeover,
           EnqueueInsert, EnqueueDies, jobVars
  <2>2. status'[j] = status[j] \/ epc'[j] = "done"
    BY DEF EnqueueLock, EnqueueCheck, EnqueueCollide, EnqueueTakeover,
           EnqueueInsert, EnqueueDies, jobVars
  <2> QED
    BY <1>1, <1>3, <2>1, <2>2 DEF Refusals, Exists
<1>5. \A k \in Keys : lock'[k] # NoJob => UniqueKey[lock'[k]] = k
  <2>1. \A k \in Keys : lock'[k] = lock[k] \/ (lock'[k] = j /\ UniqueKey[j] = k)
    BY DEF EnqueueLock, EnqueueCheck, EnqueueCollide, EnqueueTakeover,
           EnqueueInsert, EnqueueDies, lockVars
  <2> QED
    BY <2>1 DEF Refusals
<1>6. \A i \in Jobs : epc'[i] = "collide" =>
         holder'[i] \in Jobs \ {i} /\ UniqueKey[holder'[i]] = UniqueKey[i]
  <2>1. CASE EnqueueCheck(j)
    <3>1. UniqueKey[j] \in Keys
      BY <2>1 DEF EnqueueCheck
    <3> QED
      BY <2>1, <3>1 DEF EnqueueCheck, Refusals
  <2>2. CASE ~EnqueueCheck(j)
    <3>1. UNCHANGED holder /\ epc'[j] # "collide"
      BY <2>2 DEF EnqueueLock, EnqueueCollide, EnqueueTakeover, EnqueueInsert, EnqueueDies
    <3> QED
      BY <1>3, <3>1 DEF Refusals
  <2> QED
    BY <2>1, <2>2
<1>7. epc'[j] = "duplicate" =>
         \E i \in Jobs \ {j} : UniqueKey[i] = UniqueKey[j] /\ epc[i] = "done"
  <2>1. CASE EnqueueCollide(j)
    BY <2>1 DEF EnqueueCollide, LockStands, Refusals
  <2>2. CASE ~EnqueueCollide(j)
    BY <2>2 DEF EnqueueLock, EnqueueCheck, EnqueueTakeover, EnqueueInsert, EnqueueDies
  <2> QED
    BY <2>1, <2>2
<1>8. RefusedOnlyForAnother'
  BY <1>1, <1>3, <1>7 DEF Refusals, RefusedOnlyForAnother
<1> QED
  BY <1>4, <1>5, <1>6, <1>8 DEF Refusals

\* Enqueue calls in one transaction: a member of a batch is refused for a lock
\* that stands, so for a job with a row.
LEMMA TransactionRefusals ==
  ASSUME TypeOK, Refusals, KeylessWorkflow,
         \/ EnqueueWorkflow
         \/ \E j \in Jobs : EnqueueInBatch(j) \/ TakeoverInBatch(j)
  PROVE  Refusals'
<1> USE StorageAssumption
<1> USE DEF TypeOK, LockTypes, EnqueueTypes, JobTypes
<1>1. ASSUME NEW js \in SUBSET Jobs, \A j \in js : epc[j] \in {"new", "takeover"},
             UNCHANGED holder,
             \/ /\ lock' = TakeLocks(js)
                /\ \A j \in js : epc'[j] = "done"
             \/ /\ lock' = lock /\ status' = status
                /\ \A j \in js : /\ epc'[j] = "duplicate"
                                 /\ \E i \in Jobs \ {j} :
                                      UniqueKey[i] = UniqueKey[j] /\ epc[i] = "done",
             \A j \in Jobs \ js : epc'[j] = epc[j] /\ status'[j] = status[j]
      PROVE  Refusals'
  <2>1. \A j \in Jobs : Exists(j)' => epc'[j] = "done"
    BY <1>1 DEF Refusals, Exists
  <2>2. \A k \in Keys : lock'[k] # NoJob => UniqueKey[lock'[k]] = k
    BY <1>1 DEF Refusals, TakeLocks
  <2>3. \A j \in Jobs : epc'[j] = "collide" => epc[j] = "collide"
    BY <1>1
  <2>4. RefusedOnlyForAnother'
    BY <1>1 DEF Refusals, RefusedOnlyForAnother
  <2> QED
    BY <1>1, <2>1, <2>2, <2>3, <2>4 DEF Refusals
<1>2. CASE EnqueueWorkflow
  <2>1. LocksAvailable(Workflow)
    BY DEF KeylessWorkflow, LocksAvailable
  <2> QED
    BY <1>1, <1>2, <2>1 DEF EnqueueWorkflow, enqVars
<1>3. ASSUME NEW j \in Jobs, AddToBatch(j), epc[j] \in {"new", "takeover"}, UNCHANGED holder
      PROVE  Refusals'
  <2>1. {j} \in SUBSET Jobs
    OBVIOUS
  <2>2. \A i \in Jobs \ {j} : epc'[i] = epc[i] /\ status'[i] = status[i]
    BY <1>3 DEF AddToBatch
  <2>3. lock' = TakeLocks({j}) /\ epc'[j] = "done"
    BY <1>3 DEF AddToBatch
  <2> QED
    BY <1>1, <1>3, <2>1, <2>2, <2>3
<1>4. ASSUME NEW j \in Jobs, EnqueueInBatch(j)
      PROVE  Refusals'
  <2>1. epc[j] = "new" /\ UNCHANGED holder
    BY <1>4 DEF EnqueueInBatch
  <2>2. CASE AddToBatch(j)
    BY <1>3, <2>1, <2>2
  <2>3. CASE ~AddToBatch(j) /\ MustLook(j)
    <3>1. UNCHANGED <<lock, status>> /\ epc' = [epc EXCEPT ![j] = "check"]
      BY <1>4, <2>3 DEF EnqueueInBatch
    <3> QED
      BY <2>1, <3>1 DEF Refusals, RefusedOnlyForAnother, Exists
  <2>4. CASE ~AddToBatch(j) /\ ~MustLook(j)
    <3>1. UNCHANGED <<lock, status>> /\ epc' = [epc EXCEPT ![j] = "duplicate"]
          /\ ~LocksAvailable({j})
      BY <1>4, <2>4 DEF EnqueueInBatch
    <3>2. PICK k \in Keys : k = UniqueKey[j] /\ lock[k] # NoJob /\ LockStands(lock[k])
      BY <3>1 DEF LocksAvailable
    <3>3. lock[k] \in Jobs \ {j} /\ UniqueKey[lock[k]] = UniqueKey[j] /\ epc[lock[k]] = "done"
      BY <2>1, <3>2 DEF Refusals, LockStands
    <3>4. \A i \in {j} : epc'[i] = "duplicate" /\ \E h \in Jobs \ {i} :
             UniqueKey[h] = UniqueKey[i] /\ epc[h] = "done"
      BY <3>1, <3>3
    <3>5. {j} \in SUBSET Jobs
      OBVIOUS
    <3> QED
      BY <1>1, <2>1, <3>1, <3>4, <3>5
  <2> QED
    BY <2>2, <2>3, <2>4
<1>5. ASSUME NEW j \in Jobs, TakeoverInBatch(j)
      PROVE  Refusals'
  BY <1>3, <1>5 DEF TakeoverInBatch
<1> QED
  BY <1>2, <1>4, <1>5

\* Workers, administration, faults and batches create no row.
LEMMA OtherRefusals ==
  ASSUME TypeOK, Refusals,
         \/ \E w \in Workers :
              WorkerStep(w) \/ Shutdown(w) \/ CallFails(w) \/ Crash(w)
         \/ AdminStep
         \/ \E j \in Jobs : LockExpires(j)
         \/ \E b \in Batches : BatchExpires(b) \/ CreateBatch(b) \/ SubmitBatch(b)
         \/ FailExpiredBatches \/ AtRest \/ UNCHANGED vars
  PROVE  Refusals'
BY LocksLeft, QuietRefusals DEF NoNewRows

\* A job is refused only in favour of another job with its key that was really
\* enqueued: for any number of jobs and keys, enqueued alone or in batches, with
\* enqueuers that die half way, locks that expire and every administration call.
THEOREM RefusedForAnotherJob ==
  ASSUME KeylessWorkflow
  PROVE  Spec => []RefusedOnlyForAnother
<1>1. Init => Refusals
  BY DEF Init, Refusals, Exists, RefusedOnlyForAnother
<1>2. TypeOK /\ Refusals /\ [Next]_vars => Refusals'
  BY EnqueueRefusals, TransactionRefusals, OtherRefusals
  DEF Next, EnqueueStep, FaultStep
<1>3. Refusals => RefusedOnlyForAnother
  BY DEF Refusals
<1> QED
  BY <1>1, <1>2, <1>3, StorageTypeCorrect, PTL DEF Spec

-----------------------------------------------------------------------------
(***************************************************************************)
(* Unique keys: one live job.                                              *)
(***************************************************************************)

\* Whoever has a unique key is enqueued in a transaction, locks do not expire,
\* and administration removes only finished and dead jobs; on PostgreSQL it
\* removes none: the job a transaction has found holding its key may finish and be
\* removed before the transaction looks for its row, and the lock be taken twice.
KeysInTransactions ==
  /\ \A j \in Jobs : Alone(j) => UniqueKey[j] = NoKey
  /\ "lockTTL" \notin Faults
  /\ AdminOps \subseteq {"PurgeAllFailed", "ArchiveJobs", "Pause"}
  /\ SingleWriter \/ AdminOps \subseteq {"Pause"}

\* A live job holds the lock of its key.
OwnLocks ==
  /\ \A j \in Jobs : Live(j) /\ UniqueKey[j] # NoKey => lock[UniqueKey[j]] = j
  /\ ttlOver = {}

\* No lock is ever taken over: a transaction that goes on to look at the holder of
\* its key finds its row.
KeyHolders ==
  /\ \A j \in Jobs : epc[j] \in {"check", "collide"} => ~SingleWriter
  /\ \A j \in Jobs : UniqueKey[j] # NoKey => epc[j] \notin {"takeover", "insert"}
  /\ ~SingleWriter => \A k \in Keys : lock[k] # NoJob => Exists(lock[k])
  /\ ~SingleWriter => \A j \in Jobs :
        epc[j] = "collide" => holder[j] \in Jobs /\ Exists(holder[j])

\* Steps that delete locks of live jobs, which end, and bring no job to life.
LEMMA LocksDropped ==
  ASSUME TypeOK, OwnLocks, NEW js \in SUBSET Jobs, \A j \in js : Live(j),
         lock' = DeleteLocks(js) \/ lock' = lock, UNCHANGED <<ttlOver, epc>>,
         \A j \in Jobs : Live(j)' => Live(j) /\ j \notin js
  PROVE  OwnLocks'
<1> USE StorageAssumption DEF TypeOK, LockTypes
<1>1. ASSUME NEW j \in Jobs, Live(j)', UniqueKey[j] # NoKey
      PROVE  lock'[UniqueKey[j]] = j
  <2>1. UniqueKey[j] \in Keys /\ lock[UniqueKey[j]] = j /\ j \notin js
    BY <1>1 DEF OwnLocks
  <2>2. \A i \in js : UniqueKey[i] # UniqueKey[j]
    BY <1>1, <2>1 DEF OwnLocks
  <2> QED
    BY <2>1, <2>2 DEF DeleteLocks
<1> QED
  BY <1>1 DEF OwnLocks

\* Steps that write no lock and bring no job to life.
LEMMA QuietLocks ==
  ASSUME TypeOK, OwnLocks, UNCHANGED <<lock, ttlOver, epc>>,
         \A j \in Jobs : Live(j)' => Live(j)
  PROVE  OwnLocks'
BY DEF OwnLocks

\* Enqueue in a transaction takes the locks of its jobs, of which no live job has
\* the key.
LEMMA LocksTaken ==
  ASSUME TypeOK, OwnLocks, NEW js \in SUBSET Jobs, LocksAvailable(js),
         lock' = TakeLocks(js), UNCHANGED ttlOver,
         \A j \in Jobs \ js : Live(j)' => Live(j)
  PROVE  \A j \in Jobs : Live(j)' /\ UniqueKey[j] # NoKey => lock'[UniqueKey[j]] = j
<1> USE StorageAssumption DEF TypeOK, LockTypes
<1> SUFFICES ASSUME NEW j \in Jobs, Live(j)', UniqueKey[j] # NoKey
             PROVE  lock'[UniqueKey[j]] = j
  OBVIOUS
<1> DEFINE k == UniqueKey[j]
<1>1. k \in Keys
  OBVIOUS
<1>2. CASE j \in js
  <2>1. \A i \in js : UniqueKey[i] = k => i = j
    BY <1>2 DEF LocksAvailable
  <2>2. (CHOOSE i \in js : UniqueKey[i] = k) = j
    BY <1>2, <2>1
  <2> QED
    BY <1>1, <1>2, <2>2 DEF TakeLocks
<1>3. CASE j \notin js
  <2>1. Live(j) /\ lock[k] = j
    BY <1>3 DEF OwnLocks
  <2>2. LockStands(j)
    BY <2>1 DEF OwnLocks, LockStands, Live, Exists
  <2>3. \A i \in js : UniqueKey[i] # k
    BY <1>1, <2>1, <2>2 DEF LocksAvailable
  <2> QED
    BY <1>1, <2>1, <2>3 DEF TakeLocks
<1> QED
  BY <1>2, <1>3

\* Enqueue calls.
LEMMA EnqueueLocks ==
  ASSUME TypeOK, StatementsAlone, OwnLocks, KeyHolders, KeysInTransactions,
         \/ \E j \in Jobs : EnqueueStep(j) \/ EnqueueDies(j)
         \/ EnqueueWorkflow
  PROVE  OwnLocks'
<1> USE StorageAssumption
<1> USE DEF TypeOK, EnqueueTypes, JobTypes
<1>1. ASSUME NEW j \in Jobs, EnqueueLock(j) \/ EnqueueInsert(j)
      PROVE  OwnLocks'
  <2>1. UniqueKey[j] = NoKey
    BY <1>1 DEF EnqueueLock, EnqueueInsert, StatementsAlone, KeysInTransactions
  <2>2. UNCHANGED <<lock, ttlOver>>
    BY <1>1, <2>1 DEF EnqueueLock, EnqueueInsert, lockVars
  <2>3. \A i \in Jobs \ {j} : status'[i] = status[i]
    BY <1>1 DEF EnqueueLock, EnqueueInsert, jobVars
  <2> QED
    BY <2>1, <2>2, <2>3 DEF OwnLocks, Live
<1>2. ASSUME NEW j \in Jobs, EnqueueCheck(j) \/ EnqueueCollide(j) \/ EnqueueDies(j)
      PROVE  OwnLocks'
  BY <1>2 DEF EnqueueCheck, EnqueueCollide, EnqueueDies, jobVars, lockVars, OwnLocks, Live
<1>3. ASSUME NEW j \in Jobs
      PROVE  ~EnqueueTakeover(j) /\ ~TakeoverInBatch(j)
  BY DEF EnqueueTakeover, TakeoverInBatch, KeyHolders
<1>4. ASSUME NEW j \in Jobs, EnqueueInBatch(j)
      PROVE  OwnLocks'
  <2>1. UNCHANGED ttlOver
    BY <1>4 DEF EnqueueInBatch
  <2>2. CASE UNCHANGED <<lock, status>>
    BY <2>1, <2>2 DEF OwnLocks, Live
  <2>3. CASE AddToBatch(j) /\ LocksAvailable({j})
    <3>1. lock' = TakeLocks({j}) /\ \A i \in Jobs \ {j} : status'[i] = status[i]
      BY <2>3 DEF AddToBatch
    <3> QED
      BY <2>1, <2>3, <3>1, LocksTaken DEF OwnLocks, Live
  <2> QED
    BY <1>4, <2>2, <2>3 DEF EnqueueInBatch
<1>5. CASE EnqueueWorkflow
  <2>1. UNCHANGED ttlOver
    BY <1>5 DEF EnqueueWorkflow
  <2>2. \A i \in Jobs : IF i \in Workflow THEN epc'[i] \in {"done", "duplicate"}
                        ELSE epc'[i] = epc[i] /\ status'[i] = status[i]
    BY <1>5 DEF EnqueueWorkflow
  <2>4. CASE LocksAvailable(Workflow)
    <3>1. lock' = TakeLocks(Workflow)
      BY <1>5, <2>4 DEF EnqueueWorkflow
    <3> QED
      BY <2>1, <2>2, <2>4, <3>1, LocksTaken DEF OwnLocks, Live
  <2>5. CASE ~LocksAvailable(Workflow)
    <3>1. UNCHANGED <<lock, status>>
      BY <1>5, <2>5 DEF EnqueueWorkflow
    <3> QED
      BY <2>1, <3>1 DEF OwnLocks, Live
  <2> QED
    BY <2>4, <2>5
<1> QED
  BY <1>1, <1>2, <1>3, <1>4, <1>5 DEF EnqueueStep

\* Enqueue calls, as far as KeyHolders is concerned.
LEMMA EnqueueHolders ==
  ASSUME TypeOK, Ownership, StatementsAlone, OwnLocks, KeyHolders, KeysInTransactions,
         \/ \E j \in Jobs : EnqueueStep(j) \/ EnqueueDies(j)
         \/ EnqueueWorkflow
  PROVE  KeyHolders'
<1> USE StorageAssumption
<1> USE DEF TypeOK, EnqueueTypes, JobTypes, LockTypes
<1>1. ASSUME UNCHANGED <<lock, holder>>, NEW j \in Jobs, NEW p \in EnqueuePcs,
             epc' = [epc EXCEPT ![j] = p], p \in {"insert", "done", "duplicate", "error"},
             p = "insert" => UniqueKey[j] = NoKey,
             \A i \in Jobs : Exists(i) => Exists(i)'
      PROVE  KeyHolders'
  BY <1>1 DEF KeyHolders
<1>2. ASSUME NEW j \in Jobs, EnqueueLock(j) \/ EnqueueInsert(j)
      PROVE  KeyHolders'
  <2>1. UniqueKey[j] = NoKey
    BY <1>2 DEF EnqueueLock, EnqueueInsert, StatementsAlone, KeysInTransactions
  <2>2. UNCHANGED <<lock, holder>> /\ \E p \in {"insert", "done"} :
           epc' = [epc EXCEPT ![j] = p]
    BY <1>2, <2>1 DEF EnqueueLock, EnqueueInsert, lockVars
  <2>3. \A i \in Jobs : Exists(i) => Exists(i)'
    BY <1>2 DEF EnqueueLock, EnqueueInsert, jobVars, Exists
  <2> QED
    BY <1>1, <2>1, <2>2, <2>3 DEF EnqueuePcs
<1>3. ASSUME NEW j \in Jobs, EnqueueDies(j)
      PROVE  KeyHolders'
  BY <1>1, <1>3 DEF EnqueueDies, jobVars, lockVars, Exists, EnqueuePcs
<1>4. ASSUME NEW j \in Jobs, EnqueueCheck(j)
      PROVE  KeyHolders'
  <2>1. epc[j] = "check" /\ ~SingleWriter /\ UniqueKey[j] \in Keys /\ ~Exists(j)
    BY <1>4 DEF EnqueueCheck, KeyHolders, Ownership, NoRowsYet, Exists
  <2> DEFINE h == lock[UniqueKey[j]]
  <2>2. h # j /\ h \in Jobs \cup {NoJob} /\ (h # NoJob => Exists(h))
    BY <2>1 DEF KeyHolders
  <2>3. /\ UNCHANGED <<status, lock>>
        /\ epc' = [epc EXCEPT ![j] = IF h = NoJob THEN "error" ELSE "collide"]
        /\ holder' = [holder EXCEPT ![j] = h]
    BY <1>4, <2>2 DEF EnqueueCheck, jobVars, lockVars
  <2> HIDE DEF h
  <2> QED
    BY <2>1, <2>2, <2>3 DEF KeyHolders, Exists
<1>5. ASSUME NEW j \in Jobs, EnqueueCollide(j)
      PROVE  KeyHolders'
  <2>1. LockStands(holder[j])
    BY <1>5 DEF EnqueueCollide, KeyHolders, LockStands, OwnLocks
  <2>2. UNCHANGED <<status, lock, holder>> /\ epc' = [epc EXCEPT ![j] = "duplicate"]
    BY <1>5, <2>1 DEF EnqueueCollide, jobVars, lockVars
  <2> QED
    BY <1>1, <2>2 DEF Exists, EnqueuePcs
<1>6. ASSUME NEW j \in Jobs
      PROVE  ~EnqueueTakeover(j) /\ ~TakeoverInBatch(j)
  BY DEF EnqueueTakeover, TakeoverInBatch, KeyHolders
<1>7. ASSUME NEW js \in SUBSET Jobs, lock' = TakeLocks(js), UNCHANGED holder,
             \A j \in Jobs : IF j \in js THEN epc'[j] = "done" /\ Exists(j)'
                             ELSE epc'[j] = epc[j] /\ status'[j] = status[j]
      PROVE  KeyHolders'
  <2>1. \A i \in Jobs : Exists(i) => Exists(i)'
    BY <1>7 DEF Exists
  <2>2. \A k \in Keys : lock'[k] \in js \/ lock'[k] = lock[k]
    BY <1>7 DEF TakeLocks
  <2> QED
    BY <1>7, <2>1, <2>2 DEF KeyHolders
<1>8. ASSUME NEW j \in Jobs, EnqueueInBatch(j)
      PROVE  KeyHolders'
  <2>1. UNCHANGED holder /\ epc[j] = "new"
    BY <1>8 DEF EnqueueInBatch
  <2>2. CASE AddToBatch(j)
    <3>1. lock' = TakeLocks({j}) /\ {j} \in SUBSET Jobs
      BY <2>2 DEF AddToBatch
    <3>2. \A i \in Jobs : IF i \in {j} THEN epc'[i] = "done" /\ Exists(i)'
                          ELSE epc'[i] = epc[i] /\ status'[i] = status[i]
      BY <2>2 DEF AddToBatch, Exists
    <3> QED
      BY <1>7, <2>1, <3>1, <3>2
  <2>3. CASE ~AddToBatch(j)
    <3>1. /\ UNCHANGED <<lock, status>>
          /\ epc' = [epc EXCEPT ![j] = IF MustLook(j) THEN "check" ELSE "duplicate"]
      BY <1>8, <2>3 DEF EnqueueInBatch
    <3>2. MustLook(j) => ~SingleWriter
      BY DEF MustLook
    <3> QED
      BY <2>1, <3>1, <3>2 DEF KeyHolders, Exists
  <2> QED
    BY <2>2, <2>3
<1>9. CASE EnqueueWorkflow
  <2>1. CASE LocksAvailable(Workflow)
    <3>1. lock' = TakeLocks(Workflow) /\ UNCHANGED holder
      BY <1>9, <2>1 DEF EnqueueWorkflow
    <3>2. \A j \in Jobs : IF j \in Workflow THEN epc'[j] = "done" /\ Exists(j)'
                          ELSE epc'[j] = epc[j] /\ status'[j] = status[j]
      BY <1>9, <2>1 DEF EnqueueWorkflow, Exists, FirstStatus
    <3> QED
      BY <1>7, <3>1, <3>2
  <2>2. CASE ~LocksAvailable(Workflow)
    <3>1. /\ UNCHANGED <<status, lock, holder>>
          /\ \A j \in Jobs : epc'[j] = IF j \in Workflow THEN "duplicate" ELSE epc[j]
      BY <1>9, <2>2 DEF EnqueueWorkflow
    <3> QED
      BY <3>1 DEF KeyHolders, Exists
  <2> QED
    BY <2>1, <2>2
<1> QED
  BY <1>2, <1>3, <1>4, <1>5, <1>6, <1>8, <1>9 DEF EnqueueStep

\* Workers: a job loses its lock when it ends, and never that of another.
LEMMA WorkerLocks ==
  ASSUME TypeOK, Ownership, Standing, OwnLocks, NEW w \in Workers, WorkerStep(w)
  PROVE  OwnLocks'
<1> USE StorageAssumption, HasJob
<1> USE DEF TypeOK, JobTypes, WorkerTypes
<1>1. CASE \/ Poll(w) \/ DequeueNothing(w) \/ CheckLimits(w) \/ Perform(w)
           \/ AckRead(w) \/ AckBegin(w) \/ AckResolve(w) \/ FailRead(w)
  <2>1. UNCHANGED <<status, lock, ttlOver, epc>>
    BY <1>1 DEF Poll, DequeueNothing, CheckLimits, Perform, AckRead, AckBegin,
                AckResolve, AckDelete, AckCount, FailRead, jobVars, lockVars, enqVars
  <2> QED
    BY <2>1, QuietLocks DEF Live
<1>2. ASSUME NEW j \in Jobs, Dequeue(w, j)
      PROVE  OwnLocks'
  <2>1. /\ status[j] = "pending" /\ status' = [status EXCEPT ![j] = "running"]
        /\ UNCHANGED <<lock, ttlOver, epc>>
    BY <1>2 DEF Dequeue, Takeable, lockVars, enqVars
  <2> QED
    BY <2>1, QuietLocks DEF Live
<1>3. CASE PostponeJob(w) \/ FailRetry(w)
  <2>1. PICK j \in Jobs : j = job[w] /\ status[j] = "running"
    BY <1>3 DEF PostponeJob, FailRetry, Standing
  <2>2. /\ status' = [status EXCEPT ![j] = "pending"]
        /\ UNCHANGED <<lock, ttlOver, epc>>
    BY <1>3, <2>1 DEF PostponeJob, FailRetry, Requeued, lockVars, enqVars
  <2> QED
    BY <2>1, <2>2, QuietLocks DEF Live
<1>4. CASE AckCommit(w)
  <2>1. PICK j \in Jobs : j = job[w] /\ status[j] = "running" /\ deps[j] = {}
    BY <1>4 DEF AckCommit, Standing, Ownership, HeldJobs
  <2>2. /\ status' = [i \in Jobs |-> IF status[i] = "absent" THEN "absent"
                                     ELSE IF i \in ready[w] THEN "pending"
                                     ELSE IF i = j THEN "processed" ELSE status[i]]
        /\ lock' = DeleteLocks({j}) \/ lock' = lock
        /\ UNCHANGED <<ttlOver, epc>>
    BY <1>4, <2>1 DEF AckCommit, enqVars
  <2>3. \A c \in ready[w] : Exists(c) => j \in deps[c]
    BY <1>4, <2>1 DEF AckCommit, Ownership, KidsWait, InTransaction
  <2>4. j \notin ready[w] /\ \A c \in Jobs \cap ready[w] : status[c] \in {"blocked", "absent"}
    BY <2>1, <2>3 DEF Ownership, RunnableIsFree, Exists, Statuses
  <2>5. \A i \in Jobs : Live(i)' => Live(i) /\ i \notin {j}
    BY <2>1, <2>2, <2>4 DEF Live
  <2>6. {j} \in SUBSET Jobs /\ \A i \in {j} : Live(i)
    BY <2>1 DEF Live
  <2> QED
    BY <2>2, <2>5, <2>6, LocksDropped
<1>5. CASE FailDead(w)
  <2>1. PICK j \in Jobs : j = job[w] /\ status[j] = "running"
    BY <1>5 DEF FailDead, Standing
  <2> DEFINE js == WithRow(Descendants(j)) \cup {j}
  <2>2. /\ status' = [i \in Jobs |-> IF i \in Descendants(j) \cup {j} /\ Exists(i)
                                     THEN "dead" ELSE status[i]]
        /\ lock' = DeleteLocks(js)
        /\ UNCHANGED <<ttlOver, epc>>
    BY <1>5, <2>1 DEF FailDead, Kill, enqVars
  <2>3. \A i \in js : Live(i)
    BY <2>1, CascadeWaits, SeenState, DescendantsAreJobs DEF WithRow, Live
  <2>4. js \in SUBSET Jobs
    BY DescendantsAreJobs DEF WithRow
  <2>5. \A i \in Jobs : Live(i)' => Live(i) /\ i \notin js
    BY <2>2 DEF Live, WithRow, Exists
  <2> HIDE DEF js
  <2> QED
    BY <2>2, <2>3, <2>4, <2>5, LocksDropped
<1> QED
  BY <1>1, <1>2, <1>3, <1>4, <1>5 DEF WorkerStep, Finalize

\* Administration of finished and dead jobs, faults and batches.
LEMMA OtherLocks ==
  ASSUME TypeOK, OwnLocks, KeysInTransactions,
         \/ AdminStep
         \/ \E w \in Workers : Shutdown(w) \/ CallFails(w) \/ Crash(w)
         \/ \E j \in Jobs : LockExpires(j)
         \/ \E b \in Batches : BatchExpires(b) \/ CreateBatch(b) \/ SubmitBatch(b)
         \/ FailExpiredBatches \/ AtRest \/ UNCHANGED vars
  PROVE  OwnLocks'
<1> USE DEF TypeOK, JobTypes
<1>1. CASE AdminStep
  <2>1. /\ \A js : ~BulkRetry(js) /\ ~BulkCancel(js) /\ ~BulkPurge(js)
        /\ \A j : ~Cancel(j)
        /\ ~ClearQueue /\ ~RetryAllFailed
    BY DEF KeysInTransactions, BulkRetry, BulkCancel, BulkPurge, Cancel, ClearQueue,
           RetryAllFailed, Admin
  <2>2. UNCHANGED <<lock, ttlOver, epc>>
    BY <1>1, <2>1 DEF AdminStep, PurgeDLQ, ArchiveJobs, SetPaused, lockVars, enqVars
  <2>3. \A j \in Jobs : status'[j] \in {status[j], "absent"}
    BY <1>1, <2>1 DEF AdminStep, PurgeDLQ, ArchiveJobs, Remove, SetPaused, jobVars
  <2> QED
    BY <2>2, <2>3, QuietLocks DEF Live
<1>2. CASE ~AdminStep
  <2>1. UNCHANGED <<status, lock, ttlOver, epc>>
    BY <1>2 DEF KeysInTransactions, Shutdown, CallFails, Crash, LockExpires,
                BatchExpires, CreateBatch, SubmitBatch, FailExpiredBatches, AtRest,
                vars, jobVars, lockVars, enqVars
  <2> QED
    BY <2>1, QuietLocks DEF Live
<1> QED
  BY <1>1, <1>2

\* On PostgreSQL no row goes away if nobody removes one.
LEMMA RowsStay ==
  ASSUME TypeOK, KeysInTransactions, ~SingleWriter,
         \/ AdminStep
         \/ \E w \in Workers :
              WorkerStep(w) \/ Shutdown(w) \/ CallFails(w) \/ Crash(w)
         \/ \E j \in Jobs : LockExpires(j)
         \/ \E b \in Batches : BatchExpires(b) \/ CreateBatch(b) \/ SubmitBatch(b)
         \/ FailExpiredBatches \/ AtRest \/ UNCHANGED vars
  PROVE  \A j \in Jobs : Exists(j) => Exists(j)'
<1> USE DEF TypeOK, JobTypes, Exists
<1>1. CASE AdminStep
  <2>1. /\ \A js : /\ ~BulkRetry(js) /\ ~BulkCancel(js) /\ ~BulkPurge(js)
                   /\ ~PurgeDLQ(js) /\ ~ArchiveJobs(js)
        /\ \A j : ~Cancel(j)
        /\ ~ClearQueue /\ ~RetryAllFailed
    BY DEF KeysInTransactions, BulkRetry, BulkCancel, BulkPurge, Cancel, ClearQueue,
           RetryAllFailed, PurgeDLQ, ArchiveJobs, Admin
  <2> QED
    BY <1>1, <2>1 DEF AdminStep, SetPaused, jobVars
<1>2. ASSUME NEW w \in Workers, WorkerStep(w) \/ Shutdown(w) \/ CallFails(w) \/ Crash(w)
      PROVE  \A j \in Jobs : Exists(j) => Exists(j)'
  <2>1. CASE UNCHANGED status
    BY <2>1
  <2>2. CASE AckCommit(w)
    BY <2>2 DEF AckCommit
  <2>3. CASE FailDead(w)
    BY <2>3 DEF FailDead, Kill
  <2>4. CASE PostponeJob(w) \/ FailRetry(w)
    BY <2>4 DEF PostponeJob, FailRetry, Requeued
  <2>5. ASSUME NEW j \in Jobs, Dequeue(w, j)
        PROVE  \A i \in Jobs : Exists(i) => Exists(i)'
    BY <2>5 DEF Dequeue
  <2> QED
    BY <1>2, <2>1, <2>2, <2>3, <2>4, <2>5
    DEF WorkerStep, Finalize, Poll, DequeueNothing, CheckLimits, Perform, AckRead,
        AckBegin, AckResolve, AckDelete, AckCount, FailRead, Shutdown, CallFails,
        Crash, jobVars
<1>3. CASE \/ \E j \in Jobs : LockExpires(j)
           \/ \E b \in Batches : BatchExpires(b) \/ CreateBatch(b) \/ SubmitBatch(b)
           \/ FailExpiredBatches \/ AtRest \/ UNCHANGED vars
  BY <1>3 DEF LockExpires, BatchExpires, CreateBatch, SubmitBatch,
              FailExpiredBatches, AtRest, vars, jobVars
<1> QED
  BY <1>1, <1>2, <1>3

\* All other steps leave what KeyHolders says.
LEMMA OtherHolders ==
  ASSUME TypeOK, KeyHolders, UNCHANGED enqVars, NoNewRows,
         ~SingleWriter => \A j \in Jobs : Exists(j) => Exists(j)'
  PROVE  KeyHolders'
<1>1. UNCHANGED <<epc, holder>>
  BY DEF enqVars
<1>2. \A k \in Keys : lock[k] \in Jobs \cup {NoJob}
  BY DEF TypeOK, LockTypes
<1> QED
  BY <1>1, <1>2 DEF KeyHolders, NoNewRows

\* At most one live job has a given unique key, for any number of jobs, keys,
\* batches and workflows, with crashes and cancelled contexts, when jobs are
\* enqueued in transactions, locks do not expire and rows are not removed under
\* a transaction.
THEOREM OneLiveJobPerKey ==
  ASSUME SafeUnblocking, KeysInTransactions
  PROVE  Spec => []UniqueLive
<1>1. LeavesUnfinished
  BY DEF KeysInTransactions, LeavesUnfinished
<1>2. Init => OwnLocks
  BY DEF Init, OwnLocks, Live
<1>3. Init => KeyHolders
  BY DEF Init, KeyHolders
<1>4. TypeOK /\ Ownership /\ Standing /\ StatementsAlone /\ OwnLocks /\ KeyHolders
      /\ [Next]_vars => OwnLocks'
  BY EnqueueLocks, WorkerLocks, OtherLocks DEF Next, FaultStep
<1>5. TypeOK /\ Ownership /\ StatementsAlone /\ OwnLocks /\ KeyHolders
      /\ [Next]_vars => KeyHolders'
  BY EnqueueHolders, OtherHolders, LocksLeft, RowsStay DEF Next, FaultStep
<1>6. OwnLocks => UniqueLive
  BY StorageAssumption DEF OwnLocks, UniqueLive
<1> QED
  BY <1>1, <1>2, <1>3, <1>4, <1>5, <1>6, StandingHolds, AloneHolds, PTL DEF Spec

-----------------------------------------------------------------------------
(***************************************************************************)
(* Workflows.                                                              *)
(***************************************************************************)

\* The jobs of the workflow are enqueued together or not at all.
AllTogether ==
  /\ \A i, j \in Workflow : epc[i] = "done" => epc[j] = "done"
  /\ \A j \in Workflow : epc[j] \in {"new", "done", "duplicate"}

\* A job that is neither dead nor gone waits for its parents or has seen them
\* acknowledged.
StillWaits ==
  \A j \in Workflow : epc[j] = "done" /\ status[j] \notin {"dead", "absent"} =>
    \A p \in Parents[j] : p \in deps[j] \/ acked[p] > 0

Ordered == AllTogether /\ StillWaits

\* Nobody revives a dead job.
NoRevival == AdminOps \cap {"Retry", "RetryAllFailed"} = {}

\* Steps that delete no dependency but those of dead and removed jobs, revive no
\* job, and leave the enqueue calls of the workflow alone.
LEMMA QuietOrder ==
  ASSUME TypeOK, Ordered,
         \A j \in Workflow : epc'[j] = epc[j],
         \A j \in Jobs : acked[j] > 0 => acked'[j] > 0,
         \A j \in Workflow : status[j] \in {"dead", "absent"} =>
            status'[j] \in {"dead", "absent"},
         \A j \in Workflow : deps'[j] = deps[j] \/ status'[j] \in {"dead", "absent"}
  PROVE  Ordered'
<1> USE StorageAssumption
<1>1. AllTogether'
  BY DEF Ordered, AllTogether
<1>2. StillWaits'
  BY DEF Ordered, StillWaits
<1> QED
  BY <1>1, <1>2 DEF Ordered

\* Enqueue calls: EnqueueWorkflow writes all rows and dependencies at once.
LEMMA EnqueueOrder ==
  ASSUME TypeOK, Ownership, Ordered,
         \/ \E j \in Jobs : EnqueueStep(j) \/ EnqueueDies(j)
         \/ EnqueueWorkflow
  PROVE  Ordered'
<1> USE StorageAssumption
<1> USE DEF TypeOK, EnqueueTypes, JobTypes
<1>1. ASSUME NEW j \in Jobs, EnqueueStep(j) \/ EnqueueDies(j)
      PROVE  Ordered'
  <2>1. j \notin Workflow
    BY <1>1 DEF EnqueueStep, EnqueueLock, EnqueueCheck, EnqueueCollide,
                EnqueueTakeover, EnqueueInsert, EnqueueInBatch, TakeoverInBatch, AddToBatch, EnqueueDies, Alone,
                Ordered, AllTogether
  <2>2. /\ \A i \in Jobs \ {j} : epc'[i] = epc[i] /\ status'[i] = status[i]
        /\ UNCHANGED <<deps, acked>>
    BY <1>1 DEF EnqueueStep, EnqueueLock, EnqueueCheck, EnqueueCollide,
                EnqueueTakeover, EnqueueInsert, EnqueueInBatch, TakeoverInBatch, AddToBatch, EnqueueDies, jobVars
  <2> QED
    BY <2>1, <2>2, QuietOrder
<1>2. CASE EnqueueWorkflow /\ LocksAvailable(Workflow)
  <2>1. /\ deps' = [j \in Jobs |-> IF j \in Workflow THEN deps[j] \cup Parents[j]
                                   ELSE deps[j]]
        /\ epc' = [j \in Jobs |-> IF j \in Workflow THEN "done" ELSE epc[j]]
    BY <1>2 DEF EnqueueWorkflow
  <2> QED
    BY <2>1 DEF Ordered, AllTogether, StillWaits
<1>3. CASE EnqueueWorkflow /\ ~LocksAvailable(Workflow)
  <2>1. epc' = [j \in Jobs |-> IF j \in Workflow THEN "duplicate" ELSE epc[j]]
    BY <1>3 DEF EnqueueWorkflow
  <2> QED
    BY <2>1 DEF Ordered, AllTogether, StillWaits
<1> QED
  BY <1>1, <1>2, <1>3

\* The commit of an Ack deletes the dependency on the job it acknowledges.
LEMMA CommitOrder ==
  ASSUME TypeOK, Ownership, Ordered, NEW w \in Workers, AckCommit(w)
  PROVE  Ordered'
<1> USE StorageAssumption, HasJob
<1> USE DEF TypeOK, JobTypes, WorkerTypes
<1>1. PICK j \in Jobs : j = job[w] /\ deps[j] = {} /\ pc[w] = "ackcount"
  BY DEF AckCommit, Ownership, HeldJobs
<1>2. /\ status' = [i \in Jobs |-> IF status[i] = "absent" THEN "absent"
                                   ELSE IF i \in ready[w] THEN "pending"
                                   ELSE IF i = j THEN "processed" ELSE status[i]]
      /\ \A c \in Jobs : deps'[c] \in {deps[c], deps[c] \ {j}}
      /\ acked' = [acked EXCEPT ![j] = @ + 1]
      /\ UNCHANGED epc
  BY <1>1 DEF AckCommit, enqVars
<1>3. \A c \in ready[w] : Exists(c) => j \in deps[c]
  BY <1>1 DEF Ownership, KidsWait, InTransaction
<1>4. \A c \in Jobs \cap ready[w] : status[c] \in {"blocked", "absent"}
  BY <1>3 DEF Ownership, RunnableIsFree, Exists, Statuses
<1>5. \A i \in Jobs \ {j} : acked'[i] = acked[i]
  BY <1>2
<1>6. acked[j] \in Nat /\ acked'[j] = acked[j] + 1
  BY <1>2
<1>7. status[j] \in {"running", "absent"}
  BY <1>1 DEF Ownership, HeldJobs
<1>8. \A i \in Jobs : status'[i] \notin {"dead", "absent"} =>
                      status[i] \notin {"dead", "absent"}
  BY <1>2, <1>4, <1>7
<1>9. StillWaits'
  BY <1>2, <1>5, <1>6, <1>8 DEF Ordered, StillWaits
<1> QED
  BY <1>2, <1>9 DEF Ordered, AllTogether

\* All other steps of workers: a cascade kills those whose dependencies it deletes.
LEMMA WorkerOrder ==
  ASSUME TypeOK, Ownership, Ordered, NEW w \in Workers,
         WorkerStep(w) \/ Shutdown(w) \/ CallFails(w) \/ Crash(w)
  PROVE  Ordered'
<1> USE StorageAssumption, HasJob
<1> USE DEF TypeOK, JobTypes
<1>1. CASE AckCommit(w)
  BY <1>1, CommitOrder
<1>2. CASE PostponeJob(w) \/ FailRetry(w)
  <2>1. PICK j \in Jobs : j = job[w] /\ status[j] \in {"running", "absent"}
    BY <1>2 DEF PostponeJob, FailRetry, Ownership, HeldJobs
  <2>2. /\ status' = [status EXCEPT ![j] = Requeued(@)]
        /\ UNCHANGED <<deps, epc, acked>>
    BY <1>2, <2>1 DEF PostponeJob, FailRetry, enqVars
  <2> QED
    BY <2>1, <2>2, QuietOrder DEF Requeued
<1>3. CASE FailDead(w)
  <2>1. /\ \A i \in Jobs : status'[i] \in {status[i], "dead"}
        /\ \A i \in Jobs : i \in Descendants(job[w]) => status'[i] \in {"dead", "absent"}
        /\ \A i \in Jobs : i \notin Descendants(job[w]) => deps'[i] = deps[i]
        /\ UNCHANGED <<epc, acked>>
    BY <1>3 DEF FailDead, Kill, Exists, enqVars
  <2> QED
    BY <2>1, QuietOrder
<1>4. ASSUME NEW j \in Jobs, Dequeue(w, j)
      PROVE  Ordered'
  BY <1>4, QuietOrder DEF Dequeue, Takeable, enqVars
<1>5. CASE \/ Poll(w) \/ DequeueNothing(w) \/ CheckLimits(w) \/ Perform(w)
           \/ AckRead(w) \/ AckBegin(w) \/ AckResolve(w) \/ FailRead(w)
           \/ Shutdown(w) \/ CallFails(w) \/ Crash(w)
  <2>1. UNCHANGED <<status, deps, epc, acked>>
    BY <1>5 DEF Poll, DequeueNothing, CheckLimits, Perform, AckRead, AckBegin,
                AckResolve, AckDelete, AckCount, FailRead, Shutdown, CallFails, Crash, jobVars, enqVars
  <2> QED
    BY <2>1, QuietOrder
<1> QED
  BY <1>1, <1>2, <1>3, <1>4, <1>5 DEF WorkerStep, Finalize

\* Administration that revives nobody, and what does not write a job row.
LEMMA OtherOrder ==
  ASSUME TypeOK, Ordered, NoRevival,
         \/ AdminStep
         \/ \E j \in Jobs : LockExpires(j)
         \/ \E b \in Batches : BatchExpires(b) \/ CreateBatch(b) \/ SubmitBatch(b)
         \/ FailExpiredBatches \/ AtRest \/ UNCHANGED vars
  PROVE  Ordered'
<1> USE StorageAssumption
<1> USE DEF TypeOK, JobTypes
<1>1. CASE AdminStep
  <2>1. ~RetryAllFailed /\ \A js : ~BulkRetry(js)
    BY DEF NoRevival, BulkRetry, RetryAllFailed, Admin
  <2>2. UNCHANGED <<epc, acked>>
    BY <1>1, <2>1 DEF AdminStep, Cancel, BulkCancel, BulkPurge, ClearQueue, PurgeDLQ,
                      ArchiveJobs, SetPaused, enqVars
  <2>3. \A j \in Jobs :
           /\ status[j] \in {"dead", "absent"} => status'[j] \in {"dead", "absent"}
           /\ deps'[j] = deps[j] \/ status'[j] \in {"dead", "absent"}
    <3>1. ASSUME NEW i \in Jobs, Cancel(i), NEW j \in Jobs
          PROVE  /\ status[j] \in {"dead", "absent"} => status'[j] \in {"dead", "absent"}
                 /\ deps'[j] = deps[j] \/ status'[j] \in {"dead", "absent"}
      <4>1. /\ status' = [c \in Jobs |-> IF c = i THEN "absent"
                                         ELSE IF c \in Descendants(i) /\ Exists(c)
                                         THEN "dead" ELSE status[c]]
            /\ \A c \in Jobs \ (Descendants(i) \cup {i}) : deps'[c] = deps[c]
        BY <3>1 DEF Cancel
      <4> QED
        BY <4>1 DEF Exists
    <3>2. CASE \A i \in Jobs : ~Cancel(i)
      <4>1. ASSUME NEW js \in SUBSET Jobs, Remove(js)
            PROVE  \A j \in Jobs : /\ status'[j] \in {status[j], "absent"}
                                   /\ deps'[j] = deps[j] \/ status'[j] = "absent"
        BY <4>1 DEF Remove, DropDeps
      <4> QED
        BY <1>1, <2>1, <3>2, <4>1 DEF AdminStep, BulkCancel, BulkPurge, ClearQueue,
                                      PurgeDLQ, ArchiveJobs, SetPaused, jobVars
    <3> QED
      BY <3>1, <3>2
  <2> QED
    BY <2>2, <2>3, QuietOrder
<1>2. CASE ~AdminStep
  <2>1. UNCHANGED <<status, deps, epc, acked>>
    BY <1>2 DEF LockExpires, BatchExpires, CreateBatch, SubmitBatch,
                FailExpiredBatches, AtRest, vars, jobVars, enqVars
  <2> QED
    BY <2>1, QuietOrder
<1> QED
  BY <1>1, <1>2

\* Ordered is an invariant.
LEMMA OrderedHolds ==
  ASSUME SafeUnblocking, NoRevival
  PROVE  Spec => [](TypeOK /\ Ownership /\ Ordered)
<1>1. "Retry" \notin AdminOps
  BY DEF NoRevival
<1>2. Init => Ordered
  BY StorageAssumption DEF Init, Ordered, AllTogether, StillWaits
<1>3. TypeOK /\ Ownership /\ Ordered /\ [Next]_vars => Ordered'
  BY EnqueueOrder, WorkerOrder, OtherOrder DEF Next, FaultStep
<1> QED
  BY <1>1, <1>2, <1>3, StorageTypeCorrect, OwnershipHolds, PTL DEF Spec

\* A job starts only after all its parents have been acknowledged: for any
\* dependencies on SQLite, chains and trees on PostgreSQL, with crashes, cancelled
\* contexts and every administration call that revives no dead job.
THEOREM ParentsComeFirst ==
  ASSUME SafeUnblocking, NoRevival
  PROVE  Spec => []ParentsFirst
<1>1. TypeOK /\ Ownership /\ Ordered => ParentsFirst
  BY StorageAssumption
  DEF Ownership, RunnableIsFree, NoRowsYet, Ordered, StillWaits, ParentsFirst
<1> QED
  BY <1>1, OrderedHolds, PTL

\* A cascade goes on below everything it reaches.
LEMMA DescendantsClosed ==
  ASSUME NEW i
  PROVE  /\ Children(i) \subseteq Descendants(i)
         /\ \A d \in Descendants(i) : Children(d) \subseteq Descendants(i)
BY DEF Descendants, Children

\* Nobody removes or revives a job.
NoAdministration == AdminOps \subseteq {"Pause"}

\* The rows of enqueued jobs stay, and the children of a dead job are dead.
FailFast ==
  /\ \A j \in Jobs : epc[j] = "done" => Exists(j)
  /\ DeadParentKillsChild

\* Steps that keep every row and kill nobody.
LEMMA QuietFailFast ==
  ASSUME TypeOK, FailFast,
         \A j \in Jobs : epc'[j] = "done" => epc[j] = "done",
         \A j \in Jobs : status'[j] = "absent" => status[j] = "absent",
         \A j \in Jobs : status'[j] = "dead" <=> status[j] = "dead"
  PROVE  FailFast'
<1> USE StorageAssumption
<1>1. \A j \in Jobs : epc'[j] = "done" => Exists(j)'
  BY DEF FailFast, Exists
<1>2. DeadParentKillsChild'
  BY DEF FailFast, DeadParentKillsChild
<1> QED
  BY <1>1, <1>2 DEF FailFast

\* Enqueue calls write rows that are pending or blocked.
LEMMA EnqueueFailFast ==
  ASSUME TypeOK, Ownership, FailFast,
         \/ \E j \in Jobs : EnqueueStep(j) \/ EnqueueDies(j)
         \/ EnqueueWorkflow
  PROVE  FailFast'
<1> USE StorageAssumption
<1> USE DEF TypeOK, EnqueueTypes, JobTypes
<1>1. ASSUME \A j \in Jobs :
               \/ status'[j] = status[j] /\ (epc'[j] = "done" => epc[j] = "done")
               \/ epc[j] # "done" /\ status'[j] \in {"pending", "blocked"}
      PROVE  FailFast'
  <2>1. \A j \in Jobs : epc'[j] = "done" => Exists(j)'
    BY <1>1 DEF FailFast, Exists
  <2>2. \A j \in Jobs : status'[j] = "dead" <=> status[j] = "dead"
    BY <1>1 DEF Ownership, NoRowsYet
  <2> QED
    BY <2>1, <2>2 DEF FailFast, DeadParentKillsChild
<1>2. ASSUME NEW j \in Jobs, EnqueueStep(j) \/ EnqueueDies(j)
      PROVE  FailFast'
  BY <1>1, <1>2 DEF EnqueueStep, EnqueueLock, EnqueueCheck, EnqueueCollide,
                    EnqueueTakeover, EnqueueInsert, EnqueueInBatch, TakeoverInBatch, AddToBatch, EnqueueDies, jobVars
<1>3. CASE EnqueueWorkflow
  BY <1>1, <1>3 DEF EnqueueWorkflow, FirstStatus
<1> QED
  BY <1>2, <1>3

\* Fail at the limit: a child of a job that dies now was dead, or it waited for
\* that job and the cascade reaches it.
LEMMA DeadFailFast ==
  ASSUME TypeOK, Ownership, Standing, Ordered, FailFast, NEW w \in Workers, FailDead(w)
  PROVE  FailFast'
<1> USE StorageAssumption, HasJob
<1> USE DEF TypeOK, JobTypes, WorkerTypes
<1>1. PICK j \in Jobs : j = job[w] /\ status[j] = "running"
  BY DEF FailDead, Standing
<1> DEFINE fall == Descendants(j) \cup {j}
<1>2. /\ status' = [i \in Jobs |-> IF i \in fall /\ Exists(i) THEN "dead" ELSE status[i]]
      /\ UNCHANGED epc
  BY <1>1 DEF FailDead, Kill, enqVars
<1>3. \A i \in fall : Exists(i) => i \in Jobs /\ Live(i)
  BY <1>1, CascadeWaits, SeenState DEF Live
<1>4. \A i \in Jobs : epc'[i] = "done" => Exists(i)'
  BY <1>2 DEF FailFast, Exists
<1>5. ASSUME NEW c \in Workflow, NEW p \in Parents[c] \cap Workflow, status'[p] = "dead"
      PROVE  status'[c] = "dead"
  <2>1. p \in Workflow /\ p \in Jobs /\ c \in Jobs
    OBVIOUS
  <2>2. CASE status[p] = "dead"
    BY <1>2, <1>5, <2>1, <2>2 DEF FailFast, DeadParentKillsChild
  <2>3. CASE status[p] # "dead"
    <3>1. p \in fall /\ Exists(p) /\ Live(p)
      BY <1>2, <1>3, <1>5, <2>1, <2>3
    <3>2. epc[c] = "done" /\ Exists(c)
      BY <2>1, <3>1 DEF Ownership, NoRowsYet, Exists, Ordered, AllTogether, FailFast
    <3>3. CASE status[c] = "dead"
      BY <1>2, <2>1, <3>3
    <3>4. CASE status[c] # "dead"
      <4>1. p \in deps[c] \/ acked[p] > 0
        BY <3>2, <3>4 DEF Ordered, StillWaits, Exists
      <4>2. ~(acked[p] > 0)
        BY <2>1, <3>1 DEF Standing, Live
      <4>3. c \in Descendants(j)
        BY <2>1, <3>1, <4>1, <4>2, DescendantsClosed DEF Children
      <4> QED
        BY <1>2, <2>1, <3>2, <4>3
    <3> QED
      BY <3>3, <3>4
  <2> QED
    BY <2>2, <2>3
<1> QED
  BY <1>4, <1>5 DEF FailFast, DeadParentKillsChild

\* All other steps kill nobody.
LEMMA OtherFailFast ==
  ASSUME TypeOK, Ownership, Standing, FailFast, NoAdministration,
         \/ \E w \in Workers :
              \/ Poll(w) \/ DequeueNothing(w) \/ \E j \in Jobs : Dequeue(w, j)
              \/ CheckLimits(w) \/ PostponeJob(w) \/ Perform(w)
              \/ AckRead(w) \/ AckBegin(w) \/ AckResolve(w) \/ AckCommit(w)
              \/ FailRead(w) \/ FailRetry(w)
              \/ Shutdown(w) \/ CallFails(w) \/ Crash(w)
         \/ AdminStep
         \/ \E j \in Jobs : LockExpires(j)
         \/ \E b \in Batches : BatchExpires(b) \/ CreateBatch(b) \/ SubmitBatch(b)
         \/ FailExpiredBatches \/ AtRest \/ UNCHANGED vars
  PROVE  FailFast'
<1> USE StorageAssumption, HasJob
<1> USE DEF TypeOK, JobTypes, WorkerTypes
<1>1. ASSUME NEW w \in Workers, NEW j \in Jobs, Dequeue(w, j)
      PROVE  FailFast'
  BY <1>1, QuietFailFast DEF Dequeue, Takeable, enqVars
<1>2. ASSUME NEW w \in Workers, PostponeJob(w) \/ FailRetry(w)
      PROVE  FailFast'
  <2>1. PICK j \in Jobs : j = job[w] /\ status[j] = "running"
    BY <1>2 DEF PostponeJob, FailRetry, Standing
  <2>2. status' = [status EXCEPT ![j] = "pending"] /\ UNCHANGED epc
    BY <1>2, <2>1 DEF PostponeJob, FailRetry, Requeued, enqVars
  <2> QED
    BY <2>1, <2>2, QuietFailFast
<1>3. ASSUME NEW w \in Workers, AckCommit(w)
      PROVE  FailFast'
  <2>1. PICK j \in Jobs : j = job[w] /\ status[j] = "running" /\ pc[w] = "ackcount"
    BY <1>3 DEF AckCommit, Standing
  <2>2. /\ status' = [i \in Jobs |-> IF status[i] = "absent" THEN "absent"
                                     ELSE IF i \in ready[w] THEN "pending"
                                     ELSE IF i = j THEN "processed" ELSE status[i]]
        /\ UNCHANGED epc
    BY <1>3, <2>1 DEF AckCommit, enqVars
  <2>3. \A c \in Jobs \cap ready[w] : status[c] \in {"blocked", "absent"}
    BY <2>1 DEF Ownership, KidsWait, InTransaction, RunnableIsFree, Exists, Statuses
  <2> QED
    BY <2>1, <2>2, <2>3, QuietFailFast
<1>4. CASE \/ \E w \in Workers :
                \/ Poll(w) \/ DequeueNothing(w) \/ CheckLimits(w) \/ Perform(w)
                \/ AckRead(w) \/ AckBegin(w) \/ AckResolve(w) \/ FailRead(w)
                \/ Shutdown(w) \/ CallFails(w) \/ Crash(w)
           \/ \E j \in Jobs : LockExpires(j)
           \/ \E b \in Batches : BatchExpires(b) \/ CreateBatch(b) \/ SubmitBatch(b)
           \/ FailExpiredBatches \/ AtRest \/ UNCHANGED vars
  <2>1. UNCHANGED <<status, epc>>
    BY <1>4 DEF Poll, DequeueNothing, CheckLimits, Perform, AckRead, AckBegin,
                AckResolve, AckDelete, AckCount, FailRead, Shutdown, CallFails, Crash, LockExpires,
                BatchExpires, CreateBatch, SubmitBatch, FailExpiredBatches, AtRest,
                vars, jobVars, enqVars
  <2> QED
    BY <2>1, QuietFailFast
<1>5. CASE AdminStep
  <2>1. UNCHANGED <<status, epc>>
    BY <1>5 DEF NoAdministration, AdminStep, BulkRetry, RetryAllFailed, Cancel,
                BulkCancel, BulkPurge, ClearQueue, PurgeDLQ, ArchiveJobs, SetPaused,
                Admin, jobVars, enqVars
  <2> QED
    BY <2>1, QuietFailFast
<1> QED
  BY <1>1, <1>2, <1>3, <1>4, <1>5

\* Fail-fast: the children of a dead job are dead, down to the last descendant,
\* for any dependencies on SQLite, chains and trees on PostgreSQL, with crashes
\* and cancelled contexts, when nobody administrates the jobs.
THEOREM DeadParentsKill ==
  ASSUME SafeUnblocking, NoAdministration
  PROVE  Spec => []DeadParentKillsChild
<1>1. LeavesUnfinished /\ NoRevival
  BY DEF NoAdministration, LeavesUnfinished, NoRevival
<1>2. Init => FailFast
  BY StorageAssumption DEF Init, FailFast, DeadParentKillsChild
<1>3. TypeOK /\ Ownership /\ Standing /\ Ordered /\ FailFast /\ [Next]_vars => FailFast'
  BY EnqueueFailFast, DeadFailFast, OtherFailFast DEF NoAdministration, Next, WorkerStep, Finalize, FaultStep
<1>4. FailFast => DeadParentKillsChild
  BY DEF FailFast
<1> QED
  BY <1>1, <1>2, <1>3, <1>4, StandingHolds, OrderedHolds, PTL DEF Spec

-----------------------------------------------------------------------------
(***************************************************************************)
(* Joins.  Where unblocking is sound, a child that loses its last parent   *)
(* is released: PgJoinStuck shows that it is not without SafeUnblocking.   *)
(***************************************************************************)

\* No workflow is committed while a parent of its jobs is being acknowledged:
\* either the driver has one writer at a time, or the parents are in the workflow.
\* Without it the Ack may delete the dependency of a child it has not read.
ParentsEnqueuedTogether ==
  SingleWriter \/ \A j \in Workflow : Parents[j] \subseteq Workflow

\* An open Ack of a single writer is the only one.
OneTransaction == SingleWriter => \A v, w \in InTransaction : v = w

\* It has read every child of its job, deletes what each waits for, and has found
\* ready every one it has counted and is the last parent of.
KidsAll ==
  \A w \in InTransaction : \A c \in Jobs : job[w] \in deps[c] =>
    IF pc[w] = "ackkids" THEN c \in kids[w] ELSE c \in cut[w]
ReadyAll ==
  \A w \in Workers : pc[w] = "ackcount" => \A c \in Jobs :
    job[w] \in deps[c] /\ deps[c] \subseteq {job[w]} => c \in kids[w] \cup ready[w]

Releasing == OneTransaction /\ KidsAll /\ ReadyAll /\ BlockedHasDeps

\* Transactions that stay open are as they were.
OpenAsBefore ==
  \A w \in Workers : pc'[w] \in {"ackkids", "ackcount"} =>
    /\ pc'[w] = pc[w] /\ job'[w] = job[w]
    /\ kids'[w] = kids[w] /\ cut'[w] = cut[w] /\ ready'[w] = ready[w]

\* Steps that block no job, and delete all the dependencies of a job or none: those
\* of a job that dies or goes away.
LEMMA QuietRelease ==
  ASSUME TypeOK, Releasing, OpenAsBefore,
         \A c \in Jobs : deps'[c] = deps[c] \/ (deps'[c] = {} /\ status'[c] # "blocked"),
         \A c \in Jobs : status'[c] = "blocked" => status[c] = "blocked"
  PROVE  Releasing'
<1>1. InTransaction' \subseteq InTransaction
  BY DEF InTransaction, OpenAsBefore
<1>2. OneTransaction'
  BY <1>1 DEF Releasing, OneTransaction
<1>3. KidsAll'
  BY <1>1 DEF Releasing, KidsAll, InTransaction, OpenAsBefore
<1>4. ReadyAll'
  BY DEF Releasing, ReadyAll, OpenAsBefore
<1>5. BlockedHasDeps'
  BY DEF Releasing, BlockedHasDeps
<1> QED
  BY <1>2, <1>3, <1>4, <1>5 DEF Releasing

\* Enqueue calls: the workflow comes before any Ack of its jobs.
LEMMA EnqueueRelease ==
  ASSUME TypeOK, Ownership, ParentsEnqueuedTogether, Releasing,
         \/ \E j \in Jobs : EnqueueStep(j) \/ EnqueueDies(j)
         \/ EnqueueWorkflow
  PROVE  Releasing'
<1> USE StorageAssumption, HasJob
<1> USE DEF TypeOK, EnqueueTypes, JobTypes, WorkerTypes
<1>1. UNCHANGED workerVars
  BY DEF EnqueueStep, EnqueueLock, EnqueueCheck, EnqueueCollide, EnqueueTakeover,
         EnqueueInsert, EnqueueInBatch, TakeoverInBatch, AddToBatch, EnqueueDies,
         EnqueueWorkflow
<1>2. OpenAsBefore
  BY <1>1 DEF OpenAsBefore, workerVars
<1>3. ASSUME NEW j \in Jobs, EnqueueStep(j) \/ EnqueueDies(j)
      PROVE  Releasing'
  <2>1. /\ UNCHANGED deps
        /\ \A i \in Jobs : status'[i] = status[i] \/ status'[i] = "pending"
    BY <1>3 DEF EnqueueStep, EnqueueLock, EnqueueCheck, EnqueueCollide,
                EnqueueTakeover, EnqueueInsert, EnqueueInBatch, TakeoverInBatch,
                AddToBatch, EnqueueDies, jobVars
  <2> QED
    BY <1>2, <2>1, QuietRelease
<1>4. CASE EnqueueWorkflow /\ ~LocksAvailable(Workflow)
  BY <1>2, <1>4, QuietRelease DEF EnqueueWorkflow
<1>5. CASE EnqueueWorkflow /\ LocksAvailable(Workflow)
  <2>1. /\ status' = [j \in Jobs |-> IF j \in Workflow THEN FirstStatus(j)
                                     ELSE status[j]]
        /\ deps' = [j \in Jobs |-> IF j \in Workflow THEN deps[j] \cup Parents[j]
                                   ELSE deps[j]]
        /\ \A j \in Workflow : epc[j] = "new"
        /\ SingleWriter => InTransaction = {}
    BY <1>5 DEF EnqueueWorkflow, WriterFree, InTransaction
  <2>2. \A w \in InTransaction : job[w] \in Jobs /\ job[w] \notin Workflow
    BY <2>1 DEF Ownership, HeldJobs, InTransaction
  <2>3. \A w \in InTransaction : \A c \in Jobs : job[w] \in deps'[c] => job[w] \in deps[c]
    BY <2>1, <2>2 DEF ParentsEnqueuedTogether
  <2>4. InTransaction' = InTransaction
    BY <1>1 DEF InTransaction, workerVars
  <2>5. OneTransaction' /\ KidsAll'
    BY <1>1, <2>3, <2>4 DEF Releasing, OneTransaction, KidsAll, workerVars
  <2>6. ReadyAll'
    <3>1. \A c \in Jobs : deps[c] \subseteq deps'[c]
      BY <2>1
    <3> QED
      BY <1>1, <2>3, <3>1 DEF Releasing, ReadyAll, InTransaction, workerVars
  <2>7. BlockedHasDeps'
    BY <2>1 DEF Releasing, BlockedHasDeps, FirstStatus
  <2> QED
    BY <2>5, <2>6, <2>7 DEF Releasing
<1> QED
  BY <1>3, <1>4, <1>5

\* The statements of an Ack: it reads all children, deletes what they wait for and
\* counts what each has left, one by one.
LEMMA AckRelease ==
  ASSUME TypeOK, Releasing, NEW w \in Workers,
         AckBegin(w) \/ AckDelete(w) \/ \E c \in Jobs : AckCount(w, c)
  PROVE  Releasing'
<1> USE StorageAssumption, HasJob
<1> USE DEF TypeOK, JobTypes, WorkerTypes
<1>1. CASE AckBegin(w)
  <2>1. /\ pc[w] = "acktx" /\ pc' = [pc EXCEPT ![w] = "ackkids"]
        /\ kids' = [kids EXCEPT ![w] = Children(job[w])]
        /\ cut' = [cut EXCEPT ![w] = {}] /\ ready' = [ready EXCEPT ![w] = {}]
        /\ UNCHANGED <<status, deps, job>>
        /\ SingleWriter => (Workers \ {w}) \cap InTransaction = {}
    BY <1>1 DEF AckBegin, WriterFree, jobVars
  <2>2. InTransaction' = InTransaction \cup {w}
    BY <2>1 DEF InTransaction
  <2>3. OneTransaction'
    BY <2>1, <2>2 DEF OneTransaction, InTransaction
  <2>4. kids'[w] = Children(job[w])
        /\ \A v \in Workers \ {w} : /\ pc'[v] = pc[v] /\ kids'[v] = kids[v]
                                    /\ cut'[v] = cut[v] /\ ready'[v] = ready[v]
    BY <2>1 DEF Children
  <2>5. KidsAll'
    BY <2>1, <2>2, <2>4 DEF Releasing, KidsAll, Children
  <2>6. ReadyAll'
    BY <2>1, <2>4 DEF Releasing, ReadyAll
  <2> QED
    BY <2>1, <2>3, <2>5, <2>6 DEF Releasing, BlockedHasDeps
<1>2. CASE AckDelete(w)
  <2>1. /\ pc[w] = "ackkids" /\ pc' = [pc EXCEPT ![w] = "ackcount"]
        /\ cut' = [cut EXCEPT ![w] = Children(job[w])]
        /\ UNCHANGED <<status, deps, job, kids, ready>>
    BY <1>2 DEF AckDelete, jobVars
  <2>2. InTransaction' = InTransaction /\ w \in InTransaction
    BY <2>1 DEF InTransaction
  <2>3. OneTransaction'
    BY <2>1, <2>2 DEF Releasing, OneTransaction
  <2>4. cut'[w] = Children(job[w]) /\ pc'[w] = "ackcount"
        /\ \A v \in Workers \ {w} : pc'[v] = pc[v] /\ cut'[v] = cut[v]
    BY <2>1 DEF Children
  <2>5. KidsAll'
    BY <2>1, <2>2, <2>4 DEF Releasing, KidsAll, Children
  <2>6. ReadyAll'
    BY <2>1, <2>2 DEF Releasing, KidsAll, ReadyAll
  <2> QED
    BY <2>1, <2>3, <2>5, <2>6 DEF Releasing, BlockedHasDeps
<1>3. ASSUME NEW c \in Jobs, AckCount(w, c)
      PROVE  Releasing'
  <2>1. /\ pc[w] = "ackcount" /\ kids' = [kids EXCEPT ![w] = @ \ {c}]
        /\ ready' = [ready EXCEPT ![w] = IF deps[c] \subseteq {job[w]}
                                         THEN @ \cup {c} ELSE @]
        /\ UNCHANGED <<status, deps, pc, job, cut>>
    BY <1>3 DEF AckCount, Unblocked, jobVars
  <2>2. InTransaction' = InTransaction /\ w \in InTransaction
    BY <2>1 DEF InTransaction
  <2>3. OneTransaction'
    BY <2>1, <2>2 DEF Releasing, OneTransaction
  <2>4. KidsAll'
    BY <2>1, <2>2 DEF Releasing, KidsAll
  <2>5. ReadyAll'
    BY <2>1 DEF Releasing, ReadyAll
  <2> QED
    BY <2>1, <2>3, <2>4, <2>5 DEF Releasing, BlockedHasDeps
<1> QED
  BY <1>1, <1>2, <1>3

\* The commit releases the children the Ack was the last to hold up.  Another Ack
\* that is open has counted them right, as they wait for its job alone.
LEMMA CommitRelease ==
  ASSUME TypeOK, Ownership, SafeUnblocking, Releasing, NEW w \in Workers, AckCommit(w)
  PROVE  Releasing'
<1> USE StorageAssumption, HasJob
<1> USE DEF TypeOK, JobTypes, WorkerTypes
<1>1. PICK j \in Jobs : j = job[w] /\ j # NoJob /\ pc[w] = "ackcount"
  BY DEF AckCommit
<1>2. /\ status' = [i \in Jobs |-> IF status[i] = "absent" THEN "absent"
                                   ELSE IF i \in ready[w] THEN "pending"
                                   ELSE IF i = j THEN "processed" ELSE status[i]]
      /\ deps' = [c \in Jobs |-> IF c \in cut[w] THEN deps[c] \ {j} ELSE deps[c]]
      /\ pc' = [pc EXCEPT ![w] = "idle"]
      /\ job' = [job EXCEPT ![w] = NoJob]
      /\ kids[w] = {}
      /\ UNCHANGED <<kids, cut, ready>>
  BY <1>1 DEF AckCommit
<1>3. InTransaction' = InTransaction \ {w} /\ w \in InTransaction
  BY <1>1, <1>2 DEF InTransaction
<1>4. OneTransaction' /\ KidsAll'
  BY <1>2, <1>3 DEF Releasing, OneTransaction, KidsAll
<1>5. ASSUME NEW v \in Workers, pc'[v] = "ackcount", NEW c \in Jobs,
             job'[v] \in deps'[c], deps'[c] \subseteq {job'[v]}
      PROVE  c \in kids'[v] \cup ready'[v]
  <2>1. /\ v # w /\ v \in InTransaction /\ pc[v] = "ackcount" /\ job'[v] = job[v]
        /\ job[v] \in deps[c]
    BY <1>2, <1>5 DEF InTransaction
  <2>2. ~SingleWriter
    BY <1>3, <2>1 DEF Releasing, OneTransaction
  <2>3. c \in Workflow /\ \A p \in deps[c] : p \in Parents[c]
    BY <2>1 DEF Ownership, DepsDeclared
  <2>4. deps[c] \subseteq {job[v]}
    BY <2>1, <2>2, <2>3 DEF SafeUnblocking
  <2> QED
    BY <1>2, <2>1, <2>4 DEF Releasing, ReadyAll
<1>6. ASSUME NEW c \in Jobs, status'[c] = "blocked"
      PROVE  deps'[c] # {}
  <2>1. status[c] = "blocked" /\ c \notin ready[w]
    BY <1>2, <1>6
  <2>2. deps[c] # {}
    BY <2>1 DEF Releasing, BlockedHasDeps
  <2>3. ~(deps[c] \subseteq {j})
    BY <1>1, <1>2, <2>1, <2>2 DEF Releasing, ReadyAll
  <2> QED
    BY <1>2, <2>3
<1> QED
  BY <1>4, <1>5, <1>6 DEF Releasing, ReadyAll, BlockedHasDeps

\* The other steps of a worker open no transaction; a cascade deletes the
\* dependencies of jobs it kills.
LEMMA WorkerRelease ==
  ASSUME TypeOK, Ownership, Releasing, NEW w \in Workers,
         \/ Poll(w) \/ DequeueNothing(w) \/ \E j \in Jobs : Dequeue(w, j)
         \/ CheckLimits(w) \/ PostponeJob(w) \/ Perform(w)
         \/ AckRead(w) \/ FailRead(w) \/ FailRetry(w) \/ FailDead(w)
         \/ Shutdown(w) \/ CallFails(w) \/ Crash(w)
  PROVE  Releasing'
<1> USE StorageAssumption, HasJob
<1> USE DEF TypeOK, WorkerTypes, JobTypes
<1>1. CASE FailDead(w)
  <2>1. OpenAsBefore
    BY <1>1 DEF FailDead, OpenAsBefore
  <2>2. \A c \in Jobs : status'[c] = "blocked" => status[c] = "blocked"
    BY <1>1 DEF FailDead, Kill
  <2>3. \A c \in Jobs : \/ deps'[c] = deps[c]
                        \/ deps'[c] = {} /\ status'[c] # "blocked"
    BY <1>1 DEF FailDead, Kill, Exists
  <2> QED
    BY <2>1, <2>2, <2>3, QuietRelease
<1>2. CASE ~FailDead(w)
  <2>1. UNCHANGED <<deps, kids, cut, ready>>
    BY <1>2 DEF Poll, DequeueNothing, Dequeue, CheckLimits, PostponeJob, Perform, AckRead,
           FailRead, FailRetry, Shutdown, CallFails, Crash, jobVars, workerVars
  <2>2. OpenAsBefore
    BY <1>2, <2>1 DEF OpenAsBefore, Poll, DequeueNothing, Dequeue, CheckLimits, PostponeJob,
                Perform, AckRead, FailRead, FailRetry, Shutdown, CallFails, Crash,
                workerVars
  <2>3. \A j \in Jobs : status'[j] = "blocked" => status[j] = "blocked"
    BY <1>2 DEF Poll, DequeueNothing, Dequeue, CheckLimits, PostponeJob, Perform, AckRead,
           FailRead, FailRetry, Requeued, Shutdown, CallFails, Crash, jobVars
  <2> QED
    BY <2>1, <2>2, <2>3, QuietRelease
<1> QED
  BY <1>1, <1>2

\* Administration, faults, batches and stuttering.
LEMMA OtherRelease ==
  ASSUME TypeOK, Releasing,
         \/ AdminStep
         \/ \E j \in Jobs : LockExpires(j)
         \/ \E b \in Batches : BatchExpires(b) \/ CreateBatch(b) \/ SubmitBatch(b)
         \/ FailExpiredBatches \/ AtRest \/ UNCHANGED vars
  PROVE  Releasing'
<1> USE StorageAssumption
<1> USE DEF TypeOK, WorkerTypes, JobTypes
<1>1. UNCHANGED workerVars
  BY DEF AdminStep, BulkRetry, RetryAllFailed, Reset, Cancel, BulkCancel, BulkPurge,
         ClearQueue, PurgeDLQ, ArchiveJobs, SetPaused, LockExpires, BatchExpires,
         CreateBatch, SubmitBatch, FailExpiredBatches, AtRest, vars
<1>2. OpenAsBefore
  BY <1>1 DEF OpenAsBefore, workerVars
<1>3. ASSUME NEW j \in Jobs, Cancel(j)
      PROVE  Releasing'
  <2>1. \A c \in Jobs : /\ status'[c] = "blocked" => status[c] = "blocked"
                        /\ \/ deps'[c] = deps[c]
                           \/ deps'[c] = {} /\ status'[c] # "blocked"
    BY <1>3 DEF Cancel, Exists
  <2> QED
    BY <1>2, <2>1, QuietRelease
<1>4. ASSUME NEW js \in SUBSET Jobs, Remove(js)
      PROVE  Releasing'
  BY <1>2, <1>4, QuietRelease DEF Remove, DropDeps
<1>5. ASSUME NEW js \in SUBSET Jobs, Reset(js)
      PROVE  Releasing'
  BY <1>2, <1>5, QuietRelease DEF Reset
<1>6. CASE UNCHANGED <<status, deps>>
  BY <1>2, <1>6, QuietRelease
<1> QED
  BY <1>3, <1>4, <1>5, <1>6
  DEF AdminStep, BulkRetry, WithRow, RetryAllFailed, BulkCancel, BulkPurge, ClearQueue,
      PurgeDLQ, ArchiveJobs, SetPaused, LockExpires, BatchExpires, CreateBatch,
      SubmitBatch, FailExpiredBatches, AtRest, vars, jobVars

\* A blocked job always waits for something, for any dependencies on SQLite and
\* for chains and trees on PostgreSQL whose parents are in the same call, with
\* crashes, cancelled contexts and every administration call but Retry.  A join on
\* PostgreSQL is left out, and there it is false, as it is for a workflow that is
\* committed while a parent of its jobs is being acknowledged.
THEOREM ChildrenReleased ==
  ASSUME SafeUnblocking, ParentsEnqueuedTogether, "Retry" \notin AdminOps
  PROVE  Spec => []BlockedHasDeps
<1>1. Init => Releasing
  BY StorageAssumption
  DEF Init, Releasing, OneTransaction, KidsAll, ReadyAll, BlockedHasDeps, InTransaction
<1>2. TypeOK /\ Ownership /\ Releasing /\ [Next]_vars => Releasing'
  BY EnqueueRelease, AckRelease, CommitRelease, WorkerRelease, OtherRelease
  DEF Next, WorkerStep, Finalize, AckResolve, FaultStep
<1>3. Releasing => BlockedHasDeps
  BY DEF Releasing
<1> QED
  BY <1>1, <1>2, <1>3, StorageTypeCorrect, OwnershipHolds, PTL DEF Spec

=============================================================================
