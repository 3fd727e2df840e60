----------------------------- MODULE RedisBatch -----------------------------
(***************************************************************************)
(* One batch of jobs on Redis (queue/redis_batch.go, handleBatchAck in     *)
(* queue/redis_admin.go, FailExpiredBatches in redis_admin_helper.go).     *)
(*                                                                         *)
(* The batch is a hash that Submit, the Acks of the members, their deaths  *)
(* and the timeout watcher read and write with single commands: nothing    *)
(* ties the command that reads a field to the one that acts on it, so each *)
(* command is a step.  A pipeline is one step where no two of its commands *)
(* touch what somebody else reads together.                                *)
(*                                                                         *)
(* Of a member only its way through the batch is followed; how it is       *)
(* queued and run is the business of RedisQueue.  A member is acknowledged *)
(* once: retrying an acknowledged member by hand is left out.              *)
(***************************************************************************)
EXTENDS Integers, FiniteSets

CONSTANTS
  Members,     \* the jobs that are added to the batch
  MaxSubmits   \* bound: calls of Submit

ASSUME BatchAssumption ==
  /\ IsFiniteSet(Members)
  /\ MaxSubmits \in Nat

VARIABLES
  status,     \* hash field "status", "none" before CreateBatch
  pending,    \* hash field "pending"
  timeout,    \* hash field "expires_at" is set
  expired,    \* ... and has passed
  watched,    \* the batch is in the sorted set runiq:batches:expire
  callbacks,  \* callback jobs enqueued
  mpc,        \* where a member, or the Ack of it, is
  seen,       \* Ack: what HIncrBy returned
  spc,        \* where Submit is
  submits,    \* calls of Submit so far
  halfDone,   \* the last Submit ended with an error after it had sealed the batch
  wpc         \* where FailExpiredBatches is

hash   == <<status, pending, timeout, watched>>
submit == <<spc, submits, halfDone>>
vars   == <<hash, expired, callbacks, mpc, seen, submit, wpc>>

Statuses == {"none", "open", "sealed", "completed", "failed"}

\* new, counted (EnqueueInBatch is half way), failed (it stopped there), queued,
\* dead, the steps of Ack (unmarked: the status could not be written, which goes
\* unnoticed), and cut (the worker died in one of them, or its command failed).
AckPcs    == {"expiry", "decrement", "look", "complete", "callback", "unmarked"}
MemberPcs == {"new", "counted", "failed", "queued", "dead", "acked", "cut"}
               \cup AckPcs
SubmitPcs == {"idle", "seal", "read", "complete", "callback"}

Init ==
  /\ status = "none" /\ pending = 0 /\ callbacks = 0
  /\ timeout = FALSE /\ expired = FALSE /\ watched = FALSE
  /\ mpc = [j \in Members |-> "new"]
  /\ seen = [j \in Members |-> 0]
  /\ spc = "idle" /\ submits = 0 /\ halfDone = FALSE
  /\ wpc = "idle"

-----------------------------------------------------------------------------
\* CreateBatch, with or without WithBatchTimeout.
CreateBatch(limited) ==
  /\ status = "none"
  /\ status' = "open" /\ pending' = 0
  /\ timeout' = limited /\ watched' = limited
  /\ UNCHANGED <<expired, callbacks, mpc, seen, submit, wpc>>

\* EnqueueInBatch: incrementBatchCounts.
CountMember(j) ==
  /\ status # "none"
  /\ mpc[j] = "new"
  /\ pending' = pending + 1
  /\ mpc' = [mpc EXCEPT ![j] = "counted"]
  /\ UNCHANGED <<status, timeout, watched, expired, callbacks, seen, submit, wpc>>

\* EnqueueInBatch: acquireUniqueLock succeeds and enqueueBatchJob stores the job;
\* or one of them returns an error, and the counter stays as it is.
EnqueueMember(j) ==
  /\ mpc[j] = "counted"
  /\ \/ mpc' = [mpc EXCEPT ![j] = "queued"]
     \/ mpc' = [mpc EXCEPT ![j] = "failed"]
  /\ UNCHANGED <<hash, expired, callbacks, seen, submit, wpc>>

\* The expires_at of the batch passes.
TimePasses ==
  /\ timeout /\ ~expired
  /\ expired' = TRUE
  /\ UNCHANGED <<hash, callbacks, mpc, seen, submit, wpc>>

\* failExpiredBatch, handleDeadJob and failExpiredBatchesTx: HSET and ZREM.
FailBatch ==
  /\ status' = "failed"
  /\ watched' = FALSE
  /\ UNCHANGED <<pending, timeout>>

-----------------------------------------------------------------------------
(* A member that a worker has run.                                         *)

\* Fail without attempts left: handleDeadJob.
MemberDies(j) ==
  /\ mpc[j] = "queued"
  /\ FailBatch
  /\ mpc' = [mpc EXCEPT ![j] = "dead"]
  /\ UNCHANGED <<expired, callbacks, seen, submit, wpc>>

\* Ack: the pipeline of performAck, up to handleBatchAck.
Ack(j) ==
  /\ mpc[j] = "queued"
  /\ mpc' = [mpc EXCEPT ![j] = "expiry"]
  /\ UNCHANGED <<hash, expired, callbacks, seen, submit, wpc>>

\* handleBatchAck: checkBatchExpired; an expired batch is not counted down.
AckExpiry(j) ==
  /\ mpc[j] = "expiry"
  /\ IF expired
     THEN FailBatch /\ mpc' = [mpc EXCEPT ![j] = "acked"]
     ELSE mpc' = [mpc EXCEPT ![j] = "decrement"] /\ UNCHANGED hash
  /\ UNCHANGED <<expired, callbacks, seen, submit, wpc>>

\* Faults: the counter is not decremented; it is decremented twice.
CountedSame  == pending
CountedTwice == pending - 2

\* handleBatchAck: HINCRBY pending -1.
CountedDown == pending - 1

AckDecrement(j) ==
  /\ mpc[j] = "decrement"
  /\ pending' = CountedDown
  /\ seen' = [seen EXCEPT ![j] = CountedDown]
  /\ mpc' = [mpc EXCEPT ![j] = "look"]
  /\ UNCHANGED <<status, timeout, watched, expired, callbacks, submit, wpc>>

\* Faults: the status is not looked at; the callback is left to Submit.
DoneUnsealed(j) == seen[j] = 0
DoneNever(j)    == FALSE

\* completeBatchIfSealedAndDone: the status now, the counter as it was then.
SealedAndDone(j) == status = "sealed" /\ seen[j] = 0

AckLook(j) ==
  /\ mpc[j] = "look"
  /\ mpc' = [mpc EXCEPT ![j] = IF SealedAndDone(j) THEN "complete" ELSE "acked"]
  /\ UNCHANGED <<hash, expired, callbacks, seen, submit, wpc>>

\* completeBatchIfSealedAndDone: HSET status completed; its error is ignored, and
\* the callback is enqueued all the same.
AckComplete(j) ==
  /\ mpc[j] = "complete"
  /\ \/ status' = "completed" /\ mpc' = [mpc EXCEPT ![j] = "callback"]
     \/ UNCHANGED status /\ mpc' = [mpc EXCEPT ![j] = "unmarked"]
  /\ UNCHANGED <<pending, timeout, watched, expired, callbacks, seen, submit, wpc>>

\* enqueueBatchCallback, a new job id each time.
AckCallback(j) ==
  /\ mpc[j] \in {"callback", "unmarked"}
  /\ callbacks' = callbacks + 1
  /\ mpc' = [mpc EXCEPT ![j] = IF mpc[j] = "callback" THEN "acked" ELSE "cut"]
  /\ UNCHANGED <<hash, expired, seen, submit, wpc>>

AckStep(j) ==
  \/ AckExpiry(j) \/ AckDecrement(j) \/ AckLook(j) \/ AckComplete(j)
  \/ AckCallback(j)

\* A command of handleBatchAck fails, which nobody is told, or the worker's process
\* dies there.
AckCut(j) ==
  /\ mpc[j] \in AckPcs
  /\ mpc' = [mpc EXCEPT ![j] = "cut"]
  /\ UNCHANGED <<hash, expired, callbacks, seen, submit, wpc>>

-----------------------------------------------------------------------------
(* Submit.                                                                 *)

\* SubmitBatch: checkBatchExpired, whose error changes nothing.
SubmitBatch ==
  /\ spc = "idle"
  /\ status # "none"
  /\ submits < MaxSubmits
  /\ submits' = submits + 1 /\ UNCHANGED halfDone
  /\ IF expired
     THEN FailBatch /\ UNCHANGED spc
     ELSE spc' = "seal" /\ UNCHANGED hash
  /\ UNCHANGED <<expired, callbacks, mpc, seen, wpc>>

\* HSET status sealed, whatever it was.
SubmitSeal ==
  /\ spc = "seal"
  /\ status' = "sealed"
  /\ spc' = "read" /\ halfDone' = FALSE
  /\ UNCHANGED <<pending, timeout, watched, expired, callbacks, mpc, seen,
                 submits, wpc>>

\* getPendingCount.
SubmitRead ==
  /\ spc = "read"
  /\ spc' = IF pending = 0 THEN "complete" ELSE "idle"
  /\ UNCHANGED <<hash, expired, callbacks, mpc, seen, submits, halfDone, wpc>>

\* completeBatch: HSET status completed.
SubmitComplete ==
  /\ spc = "complete"
  /\ status' = "completed"
  /\ spc' = "callback"
  /\ UNCHANGED <<pending, timeout, watched, expired, callbacks, mpc, seen,
                 submits, halfDone, wpc>>

\* completeBatch: Enqueue of the callback.
SubmitCallback ==
  /\ spc = "callback"
  /\ callbacks' = callbacks + 1
  /\ spc' = "idle"
  /\ UNCHANGED <<hash, expired, mpc, seen, submits, halfDone, wpc>>

\* A command of SubmitBatch or completeBatch fails, which its caller is told (unless
\* it is the HGET of the callback), or the caller's process dies there.
SubmitCut ==
  /\ spc # "idle"
  /\ spc' = "idle"
  /\ halfDone' = (halfDone \/ spc # "seal")
  /\ UNCHANGED <<hash, expired, callbacks, mpc, seen, submits, wpc>>

SubmitStep == SubmitSeal \/ SubmitRead \/ SubmitComplete \/ SubmitCallback

-----------------------------------------------------------------------------
(* FailExpiredBatches, called by the timeout watcher.                      *)

WatcherRead ==
  /\ wpc = "idle"
  /\ watched /\ expired
  /\ wpc' = "fail"
  /\ UNCHANGED <<hash, expired, callbacks, mpc, seen, submit>>

\* failExpiredBatchesTx, whatever the status is by now.
WatcherFail ==
  /\ wpc = "fail"
  /\ FailBatch
  /\ wpc' = "idle"
  /\ UNCHANGED <<expired, callbacks, mpc, seen, submit>>

\* Everybody has come to rest.
AtRest ==
  /\ \A j \in Members : mpc[j] \in {"new", "failed", "dead", "acked", "cut"}
  /\ spc = "idle" /\ wpc = "idle"
  /\ UNCHANGED vars

Next ==
  \/ \E limited \in BOOLEAN : CreateBatch(limited)
  \/ \E j \in Members : \/ CountMember(j) \/ EnqueueMember(j) \/ MemberDies(j)
                        \/ Ack(j) \/ AckStep(j) \/ AckCut(j)
  \/ SubmitBatch \/ SubmitStep \/ SubmitCut
  \/ TimePasses \/ WatcherRead \/ WatcherFail
  \/ AtRest

Spec == Init /\ [][Next]_vars

\* A worker that has run a job finalizes it, and Submit goes on or fails.
Fairness ==
  /\ WF_vars(SubmitStep)
  /\ \A j \in Members : /\ WF_vars(EnqueueMember(j))
                        /\ WF_vars(Ack(j) \/ MemberDies(j))
                        /\ WF_vars(AckStep(j))

FairSpec == Spec /\ Fairness

-----------------------------------------------------------------------------
(* Properties.                                                             *)

\* Types of the hash fields and program counters.
TypeOK ==
  /\ status \in Statuses
  /\ pending \in Int
  /\ timeout \in BOOLEAN /\ expired \in BOOLEAN /\ watched \in BOOLEAN
  /\ callbacks \in Nat
  /\ mpc \in [Members -> MemberPcs]
  /\ seen \in [Members -> Int]
  /\ spc \in SubmitPcs
  /\ submits \in Nat /\ halfDone \in BOOLEAN
  /\ wpc \in {"idle", "fail"}

\* Somebody is on the way to complete the batch: Submit, which has still to read
\* the counter or has read 0, or the Ack that counted the last member down.
OnTheWay ==
  \/ spc \in {"read", "complete"}
  \/ \E j \in Members : mpc[j] = "complete" \/ (mpc[j] = "look" /\ seen[j] = 0)

\* Somebody is about to enqueue the callback of a completed batch.
CallbackComes == spc = "callback" \/ \E j \in Members : mpc[j] = "callback"

\* An Ack did not get through handleBatchAck, or Submit not through its commands
\* after it had sealed the batch and has not been called with success since.
CutShort == halfDone \/ \E j \in Members : mpc[j] \in {"unmarked", "cut"}

\* The callback is not lost: a sealed batch in which nothing is pending has
\* somebody on the way to complete it, although Submit writes the status and
\* reads the counter while Ack writes the counter and reads the status; and a
\* completed one has its callback enqueued or about to be.
CallbackNotLost ==
  /\ status = "sealed" /\ pending = 0 => OnTheWay \/ CutShort
  /\ status = "completed" => callbacks > 0 \/ CallbackComes \/ CutShort

\* "The callback is safely deferred until Submit() is explicitly executed":
\* whatever the Acks of the members do, there is no callback before Submit.
NoCallbackBeforeSubmit ==
  /\ callbacks > 0 => submits > 0
  /\ status = "completed" => submits > 0

\* The members that are counted and not yet counted down.
WaitingPcs == {"counted", "queued", "expiry", "decrement"}
Waiting    == {j \in Members : mpc[j] \in WaitingPcs}

\* The counter never falls below the number of members that are queued and not
\* counted down, so it is never 0 while one of them is still to be run.
PendingCoversQueued == Cardinality(Waiting) <= pending

\* A sealed batch completes or fails, unless one of its members was left half
\* enqueued, died before Submit, or had its Ack cut short, or Submit itself failed
\* after the seal, or the batch expired between two steps of Submit, which then
\* seals a batch that has already failed.
SealedSettles ==
  (status = "sealed") ~>
    \/ status \in {"completed", "failed"} \/ expired \/ CutShort
    \/ \E j \in Members : mpc[j] \in {"failed", "dead"}

=============================================================================
