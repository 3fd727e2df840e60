------------------------------ MODULE WorkerPool ------------------------------
(***************************************************************************)
(* One WorkerPool process of queue/worker.go: the fetch loop, the job      *)
(* goroutines it spawns, the buffered channel `sem` that bounds them, the  *)
(* autoscaler of queue/autoscaler.go that resizes the bound by taking      *)
(* tokens out of the channel or putting placeholder tokens into it, the    *)
(* heartbeat that reports the current bound, and graceful shutdown.        *)
(*                                                                         *)
(* A channel of empty structs is only its length, so `tokens` is len(sem). *)
(* A send blocks while the channel is full, a receive while it is empty:   *)
(* blocking is a guard.  Go serves parked goroutines in FIFO order; the    *)
(* model lets any of them go next, which contains that order.              *)
(*                                                                         *)
(* A pool without autoscaling (`autoscale == nil`) has capacity            *)
(* `concurrency`, no placeholders and a bound that never changes: it is    *)
(* the instance with MinConcurrency = MaxConcurrency.                      *)
(***************************************************************************)
EXTENDS Integers

CONSTANTS
  MinConcurrency,   \* DynamicConcurrencyConfig.MinConcurrency
  MaxConcurrency,   \* DynamicConcurrencyConfig.MaxConcurrency, cap(sem)
  QueueDepthLimit,  \* DynamicConcurrencyConfig.QueueDepthLimit
  ScaleUpStep,      \* DynamicConcurrencyConfig.ScaleUpStep, 0 for unset
  ScaleDownStep,    \* DynamicConcurrencyConfig.ScaleDownStep, 0 for unset
  MaxJobs           \* bound: job goroutines alive at the same time

ASSUME PoolAssumption ==
  /\ MinConcurrency \in Nat
  /\ MaxConcurrency \in Nat
  /\ MinConcurrency <= MaxConcurrency
  /\ QueueDepthLimit \in Nat
  /\ ScaleUpStep \in Int
  /\ ScaleDownStep \in Int
  /\ MaxJobs \in Nat

VARIABLES
  tokens,       \* len(w.sem)
  current,      \* w.currentConcurrency
  pendingUp,    \* receives scaleUp has left; it holds concurrencyMutex until 0
  pendingDown,  \* sends the goroutines started by scaleDown have left
  loop,         \* where runProcessingLoop is
  executing,    \* job goroutines inside executeJob
  finishing,    \* job goroutines whose deferred `<-w.sem` has not completed
  released,     \* job goroutines that still have to call activeWorkers.Done
  reported,     \* concurrency last written by registerProcess
  ctxDone,      \* the context given to Start is cancelled
  scaler,       \* startAutoscaler is still looping
  outcome       \* what gracefulWait logged

vars == <<tokens, current, pendingUp, pendingDown, loop, executing, finishing,
          released, reported, ctxDone, scaler, outcome>>

LoopPcs == {"check", "acquire", "fetch", "giveback", "wait", "stopped"}

\* sync.WaitGroup activeWorkers.
activeWorkers == executing + finishing + released

\* 1 when runProcessingLoop itself holds a token it sent at the select.
LoopHolds == IF loop \in {"fetch", "giveback"} THEN 1 ELSE 0

\* Tokens in the channel that stand for work, not for placeholders.
Holding == executing + finishing + LoopHolds

\* Receivers that cannot go on until the channel is not empty.
Receivers == finishing + pendingUp + (IF loop = "giveback" THEN 1 ELSE 0)

-----------------------------------------------------------------------------
\* Fault: setupSemaphore without the loop that sends the placeholders.
InitWithoutPlaceholders ==
  /\ tokens = 0
  /\ current = MinConcurrency
  /\ pendingUp = 0
  /\ pendingDown = 0
  /\ loop = "check"
  /\ executing = 0
  /\ finishing = 0
  /\ released = 0
  /\ reported = MinConcurrency
  /\ ctxDone = FALSE
  /\ scaler = TRUE
  /\ outcome = "none"

\* setupSemaphore: Max - Min placeholders fill the channel so that
\* MinConcurrency sends succeed; then registerProcess reports the bound.
Init ==
  /\ tokens = MaxConcurrency - MinConcurrency
  /\ current = MinConcurrency
  /\ pendingUp = 0
  /\ pendingDown = 0
  /\ loop = "check"
  /\ executing = 0
  /\ finishing = 0
  /\ released = 0
  /\ reported = MinConcurrency
  /\ ctxDone = FALSE
  /\ scaler = TRUE
  /\ outcome = "none"

-----------------------------------------------------------------------------
(* The fetch loop.                                                         *)

\* runProcessingLoop: the test of ctx.Err() at the head of the loop.
CheckContext ==
  /\ loop = "check"
  /\ loop' = IF ctxDone THEN "wait" ELSE "acquire"
  /\ UNCHANGED <<tokens, current, pendingUp, pendingDown, executing, finishing,
                 released, reported, ctxDone, scaler, outcome>>

\* acquireAndProcess, the send case of the select.  With both cases ready the
\* select may still choose this one after the context is cancelled.
Acquire ==
  /\ loop = "acquire"
  /\ tokens < MaxConcurrency
  /\ tokens' = tokens + 1
  /\ loop' = "fetch"
  /\ UNCHANGED <<current, pendingUp, pendingDown, executing, finishing,
                 released, reported, ctxDone, scaler, outcome>>

\* acquireAndProcess, the ctx.Done() case.
AcquireCancelled ==
  /\ loop = "acquire"
  /\ ctxDone
  /\ loop' = "check"
  /\ UNCHANGED <<tokens, current, pendingUp, pendingDown, executing, finishing,
                 released, reported, ctxDone, scaler, outcome>>

\* fetchAndSpawn when fetchNext returns a job: Add(1) and the goroutine.
FetchJob ==
  /\ loop = "fetch"
  /\ activeWorkers < MaxJobs
  /\ executing' = executing + 1
  /\ loop' = "check"
  /\ UNCHANGED <<tokens, current, pendingUp, pendingDown, finishing, released,
                 reported, ctxDone, scaler, outcome>>

\* Fault: the early return of an empty fetch keeps the token.
FetchNothingLeaks ==
  /\ loop = "fetch"
  /\ loop' = "check"
  /\ UNCHANGED <<tokens, current, pendingUp, pendingDown, executing, finishing,
                 released, reported, ctxDone, scaler, outcome>>

\* fetchAndSpawn when fetchNext returns an error or no job.
FetchNothing ==
  /\ loop = "fetch"
  /\ loop' = "giveback"
  /\ UNCHANGED <<tokens, current, pendingUp, pendingDown, executing, finishing,
                 released, reported, ctxDone, scaler, outcome>>

\* fetchAndSpawn: `<-w.sem` on the empty path, then the 100ms sleep.
GiveBack ==
  /\ loop = "giveback"
  /\ tokens > 0
  /\ tokens' = tokens - 1
  /\ loop' = "check"
  /\ UNCHANGED <<current, pendingUp, pendingDown, executing, finishing,
                 released, reported, ctxDone, scaler, outcome>>

-----------------------------------------------------------------------------
(* The job goroutines: runJobWithSemaphore.                                *)

\* executeJob returns (runJobPerform recovers a panic) and the deferred
\* function starts.
JobReturns ==
  /\ executing > 0
  /\ executing' = executing - 1
  /\ finishing' = finishing + 1
  /\ UNCHANGED <<tokens, current, pendingUp, pendingDown, loop, released,
                 reported, ctxDone, scaler, outcome>>

\* The deferred `<-w.sem`.
ReleaseToken ==
  /\ finishing > 0
  /\ tokens > 0
  /\ tokens' = tokens - 1
  /\ finishing' = finishing - 1
  /\ released' = released + 1
  /\ UNCHANGED <<current, pendingUp, pendingDown, loop, executing, reported,
                 ctxDone, scaler, outcome>>

\* The deferred activeWorkers.Done().
WorkerDone ==
  /\ released > 0
  /\ released' = released - 1
  /\ UNCHANGED <<tokens, current, pendingUp, pendingDown, loop, executing,
                 finishing, reported, ctxDone, scaler, outcome>>

-----------------------------------------------------------------------------
(* The autoscaler.                                                         *)

\* Fault: the target is clamped from below only.
clampBelow(target) == IF target < MinConcurrency THEN MinConcurrency ELSE target

clampTarget(target) ==
  IF target < MinConcurrency THEN MinConcurrency
  ELSE IF target > MaxConcurrency THEN MaxConcurrency
  ELSE target

\* getAutoscaleSteps: an unset or negative step counts as 1.
StepUp   == IF ScaleUpStep <= 0 THEN 1 ELSE ScaleUpStep
StepDown == IF ScaleDownStep <= 0 THEN 1 ELSE ScaleDownStep

\* The target runAutoscaleIteration asks for, given the pending count.
Target(pending) ==
  IF pending > QueueDepthLimit THEN current + StepUp
  ELSE IF pending = 0 THEN current - StepDown
  ELSE current

\* runAutoscaleIteration and adjustConcurrency up to scaleUp's loop.  Only this
\* goroutine writes currentConcurrency, so the read of curr under the mutex and
\* the update under the mutex are one step; it is not here again before its
\* last scaleUp is over (pendingUp = 0).  A failing GetStats changes nothing; one
\* that was answered before the cancellation is still acted on.
Autoscale(pending) ==
  LET target == clampTarget(Target(pending))
      diff   == target - current
  IN /\ pendingUp = 0
     /\ scaler
     /\ diff # 0
     /\ current' = target
     /\ pendingUp' = IF diff > 0 THEN diff ELSE 0
     /\ pendingDown' = IF diff < 0 THEN pendingDown - diff ELSE pendingDown
     /\ UNCHANGED <<tokens, loop, executing, finishing, released, reported,
                    ctxDone, scaler, outcome>>

\* scaleUp: one `<-w.sem`, with concurrencyMutex held.
ScaleUpReceive ==
  /\ pendingUp > 0
  /\ tokens > 0
  /\ tokens' = tokens - 1
  /\ pendingUp' = pendingUp - 1
  /\ UNCHANGED <<current, pendingDown, loop, executing, finishing, released,
                 reported, ctxDone, scaler, outcome>>

\* scaleDown: one `w.sem <- struct{}{}` of a goroutine it started.
ScaleDownSend ==
  /\ pendingDown > 0
  /\ tokens < MaxConcurrency
  /\ tokens' = tokens + 1
  /\ pendingDown' = pendingDown - 1
  /\ UNCHANGED <<current, pendingUp, loop, executing, finishing, released,
                 reported, ctxDone, scaler, outcome>>

\* startAutoscaler: the ctx.Done() case, between two iterations.
ScalerExit ==
  /\ scaler
  /\ ctxDone
  /\ pendingUp = 0
  /\ scaler' = FALSE
  /\ UNCHANGED <<tokens, current, pendingUp, pendingDown, loop, executing,
                 finishing, released, reported, ctxDone, outcome>>

\* startHeartbeat: registerProcess reads the bound under concurrencyMutex.
Heartbeat ==
  /\ pendingUp = 0
  /\ ~ctxDone
  /\ reported # current
  /\ reported' = current
  /\ UNCHANGED <<tokens, current, pendingUp, pendingDown, loop, executing,
                 finishing, released, ctxDone, scaler, outcome>>

-----------------------------------------------------------------------------
(* Shutdown.                                                               *)

\* The caller cancels the context of Start.
Cancel ==
  /\ ~ctxDone
  /\ ctxDone' = TRUE
  /\ UNCHANGED <<tokens, current, pendingUp, pendingDown, loop, executing,
                 finishing, released, reported, scaler, outcome>>

\* Fault: activeWorkers.Done() runs before executeJob instead of after it.
WaitFinishedEarly ==
  /\ loop = "wait"
  /\ released = 0
  /\ loop' = "stopped"
  /\ outcome' = "finished"
  /\ UNCHANGED <<tokens, current, pendingUp, pendingDown, executing, finishing,
                 released, reported, ctxDone, scaler>>

\* gracefulWait: activeWorkers.Wait() returned.
WaitFinished ==
  /\ loop = "wait"
  /\ activeWorkers = 0
  /\ loop' = "stopped"
  /\ outcome' = "finished"
  /\ UNCHANGED <<tokens, current, pendingUp, pendingDown, executing, finishing,
                 released, reported, ctxDone, scaler>>

\* gracefulWait: time.After(w.shutdownTimeout).
WaitTimeout ==
  /\ loop = "wait"
  /\ loop' = "stopped"
  /\ outcome' = "timeout"
  /\ UNCHANGED <<tokens, current, pendingUp, pendingDown, executing, finishing,
                 released, reported, ctxDone, scaler>>

\* Start has returned and every goroutine it left behind is gone.
Terminated ==
  /\ loop = "stopped"
  /\ activeWorkers = 0
  /\ ~scaler
  /\ pendingDown = 0
  /\ UNCHANGED vars

Next ==
  \/ CheckContext \/ Acquire \/ AcquireCancelled
  \/ FetchJob \/ FetchNothing \/ GiveBack
  \/ JobReturns \/ ReleaseToken \/ WorkerDone
  \/ \E pending \in 0..(QueueDepthLimit + 1) : Autoscale(pending)
  \/ ScaleUpReceive \/ ScaleDownSend \/ ScalerExit \/ Heartbeat
  \/ Cancel \/ WaitFinished \/ WaitTimeout
  \/ Terminated

Spec == Init /\ [][Next]_vars

\* Goroutines keep running (weak fairness) and Go's channels serve parked
\* senders and receivers in FIFO order, so an operation that is possible again
\* and again is served (strong fairness).  Jobs return: the pool passes each one
\* a context, and shutdown relies on it.  Nothing is assumed of the autoscaler's
\* decisions, of what a fetch returns or of Cancel.
Fairness ==
  /\ WF_vars(CheckContext)
  /\ WF_vars(FetchJob \/ FetchNothing)
  /\ WF_vars(AcquireCancelled)
  /\ WF_vars(JobReturns)
  /\ SF_vars(ScalerExit)
  /\ WF_vars(WorkerDone)
  /\ SF_vars(GiveBack)
  /\ SF_vars(ReleaseToken)
  /\ SF_vars(ScaleUpReceive)
  /\ SF_vars(ScaleDownSend)
  /\ WF_vars(WaitFinished \/ WaitTimeout)

FairSpec == Spec /\ Fairness

-----------------------------------------------------------------------------
(* Properties.                                                             *)

\* Every counter keeps its range; the channel never exceeds its capacity and
\* the bound never leaves Min..Max.
TypeOK ==
  /\ tokens \in 0..MaxConcurrency
  /\ current \in MinConcurrency..MaxConcurrency
  /\ pendingUp \in Nat
  /\ pendingDown \in Nat
  /\ loop \in LoopPcs
  /\ executing \in Nat
  /\ finishing \in Nat
  /\ released \in Nat
  /\ reported \in MinConcurrency..MaxConcurrency
  /\ ctxDone \in BOOLEAN
  /\ scaler \in BOOLEAN
  /\ outcome \in {"none", "finished", "timeout"}

\* Token conservation: the tokens in the channel and the ones scaleDown still
\* owes are the ones held by work, the placeholders for the slots above the
\* bound, and the ones scaleUp has still to take out.  No path of the fetch
\* loop, of a job goroutine or of the autoscaler leaks or forges a token.
Conservation ==
  tokens + pendingDown = Holding + (MaxConcurrency - current) + pendingUp

\* A goroutine about to receive (a job's deferred release, the empty-fetch
\* path, scaleUp under its mutex) finds the channel empty only while a
\* scaleDown goroutine still has a token to send: no receive blocks for good.
NoReceiverStuck == (Receivers > 0 /\ tokens = 0) => pendingDown > 0

\* While no scaleDown goroutine is outstanding, the pool holds at most
\* currentConcurrency slots, also in the middle of a scaleUp.
BoundWhenSettled == pendingDown = 0 => Holding + pendingUp <= current

\* After gracefulWait logs "all workers finished", no job goroutine is alive
\* and none is ever started again.
FinishedMeansIdle == outcome = "finished" => activeWorkers = 0 /\ LoopHolds = 0

\* scaleUp returns, so concurrencyMutex is released and heartbeats go on.
ScaleUpCompletes == (pendingUp > 0) ~> (pendingUp = 0)

\* After cancellation Start returns and no goroutine of the pool is left
\* blocked on the semaphore.
ShutdownLeavesNothing == ctxDone ~> (loop = "stopped" /\ activeWorkers = 0
                                     /\ pendingUp = 0 /\ pendingDown = 0)

=============================================================================
