-------------------------- MODULE WorkerPoolProofs --------------------------
(***************************************************************************)
(* Proofs about the worker pool's semaphore for every Min, Max, step size, *)
(* queue depth limit and number of jobs.  The inductive invariant is       *)
(* TypeOK with Conservation: the range of `tokens` makes every send and    *)
(* receive legal, the conservation law ties it to the work in flight, and  *)
(* every other invariant is arithmetic on the two.                         *)
(***************************************************************************)
EXTENDS WorkerPool, TLAPS

\* TypeOK and the conservation law: what every step of the pool preserves.
IInv == TypeOK /\ Conservation

\* clampTarget, applied by adjustConcurrency, always lands in Min..Max.
LEMMA ClampRange ==
  ASSUME NEW target \in Int
  PROVE  clampTarget(target) \in MinConcurrency..MaxConcurrency
BY PoolAssumption DEF clampTarget

\* The autoscaler asks for an integer target, whatever the pending count is.
LEMMA TargetInt ==
  ASSUME TypeOK, NEW pending \in Int
  PROVE  Target(pending) \in Int
BY PoolAssumption DEF Target, StepUp, StepDown, TypeOK

\* setupSemaphore establishes the invariant.
LEMMA InitIInv == Init => IInv
<1> SUFFICES ASSUME Init
             PROVE  IInv
  OBVIOUS
<1>1. TypeOK
  <2>1. /\ tokens \in 0..MaxConcurrency
        /\ current \in MinConcurrency..MaxConcurrency
        /\ reported \in MinConcurrency..MaxConcurrency
    BY PoolAssumption DEF Init
  <2>2. ctxDone \in BOOLEAN /\ scaler \in BOOLEAN
    BY Zenon DEF Init
  <2> QED
    BY <2>1, <2>2 DEF Init, TypeOK, LoopPcs
<1>2. Conservation
  <2>1. Holding = 0
    BY DEF Init, Holding, LoopHolds
  <2> QED
    BY <2>1, PoolAssumption DEF Init, Conservation
<1> QED
  BY <1>1, <1>2 DEF IInv

\* One iteration of the autoscaler changes the bound and the debt of scaleUp or
\* scaleDown by the same amount.
LEMMA AutoscaleIInv ==
  ASSUME IInv, NEW pending \in Int, Autoscale(pending)
  PROVE  IInv'
<1> DEFINE target == clampTarget(Target(pending))
<1>1. target \in MinConcurrency..MaxConcurrency
  BY ClampRange, TargetInt DEF IInv
<1>2. /\ pendingUp = 0
      /\ current' = target
      /\ pendingUp' = IF target - current > 0 THEN target - current ELSE 0
      /\ pendingDown' = IF target - current < 0
                        THEN pendingDown - (target - current)
                        ELSE pendingDown
      /\ UNCHANGED <<tokens, loop, executing, finishing, released, reported,
                     ctxDone, scaler, outcome>>
  BY DEF Autoscale
<1> HIDE DEF target
<1>3. TypeOK'
  BY <1>1, <1>2, PoolAssumption DEF IInv, TypeOK
<1>4. Conservation'
  BY <1>1, <1>2, PoolAssumption
     DEF IInv, TypeOK, Conservation, Holding, LoopHolds
<1> QED
  BY <1>3, <1>4 DEF IInv

\* Every step of the pool preserves the invariant.
LEMMA NextIInv == IInv /\ [Next]_vars => IInv'
<1> SUFFICES ASSUME IInv, [Next]_vars
             PROVE  IInv'
  OBVIOUS
<1> USE PoolAssumption
<1> USE DEF IInv, TypeOK, Conservation, Holding, LoopHolds, LoopPcs
<1>1. CASE CheckContext
  BY <1>1 DEF CheckContext
<1>2. CASE Acquire
  BY <1>2 DEF Acquire
<1>3. CASE AcquireCancelled
  BY <1>3 DEF AcquireCancelled
<1>4. CASE FetchJob
  BY <1>4 DEF FetchJob
<1>5. CASE FetchNothing
  BY <1>5 DEF FetchNothing
<1>6. CASE GiveBack
  BY <1>6 DEF GiveBack
<1>7. CASE JobReturns
  BY <1>7 DEF JobReturns
<1>8. CASE ReleaseToken
  BY <1>8 DEF ReleaseToken
<1>9. CASE WorkerDone
  BY <1>9 DEF WorkerDone
<1>10. CASE \E pending \in 0..(QueueDepthLimit + 1) : Autoscale(pending)
  <2> PICK pending \in 0..(QueueDepthLimit + 1) : Autoscale(pending)
    BY <1>10
  <2> QED
    BY AutoscaleIInv
<1>11. CASE ScaleUpReceive
  BY <1>11 DEF ScaleUpReceive
<1>12. CASE ScaleDownSend
  BY <1>12 DEF ScaleDownSend
<1>13. CASE ScalerExit
  BY <1>13 DEF ScalerExit
<1>14. CASE Heartbeat
  BY <1>14 DEF Heartbeat
<1>15. CASE Cancel
  BY <1>15 DEF Cancel
<1>16. CASE WaitFinished
  BY <1>16 DEF WaitFinished
<1>17. CASE WaitTimeout
  BY <1>17 DEF WaitTimeout
<1>18. CASE Terminated \/ UNCHANGED vars
  BY <1>18 DEF Terminated, vars
<1> QED
  BY <1>1, <1>2, <1>3, <1>4, <1>5, <1>6, <1>7, <1>8, <1>9, <1>10, <1>11,
     <1>12, <1>13, <1>14, <1>15, <1>16, <1>17, <1>18 DEF Next

\* The invariant holds in every state of every pool.
THEOREM PoolInvariant == Spec => []IInv
BY InitIInv, NextIInv, PTL DEF Spec

\* Type correctness: in particular the channel never holds more than its
\* capacity and currentConcurrency stays within Min..Max.
THEOREM PoolTypeCorrect == Spec => []TypeOK
<1>1. IInv => TypeOK
  BY DEF IInv
<1> QED
  BY <1>1, PoolInvariant, PTL

\* No token is leaked or forged, for every configuration of the autoscaler.
THEOREM TokensConserved == Spec => []Conservation
<1>1. IInv => Conservation
  BY DEF IInv
<1> QED
  BY <1>1, PoolInvariant, PTL

\* No receive on the semaphore can block for good: an empty channel with a
\* waiting receiver means that a scaleDown goroutine still has a send to do.
THEOREM ReceiversServed == Spec => []NoReceiverStuck
<1>1. IInv => NoReceiverStuck
  BY PoolAssumption
     DEF IInv, TypeOK, Conservation, NoReceiverStuck, Receivers, Holding,
         LoopHolds
<1> QED
  BY <1>1, PoolInvariant, PTL

\* With no scaleDown outstanding the pool holds at most currentConcurrency
\* slots; a pool of fixed size therefore never exceeds its size.
THEOREM SettledBound == Spec => []BoundWhenSettled
<1>1. IInv => BoundWhenSettled
  BY PoolAssumption
     DEF IInv, TypeOK, Conservation, BoundWhenSettled, Holding, LoopHolds
<1> QED
  BY <1>1, PoolInvariant, PTL

\* Once the processing loop is past cancellation no job is started again, so
\* the graceful outcome is final.
IdleInv == /\ outcome = "finished" => loop = "stopped" /\ activeWorkers = 0
           /\ outcome \in {"none", "finished", "timeout"}

\* The graceful outcome of gracefulWait is true when it is logged and stays so.
THEOREM GracefulOutcome == Spec => []FinishedMeansIdle
<1>1. Init => IdleInv
  BY DEF Init, IdleInv
<1>2. IInv /\ IdleInv /\ [Next]_vars => IdleInv'
  <2> SUFFICES ASSUME IInv, IdleInv, [Next]_vars
               PROVE  IdleInv'
    OBVIOUS
  <2> USE DEF IdleInv, activeWorkers, IInv, TypeOK
  <2>1. CASE \/ CheckContext \/ Acquire \/ AcquireCancelled
             \/ FetchJob \/ FetchNothing \/ GiveBack
    BY <2>1 DEF CheckContext, Acquire, AcquireCancelled, FetchJob,
                FetchNothing, GiveBack
  <2>2. CASE JobReturns \/ ReleaseToken \/ WorkerDone
    BY <2>2 DEF JobReturns, ReleaseToken, WorkerDone
  <2>3. CASE \/ \E pending \in 0..(QueueDepthLimit + 1) : Autoscale(pending)
             \/ ScaleUpReceive \/ ScaleDownSend \/ ScalerExit \/ Heartbeat
             \/ Cancel
    BY <2>3 DEF Autoscale, ScaleUpReceive, ScaleDownSend, ScalerExit,
                Heartbeat, Cancel
  <2>4. CASE WaitFinished \/ WaitTimeout
    BY <2>4 DEF WaitFinished, WaitTimeout
  <2>5. CASE Terminated \/ UNCHANGED vars
    BY <2>5 DEF Terminated, vars
  <2> QED
    BY <2>1, <2>2, <2>3, <2>4, <2>5 DEF Next
<1>3. IdleInv => FinishedMeansIdle
  BY DEF IdleInv, FinishedMeansIdle, LoopHolds
<1> QED
  BY <1>1, <1>2, <1>3, PoolInvariant, PTL DEF Spec

=============================================================================
