------------------------ MODULE CircuitBreakerProofs ------------------------
(***************************************************************************)
(* Proofs about CircuitBreaker, for any number of callers and any          *)
(* threshold.                                                              *)
(***************************************************************************)
EXTENDS CircuitBreaker, TLAPS

\* A breaker is half-open exactly while a trial is under way.
TrialsInHalfOpen == state = "halfOpen" <=> trials # {}

\* The conjunction is inductive: the counter restarts on the only way back to
\* the closed state, a counter that reaches the threshold trips the breaker in
\* the same step, and the first result of a half-open breaker ends its trials.
BreakerInv == TypeOK /\ ClosedBelowThreshold /\ TrialsInHalfOpen

\* Every step of the breaker preserves the invariant, whatever the state is in
\* which the result of an older call arrives.
LEMMA BreakerStep ==
  ASSUME BreakerInv, [Next]_vars
  PROVE  BreakerInv'
<1> USE BreakerAssumption DEF BreakerInv, TypeOK, ClosedBelowThreshold, TrialsInHalfOpen, cbStates
<1>1. CASE CooldownPasses
  BY <1>1 DEF CooldownPasses
<1>2. ASSUME NEW c \in Callers, beforeCall(c)
      PROVE  BreakerInv'
  <2>1. cooled' \in BOOLEAN
    BY <1>2, Zenon DEF beforeCall
  <2>2. trials' \subseteq calling' /\ TrialsInHalfOpen'
    BY <1>2 DEF beforeCall, StateOnAdmission, TrialsOnAdmission
  <2> QED
    BY <1>2, <2>1, <2>2 DEF beforeCall, StateOnAdmission
<1>3. ASSUME NEW c \in Callers, CallFailed(c)
      PROVE  BreakerInv'
  <2>1. cooled' \in BOOLEAN
    BY <1>3, Zenon DEF CallFailed
  <2>2. failures' \in 0 .. MaxFailures /\ failures' <= failures + 1
    BY <1>3 DEF CallFailed
  <2>3. trials' = {}
    BY <1>3 DEF CallFailed, TrialOver
  <2>4. CASE Trips
    BY <1>3, <2>1, <2>2, <2>3, <2>4 DEF CallFailed
  <2>5. CASE ~Trips
    BY <1>3, <2>1, <2>2, <2>3, <2>5 DEF CallFailed, Trips
  <2> QED
    BY <2>4, <2>5
<1>4. ASSUME NEW c \in Callers, CallSucceeded(c)
      PROVE  BreakerInv'
  <2>1. cooled' \in BOOLEAN
    BY <1>4, Zenon DEF CallSucceeded
  <2>2. failures' \in 0 .. MaxFailures /\ failures' < FailureThreshold
    BY <1>4 DEF CallSucceeded, FailuresOnSuccess
  <2>3. trials' = {}
    BY <1>4 DEF CallSucceeded, TrialOver
  <2> QED
    BY <1>4, <2>1, <2>2, <2>3 DEF CallSucceeded, StateOnSuccess
<1>5. CASE UNCHANGED vars
  BY <1>5 DEF vars
<1> QED
  BY <1>1, <1>2, <1>3, <1>4, <1>5 DEF Next, afterCall

\* The invariant holds in every state.
LEMMA BreakerInvariant == Spec => []BreakerInv
<1>1. Init => BreakerInv
  <2> SUFFICES ASSUME Init
               PROVE  BreakerInv
    OBVIOUS
  <2>1. cooled \in BOOLEAN
    BY Zenon DEF Init
  <2>2. failures \in 0 .. MaxFailures /\ failures < FailureThreshold
    BY BreakerAssumption DEF Init
  <2> QED
    BY <2>1, <2>2 DEF Init, BreakerInv, TypeOK, ClosedBelowThreshold, TrialsInHalfOpen, cbStates
<1>2. BreakerInv /\ [Next]_vars => BreakerInv'
  BY BreakerStep
<1> QED
  BY <1>1, <1>2, PTL DEF Spec

\* The breaker is never closed with FailureThreshold failures on its counter,
\* and its fields keep their types.
THEOREM BreakerSafe == Spec => [](TypeOK /\ ClosedBelowThreshold)
BY BreakerInvariant, PTL DEF BreakerInv

\* A breaker that has tripped is closed only while a call that was let through after
\* the cooldown is under way: the late success of an older call does not close an
\* open breaker, and a failed trial ends all the others with it.
THEOREM RecoversInTrial == Spec => ClosedInTrial
<1>1. BreakerInv /\ [Next]_vars => [state # "closed" /\ state' = "closed" => trials # {}]_vars
  <2> SUFFICES ASSUME BreakerInv, Next, state # "closed", state' = "closed"
               PROVE  state = "halfOpen"
    BY DEF vars, BreakerInv, TrialsInHalfOpen
  <2>1. CASE CooldownPasses
    BY <2>1 DEF CooldownPasses
  <2>2. ASSUME NEW c \in Callers, beforeCall(c)
        PROVE  state = "halfOpen"
    BY <2>2 DEF beforeCall, StateOnAdmission
  <2>3. ASSUME NEW c \in Callers, CallFailed(c)
        PROVE  state = "halfOpen"
    BY <2>3 DEF CallFailed
  <2>4. ASSUME NEW c \in Callers, CallSucceeded(c)
        PROVE  state = "halfOpen"
    BY <2>4 DEF CallSucceeded, StateOnSuccess
  <2> QED
    BY <2>1, <2>2, <2>3, <2>4 DEF Next, afterCall
<1> QED
  BY <1>1, BreakerInvariant, PTL DEF Spec, ClosedInTrial

=============================================================================
