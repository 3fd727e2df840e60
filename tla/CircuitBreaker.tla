--------------------------- MODULE CircuitBreaker ---------------------------
(***************************************************************************)
(* The circuit breaker of a Client (queue/circuit_breaker.go) and the      *)
(* goroutines that write through it (Client.execute in queue/client.go).   *)
(*                                                                         *)
(* beforeCall and afterCall each hold the mutex from start to end and are  *)
(* one step; the storage call between them holds nothing, so any number of *)
(* calls is under way while the breaker changes its state, and a result    *)
(* may arrive in a state other than the one its call was admitted in.      *)
(*                                                                         *)
(* Of time only one fact is read: whether more than Cooldown has passed    *)
(* since lastStateChg.  A half-open breaker admits every caller until the  *)
(* first result is in, not only one trial.                                 *)
(***************************************************************************)
EXTENDS Naturals

CONSTANTS
  Callers,           \* goroutines that use the client
  FailureThreshold,  \* CircuitBreakerConfig.FailureThreshold
  MaxFailures        \* bound: the counter is not followed above this value

\* A threshold of 0 or less acts as 1: the first failure trips the breaker.
\* Above the threshold the value of the counter is not looked at any more.
ASSUME BreakerAssumption ==
  /\ FailureThreshold \in Nat \ {0}
  /\ MaxFailures \in Nat
  /\ MaxFailures >= FailureThreshold

VARIABLES
  state,     \* circuitBreaker.state
  failures,  \* circuitBreaker.failures
  cooled,    \* time.Since(lastStateChg) > Cooldown
  calling,   \* the callers between beforeCall and afterCall
  trials     \* history: those let through since the breaker last became half-open

vars == <<state, failures, cooled, calling, trials>>

cbStates == {"closed", "open", "halfOpen"}

\* newCircuitBreaker.
Init ==
  /\ state = "closed"
  /\ failures = 0
  /\ cooled = FALSE
  /\ calling = {}
  /\ trials = {}

\* Time passes.
CooldownPasses ==
  /\ ~cooled
  /\ cooled' = TRUE
  /\ UNCHANGED <<state, failures, calling, trials>>

\* Fault: an open breaker is never left.
StaysOpen == state

\* beforeCall: an open breaker whose cooldown is over becomes half-open.
StateOnAdmission == IF state = "open" THEN "halfOpen" ELSE state

\* A call let through by an open breaker is a trial; so are those that follow it
\* until the first result is in.
TrialsOnAdmission(c) ==
  CASE state = "open"     -> {c}
    [] state = "halfOpen" -> trials \cup {c}
    [] OTHER              -> {}

\* beforeCall lets the call pass; an open breaker that has not cooled down
\* refuses it with ErrCircuitBreakerOpen, and nothing changes.
beforeCall(c) ==
  /\ c \notin calling
  /\ state = "open" => cooled
  /\ state' = StateOnAdmission
  /\ cooled' = IF state = "open" THEN FALSE ELSE cooled
  /\ calling' = calling \cup {c}
  /\ trials' = TrialsOnAdmission(c)
  /\ UNCHANGED failures

\* Fault: the counter is compared before this failure is counted.
TripsLate == state = "halfOpen" \/ failures >= FailureThreshold

\* handleFailure, once the failure is counted.
Trips == state = "halfOpen" \/ failures + 1 >= FailureThreshold

\* The first result that a half-open breaker gets, of whichever call, ends the trial.
TrialOver == trials' = {}

\* afterCall of a call that returned an error or took longer than
\* LatencyThreshold.
CallFailed(c) ==
  /\ c \in calling
  /\ calling' = calling \ {c}
  /\ failures' = IF failures < MaxFailures THEN failures + 1 ELSE failures
  /\ state' = IF Trips THEN "open" ELSE state
  /\ cooled' = IF Trips THEN FALSE ELSE cooled
  /\ TrialOver

\* Fault: a success closes the breaker in any state.
ClosedBySuccess == "closed"

\* afterCall: a success closes a half-open breaker only.
StateOnSuccess == IF state = "halfOpen" THEN "closed" ELSE state

FailuresOnSuccess == 0

\* afterCall of a call that succeeded in time.
CallSucceeded(c) ==
  /\ c \in calling
  /\ calling' = calling \ {c}
  /\ state' = StateOnSuccess
  /\ cooled' = IF state = "halfOpen" THEN FALSE ELSE cooled
  /\ failures' = FailuresOnSuccess
  /\ TrialOver

afterCall(c) == CallFailed(c) \/ CallSucceeded(c)

Next ==
  \/ CooldownPasses
  \/ \E c \in Callers : beforeCall(c) \/ afterCall(c)

Spec == Init /\ [][Next]_vars

\* Time passes, storage calls return, and somebody goes on writing.
Fairness ==
  /\ WF_vars(CooldownPasses)
  /\ \A c \in Callers : WF_vars(afterCall(c))
  /\ WF_vars(\E c \in Callers : beforeCall(c))

FairSpec == Spec /\ Fairness

-----------------------------------------------------------------------------
(* Properties.                                                             *)

\* The fields have their types, and a caller is counted once.
TypeOK ==
  /\ state \in cbStates
  /\ failures \in 0 .. MaxFailures
  /\ cooled \in BOOLEAN
  /\ calling \subseteq Callers
  /\ trials \subseteq calling

\* A closed breaker has counted fewer failures than the threshold: with results
\* of older calls arriving in any state, no way back to closed keeps a counter
\* that should have tripped it, and no failure is overlooked.
ClosedBelowThreshold == state = "closed" => failures < FailureThreshold

\* A breaker that has tripped recovers only while it is tried: at the moment it is
\* closed, a call that was let through after the cooldown is under way.  So the late
\* success of a call from before the trip does not close an open breaker, and a trial
\* that has failed leaves nothing behind that would.  It need not be the trial that
\* succeeds: the code closes a half-open breaker on the first success it gets, also
\* that of a call admitted before the trip.
ClosedInTrial == [][state # "closed" /\ state' = "closed" => trials # {}]_vars

\* An open breaker does not refuse calls for ever: late failures restart the
\* cooldown, but only as many as calls were under way when it tripped.
TrialComes == (state = "open") ~> (state # "open")

=============================================================================
