--------------------------- MODULE LeaderElection ---------------------------
(***************************************************************************)
(* The lease that decides which process of a cluster runs the background   *)
(* loops: the elector goroutine of queue/worker.go on the lease of         *)
(* queue/redis.go, queue/postgres.go and queue/sqlite.go.                  *)
(*                                                                         *)
(* What a process believes (isLeader) is set when a call returns and does  *)
(* not change by itself, while the lease runs out on its own clock; so the *)
(* call is split into sending, execution by the storage and return, and    *)
(* time passes in between.  Time is kept as distances: what is left of the *)
(* lease, how old a call is, for how long the last granted call covers its *)
(* process.  Nothing is assumed about how punctual the elector is.         *)
(*                                                                         *)
(* A lease is written with the clock of the storage (Redis, PX) or with    *)
(* the clock of the client (PostgreSQL, SQLite), and compared with the     *)
(* clock of the storage (Redis, PostgreSQL) or of the client (SQLite).     *)
(***************************************************************************)
EXTENDS Integers

CONSTANTS
  Procs,    \* processes; a restarted process has a new id
  NoProc,
  Driver,   \* the storage driver
  TTL,      \* WithLeaderElection, in ticks; 0 for no election
  Skew,     \* [Procs -> Int], how far the clock of a process is ahead
  MaxSkew   \* bound of the skew

ASSUME LeaderAssumption ==
  /\ NoProc \notin Procs
  /\ Driver \in {"redis", "postgres", "sqlite"}
  /\ TTL \in Nat
  /\ MaxSkew \in Nat
  /\ Skew \in [Procs -> Int]
  /\ \A p \in Procs : -MaxSkew <= Skew[p] /\ Skew[p] <= MaxSkew

VARIABLES
  holder,   \* who has the lease, NoProc if there is no row or key
  left,     \* ticks to the end of the lease, by the clock of the storage
  phase,    \* where Start of a process is
  isLeader, \* WorkerPool.isLeader
  call,     \* where its call of AcquireLeader is
  age,      \* ticks since that call was sent
  fresh     \* history: ticks until the last granted call is TTL old

lease == <<holder, left>>
vars == <<lease, phase, isLeader, call, age, fresh>>

Phases == {"new", "up", "draining", "gone"}
Calls  == {"idle", "sent", "granted", "refused"}

\* Above this the age of a call makes no difference.
AgeCap == TTL + 2 * MaxSkew

Positive(n) == IF n > 0 THEN n ELSE 0

\* No comparison tells ends of the lease further back apart.
Floor(n) == IF n < -MaxSkew THEN -MaxSkew ELSE n

Init ==
  /\ holder = NoProc
  /\ left = -MaxSkew
  /\ phase = [p \in Procs |-> "new"]
  /\ isLeader = [p \in Procs |-> FALSE]
  /\ call = [p \in Procs |-> "idle"]
  /\ age = [p \in Procs |-> 0]
  /\ fresh = [p \in Procs |-> 0]

\* A process that still executes code.
Alive(p) == phase[p] \in {"up", "draining"}

-----------------------------------------------------------------------------
\* Start: the background loops begin.
Start(p) ==
  /\ phase[p] = "new"
  /\ phase' = [phase EXCEPT ![p] = "up"]
  /\ UNCHANGED <<lease, isLeader, call, age, fresh>>

\* startLeaderElector, electLeader: at once and then every TTL / 2, AcquireLeader
\* is called.
ElectSend(p) ==
  /\ TTL > 0
  /\ phase[p] = "up"
  /\ call[p] = "idle"
  /\ call' = [call EXCEPT ![p] = "sent"]
  /\ age' = [age EXCEPT ![p] = 0]
  /\ UNCHANGED <<lease, phase, isLeader, fresh>>

\* The lease counts as expired for process p.
Expired(p) == left <= (IF Driver = "sqlite" THEN Skew[p] ELSE 0)

\* Fault: any lease that is there is renewed.
AnyLease(p) == TRUE

\* Fault: only the row of the process itself may be overwritten.
OwnOnly(p) == holder \in {p, NoProc}

\* AcquireLeader: no lease, its own, or one that has expired.
MayAcquire(p) == holder \in {p, NoProc} \/ Expired(p)

\* The end of the new lease: the storage counts from now, time.Now().Add(ttl) on
\* PostgreSQL was computed before the statement was sent.
NewLease(p) ==
  IF Driver = "redis" THEN TTL
  ELSE TTL + Skew[p] - (IF Driver = "postgres" THEN age[p] ELSE 0)

\* AcquireLeader in the storage, which may happen after the process has died.  The
\* statement is one that commits: one that does not is ElectFails.
ElectExec(p) ==
  /\ call[p] = "sent"
  /\ IF MayAcquire(p)
     THEN /\ holder' = p
          /\ left' = Floor(NewLease(p))
          /\ call' = [call EXCEPT ![p] = "granted"]
     ELSE /\ call' = [call EXCEPT ![p] = "refused"]
          /\ UNCHANGED lease
  /\ UNCHANGED <<phase, isLeader, age, fresh>>

\* electLeader has the answer.
ElectReturn(p) ==
  /\ Alive(p)
  /\ call[p] \in {"granted", "refused"}
  /\ isLeader' = [isLeader EXCEPT ![p] = call[p] = "granted"]
  /\ fresh' = [fresh EXCEPT ![p] = IF call[p] = "granted" THEN Positive(TTL - age[p])
                                   ELSE @]
  /\ call' = [call EXCEPT ![p] = "idle"]
  /\ UNCHANGED <<lease, phase, age>>

\* electLeader gets an error, whether or not the storage has done its part.  (SQLite
\* answers "refused" instead when the commit fails; electLeader does the same.)
ElectFails(p) ==
  /\ Alive(p)
  /\ call[p] # "idle"
  /\ isLeader' = [isLeader EXCEPT ![p] = FALSE]
  /\ call' = [call EXCEPT ![p] = "idle"]
  /\ UNCHANGED <<lease, phase, age, fresh>>

\* The context of Start is cancelled: loops end, jobs run out.
Shutdown(p) ==
  /\ phase[p] = "up"
  /\ phase' = [phase EXCEPT ![p] = "draining"]
  /\ UNCHANGED <<lease, isLeader, call, age, fresh>>

\* The process is no more, and with it what it believed.
Vanish(p) ==
  /\ phase' = [phase EXCEPT ![p] = "gone"]
  /\ isLeader' = [isLeader EXCEPT ![p] = FALSE]
  /\ fresh' = [fresh EXCEPT ![p] = 0]
  /\ UNCHANGED <<call, age>>

\* Fault: the lease goes, whoever has it.
ReleaseAny(p) == TRUE

\* ReleaseLeader deletes the lease of its own process only.
ReleaseOwn(p) == holder = p

\* Start returns: the deferred ReleaseLeader, which may fail.
Stop(p) ==
  /\ phase[p] = "draining"
  /\ Vanish(p)
  /\ \/ TTL > 0 /\ ReleaseOwn(p) /\ holder' = NoProc /\ UNCHANGED left
     \/ UNCHANGED lease

Crash(p) ==
  /\ Alive(p)
  /\ Vanish(p)
  /\ UNCHANGED lease

\* Time passes.
Tick ==
  /\ left' = Floor(left - 1)
  /\ age' = [p \in Procs |-> IF call[p] # "idle" /\ age[p] < AgeCap THEN age[p] + 1
                             ELSE age[p]]
  /\ fresh' = [p \in Procs |-> Positive(fresh[p] - 1)]
  /\ UNCHANGED <<holder, phase, isLeader, call>>

-----------------------------------------------------------------------------
ProcStep(p) ==
  \/ Start(p) \/ ElectSend(p) \/ ElectExec(p) \/ ElectReturn(p) \/ ElectFails(p)
  \/ Shutdown(p) \/ Stop(p) \/ Crash(p)

Next == Tick \/ \E p \in Procs : ProcStep(p)

Spec == Init /\ [][Next]_vars

\* Time passes, electors go on, and a storage that is asked again and again
\* answers in the end, a process that is granted the lease again and again too.
Fairness ==
  /\ WF_vars(Tick)
  /\ \A p \in Procs :
       /\ WF_vars(ElectSend(p))
       /\ SF_vars(ElectExec(p))
       /\ SF_vars(ElectReturn(p))
       /\ SF_vars(call[p] = "granted" /\ ElectReturn(p))

FairSpec == Spec /\ Fairness

-----------------------------------------------------------------------------
(* Properties.                                                             *)

\* Types; the history never exceeds the TTL.
TypeOK ==
  /\ holder \in Procs \cup {NoProc}
  /\ left \in -MaxSkew .. TTL + MaxSkew
  /\ phase \in [Procs -> Phases]
  /\ isLeader \in [Procs -> BOOLEAN]
  /\ call \in [Procs -> Calls]
  /\ age \in [Procs -> 0 .. AgeCap]
  /\ fresh \in [Procs -> 0 .. TTL]

\* What the clocks may take off a lease.
Margin == IF Driver = "redis" THEN 0 ELSE IF Driver = "postgres" THEN MaxSkew
          ELSE 2 * MaxSkew

\* The last granted call of p is less than a TTL old, clock skew taken off.
Covered(p) == Alive(p) /\ isLeader[p] /\ fresh[p] > Margin

\* Two processes never lead at the same time by calls that are both less than a
\* TTL old: isLeader of an old leader may stay set beside a new one (electLeader is
\* late, a background loop is under way), but only beyond its TTL.
LeaseExclusive == \A p, q \in Procs : Covered(p) /\ Covered(q) => p = q

\* A leader that renews in time keeps the lease: AcquireLeader finds the lease taken
\* by another process only when the last granted call has run out, or there is none.
RefusedOnlyWhenLate ==
  \A p \in Procs : Alive(p) /\ call[p] = "refused" => fresh[p] <= Margin

\* Failover: as long as some process is up, one of those that are up takes itself for
\* the leader again and again, whichever process died with the lease.
Failover ==
  []<>((\E p \in Procs : phase[p] = "up") =>
         \E p \in Procs : phase[p] = "up" /\ isLeader[p])

=============================================================================
