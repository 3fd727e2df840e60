------------------------ MODULE LeaderElectionProofs ------------------------
(***************************************************************************)
(* Proofs about LeaderElection, for every set of processes, every TTL,     *)
(* every driver and all clocks within MaxSkew of each other.               *)
(***************************************************************************)
EXTENDS LeaderElection, TLAPS

\* What the clock of p adds to the end of a lease it writes.
Ahead(p) == IF Driver = "redis" THEN 0 ELSE Skew[p]

\* The lease is that of p, and for n more ticks by the clock of p.
Secured(p, n) == n > Margin => holder = p /\ left >= n + Ahead(p)

\* A granted call secures the lease for what is left of its TTL, from when the
\* storage executes it, before and after the process has the answer.
IInv ==
  /\ TypeOK
  /\ \A p \in Procs :
       /\ phase[p] = "new" => fresh[p] = 0 /\ call[p] = "idle"
       /\ fresh[p] > 0 /\ call[p] # "idle" => fresh[p] + age[p] <= TTL
       /\ Alive(p) => Secured(p, fresh[p])
       /\ Alive(p) /\ call[p] = "granted" => Secured(p, TTL - age[p])
       /\ Alive(p) /\ call[p] = "refused" => fresh[p] <= Margin

-----------------------------------------------------------------------------
\* Floor bounds from below.
LEMMA FloorLow == \A n \in Int : Floor(n) \in Int /\ Floor(n) >= -MaxSkew
BY LeaderAssumption DEF Floor, LeaderAssumption

\* The margin is a number of ticks.
LEMMA MarginNat == Margin \in Nat
BY LeaderAssumption DEF Margin, LeaderAssumption

\* A lease that secures p cannot be acquired by another process.
LEMMA SecuredHolds ==
  ASSUME TypeOK, NEW p \in Procs, NEW n \in Int, n > Margin, Secured(p, n),
         NEW q \in Procs, MayAcquire(q)
  PROVE  p = q
<1>1. holder = p /\ left >= n + Ahead(p)
  BY DEF Secured
<1>2. left > IF Driver = "sqlite" THEN Skew[q] ELSE 0
  BY <1>1, LeaderAssumption DEF Margin, Ahead, LeaderAssumption, TypeOK
<1>3. ~Expired(q)
  BY <1>2, LeaderAssumption DEF Expired, LeaderAssumption, TypeOK
<1> QED
  BY <1>1, <1>3, LeaderAssumption DEF MayAcquire, LeaderAssumption

\* A lease just written for p secures it for what its call leaves of the TTL.
LEMMA NewLeaseSecures ==
  ASSUME TypeOK, NEW p \in Procs
  PROVE  /\ NewLease(p) \in Int
         /\ NewLease(p) <= TTL + MaxSkew
         /\ Floor(NewLease(p)) >= TTL - age[p] + Ahead(p)
<1>1. /\ Skew[p] \in Int /\ age[p] \in Nat /\ Skew[p] <= MaxSkew
      /\ TTL \in Nat /\ MaxSkew \in Nat /\ Ahead(p) \in Int
  BY LeaderAssumption DEF LeaderAssumption, TypeOK, Ahead
<1>2. NewLease(p) \in Int /\ NewLease(p) >= TTL - age[p] + Ahead(p)
      /\ NewLease(p) <= TTL + MaxSkew
  BY <1>1, LeaderAssumption DEF NewLease, Ahead, LeaderAssumption
<1>3. \A n \in Int : Floor(n) \in Int /\ Floor(n) >= n
  BY <1>1 DEF Floor
<1>4. \A n, k, l \in Int : n >= k /\ k >= l => n >= l
  OBVIOUS
<1> QED
  BY <1>1, <1>2, <1>3, <1>4

-----------------------------------------------------------------------------
\* Types hold initially.
THEOREM TypeInit == Init => TypeOK
BY LeaderAssumption DEF Init, TypeOK, Phases, Calls, AgeCap, LeaderAssumption

\* Types are kept by every step.
THEOREM TypeStep == TypeOK /\ [Next]_vars => TypeOK'
<1> SUFFICES ASSUME TypeOK, [Next]_vars PROVE TypeOK'
  OBVIOUS
<1> USE DEF TypeOK, Phases, Calls, AgeCap
<1>1. CASE Tick
  <2>1. left' \in -MaxSkew .. TTL + MaxSkew
    BY <1>1, LeaderAssumption DEF Tick, Floor, LeaderAssumption
  <2>2. age' \in [Procs -> 0 .. TTL + 2 * MaxSkew]
    BY <1>1, LeaderAssumption DEF Tick, LeaderAssumption
  <2>3. fresh' \in [Procs -> 0 .. TTL]
    BY <1>1, LeaderAssumption DEF Tick, Positive, LeaderAssumption
  <2> QED
    BY <1>1, <2>1, <2>2, <2>3 DEF Tick
<1>2. ASSUME NEW p \in Procs, ProcStep(p) PROVE TypeOK'
  <2>1. CASE Start(p)
    BY <2>1 DEF Start, lease
  <2>2. CASE ElectSend(p)
    <3>1. 0 \in 0 .. TTL + 2 * MaxSkew
      BY LeaderAssumption DEF LeaderAssumption
    <3> QED
      BY <2>2, <3>1 DEF ElectSend, lease
  <2>3. CASE ElectExec(p)
    <3>1. NewLease(p) \in Int /\ NewLease(p) <= TTL + MaxSkew
      BY NewLeaseSecures
    <3>2. Floor(NewLease(p)) \in -MaxSkew .. TTL + MaxSkew
      BY <3>1, LeaderAssumption DEF Floor, LeaderAssumption
    <3> QED
      BY <2>3, <3>2 DEF ElectExec, lease
  <2>4. CASE ElectReturn(p)
    <3>1. Positive(TTL - age[p]) \in 0 .. TTL
      BY LeaderAssumption DEF Positive, LeaderAssumption
    <3> QED
      BY <2>4, <3>1 DEF ElectReturn, lease
  <2>5. CASE ElectFails(p)
    BY <2>5 DEF ElectFails, lease
  <2>6. CASE Shutdown(p)
    BY <2>6 DEF Shutdown, lease
  <2>7. CASE Stop(p)
    BY <2>7, LeaderAssumption DEF Stop, Vanish, lease, LeaderAssumption
  <2>8. CASE Crash(p)
    BY <2>8, LeaderAssumption DEF Crash, Vanish, lease, LeaderAssumption
  <2> QED
    BY <1>2, <2>1, <2>2, <2>3, <2>4, <2>5, <2>6, <2>7, <2>8 DEF ProcStep
<1>3. CASE UNCHANGED vars
  BY <1>3 DEF vars, lease
<1> QED
  BY <1>1, <1>2, <1>3 DEF Next

-----------------------------------------------------------------------------
\* The part of IInv about one process.
ProcInv(p) ==
  /\ phase[p] = "new" => fresh[p] = 0 /\ call[p] = "idle"
  /\ fresh[p] > 0 /\ call[p] # "idle" => fresh[p] + age[p] <= TTL
  /\ Alive(p) => Secured(p, fresh[p])
  /\ Alive(p) /\ call[p] = "granted" => Secured(p, TTL - age[p])
  /\ Alive(p) /\ call[p] = "refused" => fresh[p] <= Margin

\* What a step of p leaves of another process: all of it, except the lease.
Aside(p) ==
  \A r \in Procs \ {p} : /\ phase'[r] = phase[r] /\ call'[r] = call[r]
                        /\ age'[r] = age[r] /\ fresh'[r] = fresh[r]

\* While the lease stands, nothing changes for the others.
LEMMA OthersKeep ==
  ASSUME TypeOK, NEW p \in Procs, NEW r \in Procs \ {p}, ProcInv(r), Aside(p), UNCHANGED lease
  PROVE  ProcInv(r)'
BY DEF ProcInv, Aside, lease, Secured, Alive, Ahead, Margin

\* Every step of p is aside of the others.
LEMMA StepAside ==
  ASSUME TypeOK, NEW p \in Procs, ProcStep(p)
  PROVE  Aside(p)
<1>1. CASE Start(p)
  BY <1>1 DEF TypeOK, Start, Aside
<1>2. CASE ElectSend(p)
  BY <1>2 DEF TypeOK, ElectSend, Aside
<1>3. CASE ElectExec(p)
  BY <1>3 DEF TypeOK, ElectExec, Aside
<1>4. CASE ElectReturn(p)
  BY <1>4 DEF TypeOK, ElectReturn, Aside
<1>5. CASE ElectFails(p)
  BY <1>5 DEF TypeOK, ElectFails, Aside
<1>6. CASE Shutdown(p)
  BY <1>6 DEF TypeOK, Shutdown, Aside
<1>7. CASE Stop(p)
  BY <1>7 DEF TypeOK, Stop, Vanish, Aside
<1>8. CASE Crash(p)
  BY <1>8 DEF TypeOK, Crash, Vanish, Aside
<1> QED
  BY <1>1, <1>2, <1>3, <1>4, <1>5, <1>6, <1>7, <1>8 DEF ProcStep

\* The lease does not run out before what it secures.
LEMMA TickKeeps ==
  ASSUME TypeOK, NEW p \in Procs, ProcInv(p), Tick
  PROVE  ProcInv(p)'
<1>1. /\ holder' = holder /\ phase'[p] = phase[p] /\ call'[p] = call[p]
      /\ left' = Floor(left - 1) /\ left \in Int
      /\ fresh[p] \in Nat /\ fresh'[p] = Positive(fresh[p] - 1)
      /\ age[p] \in Nat
      /\ age'[p] = IF call[p] # "idle" /\ age[p] < AgeCap THEN age[p] + 1 ELSE age[p]
  BY LeaderAssumption DEF Tick, TypeOK, LeaderAssumption
<1>2. Margin \in Nat /\ Margin' = Margin /\ Ahead(p)' = Ahead(p)
  BY MarginNat DEF Margin, Ahead
<1>3. Ahead(p) \in Int /\ TTL \in Nat /\ MaxSkew \in Nat /\ Margin + Ahead(p) >= 0
  BY LeaderAssumption DEF Ahead, Margin, LeaderAssumption
<1>4. ASSUME NEW n \in Int, NEW k \in Int, k <= n - 1 \/ (n <= Margin /\ k <= n), Secured(p, n)
      PROVE  Secured(p, k)'
  <2> SUFFICES ASSUME k > Margin PROVE holder' = p /\ left' >= k + Ahead(p)
    BY <1>2 DEF Secured
  <2>1. n > Margin /\ k <= n - 1
    BY <1>2, <1>4
  <2>2. holder = p /\ left >= n + Ahead(p)
    BY <1>4, <2>1 DEF Secured
  <2>3. left - 1 >= k + Ahead(p)
    BY <1>1, <1>3, <2>1, <2>2
  <2>4. left' >= left - 1
    BY <1>1, <1>3 DEF Floor
  <2>5. left' \in Int
    BY <1>1, <1>3 DEF Floor
  <2> QED
    BY <1>1, <1>3, <2>2, <2>3, <2>4, <2>5
<1>5. Alive(p)' = Alive(p)
  BY <1>1 DEF Alive
<1>6. ASSUME Alive(p)' PROVE Secured(p, fresh[p])'
  <2>1. Secured(p, fresh[p])
    BY <1>5, <1>6 DEF ProcInv
  <2>2. /\ fresh'[p] \in Int
        /\ \/ fresh'[p] <= fresh[p] - 1
           \/ fresh[p] <= Margin /\ fresh'[p] <= fresh[p]
    BY <1>1, <1>2 DEF Positive
  <2> QED
    BY <1>1, <1>4, <2>1, <2>2
<1>7. ASSUME Alive(p)', call'[p] = "granted" PROVE Secured(p, TTL - age[p])'
  <2>1. Secured(p, TTL - age[p])
    BY <1>1, <1>5, <1>7 DEF ProcInv
  <2>2. /\ TTL - age[p] \in Int /\ TTL - age'[p] \in Int
        /\ \/ TTL - age'[p] <= (TTL - age[p]) - 1
           \/ TTL - age[p] <= Margin /\ TTL - age'[p] <= TTL - age[p]
    BY <1>1, <1>2, <1>3, <1>7 DEF AgeCap
  <2> QED
    BY <1>4, <2>1, <2>2
<1>8. (fresh[p] > 0 /\ call[p] # "idle" => fresh[p] + age[p] <= TTL)'
  BY <1>1, <1>3 DEF ProcInv, Positive
<1>9. (phase[p] = "new" => fresh[p] = 0 /\ call[p] = "idle")'
  BY <1>1 DEF ProcInv, Positive
<1>10. (Alive(p) /\ call[p] = "refused" => fresh[p] <= Margin)'
  BY <1>1, <1>2, <1>5 DEF ProcInv, Positive
<1> QED
  BY <1>6, <1>7, <1>8, <1>9, <1>10 DEF ProcInv

\* AcquireLeader in the storage takes nobody's lease away before its time.
LEMMA ExecKeeps ==
  ASSUME TypeOK, NEW p \in Procs, NEW r \in Procs, ProcInv(r), ElectExec(p)
  PROVE  ProcInv(r)'
<1>1. /\ phase' = phase /\ age' = age /\ fresh' = fresh
      /\ (Alive(r)' = Alive(r)) /\ (Margin' = Margin) /\ (Ahead(r)' = Ahead(r))
  BY DEF ElectExec, Alive, Margin, Ahead
<1>2. /\ fresh[r] \in Nat /\ age[r] \in Nat /\ TTL \in Nat /\ Margin \in Nat
      /\ Ahead(r) \in Int
  BY MarginNat, LeaderAssumption DEF TypeOK, LeaderAssumption, Ahead
<1>3. CASE MayAcquire(p)
  <2>1. holder' = p /\ left' = Floor(NewLease(p)) /\ call' = [call EXCEPT ![p] = "granted"]
    BY <1>3 DEF ElectExec
  <2>2. CASE r = p
    <3>1. call[r] = "sent" /\ call'[r] = "granted"
      BY <2>1, <2>2 DEF ElectExec, TypeOK
    <3>2. left' >= TTL - age[r] + Ahead(r) /\ left' \in Int
      BY <2>1, <2>2, NewLeaseSecures, FloorLow
    <3>3. Secured(r, TTL - age[r])'
      BY <1>1, <2>1, <2>2, <3>2 DEF Secured
    <3>4. Secured(r, fresh[r])'
      <4> SUFFICES ASSUME fresh[r] > Margin PROVE holder' = r /\ left' >= fresh[r] + Ahead(r)
        BY <1>1 DEF Secured
      <4>1. fresh[r] + age[r] <= TTL
        BY <1>2, <3>1 DEF ProcInv
      <4> QED
        BY <1>2, <2>1, <2>2, <3>2, <4>1
    <3> QED
      BY <1>1, <3>1, <3>3, <3>4 DEF ProcInv
  <2>3. CASE r # p
    <3>1. call'[r] = call[r]
      BY <2>1, <2>3 DEF TypeOK
    <3>2. ASSUME NEW n \in Int, Secured(r, n) PROVE Secured(r, n)'
      <4>1. ~(n > Margin)
        BY <1>3, <2>3, <3>2, SecuredHolds
      <4> QED
        BY <1>1, <4>1 DEF Secured
    <3>3. TTL - age[r] \in Int /\ fresh[r] \in Int
      BY <1>2
    <3>4. Alive(r) => Secured(r, fresh[r])'
      BY <1>1, <3>2, <3>3 DEF ProcInv
    <3>5. Alive(r) /\ call[r] = "granted" => Secured(r, TTL - age[r])'
      BY <1>1, <3>2, <3>3 DEF ProcInv
    <3> QED
      BY <1>1, <3>1, <3>4, <3>5 DEF ProcInv
  <2> QED
    BY <2>2, <2>3
<1>4. CASE ~MayAcquire(p)
  <2>1. UNCHANGED lease /\ call' = [call EXCEPT ![p] = "refused"]
    BY <1>4 DEF ElectExec
  <2>2. \A n \in Int : Secured(r, n)' = Secured(r, n)
    BY <1>1, <2>1 DEF Secured, lease
  <2>3. CASE r = p
    <3>1. call[r] = "sent" /\ call'[r] = "refused"
      BY <2>1, <2>3 DEF ElectExec, TypeOK
    <3>2. Alive(r) => ~(fresh[r] > Margin)
      BY <1>4, <2>3 DEF ProcInv, Secured, MayAcquire
    <3>3. Alive(r) => fresh[r] <= Margin
      BY <1>2, <3>2
    <3>4. fresh[r] \in Int
      BY <1>2
    <3> QED
      BY <1>1, <2>2, <3>1, <3>3, <3>4 DEF ProcInv, Secured
  <2>4. CASE r # p
    <3>1. call'[r] = call[r]
      BY <2>1, <2>4 DEF TypeOK
    <3> QED
      BY <1>1, <2>1, <3>1 DEF ProcInv, Secured, lease
  <2> QED
    BY <2>3, <2>4
<1> QED
  BY <1>3, <1>4

\* The answer makes what the call secured what the process counts on.
LEMMA ReturnKeeps ==
  ASSUME TypeOK, NEW p \in Procs, ProcInv(p), ElectReturn(p)
  PROVE  ProcInv(p)'
<1>1. /\ UNCHANGED lease /\ phase' = phase /\ call'[p] = "idle" /\ Alive(p)
      /\ Alive(p)' = Alive(p) /\ Margin' = Margin /\ Ahead(p)' = Ahead(p)
      /\ fresh'[p] = IF call[p] = "granted" THEN Positive(TTL - age[p]) ELSE fresh[p]
  BY DEF ElectReturn, Alive, Margin, Ahead, TypeOK
<1>2. age[p] \in Nat /\ TTL \in Nat /\ Margin \in Nat
  BY MarginNat, LeaderAssumption DEF TypeOK, LeaderAssumption
<1>3. Secured(p, fresh[p])'
  <2>1. CASE call[p] = "granted" /\ TTL - age[p] > 0
    <3>1. Secured(p, TTL - age[p])
      BY <1>1, <2>1 DEF ProcInv
    <3>2. fresh'[p] = TTL - age[p]
      BY <1>1, <2>1 DEF Positive
    <3> QED
      BY <1>1, <3>1, <3>2 DEF Secured, lease
  <2>2. CASE call[p] = "granted" /\ ~(TTL - age[p] > 0)
    <3>1. fresh'[p] = 0
      BY <1>1, <2>2 DEF Positive
    <3>2. ~(fresh'[p] > Margin)
      BY <1>2, <3>1
    <3> QED
      BY <1>1, <3>2 DEF Secured
  <2>3. CASE call[p] # "granted"
    BY <1>1, <2>3 DEF ProcInv, Secured, lease
  <2> QED
    BY <2>1, <2>2, <2>3
<1>4. phase'[p] # "new"
  BY <1>1 DEF Alive
<1> QED
  BY <1>1, <1>3, <1>4 DEF ProcInv

\* A step of p keeps what is known of p.
LEMMA OwnKeeps ==
  ASSUME TypeOK, NEW p \in Procs, ProcInv(p), ProcStep(p)
  PROVE  ProcInv(p)'
<1>1. TTL \in Nat /\ fresh[p] \in 0 .. TTL /\ age[p] \in Nat /\ Margin \in Nat /\ Margin' = Margin
  BY MarginNat, LeaderAssumption DEF TypeOK, LeaderAssumption, Margin
<1>2. CASE Start(p)
  <2>1. /\ phase[p] = "new" /\ phase'[p] = "up" /\ UNCHANGED <<lease, call, age, fresh>>
        /\ fresh[p] = 0 /\ call[p] = "idle"
    BY <1>2 DEF Start, ProcInv, TypeOK
  <2>2. ~(fresh[p] > Margin)
    BY <1>1, <2>1
  <2> QED
    BY <1>1, <2>1, <2>2 DEF ProcInv, Secured
<1>3. CASE ElectSend(p)
  <2>1. /\ phase' = phase /\ phase[p] = "up" /\ fresh' = fresh /\ UNCHANGED lease
        /\ call'[p] = "sent" /\ age'[p] = 0
    BY <1>3 DEF ElectSend, TypeOK
  <2>2. fresh[p] + 0 <= TTL
    BY <1>1
  <2>3. Alive(p)
    BY <2>1 DEF Alive
  <2> QED
    BY <1>1, <2>1, <2>2, <2>3 DEF ProcInv, Secured, lease, Ahead, Alive
<1>4. CASE ElectExec(p)
  BY <1>4, ExecKeeps
<1>5. CASE ElectReturn(p)
  BY <1>5, ReturnKeeps
<1>6. CASE ElectFails(p)
  <2>1. call'[p] = "idle" /\ phase[p] # "new" /\ UNCHANGED <<lease, phase, age, fresh>> /\ Alive(p)
    BY <1>6 DEF ElectFails, Alive, TypeOK
  <2> QED
    BY <1>1, <2>1 DEF ProcInv, Secured, lease, Ahead, Alive
<1>7. CASE Shutdown(p)
  <2>1. /\ phase[p] = "up" /\ phase'[p] = "draining" /\ UNCHANGED <<lease, call, age, fresh>>
    BY <1>7 DEF Shutdown, TypeOK
  <2> QED
    BY <1>1, <2>1 DEF ProcInv, Secured, lease, Ahead, Alive
<1>8. CASE Stop(p) \/ Crash(p)
  <2>1. phase'[p] = "gone" /\ fresh'[p] = 0
    BY <1>8 DEF Stop, Crash, Vanish, TypeOK
  <2>2. ~(fresh'[p] > 0)
    BY <2>1
  <2> QED
    BY <2>1, <2>2 DEF ProcInv, Alive
<1> QED
  BY <1>2, <1>3, <1>4, <1>5, <1>6, <1>7, <1>8 DEF ProcStep

\* A step of p keeps what is known of another process r.
LEMMA OtherKeeps ==
  ASSUME TypeOK, NEW p \in Procs, NEW r \in Procs \ {p}, ProcInv(r), ProcStep(p)
  PROVE  ProcInv(r)'
<1>1. Aside(p)
  BY StepAside
<1>2. CASE ElectExec(p)
  BY <1>2, ExecKeeps
<1>3. CASE Stop(p) /\ ~UNCHANGED lease
  <2>1. holder = p /\ left' = left
    BY <1>3 DEF Stop, ReleaseOwn
  <2>2. /\ phase'[r] = phase[r] /\ call'[r] = call[r] /\ age'[r] = age[r]
        /\ fresh'[r] = fresh[r] /\ Margin' = Margin
    BY <1>1 DEF Aside, Margin
  <2>3. \A n \in Int : Secured(r, n) => ~(n > Margin)
    BY <2>1 DEF Secured
  <2>4. fresh[r] \in Int /\ TTL - age[r] \in Int
    BY LeaderAssumption DEF TypeOK, LeaderAssumption
  <2> QED
    BY <2>2, <2>3, <2>4 DEF ProcInv, Secured, Alive
<1>4. CASE ~ElectExec(p) /\ UNCHANGED lease
  BY <1>1, <1>4, OthersKeep
<1> QED
  BY <1>2, <1>3, <1>4 DEF ProcStep, Start, ElectSend, ElectReturn, ElectFails, Shutdown, Crash

-----------------------------------------------------------------------------
\* The inductive invariant holds initially.
THEOREM InvInit == Init => IInv
<1> SUFFICES ASSUME Init PROVE IInv
  OBVIOUS
<1>1. TypeOK
  BY TypeInit
<1>2. ASSUME NEW p \in Procs
      PROVE  phase[p] = "new" /\ fresh[p] = 0 /\ call[p] = "idle"
  BY DEF Init
<1> QED
  BY <1>1, <1>2 DEF IInv, Alive

\* Every step keeps the inductive invariant.
THEOREM InvStep == IInv /\ [Next]_vars => IInv'
<1> SUFFICES ASSUME IInv, [Next]_vars PROVE IInv'
  OBVIOUS
<1>1. TypeOK /\ TypeOK' /\ \A p \in Procs : ProcInv(p)
  BY TypeStep DEF IInv, ProcInv
<1>2. ASSUME NEW r \in Procs PROVE ProcInv(r)'
  <2>1. CASE Tick
    BY <1>1, <2>1, TickKeeps
  <2>2. ASSUME NEW p \in Procs, ProcStep(p) PROVE ProcInv(r)'
    BY <1>1, <2>2, OwnKeeps, OtherKeeps
  <2>3. CASE UNCHANGED vars
    BY <1>1, <2>3 DEF vars, lease, ProcInv, Secured, Ahead, Margin, Alive
  <2> QED
    BY <2>1, <2>2, <2>3 DEF Next
<1> QED
  BY <1>1, <1>2 DEF IInv, ProcInv

\* Types: every variable keeps its type, and the history stays below the TTL.
THEOREM TypeCorrect == Spec => []TypeOK
<1>1. Init => TypeOK
  BY TypeInit
<1>2. TypeOK /\ [Next]_vars => TypeOK'
  BY TypeStep
<1> QED
  BY <1>1, <1>2, PTL DEF Spec

\* Two processes whose granted calls are both less than a TTL old (AcquireLeader, on
\* every driver, up to the clock skew) are the same process.
THEOREM LeaseIsExclusive == Spec => []LeaseExclusive
<1>1. IInv => LeaseExclusive
  <2> SUFFICES ASSUME IInv, NEW p \in Procs, NEW q \in Procs, Covered(p), Covered(q)
               PROVE  p = q
    BY DEF LeaseExclusive
  <2>1. holder = p /\ holder = q
    BY DEF IInv, Covered, Secured
  <2> QED
    BY <2>1
<1> QED
  BY <1>1, InvInit, InvStep, PTL DEF Spec

\* AcquireLeader does not refuse a process whose last granted call still covers it.
THEOREM OnlyLateIsRefused == Spec => []RefusedOnlyWhenLate
<1>1. IInv => RefusedOnlyWhenLate
  BY DEF IInv, RefusedOnlyWhenLate
<1> QED
  BY <1>1, InvInit, InvStep, PTL DEF Spec

=============================================================================
