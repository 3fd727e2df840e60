-------------------------- MODULE SchedulersProofs --------------------------
(***************************************************************************)
(* Proofs about the schedulers, for every number of processes, every       *)
(* driver, every set of schedules and any way of electing leaders: the     *)
(* locks of LockCronExecution keep a job from being enqueued twice for one *)
(* minute, as long as no interval is longer than the locks are remembered; *)
(* and no minute or block that a leader has noted is lost.                 *)
(***************************************************************************)
EXTENDS Schedulers, TLAPS

\* In the last minute of a block, the lock for its first one is not yet forgotten.
\* Not so by the defaults: intervals may be longer than 5 minutes (Redis) or 1 h (SQL).
ShortBlocks ==
  \A n \in Names, c \in Nat :
    Interval[n] > 0 =>
      c \div MinuteLen - ((c \div Interval[n]) * Interval[n]) \div MinuteLen < LockLife

Types ==
  /\ clock \in 0 .. MaxTime
  /\ tasks \subseteq Tasks
  /\ lockedAt \in [Names -> [Minutes -> Int]]
  /\ runs \in [Names -> [Minutes -> Nat]]

\* A goroutine gets to its lock before the lock would be forgotten.
InTime == \A t \in tasks : t.minute <= Minute /\ Minute - t.minute < LockLife

\* What is known of the lock for name n and minute m: it was not taken before its
\* minute, it is taken before the job is enqueued, by one goroutine, and once.
Guarded(n, m) ==
  /\ lockedAt[n][m] = NoLock \/ lockedAt[n][m] >= m
  /\ lockedAt[n][m] = NoLock => runs[n][m] = 0
  /\ runs[n][m] <= 1

Enqueuing(t) ==
  t.step = "enqueue" => lockedAt[t.name][t.minute] # NoLock /\ runs[t.name][t.minute] = 0

Alone(t, u) ==
  t.step = "enqueue" /\ u.step = "enqueue" /\ t.name = u.name /\ t.minute = u.minute => t = u

IInv ==
  /\ Types
  /\ InTime
  /\ \A n \in Names, m \in Minutes : Guarded(n, m)
  /\ \A t \in tasks : Enqueuing(t)
  /\ \A t, u \in tasks : Alone(t, u)

-----------------------------------------------------------------------------
\* Division by a positive number.
LEMMA MulMono == \A d \in Nat, k, l \in Int : k <= l => d * k <= d * l
OBVIOUS

\* What a quotient is.
LEMMA DivDef ==
  \A a \in Nat, d \in Nat \ {0} :
    a \div d \in Nat /\ d * (a \div d) <= a /\ a < d * (a \div d) + d
OBVIOUS

\* Quotients grow with the number divided.
LEMMA DivMono ==
  ASSUME NEW a \in Nat, NEW b \in Nat, NEW d \in Nat \ {0}, a <= b
  PROVE  a \div d <= b \div d
<1> DEFINE q == a \div d
           r == b \div d
<1>1. q \in Nat /\ r \in Nat /\ d * q <= a /\ b < d * r + d
  BY DivDef
<1> HIDE DEF q, r
<1>2. ASSUME q > r PROVE FALSE
  <2>1. r + 1 <= q
    BY <1>1, <1>2
  <2>2. d * (r + 1) <= d * q
    BY <1>1, <2>1, MulMono
  <2>3. d * (r + 1) = d * r + d
    BY <1>1
  <2> QED
    BY <1>1, <2>2, <2>3
<1> QED
  BY <1>1, <1>2 DEF q, r

\* The constants, as the proofs use them.
LEMMA ConstantFacts ==
  /\ MinuteLen \in Nat \ {0} /\ LockLife \in Nat \ {0} /\ MaxTime \in Nat
  /\ Crons \subseteq Names /\ Interval \in [Names -> Nat]
BY SchedulerAssumption DEF SchedulerAssumption

\* The clock is in a minute of the model.
LEMMA MinuteTyped ==
  ASSUME NEW c \in 0 .. MaxTime
  PROVE  c \div MinuteLen \in Minutes
<1>1. c \div MinuteLen \in Nat /\ MaxTime \div MinuteLen \in Nat
  BY DivDef, ConstantFacts
<1>2. c \div MinuteLen <= MaxTime \div MinuteLen
  BY DivMono, ConstantFacts
<1> QED
  BY <1>1, <1>2 DEF Minutes

\* The start of a block is in a minute of the model, not after the clock.
LEMMA BlockTyped ==
  ASSUME Types, NEW n \in Names, Interval[n] > 0
  PROVE  BlockMinute(n) \in Minutes /\ BlockMinute(n) <= Minute
<1> DEFINE b == clock \div Interval[n]
<1>1. clock \in Nat /\ Interval[n] \in Nat \ {0} /\ clock <= MaxTime
  BY ConstantFacts DEF Types
<1>2. b \in Nat /\ Interval[n] * b <= clock
  BY <1>1, DivDef
<1>3. b * Interval[n] \in 0 .. MaxTime /\ b * Interval[n] <= clock
  <2> HIDE DEF b
  <2>1. b * Interval[n] = Interval[n] * b /\ b * Interval[n] \in Nat
    BY <1>1, <1>2
  <2> QED
    BY <1>1, <1>2, <2>1, ConstantFacts
<1>4. (b * Interval[n]) \div MinuteLen \in Minutes
  BY <1>3, MinuteTyped
<1>5. (b * Interval[n]) \div MinuteLen <= clock \div MinuteLen
  BY <1>1, <1>3, DivMono, ConstantFacts
<1> QED
  BY <1>4, <1>5 DEF BlockMinute, Block, Minute

\* Under Types and InTime, a lock that was ever taken stands for every goroutine.
LEMMA LockHolds ==
  ASSUME IInv, NEW t \in tasks, ~LockStands(t.name, t.minute)
  PROVE  lockedAt[t.name][t.minute] = NoLock
<1>1. t.name \in Names /\ t.minute \in Minutes /\ t.minute \in Int
  BY DEF IInv, Types, Tasks, Minutes
<1>2. Guarded(t.name, t.minute)
  BY <1>1 DEF IInv
<1>3. Minute - t.minute < LockLife /\ Minute \in Int /\ lockedAt[t.name][t.minute] \in Int
  <2>1. Minute \in Minutes
    BY MinuteTyped DEF Minute, IInv, Types
  <2>2. Minute - t.minute < LockLife
    BY DEF IInv, InTime
  <2>3. lockedAt[t.name][t.minute] \in Int
    BY <1>1 DEF IInv, Types
  <2> QED
    BY <2>1, <2>2, <2>3 DEF Minutes
<1> QED
  BY <1>1, <1>2, <1>3, ConstantFacts DEF LockStands, Guarded

-----------------------------------------------------------------------------
\* Tasks are added by the loops, in time and before their lock.
LEMMA AddTasks ==
  ASSUME IInv, NEW new, new \subseteq Tasks, UNCHANGED <<clock, lockedAt, runs>>,
         tasks' = tasks \cup new,
         \A t \in new : /\ t.step = "lock"
                        /\ t.minute <= Minute /\ Minute - t.minute < LockLife
  PROVE  IInv'
<1>1. Types'
  BY DEF IInv, Types
<1>2. InTime'
  BY DEF IInv, InTime, Minute
<1>3. \A n \in Names, m \in Minutes : Guarded(n, m)'
  BY DEF IInv, Guarded
<1>4. \A t \in tasks' : Enqueuing(t)'
  BY DEF IInv, Enqueuing
<1>5. \A t, u \in tasks' : Alone(t, u)'
  BY DEF IInv, Alone
<1> QED
  BY <1>1, <1>2, <1>3, <1>4, <1>5 DEF IInv

\* Tasks that are dropped take nothing with them.
LEMMA DropTasks ==
  ASSUME IInv, tasks' \subseteq tasks, UNCHANGED <<clock, lockedAt, runs>>
  PROVE  IInv'
<1>1. Types'
  BY DEF IInv, Types
<1>2. InTime'
  BY DEF IInv, InTime, Minute
<1>3. \A n \in Names, m \in Minutes : Guarded(n, m)'
  BY DEF IInv, Guarded
<1>4. \A t \in tasks' : Enqueuing(t)'
  BY DEF IInv, Enqueuing
<1>5. \A t, u \in tasks' : Alone(t, u)'
  BY DEF IInv, Alone
<1> QED
  BY <1>1, <1>2, <1>3, <1>4, <1>5 DEF IInv

\* A lock is taken that never was: nobody enqueues under it, and nothing was.
LEMMA LockTaken ==
  ASSUME IInv, NEW t \in tasks, t.step = "lock", ~LockStands(t.name, t.minute),
         NEW k, k = [t EXCEPT !.step = "enqueue"],
         tasks' \subseteq (tasks \ {t}) \cup {k},
         lockedAt' = [lockedAt EXCEPT ![t.name][t.minute] = Minute],
         UNCHANGED <<clock, runs>>
  PROVE  IInv'
<1>1. t \in Tasks /\ t.name \in Names /\ t.minute \in Minutes /\ t.minute \in Int /\ t.minute <= Minute
  BY DEF IInv, Types, Tasks, Minutes, InTime
<1>2. Minute \in Minutes /\ Minute \in Nat /\ Minute' = Minute
  BY MinuteTyped DEF Minute, Minutes, IInv, Types
<1>3. lockedAt[t.name][t.minute] = NoLock /\ runs[t.name][t.minute] = 0
  BY <1>1, LockHolds DEF IInv, Guarded
<1>4. k \in Tasks /\ k.name = t.name /\ k.minute = t.minute /\ k.step = "enqueue"
  BY <1>1 DEF Tasks
<1>5. tasks' \subseteq Tasks
  BY <1>4 DEF IInv, Types
<1>6. /\ lockedAt' \in [Names -> [Minutes -> Int]]
      /\ lockedAt'[t.name][t.minute] = Minute
      /\ \A n \in Names, m \in Minutes :
           n # t.name \/ m # t.minute => lockedAt'[n][m] = lockedAt[n][m]
  BY <1>1, <1>2 DEF IInv, Types
<1>7. InTime'
  BY <1>2, <1>4 DEF IInv, InTime
<1>8. ASSUME NEW n \in Names, NEW m \in Minutes PROVE Guarded(n, m)'
  <2>1. CASE n = t.name /\ m = t.minute
    BY <1>1, <1>2, <1>3, <1>6, <2>1 DEF Guarded, NoLock
  <2>2. CASE n # t.name \/ m # t.minute
    BY <1>6, <2>2 DEF IInv, Guarded
  <2> QED
    BY <2>1, <2>2
<1>9. \A u \in tasks : u.step = "enqueue" => u.name # t.name \/ u.minute # t.minute
  BY <1>3 DEF IInv, Enqueuing
<1>10. ASSUME NEW u \in tasks' PROVE Enqueuing(u)'
  <2>1. CASE u = k
    BY <1>2, <1>3, <1>4, <1>6, <2>1 DEF Enqueuing, NoLock
  <2>2. CASE u \in tasks
    <3>1. u.name \in Names /\ u.minute \in Minutes
      BY <2>2 DEF IInv, Types, Tasks
    <3> QED
      BY <1>6, <1>9, <2>2, <3>1 DEF IInv, Enqueuing
  <2> QED
    BY <2>1, <2>2
<1>11. ASSUME NEW u \in tasks', NEW v \in tasks' PROVE Alone(u, v)'
  <2>1. CASE u = k /\ v = k
    BY <2>1 DEF Alone
  <2>2. CASE u = k /\ v \in tasks
    BY <1>4, <1>9, <2>2 DEF Alone
  <2>3. CASE v = k /\ u \in tasks
    BY <1>4, <1>9, <2>3 DEF Alone
  <2>4. CASE u \in tasks /\ v \in tasks
    BY <2>4 DEF IInv, Alone
  <2> QED
    BY <2>1, <2>2, <2>3, <2>4
<1> QED
  BY <1>5, <1>6, <1>7, <1>8, <1>10, <1>11 DEF IInv, Types

\* The goroutine that has the lock enqueues, the only one and the first time.
LEMMA EnqueueKeeps ==
  ASSUME IInv, NEW t \in tasks, Enqueue(t)
  PROVE  IInv'
<1>1. /\ t.step = "enqueue" /\ tasks' = tasks \ {t} /\ UNCHANGED <<clock, lockedAt>>
      /\ runs' = [runs EXCEPT ![t.name][t.minute] = @ + 1]
  BY DEF Enqueue
<1>2. t.name \in Names /\ t.minute \in Minutes
  BY DEF IInv, Types, Tasks
<1>3. lockedAt[t.name][t.minute] # NoLock /\ runs[t.name][t.minute] = 0
  BY <1>1 DEF IInv, Enqueuing
<1>4. /\ runs' \in [Names -> [Minutes -> Nat]]
      /\ runs'[t.name][t.minute] = 1
      /\ \A n \in Names, m \in Minutes :
           n # t.name \/ m # t.minute => runs'[n][m] = runs[n][m]
  BY <1>1, <1>2, <1>3 DEF IInv, Types
<1>5. Types' /\ InTime'
  BY <1>1, <1>4 DEF IInv, Types, InTime, Minute
<1>6. ASSUME NEW n \in Names, NEW m \in Minutes PROVE Guarded(n, m)'
  <2>1. CASE n = t.name /\ m = t.minute
    BY <1>1, <1>3, <1>4, <2>1 DEF IInv, Guarded
  <2>2. CASE n # t.name \/ m # t.minute
    BY <1>1, <1>4, <2>2 DEF IInv, Guarded
  <2> QED
    BY <2>1, <2>2
<1>7. ASSUME NEW u \in tasks' PROVE Enqueuing(u)'
  <2>1. u \in tasks /\ u # t /\ u.name \in Names /\ u.minute \in Minutes
    BY <1>1 DEF IInv, Types, Tasks
  <2>2. u.step = "enqueue" => u.name # t.name \/ u.minute # t.minute
    BY <1>1, <2>1 DEF IInv, Alone
  <2> QED
    BY <1>1, <1>4, <2>1, <2>2 DEF IInv, Enqueuing
<1>8. \A u, v \in tasks' : Alone(u, v)'
  BY <1>1 DEF IInv, Alone
<1> QED
  BY <1>5, <1>6, <1>7, <1>8 DEF IInv

\* The clock goes on no further than the goroutines allow.
LEMMA AdvanceKeeps ==
  ASSUME IInv, Advance
  PROVE  IInv'
<1>1. /\ clock < MaxTime /\ clock' = clock + 1 /\ clock \in Nat /\ clock' \in 0 .. MaxTime
      /\ UNCHANGED <<tasks, lockedAt, runs>>
      /\ \A t \in tasks : clock' \div MinuteLen - t.minute < LockLife
  BY ConstantFacts DEF Advance, IInv, Types
<1>2. clock \div MinuteLen <= clock' \div MinuteLen
  BY <1>1, DivMono, ConstantFacts
<1>3. clock \div MinuteLen \in Int /\ clock' \div MinuteLen \in Int
  BY <1>1, DivDef, ConstantFacts
<1>4. \A t \in tasks : t.minute \in Int
  BY DEF IInv, Types, Tasks, Minutes
<1>5. InTime'
  BY <1>1, <1>2, <1>3, <1>4 DEF IInv, InTime, Minute
<1> QED
  BY <1>1, <1>5 DEF IInv, Types, Guarded, Enqueuing, Alone

-----------------------------------------------------------------------------
\* The invariant holds initially.
THEOREM InvInit == Init => IInv
<1> SUFFICES ASSUME Init PROVE IInv
  OBVIOUS
<1>1. clock \in 0 .. MaxTime
  BY SchedulerAssumption DEF Init, SchedulerAssumption
<1>2. lockedAt \in [Names -> [Minutes -> Int]] /\ runs \in [Names -> [Minutes -> Nat]]
  BY DEF Init, NoLock
<1>3. \A n \in Names, m \in Minutes : Guarded(n, m)
  BY DEF Init, Guarded
<1>4. tasks = {}
  BY DEF Init
<1> QED
  BY <1>1, <1>2, <1>3, <1>4 DEF IInv, Types, InTime

\* Every step keeps it.
THEOREM InvStep == ShortBlocks /\ IInv /\ [Next]_vars => IInv'
<1> SUFFICES ASSUME ShortBlocks, IInv, [Next]_vars PROVE IInv'
  OBVIOUS
<1>1. Minute \in Minutes /\ Minute \in Int /\ clock \in Nat
  BY MinuteTyped DEF Minute, Minutes, IInv, Types
<1>2. CASE Advance
  BY <1>2, AdvanceKeeps
<1>3. ASSUME NEW p \in Procs, CronTick(p) PROVE IInv'
  <2> DEFINE new == [proc : {p}, name : Due(Minute), minute : {Minute}, step : {"lock"}]
  <2>1. UNCHANGED <<clock, lockedAt, runs>> /\ (tasks' = tasks \cup new \/ tasks' = tasks)
    BY <1>3 DEF CronTick
  <2>2. new \subseteq Tasks
    BY <1>1, ConstantFacts DEF Tasks, Due
  <2>3. \A t \in new : t.step = "lock" /\ t.minute <= Minute /\ Minute - t.minute < LockLife
    BY <1>1, ConstantFacts
  <2> HIDE DEF new
  <2> QED
    BY <2>1, <2>2, <2>3, AddTasks, DropTasks
<1>4. ASSUME NEW p \in Procs, IntervalTick(p) PROVE IInv'
  <2> DEFINE started == {n \in Names : Interval[n] > 0 /\ Block(n) > lastBlock[p][n]}
             new == {[proc |-> p, name |-> n, minute |-> BlockMinute(n), step |-> "lock"] : n \in started}
  <2>1. UNCHANGED <<clock, lockedAt, runs>> /\ tasks' = tasks \cup new
    BY <1>4 DEF IntervalTick
  <2>2. \A n \in started : BlockMinute(n) \in Minutes /\ BlockMinute(n) <= Minute
    BY BlockTyped DEF IInv
  <2>3. \A n \in started : Minute - BlockMinute(n) < LockLife
    BY <1>1 DEF ShortBlocks, Minute, BlockMinute, Block
  <2>4. new \subseteq Tasks
    BY <2>2 DEF Tasks
  <2>5. \A t \in new : t.step = "lock" /\ t.minute <= Minute /\ Minute - t.minute < LockLife
    BY <2>2, <2>3
  <2> HIDE DEF new
  <2> QED
    BY <2>1, <2>4, <2>5, AddTasks
<1>5. ASSUME NEW t \in tasks, TakeLock(t) PROVE IInv'
  <2>1. CASE LockStands(t.name, t.minute)
    BY <1>5, <2>1, DropTasks DEF TakeLock
  <2>2. CASE ~LockStands(t.name, t.minute)
    BY <1>5, <2>2, LockTaken DEF TakeLock
  <2> QED
    BY <2>1, <2>2
<1>6. ASSUME NEW t \in tasks, Enqueue(t) PROVE IInv'
  BY <1>6, EnqueueKeeps
<1>7. ASSUME NEW t \in tasks, TaskFails(t) PROVE IInv'
  <2>1. tasks' = tasks \ {t} /\ UNCHANGED <<clock, runs>>
    BY <1>7 DEF TaskFails
  <2>2. CASE UNCHANGED lockedAt
    BY <2>1, <2>2, DropTasks
  <2>3. CASE ~UNCHANGED lockedAt
    <3>1. /\ t.step = "lock" /\ ~LockStands(t.name, t.minute)
          /\ lockedAt' = [lockedAt EXCEPT ![t.name][t.minute] = Minute]
      BY <1>7, <2>3 DEF TaskFails
    <3> QED
      BY <2>1, <3>1, LockTaken
  <2> QED
    BY <2>2, <2>3
<1>8. ASSUME NEW p \in Procs, Elect(p) \/ Die(p) PROVE IInv'
  BY <1>8, DropTasks DEF Elect, Die
<1>9. CASE UNCHANGED vars
  BY <1>9, DropTasks DEF vars
<1> QED
  BY <1>2, <1>3, <1>4, <1>5, <1>6, <1>7, <1>8, <1>9 DEF Next, AtRest

\* A cron or interval job is enqueued at most once under one name and minute
\* (LockCronExecution), whoever takes itself for the leader, if no interval is longer
\* than the locks are remembered.
THEOREM EnqueuedOnce == ShortBlocks => (Spec => []OncePerMinute)
<1> SUFFICES ASSUME ShortBlocks PROVE Spec => []OncePerMinute
  OBVIOUS
<1>1. Init => IInv
  BY InvInit
<1>2. IInv /\ [Next]_vars => IInv'
  BY InvStep
<1>3. IInv => OncePerMinute
  BY DEF IInv, Guarded, OncePerMinute
<1> QED
  BY <1>1, <1>2, <1>3, PTL DEF Spec

-----------------------------------------------------------------------------
(* What a leader has noted is not lost.                                    *)

\* A goroutine for job n and minute m that has the lock, or what came of it.
Secured(n, m) ==
  \/ runs[n][m] > 0
  \/ \E t \in tasks : t.name = n /\ t.minute = m /\ t.step = "enqueue"
  \/ <<n, m>> \in broken

\* A lock is refused only in favour of a goroutine that has or had it.
LocksSecured ==
  \A n \in Names, m \in Minutes : lockedAt[n][m] # NoLock => Secured(n, m)

\* The minute whose lock the run of block b of job n is for.
MinuteOfBlock(n, b) == (b * Interval[n]) \div MinuteLen

LoopTypes ==
  /\ lastBlock \in [Procs -> [Names -> Nat]]
  /\ lastMinute \in [Procs -> Int]
  /\ ledAt \in [Procs -> Minutes \cup {NoMinute}]
  /\ ledBefore \in [Procs -> Minutes \cup {NoMinute}]
  /\ \A p \in Procs, n \in Names :
       lastBlock[p][n] > 0 => MinuteOfBlock(n, lastBlock[p][n]) \in Minutes

\* lastMinute is the minute of the hour in which the loop last ran.
LastNoted ==
  \A p \in Procs :
    /\ ledAt[p] = NoMinute => lastMinute[p] = -1 /\ ledBefore[p] = NoMinute
    /\ ledAt[p] # NoMinute => lastMinute[p] = ledAt[p] % HourLen

\* A block is served whether or not the process that noted it is still alive.
BlocksServed ==
  \A p \in Procs, n \in Names :
    lastBlock[p][n] > 0 => Served(n, MinuteOfBlock(n, lastBlock[p][n]))

ServiceInv == Types /\ LocksSecured /\ LoopTypes /\ LastNoted /\ LedMinuteServed /\ BlocksServed

\* The tasks that a tick of an interval loop adds are for minutes of the model.
LEMMA IntervalTasks ==
  ASSUME Types, NEW p \in Procs, IntervalTick(p)
  PROVE  tasks' \subseteq Tasks
<1> DEFINE started == {n \in Names : Interval[n] > 0 /\ Block(n) > lastBlock[p][n]}
<1>1. tasks' = tasks \cup {[proc |-> p, name |-> n, minute |-> BlockMinute(n),
                            step |-> "lock"] : n \in started}
  BY DEF IntervalTick
<1>2. \A n \in started : BlockMinute(n) \in Minutes
  BY BlockTyped
<1> QED
  BY <1>1, <1>2 DEF Tasks, Types

\* The tasks that a tick of a cron loop adds are for the minute it is.
LEMMA CronTasks ==
  ASSUME Types, NEW p \in Procs, CronTick(p)
  PROVE  tasks' \subseteq Tasks
<1>1. Minute \in Minutes
  BY MinuteTyped DEF Types, Minute
<1>2. [proc : {p}, name : Due(Minute), minute : {Minute}, step : {"lock"}] \subseteq Tasks
  BY <1>1, ConstantFacts DEF Tasks, Due
<1> QED
  BY <1>2 DEF CronTick, Types

\* The steps of a goroutine keep the types.
LEMMA TaskTypes ==
  ASSUME Types, NEW t \in tasks, TakeLock(t) \/ Enqueue(t) \/ TaskFails(t)
  PROVE  Types'
<1>1. /\ t \in Tasks /\ t.name \in Names /\ t.minute \in Minutes
      /\ [t EXCEPT !.step = "enqueue"] \in Tasks
  BY DEF Types, Tasks
<1>2. Minute \in Int
  BY MinuteTyped DEF Types, Minute, Minutes
<1>3. clock' = clock /\ tasks' \subseteq Tasks
  BY <1>1 DEF TakeLock, Enqueue, TaskFails, Types
<1>4. [lockedAt EXCEPT ![t.name][t.minute] = Minute] \in [Names -> [Minutes -> Int]]
  BY <1>1, <1>2 DEF Types
<1>5. [runs EXCEPT ![t.name][t.minute] = @ + 1] \in [Names -> [Minutes -> Nat]]
  BY <1>1 DEF Types
<1>6. CASE TakeLock(t)
  BY <1>3, <1>4, <1>6 DEF TakeLock, Types
<1>7. CASE Enqueue(t)
  BY <1>3, <1>5, <1>7 DEF Enqueue, Types
<1>8. CASE TaskFails(t)
  BY <1>3, <1>4, <1>8 DEF TaskFails, Types
<1> QED
  BY <1>6, <1>7, <1>8

\* Every step keeps the types.
LEMMA TypesKept ==
  ASSUME Types, [Next]_vars
  PROVE  Types'
<1>1. CASE Advance
  BY <1>1, ConstantFacts DEF Advance, Types
<1>2. ASSUME NEW p \in Procs, CronTick(p) PROVE Types'
  BY <1>2, CronTasks DEF CronTick, Types
<1>3. ASSUME NEW p \in Procs, IntervalTick(p) PROVE Types'
  BY <1>3, IntervalTasks DEF IntervalTick, Types
<1>4. ASSUME NEW p \in Procs, Elect(p) \/ Die(p) PROVE Types'
  BY <1>4 DEF Elect, Die, Types
<1>5. CASE UNCHANGED vars
  BY <1>5 DEF vars, Types
<1> QED
  BY <1>1, <1>2, <1>3, <1>4, <1>5, TaskTypes DEF Next, AtRest

\* A run that is served, or whose lock somebody has, stays so, whatever happens: who is
\* refused the lock is refused for somebody, and who fails or dies is noted.
LEMMA StaysServed ==
  ASSUME Types, LocksSecured, [Next]_vars, NEW n \in Names, NEW m \in Minutes
  PROVE  /\ Secured(n, m) => Secured(n, m)'
         /\ Served(n, m) => Served(n, m)'
<1> USE DEF Secured, Served
<1>1. CASE tasks \subseteq tasks' /\ runs' = runs /\ broken' = broken
  BY <1>1
<1>2. ASSUME NEW t \in tasks, TakeLock(t)
      PROVE  /\ Secured(n, m) => Secured(n, m)'
             /\ Served(n, m) => Served(n, m)'
  <2>1. /\ t.step = "lock" /\ runs' = runs /\ broken' = broken
        /\ tasks \ {t} \subseteq tasks'
    BY <1>2 DEF TakeLock, history
  <2>2. Secured(n, m) => Secured(n, m)'
    BY <2>1
  <2>3. Served(n, m) => Served(n, m)' \/ (t.name = n /\ t.minute = m)
    BY <2>1
  <2>4. ASSUME t.name = n, t.minute = m
        PROVE  Served(n, m)'
    <3>1. CASE LockStands(n, m)
      BY <2>2, <3>1 DEF LocksSecured, LockStands
    <3>2. CASE ~LockStands(n, m)
      <4>1. [t EXCEPT !.step = "enqueue"] \in tasks'
        BY <1>2, <2>4, <3>2 DEF TakeLock
      <4> QED
        BY <2>4, <4>1 DEF Types, Tasks
    <3> QED
      BY <3>1, <3>2
  <2> QED
    BY <2>2, <2>3, <2>4
<1>3. ASSUME NEW t \in tasks, Enqueue(t)
      PROVE  /\ Secured(n, m) => Secured(n, m)'
             /\ Served(n, m) => Served(n, m)'
  <2>1. /\ tasks' = tasks \ {t} /\ broken' = broken
        /\ runs' = [runs EXCEPT ![t.name][t.minute] = @ + 1]
    BY <1>3 DEF Enqueue, history
  <2>2. runs'[n][m] >= runs[n][m] /\ runs[n][m] \in Nat
    BY <2>1 DEF Types, Tasks
  <2>3. t.name = n /\ t.minute = m => runs'[n][m] > 0
    BY <2>1 DEF Types, Tasks
  <2>4. runs[n][m] > 0 => runs'[n][m] > 0
    BY <2>2, <2>1 DEF Types, Tasks
  <2> QED
    BY <2>1, <2>3, <2>4
<1>4. ASSUME NEW t \in tasks, TaskFails(t)
      PROVE  /\ Secured(n, m) => Secured(n, m)'
             /\ Served(n, m) => Served(n, m)'
  BY <1>4 DEF TaskFails
<1>5. ASSUME NEW p \in Procs, Die(p)
      PROVE  /\ Secured(n, m) => Secured(n, m)'
             /\ Served(n, m) => Served(n, m)'
  BY <1>5 DEF Die
<1>6. ASSUME NEW p \in Procs, CronTick(p) \/ IntervalTick(p) \/ Elect(p)
      PROVE  tasks \subseteq tasks' /\ runs' = runs /\ broken' = broken
  BY <1>6 DEF CronTick, IntervalTick, Elect, history
<1>7. Advance \/ AtRest \/ UNCHANGED vars => tasks \subseteq tasks' /\ runs' = runs /\ broken' = broken
  BY DEF Advance, AtRest, vars, history
<1> QED
  BY <1>1, <1>2, <1>3, <1>4, <1>5, <1>6, <1>7 DEF Next

\* A lock that is taken has somebody to answer for it.
LEMMA LocksStaySecured ==
  ASSUME Types, LocksSecured, [Next]_vars
  PROVE  LocksSecured'
<1> SUFFICES ASSUME NEW n \in Names, NEW m \in Minutes, lockedAt'[n][m] # NoLock
             PROVE  Secured(n, m)'
  BY DEF LocksSecured
<1>1. CASE lockedAt[n][m] # NoLock
  BY <1>1, StaysServed DEF LocksSecured
<1>2. CASE lockedAt[n][m] = NoLock
  <2>1. PICK t \in tasks : TakeLock(t) \/ TaskFails(t)
    BY <1>2 DEF Next, Advance, Elect, Die, CronTick, IntervalTick, Enqueue, AtRest, vars
  <2>2. t.name = n /\ t.minute = m
    BY <1>2, <2>1 DEF TakeLock, TaskFails, Types, Tasks
  <2>3. CASE TakeLock(t)
    <3>1. [t EXCEPT !.step = "enqueue"] \in tasks'
      BY <1>2, <2>2, <2>3 DEF TakeLock, LockStands
    <3> QED
      BY <2>2, <3>1 DEF Secured, Types, Tasks
  <2>4. CASE TaskFails(t)
    BY <2>2, <2>4 DEF TaskFails, Secured
  <2> QED
    BY <2>1, <2>3, <2>4
<1> QED
  BY <1>1, <1>2

\* What is to be shown of the next state, minute by minute and block by block.
LEMMA LedInMinutes ==
  ASSUME LoopTypes',
         \A q \in Procs, m \in Minutes : ledAt'[q] = m /\ ~HoursLater(q)' =>
           \A n \in Due(m) : Served(n, m)'
  PROVE  LedMinuteServed'
<1> SUFFICES ASSUME NEW q \in Procs, ledAt'[q] # NoMinute, ~HoursLater(q)',
                    NEW n \in Due(ledAt'[q])
             PROVE  (runs'[n][ledAt'[q]] > 0
                      \/ \E t \in tasks' : t.name = n /\ t.minute = ledAt'[q])
                    \/ <<n, ledAt'[q]>> \in broken'
  BY DEF LedMinuteServed, Served, Due
<1>1. ledAt'[q] \in Minutes
  BY DEF LoopTypes
<1> QED
  BY <1>1 DEF Served

LEMMA BlocksByNumber ==
  ASSUME \A q \in Procs, n \in Names : \A b : lastBlock'[q][n] = b /\ b > 0 =>
           Served(n, MinuteOfBlock(n, b))'
  PROVE  BlocksServed'
<1> SUFFICES ASSUME NEW q \in Procs, NEW n \in Names, lastBlock'[q][n] > 0
             PROVE  \/ runs'[n][MinuteOfBlock(n, lastBlock'[q][n])] > 0
                    \/ \E t \in tasks' : t.name = n /\ t.minute = MinuteOfBlock(n, lastBlock'[q][n])
                    \/ <<n, MinuteOfBlock(n, lastBlock'[q][n])>> \in broken'
  BY DEF BlocksServed, Served, MinuteOfBlock
<1> QED
  BY DEF Served

\* Steps outside the loops.
LEMMA LoopsUntouched ==
  ASSUME ServiceInv, [Next]_vars, UNCHANGED <<lastMinute, lastBlock, ledAt, ledBefore>>
  PROVE  LoopTypes' /\ LastNoted' /\ LedMinuteServed' /\ BlocksServed'
<1>1. LoopTypes' /\ LastNoted'
  BY DEF ServiceInv, LoopTypes, LastNoted, MinuteOfBlock
<1>2. LedMinuteServed'
  <2> SUFFICES ASSUME NEW p \in Procs, ledAt[p] # NoMinute, ~HoursLater(p),
                      NEW n \in Due(ledAt[p])
               PROVE  Served(n, ledAt[p])'
    BY DEF LedMinuteServed, HoursLater, Due, MatchCron
  <2>1. Served(n, ledAt[p]) /\ n \in Names /\ ledAt[p] \in Minutes
    BY ConstantFacts DEF ServiceInv, LedMinuteServed, LoopTypes, Due
  <2> QED
    BY <2>1, StaysServed DEF ServiceInv, Served
<1>3. BlocksServed'
  <2> SUFFICES ASSUME NEW p \in Procs, NEW n \in Names, lastBlock[p][n] > 0
               PROVE  Served(n, MinuteOfBlock(n, lastBlock[p][n]))'
    BY DEF BlocksServed
  <2> DEFINE m == MinuteOfBlock(n, lastBlock[p][n])
  <2>1. Served(n, m) /\ m \in Minutes
    BY DEF ServiceInv, BlocksServed, LoopTypes
  <2>2. m' = m
    BY DEF MinuteOfBlock
  <2> HIDE DEF m
  <2>3. Served(n, m)'
    BY <2>1, <2>2, StaysServed DEF ServiceInv, Served
  <2> QED
    BY <2>2, <2>3 DEF m
<1> QED
  BY <1>1, <1>2, <1>3

\* A tick of the cron loop: the minute is dealt with, passed over because it was
\* dealt with, or passed over because lastMinute says so.
LEMMA CronServes ==
  ASSUME ServiceInv, NEW p \in Procs, CronTick(p)
  PROVE  LoopTypes' /\ LastNoted' /\ LedMinuteServed' /\ BlocksServed'
<1> DEFINE now == Minute
<1>1. /\ now \in Minutes /\ now \in Nat /\ now # NoMinute
      /\ now % HourLen \in Nat
  <2>1. Minute \in Minutes
    BY MinuteTyped DEF ServiceInv, Types, Minute
  <2>2. HourLen \in Nat \ {0}
    BY SchedulerAssumption DEF SchedulerAssumption
  <2> QED
    BY <2>1, <2>2 DEF Minutes, NoMinute
<1>2. /\ ledAt' = [ledAt EXCEPT ![p] = now]
      /\ ledBefore' = IF ledAt[p] = now THEN ledBefore ELSE [ledBefore EXCEPT ![p] = ledAt[p]]
      /\ UNCHANGED <<lastBlock, runs, broken>> /\ tasks \subseteq tasks'
      /\ \/ now % HourLen = lastMinute[p] /\ lastMinute' = lastMinute
         \/ lastMinute' = [lastMinute EXCEPT ![p] = now % HourLen]
            /\ \A n \in Due(now) : \E t \in tasks' : t.name = n /\ t.minute = now
  <2>1. /\ ledAt' = [ledAt EXCEPT ![p] = now]
        /\ ledBefore' = IF ledAt[p] = now THEN ledBefore ELSE [ledBefore EXCEPT ![p] = ledAt[p]]
        /\ UNCHANGED <<lastBlock, runs, broken>> /\ tasks \subseteq tasks'
    BY DEF CronTick
  <2>2. CASE now % HourLen = lastMinute[p]
    BY <2>1, <2>2 DEF CronTick
  <2>3. CASE now % HourLen # lastMinute[p]
    <3>1. /\ lastMinute' = [lastMinute EXCEPT ![p] = now % HourLen]
          /\ tasks' = tasks \cup [proc : {p}, name : Due(now), minute : {now}, step : {"lock"}]
      BY <2>3 DEF CronTick, Noted
    <3>2. ASSUME NEW n \in Due(now)
          PROVE  \E t \in tasks' : t.name = n /\ t.minute = now
      <4> DEFINE t == [proc |-> p, name |-> n, minute |-> now, step |-> "lock"]
      <4>1. t \in tasks' /\ t.name = n /\ t.minute = now
        BY <3>1
      <4> QED
        BY <4>1
    <3> QED
      BY <2>1, <3>1, <3>2
  <2> QED
    BY <2>2, <2>3
<1> HIDE DEF now
<1>3. LoopTypes'
  BY <1>1, <1>2 DEF ServiceInv, LoopTypes, MinuteOfBlock
<1>4. ASSUME NEW q \in Procs \ {p}
      PROVE  /\ ledAt'[q] = ledAt[q] /\ ledBefore'[q] = ledBefore[q]
             /\ lastMinute'[q] = lastMinute[q]
  BY <1>2 DEF ServiceInv, LoopTypes
<1>5. /\ ledAt'[p] = now /\ lastMinute'[p] = now % HourLen
      /\ ledAt[p] = now => ledBefore'[p] = ledBefore[p]
      /\ ledAt[p] # now => ledBefore'[p] = ledAt[p]
  BY <1>2 DEF ServiceInv, LoopTypes
<1>6. LastNoted'
  BY <1>1, <1>4, <1>5 DEF ServiceInv, LastNoted
<1>7. \A n, m : Served(n, m) => Served(n, m)'
  BY <1>2 DEF Served
<1>8. BlocksServed'
  BY <1>2, <1>7 DEF ServiceInv, BlocksServed, MinuteOfBlock
<1>9. ASSUME NEW q \in Procs, NEW m \in Minutes, ledAt'[q] = m, ~HoursLater(q)',
             NEW n \in Due(m)
      PROVE  Served(n, m)'
  <2>1. CASE q # p
    <3>1. ~HoursLater(q) /\ ledAt[q] = m /\ m # NoMinute
      BY <1>4, <1>9, <2>1 DEF HoursLater, Minutes, NoMinute
    <3>2. Served(n, m)
      BY <3>1 DEF ServiceInv, LedMinuteServed
    <3> QED
      BY <1>7, <3>2
  <2>2. CASE q = p /\ \A i \in Due(now) : \E t \in tasks' : t.name = i /\ t.minute = now
    <3>1. m = now
      BY <1>5, <1>9, <2>2
    <3>2. \E t \in tasks' : t.name = n /\ t.minute = m
      BY <2>2, <3>1
    <3> QED
      BY <3>2 DEF Served
  <2>3. CASE q = p /\ now % HourLen = lastMinute[p]
    <3>1. m = now
      BY <1>5, <1>9, <2>3
    <3>2. ledAt[p] # NoMinute
      BY <1>1, <2>3 DEF ServiceInv, LastNoted
    <3>3. ledAt[p] = now
      BY <1>5, <1>9, <2>3, <3>2 DEF ServiceInv, LastNoted, HoursLater
    <3>4. ~HoursLater(p)
      BY <1>5, <1>9, <2>3, <3>3 DEF HoursLater
    <3>5. Served(n, m)
      BY <3>1, <3>2, <3>3, <3>4 DEF ServiceInv, LedMinuteServed
    <3> QED
      BY <1>7, <3>5
  <2> QED
    BY <1>2, <2>1, <2>2, <2>3
<1>10. LedMinuteServed'
  BY <1>3, <1>9, LedInMinutes
<1> QED
  BY <1>3, <1>6, <1>8, <1>10

\* A tick of the interval loop: every block it notes gets a goroutine.
LEMMA IntervalServes ==
  ASSUME ServiceInv, NEW p \in Procs, IntervalTick(p)
  PROVE  LoopTypes' /\ LastNoted' /\ LedMinuteServed' /\ BlocksServed'
<1> DEFINE started == {n \in Names : Interval[n] > 0 /\ Block(n) > lastBlock[p][n]}
<1>1. /\ lastBlock' = [lastBlock EXCEPT ![p] =
                        [n \in Names |-> IF n \in started THEN Block(n) ELSE @[n]]]
      /\ UNCHANGED <<lastMinute, ledAt, ledBefore, runs, broken>>
      /\ tasks' = tasks \cup {[proc |-> p, name |-> n, minute |-> BlockMinute(n),
                               step |-> "lock"] : n \in started}
  BY DEF IntervalTick, history, ledVars
<1>2. \A n \in started : Block(n) \in Nat /\ BlockMinute(n) \in Minutes
  <2> TAKE n \in started
  <2>1. Interval[n] \in Nat \ {0} /\ clock \in Nat
    BY ConstantFacts DEF ServiceInv, Types
  <2> QED
    BY <2>1, DivDef, BlockTyped DEF Block, ServiceInv
<1>3. \A n \in started : MinuteOfBlock(n, Block(n)) = BlockMinute(n)
  BY DEF MinuteOfBlock, BlockMinute
<1>4. \A n \in started : \E t \in tasks' : t.name = n /\ t.minute = BlockMinute(n)
  <2> TAKE n \in started
  <2> DEFINE t == [proc |-> p, name |-> n, minute |-> BlockMinute(n), step |-> "lock"]
  <2>1. t \in tasks' /\ t.name = n /\ t.minute = BlockMinute(n)
    BY <1>1
  <2> QED
    BY <2>1
<1>5. \A n, m : Served(n, m) => Served(n, m)'
  BY <1>1 DEF Served
<1>6. \A n \in Names : /\ n \in started => lastBlock'[p][n] = Block(n)
                       /\ n \notin started => lastBlock'[p][n] = lastBlock[p][n]
  BY <1>1 DEF ServiceInv, LoopTypes
<1>7. \A q \in Procs \ {p} : lastBlock'[q] = lastBlock[q]
  BY <1>1 DEF ServiceInv, LoopTypes
<1> HIDE DEF started
<1>8. LoopTypes'
  <2>1. lastBlock' \in [Procs -> [Names -> Nat]]
    BY <1>1, <1>2 DEF ServiceInv, LoopTypes
  <2>2. \A q \in Procs, n \in Names :
          lastBlock'[q][n] > 0 => MinuteOfBlock(n, lastBlock'[q][n]) \in Minutes
    BY <1>2, <1>3, <1>6, <1>7 DEF ServiceInv, LoopTypes
  <2> QED
    BY <1>1, <2>1, <2>2 DEF ServiceInv, LoopTypes, MinuteOfBlock
<1>9. LastNoted'
  BY <1>1 DEF ServiceInv, LastNoted
<1>10. LedMinuteServed'
  BY <1>1, <1>5 DEF ServiceInv, LedMinuteServed, HoursLater, Due, MatchCron
<1>11. ASSUME NEW q \in Procs, NEW n \in Names, NEW b, lastBlock'[q][n] = b, b > 0
       PROVE  Served(n, MinuteOfBlock(n, b))'
  <2> DEFINE m == MinuteOfBlock(n, b)
  <2>1. CASE q = p /\ n \in started
    <3>1. m = BlockMinute(n)
      BY <1>3, <1>6, <1>11, <2>1
    <3>2. \E t \in tasks' : t.name = n /\ t.minute = m
      BY <1>4, <2>1, <3>1
    <3> HIDE DEF m
    <3> QED
      BY <3>2 DEF Served, m
  <2>2. CASE q # p \/ n \notin started
    <3>1. lastBlock[q][n] = b
      BY <1>6, <1>7, <1>11, <2>2
    <3>2. Served(n, m)
      BY <1>11, <3>1 DEF ServiceInv, BlocksServed
    <3> QED
      BY <1>5, <3>2
  <2> QED
    BY <2>1, <2>2
<1> QED
  BY <1>8, <1>9, <1>10, <1>11, BlocksByNumber

\* Nothing has been noted, and no lock taken.
LEMMA ServiceInit == Init => ServiceInv
<1> SUFFICES ASSUME Init PROVE ServiceInv
  OBVIOUS
<1>1. Types
  BY InvInit DEF IInv
<1>2. LocksSecured
  BY DEF Init, LocksSecured
<1>3. LoopTypes /\ LastNoted /\ LedMinuteServed /\ BlocksServed
  BY DEF Init, LoopTypes, LastNoted, LedMinuteServed, BlocksServed, NoMinute
<1> QED
  BY <1>1, <1>2, <1>3 DEF ServiceInv

\* Every step keeps it, however late a goroutine and however long an interval is.
LEMMA ServiceStep == ServiceInv /\ [Next]_vars => ServiceInv'
<1> SUFFICES ASSUME ServiceInv, [Next]_vars PROVE ServiceInv'
  OBVIOUS
<1>1. Types' /\ LocksSecured'
  BY TypesKept, LocksStaySecured DEF ServiceInv
<1>2. CASE \E p \in Procs : CronTick(p) \/ IntervalTick(p)
  BY <1>1, <1>2, CronServes, IntervalServes DEF ServiceInv
<1>3. CASE ~\E p \in Procs : CronTick(p) \/ IntervalTick(p)
  <2>1. UNCHANGED <<lastMinute, lastBlock, ledAt, ledBefore>>
    BY <1>3 DEF Next, Advance, Elect, Die, TakeLock, Enqueue, TaskFails, AtRest, vars,
                loopVars, history, ledVars
  <2> QED
    BY <1>1, <2>1, LoopsUntouched DEF ServiceInv
<1> QED
  BY <1>2, <1>3

\* What is noted is served: the inductive invariant of the next two theorems.
THEOREM ServiceHolds == Spec => []ServiceInv
BY ServiceInit, ServiceStep, PTL DEF Spec

\* A job that is due in a minute in which some leader ran its cron loop is enqueued or
\* about to be, unless its goroutine failed or the leader was away for whole hours: for
\* any schedules, any number of processes and leaders, any life of the locks.
THEOREM LedMinutesServed == Spec => []LedMinuteServed
<1>1. ServiceInv => LedMinuteServed
  BY DEF ServiceInv
<1> QED
  BY <1>1, ServiceHolds, PTL

\* A block that a process has noted is enqueued or about to be, unless its goroutine
\* failed: who is refused the lock is refused in favour of a run.
THEOREM NotedBlocksServed == Spec => []NotedBlockServed
<1>1. Init => alive \subseteq Procs
  BY DEF Init
<1>2. alive \subseteq Procs /\ [Next]_vars => (alive \subseteq Procs)'
  <2>1. \A p \in Procs : Die(p) => alive' \subseteq alive
    BY DEF Die
  <2>2. [Next]_vars => alive' = alive \/ \E p \in Procs : Die(p)
    BY DEF Next, Advance, Elect, CronTick, IntervalTick, TakeLock, Enqueue, TaskFails,
           AtRest, vars, procVars
  <2> QED
    BY <2>1, <2>2
<1>3. ServiceInv /\ alive \subseteq Procs => NotedBlockServed
  BY DEF ServiceInv, BlocksServed, NotedBlockServed, MinuteOfBlock
<1> QED
  BY <1>1, <1>2, <1>3, ServiceHolds, PTL DEF Spec

=============================================================================
