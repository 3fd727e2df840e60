----------------------------- MODULE Schedulers -----------------------------
(***************************************************************************)
(* The cron and interval schedulers of queue/worker.go and queue/cron.go   *)
(* in a cluster: the loops run on every process that takes itself for the  *)
(* leader, and each run of a job is enqueued by a goroutine of its own     *)
(* that first takes a lock for the job's name and minute                   *)
(* (LockCronExecution) and then enqueues.                                  *)
(*                                                                         *)
(* Who takes itself for the leader is left open here: any set of processes *)
(* may, at any time.  That contains every behaviour of LeaderElection, and *)
(* a cluster without election, where all of them do.  clock is the time of *)
(* day in steps of 1 / MinuteLen minute; the loops tick at any time.       *)
(***************************************************************************)
EXTENDS Integers

CONSTANTS
  Procs,      \* processes; a restarted process has a new id
  Driver,     \* the storage driver
  Names,      \* handler names, which are also the names of their schedules
  Crons,      \* names with a cron job that is not paused
  CronSpec,   \* [Crons -> cron expressions]
  Interval,   \* [Names -> Nat], the period of the interval job, 0 for none
  FirstTime,  \* the clock at the start
  MaxTime,    \* bound: the clock at the end
  MinuteLen,  \* steps of the clock per minute
  HourLen,    \* minutes per hour
  TimeOf,     \* [minute -> the fields of the calendar]
  LockLife    \* minutes for which LockCronExecution remembers a lock

Minutes == 0 .. MaxTime \div MinuteLen

ASSUME SchedulerAssumption ==
  /\ Driver \in {"redis", "postgres", "sqlite"}
  /\ Crons \subseteq Names
  /\ Interval \in [Names -> Nat]
  /\ FirstTime \in Nat /\ MaxTime \in Nat /\ FirstTime <= MaxTime
  /\ MinuteLen \in Nat \ {0} /\ HourLen \in Nat \ {0} /\ LockLife \in Nat \ {0}
  /\ \A n \in Names : Interval[n] <= FirstTime
  /\ Minutes \subseteq DOMAIN TimeOf

VARIABLES
  alive,      \* processes between the start and the end of Start
  isLeader,   \* processes that take themselves for the leader
  clock,      \* time.Now()
  lastMinute, \* startCronScheduler: the minute of the hour last dealt with
  lastBlock,  \* lastIntervalTicks
  tasks,      \* goroutines in EnqueueCronJob and EnqueueIntervalJob
  lockedAt,   \* the minute in which a lock was taken, NoLock if it was not
  runs,       \* jobs enqueued by name and minute of the lock
  ledAt,      \* history: the minute in which a cron loop last ran as leader
  ledBefore,  \* history: the last such minute before that one
  broken      \* history: names and minutes whose goroutine failed or died

procVars == <<alive, isLeader>>
loopVars == <<lastMinute, lastBlock>>
ledVars == <<ledAt, ledBefore>>
history == <<ledVars, broken>>
vars == <<procVars, clock, loopVars, tasks, lockedAt, runs, history>>

NoLock == -1
NoMinute == -1
Minute == clock \div MinuteLen

\* A goroutine that enqueues the run of a job.
Tasks == [proc : Procs, name : Names, minute : Minutes, step : {"lock", "enqueue"}]

Init ==
  /\ alive = Procs
  /\ isLeader = {}
  /\ clock = FirstTime
  /\ lastMinute = [p \in Procs |-> -1]
  /\ lastBlock = [p \in Procs |-> [n \in Names |-> 0]]
  /\ tasks = {}
  /\ lockedAt = [n \in Names |-> [m \in Minutes |-> NoLock]]
  /\ runs = [n \in Names |-> [m \in Minutes |-> 0]]
  /\ ledAt = [p \in Procs |-> NoMinute]
  /\ ledBefore = [p \in Procs |-> NoMinute]
  /\ broken = {}

-----------------------------------------------------------------------------
(* Cron expressions.  A field is the set of the parts of its list.         *)

\* matchPart of a part that is no list.
MatchPart(part, val, min) ==
  \/ part.kind = "any"
  \/ part.kind = "step" /\ part.n > 0 /\ (val - min) % part.n = 0
  \/ part.kind = "range" /\ part.from <= val /\ val <= part.to
  \/ part.kind = "single" /\ val = part.n

\* matchList.
MatchField(field, val, min) == \E part \in field : MatchPart(part, val, min)

\* matchDow: Sunday is 0 and 7.
MatchDow(field, val) ==
  MatchField(field, val, 0) \/ (val = 0 /\ MatchField(field, 7, 0))

\* MatchCron: all fields must match.
MatchCron(spec, t) ==
  /\ MatchField(spec.minute, t.minute, 0)
  /\ MatchField(spec.hour, t.hour, 0)
  /\ MatchField(spec.dom, t.dom, 1)
  /\ MatchField(spec.month, t.month, 1)
  /\ MatchDow(spec.dow, t.dow)

\* ProcessCronJobs: the names to be run in minute m.
Due(m) == {n \in Crons : MatchCron(CronSpec[n], TimeOf[m])}

-----------------------------------------------------------------------------
(* The loops.                                                              *)

\* checkLeader, on a process whose loops still run.
CheckLeader(p) == p \in alive \cap isLeader

\* Fault: the minute is noted for a process that did not deal with it.
NotedByAll(p) == [q \in Procs |-> Minute % HourLen]

\* startCronScheduler: the minute of the hour is noted.
Noted(p) == [lastMinute EXCEPT ![p] = Minute % HourLen]

\* startCronScheduler and ProcessCronJobs, on a tick of the 10 s ticker.
CronTick(p) ==
  /\ CheckLeader(p)
  /\ ledAt' = [ledAt EXCEPT ![p] = Minute]
  /\ ledBefore' = IF ledAt[p] = Minute THEN ledBefore ELSE [ledBefore EXCEPT ![p] = ledAt[p]]
  /\ IF Minute % HourLen # lastMinute[p]
     THEN /\ lastMinute' = Noted(p)
          /\ tasks' = tasks \cup [proc : {p}, name : Due(Minute), minute : {Minute},
                                  step : {"lock"}]
     ELSE UNCHANGED <<lastMinute, tasks>>
  /\ UNCHANGED <<procVars, clock, lastBlock, lockedAt, runs, broken>>

\* ProcessIntervalJobs: blockIdx.
Block(n) == clock \div Interval[n]

\* Fault: a block is enqueued by the time it is noticed.
NoticedMinute(n) == Minute

\* The minute to which the start of the block is truncated.
BlockMinute(n) == (Block(n) * Interval[n]) \div MinuteLen

\* startIntervalScheduler and ProcessIntervalJobs, on a tick of the 5 s ticker.
IntervalTick(p) ==
  LET started == {n \in Names : Interval[n] > 0 /\ Block(n) > lastBlock[p][n]}
  IN /\ CheckLeader(p)
     /\ started # {}
     /\ lastBlock' = [lastBlock EXCEPT ![p] =
                       [n \in Names |-> IF n \in started THEN Block(n) ELSE @[n]]]
     /\ tasks' = tasks \cup {[proc |-> p, name |-> n, minute |-> BlockMinute(n),
                              step |-> "lock"] : n \in started}
     /\ UNCHANGED <<procVars, clock, lastMinute, lockedAt, runs, history>>

-----------------------------------------------------------------------------
(* EnqueueCronJob and EnqueueIntervalJob.                                  *)

\* Fault: the lock is given to everybody who asks.
LockStandsNever(n, m) == FALSE

\* LockCronExecution forgets locks: Redis counts from the moment they were taken,
\* the SQL drivers from the minute they are for.
LockStands(n, m) ==
  /\ lockedAt[n][m] # NoLock
  /\ Minute - (IF Driver = "redis" THEN lockedAt[n][m] ELSE m) < LockLife

\* LockCronExecution.
TakeLock(t) ==
  /\ t \in tasks /\ t.step = "lock"
  /\ IF LockStands(t.name, t.minute)
     THEN tasks' = tasks \ {t} /\ UNCHANGED lockedAt
     ELSE /\ tasks' = (tasks \ {t}) \cup {[t EXCEPT !.step = "enqueue"]}
          /\ lockedAt' = [lockedAt EXCEPT ![t.name][t.minute] = Minute]
  /\ UNCHANGED <<procVars, clock, loopVars, runs, history>>

\* Storage.Enqueue.
Enqueue(t) ==
  /\ t \in tasks /\ t.step = "enqueue"
  /\ tasks' = tasks \ {t}
  /\ runs' = [runs EXCEPT ![t.name][t.minute] = @ + 1]
  /\ UNCHANGED <<procVars, clock, loopVars, lockedAt, history>>

\* One of the two calls fails, as it does when the context is cancelled; the lock
\* may have been taken, and nobody tries again.
TaskFails(t) ==
  /\ t \in tasks
  /\ tasks' = tasks \ {t}
  /\ broken' = broken \cup {<<t.name, t.minute>>}
  /\ IF t.step = "lock" /\ ~LockStands(t.name, t.minute)
     THEN \/ lockedAt' = [lockedAt EXCEPT ![t.name][t.minute] = Minute]
          \/ UNCHANGED lockedAt
     ELSE UNCHANGED lockedAt
  /\ UNCHANGED <<procVars, clock, loopVars, runs, ledVars>>

-----------------------------------------------------------------------------
\* The clock goes on.  A goroutine is not so late that a lock for its minute would
\* be forgotten before it gets to it; when it starts so late, it is not delayed.
Advance ==
  /\ clock < MaxTime
  /\ \A t \in tasks : (clock + 1) \div MinuteLen - t.minute < LockLife
  /\ clock' = clock + 1
  /\ UNCHANGED <<procVars, loopVars, tasks, lockedAt, runs, history>>

\* electLeader: the process is elected, or not elected any more.
Elect(p) ==
  /\ p \in alive
  /\ isLeader' = IF p \in isLeader THEN isLeader \ {p} ELSE isLeader \cup {p}
  /\ UNCHANGED <<alive, clock, loopVars, tasks, lockedAt, runs, history>>

\* The process dies or returns from Start, and its goroutines with it.
Die(p) ==
  LET lost == {t \in tasks : t.proc = p}
  IN /\ p \in alive
     /\ alive' = alive \ {p}
     /\ isLeader' = isLeader \ {p}
     /\ tasks' = tasks \ lost
     /\ broken' = broken \cup {<<t.name, t.minute>> : t \in lost}
     /\ UNCHANGED <<clock, loopVars, lockedAt, runs, ledVars>>

\* Every process is gone.
AtRest == alive = {} /\ clock = MaxTime /\ UNCHANGED vars

Next ==
  \/ Advance
  \/ \E p \in Procs : Elect(p) \/ Die(p) \/ CronTick(p) \/ IntervalTick(p)
  \/ \E t \in tasks : TakeLock(t) \/ Enqueue(t) \/ TaskFails(t)
  \/ AtRest

Spec == Init /\ [][Next]_vars

-----------------------------------------------------------------------------
(* Properties.                                                             *)

\* However many processes take themselves for the leader, a job is enqueued at most
\* once under one name and minute.
OncePerMinute == \A n \in Names, m \in Minutes : runs[n][m] <= 1

\* The run of job n for minute m has been enqueued or is about to be, unless a
\* goroutine failed or died on the way.
Served(n, m) ==
  \/ runs[n][m] > 0
  \/ \E t \in tasks : t.name = n /\ t.minute = m
  \/ <<n, m>> \in broken

\* p ran its cron loop a whole number of hours before, and not since: lastMinute is
\* only the minute of the hour, so the minute passes for dealt with.
HoursLater(p) ==
  ledBefore[p] # NoMinute /\ ledBefore[p] % HourLen = ledAt[p] % HourLen

\* A minute in which some leader ran its cron loop is not lost: every job due in it is
\* served, unless that leader last ran its loop a whole number of hours before.
LedMinuteServed ==
  \A p \in Procs : ledAt[p] # NoMinute /\ ~HoursLater(p) =>
    \A n \in Due(ledAt[p]) : Served(n, ledAt[p])

\* A block of an interval job that some leader has noted is not lost either: the
\* process that was refused the lock was refused in favour of a run.
NotedBlockServed ==
  \A p \in alive, n \in Names :
    lastBlock[p][n] > 0 => Served(n, (lastBlock[p][n] * Interval[n]) \div MinuteLen)

=============================================================================
