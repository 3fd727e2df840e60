---------------------------- MODULE RedisWorkflow ----------------------------
(***************************************************************************)
(* Dependencies between jobs on Redis (queue/redis_workflow.go, with Ack,  *)
(* Fail and Cancel of redis_admin.go): the child waits in a set of its     *)
(* parents' ids, a parent that is acknowledged takes itself out of it, a   *)
(* parent that is dead or cancelled takes its descendants along.           *)
(*                                                                         *)
(* Every command is a step, and so is a pipeline whose commands write what *)
(* nobody reads together.  Several of these calls run at once, each in a   *)
(* loop over children it has read before; the recursion over grandchildren *)
(* is a stack of such loops.                                               *)
(*                                                                         *)
(* The queue is a set from which Dequeue takes a job in one step, a job    *)
(* that is scheduled included, and a failed attempt may be the last one or *)
(* not; both are spelled out in RedisQueue, with unique locks.             *)
(***************************************************************************)
EXTENDS Integers, Sequences

CONSTANTS
  Jobs,      \* job ids
  Parents,   \* [Jobs -> SUBSET Jobs], JobEnvelope.Dependencies
  Workflows, \* the jobs of each call of EnqueueWorkflow
  Workers,   \* job goroutines, over all processes
  Admins,    \* callers of Cancel
  NoJob,
  MaxCancels \* bound: calls of Cancel

ASSUME WorkflowAssumption ==
  /\ NoJob \notin Jobs
  /\ Parents \in [Jobs -> SUBSET Jobs]
  /\ Workflows \subseteq SUBSET Jobs
  /\ Workers \cap Admins = {}
  /\ MaxCancels \in Nat

VARIABLES
  submitted,    \* the jobs that EnqueueWorkflow has enqueued
  stored,       \* ids with an envelope in runiq:jobs
  queue,        \* runiq:queue:<q> and runiq:scheduled:<q>
  processed,    \* runiq:processed_ttl
  dead,         \* runiq:dead_ttl
  dependencies, \* runiq:job:<id>:dependencies
  dependents,   \* runiq:job:<id>:dependents
  pc,           \* where a worker or a caller of Cancel is
  job,          \* the job it has
  loops,        \* its loops over children: whose, and those left
  child,        \* the child the innermost one is about
  cancels,      \* calls of Cancel so far
  cut,          \* history: children a loop did not get to, or that came too late
  failed        \* history: jobs that were dead or cancelled at some time

keys == <<stored, queue, processed, dead, dependencies, dependents>>
call == <<pc, job, loops, child>>
notes == <<cancels, cut, failed>>
vars == <<submitted, keys, call, notes>>

Callers == Workers \cup Admins
Pcs == {"idle", "perform", "ack", "fail", "members", "loop", "scard", "hget", "enqueue",
        "kill", "off"}
Modes == {"resolve", "cascade"}

\* A loop of resolveDependencies or cascadeDependencyFailure over the children of of.
Loops == [mode : Modes, of : Jobs, todo : SUBSET Jobs]

Init ==
  /\ submitted = {}
  /\ stored = {} /\ queue = {} /\ processed = {} /\ dead = {}
  /\ dependencies = [j \in Jobs |-> {}]
  /\ dependents = [j \in Jobs |-> {}]
  /\ pc = [w \in Callers |-> "idle"]
  /\ job = [w \in Callers |-> NoJob]
  /\ loops = [w \in Callers |-> <<>>]
  /\ child = [w \in Callers |-> NoJob]
  /\ cancels = 0
  /\ cut = {}
  /\ failed = {}

\* The jobs that have come to no end yet, and on whose end a child may count.
Open == stored \ (processed \cup failed)

\* EnqueueWorkflow: one transaction for the jobs js of a call.  A parent may be any id:
\* nobody looks whether it is still to come to its end, or exists.
EnqueueWorkflow(js) ==
  /\ js \cap submitted = {}
  /\ submitted' = submitted \cup js
  /\ stored' = stored \cup js
  /\ queue' = queue \cup {j \in js : Parents[j] = {}}
  /\ dependencies' = [j \in Jobs |-> IF j \in js THEN Parents[j] ELSE dependencies[j]]
  /\ dependents' = [p \in Jobs |-> dependents[p] \cup {j \in js : p \in Parents[j]}]
  /\ cut' = cut \cup {j \in js : ~(Parents[j] \subseteq js \cup Open)}
  /\ UNCHANGED <<processed, dead, call, cancels, failed>>

-----------------------------------------------------------------------------
(* The stack of loops of a caller.                                         *)

Top(w) == loops[w][Len(loops[w])]

\* The stack with the innermost loop replaced, and without it.
WithTop(w, l) == [loops EXCEPT ![w][Len(loops[w])] = l]

\* child c of the innermost loop is dealt with.
Dealt(w, c) == WithTop(w, [Top(w) EXCEPT !.todo = @ \ {c}])

Begin(w, mode, j) ==
  /\ pc' = [pc EXCEPT ![w] = "members"]
  /\ loops' = [loops EXCEPT ![w] = Append(@, [mode |-> mode, of |-> j, todo |-> {}])]

\* The innermost loop is over: the call returns to the loop around it, which has
\* then dealt with that child, or to the worker.
Return(w) ==
  LET n      == Len(loops[w])
      around == SubSeq(loops[w], 1, n - 1)
  IN IF n = 1
     THEN /\ pc' = [pc EXCEPT ![w] = "idle"]
          /\ job' = [job EXCEPT ![w] = NoJob]
          /\ loops' = [loops EXCEPT ![w] = <<>>]
     ELSE /\ pc' = [pc EXCEPT ![w] = "loop"]
          /\ loops' = [loops EXCEPT ![w] =
                        [around EXCEPT ![n - 1].todo = @ \ {Top(w).of}]]
          /\ UNCHANGED job

\* The children caller w has still to deal with.
Ahead(w) ==
  (UNION {loops[w][i].todo : i \in DOMAIN loops[w]})
    \cup (IF pc[w] = "members" THEN dependents[Top(w).of] ELSE {})

\* The call ends in the middle, and all of its loops.
Abandon(w, next) ==
  /\ cut' = cut \cup Ahead(w)
  /\ pc' = [pc EXCEPT ![w] = next]
  /\ loops' = [loops EXCEPT ![w] = <<>>]
  /\ child' = [child EXCEPT ![w] = NoJob]

-----------------------------------------------------------------------------
(* Workers, and callers of Cancel.                                         *)

Dequeue(w, j) ==
  /\ pc[w] = "idle"
  /\ j \in queue \cap stored
  /\ queue' = queue \ {j}
  /\ job' = [job EXCEPT ![w] = j]
  /\ pc' = [pc EXCEPT ![w] = "perform"]
  /\ UNCHANGED <<submitted, stored, processed, dead, dependencies, dependents,
                 loops, child, notes>>

\* runJobPerform, and the HGET of Ack or Fail: without an envelope there is nothing to
\* do.
Finalize(w) ==
  /\ pc[w] = "perform"
  /\ IF job[w] \in stored
     THEN /\ \/ pc' = [pc EXCEPT ![w] = "ack"]
             \/ pc' = [pc EXCEPT ![w] = "fail"]
          /\ UNCHANGED job
     ELSE /\ pc' = [pc EXCEPT ![w] = "idle"]
          /\ job' = [job EXCEPT ![w] = NoJob]
  /\ UNCHANGED <<submitted, keys, loops, child, notes>>

\* performAck; then resolveDependencies.
Ack(w) ==
  /\ pc[w] = "ack"
  /\ processed' = processed \cup {job[w]}
  /\ Begin(w, "resolve", job[w])
  /\ UNCHANGED <<submitted, stored, queue, dead, dependencies, dependents, job,
                 child, notes>>

\* processFail with attempts left: the envelope is written back.
FailRetry(w) ==
  /\ pc[w] = "fail"
  /\ stored' = stored \cup {job[w]}
  /\ queue' = queue \cup {job[w]}
  /\ pc' = [pc EXCEPT ![w] = "idle"]
  /\ job' = [job EXCEPT ![w] = NoJob]
  /\ UNCHANGED <<submitted, processed, dead, dependencies, dependents, loops, child,
                 notes>>

\* processFail of the last attempt; then cascadeDependencyFailure.
FailDead(w) ==
  /\ pc[w] = "fail"
  /\ stored' = stored \cup {job[w]}
  /\ dead' = dead \cup {job[w]}
  /\ Begin(w, "cascade", job[w])
  /\ failed' = failed \cup {job[w]}
  /\ UNCHANGED <<submitted, queue, processed, dependencies, dependents, job, child,
                 cancels, cut>>

\* Cancel: HGET and executeCancelTx; then cascadeDependencyFailure.  The sets of
\* dependencies and dependents are left as they are.
Cancel(a, j) ==
  /\ pc[a] = "idle"
  /\ cancels < MaxCancels
  /\ j \in stored
  /\ cancels' = cancels + 1
  /\ stored' = stored \ {j}
  /\ queue' = queue \ {j}
  /\ dead' = dead \ {j}
  /\ job' = [job EXCEPT ![a] = j]
  /\ Begin(a, "cascade", j)
  /\ failed' = failed \cup {j}
  /\ UNCHANGED <<submitted, processed, dependencies, dependents, child, cut>>

\* The process dies.
Crash(w) ==
  /\ pc[w] # "off"
  /\ Abandon(w, "off")
  /\ UNCHANGED <<submitted, keys, job, cancels, failed>>

-----------------------------------------------------------------------------
(* resolveDependencies and cascadeDependencyFailure.                       *)

\* SMEMBERS of the dependents.
ReadMembers(w) ==
  LET js == dependents[Top(w).of]
  IN /\ pc[w] = "members"
     /\ IF js = {}
        THEN Return(w)
        ELSE /\ loops' = WithTop(w, [Top(w) EXCEPT !.todo = js])
             /\ pc' = [pc EXCEPT ![w] = "loop"]
             /\ UNCHANGED job
     /\ UNCHANGED <<submitted, keys, child, notes>>

\* DEL of the dependents when all children are dealt with.
LoopDone(w) ==
  /\ pc[w] = "loop"
  /\ Top(w).todo = {}
  /\ dependents' = [dependents EXCEPT ![Top(w).of] = {}]
  /\ Return(w)
  /\ UNCHANGED <<submitted, stored, queue, processed, dead, dependencies, child,
                 notes>>

\* resolveChildDependency: SREM, which tells whether the parent was there.
ResolveRemove(w, c) ==
  LET p == Top(w).of
  IN /\ pc[w] = "loop"
     /\ Top(w).mode = "resolve"
     /\ c \in Top(w).todo
     /\ dependencies' = [dependencies EXCEPT ![c] = @ \ {p}]
     /\ IF p \in dependencies[c]
        THEN /\ pc' = [pc EXCEPT ![w] = "scard"]
             /\ child' = [child EXCEPT ![w] = c]
             /\ UNCHANGED loops
        ELSE loops' = Dealt(w, c) /\ UNCHANGED <<pc, child>>
     /\ UNCHANGED <<submitted, stored, queue, processed, dead, dependents, job,
                    notes>>

\* Fault: the other parents are not counted.
NoneLeftUnchecked(c) == TRUE

\* resolveChildDependency: SCARD, which is 0 for a set that is gone, too.
NoneLeft(c) == dependencies[c] = {}

ResolveCount(w) ==
  /\ pc[w] = "scard"
  /\ IF NoneLeft(child[w])
     THEN pc' = [pc EXCEPT ![w] = "hget"] /\ UNCHANGED <<loops, child>>
     ELSE /\ pc' = [pc EXCEPT ![w] = "loop"]
          /\ loops' = Dealt(w, child[w])
          /\ child' = [child EXCEPT ![w] = NoJob]
  /\ UNCHANGED <<submitted, keys, job, notes>>

\* enqueueChildJob: HGET; without an envelope it is an error, and the loop ends.
ResolveEnvelope(w) ==
  /\ pc[w] = "hget"
  /\ IF child[w] \in stored
     THEN pc' = [pc EXCEPT ![w] = "enqueue"] /\ UNCHANGED <<job, loops, child, cut>>
     ELSE Abandon(w, "idle") /\ job' = [job EXCEPT ![w] = NoJob]
  /\ UNCHANGED <<submitted, keys, cancels, failed>>

\* Fault: the child is only taken off the list of those blocked.
QueuedNot(c) == queue

\* enqueueReadyJob.
Queued(c) == queue \cup {c}

\* enqueueChildJob: DEL of the dependencies and enqueueReadyJob.
ResolveEnqueue(w) ==
  /\ pc[w] = "enqueue"
  /\ dependencies' = [dependencies EXCEPT ![child[w]] = {}]
  /\ queue' = Queued(child[w])
  /\ pc' = [pc EXCEPT ![w] = "loop"]
  /\ loops' = Dealt(w, child[w])
  /\ child' = [child EXCEPT ![w] = NoJob]
  /\ UNCHANGED <<submitted, stored, processed, dead, dependents, job, notes>>

\* failChildJob: HGET; without an envelope it is an error, and every loop ends.
CascadeEnvelope(w, c) ==
  /\ pc[w] = "loop"
  /\ Top(w).mode = "cascade"
  /\ c \in Top(w).todo
  /\ IF c \in stored
     THEN /\ pc' = [pc EXCEPT ![w] = "kill"]
          /\ child' = [child EXCEPT ![w] = c]
          /\ UNCHANGED <<job, loops, cut>>
     ELSE Abandon(w, "idle") /\ job' = [job EXCEPT ![w] = NoJob]
  /\ UNCHANGED <<submitted, keys, cancels, failed>>

\* execFailChildJob; then cascadeDependencyFailure of the child.
CascadeKill(w) ==
  /\ pc[w] = "kill"
  /\ dead' = dead \cup {child[w]}
  /\ dependencies' = [dependencies EXCEPT ![child[w]] = {}]
  /\ Begin(w, "cascade", child[w])
  /\ child' = [child EXCEPT ![w] = NoJob]
  /\ failed' = failed \cup {child[w]}
  /\ UNCHANGED <<submitted, stored, queue, processed, dependents, job, cancels,
                 cut>>

-----------------------------------------------------------------------------
LoopStep(w) ==
  \/ ReadMembers(w) \/ LoopDone(w)
  \/ \E c \in Jobs : ResolveRemove(w, c) \/ CascadeEnvelope(w, c)
  \/ ResolveCount(w) \/ ResolveEnvelope(w) \/ ResolveEnqueue(w)
  \/ CascadeKill(w)

WorkerStep(w) ==
  \/ \E j \in Jobs : Dequeue(w, j)
  \/ Finalize(w) \/ Ack(w) \/ FailRetry(w) \/ FailDead(w)

\* Nobody has anything to do, or everybody is gone.
AtRest ==
  /\ UNION Workflows \subseteq submitted
  /\ \A w \in Callers : pc[w] = "off" \/ (pc[w] = "idle" /\ queue = {})
  /\ UNCHANGED vars

Next ==
  \/ \E js \in Workflows : EnqueueWorkflow(js)
  \/ \E w \in Workers : WorkerStep(w)
  \/ \E a \in Admins, j \in Jobs : Cancel(a, j)
  \/ \E w \in Callers : LoopStep(w) \/ Crash(w)
  \/ AtRest

Spec == Init /\ [][Next]_vars

-----------------------------------------------------------------------------
(* Properties.                                                             *)

TypeOK ==
  /\ submitted \subseteq Jobs
  /\ stored \subseteq Jobs /\ queue \subseteq Jobs
  /\ processed \subseteq Jobs /\ dead \subseteq Jobs
  /\ dependencies \in [Jobs -> SUBSET Jobs]
  /\ dependents \in [Jobs -> SUBSET Jobs]
  /\ pc \in [Callers -> Pcs]
  /\ job \in [Callers -> Jobs \cup {NoJob}]
  /\ loops \in [Callers -> Seq(Loops)]
  /\ child \in [Callers -> Jobs \cup {NoJob}]
  /\ cancels \in 0 .. MaxCancels
  /\ cut \subseteq Jobs /\ failed \subseteq Jobs

\* Job j is with a worker, alive or dead, before its Ack or Fail.
Held(j) == \E w \in Workers : job[w] = j /\ loops[w] = <<>>

\* A job with parents is executed after all of them were acknowledged.  When one of
\* them was dead or cancelled it may still be, but only because another one was
\* acknowledged: the cascade may delete the set between SREM and SCARD of that one.
ParentsFirst ==
  \A j \in queue \cup {job[w] : w \in {v \in Workers : pc[v] = "perform"}} :
    Parents[j] # {} =>
      \/ Parents[j] \subseteq processed
      \/ /\ \E p \in Parents[j] : p \in processed
         /\ \E p \in Parents[j] : p \in failed

\* Job j is queued, held, or about to be dealt with by a loop.
AtHand(j) == j \in queue \/ Held(j) \/ \E w \in Callers : j \in Ahead(w)

Waits(j) == j \in stored \ dead /\ dependencies[j] # {}

\* No job of a workflow is forgotten between the keys: one that is not finished is
\* queued, held by a worker, about to be dealt with by a loop, or it waits for parents
\* that are not settled themselves.  Left out are the children of a loop that ended in
\* the middle, by a crash, or because another child had been cancelled; and those that
\* came with a parent that was at its end by then, or not enqueued: they may wait for
\* ever.
NoneForgotten ==
  \A j \in stored \ (processed \cup dead \cup cut) :
    \/ AtHand(j)
    \/ Waits(j) /\ \A p \in dependencies[j] : AtHand(p) \/ Waits(p) \/ p \in cut

=============================================================================
