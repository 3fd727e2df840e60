---------------------------- MODULE JobLifecycle ----------------------------
(***************************************************************************)
(* What the queue promises to those who enqueue and to the handlers, with  *)
(* nothing said of rows, keys, locks, transactions and commands: the life  *)
(* of a job, in single steps, and which worker has it.  SqlStorage is      *)
(* shown to implement it, and so is RedisQueue, of which less is true: a   *)
(* job that is withdrawn while a worker has it may come back.              *)
(***************************************************************************)
CONSTANTS
  Jobs,    \* job ids
  Workers, \* job goroutines, over all processes
  NoJob,
  WithdrawnForGood \* nothing brings back a job that is withdrawn while it runs

VARIABLES
  st,   \* the state of a job
  hold  \* the job a worker has

States == {"none", "waiting", "running", "finished", "dead", "gone"}

In(s) == {j \in Jobs : st[j] = s}

Init ==
  /\ st = [j \in Jobs |-> "none"]
  /\ hold = [w \in Workers |-> NoJob]

\* Storage.Enqueue, EnqueueInBatch, EnqueueWorkflow: together or not at all.
Submit(js) ==
  /\ UNCHANGED hold
  /\ st' = [j \in Jobs |-> IF j \in js THEN "waiting" ELSE st[j]]

\* Storage.Dequeue: a worker that has no job gets one that waits.
Take(w, j) ==
  /\ hold[w] = NoJob
  /\ j \in In("waiting")
  /\ st' = [st EXCEPT ![j] = "running"]
  /\ hold' = [hold EXCEPT ![w] = j]

\* What a job may be that was from, when its worker says that it is to.  One that was
\* withdrawn meanwhile stays gone; without WithdrawnForGood only an Ack is sure to leave
\* it so.
Outcomes(from, to) ==
  IF from # "gone" THEN {to}
  ELSE {"gone"} \cup {s \in {to} : ~WithdrawnForGood /\ to # "finished"}

\* The worker is through with its job, which is s from now on; the waiting jobs js die.
Settle(w, s, js) ==
  /\ hold[w] # NoJob
  /\ hold' = [hold EXCEPT ![w] = NoJob]
  /\ \E o \in Outcomes(st[hold[w]], s) :
       st' = [j \in Jobs |-> IF j = hold[w] THEN o ELSE IF j \in js THEN "dead" ELSE st[j]]

\* Storage.Ack.
Finish(w) == Settle(w, "finished", {})

\* Storage.PostponeJob, and Storage.Fail with attempts left.
GiveBack(w) == Settle(w, "waiting", {})

\* Storage.Fail at the limit takes the jobs along that wait for this one.
Die(w) == \E js \in SUBSET In("waiting") : Settle(w, "dead", js)

\* The worker is gone, or the storage does not answer: the job stays as it is.
LetGo(w) ==
  /\ hold[w] # NoJob
  /\ hold' = [hold EXCEPT ![w] = NoJob]
  /\ UNCHANGED st

\* Storage.RetryAllFailed and Retry of dead jobs.
Revive(js) ==
  /\ UNCHANGED hold
  /\ st' = [j \in Jobs |-> IF j \in js THEN "waiting" ELSE st[j]]

\* Storage.Cancel, BulkCancel, the purges and the archive; those that wait for a
\* cancelled job die.
Withdraw(js, fallen) ==
  /\ st' = [j \in Jobs |-> IF j \in js THEN "gone" ELSE IF j \in fallen THEN "dead"
                           ELSE st[j]]
  /\ UNCHANGED hold

WorkerStep(w) ==
  \/ \E j \in Jobs : Take(w, j)
  \/ Finish(w) \/ GiveBack(w) \/ Die(w) \/ LetGo(w)

Next ==
  \/ \E js \in SUBSET In("none") : Submit(js)
  \/ \E w \in Workers : WorkerStep(w)
  \/ \E js \in SUBSET In("dead") : Revive(js)
  \/ \E js \in SUBSET (Jobs \ In("none")), fallen \in SUBSET In("waiting") :
       Withdraw(js, fallen)

Spec == Init /\ [][Next]_<<st, hold>>

=============================================================================
