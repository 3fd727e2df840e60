------------------------- MODULE RedisWorkflowProofs -------------------------
(***************************************************************************)
(* Proofs about RedisWorkflow, for any jobs and dependencies, any number   *)
(* of workers and any number of calls of Cancel: the types, that a job     *)
(* with parents is executed after they were acknowledged, and that no job  *)
(* is forgotten between the keys.                                          *)
(*                                                                         *)
(* The first invariant says why a child may be queued: a parent missing    *)
(* in its set of dependencies was acknowledged, or the set was deleted by  *)
(* a call that counted it down or that had a dead parent; and a loop is    *)
(* only ever over the children of such a parent.                           *)
(***************************************************************************)
EXTENDS RedisWorkflow, SequenceTheorems, TLAPS

\* The enqueued jobs that wait for p, or did.
Children(p) == {j \in submitted : p \in Parents[j]}

\* All parents of j are acknowledged, or one of them was dead or cancelled.
Settled(j) ==
  \/ Parents[j] \subseteq processed
  \/ \E p \in Parents[j] : p \in failed

\* What ParentsFirst says of a job that is queued or executed.
Ready(j) ==
  Parents[j] # {} => /\ Settled(j)
                     /\ \E p \in Parents[j] : p \in processed

\* The loops over children of a job that is acknowledged, or dead or cancelled.
GoodLoops ==
  {l \in Loops : /\ l.todo \subseteq Children(l.of)
                 /\ l.mode = "resolve" => l.of \in processed
                 /\ l.mode = "cascade" => l.of \in failed}

InLoop == {"members", "loop", "scard", "hget", "enqueue", "kill"}

\* A caller has loops as long as it is in the middle of a call; the child that it deals
\* with belongs to the innermost one; a job that it executes may be executed.
CallerOK(w) ==
  /\ loops[w] \in Seq(GoodLoops)
  /\ pc[w] \in InLoop <=> loops[w] # <<>>
  /\ pc[w] \in {"scard", "hget", "enqueue"} =>
       Top(w).mode = "resolve" /\ child[w] \in Children(Top(w).of)
  /\ pc[w] = "kill" =>
       Top(w).mode = "cascade" /\ child[w] \in Children(Top(w).of)
  /\ pc[w] \in {"hget", "enqueue"} => Settled(child[w])
  /\ pc[w] \in {"perform", "ack", "fail"} => job[w] \in submitted
  /\ pc[w] \in {"perform", "fail"} => Ready(job[w])

\* A parent that is no longer in the set was acknowledged, or the set is gone.
DependenciesOK ==
  \A j \in submitted : \A p \in Parents[j] \ dependencies[j] :
    p \in processed \/ Settled(j)

KeysOK ==
  /\ DependenciesOK
  /\ \A p \in Jobs : dependents[p] \subseteq Children(p)
  /\ \A j \in queue : Ready(j)
  /\ stored \cup queue \subseteq submitted

WorkflowInv == TypeOK /\ KeysOK /\ \A w \in Callers : CallerOK(w)

-----------------------------------------------------------------------------
(* Stacks of loops.                                                        *)

\* A sequence with a positive length is not empty.
LEMMA NotEmpty ==
  ASSUME NEW S, NEW s \in Seq(S), Len(s) # 0
  PROVE  s # <<>>
BY EmptySeq

\* The innermost loop.
LEMMA TopIn ==
  ASSUME NEW S, NEW w \in Callers, loops[w] \in Seq(S), loops[w] # <<>>
  PROVE  /\ Len(loops[w]) \in Nat \ {0}
         /\ Len(loops[w]) \in 1 .. Len(loops[w])
         /\ Top(w) \in S
<1>1. Len(loops[w]) \in Nat \ {0}
  BY EmptySeq
<1>2. Len(loops[w]) \in 1 .. Len(loops[w])
  BY <1>1
<1>3. loops[w][Len(loops[w])] \in S
  BY <1>2, ElementOfSeq
<1> QED
  BY <1>1, <1>2, <1>3 DEF Top

\* Replacing it keeps the stack a stack of loops of that kind.
LEMMA WithTopIn ==
  ASSUME NEW S, loops \in [Callers -> Seq(S)], NEW w \in Callers, loops[w] # <<>>,
         NEW l \in S
  PROVE  /\ WithTop(w, l) \in [Callers -> Seq(S)]
         /\ WithTop(w, l)[w] # <<>>
         /\ WithTop(w, l)[w][Len(WithTop(w, l)[w])] = l
         /\ \A v \in Callers \ {w} : WithTop(w, l)[v] = loops[v]
<1> DEFINE n == Len(loops[w])
           t == [loops[w] EXCEPT ![n] = l]
<1>1. n \in 1 .. Len(loops[w]) /\ n \in Nat \ {0}
  BY TopIn
<1>2. t \in Seq(S) /\ Len(t) = n /\ t[n] = l
  BY <1>1, ExceptSeq
<1>3. t # <<>>
  BY <1>1, <1>2, EmptySeq
<1>4. WithTop(w, l) = [loops EXCEPT ![w] = t]
  BY DEF WithTop
<1> HIDE DEF t
<1> QED
  BY <1>2, <1>3, <1>4

\* A new loop on the stack.
LEMMA BeginIn ==
  ASSUME NEW S, loops \in [Callers -> Seq(S)], NEW w \in Callers, NEW mode, NEW j,
         [mode |-> mode, of |-> j, todo |-> {}] \in S, Begin(w, mode, j)
  PROVE  /\ loops' \in [Callers -> Seq(S)]
         /\ loops'[w] # <<>>
         /\ \A v \in Callers \ {w} : loops'[v] = loops[v]
<1> DEFINE l == [mode |-> mode, of |-> j, todo |-> {}]
           t == Append(loops[w], l)
<1>1. loops[w] \in Seq(S) /\ l \in S
  OBVIOUS
<1>2. t \in Seq(S) /\ t # <<>>
  BY <1>1, AppendProperties
<1>3. loops' = [loops EXCEPT ![w] = t]
  BY DEF Begin
<1> HIDE DEF t
<1> QED
  BY <1>2, <1>3

\* One loop less, or none: the call returns to the one around it, or is over.
LEMMA ReturnIn ==
  ASSUME NEW S, loops \in [Callers -> Seq(S)], NEW w \in Callers, loops[w] # <<>>,
         \A l \in S : \A c : [l EXCEPT !.todo = @ \ {c}] \in S,
         pc \in [Callers -> Pcs], job \in [Callers -> Jobs \cup {NoJob}], Return(w)
  PROVE  /\ loops' \in [Callers -> Seq(S)]
         /\ pc' \in [Callers -> Pcs]
         /\ job' \in [Callers -> Jobs \cup {NoJob}]
         /\ \/ pc'[w] = "idle" /\ loops'[w] = <<>>
            \/ pc'[w] = "loop" /\ loops'[w] # <<>>
         /\ \A v \in Callers \ {w} : pc'[v] = pc[v] /\ loops'[v] = loops[v] /\ job'[v] = job[v]
<1> DEFINE n == Len(loops[w])
<1>1. n \in Nat \ {0}
  BY TopIn
<1>2. CASE n = 1
  <2>1. /\ pc' = [pc EXCEPT ![w] = "idle"]
        /\ job' = [job EXCEPT ![w] = NoJob]
        /\ loops' = [loops EXCEPT ![w] = <<>>]
    BY <1>2 DEF Return
  <2>2. <<>> \in Seq(S)
    BY EmptySeq
  <2> QED
    BY <2>1, <2>2 DEF Pcs
<1>3. CASE n # 1
  <2> DEFINE s == SubSeq(loops[w], 1, n - 1)
             l == [s[n - 1] EXCEPT !.todo = @ \ {Top(w).of}]
             t == [s EXCEPT ![n - 1] = l]
  <2>1. \A i \in 1 .. n - 1 : loops[w][i] \in S
    BY <1>1, ElementOfSeq
  <2>2. /\ s \in Seq(S)
        /\ Len(s) = IF 1 <= n - 1 THEN (n - 1) - 1 + 1 ELSE 0
    <3> HIDE DEF n
    <3> QED
      BY <1>1, <2>1, SubSeqProperties
  <2>3. s \in Seq(S) /\ Len(s) = n - 1 /\ n - 1 \in 1 .. Len(s)
    <3> HIDE DEF n, s
    <3> QED
      BY <1>1, <1>3, <2>2
  <2>4. s[n - 1] \in S
    BY <2>3, ElementOfSeq
  <2>5. l \in S
    BY <2>4
  <2> HIDE DEF l
  <2>6. t \in Seq(S) /\ Len(t) = n - 1
    BY <2>3, <2>5, ExceptSeq
  <2>7. t # <<>>
    <3> HIDE DEF t
    <3> QED
      BY <1>1, <1>3, <2>6, NotEmpty
  <2>8. loops' = [loops EXCEPT ![w] = t] /\ pc' = [pc EXCEPT ![w] = "loop"] /\ job' = job
    BY <1>3 DEF Return, l
  <2> HIDE DEF t
  <2> QED
    BY <2>6, <2>7, <2>8 DEF Pcs
<1> QED
  BY <1>2, <1>3

-----------------------------------------------------------------------------
(* What is not touched stays as it is.                                     *)

\* Jobs that were enqueued, acknowledged or failed are never forgotten.
Grow ==
  /\ submitted \subseteq submitted' /\ processed \subseteq processed'
  /\ failed \subseteq failed'

\* What only needs jobs to be settled survives a step that settles more.
LEMMA KeptByGrowth ==
  ASSUME Grow
  PROVE  /\ \A j : Settled(j) => Settled(j)'
         /\ \A j : Ready(j) => Ready(j)'
         /\ GoodLoops \subseteq GoodLoops'
<1>1. \A j : Settled(j) => Settled(j)'
  BY DEF Grow, Settled
<1>2. \A j : Ready(j) => Ready(j)'
  BY <1>1 DEF Grow, Ready
<1>3. GoodLoops \subseteq GoodLoops'
  BY DEF Grow, GoodLoops, Children
<1> QED
  BY <1>1, <1>2, <1>3

\* A loop stays good when one child less is left.
LEMMA GoodLess == \A l \in GoodLoops : \A c : [l EXCEPT !.todo = @ \ {c}] \in GoodLoops
BY DEF GoodLoops, Loops

\* A caller that did nothing.
LEMMA OtherKept ==
  ASSUME NEW v \in Callers, CallerOK(v), Grow,
         pc'[v] = pc[v], loops'[v] = loops[v], job'[v] = job[v], child'[v] = child[v]
  PROVE  CallerOK(v)'
<1>1. loops'[v] \in Seq(GoodLoops')
  <2>1. loops[v] \in Seq(GoodLoops) /\ GoodLoops \subseteq GoodLoops'
    BY KeptByGrowth DEF CallerOK
  <2>2. loops[v] \in Seq(GoodLoops')
    BY <2>1, SeqMonotonic
  <2> QED
    BY <2>2
<1>2. Top(v)' = Top(v)
  BY DEF Top
<1>3. Settled(child[v]) => Settled(child[v])'
  BY KeptByGrowth DEF Settled
<1>4. Ready(job[v]) => Ready(job[v])'
  BY KeptByGrowth DEF Ready, Settled
<1> QED
  BY <1>1, <1>2, <1>3, <1>4 DEF CallerOK, Children, Grow

\* A step of caller w.
LEMMA StepOf ==
  ASSUME WorkflowInv, Grow, submitted' = submitted, NEW w \in Callers,
         \A v \in Callers \ {w} : /\ pc'[v] = pc[v] /\ loops'[v] = loops[v]
                                  /\ job'[v] = job[v] /\ child'[v] = child[v],
         TypeOK', KeysOK', CallerOK(w)'
  PROVE  WorkflowInv'
<1>1. ASSUME NEW v \in Callers \ {w}
      PROVE  CallerOK(v)'
  BY <1>1, OtherKept DEF WorkflowInv
<1> QED
  BY <1>1 DEF WorkflowInv

\* The keys, when neither submission nor the sets of dependencies are touched.
LEMMA KeysKept ==
  ASSUME KeysOK, Grow, submitted' = submitted, dependencies' = dependencies,
         \A p \in Jobs : dependents'[p] \subseteq dependents[p],
         stored' \subseteq stored \cup submitted,
         \A j \in queue' : j \in queue \/ (Ready(j) /\ j \in submitted)
  PROVE  KeysOK'
<1>1. DependenciesOK'
  BY KeptByGrowth DEF KeysOK, DependenciesOK, Grow
<1>2. \A j \in queue' : Ready(j)'
  BY KeptByGrowth DEF KeysOK
<1>3. \A p \in Jobs : dependents'[p] \subseteq Children(p)
  BY DEF KeysOK
<1> QED
  BY <1>1, <1>2, <1>3 DEF KeysOK, Children

-----------------------------------------------------------------------------
(* Every action keeps the invariant.                                       *)

\* Nothing is stored and nobody is in a loop.
LEMMA InvAtFirst == Init => WorkflowInv
<1> SUFFICES ASSUME Init PROVE WorkflowInv
  OBVIOUS
<1>1. TypeOK
  <2>1. <<>> \in Seq(Loops)
    BY EmptySeq
  <2>2. loops \in [Callers -> Seq(Loops)]
    BY <2>1 DEF Init
  <2>3. cancels \in 0 .. MaxCancels
    BY WorkflowAssumption DEF Init
  <2> QED
    BY <2>2, <2>3 DEF Init, TypeOK, Pcs
<1>2. KeysOK
  BY DEF Init, KeysOK, DependenciesOK
<1>3. ASSUME NEW w \in Callers
      PROVE  CallerOK(w)
  <2>1. <<>> \in Seq(GoodLoops)
    BY EmptySeq
  <2> QED
    BY <2>1 DEF Init, CallerOK, InLoop
<1> QED
  BY <1>1, <1>2, <1>3 DEF WorkflowInv

\* EnqueueWorkflow stores jobs nobody has seen, with all their parents.
LEMMA EnqueueWorkflowKeeps ==
  ASSUME WorkflowInv, NEW js \in Workflows, EnqueueWorkflow(js)
  PROVE  WorkflowInv'
<1> USE DEF EnqueueWorkflow, call
<1>1. js \subseteq Jobs /\ Grow
  BY WorkflowAssumption DEF Grow
<1>2. TypeOK'
  BY <1>1, WorkflowAssumption DEF WorkflowInv, TypeOK
<1>3. KeysOK'
  <2>1. DependenciesOK'
    <3> SUFFICES ASSUME NEW j \in submitted', NEW p \in Parents[j] \ dependencies'[j]
                 PROVE  p \in processed' \/ Settled(j)'
      BY DEF DependenciesOK
    <3>1. CASE j \in js
      BY <1>1, <3>1
    <3>2. CASE j \notin js
      <4>1. j \in submitted /\ j \in Jobs /\ p \in Parents[j] \ dependencies[j]
        BY <3>2 DEF WorkflowInv, TypeOK
      <4>2. p \in processed \/ Settled(j)
        BY <4>1 DEF WorkflowInv, KeysOK, DependenciesOK
      <4> QED
        BY <1>1, <4>2, KeptByGrowth DEF Grow
    <3> QED
      BY <3>1, <3>2
  <2>2. \A p \in Jobs : dependents'[p] \subseteq Children(p)'
    BY <1>1 DEF Children, WorkflowInv, KeysOK
  <2>3. \A j \in queue' : Ready(j)'
    BY <1>1, KeptByGrowth DEF Ready, WorkflowInv, KeysOK
  <2> QED
    BY <2>1, <2>2, <2>3 DEF WorkflowInv, KeysOK
<1>4. ASSUME NEW v \in Callers
      PROVE  CallerOK(v)'
  BY <1>1, OtherKept DEF WorkflowInv
<1> QED
  BY <1>2, <1>3, <1>4 DEF WorkflowInv

\* A job that is dequeued was ready.
LEMMA DequeueKeeps ==
  ASSUME WorkflowInv, NEW w \in Workers, NEW j \in Jobs, Dequeue(w, j)
  PROVE  WorkflowInv'
<1> USE DEF Dequeue, notes
<1>1. w \in Callers /\ pc \in [Callers -> Pcs] /\ job \in [Callers -> Jobs \cup {NoJob}]
  BY DEF Callers, WorkflowInv, TypeOK
<1>2. TypeOK'
  BY <1>1 DEF WorkflowInv, TypeOK, Pcs
<1>3. Grow
  BY DEF Grow
<1>4. KeysOK'
  BY <1>3, KeysKept DEF WorkflowInv
<1>5. pc'[w] = "perform" /\ job'[w] = j /\ loops'[w] = loops[w] /\ Ready(j)' /\ j \in submitted'
  BY <1>1, <1>3, KeptByGrowth DEF WorkflowInv, KeysOK
<1>6. loops[w] = <<>>
  BY <1>1 DEF WorkflowInv, CallerOK, InLoop
<1>7. CallerOK(w)'
  BY <1>5, <1>6, EmptySeq DEF CallerOK, InLoop
<1> QED
  BY <1>1, <1>2, <1>3, <1>4, <1>7, StepOf

\* The run of a job ends.
LEMMA FinalizeKeeps ==
  ASSUME WorkflowInv, NEW w \in Workers, Finalize(w)
  PROVE  WorkflowInv'
<1> USE DEF Finalize, notes, keys
<1>1. w \in Callers /\ pc \in [Callers -> Pcs] /\ job \in [Callers -> Jobs \cup {NoJob}]
  BY DEF Callers, WorkflowInv, TypeOK
<1>2. TypeOK'
  BY <1>1 DEF WorkflowInv, TypeOK, Pcs
<1>3. Grow
  BY DEF Grow
<1>4. KeysOK'
  BY <1>3, KeysKept DEF WorkflowInv
<1>5. \/ pc'[w] \in {"ack", "fail"} /\ job'[w] = job[w]
      \/ pc'[w] = "idle"
  BY <1>1
<1>6. /\ loops'[w] = <<>> /\ job[w] \in submitted' /\ Ready(job[w])
  BY <1>1 DEF WorkflowInv, CallerOK, InLoop
<1>7. CallerOK(w)'
  <2>1. loops'[w] \in Seq(GoodLoops')
    BY <1>6, EmptySeq
  <2>2. pc'[w] \in {"ack", "fail"} => (job[w] \in submitted /\ Ready(job[w]))'
    BY <1>5, <1>6 DEF Ready, Settled
  <2> QED
    BY <1>5, <1>6, <2>1, <2>2 DEF CallerOK, InLoop
<1> QED
  BY <1>1, <1>2, <1>3, <1>4, <1>7, StepOf

\* A call begins with the children of job j.
LEMMA BeginKeeps ==
  ASSUME WorkflowInv, Grow, NEW w \in Callers, NEW mode \in Modes,
         NEW j \in Jobs, Begin(w, mode, j),
         mode = "resolve" => j \in processed', mode = "cascade" => j \in failed'
  PROVE  /\ loops' \in [Callers -> Seq(Loops)]
         /\ pc' \in [Callers -> Pcs]
         /\ \A v \in Callers \ {w} : pc'[v] = pc[v] /\ loops'[v] = loops[v]
         /\ CallerOK(w)'
<1> DEFINE l == [mode |-> mode, of |-> j, todo |-> {}]
<1>1. loops \in [Callers -> Seq(GoodLoops')]
  BY KeptByGrowth, SeqMonotonic DEF WorkflowInv, CallerOK, TypeOK
<1>2. l \in GoodLoops' /\ l \in Loops
  BY DEF GoodLoops, Loops
<1>3. /\ loops' \in [Callers -> Seq(GoodLoops')]
      /\ loops'[w] # <<>>
      /\ \A v \in Callers \ {w} : loops'[v] = loops[v]
  BY <1>1, <1>2, BeginIn
<1>4. loops' \in [Callers -> Seq(Loops)]
  BY <1>2, BeginIn DEF WorkflowInv, TypeOK
<1>5. pc' = [pc EXCEPT ![w] = "members"] /\ pc \in [Callers -> Pcs]
  BY DEF Begin, WorkflowInv, TypeOK
<1>6. CallerOK(w)'
  BY <1>3, <1>5 DEF CallerOK, InLoop
<1> QED
  BY <1>3, <1>4, <1>5, <1>6 DEF Pcs

\* Ack settles the job before its children are looked at.
LEMMA AckKeeps ==
  ASSUME WorkflowInv, NEW w \in Workers, Ack(w)
  PROVE  WorkflowInv'
<1> USE DEF Ack, notes
<1>1. w \in Callers /\ job[w] \in Jobs /\ job[w] \in submitted /\ Grow
  BY DEF Callers, WorkflowInv, TypeOK, CallerOK, Grow
<1>2. /\ loops' \in [Callers -> Seq(Loops)]
      /\ pc' \in [Callers -> Pcs]
      /\ \A v \in Callers \ {w} : pc'[v] = pc[v] /\ loops'[v] = loops[v]
      /\ CallerOK(w)'
  BY <1>1, BeginKeeps DEF Modes
<1>3. TypeOK'
  BY <1>1, <1>2 DEF WorkflowInv, TypeOK
<1>4. KeysOK'
  BY <1>1, KeysKept DEF WorkflowInv
<1> QED
  BY <1>1, <1>2, <1>3, <1>4, StepOf

\* A failed run with attempts left.
LEMMA FailRetryKeeps ==
  ASSUME WorkflowInv, NEW w \in Workers, FailRetry(w)
  PROVE  WorkflowInv'
<1> USE DEF FailRetry, notes
<1>1. /\ w \in Callers /\ job[w] \in Jobs /\ Ready(job[w]) /\ job[w] \in submitted
      /\ Grow /\ loops[w] = <<>>
  BY DEF Callers, WorkflowInv, TypeOK, CallerOK, Grow, InLoop
<1>2. TypeOK'
  BY <1>1 DEF WorkflowInv, TypeOK, Pcs
<1>3. KeysOK'
  BY <1>1, KeysKept DEF WorkflowInv
<1>4. pc'[w] = "idle" /\ loops'[w] = <<>>
  BY <1>1 DEF WorkflowInv, TypeOK
<1>5. CallerOK(w)'
  BY <1>4, EmptySeq DEF CallerOK, InLoop
<1> QED
  BY <1>1, <1>2, <1>3, <1>5, StepOf DEF WorkflowInv, TypeOK

\* A failed run without attempts left settles the job before the cascade.
LEMMA FailDeadKeeps ==
  ASSUME WorkflowInv, NEW w \in Workers, FailDead(w)
  PROVE  WorkflowInv'
<1> USE DEF FailDead
<1>1. w \in Callers /\ job[w] \in Jobs /\ job[w] \in submitted /\ Grow
  BY DEF Callers, WorkflowInv, TypeOK, CallerOK, Grow
<1>2. /\ loops' \in [Callers -> Seq(Loops)]
      /\ pc' \in [Callers -> Pcs]
      /\ \A v \in Callers \ {w} : pc'[v] = pc[v] /\ loops'[v] = loops[v]
      /\ CallerOK(w)'
  BY <1>1, BeginKeeps DEF Modes
<1>3. TypeOK'
  BY <1>1, <1>2 DEF WorkflowInv, TypeOK
<1>4. KeysOK'
  BY <1>1, KeysKept DEF WorkflowInv
<1> QED
  BY <1>1, <1>2, <1>3, <1>4, StepOf

\* Cancel settles the job before the cascade.
LEMMA CancelKeeps ==
  ASSUME WorkflowInv, NEW a \in Admins, NEW j \in Jobs, Cancel(a, j)
  PROVE  WorkflowInv'
<1> USE DEF Cancel
<1>1. a \in Callers /\ j \in submitted /\ Grow
  BY DEF Callers, WorkflowInv, KeysOK, Grow
<1>2. /\ loops' \in [Callers -> Seq(Loops)]
      /\ pc' \in [Callers -> Pcs]
      /\ \A v \in Callers \ {a} : pc'[v] = pc[v] /\ loops'[v] = loops[v]
      /\ CallerOK(a)'
  BY <1>1, BeginKeeps DEF Modes
<1>3. TypeOK'
  <2>1. cancels' \in 0 .. MaxCancels
    BY WorkflowAssumption DEF WorkflowInv, TypeOK
  <2>2. /\ stored' \subseteq Jobs /\ queue' \subseteq Jobs /\ dead' \subseteq Jobs
        /\ failed' \subseteq Jobs /\ job' \in [Callers -> Jobs \cup {NoJob}]
    BY DEF WorkflowInv, TypeOK
  <2> QED
    BY <1>2, <2>1, <2>2 DEF WorkflowInv, TypeOK
<1>4. KeysOK'
  BY <1>1, KeysKept DEF WorkflowInv
<1> QED
  BY <1>1, <1>2, <1>3, <1>4, StepOf DEF WorkflowInv, TypeOK

\* The children that a caller has still to deal with are jobs.
LEMMA AheadIn ==
  ASSUME WorkflowInv, NEW w \in Callers
  PROVE  Ahead(w) \subseteq Jobs
<1>1. \A i \in DOMAIN loops[w] : loops[w][i] \in Loops
  BY ElementOfSeq, LenProperties DEF WorkflowInv, TypeOK
<1>2. pc[w] = "members" => Top(w) \in Loops
  BY TopIn DEF WorkflowInv, TypeOK, CallerOK, InLoop
<1>3. ASSUME NEW c \in Ahead(w)
      PROVE  \/ \E i \in DOMAIN loops[w] : c \in loops[w][i].todo
             \/ pc[w] = "members" /\ c \in dependents[Top(w).of]
  BY <1>3 DEF Ahead
<1>4. \A i \in DOMAIN loops[w] : loops[w][i].todo \subseteq Jobs
  BY <1>1 DEF Loops
<1>5. pc[w] = "members" => dependents[Top(w).of] \subseteq Jobs
  BY <1>2 DEF Loops, WorkflowInv, TypeOK
<1> QED
  BY <1>3, <1>4, <1>5

\* A call that ends in the middle.
LEMMA AbandonKeeps ==
  ASSUME WorkflowInv, NEW w \in Callers, NEW next \in {"idle", "off"}, Abandon(w, next),
         UNCHANGED <<submitted, keys, cancels, failed>>,
         job' \in [Callers -> Jobs \cup {NoJob}],
         \A v \in Callers \ {w} : job'[v] = job[v]
  PROVE  WorkflowInv'
<1> USE DEF Abandon, keys
<1>1. Grow
  BY DEF Grow
<1>2. TypeOK'
  <2>1. cut' \subseteq Jobs
    BY AheadIn DEF WorkflowInv, TypeOK
  <2>2. loops' \in [Callers -> Seq(Loops)]
    BY EmptySeq DEF WorkflowInv, TypeOK
  <2> QED
    BY <2>1, <2>2 DEF WorkflowInv, TypeOK, Pcs
<1>3. KeysOK'
  BY <1>1, KeysKept DEF WorkflowInv
<1>4. pc'[w] = next /\ loops'[w] = <<>>
  BY DEF WorkflowInv, TypeOK
<1>5. CallerOK(w)'
  BY <1>4, EmptySeq DEF CallerOK, InLoop
<1> QED
  BY <1>1, <1>2, <1>3, <1>5, StepOf DEF WorkflowInv, TypeOK

\* A worker that dies leaves its loops.
LEMMA CrashKeeps ==
  ASSUME WorkflowInv, NEW w \in Callers, Crash(w)
  PROVE  WorkflowInv'
BY AbandonKeeps DEF Crash, WorkflowInv, TypeOK

\* The innermost loop with one child less.
LEMMA DealtIn ==
  ASSUME WorkflowInv, NEW w \in Callers, loops[w] # <<>>, NEW c
  PROVE  /\ Dealt(w, c) \in [Callers -> Seq(GoodLoops)]
         /\ Dealt(w, c) \in [Callers -> Seq(Loops)]
         /\ Dealt(w, c)[w] # <<>>
         /\ \A v \in Callers \ {w} : Dealt(w, c)[v] = loops[v]
<1>1. loops \in [Callers -> Seq(GoodLoops)]
  BY DEF WorkflowInv, CallerOK, TypeOK
<1> DEFINE l == [Top(w) EXCEPT !.todo = @ \ {c}]
<1>2. l \in GoodLoops
  BY <1>1, TopIn, GoodLess
<1>3. l \in Loops
  BY <1>2 DEF GoodLoops
<1>4. loops \in [Callers -> Seq(Loops)]
  BY DEF WorkflowInv, TypeOK
<1>5. Dealt(w, c) = WithTop(w, l)
  BY DEF Dealt
<1> HIDE DEF l
<1>6. /\ WithTop(w, l) \in [Callers -> Seq(GoodLoops)]
      /\ WithTop(w, l)[w] # <<>>
      /\ \A v \in Callers \ {w} : WithTop(w, l)[v] = loops[v]
  BY <1>1, <1>2, WithTopIn
<1>7. WithTop(w, l) \in [Callers -> Seq(Loops)]
  BY <1>3, <1>4, WithTopIn
<1> QED
  BY <1>5, <1>6, <1>7

\* A child of the innermost loop is dealt with, and the call goes on.
LEMMA GoOnKeeps ==
  ASSUME WorkflowInv, NEW w \in Callers, pc[w] \in InLoop, NEW c,
         loops' = Dealt(w, c), pc' = [pc EXCEPT ![w] = "loop"],
         UNCHANGED <<submitted, processed, failed>>
  PROVE  /\ loops' \in [Callers -> Seq(Loops)]
         /\ pc' \in [Callers -> Pcs]
         /\ \A v \in Callers \ {w} : pc'[v] = pc[v] /\ loops'[v] = loops[v]
         /\ CallerOK(w)'
<1>1. loops[w] # <<>>
  BY DEF WorkflowInv, CallerOK, InLoop
<1>2. GoodLoops' = GoodLoops
  BY DEF GoodLoops, Children
<1>3. /\ loops' \in [Callers -> Seq(GoodLoops)]
      /\ loops' \in [Callers -> Seq(Loops)]
      /\ loops'[w] # <<>>
      /\ \A v \in Callers \ {w} : loops'[v] = loops[v]
  BY <1>1, DealtIn
<1>4. pc'[w] = "loop" /\ pc' \in [Callers -> Pcs]
  BY DEF WorkflowInv, TypeOK, Pcs
<1>5. CallerOK(w)'
  BY <1>1, <1>2, <1>3, <1>4 DEF CallerOK, InLoop
<1> QED
  BY <1>3, <1>4, <1>5

\* The call goes on to another step of the same child.
LEMMA SameLoopsKept ==
  ASSUME WorkflowInv, NEW w \in Callers, UNCHANGED <<loops, submitted, processed, failed>>
  PROVE  /\ GoodLoops' = GoodLoops /\ Top(w)' = Top(w) /\ loops'[w] \in Seq(GoodLoops')
         /\ \A j : Settled(j)' <=> Settled(j)
         /\ Grow
<1>1. GoodLoops' = GoodLoops
  BY DEF GoodLoops, Children
<1>2. \A j : Settled(j)' <=> Settled(j)
  BY DEF Settled
<1> QED
  BY <1>1, <1>2 DEF Top, WorkflowInv, CallerOK, Grow

\* The innermost loop is over.
LEMMA ReturnKeeps ==
  ASSUME WorkflowInv, NEW w \in Callers, pc[w] \in InLoop, Return(w),
         UNCHANGED <<submitted, processed, failed>>
  PROVE  /\ loops' \in [Callers -> Seq(Loops)]
         /\ pc' \in [Callers -> Pcs]
         /\ job' \in [Callers -> Jobs \cup {NoJob}]
         /\ \A v \in Callers \ {w} : pc'[v] = pc[v] /\ loops'[v] = loops[v] /\ job'[v] = job[v]
         /\ CallerOK(w)'
<1>1. loops[w] # <<>>
  BY DEF WorkflowInv, CallerOK, InLoop
<1>2. GoodLoops' = GoodLoops
  BY DEF GoodLoops, Children
<1>3. loops \in [Callers -> Seq(GoodLoops)] /\ loops \in [Callers -> Seq(Loops)]
  BY DEF WorkflowInv, CallerOK, TypeOK
<1>4. \A l \in Loops : \A c : [l EXCEPT !.todo = @ \ {c}] \in Loops
  BY DEF Loops
<1>5. pc \in [Callers -> Pcs] /\ job \in [Callers -> Jobs \cup {NoJob}]
  BY DEF WorkflowInv, TypeOK
<1>6. loops' \in [Callers -> Seq(Loops)]
  BY <1>1, <1>3, <1>4, <1>5, ReturnIn
<1>7. /\ loops' \in [Callers -> Seq(GoodLoops)]
      /\ pc' \in [Callers -> Pcs]
      /\ job' \in [Callers -> Jobs \cup {NoJob}]
      /\ \/ pc'[w] = "idle" /\ loops'[w] = <<>>
         \/ pc'[w] = "loop" /\ loops'[w] # <<>>
      /\ \A v \in Callers \ {w} : pc'[v] = pc[v] /\ loops'[v] = loops[v] /\ job'[v] = job[v]
  BY <1>1, <1>3, <1>5, GoodLess, ReturnIn
<1>8. CallerOK(w)'
  BY <1>1, <1>2, <1>7 DEF CallerOK, InLoop
<1> QED
  BY <1>6, <1>7, <1>8

\* The innermost loop of a caller in the middle of a call.
LEMMA TopGood ==
  ASSUME WorkflowInv, NEW w \in Callers, pc[w] \in InLoop
  PROVE  /\ loops[w] # <<>>
         /\ Top(w) \in GoodLoops /\ Top(w) \in Loops /\ Top(w).of \in Jobs
         /\ Top(w).todo \subseteq Children(Top(w).of)
         /\ Top(w).mode = "resolve" => Top(w).of \in processed
         /\ Top(w).mode = "cascade" => Top(w).of \in failed
<1>1. loops[w] # <<>>
  BY DEF WorkflowInv, CallerOK, InLoop
<1>2. Top(w) \in GoodLoops
  BY <1>1, TopIn DEF WorkflowInv, CallerOK
<1> QED
  BY <1>1, <1>2 DEF GoodLoops, Loops

\* SMEMBERS of the children of the job a loop is about.
LEMMA ReadMembersKeeps ==
  ASSUME WorkflowInv, NEW w \in Callers, ReadMembers(w)
  PROVE  WorkflowInv'
<1> USE DEF ReadMembers, keys, notes
<1>1. pc[w] \in InLoop /\ Grow
  BY DEF InLoop, Grow
<1>2. KeysOK'
  BY <1>1, KeysKept DEF WorkflowInv
<1>3. CASE dependents[Top(w).of] = {}
  <2>1. /\ loops' \in [Callers -> Seq(Loops)]
        /\ pc' \in [Callers -> Pcs]
        /\ job' \in [Callers -> Jobs \cup {NoJob}]
        /\ \A v \in Callers \ {w} : pc'[v] = pc[v] /\ loops'[v] = loops[v] /\ job'[v] = job[v]
        /\ CallerOK(w)'
    BY <1>1, <1>3, ReturnKeeps
  <2>2. TypeOK'
    BY <2>1 DEF WorkflowInv, TypeOK
  <2> QED
    BY <1>1, <1>2, <2>1, <2>2, StepOf
<1>4. CASE dependents[Top(w).of] # {}
  <2> DEFINE l == [Top(w) EXCEPT !.todo = dependents[Top(w).of]]
  <2>1. loops[w] # <<>> /\ Top(w) \in GoodLoops /\ Top(w).of \in Jobs
    BY <1>1, TopGood
  <2>2. l \in GoodLoops /\ l \in Loops
    BY <2>1 DEF GoodLoops, Loops, WorkflowInv, KeysOK, TypeOK
  <2>3. loops' = WithTop(w, l) /\ pc' = [pc EXCEPT ![w] = "loop"] /\ job' = job
    BY <1>4
  <2> HIDE DEF l
  <2>4. loops \in [Callers -> Seq(GoodLoops)] /\ loops \in [Callers -> Seq(Loops)]
    BY DEF WorkflowInv, CallerOK, TypeOK
  <2>5. /\ loops' \in [Callers -> Seq(GoodLoops)]
        /\ loops'[w] # <<>>
        /\ \A v \in Callers \ {w} : loops'[v] = loops[v]
    BY <2>1, <2>2, <2>3, <2>4, WithTopIn
  <2>6. loops' \in [Callers -> Seq(Loops)]
    BY <2>1, <2>2, <2>3, <2>4, WithTopIn
  <2>7. pc' \in [Callers -> Pcs] /\ pc'[w] = "loop"
    BY <2>3 DEF WorkflowInv, TypeOK, Pcs
  <2>8. TypeOK'
    BY <2>3, <2>6, <2>7 DEF WorkflowInv, TypeOK
  <2>9. CallerOK(w)'
    BY <2>1, <2>5, <2>7 DEF CallerOK, InLoop, GoodLoops, Children
  <2> QED
    BY <1>1, <1>2, <2>3, <2>5, <2>8, <2>9, StepOf
<1> QED
  BY <1>3, <1>4

\* A loop that has no child left returns.
LEMMA LoopDoneKeeps ==
  ASSUME WorkflowInv, NEW w \in Callers, LoopDone(w)
  PROVE  WorkflowInv'
<1> USE DEF LoopDone, notes
<1>1. pc[w] \in InLoop /\ Grow
  BY DEF InLoop, Grow
<1>2. dependents' \in [Jobs -> SUBSET Jobs] /\ \A p \in Jobs : dependents'[p] \subseteq dependents[p]
  BY DEF WorkflowInv, TypeOK
<1>3. KeysOK'
  BY <1>1, <1>2, KeysKept DEF WorkflowInv
<1>4. /\ loops' \in [Callers -> Seq(Loops)]
      /\ pc' \in [Callers -> Pcs]
      /\ job' \in [Callers -> Jobs \cup {NoJob}]
      /\ \A v \in Callers \ {w} : pc'[v] = pc[v] /\ loops'[v] = loops[v] /\ job'[v] = job[v]
      /\ CallerOK(w)'
  BY <1>1, ReturnKeeps
<1>5. TypeOK'
  BY <1>2, <1>4 DEF WorkflowInv, TypeOK
<1> QED
  BY <1>1, <1>3, <1>4, <1>5, StepOf

\* A set of dependencies that loses an acknowledged parent.
LEMMA ResolveRemoveKeeps ==
  ASSUME WorkflowInv, NEW w \in Callers, NEW c \in Jobs, ResolveRemove(w, c)
  PROVE  WorkflowInv'
<1> USE DEF ResolveRemove, notes
<1> DEFINE p == Top(w).of
<1>1. pc[w] \in InLoop /\ Grow /\ pc[w] = "loop"
  BY DEF InLoop, Grow
<1>2. p \in processed /\ c \in Children(p) /\ loops[w] # <<>>
  BY <1>1, TopGood
<1>3. dependencies' = [dependencies EXCEPT ![c] = @ \ {p}]
  OBVIOUS
<1> HIDE DEF p
<1>4. dependencies' \in [Jobs -> SUBSET Jobs]
  BY <1>3 DEF WorkflowInv, TypeOK
<1>5. KeysOK'
  <2>1. DependenciesOK'
    <3> SUFFICES ASSUME NEW j \in submitted, NEW q \in Parents[j] \ dependencies'[j]
                 PROVE  q \in processed \/ Settled(j)'
      BY DEF DependenciesOK
    <3>1. Settled(j) => Settled(j)'
      BY DEF Settled
    <3>2. q \in Parents[j] \ dependencies[j] \/ q = p
      BY <1>3 DEF WorkflowInv, TypeOK
    <3> QED
      BY <1>2, <3>1, <3>2 DEF WorkflowInv, KeysOK, DependenciesOK
  <2>2. \A j \in queue : Ready(j)'
    BY <1>1, KeptByGrowth DEF WorkflowInv, KeysOK
  <2> QED
    BY <1>2, <2>1, <2>2 DEF WorkflowInv, KeysOK, Children
<1>6. CASE p \in dependencies[c]
  <2>1. pc' = [pc EXCEPT ![w] = "scard"] /\ child' = [child EXCEPT ![w] = c] /\ loops' = loops
    BY <1>6 DEF p
  <2>2. TypeOK'
    BY <1>4, <2>1 DEF WorkflowInv, TypeOK, Pcs
  <2>3. pc'[w] = "scard" /\ child'[w] = c /\ Top(w)' = Top(w) /\ loops'[w] \in Seq(GoodLoops')
    BY <2>1, SameLoopsKept DEF WorkflowInv, TypeOK
  <2>4. CallerOK(w)'
    BY <1>2, <2>1, <2>3 DEF CallerOK, InLoop, Children, p
  <2> QED
    BY <1>1, <1>5, <2>1, <2>2, <2>4, StepOf DEF WorkflowInv, TypeOK
<1>7. CASE p \notin dependencies[c]
  <2>1. loops' = Dealt(w, c) /\ pc' = pc /\ child' = child
    BY <1>7 DEF p
  <2>2. pc' = [pc EXCEPT ![w] = "loop"]
    BY <1>1, <2>1 DEF WorkflowInv, TypeOK
  <2>3. /\ loops' \in [Callers -> Seq(Loops)]
        /\ \A v \in Callers \ {w} : loops'[v] = loops[v]
        /\ CallerOK(w)'
    BY <1>1, <2>1, <2>2, GoOnKeeps
  <2>4. TypeOK'
    BY <1>4, <2>1, <2>3 DEF WorkflowInv, TypeOK
  <2> QED
    BY <1>1, <1>5, <2>1, <2>3, <2>4, StepOf
<1> QED
  BY <1>6, <1>7

\* An empty set of dependencies means that all parents are settled.
LEMMA ResolveCountKeeps ==
  ASSUME WorkflowInv, NEW w \in Callers, ResolveCount(w)
  PROVE  WorkflowInv'
<1> USE DEF ResolveCount, keys, notes
<1>1. pc[w] \in InLoop /\ Grow /\ pc[w] = "scard"
  BY TopGood DEF InLoop, Grow
<1>2. KeysOK'
  BY <1>1, KeysKept DEF WorkflowInv
<1>3. CASE NoneLeft(child[w])
  <2>1. pc' = [pc EXCEPT ![w] = "hget"] /\ loops' = loops /\ child' = child
    BY <1>3
  <2>2. /\ child[w] \in Children(Top(w).of) /\ child[w] \in Jobs
        /\ child[w] \in submitted /\ Top(w).mode = "resolve"
    BY <1>1 DEF WorkflowInv, TypeOK, CallerOK, Children
  <2>3. Settled(child[w])
    <3>1. \A p \in Parents[child[w]] : p \in processed \/ Settled(child[w])
      BY <1>1, <1>3, <2>2 DEF NoneLeft, WorkflowInv, KeysOK, DependenciesOK
    <3> QED
      BY <3>1 DEF Settled
  <2>4. TypeOK'
    BY <2>1 DEF WorkflowInv, TypeOK, Pcs
  <2>5. /\ pc'[w] = "hget" /\ child'[w] = child[w] /\ Top(w)' = Top(w)
        /\ loops'[w] \in Seq(GoodLoops') /\ loops'[w] = loops[w] /\ loops[w] # <<>>
        /\ Settled(child[w])'
    BY <1>1, <2>1, <2>3, SameLoopsKept, TopGood DEF WorkflowInv, TypeOK, Settled
  <2>6. CallerOK(w)'
    BY <1>1, <2>2, <2>5 DEF CallerOK, InLoop, Children
  <2> QED
    BY <1>1, <1>2, <2>1, <2>4, <2>6, StepOf DEF WorkflowInv, TypeOK
<1>4. CASE ~NoneLeft(child[w])
  <2>1. /\ pc' = [pc EXCEPT ![w] = "loop"] /\ loops' = Dealt(w, child[w])
        /\ child' = [child EXCEPT ![w] = NoJob]
    BY <1>4
  <2>2. /\ loops' \in [Callers -> Seq(Loops)]
        /\ pc' \in [Callers -> Pcs]
        /\ \A v \in Callers \ {w} : pc'[v] = pc[v] /\ loops'[v] = loops[v]
        /\ CallerOK(w)'
    BY <1>1, <2>1, GoOnKeeps
  <2>3. TypeOK'
    BY <2>1, <2>2 DEF WorkflowInv, TypeOK
  <2> QED
    BY <1>1, <1>2, <2>1, <2>2, <2>3, StepOf DEF WorkflowInv, TypeOK
<1> QED
  BY <1>3, <1>4

\* The child of an acknowledged parent is looked up.
LEMMA ResolveEnvelopeKeeps ==
  ASSUME WorkflowInv, NEW w \in Callers, ResolveEnvelope(w)
  PROVE  WorkflowInv'
<1> USE DEF ResolveEnvelope
<1>1. pc[w] \in InLoop /\ Grow /\ pc[w] = "hget"
  BY DEF InLoop, Grow, keys
<1>2. CASE child[w] \in stored
  <2>1. /\ pc' = [pc EXCEPT ![w] = "enqueue"]
        /\ UNCHANGED <<submitted, keys, job, loops, child, notes>>
    BY <1>2 DEF notes
  <2>2. KeysOK'
    BY <1>1, <2>1, KeysKept DEF WorkflowInv, keys
  <2>3. TypeOK'
    BY <2>1 DEF WorkflowInv, TypeOK, Pcs, keys, notes
  <2>4. /\ pc'[w] = "enqueue" /\ child'[w] = child[w] /\ Top(w)' = Top(w)
        /\ loops'[w] \in Seq(GoodLoops') /\ loops'[w] = loops[w] /\ loops[w] # <<>>
    BY <1>1, <2>1, SameLoopsKept, TopGood DEF WorkflowInv, TypeOK, keys, notes
  <2>5. Settled(child[w])'
    BY <1>1, <2>1 DEF WorkflowInv, CallerOK, Settled, keys
  <2>6. CallerOK(w)'
    BY <1>1, <2>4, <2>5 DEF WorkflowInv, CallerOK, InLoop, Children
  <2> QED
    BY <1>1, <2>1, <2>2, <2>3, <2>6, StepOf DEF WorkflowInv, TypeOK
<1>3. CASE child[w] \notin stored
  BY <1>3, AbandonKeeps DEF WorkflowInv, TypeOK
<1> QED
  BY <1>2, <1>3

\* The child of an acknowledged parent is enqueued once its parents are settled.
LEMMA ResolveEnqueueKeeps ==
  ASSUME WorkflowInv, NEW w \in Callers, ResolveEnqueue(w)
  PROVE  WorkflowInv'
<1> USE DEF ResolveEnqueue, notes
<1>1. pc[w] \in InLoop /\ Grow /\ pc[w] = "enqueue"
  BY TopGood DEF InLoop, Grow
<1>2. child[w] \in Jobs /\ child[w] \in submitted /\ Settled(child[w]) /\ Ready(child[w])
  BY <1>1, TopGood DEF WorkflowInv, TypeOK, CallerOK, Children, Ready
<1>3. KeysOK'
  <2>1. DependenciesOK'
    <3> SUFFICES ASSUME NEW j \in submitted, NEW q \in Parents[j] \ dependencies'[j]
                 PROVE  q \in processed \/ Settled(j)'
      BY DEF DependenciesOK
    <3>1. Settled(j) => Settled(j)'
      BY DEF Settled
    <3>2. CASE j = child[w]
      BY <1>2, <3>1, <3>2
    <3>3. CASE j # child[w]
      BY <1>1, <3>1, <3>3 DEF WorkflowInv, TypeOK, KeysOK, DependenciesOK
    <3> QED
      BY <3>2, <3>3
  <2>2. \A j \in queue' : Ready(j)'
    BY <1>1, <1>2, KeptByGrowth DEF WorkflowInv, KeysOK, Queued
  <2> QED
    BY <1>1, <1>2, <2>1, <2>2 DEF WorkflowInv, KeysOK, Children, Queued
<1>4. /\ loops' \in [Callers -> Seq(Loops)]
      /\ pc' \in [Callers -> Pcs]
      /\ \A v \in Callers \ {w} : pc'[v] = pc[v] /\ loops'[v] = loops[v]
      /\ CallerOK(w)'
  BY <1>1, GoOnKeeps
<1>5. TypeOK'
  BY <1>2, <1>4 DEF WorkflowInv, TypeOK, Queued
<1> QED
  BY <1>1, <1>3, <1>4, <1>5, StepOf DEF WorkflowInv, TypeOK

\* The child of a failed parent is looked up.
LEMMA CascadeEnvelopeKeeps ==
  ASSUME WorkflowInv, NEW w \in Callers, NEW c \in Jobs, CascadeEnvelope(w, c)
  PROVE  WorkflowInv'
<1> USE DEF CascadeEnvelope
<1>1. pc[w] \in InLoop /\ Grow /\ pc[w] = "loop"
  BY DEF InLoop, Grow, keys
<1>2. CASE c \in stored
  <2>1. /\ pc' = [pc EXCEPT ![w] = "kill"] /\ child' = [child EXCEPT ![w] = c]
        /\ UNCHANGED <<submitted, keys, job, loops, notes>>
    BY <1>2 DEF notes
  <2>2. KeysOK'
    BY <1>1, <2>1, KeysKept DEF WorkflowInv, keys
  <2>3. TypeOK'
    BY <2>1 DEF WorkflowInv, TypeOK, Pcs, keys, notes
  <2>4. /\ pc'[w] = "kill" /\ child'[w] = c /\ Top(w)' = Top(w)
        /\ loops'[w] \in Seq(GoodLoops') /\ loops'[w] = loops[w] /\ loops[w] # <<>>
        /\ c \in Children(Top(w).of)
    BY <1>1, <2>1, SameLoopsKept, TopGood DEF WorkflowInv, TypeOK, keys, notes
  <2>5. CallerOK(w)'
    BY <1>1, <2>4 DEF CallerOK, InLoop, Children
  <2> QED
    BY <1>1, <2>1, <2>2, <2>3, <2>5, StepOf DEF WorkflowInv, TypeOK
<1>3. CASE c \notin stored
  BY <1>3, AbandonKeeps DEF WorkflowInv, TypeOK
<1> QED
  BY <1>2, <1>3

\* The child of a job that failed is dead, and its set of dependencies is deleted.
LEMMA CascadeKillKeeps ==
  ASSUME WorkflowInv, NEW w \in Callers, CascadeKill(w)
  PROVE  WorkflowInv'
<1> USE DEF CascadeKill
<1>1. pc[w] \in InLoop /\ Grow /\ pc[w] = "kill"
  BY TopGood DEF InLoop, Grow
<1>2. child[w] \in Jobs /\ Settled(child[w])
  BY <1>1, TopGood DEF WorkflowInv, TypeOK, CallerOK, Children, Settled
<1>3. KeysOK'
  <2>1. DependenciesOK'
    <3> SUFFICES ASSUME NEW j \in submitted, NEW q \in Parents[j] \ dependencies'[j]
                 PROVE  q \in processed \/ Settled(j)'
      BY DEF DependenciesOK
    <3>1. Settled(j) => Settled(j)'
      BY <1>1, KeptByGrowth
    <3>2. CASE j = child[w]
      BY <1>2, <3>1, <3>2
    <3>3. CASE j # child[w]
      BY <1>1, <3>1, <3>3 DEF WorkflowInv, TypeOK, KeysOK, DependenciesOK
    <3> QED
      BY <3>2, <3>3
  <2>2. \A j \in queue : Ready(j)'
    BY <1>1, KeptByGrowth DEF WorkflowInv, KeysOK
  <2> QED
    BY <1>1, <2>1, <2>2 DEF WorkflowInv, KeysOK, Children
<1>4. /\ loops' \in [Callers -> Seq(Loops)]
      /\ pc' \in [Callers -> Pcs]
      /\ \A v \in Callers \ {w} : pc'[v] = pc[v] /\ loops'[v] = loops[v]
      /\ CallerOK(w)'
  BY <1>1, <1>2, BeginKeeps DEF Modes
<1>5. TypeOK'
  BY <1>2, <1>4 DEF WorkflowInv, TypeOK
<1> QED
  BY <1>1, <1>3, <1>4, <1>5, StepOf DEF WorkflowInv, TypeOK

-----------------------------------------------------------------------------
\* A step that changes nothing.
LEMMA StutterKeeps ==
  ASSUME WorkflowInv, UNCHANGED vars
  PROVE  WorkflowInv'
<1> USE DEF vars, keys, call, notes
<1>1. TypeOK' /\ Grow
  BY DEF WorkflowInv, TypeOK, Grow
<1>2. KeysOK'
  BY <1>1, KeysKept DEF WorkflowInv
<1>3. ASSUME NEW v \in Callers
      PROVE  CallerOK(v)'
  BY <1>1, OtherKept DEF WorkflowInv
<1> QED
  BY <1>1, <1>2, <1>3 DEF WorkflowInv

\* Every step keeps the invariant.
LEMMA WorkflowInvKept ==
  ASSUME WorkflowInv, [Next]_vars
  PROVE  WorkflowInv'
<1>1. ASSUME NEW js \in Workflows, EnqueueWorkflow(js)
      PROVE  WorkflowInv'
  BY <1>1, EnqueueWorkflowKeeps
<1>2. ASSUME NEW w \in Workers, WorkerStep(w)
      PROVE  WorkflowInv'
  BY <1>2, DequeueKeeps, FinalizeKeeps, AckKeeps, FailRetryKeeps, FailDeadKeeps
     DEF WorkerStep
<1>3. ASSUME NEW a \in Admins, NEW j \in Jobs, Cancel(a, j)
      PROVE  WorkflowInv'
  BY <1>3, CancelKeeps
<1>4. ASSUME NEW w \in Callers, LoopStep(w)
      PROVE  WorkflowInv'
  BY <1>4, ReadMembersKeeps, LoopDoneKeeps, ResolveRemoveKeeps, CascadeEnvelopeKeeps,
     ResolveCountKeeps, ResolveEnvelopeKeeps, ResolveEnqueueKeeps, CascadeKillKeeps
     DEF LoopStep
<1>5. ASSUME NEW w \in Callers, Crash(w)
      PROVE  WorkflowInv'
  BY <1>5, CrashKeeps
<1>6. CASE AtRest \/ UNCHANGED vars
  BY <1>6, StutterKeeps DEF AtRest
<1> QED
  BY <1>1, <1>2, <1>3, <1>4, <1>5, <1>6 DEF Next

\* The keys and the loops of all callers stay consistent (Ack, Fail, Cancel and their
\* recursive loops over children).
THEOREM WorkflowInvariant == Spec => []WorkflowInv
BY InvAtFirst, WorkflowInvKept, PTL DEF Spec

\* The keys hold sets of jobs, and every stack of calls is one of loops over children.
THEOREM WorkflowTypeCorrect == Spec => []TypeOK
<1>1. WorkflowInv => TypeOK
  BY DEF WorkflowInv
<1> QED
  BY <1>1, WorkflowInvariant, PTL

\* However many calls of Ack, Fail and Cancel resolve and cascade at once, and wherever
\* they are cut off, a job with parents is queued only after they were acknowledged, or
\* after one of them was when another was dead or cancelled.
THEOREM ParentsComeFirst == Spec => []ParentsFirst
<1>1. WorkflowInv => ParentsFirst
  <2> SUFFICES ASSUME WorkflowInv,
                      NEW j \in queue \cup {job[w] : w \in {v \in Workers : pc[v] = "perform"}},
                      Parents[j] # {}
               PROVE  \/ Parents[j] \subseteq processed
                      \/ /\ \E p \in Parents[j] : p \in processed
                         /\ \E p \in Parents[j] : p \in failed
    BY DEF ParentsFirst
  <2>1. Ready(j)
    BY DEF WorkflowInv, KeysOK, CallerOK, Callers
  <2> QED
    BY <2>1 DEF Ready, Settled
<1> QED
  BY <1>1, WorkflowInvariant, PTL

-----------------------------------------------------------------------------
(***************************************************************************)
(* No job is forgotten.  Who reads the children of a job that is settled   *)
(* has all of those that still wait for it before it, until each of them   *)
(* has lost that parent or is dead; and a child whose set of parents       *)
(* becomes empty is in somebody's hands.                                   *)
(***************************************************************************)

Counted == {"scard", "hget", "enqueue"}

\* Loop i of caller w has read the children it is over.
HasRead(w, i) == pc[w] = "members" => i # Len(loops[w])

\* It has all children before it that still wait for its job and are not cut off; and a
\* job that is dealt with inside another loop waits for nobody.
LoopKept(w, i) ==
  /\ HasRead(w, i) =>
       \A j \in Jobs \ cut : loops[w][i].of \in dependencies[j] => j \in loops[w][i].todo
  /\ i > 1 => dependencies[loops[w][i].of] = {}

StackKept(w) ==
  /\ \A i \in 1 .. Len(loops[w]) : LoopKept(w, i)
  /\ pc[w] \in Counted \cup {"kill"} => child[w] \in Top(w).todo
  /\ pc[w] \in Counted => Top(w).of \notin dependencies[child[w]]
  /\ pc[w] = "idle" => job[w] = NoJob

\* A child that waits for p and is not cut off is among p's dependents, and p is enqueued.
PairsKept ==
  \A p \in Jobs, j \in Jobs \ cut :
    p \in dependencies[j] => j \in dependents[p] /\ p \in submitted

OnStack(p) == \E w \in Callers : \E i \in 1 .. Len(loops[w]) : loops[w][i].of = p

\* Whoever still waits for a job that is settled is before a loop, or was.
SettledKept ==
  \A j, p \in Jobs :
    p \in dependencies[j] /\ p \in processed \cup failed => j \in cut \/ OnStack(p)

\* Job j is in the queue, held, or the child a loop is about to enqueue.
Moving(j) ==
  \/ j \in queue
  \/ Held(j)
  \/ \E w \in Callers : pc[w] \in Counted /\ child[w] = j

OpenKept ==
  \A j \in stored \ (processed \cup dead \cup cut) : Moving(j) \/ dependencies[j] # {}

\* What is dead, or was stored and is not any more, has failed; and nothing has a fate
\* before it is enqueued.
FatesKept ==
  /\ dead \subseteq failed
  /\ submitted \ stored \subseteq failed
  /\ processed \cup failed \subseteq submitted

KeptInv ==
  /\ \A w \in Callers : StackKept(w)
  /\ PairsKept /\ SettledKept /\ OpenKept /\ FatesKept

\* Sets of parents only lose members, and what was enqueued or cut off stays so.
DepsShrink ==
  /\ \A j \in Jobs : dependencies'[j] \subseteq dependencies[j]
  /\ submitted \subseteq submitted' /\ cut \subseteq cut'

\* A stack of loops, by position.
LEMMA StackTyped ==
  ASSUME WorkflowInv, NEW w \in Callers
  PROVE  /\ Len(loops[w]) \in Nat
         /\ loops[w] \in Seq(Loops)
         /\ \A i \in 1 .. Len(loops[w]) : loops[w][i] \in Loops /\ loops[w][i].of \in Jobs
         /\ loops[w] # <<>> <=> Len(loops[w]) # 0
         /\ loops[w] = <<>> => Len(loops[w]) = 0
<1>1. loops[w] \in Seq(Loops)
  BY DEF WorkflowInv, TypeOK
<1>2. Len(loops[w]) \in Nat
  BY <1>1, LenProperties
<1>3. \A i \in 1 .. Len(loops[w]) : loops[w][i] \in Loops
  BY <1>1, ElementOfSeq
<1>4. loops[w] # <<>> <=> Len(loops[w]) # 0
  BY <1>1, EmptySeq
<1> QED
  BY <1>1, <1>2, <1>3, <1>4 DEF Loops

\* A new loop on the stack, the others below it.
LEMMA BeginAt ==
  ASSUME WorkflowInv, NEW w \in Callers, NEW mode \in Modes, NEW j \in Jobs,
         Begin(w, mode, j)
  PROVE  /\ Len(loops'[w]) = Len(loops[w]) + 1
         /\ \A i \in 1 .. Len(loops[w]) : loops'[w][i] = loops[w][i]
         /\ loops'[w][Len(loops[w]) + 1].of = j
         /\ pc'[w] = "members"
         /\ \A v \in Callers \ {w} : pc'[v] = pc[v] /\ loops'[v] = loops[v]
<1> DEFINE l == [mode |-> mode, of |-> j, todo |-> {}]
<1>1. loops'[w] = Append(loops[w], l) /\ pc'[w] = "members"
      /\ \A v \in Callers \ {w} : pc'[v] = pc[v] /\ loops'[v] = loops[v]
  BY DEF Begin, WorkflowInv, TypeOK
<1>2. loops[w] \in Seq(Loops) /\ l \in Loops /\ l.of = j
  BY DEF WorkflowInv, TypeOK, Loops
<1> HIDE DEF l
<1>3. /\ Len(Append(loops[w], l)) = Len(loops[w]) + 1
      /\ \A i \in 1 .. Len(loops[w]) : Append(loops[w], l)[i] = loops[w][i]
      /\ Append(loops[w], l)[Len(loops[w]) + 1] = l
  BY <1>2, AppendProperties
<1> QED
  BY <1>1, <1>2, <1>3

\* The innermost loop replaced.
LEMMA WithTopAt ==
  ASSUME WorkflowInv, NEW w \in Callers, loops[w] # <<>>, NEW l \in Loops
  PROVE  /\ Len(WithTop(w, l)[w]) = Len(loops[w])
         /\ \A i \in 1 .. Len(loops[w]) : i # Len(loops[w]) => WithTop(w, l)[w][i] = loops[w][i]
         /\ WithTop(w, l)[w][Len(loops[w])] = l
         /\ \A v \in Callers \ {w} : WithTop(w, l)[v] = loops[v]
<1> DEFINE n == Len(loops[w])
           t == [loops[w] EXCEPT ![n] = l]
<1>1. n \in 1 .. n /\ loops[w] \in Seq(Loops)
  BY StackTyped
<1>2. t \in Seq(Loops) /\ Len(t) = n /\ t[n] = l /\ \A i \in 1 .. n : i # n => t[i] = loops[w][i]
  BY <1>1, ExceptSeq
<1>3. WithTop(w, l) = [loops EXCEPT ![w] = t] /\ loops \in [Callers -> Seq(Loops)]
  BY DEF WithTop, WorkflowInv, TypeOK
<1> HIDE DEF t
<1> QED
  BY <1>2, <1>3

\* The innermost loop gone, and the child it was about taken from the one around it.
LEMMA ReturnAt ==
  ASSUME WorkflowInv, NEW w \in Callers, loops[w] # <<>>, Return(w)
  PROVE  /\ Len(loops'[w]) = Len(loops[w]) - 1
         /\ \A i \in 1 .. Len(loops[w]) - 1 :
              /\ loops'[w][i].of = loops[w][i].of
              /\ loops[w][i].todo \ {Top(w).of} \subseteq loops'[w][i].todo
         /\ \/ Len(loops[w]) = 1 /\ pc'[w] = "idle" /\ job'[w] = NoJob /\ loops'[w] = <<>>
            \/ Len(loops[w]) > 1 /\ pc'[w] = "loop" /\ job' = job
         /\ \A v \in Callers \ {w} : pc'[v] = pc[v] /\ loops'[v] = loops[v] /\ job'[v] = job[v]
<1> DEFINE n == Len(loops[w])
<1>1. n \in Nat \ {0} /\ loops[w] \in Seq(Loops)
  BY StackTyped
<1>2. /\ pc \in [Callers -> Pcs] /\ job \in [Callers -> Jobs \cup {NoJob}]
      /\ loops \in [Callers -> Seq(Loops)]
  BY DEF WorkflowInv, TypeOK
<1>3. CASE n = 1
  <2>1. /\ pc' = [pc EXCEPT ![w] = "idle"]
        /\ job' = [job EXCEPT ![w] = NoJob]
        /\ loops' = [loops EXCEPT ![w] = <<>>]
    BY <1>3 DEF Return
  <2>2. /\ pc'[w] = "idle" /\ job'[w] = NoJob /\ loops'[w] = <<>>
        /\ \A v \in Callers \ {w} : pc'[v] = pc[v] /\ loops'[v] = loops[v] /\ job'[v] = job[v]
    BY <1>2, <2>1
  <2> QED
    BY <1>3, <2>2, EmptySeq
<1>4. CASE n # 1
  <2> DEFINE s == SubSeq(loops[w], 1, n - 1)
             l == [s[n - 1] EXCEPT !.todo = @ \ {Top(w).of}]
             t == [s EXCEPT ![n - 1] = l]
  <2>1. \A i \in 1 .. n - 1 : loops[w][i] \in Loops
    BY StackTyped
  <2>2. /\ s \in Seq(Loops) /\ Len(s) = n - 1 /\ n - 1 \in 1 .. Len(s)
        /\ \A i \in 1 .. n - 1 : s[i] = loops[w][i]
    <3> HIDE DEF n
    <3>1. /\ s \in Seq(Loops)
          /\ Len(s) = IF 1 <= n - 1 THEN (n - 1) - 1 + 1 ELSE 0
          /\ \A i \in 1 .. (n - 1) - 1 + 1 : s[i] = loops[w][1 + i - 1]
      BY <1>1, <2>1, SubSeqProperties
    <3> HIDE DEF s
    <3> QED
      BY <1>1, <1>4, <3>1
  <2>3. s[n - 1] \in Loops
    BY <2>2, ElementOfSeq
  <2> HIDE DEF s
  <2>4. l \in Loops /\ l.of = s[n - 1].of /\ l.todo = s[n - 1].todo \ {Top(w).of}
    BY <2>3 DEF Loops
  <2> HIDE DEF l
  <2>5. /\ t \in Seq(Loops) /\ Len(t) = n - 1 /\ t[n - 1] = l
        /\ \A i \in 1 .. n - 1 : i # n - 1 => t[i] = s[i]
    BY <2>2, <2>4, ExceptSeq
  <2>6. loops' = [loops EXCEPT ![w] = t] /\ pc' = [pc EXCEPT ![w] = "loop"] /\ job' = job
    BY <1>4 DEF Return, l, s
  <2> HIDE DEF t
  <2>7. /\ loops'[w] = t /\ pc'[w] = "loop" /\ job' = job
        /\ \A v \in Callers \ {w} : pc'[v] = pc[v] /\ loops'[v] = loops[v] /\ job'[v] = job[v]
    BY <1>2, <2>6
  <2>8. \A i \in 1 .. n - 1 : /\ t[i].of = loops[w][i].of
                              /\ loops[w][i].todo \ {Top(w).of} \subseteq t[i].todo
    BY <2>2, <2>4, <2>5
  <2>9. Len(loops'[w]) = n - 1
    BY <2>5, <2>7
  <2>10. \A i \in 1 .. n - 1 : /\ loops'[w][i].of = loops[w][i].of
                               /\ loops[w][i].todo \ {Top(w).of} \subseteq loops'[w][i].todo
    BY <2>7, <2>8
  <2>11. n > 1
    <3> HIDE DEF n
    <3>1. n \in Nat \ {0}
      BY <1>1
    <3> QED
      BY <1>4, <3>1
  <2> QED
    BY <2>7, <2>9, <2>10, <2>11
<1> QED
  BY <1>3, <1>4

\* What the callers but w see of their calls.
OthersSame(w) ==
  \A v \in Callers \ {w} : /\ pc'[v] = pc[v] /\ job'[v] = job[v]
                           /\ loops'[v] = loops[v] /\ child'[v] = child[v]

\* The loops of w are over the same jobs, with perhaps one more on top.
SameOf(w) ==
  \A i \in 1 .. Len(loops[w]) : /\ i \in 1 .. Len(loops'[w])
                                /\ loops'[w][i].of = loops[w][i].of

\* A step of one caller leaves the loops of the others right.
LEMMA OthersKept ==
  ASSUME WorkflowInv, KeptInv, DepsShrink, NEW w \in Callers, OthersSame(w), StackKept(w)'
  PROVE  \A v \in Callers : StackKept(v)'
<1> SUFFICES ASSUME NEW v \in Callers \ {w}
             PROVE  StackKept(v)'
  OBVIOUS
<1>1. /\ pc'[v] = pc[v] /\ job'[v] = job[v] /\ loops'[v] = loops[v] /\ child'[v] = child[v]
      /\ StackKept(v)
  BY DEF OthersSame, KeptInv
<1>2. \A i \in 1 .. Len(loops[v]) : loops[v][i].of \in Jobs
  BY StackTyped
<1>3. pc[v] \in Counted => child[v] \in Jobs
  BY DEF WorkflowInv, TypeOK, CallerOK, Counted, Children
<1>4. ASSUME NEW i \in 1 .. Len(loops[v])
      PROVE  LoopKept(v, i)'
  <2>1. LoopKept(v, i) /\ loops[v][i].of \in Jobs
    BY <1>1, <1>2 DEF StackKept
  <2> QED
    BY <1>1, <2>1 DEF LoopKept, HasRead, DepsShrink
<1>5. pc'[v] \in Counted => Top(v)'.of \notin dependencies'[child'[v]]
  BY <1>1, <1>3 DEF StackKept, Top, DepsShrink
<1> QED
  BY <1>1, <1>4, <1>5 DEF StackKept, Top

\* Jobs stay on the stacks of loops.
LEMMA OnStackKept ==
  ASSUME NEW w \in Callers, OthersSame(w), SameOf(w)
  PROVE  \A p \in Jobs : OnStack(p) => OnStack(p)'
<1> SUFFICES ASSUME NEW p \in Jobs, NEW v \in Callers, NEW i \in 1 .. Len(loops[v]),
                    loops[v][i].of = p
             PROVE  OnStack(p)'
  BY DEF OnStack
<1>1. CASE v = w
  BY <1>1 DEF SameOf, OnStack
<1>2. CASE v # w
  BY <1>2 DEF OthersSame, OnStack
<1> QED
  BY <1>1, <1>2

\* Those who wait for a settled job stay before a loop, unless they are cut off.
LEMMA SettledStays ==
  ASSUME KeptInv, DepsShrink,
         \A p \in Jobs : p \in processed' \cup failed' => p \in processed \cup failed \/ OnStack(p)',
         \A p \in Jobs : OnStack(p) =>
           OnStack(p)' \/ \A j \in Jobs : p \in dependencies'[j] => j \in cut'
  PROVE  SettledKept'
<1> SUFFICES ASSUME NEW j \in Jobs, NEW p \in Jobs, p \in dependencies'[j],
                    p \in processed' \cup failed'
             PROVE  j \in cut' \/ OnStack(p)'
  BY DEF SettledKept
<1>1. p \in dependencies[j]
  BY DEF DepsShrink
<1>2. CASE p \in processed \cup failed
  <2>1. j \in cut \/ OnStack(p)
    BY <1>1, <1>2 DEF KeptInv, SettledKept
  <2> QED
    BY <2>1 DEF DepsShrink
<1>3. CASE OnStack(p)'
  BY <1>3
<1> QED
  BY <1>2, <1>3

\* The pairs hold as long as only sets of parents lose members.
LEMMA PairsStay ==
  ASSUME KeptInv, DepsShrink, UNCHANGED dependents
  PROVE  PairsKept'
BY DEF KeptInv, PairsKept, DepsShrink

\* Nothing is taken from the sets of parents.
LEMMA SameDeps ==
  ASSUME UNCHANGED <<submitted, dependencies>>, cut \subseteq cut'
  PROVE  DepsShrink
BY DEF DepsShrink

\* The keys are empty at first, and nobody is in a call.
LEMMA KeptAtFirst == Init => KeptInv
<1> SUFFICES ASSUME Init
             PROVE  KeptInv
  OBVIOUS
<1>1. \A w \in Callers : loops[w] = <<>> /\ pc[w] = "idle" /\ job[w] = NoJob
  BY DEF Init
<1>2. Len(<<>>) = 0
  BY EmptySeq
<1>3. \A w \in Callers : StackKept(w)
  BY <1>1, <1>2 DEF StackKept, Counted
<1> QED
  BY <1>3 DEF KeptInv, Init, PairsKept, SettledKept, OpenKept, FatesKept

\* EnqueueWorkflow: every child is among the dependents of its parents, a job is queued
\* or has parents to wait for, and one whose parent is at its end is noted.
LEMMA EnqueueWorkflowStays ==
  ASSUME WorkflowInv, KeptInv, NEW js \in Workflows, EnqueueWorkflow(js)
  PROVE  KeptInv'
<1> USE DEF EnqueueWorkflow, call
<1>1. /\ js \subseteq Jobs /\ js \cap submitted = {}
      /\ stored \subseteq submitted /\ processed \cup failed \subseteq submitted
      /\ \A j \in Jobs \ js : dependencies'[j] = dependencies[j]
      /\ \A j \in js : dependencies'[j] = Parents[j]
  BY WorkflowAssumption DEF KeptInv, FatesKept, WorkflowInv, KeysOK
<1>2. \A j \in js : \A p \in processed \cup failed : p \in Parents[j] => j \in cut'
  BY <1>1 DEF Open
<1>3. ASSUME NEW w \in Callers, NEW i \in 1 .. Len(loops[w])
      PROVE  loops[w][i].of \in processed \cup failed /\ loops[w][i].of \in Jobs
  <2>1. loops[w] \in Seq(GoodLoops)
    BY DEF WorkflowInv, CallerOK
  <2>2. loops[w][i] \in GoodLoops
    BY <2>1, ElementOfSeq
  <2> QED
    BY <2>2 DEF GoodLoops, Loops, Modes
<1>4. ASSUME NEW w \in Callers
      PROVE  StackKept(w)'
  <2>1. StackKept(w)
    BY DEF KeptInv
  <2>2. ASSUME NEW i \in 1 .. Len(loops[w])
        PROVE  LoopKept(w, i)'
    <3> DEFINE p == loops[w][i].of
    <3>1. LoopKept(w, i) /\ p \in processed \cup failed /\ p \in Jobs
      BY <1>3, <2>1 DEF StackKept
    <3>2. \A j \in Jobs \ cut' : p \in dependencies'[j] => p \in dependencies[j]
      BY <1>1, <1>2, <3>1
    <3>3. dependencies'[p] = dependencies[p]
      BY <1>1, <3>1
    <3> QED
      BY <3>1, <3>2, <3>3 DEF LoopKept, HasRead
  <2>3. pc[w] \in Counted => child[w] \in submitted /\ child[w] \in Jobs
    BY DEF WorkflowInv, TypeOK, CallerOK, Counted, Children
  <2>4. pc[w] \in Counted => dependencies'[child[w]] = dependencies[child[w]]
    BY <1>1, <2>3
  <2> QED
    BY <2>1, <2>2, <2>4 DEF StackKept, Top
<1>5. PairsKept'
  BY <1>1 DEF PairsKept, KeptInv, Open
<1>6. \A p : OnStack(p) => OnStack(p)'
  BY DEF OnStack
<1>7. SettledKept'
  BY <1>1, <1>2, <1>6 DEF SettledKept, KeptInv
<1>8. \A k \in Jobs : Moving(k) => Moving(k)'
  BY DEF Moving, Held
<1>9. ASSUME NEW k \in stored' \ (processed' \cup dead' \cup cut')
      PROVE  Moving(k)' \/ dependencies'[k] # {}
  <2>1. CASE k \in js
    BY <1>1, <2>1 DEF Moving
  <2>2. CASE k \notin js
    BY <1>1, <1>8, <2>2 DEF KeptInv, OpenKept, WorkflowInv, TypeOK
  <2> QED
    BY <2>1, <2>2
<1>10. FatesKept'
  BY <1>1 DEF KeptInv, FatesKept
<1> QED
  BY <1>4, <1>5, <1>7, <1>9, <1>10 DEF KeptInv, OpenKept

\* A step of w takes a job out of the queue, out of its own hands, or nobody's.
LEMMA MovingKept ==
  ASSUME NEW w \in Callers, OthersSame(w), NEW k \in Jobs, Moving(k)
  PROVE  \/ Moving(k)'
         \/ k \in queue /\ k \notin queue'
         \/ w \in Workers /\ job[w] = k /\ loops[w] = <<>>
         \/ pc[w] \in Counted /\ child[w] = k
<1>1. CASE k \in queue
  BY <1>1 DEF Moving
<1>2. ASSUME NEW v \in Workers, v # w, job[v] = k, loops[v] = <<>>
      PROVE  Moving(k)'
  BY <1>2 DEF Moving, Held, OthersSame, Callers
<1>3. ASSUME NEW v \in Callers, v # w, pc[v] \in Counted, child[v] = k
      PROVE  Moving(k)'
  BY <1>3 DEF Moving, OthersSame
<1> QED
  BY <1>1, <1>2, <1>3 DEF Moving, Held

\* Dequeue: the job goes from the queue into the hands of a worker that had none.
LEMMA DequeueStays ==
  ASSUME WorkflowInv, KeptInv, NEW w \in Workers, NEW j \in Jobs, Dequeue(w, j)
  PROVE  KeptInv'
<1> USE DEF Dequeue, notes
<1>1. w \in Callers /\ DepsShrink /\ job[w] = NoJob /\ loops[w] = <<>>
  BY SameDeps DEF Callers, WorkflowInv, CallerOK, InLoop, KeptInv, StackKept
<1>2. /\ pc'[w] = "perform" /\ job'[w] = j /\ loops' = loops /\ child' = child
      /\ OthersSame(w)
  BY <1>1 DEF WorkflowInv, TypeOK, OthersSame
<1>3. Len(<<>>) = 0
  BY EmptySeq
<1>4. StackKept(w)'
  BY <1>1, <1>2, <1>3 DEF StackKept, Counted
<1>5. \A v \in Callers : StackKept(v)'
  BY <1>1, <1>2, <1>4, OthersKept
<1>6. \A p \in Jobs : OnStack(p) => OnStack(p)'
  BY <1>2 DEF OnStack
<1>7. SettledKept'
  BY <1>1, <1>6, SettledStays
<1>8. ASSUME NEW k \in Jobs, Moving(k)
      PROVE  Moving(k)'
  <2>1. job[w] # k /\ pc[w] \notin Counted
    BY <1>1, WorkflowAssumption DEF Counted
  <2>2. CASE k = j
    BY <1>1, <1>2, <2>2 DEF Moving, Held
  <2>3. CASE k # j
    BY <1>1, <1>2, <1>8, <2>1, <2>3, MovingKept
  <2> QED
    BY <2>2, <2>3
<1>9. OpenKept'
  BY <1>8 DEF OpenKept, KeptInv, WorkflowInv, TypeOK
<1> QED
  BY <1>1, <1>5, <1>7, <1>9, PairsStay DEF KeptInv, FatesKept

\* A step of a caller that is in no loop, and begins none.
LEMMA LightStays ==
  ASSUME WorkflowInv, KeptInv, NEW w \in Callers, OthersSame(w),
         loops[w] = <<>>, UNCHANGED <<submitted, loops, dependencies, dependents, cut>>,
         pc'[w] \notin Counted \cup {"kill"}, pc'[w] = "idle" => job'[w] = NoJob,
         \A p \in Jobs : p \in processed' \cup failed' => p \in processed \cup failed
  PROVE  (\A v \in Callers : StackKept(v)') /\ PairsKept' /\ SettledKept'
<1>1. DepsShrink
  BY SameDeps
<1>2. Len(<<>>) = 0
  BY EmptySeq
<1>3. StackKept(w)'
  BY <1>2 DEF StackKept, Counted
<1>4. \A p \in Jobs : OnStack(p) => OnStack(p)'
  BY DEF OnStack
<1> QED
  BY <1>1, <1>3, <1>4, OthersKept, SettledStays, PairsStay

\* A call begins a loop: it has not read the children yet, but the job is on the stack.
LEMMA BeginStays ==
  ASSUME WorkflowInv, KeptInv, DepsShrink, NEW w \in Callers, OthersSame(w),
         NEW mode \in Modes, NEW j \in Jobs, Begin(w, mode, j),
         pc[w] # "members", loops[w] = <<>> \/ dependencies'[j] = {},
         UNCHANGED <<dependents, cut>>,
         \A p \in Jobs : p \in processed' \cup failed' => p \in processed \cup failed \cup {j}
  PROVE  (\A v \in Callers : StackKept(v)') /\ PairsKept' /\ SettledKept'
<1>1. PICK n \in Nat : n = Len(loops[w]) /\ (loops[w] = <<>> => n = 0)
  BY StackTyped
<1>2. /\ Len(loops'[w]) = n + 1
      /\ \A i \in 1 .. n : loops'[w][i] = loops[w][i]
      /\ loops'[w][n + 1].of = j
      /\ pc'[w] = "members"
  BY <1>1, BeginAt
<1>3. StackKept(w)
  BY DEF KeptInv
<1>4. \A i \in 1 .. n : LoopKept(w, i) /\ loops[w][i].of \in Jobs
  BY <1>1, <1>3, StackTyped DEF StackKept
<1>5. ASSUME NEW i \in 1 .. n
      PROVE  LoopKept(w, i)'
  <2>1. LoopKept(w, i) /\ loops[w][i].of \in Jobs /\ loops'[w][i] = loops[w][i]
    BY <1>2, <1>4
  <2>2. HasRead(w, i)
    BY DEF HasRead
  <2> QED
    BY <2>1, <2>2 DEF LoopKept, DepsShrink
<1>6. LoopKept(w, n + 1)'
  <2>1. ~HasRead(w, n + 1)'
    BY <1>2 DEF HasRead
  <2>2. n + 1 > 1 => dependencies'[j] = {}
    BY <1>1
  <2> QED
    BY <1>2, <2>1, <2>2 DEF LoopKept
<1>7. \A i \in 1 .. n + 1 : i \in 1 .. n \/ i = n + 1
  OBVIOUS
<1>8. StackKept(w)'
  BY <1>2, <1>5, <1>6, <1>7 DEF StackKept, Counted
<1>9. 1 .. n \subseteq 1 .. n + 1 /\ n + 1 \in 1 .. n + 1
  OBVIOUS
<1>10. SameOf(w)
  BY <1>1, <1>2, <1>9 DEF SameOf
<1>11. OnStack(j)'
  BY <1>2, <1>9 DEF OnStack
<1> QED
  BY <1>8, <1>10, <1>11, OthersKept, OnStackKept, SettledStays, PairsStay

\* Finalize: a job without an envelope is given up, and nobody asks for it any more.
LEMMA FinalizeStays ==
  ASSUME WorkflowInv, KeptInv, NEW w \in Workers, Finalize(w)
  PROVE  KeptInv'
<1> USE DEF Finalize, keys, notes
<1>1. w \in Callers /\ loops[w] = <<>> /\ pc[w] \notin Counted
  BY DEF Callers, WorkflowInv, CallerOK, InLoop, Counted
<1>2. /\ OthersSame(w)
      /\ \/ pc'[w] \in {"ack", "fail"} /\ job'[w] = job[w]
         \/ pc'[w] = "idle" /\ job'[w] = NoJob /\ job[w] \notin stored
  BY <1>1 DEF WorkflowInv, TypeOK, OthersSame
<1>3. (\A v \in Callers : StackKept(v)') /\ PairsKept' /\ SettledKept'
  BY <1>1, <1>2, LightStays DEF Counted
<1>4. ASSUME NEW k \in stored, k \in Jobs, Moving(k)
      PROVE  Moving(k)'
  <2>1. CASE job[w] = k
    BY <1>1, <1>2, <2>1 DEF Moving, Held
  <2>2. CASE job[w] # k
    BY <1>1, <1>2, <1>4, <2>2, MovingKept
  <2> QED
    BY <2>1, <2>2
<1>5. OpenKept'
  BY <1>4 DEF OpenKept, KeptInv, WorkflowInv, TypeOK
<1> QED
  BY <1>3, <1>5 DEF KeptInv, FatesKept

\* FailRetry: the job goes back to the queue.
LEMMA FailRetryStays ==
  ASSUME WorkflowInv, KeptInv, NEW w \in Workers, FailRetry(w)
  PROVE  KeptInv'
<1> USE DEF FailRetry, notes
<1>1. w \in Callers /\ loops[w] = <<>> /\ pc[w] \notin Counted /\ job[w] \in Jobs /\ job[w] \in submitted
  BY DEF Callers, WorkflowInv, TypeOK, CallerOK, InLoop, Counted
<1>2. OthersSame(w) /\ pc'[w] = "idle" /\ job'[w] = NoJob
  BY <1>1 DEF WorkflowInv, TypeOK, OthersSame
<1>3. (\A v \in Callers : StackKept(v)') /\ PairsKept' /\ SettledKept'
  BY <1>1, <1>2, LightStays DEF Counted
<1>4. ASSUME NEW k \in Jobs, Moving(k)
      PROVE  Moving(k)'
  <2>1. CASE job[w] = k
    BY <2>1 DEF Moving
  <2>2. CASE job[w] # k
    BY <1>1, <1>2, <1>4, <2>2, MovingKept
  <2> QED
    BY <2>1, <2>2
<1>5. \A k \in Jobs : k = job[w] => Moving(k)'
  BY DEF Moving
<1>6. ASSUME NEW k \in stored' \ (processed' \cup dead' \cup cut')
      PROVE  Moving(k)' \/ dependencies'[k] # {}
  <2>1. k \in Jobs
    BY <1>1 DEF WorkflowInv, TypeOK
  <2>2. k # job[w] => Moving(k) \/ dependencies[k] # {}
    BY DEF KeptInv, OpenKept
  <2> QED
    BY <1>4, <1>5, <2>1, <2>2
<1>7. FatesKept'
  BY <1>1 DEF KeptInv, FatesKept
<1> QED
  BY <1>3, <1>6, <1>7 DEF KeptInv, OpenKept

\* Ack: the job is processed, and the loop over its children begins.
LEMMA AckStays ==
  ASSUME WorkflowInv, KeptInv, NEW w \in Workers, Ack(w)
  PROVE  KeptInv'
<1> USE DEF Ack, notes
<1>1. /\ w \in Callers /\ loops[w] = <<>> /\ pc[w] \notin Counted /\ job[w] \in Jobs
      /\ job[w] \in submitted /\ DepsShrink
  BY SameDeps DEF Callers, WorkflowInv, TypeOK, CallerOK, InLoop, Counted
<1>2. OthersSame(w)
  BY <1>1 DEF WorkflowInv, TypeOK, OthersSame, Begin
<1>3. (\A v \in Callers : StackKept(v)') /\ PairsKept' /\ SettledKept'
  BY <1>1, <1>2, BeginStays DEF Modes
<1>4. ASSUME NEW k \in stored' \ (processed' \cup dead' \cup cut')
      PROVE  Moving(k)' \/ dependencies'[k] # {}
  <2>1. k \in Jobs /\ k # job[w] /\ (Moving(k) \/ dependencies[k] # {})
    BY DEF KeptInv, OpenKept, WorkflowInv, TypeOK
  <2> QED
    BY <1>1, <1>2, <2>1, MovingKept
<1>5. FatesKept'
  BY <1>1 DEF KeptInv, FatesKept
<1> QED
  BY <1>3, <1>4, <1>5 DEF KeptInv, OpenKept

\* FailDead: the job is dead, and the loop over its children begins.
LEMMA FailDeadStays ==
  ASSUME WorkflowInv, KeptInv, NEW w \in Workers, FailDead(w)
  PROVE  KeptInv'
<1> USE DEF FailDead
<1>1. /\ w \in Callers /\ loops[w] = <<>> /\ pc[w] \notin Counted /\ job[w] \in Jobs
      /\ job[w] \in submitted /\ DepsShrink
  BY SameDeps DEF Callers, WorkflowInv, TypeOK, CallerOK, InLoop, Counted
<1>2. OthersSame(w)
  BY <1>1 DEF WorkflowInv, TypeOK, OthersSame, Begin
<1>3. (\A v \in Callers : StackKept(v)') /\ PairsKept' /\ SettledKept'
  BY <1>1, <1>2, BeginStays DEF Modes
<1>4. ASSUME NEW k \in stored' \ (processed' \cup dead' \cup cut')
      PROVE  Moving(k)' \/ dependencies'[k] # {}
  <2>1. k \in Jobs /\ k # job[w] /\ (Moving(k) \/ dependencies[k] # {})
    BY DEF KeptInv, OpenKept, WorkflowInv, TypeOK
  <2> QED
    BY <1>1, <1>2, <2>1, MovingKept
<1>5. FatesKept'
  BY <1>1 DEF KeptInv, FatesKept
<1> QED
  BY <1>3, <1>4, <1>5 DEF KeptInv, OpenKept

\* Cancel: the job loses its envelope, and the loop over its children begins.
LEMMA CancelStays ==
  ASSUME WorkflowInv, KeptInv, NEW a \in Admins, NEW j \in Jobs, Cancel(a, j)
  PROVE  KeptInv'
<1> USE DEF Cancel
<1>1. /\ a \in Callers /\ a \notin Workers /\ loops[a] = <<>> /\ pc[a] \notin Counted
      /\ j \in submitted /\ DepsShrink
  BY SameDeps, WorkflowAssumption DEF Callers, WorkflowInv, CallerOK, InLoop, Counted, KeysOK
<1>2. OthersSame(a)
  BY <1>1 DEF WorkflowInv, TypeOK, OthersSame, Begin
<1>3. (\A v \in Callers : StackKept(v)') /\ PairsKept' /\ SettledKept'
  BY <1>1, <1>2, BeginStays DEF Modes
<1>4. ASSUME NEW k \in stored' \ (processed' \cup dead' \cup cut')
      PROVE  Moving(k)' \/ dependencies'[k] # {}
  <2>1. k \in Jobs /\ k # j /\ (Moving(k) \/ dependencies[k] # {})
    BY DEF KeptInv, OpenKept, FatesKept, WorkflowInv, TypeOK
  <2> QED
    BY <1>1, <1>2, <2>1, MovingKept
<1>5. FatesKept'
  BY <1>1 DEF KeptInv, FatesKept
<1> QED
  BY <1>3, <1>4, <1>5 DEF KeptInv, OpenKept

\* CascadeKill: the child is dead and waits for nobody, and the loop over its own
\* children begins inside the one around it.
LEMMA CascadeKillStays ==
  ASSUME WorkflowInv, KeptInv, NEW w \in Callers, CascadeKill(w)
  PROVE  KeptInv'
<1> USE DEF CascadeKill
<1>1. /\ loops[w] # <<>> /\ pc[w] \notin Counted /\ child[w] \in Jobs /\ child[w] \in submitted
  BY TopGood DEF WorkflowInv, TypeOK, CallerOK, InLoop, Counted, Children
<1>2. OthersSame(w) /\ DepsShrink /\ dependencies'[child[w]] = {}
      /\ \A j \in Jobs : j # child[w] => dependencies'[j] = dependencies[j]
  BY <1>1 DEF WorkflowInv, TypeOK, OthersSame, Begin, DepsShrink
<1>3. (\A v \in Callers : StackKept(v)') /\ PairsKept' /\ SettledKept'
  BY <1>1, <1>2, BeginStays DEF Modes
<1>4. ASSUME NEW k \in stored' \ (processed' \cup dead' \cup cut')
      PROVE  Moving(k)' \/ dependencies'[k] # {}
  <2>1. k \in Jobs /\ k # child[w] /\ (Moving(k) \/ dependencies[k] # {})
    BY DEF KeptInv, OpenKept, WorkflowInv, TypeOK
  <2> QED
    BY <1>1, <1>2, <2>1, MovingKept
<1>5. FatesKept'
  BY <1>1 DEF KeptInv, FatesKept
<1> QED
  BY <1>3, <1>4, <1>5 DEF KeptInv, OpenKept

\* Whoever still waits for a job on a caller's stack is ahead of that caller, and so is
\* the child that it is about to enqueue.
LEMMA AheadHolds ==
  ASSUME WorkflowInv, KeptInv, NEW w \in Callers
  PROVE  /\ \A i \in 1 .. Len(loops[w]) : \A j \in Jobs \ cut :
              loops[w][i].of \in dependencies[j] => j \in Ahead(w)
         /\ pc[w] \in Counted => child[w] \in Ahead(w)
<1>1. DOMAIN loops[w] = 1 .. Len(loops[w])
  BY StackTyped, LenProperties
<1>2. \A i \in 1 .. Len(loops[w]) : loops[w][i].todo \subseteq Ahead(w)
  BY <1>1 DEF Ahead
<1>3. StackKept(w)
  BY DEF KeptInv
<1>4. ASSUME NEW i \in 1 .. Len(loops[w]), NEW j \in Jobs \ cut, loops[w][i].of \in dependencies[j]
      PROVE  j \in Ahead(w)
  <2>1. CASE HasRead(w, i)
    BY <1>2, <1>3, <1>4, <2>1 DEF StackKept, LoopKept
  <2>2. CASE ~HasRead(w, i)
    <3>1. pc[w] = "members" /\ loops[w][i] = Top(w)
      BY <2>2 DEF HasRead, Top
    <3>2. loops[w][i].of \in Jobs
      BY StackTyped
    <3>3. j \in dependents[Top(w).of]
      BY <1>4, <3>1, <3>2 DEF KeptInv, PairsKept
    <3> QED
      BY <3>1, <3>3 DEF Ahead
  <2> QED
    BY <2>1, <2>2
<1>5. ASSUME pc[w] \in Counted
      PROVE  child[w] \in Ahead(w)
  <2>1. loops[w] # <<>>
    BY <1>5, TopGood DEF Counted, InLoop
  <2>2. Len(loops[w]) \in 1 .. Len(loops[w])
    BY <2>1, StackTyped
  <2> QED
    BY <1>2, <1>3, <1>5, <2>2 DEF StackKept, Top
<1> QED
  BY <1>4, <1>5

\* A call that ends in the middle: all children that it has not dealt with are cut off.
LEMMA AbandonStays ==
  ASSUME WorkflowInv, KeptInv, NEW w \in Callers, NEW next \in {"idle", "off"},
         Abandon(w, next), UNCHANGED <<submitted, keys, failed>>,
         \/ next = "idle" /\ loops[w] # <<>> /\ job' = [job EXCEPT ![w] = NoJob]
         \/ next = "off" /\ job' = job
  PROVE  KeptInv'
<1> USE DEF Abandon, keys
<1>1. DepsShrink
  BY SameDeps
<1>2. /\ OthersSame(w) /\ pc'[w] = next /\ loops'[w] = <<>>
      /\ next = "idle" => job'[w] = NoJob
      /\ next = "off" => job'[w] = job[w]
  BY DEF WorkflowInv, TypeOK, OthersSame
<1>3. Len(<<>>) = 0
  BY EmptySeq
<1>4. StackKept(w)'
  BY <1>2, <1>3 DEF StackKept, Counted
<1>5. \A v \in Callers : StackKept(v)'
  BY <1>1, <1>2, <1>4, OthersKept
<1>6. ASSUME NEW p \in Jobs, NEW v \in Callers, NEW i \in 1 .. Len(loops[v]), loops[v][i].of = p
      PROVE  OnStack(p)' \/ \A j \in Jobs : p \in dependencies'[j] => j \in cut'
  <2>1. CASE v = w
    BY <1>6, <2>1, AheadHolds
  <2>2. CASE v # w
    BY <1>2, <1>6, <2>2 DEF OthersSame, OnStack
  <2> QED
    BY <2>1, <2>2
<1>7. SettledKept'
  <2>1. \A p \in Jobs : OnStack(p) =>
          OnStack(p)' \/ \A j \in Jobs : p \in dependencies'[j] => j \in cut'
    BY <1>6 DEF OnStack
  <2> QED
    BY <1>1, <2>1, SettledStays
<1>8. ASSUME NEW k \in stored' \ (processed' \cup dead' \cup cut')
      PROVE  Moving(k)' \/ dependencies'[k] # {}
  <2>1. k \in Jobs /\ k \notin Ahead(w) /\ (Moving(k) \/ dependencies[k] # {})
    BY DEF KeptInv, OpenKept, WorkflowInv, TypeOK
  <2>2. ~(pc[w] \in Counted /\ child[w] = k)
    BY <2>1, AheadHolds
  <2>3. ASSUME w \in Workers, job[w] = k, loops[w] = <<>>
        PROVE  Moving(k)'
    BY <1>2, <2>3 DEF Moving, Held
  <2> QED
    BY <1>2, <2>1, <2>2, <2>3, MovingKept
<1> QED
  BY <1>1, <1>5, <1>7, <1>8, PairsStay DEF KeptInv, OpenKept, FatesKept

\* Crash.
LEMMA CrashStays ==
  ASSUME WorkflowInv, KeptInv, NEW w \in Callers, Crash(w)
  PROVE  KeptInv'
BY AbandonStays DEF Crash

\* The innermost loop ends: nobody waits for its job any more, and the job, when it was
\* itself a child of the loop around, waits for nobody.
LEMMA ReturnStays ==
  ASSUME WorkflowInv, KeptInv, NEW w \in Callers, pc[w] \in {"members", "loop"}, Return(w),
         UNCHANGED <<submitted, stored, queue, processed, dead, dependencies, child, notes>>,
         \A p \in Jobs : p # Top(w).of => dependents'[p] = dependents[p],
         \A j \in Jobs \ cut : Top(w).of \notin dependencies[j]
  PROVE  KeptInv'
<1> USE DEF notes
<1>1. loops[w] # <<>> /\ pc[w] \notin Counted /\ DepsShrink /\ Top(w).of \in Jobs
  BY SameDeps, TopGood DEF InLoop, Counted
<1>2. PICK n \in Nat : n = Len(loops[w]) /\ n # 0
  BY <1>1, StackTyped
<1>3. /\ Len(loops'[w]) = n - 1
      /\ \A i \in 1 .. n - 1 : /\ loops'[w][i].of = loops[w][i].of
                               /\ loops[w][i].todo \ {Top(w).of} \subseteq loops'[w][i].todo
      /\ \/ n = 1 /\ pc'[w] = "idle" /\ job'[w] = NoJob
         \/ n > 1 /\ pc'[w] = "loop"
      /\ \A v \in Callers \ {w} : pc'[v] = pc[v] /\ loops'[v] = loops[v] /\ job'[v] = job[v]
  BY <1>1, <1>2, ReturnAt
<1>4. OthersSame(w)
  BY <1>3 DEF OthersSame
<1>5. StackKept(w) /\ \A i \in 1 .. n : LoopKept(w, i) /\ loops[w][i].of \in Jobs
  BY <1>2, StackTyped DEF KeptInv, StackKept
<1>6. ASSUME NEW i \in 1 .. n - 1
      PROVE  LoopKept(w, i)'
  <2>1. i \in 1 .. n /\ n \in 1 .. n /\ i # n /\ n > 1
    BY <1>2
  <2>2. HasRead(w, i) /\ LoopKept(w, i) /\ LoopKept(w, n) /\ loops[w][n] = Top(w)
    BY <1>2, <1>5, <2>1 DEF HasRead, Top
  <2>3. dependencies[Top(w).of] = {}
    BY <2>1, <2>2 DEF LoopKept
  <2>4. /\ loops'[w][i].of = loops[w][i].of
        /\ loops[w][i].todo \ {Top(w).of} \subseteq loops'[w][i].todo
    BY <1>3
  <2>5. \A j \in Jobs \ cut : loops[w][i].of \in dependencies[j] => j \in loops'[w][i].todo
    BY <2>2, <2>3, <2>4 DEF LoopKept
  <2> QED
    BY <2>2, <2>4, <2>5 DEF LoopKept
<1>7. StackKept(w)'
  BY <1>3, <1>6 DEF StackKept, Counted
<1>8. \A v \in Callers : StackKept(v)'
  BY <1>1, <1>4, <1>7, OthersKept
<1>9. PairsKept'
  BY DEF KeptInv, PairsKept
<1>10. ASSUME NEW p \in Jobs, NEW v \in Callers, NEW i \in 1 .. Len(loops[v]), loops[v][i].of = p
       PROVE  OnStack(p)' \/ \A j \in Jobs : p \in dependencies'[j] => j \in cut'
  <2>1. CASE v = w /\ i = n
    BY <1>2, <1>10, <2>1 DEF Top
  <2>2. CASE v = w /\ i # n
    <3>1. i \in 1 .. n - 1
      BY <1>2, <2>2
    <3> QED
      BY <1>3, <1>10, <2>2, <3>1 DEF OnStack
  <2>3. CASE v # w
    BY <1>4, <1>10, <2>3 DEF OthersSame, OnStack
  <2> QED
    BY <2>1, <2>2, <2>3
<1>11. SettledKept'
  <2>1. \A p \in Jobs : OnStack(p) =>
          OnStack(p)' \/ \A j \in Jobs : p \in dependencies'[j] => j \in cut'
    BY <1>10 DEF OnStack
  <2> QED
    BY <1>1, <2>1, SettledStays
<1>12. ASSUME NEW k \in stored' \ (processed' \cup dead' \cup cut')
       PROVE  Moving(k)' \/ dependencies'[k] # {}
  <2>1. k \in Jobs /\ (Moving(k) \/ dependencies[k] # {})
    BY DEF KeptInv, OpenKept, WorkflowInv, TypeOK
  <2> QED
    BY <1>1, <1>4, <2>1, MovingKept
<1> QED
  BY <1>8, <1>9, <1>11, <1>12 DEF KeptInv, OpenKept, FatesKept

\* LoopDone: every child was before the loop, and all are dealt with.
LEMMA LoopDoneStays ==
  ASSUME WorkflowInv, KeptInv, NEW w \in Callers, LoopDone(w)
  PROVE  KeptInv'
<1> USE DEF LoopDone
<1>1. loops[w] # <<>> /\ Top(w).of \in Jobs
  BY TopGood DEF InLoop
<1>2. Len(loops[w]) \in 1 .. Len(loops[w])
  BY <1>1, StackTyped
<1>3. LoopKept(w, Len(loops[w])) /\ HasRead(w, Len(loops[w]))
  BY <1>2 DEF KeptInv, StackKept, HasRead
<1>4. \A j \in Jobs \ cut : Top(w).of \notin dependencies[j]
  BY <1>3 DEF LoopKept, Top
<1>5. \A p \in Jobs : p # Top(w).of => dependents'[p] = dependents[p]
  BY DEF WorkflowInv, TypeOK
<1> QED
  BY <1>4, <1>5, ReturnStays

\* The innermost loop is replaced by one over the same job that has every child before
\* it that still waits.
LEMMA TopStays ==
  ASSUME WorkflowInv, KeptInv, DepsShrink, NEW w \in Callers, loops[w] # <<>>,
         NEW l \in Loops, l.of = Top(w).of, loops' = WithTop(w, l), pc'[w] = "loop",
         OthersSame(w), UNCHANGED <<dependents, cut, processed, failed>>,
         \A j \in Jobs \ cut : l.of \in dependencies'[j] => j \in l.todo
  PROVE  (\A v \in Callers : StackKept(v)') /\ PairsKept' /\ SettledKept'
<1>1. PICK n \in Nat : n = Len(loops[w]) /\ n # 0
  BY StackTyped
<1>2. /\ Len(loops'[w]) = n
      /\ \A i \in 1 .. n : i # n => loops'[w][i] = loops[w][i]
      /\ loops'[w][n] = l
  BY <1>1, WithTopAt
<1>3. StackKept(w) /\ \A i \in 1 .. n : LoopKept(w, i) /\ loops[w][i].of \in Jobs
  BY <1>1, StackTyped DEF KeptInv, StackKept
<1>4. ASSUME NEW i \in 1 .. n
      PROVE  LoopKept(w, i)'
  <2>1. CASE i = n
    <3>1. LoopKept(w, i) /\ loops[w][i] = Top(w) /\ Top(w).of \in Jobs
      BY <1>1, <1>3, <2>1 DEF Top
    <3>2. i > 1 => dependencies'[l.of] = {}
      BY <3>1 DEF LoopKept, DepsShrink
    <3> QED
      BY <1>2, <2>1, <3>2 DEF LoopKept
  <2>2. CASE i # n
    <3>1. LoopKept(w, i) /\ HasRead(w, i) /\ loops'[w][i] = loops[w][i] /\ loops[w][i].of \in Jobs
      BY <1>1, <1>2, <1>3, <2>2 DEF HasRead
    <3> QED
      BY <3>1 DEF LoopKept, DepsShrink
  <2> QED
    BY <2>1, <2>2
<1>5. StackKept(w)'
  BY <1>2, <1>4 DEF StackKept, Counted
<1>6. SameOf(w)
  BY <1>1, <1>2 DEF SameOf, Top
<1>7. \A p \in Jobs : OnStack(p) => OnStack(p)'
  BY <1>6, OnStackKept
<1> QED
  BY <1>5, <1>7, OthersKept, SettledStays, PairsStay

\* The innermost loop has dealt with a child that does not wait for its job any more.
LEMMA DealtStays ==
  ASSUME WorkflowInv, KeptInv, DepsShrink, NEW w \in Callers,
         pc[w] \in {"loop"} \cup Counted, NEW c \in Jobs, loops' = Dealt(w, c),
         pc'[w] = "loop", OthersSame(w), UNCHANGED <<dependents, cut, processed, failed>>,
         Top(w).of \notin dependencies'[c]
  PROVE  (\A v \in Callers : StackKept(v)') /\ PairsKept' /\ SettledKept'
<1>1. loops[w] # <<>> /\ Top(w) \in Loops
  BY TopGood DEF InLoop, Counted
<1>2. PICK l \in Loops : l = [Top(w) EXCEPT !.todo = @ \ {c}]
  BY <1>1 DEF Loops
<1>3. l.of = Top(w).of /\ l.todo = Top(w).todo \ {c} /\ loops' = WithTop(w, l)
  BY <1>1, <1>2 DEF Loops, Dealt
<1>4. Len(loops[w]) \in 1 .. Len(loops[w])
  BY <1>1, StackTyped
<1>5. LoopKept(w, Len(loops[w])) /\ HasRead(w, Len(loops[w]))
  BY <1>4 DEF KeptInv, StackKept, HasRead, Counted
<1>6. \A j \in Jobs \ cut : Top(w).of \in dependencies[j] => j \in Top(w).todo
  BY <1>5 DEF LoopKept, Top
<1>7. \A j \in Jobs \ cut : l.of \in dependencies'[j] => j \in l.todo
  BY <1>3, <1>6 DEF DepsShrink
<1> QED
  BY <1>1, <1>3, <1>7, TopStays

\* The call goes on with a child of the innermost loop.
LEMMA ChildStays ==
  ASSUME WorkflowInv, KeptInv, DepsShrink, NEW w \in Callers, pc[w] # "members",
         pc'[w] \in Counted \cup {"kill"}, child'[w] \in Top(w).todo,
         pc'[w] \in Counted => Top(w).of \notin dependencies'[child'[w]],
         OthersSame(w), UNCHANGED <<loops, dependents, cut, processed, failed>>
  PROVE  (\A v \in Callers : StackKept(v)') /\ PairsKept' /\ SettledKept'
<1>1. Top(w)' = Top(w)
  BY DEF Top
<1>2. StackKept(w) /\ \A i \in 1 .. Len(loops[w]) : LoopKept(w, i) /\ loops[w][i].of \in Jobs
  BY StackTyped DEF KeptInv, StackKept
<1>3. ASSUME NEW i \in 1 .. Len(loops[w])
      PROVE  LoopKept(w, i)'
  <2>1. LoopKept(w, i) /\ HasRead(w, i) /\ loops[w][i].of \in Jobs
    BY <1>2 DEF HasRead
  <2> QED
    BY <2>1 DEF LoopKept, DepsShrink
<1>4. StackKept(w)'
  BY <1>1, <1>3 DEF StackKept, Counted
<1>5. \A p \in Jobs : OnStack(p) => OnStack(p)'
  BY DEF OnStack
<1> QED
  BY <1>4, <1>5, OthersKept, SettledStays, PairsStay

\* What is left to show of a step that gives no job another fate and leaves the keys but
\* the queue and the sets of parents.
LEMMA OpenStays ==
  ASSUME WorkflowInv, KeptInv, NEW w \in Callers, OthersSame(w), loops[w] # <<>>,
         UNCHANGED <<submitted, stored, processed, dead, cut, failed>>, queue \subseteq queue',
         \A k \in Jobs : dependencies[k] # {} => Moving(k)' \/ dependencies'[k] # {},
         pc[w] \in Counted /\ Moving(child[w]) => \/ dependencies'[child[w]] # {}
                                                  \/ child[w] \in queue'
                                                  \/ pc'[w] \in Counted /\ child'[w] = child[w]
  PROVE  OpenKept' /\ FatesKept'
<1>1. ASSUME NEW k \in stored' \ (processed' \cup dead' \cup cut')
      PROVE  Moving(k)' \/ dependencies'[k] # {}
  <2>1. k \in Jobs /\ (Moving(k) \/ dependencies[k] # {})
    BY DEF KeptInv, OpenKept, WorkflowInv, TypeOK
  <2>2. ASSUME Moving(k), pc[w] \in Counted, child[w] = k
        PROVE  Moving(k)' \/ dependencies'[k] # {}
    BY <2>2 DEF Moving
  <2> QED
    BY <2>1, <2>2, MovingKept
<1> QED
  BY <1>1 DEF KeptInv, OpenKept, FatesKept

\* ReadMembers: a job without dependents has nobody who waits for it; otherwise the loop
\* is over all of them.
LEMMA ReadMembersStays ==
  ASSUME WorkflowInv, KeptInv, NEW w \in Callers, ReadMembers(w)
  PROVE  KeptInv'
<1> USE DEF ReadMembers, keys, notes
<1>1. /\ loops[w] # <<>> /\ Top(w) \in Loops /\ Top(w).of \in Jobs /\ pc[w] \notin Counted
      /\ DepsShrink
  BY TopGood, SameDeps DEF InLoop, Counted
<1>2. \A j \in Jobs \ cut : Top(w).of \in dependencies[j] => j \in dependents[Top(w).of]
  BY <1>1 DEF KeptInv, PairsKept
<1>3. CASE dependents[Top(w).of] = {}
  BY <1>2, <1>3, ReturnStays
<1>4. CASE dependents[Top(w).of] # {}
  <2>1. dependents[Top(w).of] \subseteq Jobs
    BY <1>1 DEF WorkflowInv, TypeOK
  <2>2. PICK l \in Loops : l = [Top(w) EXCEPT !.todo = dependents[Top(w).of]]
    BY <1>1, <2>1 DEF Loops
  <2>3. l.of = Top(w).of /\ l.todo = dependents[Top(w).of] /\ loops' = WithTop(w, l)
    BY <1>1, <1>4, <2>2 DEF Loops
  <2>4. \A v \in Callers \ {w} : WithTop(w, l)[v] = loops[v]
    BY <1>1, WithTopAt
  <2>5. OthersSame(w) /\ pc'[w] = "loop"
    BY <1>4, <2>3, <2>4 DEF OthersSame, WorkflowInv, TypeOK
  <2>6. \A j \in Jobs \ cut : l.of \in dependencies'[j] => j \in l.todo
    BY <1>2, <2>3
  <2>7. (\A v \in Callers : StackKept(v)') /\ PairsKept' /\ SettledKept'
    BY <1>1, <2>3, <2>5, <2>6, TopStays
  <2>8. OpenKept' /\ FatesKept'
    BY <1>1, <2>5, OpenStays
  <2> QED
    BY <2>7, <2>8 DEF KeptInv
<1> QED
  BY <1>3, <1>4

\* What a step that deals with child c leaves of the other callers.
LEMMA DealtOthers ==
  ASSUME WorkflowInv, NEW w \in Callers, loops[w] # <<>>, NEW c, loops' = Dealt(w, c)
  PROVE  \A v \in Callers \ {w} : loops'[v] = loops[v]
<1>1. Top(w) \in Loops
  BY TopIn DEF WorkflowInv, TypeOK
<1>2. [Top(w) EXCEPT !.todo = @ \ {c}] \in Loops
  BY <1>1 DEF Loops
<1> QED
  BY <1>2, WithTopAt DEF Dealt

\* ResolveRemove: the child loses the parent, and is counted when that was news.
LEMMA ResolveRemoveStays ==
  ASSUME WorkflowInv, KeptInv, NEW w \in Callers, NEW c \in Jobs, ResolveRemove(w, c)
  PROVE  KeptInv'
<1> USE DEF ResolveRemove, notes
<1>1. /\ loops[w] # <<>> /\ Top(w) \in Loops /\ Top(w).of \in Jobs /\ pc[w] \notin Counted
  BY TopGood DEF InLoop, Counted
<1>2. DepsShrink /\ Top(w).of \notin dependencies'[c]
      /\ \A k \in Jobs : k # c \/ Top(w).of \notin dependencies[c] =>
                           dependencies'[k] = dependencies[k]
  BY DEF DepsShrink, WorkflowInv, TypeOK
<1>3. CASE Top(w).of \in dependencies[c]
  <2>1. OthersSame(w) /\ pc'[w] = "scard" /\ child'[w] = c
    BY <1>3 DEF OthersSame, WorkflowInv, TypeOK
  <2>2. (\A v \in Callers : StackKept(v)') /\ PairsKept' /\ SettledKept'
    BY <1>2, <1>3, <2>1, ChildStays DEF Counted
  <2>3. \A k \in Jobs : k = c => Moving(k)'
    BY <2>1 DEF Moving, Counted
  <2>4. OpenKept' /\ FatesKept'
    BY <1>1, <1>2, <2>1, <2>3, OpenStays
  <2> QED
    BY <2>2, <2>4 DEF KeptInv
<1>4. CASE Top(w).of \notin dependencies[c]
  <2>1. OthersSame(w) /\ pc'[w] = "loop"
    BY <1>1, <1>4, DealtOthers DEF OthersSame, WorkflowInv, TypeOK
  <2>2. (\A v \in Callers : StackKept(v)') /\ PairsKept' /\ SettledKept'
    BY <1>2, <1>4, <2>1, DealtStays
  <2>3. OpenKept' /\ FatesKept'
    BY <1>1, <1>2, <1>4, <2>1, OpenStays
  <2> QED
    BY <2>2, <2>3 DEF KeptInv
<1> QED
  BY <1>3, <1>4

\* ResolveCount: the child has other parents to wait for, or is about to be enqueued.
LEMMA ResolveCountStays ==
  ASSUME WorkflowInv, KeptInv, NEW w \in Callers, ResolveCount(w)
  PROVE  KeptInv'
<1> USE DEF ResolveCount, keys, notes
<1>1. /\ loops[w] # <<>> /\ pc[w] \in Counted /\ child[w] \in Jobs /\ DepsShrink
      /\ child[w] \in Top(w).todo /\ Top(w).of \notin dependencies[child[w]]
  BY TopGood, SameDeps
     DEF InLoop, Counted, WorkflowInv, TypeOK, CallerOK, Children, KeptInv, StackKept
<1>2. CASE NoneLeft(child[w])
  <2>1. OthersSame(w) /\ pc'[w] = "hget" /\ child'[w] = child[w]
    BY <1>2 DEF OthersSame, WorkflowInv, TypeOK
  <2>2. (\A v \in Callers : StackKept(v)') /\ PairsKept' /\ SettledKept'
    BY <1>1, <1>2, <2>1, ChildStays DEF Counted
  <2>3. OpenKept' /\ FatesKept'
    BY <1>1, <2>1, OpenStays DEF Counted
  <2> QED
    BY <2>2, <2>3 DEF KeptInv
<1>3. CASE ~NoneLeft(child[w])
  <2>1. OthersSame(w) /\ pc'[w] = "loop"
    BY <1>1, <1>3, DealtOthers DEF OthersSame, WorkflowInv, TypeOK
  <2>2. (\A v \in Callers : StackKept(v)') /\ PairsKept' /\ SettledKept'
    BY <1>1, <1>3, <2>1, DealtStays
  <2>3. dependencies'[child[w]] # {}
    BY <1>3 DEF NoneLeft
  <2>4. OpenKept' /\ FatesKept'
    BY <1>1, <2>1, <2>3, OpenStays
  <2> QED
    BY <2>2, <2>4 DEF KeptInv
<1> QED
  BY <1>2, <1>3

\* ResolveEnvelope: without an envelope the call fails, and all of its loops.
LEMMA ResolveEnvelopeStays ==
  ASSUME WorkflowInv, KeptInv, NEW w \in Callers, ResolveEnvelope(w)
  PROVE  KeptInv'
<1> USE DEF ResolveEnvelope
<1>1. /\ loops[w] # <<>> /\ pc[w] \in Counted /\ child[w] \in Jobs
      /\ child[w] \in Top(w).todo /\ Top(w).of \notin dependencies[child[w]]
  BY TopGood DEF InLoop, Counted, WorkflowInv, TypeOK, CallerOK, Children, KeptInv, StackKept
<1>2. CASE child[w] \in stored
  <2> USE DEF keys
  <2>1. OthersSame(w) /\ pc'[w] = "enqueue" /\ DepsShrink
    BY <1>2, SameDeps DEF OthersSame, WorkflowInv, TypeOK
  <2>2. (\A v \in Callers : StackKept(v)') /\ PairsKept' /\ SettledKept'
    BY <1>1, <1>2, <2>1, ChildStays DEF Counted
  <2>3. OpenKept' /\ FatesKept'
    BY <1>1, <1>2, <2>1, OpenStays DEF Counted
  <2> QED
    BY <2>2, <2>3 DEF KeptInv
<1>3. CASE child[w] \notin stored
  BY <1>1, <1>3, AbandonStays
<1> QED
  BY <1>2, <1>3

\* ResolveEnqueue: the child is queued.
LEMMA ResolveEnqueueStays ==
  ASSUME WorkflowInv, KeptInv, NEW w \in Callers, ResolveEnqueue(w)
  PROVE  KeptInv'
<1> USE DEF ResolveEnqueue, notes
<1>1. /\ loops[w] # <<>> /\ pc[w] \in Counted /\ child[w] \in Jobs /\ Top(w).of \in Jobs
  BY TopGood DEF InLoop, Counted, WorkflowInv, TypeOK, CallerOK, Children, KeptInv, StackKept
<1>2. /\ DepsShrink /\ dependencies'[child[w]] = {} /\ child[w] \in queue'
      /\ \A k \in Jobs : k # child[w] => dependencies'[k] = dependencies[k]
      /\ queue \subseteq queue'
  BY <1>1 DEF DepsShrink, WorkflowInv, TypeOK, Queued
<1>3. OthersSame(w) /\ pc'[w] = "loop"
  BY <1>1, DealtOthers DEF OthersSame, WorkflowInv, TypeOK
<1>4. (\A v \in Callers : StackKept(v)') /\ PairsKept' /\ SettledKept'
  BY <1>1, <1>2, <1>3, DealtStays
<1>5. \A k \in Jobs : k = child[w] => Moving(k)'
  BY <1>2 DEF Moving
<1>6. OpenKept' /\ FatesKept'
  BY <1>1, <1>2, <1>3, <1>5, OpenStays
<1> QED
  BY <1>4, <1>6 DEF KeptInv

\* CascadeEnvelope: without an envelope the call fails, and all of its loops.
LEMMA CascadeEnvelopeStays ==
  ASSUME WorkflowInv, KeptInv, NEW w \in Callers, NEW c \in Jobs, CascadeEnvelope(w, c)
  PROVE  KeptInv'
<1> USE DEF CascadeEnvelope
<1>1. loops[w] # <<>> /\ pc[w] \notin Counted
  BY TopGood DEF InLoop, Counted
<1>2. CASE c \in stored
  <2> USE DEF keys
  <2>1. OthersSame(w) /\ pc'[w] = "kill" /\ child'[w] = c /\ DepsShrink
    BY <1>2, SameDeps DEF OthersSame, WorkflowInv, TypeOK
  <2>2. (\A v \in Callers : StackKept(v)') /\ PairsKept' /\ SettledKept'
    BY <1>1, <1>2, <2>1, ChildStays DEF Counted
  <2>3. OpenKept' /\ FatesKept'
    BY <1>1, <1>2, <2>1, OpenStays
  <2> QED
    BY <2>2, <2>3 DEF KeptInv
<1>3. CASE c \notin stored
  BY <1>1, <1>3, AbandonStays
<1> QED
  BY <1>2, <1>3

\* Every step keeps it.
LEMMA KeptStays ==
  ASSUME WorkflowInv, KeptInv, [Next]_vars
  PROVE  KeptInv'
<1>1. ASSUME NEW js \in Workflows, EnqueueWorkflow(js)
      PROVE  KeptInv'
  BY <1>1, EnqueueWorkflowStays
<1>2. ASSUME NEW w \in Workers, WorkerStep(w)
      PROVE  KeptInv'
  BY <1>2, DequeueStays, FinalizeStays, AckStays, FailRetryStays, FailDeadStays DEF WorkerStep
<1>3. ASSUME NEW a \in Admins, NEW j \in Jobs, Cancel(a, j)
      PROVE  KeptInv'
  BY <1>3, CancelStays
<1>4. ASSUME NEW w \in Callers, LoopStep(w)
      PROVE  KeptInv'
  BY <1>4, ReadMembersStays, LoopDoneStays, ResolveRemoveStays, CascadeEnvelopeStays,
     ResolveCountStays, ResolveEnvelopeStays, ResolveEnqueueStays, CascadeKillStays
     DEF LoopStep
<1>5. ASSUME NEW w \in Callers, Crash(w)
      PROVE  KeptInv'
  BY <1>5, CrashStays
<1>6. CASE AtRest \/ UNCHANGED vars
  <2>1. UNCHANGED vars
    BY <1>6 DEF AtRest
  <2> QED
    BY <2>1 DEF vars, keys, call, notes, KeptInv, StackKept, LoopKept, HasRead, Top, PairsKept,
                SettledKept, OnStack, OpenKept, Moving, Held, FatesKept
<1> QED
  BY <1>1, <1>2, <1>3, <1>4, <1>5, <1>6 DEF Next

\* Who waits, is settled, or is on its way: the keys and the loops agree at all times.
THEOREM KeptInvariant == Spec => []KeptInv
BY KeptAtFirst, KeptStays, WorkflowInvariant, PTL DEF Spec

\* However many calls of Ack, Fail and Cancel resolve and cascade at once, no job is left
\* behind between the keys: it is queued, held or before a loop, or it waits for parents
\* of which the same is true, unless a call over its siblings ended in the middle, or it
\* was given a parent that had finished, or was unknown, at the time.
THEOREM NothingForgotten == Spec => []NoneForgotten
<1>1. WorkflowInv /\ KeptInv => NoneForgotten
  <2> SUFFICES ASSUME WorkflowInv, KeptInv,
                      NEW j \in stored \ (processed \cup dead \cup cut), ~AtHand(j)
               PROVE  Waits(j) /\ \A p \in dependencies[j] : AtHand(p) \/ Waits(p) \/ p \in cut
    BY DEF NoneForgotten
  <2>1. j \in Jobs /\ dependencies[j] \subseteq Jobs
    BY DEF WorkflowInv, TypeOK, KeysOK
  <2>2. \A k \in Jobs : Moving(k) => AtHand(k)
    BY AheadHolds DEF Moving, AtHand
  <2>3. Waits(j)
    BY <2>1, <2>2 DEF KeptInv, OpenKept, Waits
  <2>4. ASSUME NEW p \in dependencies[j]
        PROVE  AtHand(p) \/ Waits(p) \/ p \in cut
    <3>1. ~OnStack(p)
      BY <2>1, AheadHolds DEF OnStack, AtHand
    <3>2. p \in Jobs /\ p \in submitted /\ p \notin processed \cup failed
      BY <2>1, <3>1 DEF KeptInv, PairsKept, SettledKept
    <3>3. p \in stored \ (processed \cup dead)
      BY <2>1, <3>2 DEF KeptInv, FatesKept
    <3> QED
      BY <2>2, <3>2, <3>3 DEF KeptInv, OpenKept, Waits
  <2> QED
    BY <2>3, <2>4
<1> QED
  BY <1>1, WorkflowInvariant, KeptInvariant, PTL

=============================================================================
