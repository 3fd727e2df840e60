-------------------------- MODULE RedisBatchProofs --------------------------
(***************************************************************************)
(* Proofs about RedisBatch, for any finite number of members and any       *)
(* number of calls of Submit.                                              *)
(***************************************************************************)
EXTENDS RedisBatch, FiniteSetTheorems, TLAPS

\* The part of the types that the arguments below need.
CoreTypes ==
  /\ pending \in Int
  /\ mpc \in [Members -> MemberPcs]
  /\ seen \in [Members -> Int]
  /\ submits \in Nat
  /\ callbacks \in Nat

\* Whoever may complete the batch has seen it sealed, so Submit was called.
SubmitSeen ==
  /\ spc # "idle" => submits > 0
  /\ status \in {"sealed", "completed"} => submits > 0
  /\ callbacks > 0 => submits > 0
  /\ \A j \in Members : mpc[j] \in {"complete", "callback", "unmarked"} => submits > 0

\* Nothing is counted before the batch is created.
NothingBefore ==
  status = "none" => pending = 0 /\ \A j \in Members : mpc[j] = "new"

\* The inductive invariant.  CallbackNotLost needs PendingCoversQueued: a counter
\* below 0 could come back to 0 when a member is added.
BatchInv ==
  /\ CoreTypes /\ PendingCoversQueued /\ CallbackNotLost
  /\ SubmitSeen /\ NothingBefore

\* What a step of one member does to the set of members still counted.
LEMMA MemberMoves ==
  ASSUME mpc \in [Members -> MemberPcs],
         NEW j \in Members, NEW to \in MemberPcs,
         mpc' = [mpc EXCEPT ![j] = to]
  PROVE  /\ Cardinality(Waiting) \in Nat
         /\ Cardinality(Waiting') \in Nat
         /\ mpc[j] \in WaitingPcs /\ to \notin WaitingPcs =>
              Cardinality(Waiting') = Cardinality(Waiting) - 1
         /\ mpc[j] \notin WaitingPcs /\ to \in WaitingPcs =>
              Cardinality(Waiting') = Cardinality(Waiting) + 1
         /\ (mpc[j] \in WaitingPcs <=> to \in WaitingPcs) =>
              Cardinality(Waiting') = Cardinality(Waiting)
<1>1. IsFiniteSet(Waiting) /\ Waiting \in SUBSET Members
  BY FS_Subset, BatchAssumption DEF Waiting
<1>2. Cardinality(Waiting) \in Nat
  BY <1>1, FS_CardinalityType
<1>3. CASE to \in WaitingPcs
  <2>1. Waiting' = Waiting \cup {j}
    BY <1>3 DEF Waiting
  <2>2. j \in Waiting <=> mpc[j] \in WaitingPcs
    BY DEF Waiting
  <2>3. IsFiniteSet(Waiting \cup {j})
    BY <1>1, FS_AddElement
  <2>4. Cardinality(Waiting') \in Nat
    BY <2>1, <2>3, FS_CardinalityType
  <2>5. Cardinality(Waiting \cup {j}) =
          IF j \in Waiting THEN Cardinality(Waiting) ELSE Cardinality(Waiting) + 1
    BY <1>1, FS_AddElement
  <2> QED
    BY <1>2, <1>3, <2>1, <2>2, <2>4, <2>5
<1>4. CASE to \notin WaitingPcs
  <2>1. Waiting' = Waiting \ {j}
    BY <1>4 DEF Waiting
  <2>2. j \in Waiting <=> mpc[j] \in WaitingPcs
    BY DEF Waiting
  <2>3. IsFiniteSet(Waiting')
    BY <1>1, <2>1, FS_RemoveElement
  <2>4. Cardinality(Waiting') \in Nat
    BY <2>3, FS_CardinalityType
  <2> QED
    BY <1>1, <1>2, <1>4, <2>1, <2>2, <2>4, FS_RemoveElement
<1> QED
  BY <1>3, <1>4

\* The counter of a state that satisfies the invariant is not negative.
LEMMA PendingNotNegative ==
  ASSUME BatchInv
  PROVE  pending >= 0
<1>1. IsFiniteSet(Waiting)
  BY FS_Subset, BatchAssumption DEF Waiting
<1>2. Cardinality(Waiting) \in Nat
  BY <1>1, FS_CardinalityType
<1> QED
  BY <1>2 DEF BatchInv, PendingCoversQueued, CoreTypes

\* Adding a member: CountMember raises the counter with the set, EnqueueMember
\* leaves the counter alone.
LEMMA EnqueueKeeps ==
  ASSUME BatchInv, NEW j \in Members, CountMember(j) \/ EnqueueMember(j)
  PROVE  BatchInv'
<1>0. mpc \in [Members -> MemberPcs]
  BY DEF BatchInv, CoreTypes
<1>1. CASE CountMember(j)
  <2>1. CoreTypes'
    BY <1>1 DEF CountMember, BatchInv, CoreTypes, MemberPcs, submit
  <2>2. /\ mpc' = [mpc EXCEPT ![j] = "counted"] /\ "counted" \in MemberPcs
        /\ mpc[j] \notin WaitingPcs /\ "counted" \in WaitingPcs
    BY <1>1 DEF CountMember, MemberPcs, WaitingPcs
  <2>3. Cardinality(Waiting') = Cardinality(Waiting) + 1 /\ Cardinality(Waiting) \in Nat
    BY <1>0, <2>2, MemberMoves
  <2>4. PendingCoversQueued'
    BY <1>1, <2>3 DEF CountMember, BatchInv, CoreTypes, PendingCoversQueued
  <2>5. pending' # 0
    BY <1>1, PendingNotNegative DEF CountMember, BatchInv, CoreTypes
  <2>6. SubmitSeen' /\ NothingBefore'
    BY <1>0, <1>1 DEF CountMember, BatchInv, SubmitSeen, NothingBefore, submit
  <2>7. CallbackNotLost'
    BY <1>0, <1>1, <2>5 DEF CountMember, BatchInv, CallbackNotLost, CallbackComes,
                            CutShort, submit
  <2> QED
    BY <2>1, <2>4, <2>6, <2>7 DEF BatchInv
<1>2. CASE EnqueueMember(j)
  <2>1. PICK to \in {"queued", "failed"} : mpc' = [mpc EXCEPT ![j] = to]
    BY <1>2 DEF EnqueueMember
  <2>2. CoreTypes'
    BY <1>2, <2>1 DEF EnqueueMember, BatchInv, CoreTypes, MemberPcs, hash, submit
  <2>3. to \in MemberPcs /\ mpc[j] \in WaitingPcs
    BY <1>2, <2>1 DEF EnqueueMember, MemberPcs, WaitingPcs
  <2>4. /\ Cardinality(Waiting) \in Nat /\ Cardinality(Waiting') \in Nat
        /\ Cardinality(Waiting') <= Cardinality(Waiting)
    <3>1. Cardinality(Waiting) \in Nat /\ Cardinality(Waiting') \in Nat
      BY <1>0, <2>1, <2>3, MemberMoves
    <3>2. \/ Cardinality(Waiting') = Cardinality(Waiting)
          \/ Cardinality(Waiting') = Cardinality(Waiting) - 1
      BY <1>0, <2>1, <2>3, MemberMoves
    <3> QED
      BY <3>1, <3>2
  <2>5. PendingCoversQueued'
    BY <1>2, <2>4 DEF EnqueueMember, BatchInv, CoreTypes, PendingCoversQueued, hash
  <2>6. CallbackNotLost'
    BY <1>0, <1>2, <2>1 DEF EnqueueMember, BatchInv, CallbackNotLost, OnTheWay,
                            CallbackComes, CutShort, hash, submit
  <2>7. SubmitSeen' /\ NothingBefore'
    BY <1>0, <1>2, <2>1 DEF EnqueueMember, BatchInv, SubmitSeen, NothingBefore,
                            hash, submit
  <2> QED
    BY <2>2, <2>5, <2>6, <2>7 DEF BatchInv
<1> QED
  BY <1>1, <1>2

\* The end of a run: a dead member fails the batch, an acknowledged one goes on
\* to handleBatchAck, which may find the batch expired; or the worker dies.
LEMMA RunEndKeeps ==
  ASSUME BatchInv, NEW j \in Members,
         MemberDies(j) \/ Ack(j) \/ AckExpiry(j) \/ AckCut(j)
  PROVE  BatchInv'
<1> USE DEF CoreTypes, MemberPcs, AckPcs, WaitingPcs
<1>1. PICK to \in {"dead", "expiry", "acked", "decrement", "cut"} :
        /\ mpc' = [mpc EXCEPT ![j] = to]
        /\ to \in WaitingPcs => mpc[j] \in WaitingPcs
        /\ mpc[j] # "new"
        /\ mpc[j] \in {"complete", "look", "callback", "unmarked"} => to = "cut"
        /\ to \in {"dead", "expiry", "acked", "decrement"} =>
             mpc[j] \in {"queued", "expiry"}
  BY DEF MemberDies, Ack, AckExpiry, AckCut
<1>2. /\ UNCHANGED <<pending, callbacks, seen, spc, submits, halfDone>>
      /\ status' = status \/ status' = "failed"
  BY DEF MemberDies, Ack, AckExpiry, AckCut, FailBatch, hash, submit
<1>3. CoreTypes'
  BY <1>1, <1>2 DEF BatchInv
<1>4. mpc \in [Members -> MemberPcs] /\ to \in MemberPcs
  BY DEF BatchInv
<1>5. /\ Cardinality(Waiting) \in Nat /\ Cardinality(Waiting') \in Nat
      /\ Cardinality(Waiting') <= Cardinality(Waiting)
  <2> HIDE DEF MemberPcs, WaitingPcs
  <2>1. Cardinality(Waiting) \in Nat /\ Cardinality(Waiting') \in Nat
    BY <1>1, <1>4, MemberMoves
  <2>2. \/ Cardinality(Waiting') = Cardinality(Waiting)
        \/ Cardinality(Waiting') = Cardinality(Waiting) - 1
    BY <1>1, <1>4, MemberMoves
  <2> QED
    BY <2>1, <2>2
<1>6. PendingCoversQueued'
  BY <1>2, <1>5 DEF BatchInv, PendingCoversQueued
<1>7. CallbackNotLost'
  BY <1>1, <1>2 DEF BatchInv, CallbackNotLost, OnTheWay, CallbackComes, CutShort
<1>8. SubmitSeen' /\ NothingBefore'
  BY <1>1, <1>2 DEF BatchInv, SubmitSeen, NothingBefore
<1> QED
  BY <1>3, <1>6, <1>7, <1>8 DEF BatchInv

\* The Ack that counts down to 0 is the one on the way, until it has looked at
\* the status; if the batch is sealed it goes on to complete it.
LEMMA CountDownKeeps ==
  ASSUME BatchInv, NEW j \in Members,
         AckDecrement(j) \/ AckLook(j) \/ AckComplete(j) \/ AckCallback(j)
  PROVE  BatchInv'
<1> USE DEF CoreTypes, MemberPcs, AckPcs, WaitingPcs
<1>1. CASE AckDecrement(j)
  <2>1. CoreTypes'
    BY <1>1 DEF AckDecrement, BatchInv, CountedDown, submit
  <2>2. Cardinality(Waiting') = Cardinality(Waiting) - 1 /\ Cardinality(Waiting) \in Nat
    <3>1. /\ mpc' = [mpc EXCEPT ![j] = "look"] /\ "look" \in MemberPcs
          /\ mpc \in [Members -> MemberPcs]
          /\ mpc[j] \in WaitingPcs /\ "look" \notin WaitingPcs
      BY <1>1 DEF AckDecrement, BatchInv
    <3> HIDE DEF MemberPcs, WaitingPcs
    <3> QED
      BY <3>1, MemberMoves
  <2>3. PendingCoversQueued'
    BY <1>1, <2>2 DEF AckDecrement, BatchInv, PendingCoversQueued, CountedDown
  <2>4. pending' = 0 => mpc'[j] = "look" /\ seen'[j] = 0
    BY <1>1 DEF AckDecrement, BatchInv, CountedDown
  <2>5. CallbackNotLost'
    BY <1>1, <2>4 DEF AckDecrement, BatchInv, CallbackNotLost, OnTheWay, CallbackComes,
                      CutShort, submit
  <2>6. SubmitSeen' /\ NothingBefore'
    BY <1>1 DEF AckDecrement, BatchInv, SubmitSeen, NothingBefore, submit
  <2> QED
    BY <2>1, <2>3, <2>5, <2>6 DEF BatchInv
<1>2. CASE AckLook(j)
  <2>1. CoreTypes'
    BY <1>2 DEF AckLook, BatchInv, hash, submit
  <2>2. Cardinality(Waiting') = Cardinality(Waiting)
    <3> DEFINE to == IF SealedAndDone(j) THEN "complete" ELSE "acked"
    <3>1. /\ mpc' = [mpc EXCEPT ![j] = to] /\ to \in MemberPcs
          /\ mpc \in [Members -> MemberPcs]
          /\ mpc[j] \notin WaitingPcs /\ to \notin WaitingPcs
      BY <1>2 DEF AckLook, BatchInv
    <3> HIDE DEF MemberPcs, WaitingPcs, to
    <3> QED
      BY <3>1, MemberMoves
  <2>3. PendingCoversQueued'
    BY <1>2, <2>2 DEF AckLook, BatchInv, PendingCoversQueued, hash
  <2>4. CallbackNotLost'
    <3>1. CASE SealedAndDone(j)
      <4>1. mpc'[j] = "complete"
        BY <1>2, <3>1 DEF AckLook, BatchInv
      <4> QED
        BY <1>2, <4>1 DEF AckLook, BatchInv, CallbackNotLost, OnTheWay, CallbackComes,
                          CutShort, hash, submit
    <3>2. CASE ~SealedAndDone(j)
      BY <1>2, <3>2 DEF AckLook, BatchInv, CallbackNotLost, OnTheWay, CallbackComes, CutShort,
                        SealedAndDone, hash, submit
    <3> QED
      BY <3>1, <3>2
  <2>5. SubmitSeen' /\ NothingBefore'
    BY <1>2 DEF AckLook, BatchInv, SubmitSeen, NothingBefore, SealedAndDone, hash, submit
  <2> QED
    BY <2>1, <2>3, <2>4, <2>5 DEF BatchInv
<1>3. CASE AckComplete(j)
  <2>1. PICK to \in {"callback", "unmarked"} :
          /\ mpc' = [mpc EXCEPT ![j] = to]
          /\ IF to = "callback" THEN status' = "completed" ELSE UNCHANGED status
    BY <1>3 DEF AckComplete
  <2>2. CoreTypes'
    BY <1>3, <2>1 DEF AckComplete, BatchInv, submit
  <2>3. Cardinality(Waiting') = Cardinality(Waiting)
    <3>1. /\ to \in MemberPcs /\ mpc \in [Members -> MemberPcs]
          /\ mpc[j] \notin WaitingPcs /\ to \notin WaitingPcs
      BY <1>3 DEF AckComplete, BatchInv
    <3> HIDE DEF MemberPcs, WaitingPcs
    <3> QED
      BY <2>1, <3>1, MemberMoves
  <2>4. PendingCoversQueued'
    BY <1>3, <2>3 DEF AckComplete, BatchInv, PendingCoversQueued
  <2>5. mpc'[j] = to
    BY <2>1 DEF BatchInv
  <2>6. CallbackNotLost'
    BY <1>3, <2>1, <2>5 DEF AckComplete, BatchInv, CallbackNotLost, CallbackComes, CutShort
  <2>7. SubmitSeen' /\ NothingBefore'
    BY <1>3, <2>1 DEF AckComplete, BatchInv, SubmitSeen, NothingBefore, submit
  <2> QED
    BY <2>2, <2>4, <2>6, <2>7 DEF BatchInv
<1>4. CASE AckCallback(j)
  <2>1. PICK to \in {"acked", "cut"} :
          /\ mpc' = [mpc EXCEPT ![j] = to]
          /\ mpc[j] = "unmarked" => to = "cut"
    BY <1>4 DEF AckCallback
  <2>2. CoreTypes'
    BY <1>4, <2>1 DEF AckCallback, BatchInv, hash, submit
  <2>3. Cardinality(Waiting') = Cardinality(Waiting)
    <3>1. /\ to \in MemberPcs /\ mpc \in [Members -> MemberPcs]
          /\ mpc[j] \notin WaitingPcs /\ to \notin WaitingPcs
      BY <1>4 DEF AckCallback, BatchInv
    <3> HIDE DEF MemberPcs, WaitingPcs
    <3> QED
      BY <2>1, <3>1, MemberMoves
  <2>4. PendingCoversQueued'
    BY <1>4, <2>3 DEF AckCallback, BatchInv, PendingCoversQueued, hash
  <2>5. callbacks' > 0
    BY <1>4 DEF AckCallback, BatchInv
  <2>6. CallbackNotLost'
    BY <1>4, <2>1, <2>5 DEF AckCallback, BatchInv, CallbackNotLost, OnTheWay, CutShort,
                            hash, submit
  <2>7. SubmitSeen' /\ NothingBefore'
    BY <1>4, <2>1 DEF AckCallback, BatchInv, SubmitSeen, NothingBefore, hash, submit
  <2> QED
    BY <2>2, <2>4, <2>6, <2>7 DEF BatchInv
<1> QED
  BY <1>1, <1>2, <1>3, <1>4

\* A step that leaves every member where it is leaves the set of members still
\* counted alone.
LEMMA SetKept ==
  ASSUME BatchInv, UNCHANGED <<mpc, seen>>, pending' = pending,
         submits' \in Nat, callbacks' \in Nat
  PROVE  CoreTypes' /\ PendingCoversQueued'
BY DEF BatchInv, CoreTypes, PendingCoversQueued, Waiting

\* Submit: once the batch is sealed it is Submit itself that is on the way, until
\* it has read a counter above 0.
LEMMA SubmitKeeps ==
  ASSUME BatchInv, SubmitBatch \/ SubmitStep \/ SubmitCut
  PROVE  BatchInv'
<1>1. CASE SubmitBatch
  <2>1. CoreTypes' /\ PendingCoversQueued'
    BY <1>1, SetKept DEF SubmitBatch, FailBatch, hash, BatchInv, CoreTypes
  <2>2. CallbackNotLost'
    BY <1>1 DEF SubmitBatch, FailBatch, hash, BatchInv, CallbackNotLost,
                OnTheWay, CallbackComes, CutShort
  <2>3. SubmitSeen' /\ NothingBefore'
    BY <1>1 DEF SubmitBatch, FailBatch, hash, BatchInv, CoreTypes, SubmitSeen, NothingBefore
  <2> QED
    BY <2>1, <2>2, <2>3 DEF BatchInv
<1>2. CASE SubmitSeal
  <2>1. CoreTypes' /\ PendingCoversQueued'
    BY <1>2, SetKept DEF SubmitSeal, BatchInv, CoreTypes
  <2>2. CallbackNotLost'
    BY <1>2 DEF SubmitSeal, CallbackNotLost, OnTheWay
  <2>3. SubmitSeen' /\ NothingBefore'
    BY <1>2 DEF SubmitSeal, BatchInv, SubmitSeen, NothingBefore
  <2> QED
    BY <2>1, <2>2, <2>3 DEF BatchInv
<1>3. CASE SubmitRead
  <2>1. CoreTypes' /\ PendingCoversQueued'
    BY <1>3, SetKept DEF SubmitRead, hash, BatchInv, CoreTypes
  <2>2. CallbackNotLost'
    BY <1>3 DEF SubmitRead, hash, BatchInv, CallbackNotLost, OnTheWay, CallbackComes,
                CutShort
  <2>3. SubmitSeen' /\ NothingBefore'
    BY <1>3 DEF SubmitRead, hash, BatchInv, SubmitSeen, NothingBefore
  <2> QED
    BY <2>1, <2>2, <2>3 DEF BatchInv
<1>4. CASE SubmitComplete
  <2>1. CoreTypes' /\ PendingCoversQueued'
    BY <1>4, SetKept DEF SubmitComplete, BatchInv, CoreTypes
  <2>2. CallbackNotLost'
    BY <1>4 DEF SubmitComplete, CallbackNotLost, CallbackComes
  <2>3. SubmitSeen' /\ NothingBefore'
    BY <1>4 DEF SubmitComplete, BatchInv, SubmitSeen, NothingBefore
  <2> QED
    BY <2>1, <2>2, <2>3 DEF BatchInv
<1>5. CASE SubmitCallback
  <2>1. CoreTypes' /\ PendingCoversQueued'
    BY <1>5, SetKept DEF SubmitCallback, hash, BatchInv, CoreTypes
  <2>2. CallbackNotLost'
    BY <1>5 DEF SubmitCallback, hash, BatchInv, CoreTypes, CallbackNotLost, OnTheWay,
                CutShort
  <2>3. SubmitSeen' /\ NothingBefore'
    BY <1>5 DEF SubmitCallback, hash, BatchInv, SubmitSeen, NothingBefore
  <2> QED
    BY <2>1, <2>2, <2>3 DEF BatchInv
<1>6. CASE SubmitCut
  <2>1. CoreTypes' /\ PendingCoversQueued'
    BY <1>6, SetKept DEF SubmitCut, hash, BatchInv, CoreTypes
  <2>2. CallbackNotLost'
    BY <1>6 DEF SubmitCut, hash, BatchInv, CallbackNotLost, OnTheWay, CallbackComes,
                CutShort
  <2>3. SubmitSeen' /\ NothingBefore'
    BY <1>6 DEF SubmitCut, hash, BatchInv, SubmitSeen, NothingBefore
  <2> QED
    BY <2>1, <2>2, <2>3 DEF BatchInv
<1> QED
  BY <1>1, <1>2, <1>3, <1>4, <1>5, <1>6 DEF SubmitStep

\* Creation, the clock and the watcher change neither the members nor Submit, and
\* leave the batch open, failed or as it is.
LEMMA OtherKeeps ==
  ASSUME BatchInv,
         \/ \E limited \in BOOLEAN : CreateBatch(limited)
         \/ TimePasses \/ WatcherRead \/ WatcherFail \/ UNCHANGED vars
  PROVE  BatchInv'
<1>1. CASE \E limited \in BOOLEAN : CreateBatch(limited)
  <2>1. /\ status' = "open" /\ pending' = 0
        /\ UNCHANGED <<callbacks, mpc, seen, spc, submits, halfDone>>
    BY <1>1 DEF CreateBatch, submit
  <2>2. pending = 0 /\ Waiting' = Waiting
    BY <1>1, <2>1 DEF CreateBatch, BatchInv, NothingBefore, Waiting
  <2>3. CoreTypes'
    BY <2>1 DEF BatchInv, CoreTypes
  <2>4. PendingCoversQueued'
    BY <2>1, <2>2 DEF BatchInv, PendingCoversQueued
  <2> QED
    BY <2>1, <2>3, <2>4 DEF BatchInv, CallbackNotLost, SubmitSeen, NothingBefore
<1>2. CASE TimePasses \/ WatcherRead \/ WatcherFail \/ UNCHANGED vars
  <2>1. /\ UNCHANGED <<pending, callbacks, mpc, seen, spc, submits, halfDone>>
        /\ status' = status \/ status' = "failed"
    BY <1>2 DEF TimePasses, WatcherRead, WatcherFail, FailBatch, vars, hash, submit
  <2>2. CoreTypes' /\ PendingCoversQueued'
    BY <2>1, SetKept DEF BatchInv, CoreTypes
  <2> QED
    BY <2>1, <2>2 DEF BatchInv, CallbackNotLost, OnTheWay, CallbackComes, CutShort, SubmitSeen,
                     NothingBefore
<1> QED
  BY <1>1, <1>2

\* The invariant holds in every reachable state.
THEOREM BatchInvariant == Spec => []BatchInv
<1>1. Init => BatchInv
  <2> SUFFICES ASSUME Init
               PROVE  BatchInv
    OBVIOUS
  <2>1. Waiting = {}
    BY DEF Init, Waiting, WaitingPcs
  <2>2. PendingCoversQueued
    BY <2>1, FS_EmptySet DEF Init, PendingCoversQueued
  <2> QED
    BY <2>2 DEF Init, BatchInv, CoreTypes, CallbackNotLost, SubmitSeen, NothingBefore,
                MemberPcs
<1>2. BatchInv /\ [Next]_vars => BatchInv'
  BY EnqueueKeeps, RunEndKeeps, CountDownKeeps, SubmitKeeps, OtherKeeps
  DEF Next, AckStep, AtRest
<1> QED
  BY <1>1, <1>2, PTL DEF Spec

\* A sealed batch with nothing pending is always being completed by somebody, and a
\* completed one has its callback, unless an Ack was cut short or Submit failed.
THEOREM CallbackNeverLost == Spec => []CallbackNotLost
<1>1. BatchInv => CallbackNotLost
  BY DEF BatchInv
<1> QED
  BY <1>1, BatchInvariant, PTL

\* No callback is enqueued, and no batch completed, before Submit is called.
THEOREM SubmitComesFirst == Spec => []NoCallbackBeforeSubmit
<1>1. BatchInv => NoCallbackBeforeSubmit
  BY DEF BatchInv, SubmitSeen, NoCallbackBeforeSubmit
<1> QED
  BY <1>1, BatchInvariant, PTL

\* The counter covers the members that are still to be counted down.
THEOREM PendingNeverShort == Spec => []PendingCoversQueued
<1>1. BatchInv => PendingCoversQueued
  BY DEF BatchInv
<1> QED
  BY <1>1, BatchInvariant, PTL

-----------------------------------------------------------------------------
\* Type correctness needs no other invariant.
LEMMA TypesKept ==
  ASSUME TypeOK, [Next]_vars
  PROVE  TypeOK'
<1> USE DEF TypeOK, Statuses, MemberPcs, AckPcs, SubmitPcs, hash, submit
<1>1. ASSUME NEW limited \in BOOLEAN, CreateBatch(limited)
      PROVE  TypeOK'
  BY <1>1 DEF CreateBatch
<1>2. ASSUME NEW j \in Members, CountMember(j)
      PROVE  TypeOK'
  BY <1>2 DEF CountMember
<1>3. ASSUME NEW j \in Members, EnqueueMember(j)
      PROVE  TypeOK'
  BY <1>3 DEF EnqueueMember
<1>4. ASSUME NEW j \in Members, MemberDies(j)
      PROVE  TypeOK'
  BY <1>4 DEF MemberDies, FailBatch
<1>5. ASSUME NEW j \in Members, Ack(j)
      PROVE  TypeOK'
  BY <1>5 DEF Ack
<1>6. ASSUME NEW j \in Members, AckCut(j)
       PROVE  TypeOK'
  BY <1>6 DEF AckCut
<1>7. ASSUME NEW j \in Members, AckStep(j)
      PROVE  TypeOK'
  <2>1. CASE AckExpiry(j)
    BY <2>1 DEF AckExpiry, FailBatch
  <2>2. CASE AckDecrement(j)
    BY <2>2 DEF AckDecrement, CountedDown
  <2>3. CASE AckLook(j)
    BY <2>3 DEF AckLook
  <2>4. CASE AckComplete(j)
    BY <2>4 DEF AckComplete
  <2>5. CASE AckCallback(j)
    BY <2>5 DEF AckCallback
  <2> QED
    BY <1>7, <2>1, <2>2, <2>3, <2>4, <2>5 DEF AckStep
<1>8. CASE SubmitBatch \/ SubmitStep \/ SubmitCut
  <2>1. CASE SubmitBatch
    <3>1. submits' \in Nat /\ spc' \in SubmitPcs
      BY <2>1 DEF SubmitBatch
    <3>2. status' \in Statuses /\ pending' \in Int /\ timeout' \in BOOLEAN
          /\ watched' \in BOOLEAN
      BY <2>1 DEF SubmitBatch, FailBatch
    <3> QED
      BY <2>1, <3>1, <3>2 DEF SubmitBatch
  <2>2. CASE SubmitSeal \/ SubmitRead
    BY <2>2 DEF SubmitSeal, SubmitRead
  <2>3. CASE SubmitComplete \/ SubmitCallback
    BY <2>3 DEF SubmitComplete, SubmitCallback
  <2>4. CASE SubmitCut
    BY <2>4 DEF SubmitCut
  <2> QED
    BY <1>8, <2>1, <2>2, <2>3, <2>4 DEF SubmitStep
<1>9. CASE TimePasses \/ WatcherRead \/ WatcherFail
  BY <1>9 DEF TimePasses, WatcherRead, WatcherFail, FailBatch
<1>10. CASE UNCHANGED vars
  BY <1>10 DEF vars
<1> QED
  BY <1>1, <1>2, <1>3, <1>4, <1>5, <1>6, <1>7, <1>8, <1>9, <1>10 DEF Next, AtRest

\* The fields of the hash and the program counters keep their types.
THEOREM BatchTypeCorrect == Spec => []TypeOK
<1>1. Init => TypeOK
  <2> SUFFICES ASSUME Init PROVE TypeOK
    OBVIOUS
  <2>1. mpc \in [Members -> MemberPcs] /\ seen \in [Members -> Int]
    BY DEF Init, MemberPcs
  <2>2. /\ timeout \in BOOLEAN /\ expired \in BOOLEAN /\ watched \in BOOLEAN
        /\ halfDone \in BOOLEAN
    BY DEF Init
  <2> QED
    BY <2>1, <2>2 DEF Init, TypeOK, Statuses, SubmitPcs
<1> QED
  BY <1>1, TypesKept, PTL DEF Spec

=============================================================================
