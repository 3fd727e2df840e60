---------------------------- MODULE MCSchedulers ----------------------------
\* Schedulers for TLC: a name with a cron and an interval schedule, on a Sunday.
EXTENDS Schedulers, TLC

ProcSymmetry == Permutations(Procs)

\* "*/2,0-0 * * * 7".
AnyValue == {[kind |-> "any"]}
Sundays  == [n \in Crons |->
  [minute |-> {[kind |-> "step", n |-> 2], [kind |-> "range", from |-> 0, to |-> 0]},
   hour |-> AnyValue, dom |-> AnyValue, month |-> AnyValue,
   dow |-> {[kind |-> "single", n |-> 7]}]]

Sunday == [m \in Minutes |-> [minute |-> m % HourLen, hour |-> m \div HourLen,
                               dom |-> 1, month |-> 1, dow |-> 0]]

Every2 == [n \in Names |-> 2]
=============================================================================
