---------------------------- MODULE MCSqlStorage ----------------------------
(***************************************************************************)
(* Small instances of SqlStorage for TLC.  Jobs are strings, so that the   *)
(* workflow shapes below can name them; workers are interchangeable model  *)
(* values.                                                                 *)
(***************************************************************************)
EXTENDS SqlStorage, TLC

WorkerSymmetry == Permutations(Workers)

NoKeys  == [j \in Jobs |-> NoKey]
SameKey == [j \in Jobs |-> IF j \in {"a", "b"} THEN "k" ELSE NoKey]

NoBatches == [j \in Jobs |-> NoBatch]
OneBatch  == [j \in Jobs |-> "B"]
OnlyB     == [j \in Jobs |-> IF j = "b" THEN "B" ELSE NoBatch]

OneAttempt  == [j \in Jobs |-> 1]
TwoAttempts == [j \in Jobs |-> 2]
OnlyCAgain  == [j \in Jobs |-> IF j = "c" THEN 2 ELSE 1]

\* Workflow shapes.  Diamond: b and c wait for a, d waits for both (a may
\* be a job of its own).  Tree: the chain a, b, c with a second child d of a.  Join:
\* c waits for a and b.
NoParents == [j \in Workflow |-> {}]
Diamond   == [j \in Workflow |-> CASE j = "a" -> {} [] j = "d" -> {"b", "c"}
                                   [] OTHER -> {"a"}]
Tree      == [j \in Workflow |-> CASE j = "a" -> {} [] j = "c" -> {"b"}
                                   [] OTHER -> {"a"}]
Join      == [j \in Workflow |-> IF j = "c" THEN {"a", "b"} ELSE {}]

=============================================================================
