--------------------------- MODULE MCRedisWorkflow ---------------------------
\* RedisWorkflow for TLC: c waits for a and b, d for a and c;
\* d comes in a call of its own, before, during or after the others.
EXTENDS RedisWorkflow, TLC

Diamond == [j \in Jobs |-> CASE j = "c" -> {"a", "b"} [] j = "d" -> {"a", "c"} [] OTHER -> {}]

TwoCalls == {{"a", "b", "c"}, {"d"}}

WorkerSymmetry == Permutations(Workers)
=============================================================================
