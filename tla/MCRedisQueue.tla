---------------------------- MODULE MCRedisQueue ----------------------------
\* RedisQueue for TLC: jobs are strings, workers are interchangeable.
EXTENDS RedisQueue, TLC

WorkerSymmetry == Permutations(Workers)

SameKey  == [j \in Jobs |-> IF j \in {"a", "b"} THEN "k" ELSE NoKey]
Attempts == [j \in Jobs |-> IF j = "c" THEN 2 ELSE 1]
=============================================================================
