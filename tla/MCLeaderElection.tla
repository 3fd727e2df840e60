-------------------------- MODULE MCLeaderElection --------------------------
\* LeaderElection for TLC: processes are strings, so that clocks can be told
\* apart.
EXTENDS LeaderElection

\* The clock of "p" is behind that of the storage, the clock of "q" ahead.
Apart == [x \in Procs |-> IF x = "p" THEN -1 ELSE 1]
=============================================================================
