SPECIFICATION FairSpec
CONSTANTS
  Procs = {"p", "q"}
  NoProc = NoProc
  Driver = "postgres"
  TTL = 3
  Skew <- Apart
  MaxSkew = 1
INVARIANTS
  LeaseExclusive
  RefusedOnlyWhenLate
PROPERTY Failover
