SPECIFICATION FairSpec
CONSTANTS
  Callers = {c1, c2, c3, c4}
  FailureThreshold = 2
  MaxFailures = 5
INVARIANTS
  ClosedBelowThreshold
PROPERTIES
  ClosedInTrial
  TrialComes
