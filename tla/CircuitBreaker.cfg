SPECIFICATION FairBreaker
CONSTANTS
  Presigns = {p1, p2, p3}
  Others = {o1}
  Threshold = 2
  Recovery = 1
  Permits = 2
  MaxAttempts = 3
  MaxFailures = 4
INVARIANTS ClosedBelowThreshold PermitsConserved
PROPERTIES ClosesAfterRecovery
