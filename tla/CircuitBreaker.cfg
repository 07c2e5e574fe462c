SPECIFICATION FairPeriodSpec
CONSTANTS
  Procs = {p1, p2}
  Threshold = 2
  HalfOpenMax = 2
  ResetTimeout = 1
  MaxTime = 4
INVARIANT NoLostTrip
INVARIANT NoUnexpectedSuccess
PROPERTY LegalTransitions
PROPERTY ImplementsBreaker
PROPERTY ExtendedOnce
PROPERTY ProbedAfterTimeout
