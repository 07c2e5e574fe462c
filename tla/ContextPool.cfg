SPECIFICATION FairSpec
CONSTANTS
  Requests = {q1, q2, q3}
  Instances = {o1}
  None = None
CHECK_DEADLOCK FALSE
INVARIANT CopiesBounded
INVARIANT IsolatedUntilTimeout
INVARIANT ForeignErrorNeedsTimeout
INVARIANT CrashNeedsDoublePut
PROPERTY ForeignCancelNeedsDoublePut
PROPERTY LeasesEnd
