SPECIFICATION FairSpec
CONSTANT Requests = {r1, r2}
CHECK_DEADLOCK FALSE
INVARIANT ErrorsReported
INVARIANT DrainedWhenNil
PROPERTY StopReturns
PROPERTY NoTaskLeaks
