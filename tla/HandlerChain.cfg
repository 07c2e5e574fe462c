SPECIFICATION FairSpec
CONSTANTS
  MaxLength = 3
  MaxCalls = 2
CHECK_DEADLOCK FALSE
INVARIANT TypeOK
INVARIANT InOrderOnce
INVARIANT NoneSkipped
INVARIANT AbortStopsAllButOne
INVARIANT FirstPanicContained
PROPERTY TimeoutBoundsRequest
