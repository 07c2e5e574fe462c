SPECIFICATION FairSpec
CONSTANTS
  Conns = {c1, c2}
  MaxConns = 1
  BufferSize = 1
  MaxServed = 1
CHECK_DEADLOCK FALSE
INVARIANT OnCloseOnce
INVARIANT CloseReturnsComplete
INVARIANT ActiveIsServed
PROPERTY ClosePropagates
