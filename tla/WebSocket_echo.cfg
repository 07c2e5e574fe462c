SPECIFICATION Spec
CONSTANTS
  Conns = {c1, c2}
  MaxConns = 1
  BufferSize = 1
  MaxServed = 2
CHECK_DEADLOCK FALSE
INVARIANT EchoAccepted
