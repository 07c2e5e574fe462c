SPECIFICATION RouterSpec
CONSTANTS
  Requests = {q1, q2}
  MaxRegistrations = 5
  MaxHandlers = 2
SYMMETRY Symmetry
CHECK_DEADLOCK FALSE
INVARIANT RouterTypeOK
INVARIANT WholeChain
INVARIANT RunsUntilError
INVARIANT EndsCounted
