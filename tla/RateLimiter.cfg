SPECIFICATION PSpec
CONSTANTS
  Keys = {k1}
  MaxRate = 3
  Period = 4
  Scale = 2
  MaxTime = 10
  GroupRate = 1
  MaxPending = 3
  MaxPolls = 8
INVARIANT WindowBound
PROPERTY RejectedOnlyIfHasty
PROPERTY PollCostsOneUnit
