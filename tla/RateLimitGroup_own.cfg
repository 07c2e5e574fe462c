SPECIFICATION MSpec
CONSTANTS
  Keys = {k1}
  MaxRate = 4
  Period = 4
  Scale = 2
  MaxTime = 4
  GroupRate = 1
  MaxPending = 1
INVARIANT GroupLimited
