SPECIFICATION Spec
CONSTANTS
  Capacity = 3
  MaxRate = 2
  DefaultRate = 1
  MaxRateQueue = 2
  WireRates = {0, 2, 3}
  WireCounts = {0, 1, 3, 4}
  MaxDue = 4
  MaxPrepares = 3
INVARIANT SessionCloseResetsSink
CHECK_DEADLOCK FALSE
