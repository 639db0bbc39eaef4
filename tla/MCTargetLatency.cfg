SPECIFICATION FairSpec
CONSTANTS
  Submitters = {s1}
  Slices <- MCShortSlices
  Rates = {0, 2}
  MinRate = 1
  MaxRate = 2
  StartRate = 1
  HwRate = 2
  Avb = TRUE
  MinPoints = 1
  MaxQueuedPoints = 5
  StartLatency = 1
  MaxLatency = 3
  LatencyStep = 1
  UnderrunFloor = 2
  AutoLatency = TRUE
  IdleLimit = 1
  SampleWindow = 2
  Cooldown = 2
  Requests <- MCRequests
  MaxDownstream = 0
  MaxReceived = 3
  AccumulatorCap = 3
INVARIANT HoldCanEnd
PROPERTY StarvationRearms
