SPECIFICATION FairSpec
CONSTANTS
  Submitters = {s1}
  Slices <- MCShortSlices
  Rates = {2}
  MinRate = 1
  MaxRate = 2
  StartRate = 1
  HwRate = 1
  Avb = FALSE
  MinPoints = 1
  MaxQueuedPoints = 2
  StartLatency = 1
  MaxLatency = 1
  LatencyStep = 1
  UnderrunFloor = 1
  AutoLatency = FALSE
  IdleLimit = 0
  SampleWindow = 0
  Cooldown = 0
  Requests <- MCRequests
  MaxDownstream = 0
  MaxReceived = 2
  AccumulatorCap = 0
PROPERTY FramesKeepPending
