SPECIFICATION SubmitOnlySpec
CONSTANTS
  Submitters = {s1, s2}
  Slices <- MCShortSlices
  Rates = {2}
  MinRate = 1
  MaxRate = 2
  StartRate = 1
  HwRate = 1
  Avb = FALSE
  MinPoints = 1
  MaxQueuedPoints = 5
  StartLatency = 1
  MaxLatency = 1
  LatencyStep = 1
  UnderrunFloor = 2
  AutoLatency = FALSE
  IdleLimit = 1
  SampleWindow = 0
  Cooldown = 0
  Requests <- MCRequests
  MaxDownstream = 0
  MaxReceived = 2
  AccumulatorCap = 3
INVARIANT SubmissionsSerialized
