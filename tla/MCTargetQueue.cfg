SPECIFICATION Spec
CONSTANTS
  Submitters = {s1, s2}
  Slices <- MCSlices
  Rates = {2}
  MinRate = 1
  MaxRate = 2
  StartRate = 1
  HwRate = 1
  Avb = FALSE
  MinPoints = 1
  MaxQueuedPoints = 2
  StartLatency = 1
  MaxLatency = 1
  LatencyStep = 1
  UnderrunFloor = 1
  AutoLatency = FALSE
  IdleLimit = 0
  SampleWindow = 0
  Cooldown = 0
  Requests <- MCRequests
  MaxDownstream = 1
  MaxReceived = 3
  AccumulatorCap = 0
INVARIANTS SinkConsistent QueueIsNewestSuffix
PROPERTIES AcceptedPointsAreQueued ImplementsAtomicSink
SYMMETRY Threads
