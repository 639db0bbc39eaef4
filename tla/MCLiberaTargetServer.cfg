\* Three clients race for one session and two socket slots; one of them may
\* fall silent at any point, and stop() may be called at any point.
CONSTANTS
  Clients = {c1, c2, c3}
  MayStall = {c1}
  Nobody = Nobody
  Leftover = Leftover
  MaxConcurrentSockets = 2
  HandshakeTimeout = 1
  SessionTimeout = 2
  MaxFramePoints = 2
  PointCounts = {0, 2}
  Rates = {0, 5}
  MinPointRate = 1
  MaxPointRate = 3
  TargetMaxRate = 2
  DefaultRate = 1
SPECIFICATION FairSpec
CHECK_DEADLOCK FALSE
INVARIANTS
  ServerConsistent
  PendingFrameSane
PROPERTIES
  ImplementsExclusiveSink
  SilentClientsAreDropped
  StopReturns
