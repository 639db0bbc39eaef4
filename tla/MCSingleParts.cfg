SPECIFICATION PartsSpec
CONSTANTS
  Capacity = 3
  MaxRate = 2
  DefaultRate = 1
  MaxRateQueue = 2
  WireRates = {0, 2, 3}
  WireCounts = {0, 1, 3, 4}
  MaxDue = 4
  MaxPrepares = 3
  Registrations <- MCRegistrations
  Argvs <- MCArgvs
  Controllers = {c1, c2}
  Virtual = {c2}
  SettleWindow = 1
  Programs = {p1, p2}
  MaxLines = 1
  MaxPersistentBytes = 2
  LineSizes = {1, 2}
  MaxWritten = 2
  MaxFailures = 1
  Ids = {"a", "#b"}
  Lossy = {"#b"}
  Types = {"IDN"}
  HostSets <- MCHostSets
  MaxFaults = 1
  Devices = {d1, d2}
  PointRates = {1, 2}
  MaxAvbFaults = 1
INVARIANTS
  DeviceConsistent
  EstopIsSafe
  NothingStale
  TargetResetWhenStopped
  ReportedRoomIsReal
  OptionsMatchReference
  LogConsistent
  SettingsConsistent
  AvbErrorShown
PROPERTIES
  PlayNeedsPrepare
  SilentClientStopsPlaying
  InterruptEnds
