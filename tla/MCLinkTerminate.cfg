CONSTANTS
  Controllers = {c1, c2}
  Hosts = {h1, h2}
  UnknownHost = unknown
  DefaultHost = h1
  OptionSets = {"o1"}
  DiscoveryResults <- MCEverything
  ConnectMayFail = TRUE
  HostMayFail = TRUE
  SavedRoutes <- MCNoRoutes
  MaxUserActions = 2
SPECIFICATION Spec
CHECK_DEADLOCK FALSE
INVARIANT
  NeverTerminates
