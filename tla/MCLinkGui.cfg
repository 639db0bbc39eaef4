\* Failures everywhere, two user actions.  The frame loop, the calls and the
\* monitor are fair; the user is not.
CONSTANTS
  Controllers = {c1, c2}
  Hosts = {h1, h2}
  UnknownHost = unknown
  DefaultHost = h1
  OptionSets = {"o1", "o2"}
  DiscoveryResults <- MCAllOrNothing
  ConnectMayFail = TRUE
  HostMayFail = TRUE
  SavedRoutes <- MCStaleRoutes
  MaxUserActions = 2
SPECIFICATION MCFairSpec
CHECK_DEADLOCK FALSE
INVARIANTS
  LinkConsistent
  CallsExclusive
PROPERTIES
  CloseReturns
  GuiSettles
