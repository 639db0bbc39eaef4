SPECIFICATION MCSpec
CONSTANTS
  Targets = {1, 2}
  LbConfigs <- MCLbConfigs
  DefaultTcpPort = 1
  MaxPort = 3
  ForeignPorts = {2}
  Width = 4
  EdConfigs <- MCEdConfigs
  InterfaceLists <- MCInterfaceLists
  ForeignAddresses = {13}
  MaxLost = 1
  MaxCrashes = 1
INVARIANTS
  FleetConsistent
  PortsDistinct
  AddressesAccounted
  EndpointsCurrent
PROPERTIES
  UnaffectedTargetsStay
  UpdateReturns
  AddedTargetsAreAdvertised
