SPECIFICATION MCSpec
CONSTANTS
  Worlds <- MCWorlds
  Edits <- MCEdits
  Hosts <- MCHosts
  Loopback <- MCLoopback
  Configurations <- MCConfigurations
  Initializer = {p1, p2}
  Available <- MCAvailable
  Clashing <- MCClashing
  Checkouts <- MCCheckouts
  CommonEdits <- MCCommonEdits
  ConfigEdits <- MCConfigEdits
  MaxEdits = 1
INVARIANTS
  AccessIsAsAsked
  RegistryIsProtected
  RolesAreServed
  EveryServerIsForwarded
  RestartKeepsSockets
  RefusalIsJustified
  LaunchIsUnaffected
  InitLeavesNoGap
CHECK_DEADLOCK FALSE
