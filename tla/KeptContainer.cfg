SPECIFICATION FairLifeSpec
CONSTANTS
  Names = {"host", "service", "root", "ubuntu", "users", "elsewhere", "none"}
  Databases <- MCDatabases
  Tmpfs = 1
  MaxTrouble = 2
INVARIANTS
  TypeInvariant
  DockerdOutlivesManager
  NothingIsLeftBehind
  LeaseCoversRun
  SuccessHidesNothing
  ServingIsComplete
PROPERTIES
  ServeReturns
  RestartOnlyRepairs
  BootstrapConverges
