CONSTANTS
  Endpoints = 2
  Conn = {c1, c2, c3}
  Timely = FALSE
  Launcher = {l1}
  KeepContainer = FALSE
SPECIFICATION Spec
SYMMETRY Symmetry
CONSTRAINTS
  UntoldBound
  ErrorBound
CHECK_DEADLOCK FALSE
INVARIANTS
  TypeOK
  ControlMeansComplete
  MountIsIntact
  ClosedLeaksNothing
PROPERTIES
  ReadyIsTruthful
