CONSTANTS
  Endpoints = 1
  Conn = {c1, c2, c3}
  Timely = FALSE
  Launcher = {l1}
  KeepContainer = TRUE
SPECIFICATION Spec
SYMMETRY Symmetry
CHECK_DEADLOCK FALSE
INVARIANTS
  MountIsIntact
