\* Two launchers with unlike options and every container event.
CONSTANTS
  Launcher = {l1, l2}
  Container = {c1, c2, c3}
  Fingerprint = {f1, f2}
  Foreign = foreign
  None = none
  Forwarding = TRUE
  KeepOptions = {TRUE, FALSE}
  ForceOptions = {TRUE, FALSE}
  Attempts = 2
SPECIFICATION Spec
SYMMETRY Symmetry
INVARIANTS
  TypeOK
  CommandsRunWhereTheyBelong
  CommandStartsOnce
  BarrierHolds
CHECK_DEADLOCK FALSE
