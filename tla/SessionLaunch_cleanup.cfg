\* Two launchers; one unwinds late, after the other has a session of its own.
CONSTANTS
  Launcher = {l1, l2}
  Container = {c1, c2}
  Fingerprint = {f1}
  Foreign = foreign
  None = none
  Forwarding = TRUE
  KeepOptions = {FALSE}
  ForceOptions = {FALSE}
  Attempts = 1
SPECIFICATION Spec
PROPERTY
  CleanupSparesOthers
CHECK_DEADLOCK FALSE
