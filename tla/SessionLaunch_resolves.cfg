\* Two launchers under fairness: nobody waits for ever.
CONSTANTS
  Launcher = {l1, l2}
  Container = {c1, c2}
  Fingerprint = {f1}
  Foreign = foreign
  None = none
  Forwarding = FALSE
  KeepOptions = {TRUE, FALSE}
  ForceOptions = {FALSE}
  Attempts = 2
SPECIFICATION FairSpec
PROPERTY
  LaunchResolves
CHECK_DEADLOCK FALSE
