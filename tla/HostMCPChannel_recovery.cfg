CONSTANTS
  Endpoints = 1
  Conn = {c1, c2}
  Timely = TRUE
  Launcher = {l1}
  KeepContainer = TRUE
SPECIFICATION FairSpec
CONSTRAINT ErrorBound
ACTION_CONSTRAINT LiveBound
CHECK_DEADLOCK FALSE
INVARIANTS
  RemovalProvesSessionGone
PROPERTIES
  OrphanedSidecarExits
  RecoveryReattaches
