SPECIFICATION Spec
INVARIANTS
  CleanCancellation
CHECK_DEADLOCK FALSE
