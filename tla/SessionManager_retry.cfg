\* One wrapper that retries, so that its earlier connections linger, under
\* fairness.
SPECIFICATION FairSpec
CONSTANTS
  Wrapper = {w1}
  MaxAttempts = 2
INVARIANTS
  AcknowledgedIsCounted
PROPERTIES
  ShutdownCompletes
  AbandonedManagerStops
  RegistrationResolves
