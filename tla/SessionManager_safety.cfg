\* Two wrappers that race each other, the timer and the shutdowns.
SPECIFICATION Spec
CONSTANTS
  Wrapper = {w1, w2}
  MaxAttempts = 1
SYMMETRY Symmetry
INVARIANTS
  TypeOK
  IdleShutdownSparesCommands
  IdleManagerIsTimed
  RefusedMeansStopping
PROPERTIES
  ShutdownIsAnnounced
  ImplementsLifetime
