SPECIFICATION FairSpec
CONSTANTS
  N = 2
  Interval = 3
  HealthTimeout = 3
  ClientTimeout = 2
  Threshold = 2
  GracePeriod = 3
  MaxOpen = 1
INVARIANTS
  TypeOK
  DetectionBounded
  RecoveryBounded
  ShutdownFailuresBounded
PROPERTY
  SignalEndsProcess
CHECK_DEADLOCK FALSE
