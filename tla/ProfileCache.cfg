CONSTANTS
  None = None
  Thread = {t1, t2}
  MaxSnapshots = 3
  Ttl = 2
  Backoff = 1
  MaxTime = 3
  MaxVersion = 2
  MaxCrashes = 1
SPECIFICATION Spec
CHECK_DEADLOCK FALSE
INVARIANTS
  TypeOK
  CachedIsNewestSnapshot
  BackoffRespected
  AttemptUnsetOnce
  FallbackUnreachable
  ResponseInOrder
PROPERTIES
  StaleOnlyWithReason
SYMMETRY ThreadSymmetry
