CONSTANTS
  None = None
  Thread = {t1}
  MaxSnapshots = 1
  Ttl = 2
  Backoff = 1
  MaxTime = 3
  MaxVersion = 1
  MaxCrashes = 0
SPECIFICATION Spec
CHECK_DEADLOCK FALSE
INVARIANT
  ResponseHasFields
