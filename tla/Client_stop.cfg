SPECIFICATION Spec
CONSTANTS
  Task = {t1}
  Secret = FALSE
  MaxAddresses = 1
INVARIANT ShutdownReleases
CHECK_DEADLOCK FALSE
