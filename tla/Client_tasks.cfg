SPECIFICATION Spec
CONSTANTS
  Task = {t1, t2}
  Secret = TRUE
  MaxAddresses = 2
INVARIANTS ActiveExact DoneHoldsNothing AnnouncedServed
PROPERTY TaskEnds
CHECK_DEADLOCK FALSE
