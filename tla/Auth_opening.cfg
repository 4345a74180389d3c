SPECIFICATION Spec
CONSTANTS
  Secret = {k1, k2}
  None = none
INVARIANTS Agreement ConnectedIsServed Outcome
PROPERTY BothDecide
CHECK_DEADLOCK FALSE
