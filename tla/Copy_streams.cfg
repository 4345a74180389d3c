SPECIFICATION Spec
CONSTANTS
  HighWaterMark = 2
  MaxChunks = 3
INVARIANTS TypeOK Complete HalfOpen NoStall
PROPERTY Released
CHECK_DEADLOCK FALSE
