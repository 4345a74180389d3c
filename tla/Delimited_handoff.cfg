SPECIFICATION Spec
CONSTANTS
  MaxLength = 2
  StreamLength = 4
  Streams <- MCStreams
  Caller = {r1}
INVARIANT HandoffLossless
CHECK_DEADLOCK FALSE
