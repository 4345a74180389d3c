SPECIFICATION Spec
CONSTANTS
  MaxLength = 2
  StreamLength = 8
  Streams <- MCStreams
  Caller = {r1}
INVARIANTS TypeOK FramesAreSegments NothingSkipped InOrder NoLostWakeup HandoffKeepsBuffer
CHECK_DEADLOCK FALSE
