SPECIFICATION Spec
CONSTANTS
  Socket = {s1, s2, s3, s4}
  Call = {a1, a2, a3}
INVARIANTS NoneLost WaitersWait
PROPERTY Implements
