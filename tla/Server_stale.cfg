SPECIFICATION Spec
CONSTANTS
  Conn = {c1, c2}
  Visitor = {v1}
  Id = {i1}
  MinPort = 2
  MaxPort = 3
  Tries = 2
  Secret = FALSE
  Resets = FALSE
  ControlPort = 3
  SharedAddress = TRUE
  Request <- MCRequest
  Ephemeral <- MCEphemeral
  NoVisitor = NoVisitor
  NoId = NoId
INVARIANT NothingForgotten
CHECK_DEADLOCK FALSE
