SPECIFICATION FairSpec
CONSTANTS
  Conn = {c1, c2}
  Visitor = {v1}
  Id = {i1}
  MinPort = 0
  MaxPort = 1
  Tries = 2
  Secret = TRUE
  Resets = TRUE
  ControlPort = 1
  SharedAddress = FALSE
  Request <- MCRequest
  Ephemeral <- MCEphemeral
  NoVisitor = NoVisitor
  NoId = NoId
INVARIANT PortAllowed
PROPERTIES DeadClientReleased QueueDrains OpeningEnds
CHECK_DEADLOCK FALSE
