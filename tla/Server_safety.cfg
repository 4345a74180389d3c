SPECIFICATION Spec
CONSTANTS
  Conn = {c1, c2, c3}
  Visitor = {v1, v2}
  Id = {i1, i2}
  MinPort = 2
  MaxPort = 3
  Tries = 1
  Secret = FALSE
  Resets = FALSE
  ControlPort = 3
  SharedAddress = TRUE
  Request <- MCRequest
  Ephemeral <- MCEphemeral
  NoVisitor = NoVisitor
  NoId = NoId
SYMMETRY Symmetry
INVARIANTS SingleOwner HeldIsOpen OnlyExpiryForgets AnnouncedIsFound RegistryExact
CHECK_DEADLOCK FALSE
