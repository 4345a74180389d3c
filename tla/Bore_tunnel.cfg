SPECIFICATION Spec
CONSTANTS
  Visitor = {1, 2}
  Id = {1, 2}
  NoVisitor = NoVisitor
  NoId = NoId
INVARIANT LocalServesVisitor
PROPERTIES Implements Served NothingHangs
CHECK_DEADLOCK FALSE
