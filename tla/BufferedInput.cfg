SPECIFICATION MCSpec
CONSTANTS
  Junk = 0
  MaxLength = 5
  BufSize = 5
  UngetLimit = 2
  Elem <- MCElem
  Returned = {0}
  Source <- MCSource
INVARIANTS
  TypeOK
  HasRoom
PROPERTIES
  ImplementsStream
CHECK_DEADLOCK FALSE
