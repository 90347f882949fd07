SPECIFICATION Spec
CONSTANTS
  Char = {"a", "b"}
  Junk = "junk"
  Piece <- MCPiece
  Encoding <- MCEncoding
  StaticSize = 2
  EncodingRoom = 3
  MaxMemory = 3
  MaxLen = 6
INVARIANTS
  TypeOK
  FreesOnlyItsOwn
PROPERTY
  ImplementsBuilder
CONSTRAINT Bounded
CHECK_DEADLOCK FALSE
