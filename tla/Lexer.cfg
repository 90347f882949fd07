SPECIFICATION FairSpec
CONSTANTS
  Source <- MCSource
  Code <- MCCode
  IntegerLimit = 512
INVARIANTS
  TypeOK
  TokenizesTheText
  ReportsWrongText
PROPERTY
  Terminates
CHECK_DEADLOCK FALSE
