SPECIFICATION FairSpec
CONSTANTS
  Source <- MCSource
  Window = {4, 6}
  OutSize = 2
  StackByte = {0, 128, 255}
INVARIANTS
  TypeOK
  DecodesTheText
  ReportsIllFormed
  StopsBetweenCharacters
PROPERTY
  ReachesTheEnd
CHECK_DEADLOCK FALSE
