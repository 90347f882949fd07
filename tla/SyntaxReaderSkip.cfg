SPECIFICATION FairSpec
CONSTANTS
  MaxTokens = 3
  Kinds = {"(", ")", "[", "]"}
  MaxBracketed = 0
  BracketedKinds = {}
  MaxParts = 0
  NestedComments = FALSE
  Source <- MCSource
  MaxItems = 2
  MaxErrors = 2
PROPERTIES
  SkipsInvalidTokens
CHECK_DEADLOCK FALSE
