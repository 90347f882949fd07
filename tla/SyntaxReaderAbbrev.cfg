SPECIFICATION Spec
CONSTANTS
  MaxTokens = 2
  Kinds = {"atom", "'"}
  MaxBracketed = 0
  BracketedKinds = {}
  MaxParts = 0
  NestedComments = FALSE
  Source <- MCSource
  MaxItems = 2
  MaxErrors = 2
INVARIANTS
  ValuesMatchKinds
CHECK_DEADLOCK FALSE
