SPECIFICATION FairSpec
CONSTANTS
  MaxTokens = 6
  Kinds = {"atom", "(", ")", ".", "#;", "none"}
  MaxBracketed = 5
  BracketedKinds = {"atom", "(", ")", "[", "]", "#(", ".", "#;", "'"}
  MaxParts = 4
  NestedComments = FALSE
  Source <- MCSource
  MaxItems = 10
  MaxErrors = 7
INVARIANTS
  TypeOK
  DeliversTheText
  ReportsBadText
PROPERTIES
  Terminates
CHECK_DEADLOCK FALSE
