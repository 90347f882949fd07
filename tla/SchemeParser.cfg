SPECIFICATION FairSpec
CONSTANTS
  Source <- BodiesOfForms
  Syntax <- Parts
INVARIANTS
  TypeOK
  Hygienic
  ReportsWrongText
  ScopesMatchPops
  MarksCancel
  VariablesReachable
  WholeTree
PROPERTIES Terminates ImplementsHygienic
CHECK_DEADLOCK FALSE
