SPECIFICATION Spec
CONSTANTS
  Name = {n1, n2}
  MaxSymbols = 3
  MaxScopes = 4
  MaxBindings = 4
  MaxStamp = 1
INVARIANTS
  TypeOK
  Interned
  ScopesNested
  PopAssertion
  LookupsAgree
PROPERTIES
  CapturedScopeStable
  ImplementsEnv
SYMMETRY NameSymmetry
CHECK_DEADLOCK FALSE
