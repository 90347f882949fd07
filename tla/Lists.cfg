SPECIFICATION ListsSpec
CONSTANTS
  Item = {a, b, c, d}
  List = {l, m, n}
  Null = null
SYMMETRY Symmetry
INVARIANTS
  ContentsAreIterated
  AssertionsHold
