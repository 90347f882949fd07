SPECIFICATION Spec
CONSTANTS
  Program <- Programs
  PARAM_COUNT = 4
  MaxStack = 12
INVARIANTS
  TypeOK
  RunsAsMeant
  RunsSafely
