SPECIFICATION Spec
CONSTANTS
  Source <- EscapedNames
  Code <- MCCode
  IntegerLimit = 512
INVARIANT EscapeStartsIdentifier
CHECK_DEADLOCK FALSE
