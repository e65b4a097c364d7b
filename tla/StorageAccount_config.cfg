CONSTANTS
  KeyWords = 1
  MaxSaves = 1
  Default <- BuiltIn
  Givens <- MCGivens
SPECIFICATION Spec
CHECK_DEADLOCK FALSE
INVARIANT ConfigKept
