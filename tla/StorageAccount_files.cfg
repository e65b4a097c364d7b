CONSTANTS
  KeyWords = 1
  MaxSaves = 1
  Default <- BuiltIn
  Givens <- MCGivens
SPECIFICATION Spec
CHECK_DEADLOCK FALSE
INVARIANTS
  TypeOK
  MapIsRead
  ResaveKeepsMap
  AuthorizationKept
  ConfigIsRead
