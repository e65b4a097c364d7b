SPECIFICATION Spec

CONSTANTS
  Auths = {a1, a2}
  Unset = Unset
  FreshDcs = {a1, Unset}

INVARIANTS
  TypeOK
  NeverBlended
  AccountIsOne
PROPERTIES
  KeptWithoutOverwrite
  ReturnsOwnSession
  ReadLeavesStorage
