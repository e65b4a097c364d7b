SPECIFICATION Spec

CONSTANTS
  Users = {u1}
  Passcodes = {p0, p1}
  NoPasscode = p0
  Folders = {f1}
  NoFolder = NoFolder
  KeyFiles = {data}
  DefaultKeyFile = data
  NoArg = NoArg
  RandomKeys = {k1, k2}
  PerfKey = PerfKey
  NoKey = NoKey
  NoUser = NoUser
  MaxAccounts = 2
  ForeignLists <- GapLists
  Uses = {"performance", "reload", "keyFile"}

SYMMETRY Symmetry

INVARIANTS
  TypeOK
  WrapsLocalKey
