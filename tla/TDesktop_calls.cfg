SPECIFICATION Spec

CONSTANTS
  Users = {u1, u2}
  Passcodes = {p0, p1}
  NoPasscode = p0
  Folders = {f1, f2}
  NoFolder = NoFolder
  KeyFiles = {data}
  DefaultKeyFile = data
  NoArg = NoArg
  RandomKeys = {k1, k2, k3}
  PerfKey = PerfKey
  NoKey = NoKey
  NoUser = NoUser
  MaxAccounts = 2
  ForeignLists <- DenseLists
  Uses = {}

SYMMETRY Symmetry

INVARIANTS
  EveryAccountSaved
  IndicesDistinct
  MainAccountListed
PROPERTY
  LoadRestores
