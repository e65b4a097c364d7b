SPECIFICATION Spec

CONSTANTS
  Users = {u1, u2}
  Passcodes = {p0, p1}
  NoPasscode = p0
  Folders = {f1}
  NoFolder = NoFolder
  KeyFiles = {data}
  DefaultKeyFile = data
  NoArg = NoArg
  RandomKeys = {k1, k2, k3, k4}
  PerfKey = PerfKey
  NoKey = NoKey
  NoUser = NoUser
  MaxAccounts = 2
  ForeignLists <- NoLists
  Uses = {"crash", "fault"}

SYMMETRY Symmetry

INVARIANTS
  SavedSlotsOpen
  AccountsShareLocalKey
  ResaveRisksOneAccount
PROPERTY
  ImplementsVault
