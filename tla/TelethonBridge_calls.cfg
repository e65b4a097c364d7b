SPECIFICATION BridgeSpec

CONSTANTS
  Me = Me
  Stranger = Stranger
  Api = Api
  OtherApi = OtherApi
  Nobody = Nobody
  Retries = 2
  SessionKinds = {"file"}
  kMaxAccounts = 2
  Uses = {}
  MaxKeys = 3
  MaxDesktops = 2
  MaxCalls = 3

INVARIANTS
  BridgeTypeOK
  ReturnsAuthorized
  OneApiPerSession
  AccountsNumbered
PROPERTIES
  CreatedIsNew
  AllListedGone
  CallEnds

\* The calls are bounded.
CHECK_DEADLOCK FALSE
