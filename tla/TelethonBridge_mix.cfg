SPECIFICATION BridgeSpec

CONSTANTS
  Me = Me
  Stranger = Stranger
  Api = Api
  OtherApi = OtherApi
  Nobody = Nobody
  Retries = 2
  SessionKinds = {"file"}
  kMaxAccounts = 2
  Uses = {"mix"}
  MaxKeys = 3
  MaxDesktops = 2
  MaxCalls = 3

INVARIANT
  OneApiPerSession

\* The calls are bounded.
CHECK_DEADLOCK FALSE
