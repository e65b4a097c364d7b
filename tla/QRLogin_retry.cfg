SPECIFICATION Spec

CONSTANTS
  Me = Me
  Stranger = Stranger
  Api = Api
  OtherApi = OtherApi
  Nobody = Nobody
  Retries = 3
  SessionKinds = {"file"}


PROPERTY
  RetryReturnsClient

\* The call returns once.
CHECK_DEADLOCK FALSE
