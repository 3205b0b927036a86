SPECIFICATION FairSpec
CONSTANTS
  LocalHoldTimes = {6, 9}
  HoldTimes = {3, 6, 12}
  ConnectRetryInt = 2
  MaxBackoff = 3
  RcvTimeo = 1
  MaxStalls = 2
  MaxInbox = 1
  MaxRetries = 2
  MaxPending = 1
  MaxAgo = 31
  Requests = {"reconnect", "refresh"}
INVARIANTS
  ResourcesByState
  SilentPeerDropped
  KeepalivesInTime
PROPERTIES
  DataAreRead
