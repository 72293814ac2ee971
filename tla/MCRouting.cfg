SPECIFICATION RoutingSpec
CONSTANTS
  Nodes = {1, 2, 3}
  TotalLayers = 3
  MaxRoster = 3
  MaxGen = 4
  MaxInFlight = 2
  Requests = {"r1", "r2"}
  MaxTokens = 2
  Worlds <- StableOrChurning
INVARIANTS
  RoutingTypeOK
  NoneLeftCounted
  NoOrphans
  OneHopAtATime
  TokensWhole
  KvReleased
PROPERTIES
  DisconnectFailsRequest
  EventuallyText
\* Once every request is answered, nothing is left to do.
CHECK_DEADLOCK FALSE
