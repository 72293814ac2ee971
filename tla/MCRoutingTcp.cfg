SPECIFICATION RoutingSpec
CONSTANTS
  Nodes = {1, 2}
  TotalLayers = 2
  MaxRoster = 2
  MaxGen = 1
  MaxInFlight = 2
  Requests = {"r1", "r2"}
  MaxTokens = 2
  Worlds <- OverTcp
PROPERTIES
  EventuallyText
\* Once every request is answered, nothing is left to do.
CHECK_DEADLOCK FALSE
