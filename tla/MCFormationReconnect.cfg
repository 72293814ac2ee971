SPECIFICATION FormationSpec
CONSTANTS
  Nodes <- MCNodes
  TotalLayers = 2
  MaxRoster = 1
  MaxGen = 4
  MaxInFlight = 0
  Names = {1}
  MaxConns = 2
  Regimes <- Reconnecting
PROPERTIES
  EventuallyServes
\* Once the bounded connections are used up, nothing is left to do.
CHECK_DEADLOCK FALSE
