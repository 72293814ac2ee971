SPECIFICATION FormationSpec
CONSTANTS
  Nodes <- MCNodes
  TotalLayers = 2
  MaxRoster = 2
  MaxGen = 4
  MaxInFlight = 0
  Names = {1, 2}
  MaxConns = 1
  Regimes <- Overlapping
PROPERTIES
  SkipOnlyIfServing
\* Once the bounded connections are used up, nothing is left to do.
CHECK_DEADLOCK FALSE
