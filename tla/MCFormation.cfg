SPECIFICATION FormationSpec
CONSTANTS
  Nodes <- MCNodes
  TotalLayers = 2
  MaxRoster = 2
  MaxGen = 8
  MaxInFlight = 0
  Names = {1, 2}
  MaxConns = 3
  Regimes <- RoughOrCalm
INVARIANTS
  FormationTypeOK
  PendingSlotMoves
  OneEntryPerName
  EntryFollowsNode
  SettledAgreement
PROPERTIES
  SwapsWhenAllServe
  EventuallyServes
\* Once the bounded connections are used up, nothing is left to do.
CHECK_DEADLOCK FALSE
