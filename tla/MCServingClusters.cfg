SPECIFICATION Spec
CONSTANTS
  Nodes = {n1, n2, n3}
  TotalLayers = 2
  MaxRoster = 3
  MaxGen = 3
  MaxInFlight = 1
SYMMETRY Symmetry
INVARIANTS
  TypeOK
  LayersPartitioned
  GenerationOrder
  PendingAwaitsANode
  LoadOnlyOnceActive
PROPERTIES
  PromotionServes
  BusyGenerationDrains
  LifecycleUnlessOverwritten
