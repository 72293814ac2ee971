SPECIFICATION PipelineSpec
CONSTANTS
  Nodes = {"a", "b"}
  TotalLayers = 3
  LayersPer = 2
  MaxRounds = 2
  MaxPosts = 1
  MaxMishaps = 1
  Calls = {"one", "import", "again"}
  Ids = {"i0", "i1", "i2", "i3", "i4", "i5", "i6", "i7", "i8", "i9"}
  Hashes = {"h1", "h2", "h3", "h4", "h5"}
  Batch <- InstanceBatch
  Jobs = {"j"}
  Lines = 5
  ShardSize = 2
  MaxSubmits = 2
  ProviderCount = 2
  DailyLimit <- InstanceLimits
  Penalty = 100
  MaxRequests = 6
  Workloads <- InstanceWorkloads
\* Calls, rounds and mishaps run out, and the jobs of clients may be left alone.
CHECK_DEADLOCK FALSE
INVARIANTS
  PipelineTypeOK
  DoneMeansAllComplete
  NoTwins
  AcceptedIsStored
  AggregatesWhole
  OnlyUnlimitedExceed
PROPERTIES
  AcceptedStays
  RoundsComplete
