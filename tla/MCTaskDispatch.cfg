SPECIFICATION Spec
CONSTANTS
  Nodes = {"a"}
  Tasks = {1, 2}
  Models = {"qwen", "gguf"}
  ModelOf <- MCModelOf
  NodeModels = {"qwen"}
  Permits = 2
  MaxMishaps = 1
INVARIANTS
  TypeOK
  PendingIsQueued
  QueueExact
PROPERTIES
  EndedStays
  ReaperReturns
  EventuallyEnded
