SPECIFICATION Spec
CONSTANTS
  Nodes = {"a"}
  Tasks = {2}
  Models = {"qwen", "gguf"}
  ModelOf <- MCModelOf
  NodeModels = {"qwen"}
  Permits = 1
  MaxMishaps = 1
PROPERTIES
  AutoReRegisters
