SPECIFICATION KvSpec
CONSTANTS
  r1 = r1
  r2 = r2
  r3 = r3
  Requests = {r1, r2, r3}
  Worlds <- AllWorlds
  IdleTime = 2
  RequestTime = 1
  Prompt = 2
INVARIANTS
  AnswersWhole
PROPERTIES
  IdleReleased
CHECK_DEADLOCK FALSE
