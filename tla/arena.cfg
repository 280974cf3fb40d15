CONSTANTS
  COLS = 3
  ROWS = 3
  LINE = 3
  SIZE = 4
  Depth <- MCDepth
  Orders <- MCOrders
  Setups <- MCSetups
  GameCap = 2
  PlyCap = 2
  MinInterval = 1
  NudgeAfter = 1
  MaxLosses = 2
  PathTimeout = 1
  MaxInbound = 2
  Request = {r1, r2}
  Choice = {"a", "b"}
  LastPly = 3
  MaxOverlaps = 0
SPECIFICATION Spec
CHECK_DEADLOCK FALSE
INVARIANTS
  EndAgrees
  SymmetricRules
  CapHolds
  
PROPERTIES
  BotPlaysABest
  SoakMakesGood
  
