CONSTANTS
  GameCap = 1
  PlyCap = 3
  MinInterval = 1
  NudgeAfter = 1
  MaxLosses = 2
SPECIFICATION FairSoakSpec
CHECK_DEADLOCK FALSE
PROPERTIES
  SoakEnds
