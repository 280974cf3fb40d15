CONSTANTS
  Request = {r1}
  Choice = {"a", "b"}
  LastPly = 3
  MaxOverlaps = 1
SPECIFICATION NodeSpec
CHECK_DEADLOCK FALSE
INVARIANT NobodyBreaks
