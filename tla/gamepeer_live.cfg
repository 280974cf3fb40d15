CONSTANTS
  Move <- MCMove
  Legal <- MCLegal
  WinnerOf <- MCWinnerOf
  Hash <- MCHash
  InviterSeat = "first"
  PartLen = 3
  MayDecline = FALSE
  MayResign = FALSE
  MayDraw = FALSE
  Lossy = TRUE
  MaxRestarts = 0
  MaxPly = 3
  WinPly = 2
SPECIFICATION FairSpec
CHECK_DEADLOCK FALSE
PROPERTIES
  GameCompletes
