CONSTANTS
  Move <- MCMove
  Legal <- MCLegal
  WinnerOf <- MCWinnerOf
  Hash <- MCHash
  InviterSeat = "first"
  PartLen = 3
  MayDecline = FALSE
  MayResign = FALSE
  MayDraw = FALSE
  Lossy = TRUE
  MaxRestarts = 1
  MaxPly = 2
  WinPly = 1
SPECIFICATION FairSpec
CHECK_DEADLOCK FALSE
PROPERTIES
  GameCompletes
