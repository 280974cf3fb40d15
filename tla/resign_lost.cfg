CONSTANTS
  Move <- MCMove
  Legal <- MCLegal
  WinnerOf <- MCWinnerOf
  Hash <- MCHash
  InviterSeat = "first"
  PartLen = 3
  MayDecline = FALSE
  MayResign = TRUE
  MayDraw = FALSE
  Lossy = TRUE
  MaxRestarts = 0
  MaxPly = 2
  WinPly = 1
SPECIFICATION FairEndSpec
CHECK_DEADLOCK FALSE
PROPERTIES
  EndReachesBoth
