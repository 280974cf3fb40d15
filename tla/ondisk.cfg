CONSTANTS
  Move <- MCMove
  Legal <- MCLegal
  WinnerOf <- MCWinnerOf
  Hash <- MCHash
  InviterSeat = "first"
  PartLen = 2
  MayDecline = TRUE
  MayResign = FALSE
  MayDraw = FALSE
  Lossy = FALSE
  MaxRestarts = 2
  MaxPly = 3
  WinPly = 2
  Garbage = Garbage
SPECIFICATION DiskSpec
CHECK_DEADLOCK FALSE
INVARIANTS
  SafeUntilLost
  LogsReplay
  CleanFileIsLog
PROPERTIES
  ShrinksOnlyAtRestart
