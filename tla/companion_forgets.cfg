CONSTANTS
  Text <- MCText
  Kind <- MCKind
  Names <- MCNames
  MoveOf <- MCMoveOf
  Move <- MCMove
  Legal <- MCLegal
  WinnerOf <- MCWinnerOf
  Garbage = Garbage
  MaxGames = 2
  MaxFaults = 1
  MayFail = FALSE
  MaxPly = 4
  WinPly = 1
SPECIFICATION Spec
CHECK_DEADLOCK FALSE
PROPERTY CurrentGameComesBack
