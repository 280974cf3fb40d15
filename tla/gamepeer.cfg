CONSTANTS
  Move <- MCMove
  Legal <- MCLegal
  WinnerOf <- MCWinnerOf
  Hash <- MCHash
  InviterSeat = "second"
  PartLen = 2
  MayDecline = TRUE
  MayResign = TRUE
  MayDraw = TRUE
  Lossy = FALSE
  MaxRestarts = 1
  MaxPly = 3
  WinPly = 0
SPECIFICATION Spec
CHECK_DEADLOCK FALSE
INVARIANTS
  OneHistory
  LeadAtMostOne
  NoFalseAccusation
  MessagesTruthful
  EndInv
  ResignIsOwn
  DrawByConsent
  RulesAgree
  NudgeCarriesTheLead
PROPERTIES
  LogOnlyGrows
  PlaysOneGame
  FinishedIsFinal
