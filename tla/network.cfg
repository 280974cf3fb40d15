CONSTANTS
  BUDGET = 22
  HashLen = 1
  Peer = {p1, p2}
  MAX_PAYLOAD_BYTES = 23
  InboxLimit = 2
  MoveBytes = {1, 2}
  Texts <- MCTexts
  MaxPackets = 4
  Message <- MCMessage
  Card <- MCCard
  Typed <- MCTyped
  Catalog = 3
  GID_LEN = 2
  PUBLIC_KEY_LEN = 2
  SIGNATURE_LEN = 2
  MAX_NAME_LEN = 2
  Sign <- MCSign
  Noise = {0, 1, 16, 255}
  Node = {n1, n2}
  MaxAge = 2
  MaxDelay = 1
  MaxTime = 5
  MaxCards = 2
  Name = {1, 2}
  Browser = {b1, b2}
  ChallengeTTL = 0
  SessionTTL = 0
  MaxBoots = 2
  MaxClaims = 2
  MaxMail = 1
  MaxClock = 1
SPECIFICATION Spec
SYMMETRY Symmetry
CHECK_DEADLOCK FALSE
INVARIANTS
  LossIsCounted
  AnsweredWhereHeard
  FramesFit
  FreshWasAnnounced
  NewestWins
  
  SeatIsWhole
  RefusedOnlyByOverlap
  MailIsKept
  
