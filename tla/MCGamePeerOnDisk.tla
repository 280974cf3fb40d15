-------------------------- MODULE MCGamePeerOnDisk --------------------------
(***************************************************************************)
(* GamePeerOnDisk with MCGamePeer's small game.                             *)
(***************************************************************************)
EXTENDS GamePeerOnDisk

CONSTANTS MaxPly, WinPly

MCMove == {"quiet", "sharp"}

MCWinnerOf(h) ==
  IF Len(h) > WinPly /\ Last(h) = "sharp" THEN SeatAt(Len(h) - 1)
  ELSE IF Len(h) >= MaxPly THEN "draw" ELSE "none"

MCLegal(h, m) ==
  /\ MCWinnerOf(h) = "none"
  /\ m = "sharp" /\ h # <<>> => Last(h) # "sharp"

MCHash(h) == h
=============================================================================
