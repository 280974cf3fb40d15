----------------------------- MODULE MCGamePeer -----------------------------
(***************************************************************************)
(* GamePeer with a small game: at most MaxPly plies of "quiet" and "sharp"  *)
(* moves. Two sharp moves in a row are illegal; a sharp move from WinPly on *)
(* wins; a full board is a draw. Games end early and late, by either seat   *)
(* or nobody, and what is legal depends on the moves before.                *)
(***************************************************************************)
EXTENDS GamePeer

CONSTANTS MaxPly,   \* plies a game can last
          WinPly    \* the first ply a sharp move wins at

MCMove == {"quiet", "sharp"}

MCWinnerOf(h) ==
  IF Len(h) > WinPly /\ Last(h) = "sharp" THEN SeatAt(Len(h) - 1)
  ELSE IF Len(h) >= MaxPly THEN "draw" ELSE "none"

MCLegal(h, m) ==
  /\ MCWinnerOf(h) = "none"
  /\ m = "sharp" /\ h # <<>> => Last(h) # "sharp"

(* The strictest hash: it tells any two histories apart (as chess does).    *)
MCHash(h) == h
=============================================================================
