---------------------------- MODULE MCCompanion -----------------------------
(***************************************************************************)
(* Companion with the small game of MCGamePeer and a handful of texts: each *)
(* command, chat, two plain moves, and "c4", which names a game and is a    *)
(* move where a sharp move is legal. parse_move takes a move of a game that *)
(* a full board has drawn (as chess takes one of a drawn repetition).       *)
(***************************************************************************)
EXTENDS Companion

CONSTANTS MaxPly, WinPly

MCMove == {"quiet", "sharp"}

MCWinnerOf(h) ==
  IF Len(h) > WinPly /\ Last(h) = "sharp"
    THEN IF Len(h) % 2 = 1 THEN "first" ELSE "second"
  ELSE IF Len(h) >= MaxPly THEN "draw" ELSE "none"

MCLegal(h, m) ==
  /\ MCWinnerOf(h) = "none"
  /\ m = "sharp" /\ h # <<>> => Last(h) # "sharp"

MCText == {"help", "rules", "board", "resign", "rematch", "play", "c4",
           "e4", "hello"}

MCKind(t) ==
  CASE t = "help" -> "HELP"
    [] t = "rules" -> "RULES"
    [] t = "board" -> "BOARD"
    [] t = "resign" -> "RESIGN"
    [] t \in {"rematch", "play", "c4"} -> "PLAY"
    [] OTHER -> "TEXT"

MCNames(t) == t \in {"play", "c4"}

MCMoveOf(h, t) ==
  {m \in MCMove :
     /\ \/ t = "e4" /\ m = "quiet"
        \/ t = "c4" /\ m = "sharp"
     /\ MCLegal(h, m) \/ MCWinnerOf(h) = "draw"}
=============================================================================
