------------------------- MODULE CorrespondenceGame -------------------------
(***************************************************************************)
(* What two farcade peers promise each other, without messages, disks or   *)
(* retransmission: ONE game, one append-only history of legal moves, the    *)
(* two seats alternating, and each player knowing a prefix of the history.  *)
(* A player may stop (resignation, agreed draw, an invitation declined) at  *)
(* any time, and never plays again once stopped.                            *)
(*                                                                         *)
(* GamePeer implements this specification; the mapping is in GamePeer.      *)
(***************************************************************************)
EXTENDS Naturals, Sequences

CONSTANTS Move,             \* the encoded moves of the game
          Legal(_, _),      \* Legal(h, m): the rules accept m after history h
          WinnerOf(_)       \* "first", "second", "draw", or "none" while on

VARIABLES history,          \* the moves of the game so far
          seen,             \* seen[s]: how many of them the player of s knows
          phase             \* phase[s]: "waiting", "active" or "done"

gameVars == <<history, seen, phase>>

Seat == {"first", "second"}

Over == WinnerOf(history) # "none"

(* The first seat moves at even plies, the second at odd ones.             *)
ToMove(s) == (Len(history) % 2 = 0) <=> (s = "first")

GameInit ==
  /\ history = <<>>
  /\ seen = [s \in Seat |-> 0]
  /\ phase = [s \in Seat |-> "waiting"]

Join(s) ==
  /\ phase[s] = "waiting"
  /\ phase' = [phase EXCEPT ![s] = "active"]
  /\ UNCHANGED <<history, seen>>

(* Only a player who knows the whole history, and whose turn it is, moves;  *)
(* a player whose move ends the game may stop at once.                      *)
Play(s, m) ==
  /\ phase[s] = "active"
  /\ seen[s] = Len(history)
  /\ ToMove(s)
  /\ ~ Over
  /\ Legal(history, m)
  /\ history' = Append(history, m)
  /\ seen' = [seen EXCEPT ![s] = Len(history')]
  /\ phase' \in { phase,
                  [phase EXCEPT ![s] = IF Over' THEN "done" ELSE "active"] }

(* The other player's move becomes known, and may end the game.             *)
Learn(s) ==
  /\ seen[s] < Len(history)
  /\ seen' = [seen EXCEPT ![s] = Len(history)]
  /\ phase' \in { phase, [phase EXCEPT ![s] = IF Over THEN "done" ELSE @] }
  /\ UNCHANGED history

Stop(s) ==
  /\ phase[s] # "done"
  /\ phase' = [phase EXCEPT ![s] = "done"]
  /\ UNCHANGED <<history, seen>>

GameNext ==
  \E s \in Seat :
    \/ Join(s)
    \/ \E m \in Move : Play(s, m)
    \/ Learn(s)
    \/ Stop(s)

GameSpec == GameInit /\ [][GameNext]_gameVars
=============================================================================
