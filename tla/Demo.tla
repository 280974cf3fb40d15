-------------------------------- MODULE Demo --------------------------------
(***************************************************************************)
(* `farcade demo`: a person in the browser and a bot, two Nodes joined by    *)
(* net/loopback.py. The person plays first. The loop of cmd_demo pumps the   *)
(* hub and ticks the bot; the person's move comes in on a request thread.   *)
(* Each side keeps the position its own log leads to; of a move only the     *)
(* encoded byte crosses the hub.                                            *)
(***************************************************************************)
EXTENDS Minimax

CONSTANTS Depth(_),       \* Depth(game): how far the bot looks ahead
          Orders(_, _),   \* Orders(game, moves): what rng.shuffle may leave
          Setups          \* the <<--game, --engine>> pairs explored

ASSUME DepthAssumption == \A g \in GAME_IDS : Depth(g) \in 1..WIN - 1

ASSUME SetupsAssumption == Setups \subseteq GAME_IDS \X {"minimax", "random"}

VARIABLES game,           \* the id of the game played
          mind,           \* what chooses the bot's moves: minimax or random
          position,       \* position[side]: replay of that side's log
          queue           \* LoopbackHub.queue: <<destination, payload>>

demoVars == <<game, mind, position, queue>>

Side == {"you", "bot"}
Other(side) == IF side = "you" THEN "bot" ELSE "you"
SeatOf(side) == IF side = "you" THEN 0 ELSE 1

DemoInit ==
  /\ \E setup \in Setups : game = setup[1] /\ mind = setup[2]
  /\ position = [side \in Side |-> initial_state(game)]
  /\ queue = <<>>

our_turn(side) ==
  /\ outcome(game, position[side]) = "none"
  /\ position[side].to_move = SeatOf(side)

(* submit_move: into the log, and its byte to the hub; apply refuses a move   *)
(* that is not legal.                                                       *)
submit_move(side, m) ==
  /\ m \in legal_moves(game, position[side])
  /\ position' = [position EXCEPT ![side] = apply(game, @, m)]
  /\ queue' = Append(queue, <<Other(side), encode_move(game, m)>>)
  /\ UNCHANGED <<game, mind>>

(* submit_move_text: parse_move refuses what is not legal.                  *)
PersonMoves ==
  \E m \in legal_moves(game, position["you"]) : our_turn("you") /\ submit_move("you", m)

(* rng.shuffle keeps every move.                                            *)
Shuffles(order, moves) == order \in Seq(moves) /\ { order[i] : i \in 1..Len(order) } = moves

(* What the bot may choose: RandomPlayer any legal move, MinimaxPlayer one  *)
(* of those its search finds best.                                          *)
BotMoves ==
  LET s == position["bot"]
      moves == legal_moves(game, s)
  IN  IF mind = "random" THEN moves
      ELSE { choose_move(game, s, Depth(game), order) :
               order \in { o \in Orders(game, moves) : Shuffles(o, moves) } }

(* Node.tick *)
tick == our_turn("bot") /\ \E m \in BotMoves : submit_move("bot", m)

(* LoopbackHub.pump: the oldest message to its endpoint, where _h_move       *)
(* decodes it and applies it.                                               *)
pump ==
  /\ queue # <<>>
  /\ LET to == Head(queue)[1]
         m == decode_move(game, Head(queue)[2])
     IN  /\ m \in legal_moves(game, position[to])
         /\ position' = [position EXCEPT ![to] = apply(game, @, m)]
  /\ queue' = Tail(queue)
  /\ UNCHANGED <<game, mind>>

DemoNext == PersonMoves \/ tick \/ pump

DemoSpec == DemoInit /\ [][DemoNext]_demoVars

-----------------------------------------------------------------------------
(* The rules are asked two questions by separate code: legal_moves decides   *)
(* whose move is accepted, outcome decides whether the game is over. No      *)
(* position may be over with a move left, or stuck with the game still on:   *)
(* GamePeer waits for ever on such a game.                                  *)
EndAgrees ==
  \A side \in Side :
    (outcome(game, position[side]) = "none") <=> (legal_moves(game, position[side]) # {})

(* The rules know no left and right: a connect four board seen in a mirror,  *)
(* and a reversi board turned by a quarter, have the same moves, the same     *)
(* effects of them and the same result. One wrong direction or edge in the   *)
(* scans of _winner and _flips breaks this.                                 *)
SymmetricRules ==
  LET s == position["you"]
      Mirror(c) == COLS - 1 - c
      Turn(sq) == IF sq = Rv!PASS THEN sq ELSE Rv!TurnedTo(sq)
  IN  CASE game = "c4" ->
             /\ C4!outcome(C4!Mirrored(s)) = C4!outcome(s)
             /\ C4!legal_moves(C4!Mirrored(s)) = { Mirror(c) : c \in C4!legal_moves(s) }
        [] game = "reversi" ->
             /\ Rv!outcome(Rv!Turned(s)) = Rv!outcome(s)
             /\ Rv!legal_moves(Rv!Turned(s)) = { Turn(m) : m \in Rv!legal_moves(s) }
             /\ \A m \in Rv!legal_moves(s) :
                  Rv!apply(Rv!Turned(s), Turn(m)) = Rv!Turned(Rv!apply(s, m))

(* The bot's move is one that looking at every line to the same depth finds   *)
(* best, whatever order the moves were shuffled into: cutting lines off      *)
(* (minimax.py) never changes the choice.                                   *)
BotPlaysABest ==
  [][ mind = "minimax" /\ tick =>
        \A m \in legal_moves(game, position["bot"]) :
          FullSearch(game, Depth(game) - 1)[position["bot"]']
            <= FullSearch(game, Depth(game) - 1)[apply(game, position["bot"], m)] ]_demoVars
=============================================================================
