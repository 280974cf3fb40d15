------------------------------ MODULE Reversi ------------------------------
(***************************************************************************)
(* games/reversi.py. A position is what ReversiState holds: board, one      *)
(* value per square in row-major order (0, 1 or Empty), and to_move.        *)
(***************************************************************************)
EXTENDS Integers, Sequences, FiniteSets

CONSTANT SIZE   \* squares on a side (8 in the code)

Squares == 0..SIZE * SIZE - 1
PASS == SIZE * SIZE

Empty == 2

State == [board : [Squares -> {0, 1, Empty}], to_move : {0, 1}]

(* The standard opening: the four centre squares, "10" above "01".          *)
initial_state ==
  LET corner == (SIZE \div 2 - 1) * (SIZE + 1)
  IN  [ board |-> [sq \in Squares |->
                     CASE sq \in {corner, corner + SIZE + 1} -> 1
                       [] sq \in {corner + 1, corner + SIZE} -> 0
                       [] OTHER -> Empty],
        to_move |-> 0 ]

DIRS == {<<1, 0>>, <<-1, 0>>, <<0, 1>>, <<0, -1>>, <<1, 1>>, <<1, -1>>, <<-1, 1>>, <<-1, -1>>}

(* The square i steps from sq in a direction.                               *)
Step(sq, d, i) == sq + i * (d[1] + SIZE * d[2])

(* Mutant of OnBoard: a run goes on over the edge of its row.               *)
OnBoardRowWraps(sq, d, i) == Step(sq, d, i) \in Squares

(* 0 <= r < SIZE and 0 <= c < SIZE of that step.                            *)
OnBoard(sq, d, i) ==
  /\ (sq % SIZE) + i * d[1] \in 0..SIZE - 1
  /\ (sq \div SIZE) + i * d[2] \in 0..SIZE - 1

(* The discs captured in one direction: a run of theirs closed by ours.     *)
RunCaptured(board, player, sq, d) ==
  UNION { {Step(sq, d, i) : i \in 1..run} :
            run \in { n \in 1..SIZE - 2 :
                      /\ OnBoard(sq, d, n + 1)
                      /\ board[Step(sq, d, n + 1)] = player
                      /\ \A i \in 1..n : board[Step(sq, d, i)] = 1 - player } }

(* _flips *)
flips(board, player, sq) ==
  IF board[sq] # Empty THEN {} ELSE UNION { RunCaptured(board, player, sq, d) : d \in DIRS }

(* _placements *)
placements(board, player) == { sq \in Squares : flips(board, player, sq) # {} }

(* Mutant of legal_moves: a player without a placement may always pass.     *)
legal_moves_pass(s) ==
  IF placements(s.board, s.to_move) # {} THEN placements(s.board, s.to_move) ELSE {PASS}

(* PASS is the only move of a player who cannot place a disc while the      *)
(* opponent can.                                                            *)
legal_moves(s) ==
  IF placements(s.board, s.to_move) # {} THEN placements(s.board, s.to_move)
  ELSE IF placements(s.board, 1 - s.to_move) # {} THEN {PASS} ELSE {}

apply(s, m) ==
  LET turned == IF m = PASS THEN {} ELSE {m} \cup flips(s.board, s.to_move, m)
  IN  [ board |-> [sq \in Squares |-> IF sq \in turned THEN s.to_move ELSE s.board[sq]],
        to_move |-> 1 - s.to_move ]

discs(board, player) == Cardinality({ sq \in Squares : board[sq] = player })

outcome(s) ==
  CASE placements(s.board, 0) \cup placements(s.board, 1) # {} -> "none"
    [] placements(s.board, 0) \cup placements(s.board, 1) = {} ->
         LET first == discs(s.board, 0)
             second == discs(s.board, 1)
         IN  IF first > second THEN "first" ELSE IF second > first THEN "second" ELSE "draw"

(* encode_move and decode_move: one byte, a square or PASS.                 *)
encode_move(m) == <<m>>
decode_move(data) ==
  IF Len(data) # 1 \/ data[1] > PASS THEN "MoveDecodeError" ELSE data[1]

(* The board turned by a quarter, and the square a square goes to.          *)
TurnedTo(sq) == (sq % SIZE) * SIZE + (SIZE - 1 - (sq \div SIZE))
Turned(s) ==
  [s EXCEPT !.board = [t \in Squares |->
                         s.board[CHOOSE sq \in Squares : TurnedTo(sq) = t]]]
=============================================================================
