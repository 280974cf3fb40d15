---------------------------- MODULE ConnectFour ----------------------------
(***************************************************************************)
(* games/connect4.py. A position is what C4State holds: grid, one column    *)
(* of marks (0 or 1, bottom up) per column index, and to_move. A player's   *)
(* number is the player's mark.                                             *)
(***************************************************************************)
EXTENDS Integers, Sequences

CONSTANTS COLS, ROWS,   \* the board (7 and 6 in the code)
          LINE          \* marks in a row that win (4 in the code)

Columns == 0..COLS - 1

Empty == 2

Column == { marks \in Seq({0, 1}) : Len(marks) <= ROWS }
State == [grid : [Columns -> Column], to_move : {0, 1}]

initial_state == [grid |-> [c \in Columns |-> <<>>], to_move |-> 0]

(* The mark on a square, Empty above the top of a column and off the board. *)
cell(s, c, r) ==
  IF c \in Columns /\ r \in 0..Len(s.grid[c]) - 1 THEN s.grid[c][r + 1]
  ELSE Empty

(* right, up, up-right, down-right                                         *)
DIRS == {<<1, 0>>, <<0, 1>>, <<1, 1>>, <<1, -1>>}

(* The squares a line of the mark standing there starts from.               *)
LineStarts(s) ==
  { sq \in Columns \X (0..ROWS - 1) :
      /\ cell(s, sq[1], sq[2]) # Empty
      /\ \E d \in DIRS : \A i \in 1..LINE - 1 :
           cell(s, sq[1] + i * d[1], sq[2] + i * d[2]) = cell(s, sq[1], sq[2]) }

(* _winner: the mark of the first line in the order of the scan, columns    *)
(* first; Empty where the code returns None.                                *)
winner(s) ==
  LET starts == LineStarts(s)
      Scanned(sq) == sq[1] * ROWS + sq[2]
      first == CHOOSE sq \in starts : \A o \in starts : Scanned(sq) <= Scanned(o)
  IN  IF starts = {} THEN Empty ELSE cell(s, first[1], first[2])

legal_moves(s) ==
  IF winner(s) # Empty THEN {}
  ELSE { c \in Columns : Len(s.grid[c]) < ROWS }

(* apply, of a legal move; any other raises IllegalMove.                    *)
apply(s, m) ==
  [grid |-> [s.grid EXCEPT ![m] = Append(@, s.to_move)], to_move |-> 1 - s.to_move]

outcome(s) ==
  CASE winner(s) # Empty -> IF winner(s) = 0 THEN "first" ELSE "second"
    [] winner(s) = Empty /\ (\A c \in Columns : Len(s.grid[c]) = ROWS) -> "draw"
    [] OTHER -> "none"

(* encode_move and decode_move: one byte, a column or a MoveDecodeError.    *)
encode_move(m) == <<m>>
decode_move(data) ==
  IF Len(data) # 1 \/ data[1] >= COLS THEN "MoveDecodeError" ELSE data[1]

(* The board seen in a mirror: the rules may not tell the two apart.        *)
Mirrored(s) == [s EXCEPT !.grid = [c \in Columns |-> s.grid[COLS - 1 - c]]]
=============================================================================
