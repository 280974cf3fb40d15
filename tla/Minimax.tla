------------------------------ MODULE Minimax ------------------------------
(***************************************************************************)
(* players/minimax.py over the two games whose positions carry to_move, and  *)
(* the registry that finds a game by its id (games/__init__.py).            *)
(***************************************************************************)
EXTENDS Integers, Sequences, FiniteSets

CONSTANTS COLS, ROWS, LINE, SIZE

ASSUME BoardsAssumption ==
  /\ {COLS, ROWS} \subseteq Nat \ {0} /\ LINE \in Nat \ {0, 1}
  /\ SIZE \in Nat /\ SIZE % 2 = 0 /\ SIZE >= 4

C4 == INSTANCE ConnectFour
Rv == INSTANCE Reversi

(* by_id, and the Game port through it.                                     *)
GAME_IDS == {"c4", "reversi"}
State(g) == IF g = "c4" THEN C4!State ELSE Rv!State
initial_state(g) == IF g = "c4" THEN C4!initial_state ELSE Rv!initial_state
legal_moves(g, s) == IF g = "c4" THEN C4!legal_moves(s) ELSE Rv!legal_moves(s)
apply(g, s, m) == IF g = "c4" THEN C4!apply(s, m) ELSE Rv!apply(s, m)
outcome(g, s) == IF g = "c4" THEN C4!outcome(s) ELSE Rv!outcome(s)
encode_move(g, m) == IF g = "c4" THEN C4!encode_move(m) ELSE Rv!encode_move(m)
decode_move(g, b) == IF g = "c4" THEN C4!decode_move(b) ELSE Rv!decode_move(b)

-----------------------------------------------------------------------------
WIN == 10000

(* No evaluation outweighs a win (at most 168 and 164 on the real boards).   *)
ASSUME EvaluationAssumption ==
  COLS * COLS * ROWS < 2 * WIN /\ SIZE * SIZE + 100 < 2 * WIN

Greater(a, b) == IF a > b THEN a ELSE b

(* _C4_COL_WEIGHT and _eval_c4: marks count by how near the middle they are. *)
ColumnWeight(c) == 1 + (IF c < COLS - 1 - c THEN c ELSE COLS - 1 - c)
eval_c4(s) ==
  LET Own(c) == Cardinality({ i \in DOMAIN s.grid[c] : s.grid[c][i] = s.to_move })
      sum[c \in 0..COLS] ==
        IF c = 0 THEN 0
        ELSE sum[c - 1] + ColumnWeight(c - 1) * (2 * Own(c - 1) - Len(s.grid[c - 1]))
  IN  sum[COLS]

(* _eval_reversi: discs, and 25 for a corner.                               *)
Corners == {0, SIZE - 1, SIZE * (SIZE - 1), SIZE * SIZE - 1}
eval_reversi(s) ==
  LET For(p) == Rv!discs(s.board, p) + 25 * Cardinality({ c \in Corners : s.board[c] = p })
  IN  For(s.to_move) - For(1 - s.to_move)

evaluate(g, s) == IF g = "c4" THEN eval_c4(s) ELSE eval_reversi(s)

(* A decided game, for whoever is to move: sooner wins and later losses.    *)
Decided(s, result, depth) ==
  CASE result = "draw" -> 0
    [] result = (IF s.to_move = 0 THEN "first" ELSE "second") -> WIN + depth
    [] OTHER -> -(WIN + depth)

(* Moves are numbers; the loops over them go up.                            *)
Top(g) == IF g = "c4" THEN COLS ELSE Rv!PASS + 1

(* _negamax, of each position and window, as far as plies ahead: the moves in *)
(* order, until one is too good to be allowed.                              *)
negamax(g, plies) ==
  LET value[depth \in 0..plies] ==
        [ window \in State(g) \X Int \X Int |->
            LET s == window[1]
                alpha == window[2]
                beta == window[3]
                result == outcome(g, s)
                seen[k \in 0..Top(g)] ==
                  IF k = 0 THEN [value |-> -2 * WIN, alpha |-> alpha]
                  ELSE LET acc == seen[k - 1]
                           score == -value[depth - 1][<<apply(g, s, k - 1), -beta, -acc.alpha>>]
                           best == Greater(acc.value, score)
                       IN  IF k - 1 \notin legal_moves(g, s) \/ acc.alpha >= beta THEN acc
                           ELSE [value |-> best, alpha |-> Greater(acc.alpha, best)]
            IN  IF result # "none" THEN Decided(s, result, depth)
                ELSE IF depth = 0 THEN evaluate(g, s)
                ELSE seen[Top(g)].value ]
  IN  value[plies]

(* Mutant of choose_move: the window is handed down without its sign turned, *)
(* so a line that refutes a move looks like a cut-off.                      *)
choose_move_window(g, s, depth, order) ==
  LET tried[k \in 0..Len(order)] ==
        IF k = 0 THEN [best |-> order[1], score |-> -2 * WIN]
        ELSE LET acc == tried[k - 1]
                 score == -negamax(g, depth - 1)[<<apply(g, s, order[k]), -2 * WIN, acc.score>>]
             IN  IF score > acc.score THEN [best |-> order[k], score |-> score] ELSE acc
  IN  tried[Len(order)].best

(* choose_move, with the moves in the order rng.shuffle left them.          *)
choose_move(g, s, depth, order) ==
  LET tried[k \in 0..Len(order)] ==
        IF k = 0 THEN [best |-> order[1], score |-> -2 * WIN]
        ELSE LET acc == tried[k - 1]
                 score == -negamax(g, depth - 1)[<<apply(g, s, order[k]), -2 * WIN, -acc.score>>]
             IN  IF score > acc.score THEN [best |-> order[k], score |-> score] ELSE acc
  IN  tried[Len(order)].best

(* What the search is a short cut for: every line to the same depth.        *)
FullSearch(g, plies) ==
  LET value[depth \in 0..plies] ==
        [ s \in State(g) |->
            LET scores == { -value[depth - 1][apply(g, s, m)] : m \in legal_moves(g, s) }
            IN  IF outcome(g, s) # "none" THEN Decided(s, outcome(g, s), depth)
                ELSE IF depth = 0 THEN evaluate(g, s)
                ELSE CHOOSE v \in scores : \A w \in scores : w <= v ]
  IN  value[plies]
=============================================================================
