------------------------------ MODULE MCArena ------------------------------
(***************************************************************************)
(* The programs that play games, on small instances: `farcade demo` (Demo),   *)
(* the soak pair (Soak), a seat on LXMF (Lxmf), and a Node whose person       *)
(* plays in the browser (NodeThreads). One of them runs, the others rest.     *)
(* Three columns of three with three in a row, and a reversi board of four     *)
(* by four, have every end the real boards have: lines of all directions, a    *)
(* full board, forced passes, a board nobody can play on.                    *)
(***************************************************************************)
EXTENDS Demo, Soak, Lxmf, NodeThreads

VARIABLE program

arenaVars == <<program, demoVars, soakVars, lxmfVars, nodeVars>>

MCDepth(g) == IF g = "c4" THEN 3 ELSE 2

(* All orders of connect four's moves; of reversi's, the rotations of one.   *)
Rotations(seq) ==
  { [i \in 1..Len(seq) |-> seq[1 + ((i + k) % Len(seq))]] : k \in 1..Len(seq) }
MCOrders(g, moves) ==
  IF g = "c4" THEN SetToSeqs(moves) ELSE Rotations(SetToSortSeq(moves, <))

MCSetups == {<<"c4", "random">>, <<"c4", "minimax">>, <<"reversi", "minimax">>}

Init ==
  /\ program \in {"demo", "soak", "lxmf", "node"}
  /\ DemoInit /\ SoakInit /\ LxmfInit /\ NodeInit
  /\ program # "demo" => game = "c4" /\ mind = "random"
  /\ program # "lxmf" => reachable

Next ==
  \/ program = "demo" /\ DemoNext /\ UNCHANGED <<program, soakVars, lxmfVars, nodeVars>>
  \/ program = "soak" /\ SoakNext /\ UNCHANGED <<program, demoVars, lxmfVars, nodeVars>>
  \/ program = "lxmf" /\ LxmfNext /\ UNCHANGED <<program, demoVars, soakVars, nodeVars>>
  \/ program = "node" /\ NodeNext /\ UNCHANGED <<program, demoVars, soakVars, lxmfVars>>

(* The fairness of the program that runs: the loops of the soak pair, or of   *)
(* the seat. The other two are asked for safety only.                       *)
Fairness ==
  /\ program = "soak" => SoakFairness
  /\ program = "lxmf" => LxmfFairness

Spec == Init /\ [][Next]_arenaVars /\ Fairness

(* Soak: a lost message that does not end a game is made good by a nudge of    *)
(* the two loops, and the soak ends.                                        *)
SoakMakesGood == program = "soak" => LossIsMadeGood

(* Lxmf: a seat waiting for a path (lxmf.py:244) neither keeps what came in    *)
(* from being handed on nor leaves a dropped message unsent for ever.        *)
SeatNeverStarves == program = "lxmf" => NothingStarves
=============================================================================
