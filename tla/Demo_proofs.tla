----------------------------- MODULE Demo_proofs -----------------------------
(***************************************************************************)
(* Proofs about the games of Demo, for every size of board and any number     *)
(* in a row that wins.                                                      *)
(***************************************************************************)
EXTENDS Demo, Induction, FiniteSetTheorems

-----------------------------------------------------------------------------
(* Connect four                                                            *)

Rows == 0..ROWS - 1
Reach == 0..LINE - 1

(* LINE marks of player x in a row, from a square in a direction.            *)
Line(s, x, c, r, d) == \A i \in Reach : C4!cell(s, c + i * d[1], r + i * d[2]) = x
HasLine(s, x) == \E c \in C4!Columns, r \in Rows, d \in C4!DIRS : Line(s, x, c, r, d)

(* A position play leads to: only the player who moved last can have a line.  *)
C4Played(s) ==
  /\ s \in C4!State
  /\ \A x \in {0, 1} : HasLine(s, x) => x = 1 - s.to_move

LEMMA Boards ==
  /\ COLS \in Nat /\ COLS >= 1 /\ ROWS \in Nat /\ ROWS >= 1 /\ LINE \in Nat /\ LINE >= 2
  /\ SIZE \in Nat /\ SIZE >= 4 /\ SIZE % 2 = 0
BY BoardsAssumption

LEMMA ColumnIs ==
  ASSUME NEW s \in C4!State
  PROVE  /\ s.to_move \in {0, 1}
         /\ s.grid \in [C4!Columns -> C4!Column]
         /\ \A c \in C4!Columns : /\ s.grid[c] \in C4!Column /\ s.grid[c] \in Seq({0, 1})
                                  /\ Len(s.grid[c]) \in Nat /\ Len(s.grid[c]) <= ROWS
BY DEF C4!State, C4!Column

LEMMA CellIs ==
  ASSUME NEW s \in C4!State, NEW c, NEW r
  PROVE  /\ C4!cell(s, c, r) \in {0, 1, 2}
         /\ C4!cell(s, c, r) # 2 => c \in C4!Columns /\ r \in 0..Len(s.grid[c]) - 1
<1>1. CASE c \in C4!Columns /\ r \in 0..Len(s.grid[c]) - 1
  <2>1. s.grid[c] \in Seq({0, 1})
    BY <1>1, ColumnIs
  <2>2. r + 1 \in 1..Len(s.grid[c])
    BY <1>1, <2>1
  <2>3. s.grid[c][r + 1] \in {0, 1}
    BY <2>1, <2>2
  <2> QED BY <1>1, <2>3 DEF C4!cell
<1>2. CASE ~ (c \in C4!Columns /\ r \in 0..Len(s.grid[c]) - 1)
  BY <1>2 DEF C4!cell, C4!Empty
<1> QED BY <1>1, <1>2

LEMMA StartsAreLines ==
  ASSUME NEW s, C4Played(s)
  PROVE  /\ \A sq \in C4!LineStarts(s) :
              C4!cell(s, sq[1], sq[2]) = 1 - s.to_move /\ HasLine(s, 1 - s.to_move)
         /\ \A x \in {0, 1} : HasLine(s, x) => C4!LineStarts(s) # {}
<1>1. s \in C4!State
  BY DEF C4Played
<1>2. ASSUME NEW sq \in C4!LineStarts(s)
      PROVE  C4!cell(s, sq[1], sq[2]) = 1 - s.to_move /\ HasLine(s, 1 - s.to_move)
  <2>1. PICK x : x = C4!cell(s, sq[1], sq[2])
    OBVIOUS
  <2>2. sq[1] \in C4!Columns /\ sq[2] \in Rows /\ x # 2
    BY <2>1 DEF C4!LineStarts, Rows, C4!Empty
  <2>3. PICK d \in C4!DIRS :
          \A i \in 1..LINE - 1 : C4!cell(s, sq[1] + i * d[1], sq[2] + i * d[2]) = x
    BY <2>1 DEF C4!LineStarts
  <2>4. x \in {0, 1}
    BY <1>1, <2>1, <2>2, CellIs
  <2>5. Line(s, x, sq[1], sq[2], d)
    <3> SUFFICES ASSUME NEW i \in Reach PROVE C4!cell(s, sq[1] + i * d[1], sq[2] + i * d[2]) = x
      BY DEF Line
    <3>1. CASE i = 0
      <4>1. sq[1] \in Int /\ sq[2] \in Int /\ d[1] \in Int /\ d[2] \in Int
        BY <2>2, Boards DEF C4!Columns, Rows, C4!DIRS
      <4>2. sq[1] + i * d[1] = sq[1] /\ sq[2] + i * d[2] = sq[2]
        BY <3>1, <4>1
      <4> QED BY <2>1, <4>2
    <3>2. CASE i # 0
      BY <2>3, <3>2, Boards DEF Reach
    <3> QED BY <3>1, <3>2
  <2>6. HasLine(s, x)
    BY <2>2, <2>5 DEF HasLine
  <2> QED BY <2>1, <2>4, <2>6 DEF C4Played
<1>3. ASSUME NEW x \in {0, 1}, HasLine(s, x) PROVE C4!LineStarts(s) # {}
  <2>1. PICK c \in C4!Columns, r \in Rows, d \in C4!DIRS : Line(s, x, c, r, d)
    BY <1>3 DEF HasLine
  <2>2. \A i \in 0..LINE - 1 : C4!cell(s, c + i * d[1], r + i * d[2]) = x
    BY <2>1 DEF Line, Reach
  <2>3. C4!cell(s, c, r) = x
    <3>1. c + 0 * d[1] = c /\ r + 0 * d[2] = r /\ 0 \in 0..LINE - 1
      BY Boards DEF C4!Columns, Rows, C4!DIRS
    <3> QED BY <2>2, <3>1
  <2>4. \A i \in 1..LINE - 1 : C4!cell(s, c + i * d[1], r + i * d[2]) = x
    BY <2>2, Boards
  <2>5. <<c, r>> \in C4!LineStarts(s)
    BY <2>3, <2>4 DEF C4!LineStarts, Rows, C4!Empty
  <2> QED BY <2>5
<1> QED BY <1>2, <1>3

LEMMA WinnerIs ==
  ASSUME NEW s, C4Played(s)
  PROVE  C4!winner(s) = IF \E x \in {0, 1} : HasLine(s, x) THEN 1 - s.to_move ELSE 2
<1> DEFINE starts == C4!LineStarts(s)
           Scanned(sq) == sq[1] * ROWS + sq[2]
<1>0. s.to_move \in {0, 1}
  BY DEF C4Played, C4!State
<1>1. CASE starts = {}
  <2>1. C4!winner(s) = 2
    BY <1>1 DEF C4!winner, C4!Empty
  <2> QED BY <1>1, <2>1, StartsAreLines
<1>2. CASE starts # {}
  <2> DEFINE numbers == { Scanned(sq) : sq \in starts }
  <2>1. numbers \in SUBSET Nat
    <3>1. \A sq \in starts : sq[1] \in Nat /\ sq[2] \in Nat
      BY Boards DEF C4!LineStarts, C4!Columns
    <3>2. \A sq \in starts : Scanned(sq) \in Nat
      BY <3>1, Boards
    <3> QED BY <3>2
  <2>2. PICK k : k \in numbers
    BY <1>2
  <2> HIDE DEF numbers
  <2>3. PICK least \in numbers : \A n \in numbers : least <= n
    BY <2>1, <2>2, Least
  <2>4. \E sq \in starts : \A o \in starts : Scanned(sq) <= Scanned(o)
    <3>1. PICK sq \in starts : least = Scanned(sq)
      BY <2>3 DEF numbers
    <3>2. \A o \in starts : Scanned(o) \in numbers
      BY DEF numbers
    <3> QED BY <2>3, <3>1, <3>2
  <2>5. PICK first : first = CHOOSE sq \in starts : \A o \in starts : Scanned(sq) <= Scanned(o)
    OBVIOUS
  <2>6. first \in starts
    BY <2>4, <2>5
  <2>7. C4!winner(s) = C4!cell(s, first[1], first[2])
    BY <1>2, <2>5 DEF C4!winner
  <2>8. C4!winner(s) = 1 - s.to_move /\ HasLine(s, 1 - s.to_move) /\ 1 - s.to_move \in {0, 1}
    BY <1>0, <2>6, <2>7, StartsAreLines
  <2> QED BY <2>8
<1> QED BY <1>1, <1>2

Mirror(c) == COLS - 1 - c

LEMMA MirroredIs ==
  ASSUME NEW s \in C4!State
  PROVE  /\ C4!Mirrored(s) \in C4!State /\ C4!Mirrored(s).to_move = s.to_move
         /\ \A c \in C4!Columns : /\ Mirror(c) \in C4!Columns /\ Mirror(Mirror(c)) = c
                                  /\ C4!Mirrored(s).grid[c] = s.grid[Mirror(c)]
                                  /\ Len(C4!Mirrored(s).grid[c]) <= ROWS
         /\ C4!Mirrored(C4!Mirrored(s)) = s
         /\ \A c \in C4!Columns, r \in Int :
              C4!cell(C4!Mirrored(s), c, r) = C4!cell(s, Mirror(c), r)
<1> DEFINE t == C4!Mirrored(s)
<1>1. \A c \in C4!Columns : Mirror(c) \in C4!Columns /\ Mirror(Mirror(c)) = c
  BY Boards DEF C4!Columns, Mirror
<1>2. s \in C4!State
  OBVIOUS
<1>3. t.grid = [c \in C4!Columns |-> s.grid[Mirror(c)]] /\ t.to_move = s.to_move
  BY <1>2 DEF C4!Mirrored, C4!State, Mirror
<1>4. t \in C4!State
  <2>1. \A c \in C4!Columns : s.grid[Mirror(c)] \in C4!Column
    BY <1>1, <1>2, ColumnIs
  <2>2. t.grid \in [C4!Columns -> C4!Column]
    BY <1>3, <2>1
  <2>3. t = [grid |-> t.grid, to_move |-> t.to_move]
    <3>1. PICK g, m : s = [grid |-> g, to_move |-> m]
      BY <1>2 DEF C4!State
    <3>2. t = [grid |-> [c \in C4!Columns |-> s.grid[COLS - 1 - c]], to_move |-> m]
      BY <3>1 DEF C4!Mirrored
    <3> QED BY <3>2
  <2> HIDE DEF t
  <2> QED BY <1>2, <1>3, <2>2, <2>3 DEF C4!State
<1>5. \A c \in C4!Columns : t.grid[c] = s.grid[Mirror(c)]
  BY <1>3
<1>6. \A c \in C4!Columns : Len(t.grid[c]) <= ROWS
  BY <1>1, <1>5, ColumnIs
<1>7. C4!Mirrored(t) = s
  <2>1. [c \in C4!Columns |-> t.grid[Mirror(c)]] = s.grid
    <3>1. \A c \in C4!Columns : t.grid[Mirror(c)] = s.grid[c]
      BY <1>1, <1>5
    <3> QED BY <1>2, <3>1 DEF C4!State
  <2>2. C4!Mirrored(t) = [t EXCEPT !.grid = s.grid]
    BY <2>1 DEF C4!Mirrored, Mirror
  <2> HIDE DEF t
  <2> QED BY <1>2, <1>3, <1>4, <2>2 DEF C4!State
<1>8. \A c \in C4!Columns, r \in Int : C4!cell(t, c, r) = C4!cell(s, Mirror(c), r)
  BY <1>1, <1>5 DEF C4!cell
<1> QED BY <1>1, <1>3, <1>4, <1>5, <1>6, <1>7, <1>8

(* A line is one in the mirror, read from its other end.                    *)
LEMMA LinesMirrored ==
  ASSUME NEW s \in C4!State, NEW x \in {0, 1}, HasLine(s, x)
  PROVE  HasLine(C4!Mirrored(s), x)
<1> DEFINE t == C4!Mirrored(s)
           Far == LINE - 1
<1>1. PICK c \in C4!Columns, r \in Rows, d \in C4!DIRS : Line(s, x, c, r, d)
  BY DEF HasLine
<1>2. s \in C4!State /\ c \in Int /\ r \in Int
  BY Boards DEF C4!Columns, Rows
<1>3. Far \in Reach /\ 0 \in Reach /\ \A i \in Reach : i \in Int /\ Far - i \in Reach
  BY Boards DEF Reach
<1>4. \A i \in Reach : C4!cell(s, c + i * d[1], r + i * d[2]) = x
  BY <1>1 DEF Line
<1>5. \A i \in Reach : /\ c + i * d[1] \in C4!Columns /\ Mirror(c + i * d[1]) \in C4!Columns
                       /\ r + i * d[2] \in Rows
  <2> SUFFICES ASSUME NEW i \in Reach
               PROVE  /\ c + i * d[1] \in C4!Columns /\ Mirror(c + i * d[1]) \in C4!Columns
                      /\ r + i * d[2] \in Rows
    OBVIOUS
  <2>1. PICK a, b : a = c + i * d[1] /\ b = r + i * d[2]
    OBVIOUS
  <2>2. C4!cell(s, a, b) # 2
    BY <1>4, <2>1
  <2>3. a \in C4!Columns /\ b \in 0..Len(s.grid[a]) - 1
    BY <1>2, <2>2, CellIs
  <2>4. Len(s.grid[a]) <= ROWS /\ Len(s.grid[a]) \in Nat
    BY <1>2, <2>3, ColumnIs
  <2>5. b \in Rows
    BY <2>3, <2>4, Boards DEF Rows
  <2> QED BY <2>1, <2>3, <2>5, MirroredIs
<1>6. ASSUME NEW i \in Reach, NEW a \in C4!Columns, NEW b \in Int,
             a = Mirror(c + i * d[1]), b = r + i * d[2]
      PROVE  C4!cell(t, a, b) = x
  <2>1. C4!cell(t, a, b) = C4!cell(s, Mirror(a), b)
    BY MirroredIs
  <2>2. Mirror(a) = c + i * d[1]
    BY <1>5, <1>6, MirroredIs
  <2> QED BY <1>4, <1>6, <2>1, <2>2
<1>7. CASE d = <<0, 1>>
  <2>1. Line(t, x, Mirror(c), r, <<0, 1>>)
    <3> SUFFICES ASSUME NEW i \in Reach
                 PROVE  C4!cell(t, Mirror(c) + i * 0, r + i * 1) = x
      BY DEF Line
    <3>0. d[1] = 0 /\ d[2] = 1 /\ i \in Int
      BY <1>3, <1>7
    <3>1. Mirror(c) + i * 0 = Mirror(c + i * d[1]) /\ r + i * 1 = r + i * d[2]
      BY <1>2, <3>0, Boards DEF Mirror
    <3>2. Mirror(c) + i * 0 \in C4!Columns /\ r + i * 1 \in Int
      BY <1>2, <1>5, <3>0, <3>1
    <3> QED BY <1>6, <3>1, <3>2
  <2>2. Mirror(c) \in C4!Columns /\ <<0, 1>> \in C4!DIRS
    BY MirroredIs DEF C4!DIRS
  <2> QED BY <2>1, <2>2 DEF HasLine
<1>8. ASSUME NEW u, d = <<1, u>>, u \in {-1, 0, 1}
      PROVE  HasLine(t, x)
  <2> DEFINE a == Mirror(c + Far * d[1])
             b == r + Far * d[2]
             e == <<1, -u>>
  <2>1. a \in C4!Columns /\ b \in Rows /\ e \in C4!DIRS
    BY <1>3, <1>5, <1>8 DEF C4!DIRS
  <2>2. Line(t, x, a, b, e)
    <3> SUFFICES ASSUME NEW i \in Reach
                 PROVE  C4!cell(t, a + i * e[1], b + i * e[2]) = x
      BY DEF Line
    <3>1. a + i * e[1] = Mirror(c + (Far - i) * d[1]) /\ b + i * e[2] = r + (Far - i) * d[2]
      BY <1>2, <1>3, <1>8, Boards DEF Mirror
    <3>2. Far - i \in Reach
      BY <1>3
    <3>3. a + i * e[1] \in C4!Columns /\ b + i * e[2] \in Int
      BY <1>5, <3>1, <3>2, Boards DEF Rows
    <3> QED BY <1>6, <3>1, <3>2, <3>3
  <2> QED BY <2>1, <2>2 DEF HasLine
<1> QED BY <1>7, <1>8 DEF C4!DIRS

LEMMA MirrorPlayed ==
  ASSUME NEW s, C4Played(s)
  PROVE  /\ s \in C4!State /\ C4Played(C4!Mirrored(s))
         /\ \A x \in {0, 1} : HasLine(C4!Mirrored(s), x) <=> HasLine(s, x)
<1> DEFINE t == C4!Mirrored(s)
<1>0. s \in C4!State
  BY DEF C4Played
<1>1. t \in C4!State /\ t.to_move = s.to_move
  BY <1>0, MirroredIs
<1>2. C4!Mirrored(t) = s
  BY <1>0, MirroredIs
<1>3. \A x \in {0, 1} : HasLine(s, x) => HasLine(t, x)
  BY <1>0, LinesMirrored
<1> HIDE DEF t
<1>4. \A x \in {0, 1} : HasLine(t, x) => HasLine(s, x)
  BY <1>1, <1>2, LinesMirrored
<1> QED BY <1>0, <1>1, <1>3, <1>4 DEF C4Played, t

LEMMA C4Symmetric ==
  ASSUME NEW s, C4Played(s)
  PROVE  /\ C4!outcome(C4!Mirrored(s)) = C4!outcome(s)
         /\ C4!legal_moves(C4!Mirrored(s)) = { Mirror(c) : c \in C4!legal_moves(s) }
<1> DEFINE t == C4!Mirrored(s)
<1>1. t.to_move = s.to_move /\ C4Played(t) /\ C4!winner(t) = C4!winner(s)
  <2>1. t.to_move = s.to_move /\ C4Played(t)
    BY MirroredIs, MirrorPlayed DEF C4Played
  <2>2. \A x \in {0, 1} : HasLine(t, x) <=> HasLine(s, x)
    BY MirrorPlayed
  <2> QED BY <2>1, <2>2, WinnerIs
<1>2. \A c \in C4!Columns : Mirror(c) \in C4!Columns /\ Mirror(Mirror(c)) = c /\ t.grid[c] = s.grid[Mirror(c)]
  BY MirrorPlayed, MirroredIs
<1> HIDE DEF t
<1>3. (\A c \in C4!Columns : Len(t.grid[c]) = ROWS) <=> (\A c \in C4!Columns : Len(s.grid[c]) = ROWS)
  BY <1>2
<1>4. C4!outcome(t) = C4!outcome(s)
  BY <1>1, <1>3 DEF C4!outcome
<1>5. ASSUME NEW c PROVE c \in C4!legal_moves(t) <=> \E k \in C4!legal_moves(s) : c = Mirror(k)
  BY <1>1, <1>2 DEF C4!legal_moves
<1> QED BY <1>4, <1>5 DEF t

LEMMA C4Start == C4Played(C4!initial_state)
<1> DEFINE s == C4!initial_state
<1>1. s.to_move = 0 /\ \A c \in C4!Columns : s.grid[c] = <<>>
  BY DEF C4!initial_state
<1>2. s \in C4!State
  <2>1. <<>> \in Seq({0, 1}) /\ Len(<<>>) = 0
    OBVIOUS
  <2>2. <<>> \in C4!Column
    BY <2>1, Boards DEF C4!Column
  <2> QED BY <2>2 DEF C4!initial_state, C4!State
<1>3. ASSUME NEW x \in {0, 1}, HasLine(s, x) PROVE FALSE
  <2>1. PICK c \in C4!Columns, r \in Rows, d \in C4!DIRS : Line(s, x, c, r, d)
    BY <1>3 DEF HasLine
  <2>2. PICK a, b : a = c + 0 * d[1] /\ b = r + 0 * d[2]
    OBVIOUS
  <2>3. C4!cell(s, a, b) = x
    BY <2>1, <2>2, Boards DEF Line, Reach
  <2>4. a \in C4!Columns /\ b \in 0..Len(s.grid[a]) - 1
    BY <1>2, <2>3, CellIs
  <2> QED BY <1>1, <2>4
<1> QED BY <1>2, <1>3 DEF C4Played

(* A legal move leaves a mark on top of a column that is not full.            *)
LEMMA DropIs ==
  ASSUME NEW s \in C4!State, NEW m \in C4!legal_moves(s)
  PROVE  LET t == C4!apply(s, m)
             top == Len(s.grid[m])
         IN  /\ t \in C4!State /\ t.to_move = 1 - s.to_move
             /\ m \in C4!Columns /\ top \in Nat /\ Len(t.grid[m]) = top + 1
             /\ t.grid[m][top + 1] = s.to_move /\ \A i \in 1..top : t.grid[m][i] = s.grid[m][i]
             /\ \A c \in C4!Columns \ {m} : t.grid[c] = s.grid[c]
<1> DEFINE t == C4!apply(s, m)
           p == s.to_move
           top == Len(s.grid[m])
<1>1. p \in {0, 1} /\ 1 - p \in {0, 1} /\ s.grid \in [C4!Columns -> C4!Column]
  BY ColumnIs
<1>2. m \in C4!Columns /\ top < ROWS
  BY DEF C4!legal_moves
<1>3. t.to_move = 1 - p /\ t.grid = [s.grid EXCEPT ![m] = Append(s.grid[m], p)]
  BY DEF C4!apply
<1>4. PICK w : w = Append(s.grid[m], p)
  OBVIOUS
<1>5. /\ w \in Seq({0, 1}) /\ top \in Nat /\ Len(w) = top + 1
      /\ w[top + 1] = p /\ \A i \in 1..top : w[i] = s.grid[m][i]
  <2>1. s.grid[m] \in Seq({0, 1})
    BY <1>2, ColumnIs
  <2> QED BY <1>1, <1>4, <2>1
<1>6. w \in C4!Column
  BY <1>2, <1>5, Boards DEF C4!Column
<1>7. t.grid = [s.grid EXCEPT ![m] = w] /\ t.grid \in [C4!Columns -> C4!Column]
  BY <1>1, <1>3, <1>4, <1>6
<1>8. t \in C4!State
  BY <1>1, <1>3, <1>7 DEF C4!apply, C4!State
<1> HIDE DEF t
<1>9. t.grid[m] = w /\ \A c \in C4!Columns \ {m} : t.grid[c] = s.grid[c]
  BY <1>1, <1>2, <1>7
<1> QED BY <1>2, <1>3, <1>5, <1>8, <1>9 DEF t

(* A move into a game that is on adds one mark, so a new line is the mover's.  *)
LEMMA C4Apply ==
  ASSUME NEW s, C4Played(s), NEW m \in C4!legal_moves(s)
  PROVE  C4Played(C4!apply(s, m))
<1> DEFINE t == C4!apply(s, m)
           p == s.to_move
           top == Len(s.grid[m])
<1>1. s \in C4!State /\ p \in {0, 1}
  BY DEF C4Played, C4!State
<1>2. m \in C4!Columns /\ C4!winner(s) = 2
  BY DEF C4!legal_moves, C4!Empty
<1>3. \A x \in {0, 1} : ~ HasLine(s, x)
  BY <1>1, <1>2, WinnerIs
<1>4. t.to_move = 1 - p
  BY <1>1, DropIs
<1>5. /\ top \in Nat /\ Len(t.grid[m]) = top + 1
      /\ t.grid[m][top + 1] = p /\ \A i \in 1..top : t.grid[m][i] = s.grid[m][i]
      /\ \A c \in C4!Columns \ {m} : t.grid[c] = s.grid[c]
  BY <1>1, DropIs
<1>6. t \in C4!State
  BY <1>1, DropIs
<1> HIDE DEF t
<1>7. ASSUME NEW a, NEW b \in Int PROVE C4!cell(t, a, b) = C4!cell(s, a, b) \/ C4!cell(t, a, b) = p
  <2>1. CASE a = m
    <3>1. CASE b = top
      <4>1. C4!cell(t, a, b) = p
        BY <1>2, <1>5, <2>1, <3>1 DEF C4!cell
      <4> QED BY <4>1
    <3>2. CASE b # top
      <4>1. b \in 0..Len(t.grid[m]) - 1 <=> b \in 0..top - 1
        BY <1>5, <3>2
      <4>2. b \in 0..top - 1 => t.grid[m][b + 1] = s.grid[m][b + 1]
        BY <1>5
      <4> QED BY <1>2, <2>1, <4>1, <4>2 DEF C4!cell
    <3> QED BY <3>1, <3>2
  <2>2. CASE a # m
    <3>1. a \in C4!Columns => t.grid[a] = s.grid[a]
      BY <1>5, <2>2
    <3> QED BY <3>1 DEF C4!cell
  <2> QED BY <2>1, <2>2
<1>8. ASSUME NEW x \in {0, 1}, HasLine(t, x) PROVE x = 1 - t.to_move
  <2> SUFFICES ASSUME x # p PROVE FALSE
    BY <1>1, <1>4
  <2>1. PICK c \in C4!Columns, r \in Rows, d \in C4!DIRS : Line(t, x, c, r, d)
    BY <1>8 DEF HasLine
  <2>2. Line(s, x, c, r, d)
    <3> SUFFICES ASSUME NEW i \in Reach PROVE C4!cell(s, c + i * d[1], r + i * d[2]) = x
      BY DEF Line
    <3>1. r + i * d[2] \in Int
      BY Boards DEF Rows, Reach, C4!DIRS
    <3>2. PICK a, b : a = c + i * d[1] /\ b = r + i * d[2]
      OBVIOUS
    <3>3. C4!cell(t, a, b) = x /\ b \in Int
      BY <2>1, <3>1, <3>2 DEF Line
    <3>4. C4!cell(s, a, b) = x
      BY <1>7, <3>3
    <3> QED BY <3>2, <3>4
  <2> QED BY <1>3, <2>2 DEF HasLine
<1> QED BY <1>6, <1>8 DEF C4Played, t

LEMMA C4Ends ==
  ASSUME NEW s \in C4!State
  PROVE  C4!outcome(s) = "none" <=> C4!legal_moves(s) # {}
<1>1. \A c \in C4!Columns : Len(s.grid[c]) \in Nat /\ Len(s.grid[c]) <= ROWS
  BY ColumnIs
<1>2. (\A c \in C4!Columns : Len(s.grid[c]) = ROWS) <=> ~ \E c \in C4!Columns : Len(s.grid[c]) < ROWS
  BY <1>1, Boards
<1>3. CASE C4!winner(s) = 2
  BY <1>2, <1>3 DEF C4!outcome, C4!legal_moves, C4!Empty
<1>4. CASE C4!winner(s) # 2
  BY <1>4 DEF C4!outcome, C4!legal_moves, C4!Empty
<1> QED BY <1>3, <1>4

-----------------------------------------------------------------------------
(* Reversi                                                                 *)

Edge == 0..SIZE - 1
Sq(c, r) == r * SIZE + c
Quarter(d) == <<0 - d[2], d[1]>>
Turn(sq) == Rv!TurnedTo(sq)

LEMMA Coordinates ==
  /\ \A sq \in Rv!Squares : /\ sq % SIZE \in Edge /\ sq \div SIZE \in Edge
                            /\ sq = Sq(sq % SIZE, sq \div SIZE)
  /\ \A c, r \in Edge : /\ Sq(c, r) \in Rv!Squares
                        /\ Sq(c, r) % SIZE = c /\ Sq(c, r) \div SIZE = r
                        /\ SIZE - 1 - c \in Edge
                        /\ Turn(Sq(c, r)) = Sq(SIZE - 1 - r, c)
<1>1. ASSUME NEW sq \in Rv!Squares
      PROVE  /\ sq % SIZE \in Edge /\ sq \div SIZE \in Edge
             /\ sq = Sq(sq % SIZE, sq \div SIZE)
  <2>1. sq % SIZE \in Edge
    BY Boards DEF Rv!Squares, Edge
  <2>2. sq \div SIZE \in Edge
    BY Boards DEF Rv!Squares, Edge
  <2>3. sq = (sq \div SIZE) * SIZE + (sq % SIZE)
    BY Boards DEF Rv!Squares
  <2> QED BY <2>1, <2>2, <2>3 DEF Sq
<1>2. ASSUME NEW c \in Edge, NEW r \in Edge
      PROVE  /\ Sq(c, r) \in Rv!Squares
             /\ Sq(c, r) % SIZE = c /\ Sq(c, r) \div SIZE = r
             /\ SIZE - 1 - c \in Edge
             /\ Turn(Sq(c, r)) = Sq(SIZE - 1 - r, c)
  <2>1. Sq(c, r) \in Rv!Squares
    BY Boards DEF Rv!Squares, Edge, Sq
  <2>2. Sq(c, r) % SIZE = c
    BY Boards DEF Edge, Sq
  <2>3. Sq(c, r) \div SIZE = r
    BY Boards DEF Edge, Sq
  <2>4. SIZE - 1 - c \in Edge
    BY Boards DEF Edge
  <2>5. Turn(Sq(c, r)) = c * SIZE + (SIZE - 1 - r)
    BY <2>2, <2>3 DEF Turn, Rv!TurnedTo
  <2> QED BY <2>1, <2>2, <2>3, <2>4, <2>5 DEF Sq
<1> QED BY <1>1, <1>2

LEMMA TurnIsOneToOne ==
  /\ \A sq \in Rv!Squares : Turn(sq) \in Rv!Squares
  /\ \A sq, o \in Rv!Squares : Turn(sq) = Turn(o) => sq = o
  /\ \A t \in Rv!Squares : \E sq \in Rv!Squares : Turn(sq) = t
<1>1. ASSUME NEW sq \in Rv!Squares PROVE Turn(sq) \in Rv!Squares
  <2>1. PICK c \in Edge, r \in Edge : sq = Sq(c, r)
    BY Coordinates
  <2> QED BY <2>1, Coordinates
<1>2. ASSUME NEW sq \in Rv!Squares, NEW o \in Rv!Squares, Turn(sq) = Turn(o) PROVE sq = o
  <2>1. PICK c \in Edge, r \in Edge : sq = Sq(c, r)
    BY Coordinates
  <2>2. PICK a \in Edge, b \in Edge : o = Sq(a, b)
    BY Coordinates
  <2>3. Sq(SIZE - 1 - r, c) = Sq(SIZE - 1 - b, a) /\ SIZE - 1 - r \in Edge /\ SIZE - 1 - b \in Edge
    BY <1>2, <2>1, <2>2, Coordinates
  <2>4. SIZE - 1 - r = SIZE - 1 - b /\ c = a
    BY <2>3, Coordinates
  <2>5. r = b
    BY <2>4, Boards DEF Edge
  <2> QED BY <2>1, <2>2, <2>4, <2>5
<1>3. ASSUME NEW t \in Rv!Squares PROVE \E sq \in Rv!Squares : Turn(sq) = t
  <2>1. PICK c \in Edge, r \in Edge : t = Sq(c, r)
    BY Coordinates
  <2>2. SIZE - 1 - c \in Edge /\ SIZE - 1 - (SIZE - 1 - c) = c
    BY Coordinates, Boards DEF Edge
  <2>3. Turn(Sq(r, SIZE - 1 - c)) = Sq(c, r) /\ Sq(r, SIZE - 1 - c) \in Rv!Squares
    BY <2>2, Coordinates
  <2> QED BY <2>1, <2>3
<1> QED BY <1>1, <1>2, <1>3

LEMMA TurnedIs ==
  ASSUME NEW s \in Rv!State
  PROVE  /\ Rv!Turned(s) \in Rv!State /\ Rv!Turned(s).to_move = s.to_move
         /\ \A sq \in Rv!Squares : Rv!Turned(s).board[Turn(sq)] = s.board[sq]
<1> DEFINE Back(t) == CHOOSE sq \in Rv!Squares : Rv!TurnedTo(sq) = t
           b == [t \in Rv!Squares |-> s.board[Back(t)]]
<1>1. \A t \in Rv!Squares : Back(t) \in Rv!Squares /\ Turn(Back(t)) = t
  BY TurnIsOneToOne DEF Turn
<1>2. \A sq \in Rv!Squares : Back(Turn(sq)) = sq
  BY <1>1, TurnIsOneToOne
<1>3. Rv!Turned(s) = [s EXCEPT !.board = b]
  BY DEF Rv!Turned
<1> HIDE DEF Back
<1>4. b \in [Rv!Squares -> {0, 1, 2}] /\ \A sq \in Rv!Squares : b[Turn(sq)] = s.board[sq]
  <2>1. \A sq \in Rv!Squares : s.board[sq] \in {0, 1, 2}
    BY DEF Rv!State, Rv!Empty
  <2> QED BY <1>1, <1>2, <2>1, TurnIsOneToOne
<1> HIDE DEF b
<1>5. PICK g, m : s = [board |-> g, to_move |-> m] /\ m \in {0, 1}
  BY DEF Rv!State
<1>6. Rv!Turned(s) = [board |-> b, to_move |-> m]
  BY <1>3, <1>5
<1> QED BY <1>4, <1>5, <1>6 DEF Rv!State, Rv!Empty

(* A step in a direction is, on the turned board, one in the turned direction. *)
LEMMA StepsTurn ==
  ASSUME NEW sq \in Rv!Squares, NEW d \in Rv!DIRS, NEW i \in Nat
  PROVE  /\ Quarter(d) \in Rv!DIRS
         /\ Rv!OnBoard(sq, d, i) <=> Rv!OnBoard(Turn(sq), Quarter(d), i)
         /\ Rv!OnBoard(sq, d, i) =>
              /\ Rv!Step(sq, d, i) \in Rv!Squares
              /\ Turn(Rv!Step(sq, d, i)) = Rv!Step(Turn(sq), Quarter(d), i)
         /\ \A j \in 0..i : Rv!OnBoard(sq, d, i) => Rv!OnBoard(sq, d, j)
<1>1. PICK c \in Edge, r \in Edge : sq = Sq(c, r)
  BY Coordinates
<1>2. Quarter(d) \in Rv!DIRS
  BY DEF Rv!DIRS, Quarter
<1>3. PICK u \in {-1, 0, 1}, v \in {-1, 0, 1} : d[1] = u /\ d[2] = v
  BY DEF Rv!DIRS
<1>4. Quarter(d)[1] = -v /\ Quarter(d)[2] = u
  BY <1>3 DEF Quarter
<1>5. Rv!OnBoard(sq, d, i) <=> c + i * u \in Edge /\ r + i * v \in Edge
  BY <1>1, <1>3, Coordinates DEF Rv!OnBoard, Edge
<1>6. Turn(sq) = Sq(SIZE - 1 - r, c) /\ SIZE - 1 - r \in Edge
  BY <1>1, Coordinates
<1>7. Rv!OnBoard(Turn(sq), Quarter(d), i) <=>
        (SIZE - 1 - r) + i * (-v) \in Edge /\ c + i * u \in Edge
  BY <1>4, <1>6, Coordinates DEF Rv!OnBoard, Edge
<1>8. (SIZE - 1 - r) + i * (-v) = SIZE - 1 - (r + i * v) /\ r + i * v \in Int
  BY <1>3, Boards DEF Edge
<1>9. (SIZE - 1 - r) + i * (-v) \in Edge <=> r + i * v \in Edge
  BY <1>8, Boards DEF Edge
<1>10. Rv!Step(sq, d, i) = Sq(c + i * u, r + i * v)
  BY <1>1, <1>3, Boards DEF Rv!Step, Sq, Edge
<1>11. Rv!Step(Turn(sq), Quarter(d), i) = Sq(SIZE - 1 - (r + i * v), c + i * u)
  BY <1>3, <1>4, <1>6, Boards DEF Rv!Step, Sq, Edge
<1>12. ASSUME Rv!OnBoard(sq, d, i)
       PROVE  /\ Rv!Step(sq, d, i) \in Rv!Squares
              /\ Turn(Rv!Step(sq, d, i)) = Rv!Step(Turn(sq), Quarter(d), i)
  BY <1>5, <1>10, <1>11, <1>12, Coordinates
<1>13. ASSUME NEW j \in 0..i, Rv!OnBoard(sq, d, i) PROVE Rv!OnBoard(sq, d, j)
  <2>1. c + i * u \in Edge /\ r + i * v \in Edge
    BY <1>5, <1>13
  <2>2. c + j * u \in Edge /\ r + j * v \in Edge
    BY <1>3, <2>1, Boards DEF Edge
  <2> QED BY <1>1, <1>3, <2>2, Coordinates DEF Rv!OnBoard, Edge
<1> QED BY <1>2, <1>5, <1>7, <1>9, <1>12, <1>13

(* The run of n discs that a disc of player p on sq closes in a direction.     *)
Run(b, p, sq, d, n) ==
  /\ Rv!OnBoard(sq, d, n + 1)
  /\ b[Rv!Step(sq, d, n + 1)] = p
  /\ \A i \in 1..n : b[Rv!Step(sq, d, i)] = 1 - p

Lengths == 1..SIZE - 2

LEMMA FlipsAre ==
  ASSUME NEW b, NEW p, NEW sq, NEW x
  PROVE  x \in Rv!flips(b, p, sq) <=>
           /\ b[sq] = 2
           /\ \E d \in Rv!DIRS, n \in Lengths : \E i \in 1..n :
                Run(b, p, sq, d, n) /\ x = Rv!Step(sq, d, i)
<1>1. ASSUME NEW d \in Rv!DIRS
      PROVE  x \in Rv!RunCaptured(b, p, sq, d) <=>
               \E n \in Lengths : \E i \in 1..n : Run(b, p, sq, d, n) /\ x = Rv!Step(sq, d, i)
  BY DEF Rv!RunCaptured, Run, Lengths
<1> QED BY <1>1 DEF Rv!flips, Rv!Empty

LEMMA RunTurned ==
  ASSUME NEW s \in Rv!State, NEW p, NEW sq \in Rv!Squares, NEW d \in Rv!DIRS, NEW n \in Lengths
  PROVE  /\ Run(s.board, p, sq, d, n) <=>
              Run(Rv!Turned(s).board, p, Turn(sq), Quarter(d), n)
         /\ Run(s.board, p, sq, d, n) =>
              \A i \in 1..n : /\ Rv!Step(sq, d, i) \in Rv!Squares
                              /\ Turn(Rv!Step(sq, d, i)) = Rv!Step(Turn(sq), Quarter(d), i)
<1> DEFINE b == s.board
           t == Rv!Turned(s).board
<1>1. n + 1 \in Nat /\ \A i \in 1..n + 1 : i \in Nat /\ i \in 0..n + 1
  BY Boards DEF Lengths
<1>2. Rv!OnBoard(sq, d, n + 1) <=> Rv!OnBoard(Turn(sq), Quarter(d), n + 1)
  BY <1>1, StepsTurn
<1>3. ASSUME Rv!OnBoard(sq, d, n + 1), NEW i \in 1..n + 1
      PROVE  /\ Rv!Step(sq, d, i) \in Rv!Squares
             /\ Turn(Rv!Step(sq, d, i)) = Rv!Step(Turn(sq), Quarter(d), i)
             /\ t[Rv!Step(Turn(sq), Quarter(d), i)] = b[Rv!Step(sq, d, i)]
  <2>1. Rv!OnBoard(sq, d, i)
    BY <1>1, <1>3, StepsTurn
  <2>2. /\ Rv!Step(sq, d, i) \in Rv!Squares
        /\ Turn(Rv!Step(sq, d, i)) = Rv!Step(Turn(sq), Quarter(d), i)
    BY <1>1, <2>1, StepsTurn
  <2> QED BY <2>2, TurnedIs
<1>4. n + 1 \in 1..n + 1 /\ \A i \in 1..n : i \in 1..n + 1
  BY DEF Lengths
<1> HIDE DEF b, t
<1>5. CASE Rv!OnBoard(sq, d, n + 1)
  <2>1. t[Rv!Step(Turn(sq), Quarter(d), n + 1)] = b[Rv!Step(sq, d, n + 1)]
    BY <1>3, <1>4, <1>5
  <2>2. \A i \in 1..n : t[Rv!Step(Turn(sq), Quarter(d), i)] = b[Rv!Step(sq, d, i)]
    BY <1>3, <1>4, <1>5
  <2>3. Run(b, p, sq, d, n) <=> Run(t, p, Turn(sq), Quarter(d), n)
    BY <1>2, <1>5, <2>1, <2>2 DEF Run
  <2> QED BY <1>3, <1>4, <1>5, <2>3 DEF b, t
<1>6. CASE ~ Rv!OnBoard(sq, d, n + 1)
  BY <1>2, <1>6 DEF Run, b, t
<1> QED BY <1>5, <1>6

LEMMA Quarters == \A e \in Rv!DIRS : \E d \in Rv!DIRS : Quarter(d) = e
<1>1. \A u, v \in Int : Quarter(<<u, v>>) = <<0 - v, u>>
  BY DEF Quarter
<1>2. 0 - (-1) = 1 /\ 0 - 0 = 0 /\ 0 \in Int /\ 1 \in Int /\ -1 \in Int
  OBVIOUS
<1>3. /\ Quarter(<<0, -1>>) = <<1, 0>> /\ Quarter(<<0, 1>>) = <<-1, 0>>
      /\ Quarter(<<1, 0>>) = <<0, 1>> /\ Quarter(<<-1, 0>>) = <<0, -1>>
  BY <1>1, <1>2
<1>4. /\ Quarter(<<1, -1>>) = <<1, 1>> /\ Quarter(<<-1, -1>>) = <<1, -1>>
      /\ Quarter(<<1, 1>>) = <<-1, 1>> /\ Quarter(<<-1, 1>>) = <<-1, -1>>
  BY <1>1, <1>2
<1> QED BY <1>3, <1>4 DEF Rv!DIRS

LEMMA FlipsTurned ==
  ASSUME NEW s \in Rv!State, NEW p, NEW sq \in Rv!Squares
  PROVE  /\ Rv!flips(s.board, p, sq) \subseteq Rv!Squares
         /\ Rv!flips(Rv!Turned(s).board, p, Turn(sq)) = { Turn(x) : x \in Rv!flips(s.board, p, sq) }
<1> DEFINE b == s.board
           t == Rv!Turned(s).board
<1>1. t[Turn(sq)] = b[sq]
  BY TurnedIs
<1>2. \A d \in Rv!DIRS, n \in Lengths :
        /\ Run(b, p, sq, d, n) <=> Run(t, p, Turn(sq), Quarter(d), n)
        /\ Run(b, p, sq, d, n) =>
             \A i \in 1..n : /\ Rv!Step(sq, d, i) \in Rv!Squares
                             /\ Turn(Rv!Step(sq, d, i)) = Rv!Step(Turn(sq), Quarter(d), i)
  BY RunTurned
<1>3. \A d \in Rv!DIRS : Quarter(d) \in Rv!DIRS
  BY DEF Rv!DIRS, Quarter
<1> HIDE DEF b, t
<1>4. Rv!flips(b, p, sq) \subseteq Rv!Squares
  BY <1>2, FlipsAre
<1>5. ASSUME NEW x \in Rv!flips(b, p, sq) PROVE Turn(x) \in Rv!flips(t, p, Turn(sq))
  <2>1. b[sq] = 2
    BY FlipsAre
  <2>2. PICK d \in Rv!DIRS, n \in Lengths : \E i \in 1..n : Run(b, p, sq, d, n) /\ x = Rv!Step(sq, d, i)
    BY FlipsAre
  <2>3. PICK i \in 1..n : Run(b, p, sq, d, n) /\ x = Rv!Step(sq, d, i)
    BY <2>2
  <2>4. Run(t, p, Turn(sq), Quarter(d), n) /\ Turn(x) = Rv!Step(Turn(sq), Quarter(d), i)
    BY <1>2, <2>3
  <2> QED BY <1>1, <1>3, <2>1, <2>4, FlipsAre
<1>6. ASSUME NEW y \in Rv!flips(t, p, Turn(sq)) PROVE \E x \in Rv!flips(b, p, sq) : y = Turn(x)
  <2>1. t[Turn(sq)] = 2
    BY FlipsAre
  <2>2. PICK e \in Rv!DIRS, n \in Lengths :
          \E i \in 1..n : Run(t, p, Turn(sq), e, n) /\ y = Rv!Step(Turn(sq), e, i)
    BY FlipsAre
  <2>3. PICK i \in 1..n : Run(t, p, Turn(sq), e, n) /\ y = Rv!Step(Turn(sq), e, i)
    BY <2>2
  <2>4. PICK d \in Rv!DIRS : Quarter(d) = e
    BY Quarters
  <2>5. Run(b, p, sq, d, n)
    BY <1>2, <2>3, <2>4
  <2>6. y = Turn(Rv!Step(sq, d, i))
    BY <1>2, <2>3, <2>4, <2>5
  <2>7. Rv!Step(sq, d, i) \in Rv!flips(b, p, sq)
    <3>1. b[sq] = 2 /\ n \in Lengths /\ i \in 1..n /\ d \in Rv!DIRS
      BY <1>1, <2>1
    <3>2. \E k \in 1..n : Run(b, p, sq, d, n) /\ Rv!Step(sq, d, i) = Rv!Step(sq, d, k)
      BY <2>5
    <3> QED BY <3>1, <3>2, FlipsAre
  <2> QED BY <2>6, <2>7
<1> QED BY <1>4, <1>5, <1>6 DEF b, t

LEMMA PlacementsTurned ==
  ASSUME NEW s \in Rv!State, NEW p
  PROVE  /\ Rv!placements(s.board, p) \subseteq Rv!Squares
         /\ Rv!placements(Rv!Turned(s).board, p) = { Turn(sq) : sq \in Rv!placements(s.board, p) }
<1> DEFINE t == Rv!Turned(s).board
<1>1. \A sq \in Rv!Squares : Rv!flips(t, p, Turn(sq)) # {} <=> Rv!flips(s.board, p, sq) # {}
  BY FlipsTurned
<1> HIDE DEF t
<1>2. \A y \in Rv!placements(t, p) : \E sq \in Rv!placements(s.board, p) : y = Turn(sq)
  BY <1>1, TurnIsOneToOne DEF Rv!placements
<1>3. \A sq \in Rv!placements(s.board, p) : Turn(sq) \in Rv!placements(t, p)
  BY <1>1, TurnIsOneToOne DEF Rv!placements
<1>4. Rv!placements(s.board, p) \subseteq Rv!Squares
  BY DEF Rv!placements
<1> QED BY <1>2, <1>3, <1>4 DEF t

(* Where a move of a turned board is: PASS stays PASS.                      *)
Moved(m) == IF m = Rv!PASS THEN m ELSE Turn(m)

LEMMA MovesTurned ==
  ASSUME NEW s \in Rv!State
  PROVE  /\ Rv!legal_moves(s) \subseteq Rv!Squares \cup {Rv!PASS}
         /\ Rv!legal_moves(Rv!Turned(s)) = { Moved(m) : m \in Rv!legal_moves(s) }
<1> DEFINE t == Rv!Turned(s)
           Own == Rv!placements(s.board, s.to_move)
           Theirs == Rv!placements(s.board, 1 - s.to_move)
<1>1. t.to_move = s.to_move
  BY TurnedIs
<1>2. Rv!placements(t.board, t.to_move) = {Turn(sq) : sq \in Own} /\ Own \subseteq Rv!Squares
  BY <1>1, PlacementsTurned
<1>3. Rv!placements(t.board, 1 - t.to_move) = {Turn(sq) : sq \in Theirs}
  BY <1>1, PlacementsTurned
<1>4. Rv!PASS \notin Rv!Squares
  BY Boards DEF Rv!PASS, Rv!Squares
<1>5. \A sq \in Own : Moved(sq) = Turn(sq)
  BY <1>2, <1>4 DEF Moved
<1>6. Moved(Rv!PASS) = Rv!PASS
  BY DEF Moved
<1> HIDE DEF t, Own, Theirs
<1>7. CASE Own # {}
  <2>1. Rv!legal_moves(t) = {Turn(sq) : sq \in Own} /\ Rv!legal_moves(s) = Own
    BY <1>2, <1>7 DEF Rv!legal_moves, Own
  <2> QED BY <1>2, <1>5, <2>1 DEF t
<1>8. CASE Own = {} /\ Theirs # {}
  <2>1. Rv!legal_moves(t) = {Rv!PASS} /\ Rv!legal_moves(s) = {Rv!PASS}
    BY <1>2, <1>3, <1>8 DEF Rv!legal_moves, Own, Theirs
  <2> QED BY <1>6, <2>1 DEF t
<1>9. CASE Own = {} /\ Theirs = {}
  <2>1. Rv!legal_moves(t) = {} /\ Rv!legal_moves(s) = {}
    BY <1>2, <1>3, <1>9 DEF Rv!legal_moves, Own, Theirs
  <2> QED BY <2>1 DEF t
<1> QED BY <1>7, <1>8, <1>9

LEMMA ReversiApply ==
  ASSUME NEW s \in Rv!State, NEW m
  PROVE  /\ Rv!apply(s, m) \in Rv!State
         /\ Rv!apply(s, m).to_move = 1 - s.to_move
         /\ \A sq \in Rv!Squares :
              Rv!apply(s, m).board[sq] =
                IF m # Rv!PASS /\ (sq = m \/ sq \in Rv!flips(s.board, s.to_move, m))
                THEN s.to_move ELSE s.board[sq]
<1> DEFINE turned == IF m = Rv!PASS THEN {} ELSE {m} \cup Rv!flips(s.board, s.to_move, m)
           b == [sq \in Rv!Squares |-> IF sq \in turned THEN s.to_move ELSE s.board[sq]]
<1>1. Rv!apply(s, m) = [board |-> b, to_move |-> 1 - s.to_move]
  BY DEF Rv!apply
<1>2. s.to_move \in {0, 1} /\ s.board \in [Rv!Squares -> {0, 1, Rv!Empty}] /\ 1 - s.to_move \in {0, 1}
  BY DEF Rv!State
<1>3. b \in [Rv!Squares -> {0, 1, Rv!Empty}]
  BY <1>2
<1>4. \A sq \in Rv!Squares : b[sq] = IF m # Rv!PASS /\ (sq = m \/ sq \in Rv!flips(s.board, s.to_move, m))
                                     THEN s.to_move ELSE s.board[sq]
  OBVIOUS
<1> HIDE DEF b
<1> QED BY <1>1, <1>2, <1>3, <1>4 DEF Rv!State

LEMMA ApplyTurned ==
  ASSUME NEW s \in Rv!State, NEW m \in Rv!Squares \cup {Rv!PASS}
  PROVE  Rv!apply(Rv!Turned(s), Moved(m)) = Rv!Turned(Rv!apply(s, m))
<1> DEFINE t == Rv!Turned(s)
           played == Rv!apply(s, m)
           left == Rv!apply(t, Moved(m))
           right == Rv!Turned(played)
<1>1. played \in Rv!State /\ t \in Rv!State /\ t.to_move = s.to_move
  BY ReversiApply, TurnedIs
<1>2. left \in Rv!State /\ right \in Rv!State
  BY <1>1, ReversiApply, TurnedIs
<1>3. left.to_move = right.to_move
  <2>1. left.to_move = 1 - s.to_move
    BY <1>1, ReversiApply
  <2>2. played.to_move = 1 - s.to_move
    BY ReversiApply
  <2>3. right.to_move = played.to_move
    BY <1>1, TurnedIs
  <2> QED BY <2>1, <2>2, <2>3
<1>4. Rv!PASS \notin Rv!Squares
  BY Boards DEF Rv!PASS, Rv!Squares
<1>5. ASSUME NEW sq \in Rv!Squares PROVE left.board[Turn(sq)] = right.board[Turn(sq)]
  <2>1. right.board[Turn(sq)] = played.board[sq]
    BY <1>1, TurnedIs
  <2>2. played.board[sq] = IF m # Rv!PASS /\ (sq = m \/ sq \in Rv!flips(s.board, s.to_move, m))
                           THEN s.to_move ELSE s.board[sq]
    BY ReversiApply
  <2>3. Turn(sq) \in Rv!Squares /\ t.board[Turn(sq)] = s.board[sq]
    BY TurnIsOneToOne, TurnedIs
  <2>4. left.board[Turn(sq)] =
          IF Moved(m) # Rv!PASS /\ (Turn(sq) = Moved(m) \/ Turn(sq) \in Rv!flips(t.board, t.to_move, Moved(m)))
          THEN t.to_move ELSE t.board[Turn(sq)]
    BY <1>1, <2>3, ReversiApply
  <2>5. CASE m = Rv!PASS
    <3>1. Moved(m) = Rv!PASS
      BY <2>5 DEF Moved
    <3> QED BY <2>1, <2>2, <2>3, <2>4, <2>5, <3>1
  <2>6. CASE m # Rv!PASS
    <3>1. m \in Rv!Squares /\ Moved(m) = Turn(m)
      BY <2>6 DEF Moved
    <3>2. Turn(m) # Rv!PASS /\ (Turn(sq) = Turn(m) <=> sq = m)
      BY <1>4, <3>1, TurnIsOneToOne
    <3>3. /\ Rv!flips(s.board, s.to_move, m) \subseteq Rv!Squares
          /\ Rv!flips(t.board, s.to_move, Turn(m)) = { Turn(x) : x \in Rv!flips(s.board, s.to_move, m) }
      BY <3>1, FlipsTurned
    <3>4. Turn(sq) \in Rv!flips(t.board, t.to_move, Turn(m)) <=> sq \in Rv!flips(s.board, s.to_move, m)
      BY <1>1, <3>3, TurnIsOneToOne
    <3> QED BY <1>1, <2>1, <2>2, <2>3, <2>4, <2>6, <3>1, <3>2, <3>4
  <2> QED BY <2>5, <2>6
<1> HIDE DEF left, right
<1>6. \A u \in Rv!Squares : left.board[u] = right.board[u]
  BY <1>5, TurnIsOneToOne
<1>7. left = right
  BY <1>2, <1>3, <1>6 DEF Rv!State
<1> QED BY <1>7 DEF left, right

LEMMA DiscsTurned ==
  ASSUME NEW s \in Rv!State, NEW p
  PROVE  /\ Rv!discs(Rv!Turned(s).board, p) = Rv!discs(s.board, p)
         /\ Rv!discs(s.board, p) \in Nat
<1> DEFINE S == { sq \in Rv!Squares : s.board[sq] = p }
           t == Rv!Turned(s)
           T == { sq \in Rv!Squares : t.board[sq] = p }
           f == [sq \in S |-> Turn(sq)]
<1>1. IsFiniteSet(S)
  <2>1. IsFiniteSet(0..SIZE * SIZE - 1)
    BY Boards, FS_Interval
  <2> QED BY <2>1, FS_Subset DEF Rv!Squares
<1>2. \A sq \in Rv!Squares : Turn(sq) \in Rv!Squares /\ t.board[Turn(sq)] = s.board[sq]
  BY TurnIsOneToOne, TurnedIs
<1> HIDE DEF t
<1>3. f \in [S -> T] /\ \A u \in T : \E sq \in S : f[sq] = u
  BY <1>2, TurnIsOneToOne
<1>4. \A a, b \in S : f[a] = f[b] => a = b
  BY TurnIsOneToOne
<1> HIDE DEF S, T, f
<1>5. f \in Bijection(S, T)
  BY <1>3, <1>4 DEF Bijection, Injection, Surjection, IsInjective
<1>6. Cardinality(T) = Cardinality(S) /\ Cardinality(S) \in Nat
  BY <1>1, <1>5, FS_Bijection, FS_CardinalityType DEF ExistsBijection
<1>7. Rv!discs(s.board, p) = Cardinality(S)
  BY DEF Rv!discs, S, Cardinality, Rv!Cardinality, Rv!IsFiniteSet, IsFiniteSet
<1>8. Rv!discs(t.board, p) = Cardinality(T)
  BY DEF Rv!discs, T, Cardinality, Rv!Cardinality, Rv!IsFiniteSet, IsFiniteSet
<1> QED BY <1>6, <1>7, <1>8 DEF t

LEMMA ReversiSymmetric ==
  ASSUME NEW s \in Rv!State
  PROVE  /\ Rv!outcome(Rv!Turned(s)) = Rv!outcome(s)
         /\ Rv!legal_moves(Rv!Turned(s)) = { Moved(m) : m \in Rv!legal_moves(s) }
         /\ \A m \in Rv!legal_moves(s) :
              Rv!apply(Rv!Turned(s), Moved(m)) = Rv!Turned(Rv!apply(s, m))
<1> DEFINE t == Rv!Turned(s)
<1>1. \A p \in {0, 1} : Rv!placements(t.board, p) = {} <=> Rv!placements(s.board, p) = {}
  BY PlacementsTurned
<1>2. Rv!discs(t.board, 0) = Rv!discs(s.board, 0) /\ Rv!discs(t.board, 1) = Rv!discs(s.board, 1)
  BY DiscsTurned
<1> HIDE DEF t
<1>3. Rv!placements(t.board, 0) \cup Rv!placements(t.board, 1) = {} <=>
        Rv!placements(s.board, 0) \cup Rv!placements(s.board, 1) = {}
  BY <1>1
<1>4. Rv!outcome(t) = Rv!outcome(s)
  BY <1>2, <1>3 DEF Rv!outcome
<1> QED BY <1>4, MovesTurned, ApplyTurned DEF t

LEMMA ReversiEnds ==
  ASSUME NEW s \in Rv!State
  PROVE  Rv!outcome(s) = "none" <=> Rv!legal_moves(s) # {}
<1> DEFINE Any == Rv!placements(s.board, 0) \cup Rv!placements(s.board, 1)
<1>1. Rv!legal_moves(s) # {} <=> Any # {}
  <2>1. CASE s.to_move = 0
    BY <2>1 DEF Rv!legal_moves
  <2>2. CASE s.to_move = 1
    BY <2>2 DEF Rv!legal_moves
  <2> QED BY <2>1, <2>2 DEF Rv!State
<1> HIDE DEF Any
<1>2. Rv!outcome(s) = "none" <=> Any # {}
  BY DEF Rv!outcome, Any
<1> QED BY <1>1, <1>2

LEMMA ReversiStart == Rv!initial_state \in Rv!State
<1>1. \A sq : (CASE sq \in {(SIZE \div 2 - 1) * (SIZE + 1), (SIZE \div 2 - 1) * (SIZE + 1) + SIZE + 1} -> 1
                 [] sq \in {(SIZE \div 2 - 1) * (SIZE + 1) + 1, (SIZE \div 2 - 1) * (SIZE + 1) + SIZE} -> 0
                 [] OTHER -> Rv!Empty) \in {0, 1, Rv!Empty}
  BY Boards
<1> QED BY <1>1 DEF Rv!initial_state, Rv!State

-----------------------------------------------------------------------------
(* The demo                                                                *)

(* A position that play leads to, of either game.                           *)
Played(g, s) == IF g = "c4" THEN C4Played(s) ELSE s \in Rv!State

(* Each side is somewhere the rules lead to: what the other side sent is     *)
(* decoded from a byte, and no move that is not legal is applied.            *)
DemoInv ==
  /\ game \in GAME_IDS
  /\ position = [side \in Side |-> position[side]]
  /\ \A side \in Side : Played(game, position[side])

LEMMA PlayedStart == \A g \in GAME_IDS : Played(g, initial_state(g))
BY C4Start, ReversiStart DEF GAME_IDS, Played, initial_state

LEMMA PlayedApply ==
  ASSUME NEW g \in GAME_IDS, NEW s, Played(g, s), NEW m \in legal_moves(g, s)
  PROVE  Played(g, apply(g, s, m))
<1>1. CASE g = "c4"
  BY <1>1, C4Apply DEF Played, legal_moves, apply
<1>2. CASE g # "c4"
  BY <1>2, ReversiApply DEF Played, legal_moves, apply
<1> QED BY <1>1, <1>2

LEMMA DemoMoves ==
  ASSUME DemoInv, NEW side \in Side, NEW m \in legal_moves(game, position[side]),
         position' = [position EXCEPT ![side] = apply(game, @, m)], game' = game
  PROVE  DemoInv'
<1>1. PICK g, s : g = game /\ s = position[side]
  OBVIOUS
<1>2. g \in GAME_IDS /\ Played(g, s)
  BY <1>1 DEF DemoInv
<1>3. Played(g, apply(g, s, m))
  BY <1>1, <1>2, PlayedApply
<1>4. PICK t : t = apply(g, s, m)
  OBVIOUS
<1>5. game' = g /\ position' = [position EXCEPT ![side] = t]
  BY <1>1, <1>4
<1>6. \A o \in Side : position'[o] = IF o = side THEN t ELSE position[o]
  BY <1>5 DEF DemoInv
<1>7. \A o \in Side : Played(g, position'[o])
  BY <1>1, <1>3, <1>4, <1>6 DEF DemoInv
<1>8. position' = [o \in Side |-> position'[o]]
  BY <1>5 DEF DemoInv
<1> QED BY <1>2, <1>5, <1>7, <1>8 DEF DemoInv

LEMMA DemoStarts == DemoInit => DemoInv
<1> SUFFICES ASSUME DemoInit PROVE DemoInv
  OBVIOUS
<1>1. game \in GAME_IDS
  BY SetupsAssumption DEF DemoInit
<1>2. PICK g : g = game
  OBVIOUS
<1>3. position = [side \in Side |-> initial_state(g)]
  BY <1>2 DEF DemoInit
<1>4. PICK s : s = initial_state(g)
  OBVIOUS
<1>5. position = [side \in Side |-> position[side]] /\ \A side \in Side : position[side] = s
  BY <1>3, <1>4
<1>6. Played(g, s)
  BY <1>1, <1>2, <1>4, PlayedStart
<1> QED BY <1>1, <1>2, <1>5, <1>6 DEF DemoInv

(* The state is always one that play leads to, for every board, every set of  *)
(* orders the bot may try moves in, and every search depth.                 *)
THEOREM DemoInvariance == DemoSpec => []DemoInv
<1>1. DemoInv /\ [DemoNext]_demoVars => DemoInv'
  <2> SUFFICES ASSUME DemoInv, [DemoNext]_demoVars PROVE DemoInv'
    OBVIOUS
  <2>1. ASSUME NEW side \in Side, NEW m, submit_move(side, m) PROVE DemoInv'
    BY <2>1, DemoMoves DEF submit_move
  <2>2. CASE PersonMoves
    BY <2>1, <2>2 DEF PersonMoves, Side
  <2>3. CASE tick
    BY <2>1, <2>3 DEF tick, Side
  <2>4. CASE pump
    <3>1. PICK to, m : /\ m \in legal_moves(game, position[to])
                       /\ position' = [position EXCEPT ![to] = apply(game, @, m)]
                       /\ game' = game
      BY <2>4 DEF pump
    <3>2. CASE to \in Side
      BY <3>1, <3>2, DemoMoves
    <3>3. CASE to \notin Side
      <4>1. position' = position
        BY <3>1, <3>3 DEF DemoInv
      <4> QED BY <3>1, <4>1 DEF DemoInv
    <3> QED BY <3>2, <3>3
  <2>5. CASE UNCHANGED demoVars
    BY <2>5 DEF demoVars, DemoInv
  <2> QED BY <2>2, <2>3, <2>4, <2>5 DEF DemoNext
<1> QED BY <1>1, DemoStarts, PTL DEF DemoSpec

(* No position of the demo is over with a move left, or stuck with the game   *)
(* still on: outcome and legal_moves agree wherever play leads.             *)
THEOREM EndsAgree == DemoSpec => []EndAgrees
<1>1. DemoInv => EndAgrees
  <2> SUFFICES ASSUME DemoInv, NEW side \in Side
               PROVE  (outcome(game, position[side]) = "none") <=>
                        (legal_moves(game, position[side]) # {})
    BY DEF EndAgrees
  <2>1. PICK g, s : g = game /\ s = position[side]
    OBVIOUS
  <2>2. Played(g, s)
    BY <2>1 DEF DemoInv
  <2>3. outcome(g, s) = "none" <=> legal_moves(g, s) # {}
    BY <2>2, C4Ends, ReversiEnds DEF Played, C4Played, outcome, legal_moves
  <2> QED BY <2>1, <2>3
<1> QED BY <1>1, DemoInvariance, PTL

(* The rules of both games know no left and right: the mirror of a connect    *)
(* four board, and the quarter turn of a reversi board, keep the result, the   *)
(* moves, and (reversi) what a move does.                                   *)
THEOREM RulesAreSymmetric == DemoSpec => []SymmetricRules
<1>1. DemoInv => SymmetricRules
  <2> SUFFICES ASSUME DemoInv PROVE SymmetricRules
    OBVIOUS
  <2>1. PICK s : s = position["you"]
    OBVIOUS
  <2>2. CASE game = "c4"
    <3>1. C4Played(s)
      BY <2>1, <2>2 DEF DemoInv, Played, Side
    <3>2. /\ C4!outcome(C4!Mirrored(s)) = C4!outcome(s)
          /\ C4!legal_moves(C4!Mirrored(s)) = { COLS - 1 - c : c \in C4!legal_moves(s) }
      BY <3>1, C4Symmetric DEF Mirror
    <3> QED BY <2>1, <2>2, <3>2 DEF SymmetricRules
  <2>3. CASE game = "reversi"
    <3>1. s \in Rv!State
      BY <2>1, <2>3 DEF DemoInv, Played, Side
    <3>2. /\ Rv!outcome(Rv!Turned(s)) = Rv!outcome(s)
          /\ Rv!legal_moves(Rv!Turned(s)) = { Moved(m) : m \in Rv!legal_moves(s) }
          /\ \A m \in Rv!legal_moves(s) :
               Rv!apply(Rv!Turned(s), Moved(m)) = Rv!Turned(Rv!apply(s, m))
      BY <3>1, ReversiSymmetric
    <3>3. \A m : Moved(m) = IF m = Rv!PASS THEN m ELSE Rv!TurnedTo(m)
      BY DEF Moved, Turn
    <3> QED BY <2>1, <2>3, <3>2, <3>3 DEF SymmetricRules
  <2> QED BY <2>2, <2>3 DEF DemoInv, GAME_IDS
<1> QED BY <1>1, DemoInvariance, PTL


-----------------------------------------------------------------------------
(* The bot's search                                                        *)

(* Between the windows' ends, 2 * WIN away, which no position is worth.       *)
Worth == { x \in Int : 0 - x < 2 * WIN /\ x < 2 * WIN }

LEMMA Weights ==
  /\ WIN = 10000 /\ COLS * COLS * ROWS < 20000 /\ SIZE * SIZE + 100 < 20000
BY EvaluationAssumption DEF WIN

LEMMA CountIs ==
  ASSUME NEW n \in Nat, NEW S, S \subseteq 1..n
  PROVE  Cardinality(S) \in 0..n
<1>1. IsFiniteSet(1..n) /\ Cardinality(1..n) = IF 1 > n THEN 0 ELSE n - 1 + 1
  BY FS_Interval
<1>2. Cardinality(1..n) = n
  BY <1>1
<1>3. IsFiniteSet(S) /\ Cardinality(S) <= n
  BY <1>1, <1>2, FS_Subset
<1>4. Cardinality(S) \in Nat
  BY <1>3, FS_CardinalityType
<1> QED BY <1>3, <1>4

LEMMA EvalC4Bounded ==
  ASSUME NEW s \in C4!State
  PROVE  eval_c4(s) \in Worth
<1> DEFINE Own(c) == Cardinality({ i \in DOMAIN s.grid[c] : s.grid[c][i] = s.to_move })
           Term(c) == ColumnWeight(c) * (2 * Own(c) - Len(s.grid[c]))
           Sum(f) == f = [c \in 0..COLS |-> IF c = 0 THEN 0 ELSE f[c - 1] + Term(c - 1)]
           F == [c \in 1..COLS |-> [x \in Int |-> x + Term(c - 1)]]
           B == COLS * ROWS
<1>0. COLS \in Nat /\ ROWS \in Nat /\ B \in Nat /\ COLS * B < 20000
  <2>1. COLS * B = COLS * COLS * ROWS
    BY Boards
  <2> QED BY <2>1, Boards, Weights
<1>1. ASSUME NEW c \in C4!Columns PROVE Term(c) \in -B..B
  <2> DEFINE n == Len(s.grid[c])
             k == Own(c)
             w == ColumnWeight(c)
  <2>1. n \in 0..ROWS /\ DOMAIN s.grid[c] = 1..n
    BY Boards, ColumnIs
  <2>2. k \in 0..n
    <3>1. { i \in DOMAIN s.grid[c] : s.grid[c][i] = s.to_move } \subseteq 1..n
      BY <2>1
    <3> QED BY <2>1, <3>1, CountIs
  <2>3. w \in 0..COLS
    BY Boards DEF ColumnWeight, C4!Columns
  <2> HIDE DEF n, k, w
  <2>4. 2 * k - n \in -ROWS..ROWS
    BY <2>1, <2>2, Boards
  <2>5. \A a \in 0..COLS, b \in -ROWS..ROWS : a * b \in -B..B
    BY Boards
  <2>6. w * (2 * k - n) \in -B..B
    BY <2>3, <2>4, <2>5
  <2> QED BY <2>6 DEF n, k, w
<1>2. \A c \in 1..COLS : c - 1 \in C4!Columns
  BY Boards DEF C4!Columns
<1> HIDE DEF Term, B
<1>3. \A c \in 1..COLS : Term(c - 1) \in -B..B /\ Term(c - 1) \in Int
  BY <1>0, <1>1, <1>2
<1>4. F \in [1..COLS -> [Int -> Int]] /\ 0 \in Int
  BY <1>3
<1>5. \A c \in 1..COLS, x \in Int : F[c][x] = x + Term(c - 1)
  OBVIOUS
<1> HIDE DEF F, Sum
<1>6. PICK g \in [0..COLS -> Int] : Folds(g, 0, F, COLS)
  <2>1. COLS \in Nat
    BY <1>0
  <2> QED BY <1>4, <2>1, Recursion, Zenon
<1>7. Sum(g)
  <2>1. g[0] = 0 /\ g = [c \in 0..COLS |-> g[c]]
    BY <1>6 DEF Folds
  <2>2. ASSUME NEW c \in 0..COLS PROVE g[c] = IF c = 0 THEN 0 ELSE g[c - 1] + Term(c - 1)
    <3>1. c # 0 => c \in 1..COLS /\ g[c - 1] \in Int
      BY <1>0, <1>6
    <3>2. c # 0 => g[c] = F[c][g[c - 1]]
      BY <1>6, <3>1 DEF Folds
    <3> QED BY <1>5, <2>1, <3>1, <3>2
  <2> QED BY <2>1, <2>2, Zenon DEF Sum
<1>8. PICK f : f = (CHOOSE sum : Sum(sum))
  OBVIOUS
<1>9. Sum(f)
  BY <1>7, <1>8
<1>10. f = [c \in 0..COLS |-> f[c]] /\ f[0] = 0 /\ \A c \in 1..COLS : f[c] = f[c - 1] + Term(c - 1)
  <2>1. 0 \in 0..COLS /\ \A c \in 1..COLS : c \in 0..COLS /\ c # 0
    BY <1>0
  <2>2. \A c \in 0..COLS : f[c] = IF c = 0 THEN 0 ELSE f[c - 1] + Term(c - 1)
    BY <1>9, Zenon DEF Sum
  <2>3. f = [c \in 0..COLS |-> f[c]]
    BY <1>9, <2>2 DEF Sum
  <2> QED BY <2>1, <2>2, <2>3
<1> DEFINE S == {c \in Nat : c <= COLS => f[c] \in -(c * B)..c * B}
<1>11. 0 \in S
  BY <1>0, <1>10
<1>12. ASSUME NEW c \in Nat, c \in S PROVE c + 1 \in S
  <2> SUFFICES ASSUME c + 1 <= COLS PROVE f[c + 1] \in -((c + 1) * B)..(c + 1) * B
    OBVIOUS
  <2>1. c + 1 \in 1..COLS /\ (c + 1) - 1 = c /\ f[c] \in -(c * B)..c * B
    BY <1>0, <1>12
  <2>2. f[c + 1] = f[c] + Term(c) /\ Term(c) \in -B..B
    BY <1>3, <1>10, <2>1
  <2> QED BY <1>0, <2>1, <2>2
<1> HIDE DEF S
<1>13. f[COLS] \in Int /\ 0 - f[COLS] <= COLS * B /\ f[COLS] <= COLS * B
  <2>1. COLS \in S
    BY <1>0, <1>11, <1>12, Induct
  <2>2. COLS * B \in Nat
    BY <1>0
  <2> QED BY <1>0, <2>1, <2>2 DEF S
<1>14. eval_c4(s) = f[COLS]
  BY <1>8 DEF eval_c4, Sum, Term
<1>15. COLS * B \in Nat /\ COLS * B <= 19999
  BY <1>0
<1>16. Worth = { x \in Int : 0 - x < 20000 /\ x < 20000 }
  BY Weights DEF Worth
<1>17. f[COLS] \in Worth
  BY <1>13, <1>15, <1>16
<1> QED BY <1>14, <1>17

LEMMA FourAtMost ==
  ASSUME NEW a, NEW b, NEW c, NEW d
  PROVE  IsFiniteSet({a, b, c, d}) /\ Cardinality({a, b, c, d}) \in 0..4
<1> DEFINE S1 == {} \cup {a}
           S2 == S1 \cup {b}
           S3 == S2 \cup {c}
           S4 == S3 \cup {d}
<1>0. IsFiniteSet({}) /\ Cardinality({}) = 0
  BY FS_EmptySet
<1>1. IsFiniteSet(S1) /\ Cardinality(S1) \in 0..1
  BY <1>0, FS_AddElement
<1> HIDE DEF S1
<1>2. IsFiniteSet(S2) /\ Cardinality(S2) \in 0..2
  BY <1>1, FS_AddElement
<1> HIDE DEF S2
<1>3. IsFiniteSet(S3) /\ Cardinality(S3) \in 0..3
  BY <1>2, FS_AddElement
<1> HIDE DEF S3
<1>4. IsFiniteSet(S4) /\ Cardinality(S4) \in 0..4
  BY <1>3, FS_AddElement
<1>5. S4 = {a, b, c, d}
  BY DEF S1, S2, S3
<1> QED BY <1>4, <1>5

LEMMA EvalReversiBounded ==
  ASSUME NEW s \in Rv!State
  PROVE  eval_reversi(s) \in Worth
<1> DEFINE Discs(p) == Rv!discs(s.board, p)
           Held(p) == Cardinality({ c \in Corners : s.board[c] = p })
           N == SIZE * SIZE
<1>0. N \in Nat /\ N + 100 <= 19999
  BY Boards, Weights
<1>1. ASSUME NEW p PROVE Discs(p) \in 0..N
  <2> DEFINE S == { sq \in Rv!Squares : s.board[sq] = p }
  <2>0. 0 \in Int /\ N - 1 \in Int
    BY <1>0
  <2>1. IsFiniteSet(0..N - 1) /\ Cardinality(0..N - 1) = IF 0 > N - 1 THEN 0 ELSE N - 1 - 0 + 1
    BY <2>0, FS_Interval, Zenon
  <2>2. Cardinality(0..N - 1) = N
    BY <1>0, <2>1
  <2>3. S \subseteq 0..N - 1
    BY DEF Rv!Squares
  <2> HIDE DEF S
  <2>4. IsFiniteSet(S) /\ Cardinality(S) <= N /\ Cardinality(S) \in Nat
    BY <2>1, <2>2, <2>3, FS_Subset, FS_CardinalityType
  <2>5. Discs(p) = Cardinality(S)
    BY DEF Rv!discs, S, Cardinality, Rv!Cardinality, Rv!IsFiniteSet, IsFiniteSet
  <2> QED BY <1>0, <2>4, <2>5
<1>2. ASSUME NEW p PROVE Held(p) \in 0..4
  <2> DEFINE S == { c \in Corners : s.board[c] = p }
  <2>1. IsFiniteSet(Corners) /\ Cardinality(Corners) \in 0..4
    BY FourAtMost DEF Corners
  <2>2. S \subseteq Corners
    OBVIOUS
  <2> HIDE DEF S
  <2>3. Cardinality(S) <= Cardinality(Corners) /\ Cardinality(S) \in Nat
    BY <2>1, <2>2, FS_Subset, FS_CardinalityType
  <2> QED BY <2>1, <2>3 DEF S
<1>3. eval_reversi(s) = (Discs(s.to_move) + 25 * Held(s.to_move))
                          - (Discs(1 - s.to_move) + 25 * Held(1 - s.to_move))
  BY DEF eval_reversi
<1> HIDE DEF Discs, Held, N
<1>4. ASSUME NEW a \in 0..N, NEW b \in 0..N, NEW c \in 0..4, NEW d \in 0..4
      PROVE  (a + 25 * c) - (b + 25 * d) \in { x \in Int : 0 - x < 20000 /\ x < 20000 }
  BY <1>0
<1>5. Worth = { x \in Int : 0 - x < 20000 /\ x < 20000 }
  BY Weights DEF Worth
<1> QED BY <1>1, <1>2, <1>3, <1>4, <1>5

LEMMA Moves ==
  ASSUME NEW g \in GAME_IDS, NEW s \in State(g), NEW m \in legal_moves(g, s)
  PROVE  m \in Nat
<1>1. CASE g = "c4"
  <2>1. m \in C4!Columns
    BY <1>1 DEF legal_moves, C4!legal_moves
  <2> QED BY <2>1, Boards DEF C4!Columns
<1>2. CASE g # "c4"
  <2>1. m \in Rv!Squares \cup {Rv!PASS}
    BY <1>2, MovesTurned DEF legal_moves, State
  <2> QED BY <2>1, Boards DEF Rv!Squares, Rv!PASS
<1> QED BY <1>1, <1>2

LEMMA RulesOf ==
  ASSUME NEW g \in GAME_IDS, NEW s \in State(g)
  PROVE  /\ \A m \in legal_moves(g, s) : m + 1 \in 1..Top(g) /\ apply(g, s, m) \in State(g)
         /\ outcome(g, s) = "none" => legal_moves(g, s) # {}
         /\ evaluate(g, s) \in Worth
         /\ Top(g) \in Nat
<1>1. CASE g = "c4"
  <2>1. s \in C4!State
    BY <1>1 DEF State
  <2>2. \A m \in C4!legal_moves(s) : m \in 0..COLS - 1 /\ C4!apply(s, m) \in C4!State
    BY <2>1, DropIs DEF C4!Columns
  <2>3. C4!outcome(s) = "none" => C4!legal_moves(s) # {}
    BY <2>1, C4Ends
  <2>4. eval_c4(s) \in Worth
    BY <2>1, EvalC4Bounded
  <2> QED BY <1>1, <2>2, <2>3, <2>4, Boards DEF State, legal_moves, apply, outcome, evaluate, Top
<1>2. CASE g # "c4"
  <2>1. s \in Rv!State
    BY <1>2 DEF State
  <2>2. \A m \in Rv!legal_moves(s) : m \in 0..SIZE * SIZE /\ Rv!apply(s, m) \in Rv!State
    <3>1. \A m \in Rv!legal_moves(s) : m \in Rv!Squares \cup {Rv!PASS}
      BY <2>1, MovesTurned
    <3>2. SIZE * SIZE \in Nat
      BY Boards
    <3>3. Rv!Squares \cup {Rv!PASS} \subseteq 0..SIZE * SIZE
      BY <3>2 DEF Rv!Squares, Rv!PASS
    <3> QED BY <2>1, <3>1, <3>3, ReversiApply
  <2>3. Rv!outcome(s) = "none" => Rv!legal_moves(s) # {}
    BY <2>1, ReversiEnds
  <2>4. eval_reversi(s) \in Worth
    BY <2>1, EvalReversiBounded
  <2>5. Top(g) = SIZE * SIZE + 1 /\ SIZE * SIZE \in Nat
    BY <1>2, Boards DEF Top, Rv!PASS
  <2> QED BY <1>2, <2>2, <2>3, <2>4, <2>5 DEF State, legal_moves, apply, outcome, evaluate
<1> QED BY <1>1, <1>2

LEMMA DecidedBounded ==
  ASSUME NEW s, NEW result, NEW depth \in 0..WIN - 1
  PROVE  Decided(s, result, depth) \in Worth
<1> DEFINE v == WIN + depth
<1>1. v \in Int /\ 0 < v /\ v < 2 * WIN /\ WIN = 10000
  BY Weights
<1> HIDE DEF v
<1>2. 0 \in Worth /\ v \in Worth /\ -v \in Worth
  BY <1>1 DEF Worth
<1> QED BY <1>2 DEF Decided, v

LEMMA WorthIs ==
  /\ WIN = 10000
  /\ \A x \in Worth : x \in Int /\ 0 - x < 20000 /\ x < 20000
  /\ \A x \in Int : 0 - x < 20000 /\ x < 20000 => x \in Worth
  /\ \A x \in Worth : -x \in Worth
BY DEF Worth, WIN

LEMMA Highest ==
  ASSUME NEW S \in SUBSET Worth, S # {}
  PROVE  \E v \in S : \A w \in S : w <= v
<1> DEFINE R == { k \in Nat : 20000 - k \in S }
<1>1. PICK x \in S : x \in Int /\ x < 20000
  BY S # {}, WorthIs
<1>2. R \in SUBSET Nat /\ \E j : j \in R
  BY <1>1
<1> HIDE DEF R
<1>3. PICK k \in R : \A j \in R : k <= j
  <2>1. PICK j : j \in R
    BY <1>2
  <2> QED BY <1>2, <2>1, Least, Zenon
<1>4. k \in Nat /\ 20000 - k \in S
  BY <1>3 DEF R
<1>5. ASSUME NEW w \in S PROVE w <= 20000 - k
  <2>1. w \in Int /\ w < 20000
    BY WorthIs
  <2>2. 20000 - w \in R
    BY <2>1 DEF R
  <2> QED BY <1>3, <1>4, <2>1, <2>2
<1> QED BY <1>4, <1>5

Best(scores) == CHOOSE v \in scores : \A w \in scores : w <= v
Replies(g, f, s) == { -f[apply(g, s, m)] : m \in legal_moves(g, s) }
FullAt(g, i, f, s) ==
  IF outcome(g, s) # "none" THEN Decided(s, outcome(g, s), i)
  ELSE IF i = 0 THEN evaluate(g, s)
  ELSE Best(Replies(g, f, s))

LEMMA BestReply ==
  ASSUME NEW g \in GAME_IDS, NEW s \in State(g), NEW f \in [State(g) -> Worth],
         outcome(g, s) = "none"
  PROVE  /\ Best(Replies(g, f, s)) \in Replies(g, f, s)
         /\ Best(Replies(g, f, s)) \in Worth
         /\ \A m \in legal_moves(g, s) : -f[apply(g, s, m)] <= Best(Replies(g, f, s))
<1>1. \A x \in Worth : -x \in Worth
  BY WorthIs
<1>2. \A m \in legal_moves(g, s) : f[apply(g, s, m)] \in Worth
  BY RulesOf
<1>3. Replies(g, f, s) \in SUBSET Worth
  BY <1>1, <1>2 DEF Replies
<1>4. Replies(g, f, s) # {}
  BY RulesOf DEF Replies
<1>5. \E v \in Replies(g, f, s) : \A w \in Replies(g, f, s) : w <= v
  BY <1>3, <1>4, Highest
<1>6. Best(Replies(g, f, s)) \in Replies(g, f, s)
      /\ \A w \in Replies(g, f, s) : w <= Best(Replies(g, f, s))
  BY <1>5 DEF Best
<1> QED BY <1>3, <1>6 DEF Replies

LEMMA FullAtIs ==
  ASSUME NEW g \in GAME_IDS, NEW i \in 0..WIN - 1, NEW s \in State(g), NEW f,
         i # 0 => f \in [State(g) -> Worth]
  PROVE  FullAt(g, i, f, s) \in Worth
<1>1. CASE outcome(g, s) # "none"
  BY <1>1, DecidedBounded DEF FullAt
<1>2. CASE outcome(g, s) = "none" /\ i = 0
  BY <1>2, RulesOf DEF FullAt
<1>3. CASE outcome(g, s) = "none" /\ i # 0
  BY <1>3, BestReply DEF FullAt
<1> QED BY <1>1, <1>2, <1>3

FullRec(g, n, f) == f = [i \in 0..n |-> [s \in State(g) |-> FullAt(g, i, f[i - 1], s)]]

LEMMA PliesAre ==
  ASSUME NEW n \in 0..WIN - 1
  PROVE  n \in Nat /\ \A i \in 0..n : i \in 0..WIN - 1
<1>1. WIN \in Nat
  BY WorthIs
<1>2. n \in Nat /\ n <= WIN - 1
  BY <1>1
<1> QED BY <1>1, <1>2

LEMMA FullIs ==
  ASSUME NEW g \in GAME_IDS, NEW n \in 0..WIN - 1
  PROVE  \E f : f \in [0..n -> [State(g) -> Worth]] /\ FullRec(g, n, f) /\ FullSearch(g, n) = f[n]
<1> DEFINE T == [State(g) -> Worth]
           b == [s \in State(g) |-> FullAt(g, 0, {}, s)]
           F == [i \in 1..n |-> [h \in T |-> [s \in State(g) |-> FullAt(g, i, h, s)]]]
<1>0. n \in Nat /\ \A i \in 0..n : i \in 0..WIN - 1
  BY PliesAre, Zenon
<1>1. b \in T
  <2>1. \A s \in State(g) : FullAt(g, 0, {}, s) \in Worth
    BY <1>0, FullAtIs
  <2> QED BY <2>1
<1>2. F \in [1..n -> [T -> T]]
  <2>1. ASSUME NEW i \in 1..n, NEW h \in T, NEW s \in State(g) PROVE FullAt(g, i, h, s) \in Worth
    <3>1. i \in 0..n
      OBVIOUS
    <3> QED BY <1>0, <3>1, FullAtIs
  <2> QED BY <2>1
<1>3. \A i \in 1..n, h \in T : F[i][h] = [s \in State(g) |-> FullAt(g, i, h, s)]
  OBVIOUS
<1>4. \A f, s : FullAt(g, 0, f, s) = FullAt(g, 0, {}, s)
  BY DEF FullAt
<1>5. \A f : b = [s \in State(g) |-> FullAt(g, 0, f, s)]
  BY <1>4
<1> HIDE DEF T, b, F
<1>6. PICK q \in [0..n -> T] : Folds(q, b, F, n)
  BY <1>0, <1>1, <1>2, Recursion, Zenon
<1>7. FullRec(g, n, q)
  <2>1. q[0] = b /\ q = [i \in 0..n |-> q[i]]
    BY <1>6 DEF Folds
  <2>2. ASSUME NEW i \in 0..n PROVE q[i] = [s \in State(g) |-> FullAt(g, i, q[i - 1], s)]
    <3>1. CASE i = 0
      BY <1>5, <2>1, <3>1
    <3>2. CASE i # 0
      <4>1. i \in 1..n /\ i - 1 \in 0..n
        BY <1>0, <3>2
      <4>2. q[i - 1] \in T /\ q[i] = F[i][q[i - 1]]
        BY <1>6, <4>1 DEF Folds
      <4> QED BY <1>3, <4>1, <4>2
    <3> QED BY <3>1, <3>2
  <2> QED BY <2>1, <2>2, Zenon DEF FullRec
<1>8. PICK f : f = (CHOOSE value : FullRec(g, n, value))
  OBVIOUS
<1>9. FullRec(g, n, f)
  BY <1>7, <1>8
<1>10. FullSearch(g, n) = f[n]
  BY <1>8 DEF FullSearch, FullRec, FullAt, Best, Replies
<1>11. \A i \in 0..n : f[i] = [s \in State(g) |-> FullAt(g, i, f[i - 1], s)]
  BY <1>9 DEF FullRec
<1>12. f = [i \in 0..n |-> f[i]]
  BY <1>9, <1>11 DEF FullRec
<1>13. f[0] = b
  <2>1. 0 \in 0..n
    BY <1>0
  <2> QED BY <1>5, <1>11, <2>1
<1>14. ASSUME NEW i \in 1..n, f[i - 1] \in T PROVE f[i] = F[i][f[i - 1]]
  <2>1. i \in 0..n
    OBVIOUS
  <2> QED BY <1>3, <1>11, <1>14, <2>1
<1>15. f \in [0..n -> T]
  <2>1. \A i \in 1..n : f[i - 1] \in T => f[i] = F[i][f[i - 1]]
    BY <1>14
  <2>2. n \in Nat
    BY <1>0
  <2>3. Unfolds(f, b, F, n, T)
    BY <1>12, <1>13, <2>1, Zenon DEF Unfolds
  <2>4. f \in [0..n -> T] /\ Folds(f, b, F, n)
    BY <1>1, <1>2, <2>2, <2>3, FoldsAre
  <2> QED BY <2>4
<1> QED BY <1>9, <1>10, <1>15 DEF T

Windows(g) == State(g) \X Int \X Int
Acc == [value : Int, alpha : Int]
Tried(h, t, b, acc) ==
  LET score == -h[<<t, -b, -acc.alpha>>]
      best == Greater(acc.value, score)
  IN  [value |-> best, alpha |-> Greater(acc.alpha, best)]
SeenAt(g, h, s, a, b, k, acc) ==
  IF k = 0 THEN [value |-> -2 * WIN, alpha |-> a]
  ELSE IF k - 1 \notin legal_moves(g, s) \/ acc.alpha >= b THEN acc
  ELSE Tried(h, apply(g, s, k - 1), b, acc)
SeenRec(g, h, s, a, b, seen) == seen = [k \in 0..Top(g) |-> SeenAt(g, h, s, a, b, k, seen[k - 1])]
Seen(g, h, s, a, b) == CHOOSE seen : SeenRec(g, h, s, a, b, seen)
NegaAt(g, i, h, s, a, b) ==
  IF outcome(g, s) # "none" THEN Decided(s, outcome(g, s), i)
  ELSE IF i = 0 THEN evaluate(g, s)
  ELSE Seen(g, h, s, a, b)[Top(g)].value
NegaRec(g, n, h) ==
  h = [i \in 0..n |-> [w \in Windows(g) |-> NegaAt(g, i, h[i - 1], w[1], w[2], w[3])]]

LEMMA TriedIs ==
  ASSUME NEW g \in GAME_IDS, NEW h \in [Windows(g) -> Int], NEW t \in State(g),
         NEW b \in Int, NEW acc \in Acc
  PROVE  Tried(h, t, b, acc) \in Acc
<1>1. acc.alpha \in Int /\ acc.value \in Int
  BY DEF Acc
<1>2. -b \in Int /\ -acc.alpha \in Int
  BY <1>1
<1>3. <<t, -b, -acc.alpha>> \in Windows(g)
  BY <1>2 DEF Windows
<1>4. h[<<t, -b, -acc.alpha>>] \in Int
  BY <1>3
<1>5. \A x, y \in Int : Greater(x, y) \in Int
  BY DEF Greater
<1>6. -h[<<t, -b, -acc.alpha>>] \in Int
  BY <1>4
<1> DEFINE best == Greater(acc.value, -h[<<t, -b, -acc.alpha>>])
<1>7. best \in Int /\ Greater(acc.alpha, best) \in Int
  BY <1>1, <1>5, <1>6
<1>8. Tried(h, t, b, acc) = [value |-> best, alpha |-> Greater(acc.alpha, best)]
  BY DEF Tried
<1> HIDE DEF best
<1> QED BY <1>7, <1>8 DEF Acc

LEMMA NegaUnfolds ==
  ASSUME NEW g, NEW n
  PROVE  negamax(g, n) = (CHOOSE h : NegaRec(g, n, h))[n]
BY DEF negamax, Windows, NegaRec, NegaAt, Seen, SeenRec, SeenAt, Tried

LEMMA SeenIs ==
  ASSUME NEW g \in GAME_IDS, NEW s \in State(g), NEW a \in Int, NEW b \in Int,
         NEW h \in [Windows(g) -> Int]
  PROVE  \E seen : /\ seen = Seen(g, h, s, a, b)
                   /\ seen \in [0..Top(g) -> Acc]
                   /\ \A k \in 0..Top(g) : seen[k] = SeenAt(g, h, s, a, b, k, seen[k - 1])
<1> DEFINE n == Top(g)
           first == [value |-> -2 * WIN, alpha |-> a]
           F == [k \in 1..n |-> [acc \in Acc |-> SeenAt(g, h, s, a, b, k, acc)]]
<1>0. n \in Nat /\ \A m \in legal_moves(g, s) : apply(g, s, m) \in State(g)
  BY RulesOf
<1>1. first \in Acc
  BY WorthIs DEF Acc
<1>2. \A acc : SeenAt(g, h, s, a, b, 0, acc) = first
  BY DEF SeenAt
<1> HIDE DEF n, first
<1>3. ASSUME NEW k \in 1..n, NEW acc \in Acc PROVE SeenAt(g, h, s, a, b, k, acc) \in Acc
  <2>1. k # 0
    OBVIOUS
  <2>2. CASE k - 1 \notin legal_moves(g, s) \/ acc.alpha >= b
    BY <2>1, <2>2 DEF SeenAt
  <2>3. CASE k - 1 \in legal_moves(g, s) /\ ~ (acc.alpha >= b)
    <3>1. Tried(h, apply(g, s, k - 1), b, acc) \in Acc
      BY <1>0, <2>3, TriedIs
    <3> QED BY <2>1, <2>3, <3>1 DEF SeenAt
  <2> QED BY <2>2, <2>3
<1>4. F \in [1..n -> [Acc -> Acc]]
  BY <1>3
<1>5. \A k \in 1..n, acc \in Acc : F[k][acc] = SeenAt(g, h, s, a, b, k, acc)
  OBVIOUS
<1> HIDE DEF F
<1>6. PICK q \in [0..n -> Acc] : Folds(q, first, F, n)
  BY <1>0, <1>1, <1>4, Recursion, Zenon
<1>7. SeenRec(g, h, s, a, b, q)
  <2>1. q[0] = first /\ q = [k \in 0..n |-> q[k]]
    BY <1>6 DEF Folds
  <2>2. ASSUME NEW k \in 0..n PROVE q[k] = SeenAt(g, h, s, a, b, k, q[k - 1])
    <3>1. CASE k = 0
      BY <1>2, <2>1, <3>1
    <3>2. CASE k # 0
      <4>1. k \in 1..n /\ k - 1 \in 0..n
        BY <1>0, <3>2
      <4>2. q[k - 1] \in Acc /\ q[k] = F[k][q[k - 1]]
        BY <1>6, <4>1 DEF Folds
      <4> QED BY <1>5, <4>1, <4>2
    <3> QED BY <3>1, <3>2
  <2> QED BY <2>1, <2>2, Zenon DEF SeenRec, n
<1>8. PICK f : f = Seen(g, h, s, a, b)
  OBVIOUS
<1>9. SeenRec(g, h, s, a, b, f)
  BY <1>7, <1>8 DEF Seen
<1>10. \A k \in 0..n : f[k] = SeenAt(g, h, s, a, b, k, f[k - 1])
  BY <1>9 DEF SeenRec, n
<1>11. f = [k \in 0..n |-> f[k]]
  BY <1>9, <1>10 DEF SeenRec, n
<1>12. f[0] = first
  <2>1. 0 \in 0..n
    BY <1>0
  <2> QED BY <1>2, <1>10, <2>1
<1>13. \A k \in 1..n : f[k - 1] \in Acc => f[k] = F[k][f[k - 1]]
  <2>1. \A k \in 1..n : k \in 0..n
    OBVIOUS
  <2> QED BY <1>5, <1>10, <2>1
<1>14. Unfolds(f, first, F, n, Acc)
  BY <1>11, <1>12, <1>13, Zenon DEF Unfolds
<1>15. f \in [0..n -> Acc]
  <2>1. n \in Nat
    BY <1>0
  <2> QED BY <1>1, <1>4, <1>14, <2>1, FoldsAre
<1> QED BY <1>8, <1>10, <1>15 DEF n

LEMMA NegaIs ==
  ASSUME NEW g \in GAME_IDS, NEW n \in 0..WIN - 1
  PROVE  \E h : h \in [0..n -> [Windows(g) -> Int]] /\ NegaRec(g, n, h) /\ negamax(g, n) = h[n]
<1> DEFINE T == [Windows(g) -> Int]
           At(i, h) == [w \in Windows(g) |-> NegaAt(g, i, h, w[1], w[2], w[3])]
           first == At(0, {})
           F == [i \in 1..n |-> [h \in T |-> At(i, h)]]
<1>0. n \in Nat /\ \A i \in 0..n : i \in 0..WIN - 1
  BY PliesAre, Zenon
<1>1. ASSUME NEW i \in 0..n, NEW h, i = 0 \/ h \in T PROVE At(i, h) \in T
  <2> SUFFICES ASSUME NEW w \in Windows(g) PROVE NegaAt(g, i, h, w[1], w[2], w[3]) \in Int
    OBVIOUS
  <2> DEFINE s == w[1]
  <2>1. s \in State(g) /\ w[2] \in Int /\ w[3] \in Int
    BY DEF Windows
  <2> HIDE DEF s
  <2>2. CASE outcome(g, s) # "none"
    <3>1. i \in 0..WIN - 1
      BY <1>0
    <3>2. Decided(s, outcome(g, s), i) \in Worth
      BY <3>1, DecidedBounded, Zenon
    <3>3. Decided(s, outcome(g, s), i) \in Int
      BY <3>2, WorthIs
    <3> QED BY <2>2, <3>3, Zenon DEF NegaAt, s
  <2>3. CASE outcome(g, s) = "none" /\ i = 0
    BY <2>1, <2>3, RulesOf, WorthIs DEF NegaAt, s
  <2>4. CASE outcome(g, s) = "none" /\ i # 0
    <3>1. Seen(g, h, s, w[2], w[3]) \in [0..Top(g) -> Acc] /\ Top(g) \in Nat
      BY <1>1, <2>1, <2>4, SeenIs, RulesOf
    <3>2. Seen(g, h, s, w[2], w[3])[Top(g)].value \in Int
      BY <3>1 DEF Acc
    <3> QED BY <2>4, <3>2 DEF NegaAt, s
  <2> QED BY <2>2, <2>3, <2>4
<1>2. \A h : At(0, h) = first
  BY DEF NegaAt
<1>3. 0 \in 0..n /\ \A i \in 1..n : i \in 0..n /\ i - 1 \in 0..n
  BY <1>0
<1>4. first \in T
  BY <1>1, <1>3
<1>5. F \in [1..n -> [T -> T]] /\ \A i \in 1..n, h \in T : F[i][h] = At(i, h)
  BY <1>1, <1>3
<1> HIDE DEF F, first, T, At
<1>6. PICK q \in [0..n -> T] : Folds(q, first, F, n)
  BY <1>0, <1>4, <1>5, Recursion, Zenon
<1>7. \A h : NegaRec(g, n, h) <=> h = [i \in 0..n |-> At(i, h[i - 1])]
  BY DEF NegaRec, At
<1>8. NegaRec(g, n, q)
  <2>1. q[0] = first /\ q = [i \in 0..n |-> q[i]]
    BY <1>6 DEF Folds
  <2>2. ASSUME NEW i \in 0..n PROVE q[i] = At(i, q[i - 1])
    <3>1. CASE i = 0
      BY <1>2, <2>1, <3>1
    <3>2. CASE i # 0
      <4>1. i \in 1..n /\ i - 1 \in 0..n
        BY <1>0, <3>2
      <4>2. q[i - 1] \in T /\ q[i] = F[i][q[i - 1]]
        BY <1>6, <4>1 DEF Folds
      <4> QED BY <1>5, <4>1, <4>2
    <3> QED BY <3>1, <3>2
  <2>3. q = [i \in 0..n |-> At(i, q[i - 1])]
    BY <2>1, <2>2, Zenon
  <2> QED BY <1>7, <2>3, Zenon
<1>9. PICK f : f = (CHOOSE h : NegaRec(g, n, h))
  OBVIOUS
<1>10. NegaRec(g, n, f) /\ negamax(g, n) = f[n]
  BY <1>8, <1>9, NegaUnfolds
<1>11. f = [i \in 0..n |-> At(i, f[i - 1])]
  BY <1>7, <1>10, Zenon
<1>12. \A i \in 0..n : f[i] = At(i, f[i - 1])
  BY <1>11
<1>13. f = [i \in 0..n |-> f[i]]
  BY <1>11, <1>12
<1>14. f[0] = first
  BY <1>2, <1>3, <1>12
<1>15. \A i \in 1..n : f[i - 1] \in T => f[i] = F[i][f[i - 1]]
  BY <1>3, <1>5, <1>12
<1>16. Unfolds(f, first, F, n, T)
  BY <1>13, <1>14, <1>15, Zenon DEF Unfolds
<1>17. f \in [0..n -> T]
  <2>1. n \in Nat /\ F \in [1..n -> [T -> T]]
    BY <1>0, <1>5
  <2> QED BY <1>4, <1>16, <2>1, FoldsAre
<1> QED BY <1>10, <1>17 DEF T

(* What a value v, found in a window a to b, says of the full search's x.     *)
Right(v, x, a, b) ==
  /\ v \in Worth
  /\ v <= a => x <= v
  /\ a < v /\ v < b => v = x
  /\ v >= b => x >= v

(* The windows the search opens.                                            *)
Open(p, q) == -20000 <= p /\ p < q /\ q <= 20000

(* Before move k of the loop, lo being the alpha it started with.            *)
Scanned(g, f, s, k) == { m \in legal_moves(g, s) : m < k }
Reply(g, f, s, m) == -f[apply(g, s, m)]
ScanInv(g, f, s, lo, b, k, acc) ==
  /\ acc.alpha = Greater(lo, acc.value)
  /\ Scanned(g, f, s, k) = {} => acc.value = -2 * WIN
  /\ Scanned(g, f, s, k) # {} => acc.value \in Worth
  /\ acc.alpha < b =>
       /\ \A m \in Scanned(g, f, s, k) : Reply(g, f, s, m) <= acc.value
       /\ acc.value > lo => \E m \in Scanned(g, f, s, k) : Reply(g, f, s, m) = acc.value
  /\ acc.alpha >= b =>
       /\ acc.value >= b
       /\ \E m \in Scanned(g, f, s, k) : Reply(g, f, s, m) >= acc.value

(* One more score in a loop that is still open.                              *)
LEMMA OneMore ==
  ASSUME NEW lo \in Int, NEW b \in Int, NEW value \in Int, NEW v \in Worth, NEW x \in Worth,
         b <= 20000, lo < b, Greater(lo, value) < b, value < 20000, -20000 <= value,
         Right(v, x, -b, -Greater(lo, value)),
         NEW w, w = Greater(value, -v)
  PROVE  /\ w \in Worth /\ value <= w
         /\ Greater(Greater(lo, value), w) = Greater(lo, w)
         /\ Greater(lo, w) < b => -x <= w
         /\ Greater(lo, w) < b /\ w > lo => -x = w \/ w = value
         /\ Greater(lo, w) >= b => w >= b /\ -x >= w
<1>1. v \in Int /\ x \in Int /\ -20000 < v /\ v < 20000
  BY WorthIs
<1>2. /\ v <= -b => x <= v
      /\ -b < v /\ v < -Greater(lo, value) => v = x
      /\ v >= -Greater(lo, value) => x >= v
  BY DEF Right
<1>3. w \in Worth
  BY <1>1, WorthIs DEF Greater
<1> QED BY <1>1, <1>2, <1>3 DEF Greater

LEMMA ScanStep ==
  ASSUME NEW g \in GAME_IDS, NEW s \in State(g), NEW f \in [State(g) -> Worth],
         NEW h \in [Windows(g) -> Int], NEW lo \in Int, NEW b \in Int,
         Open(lo, b),
         \A t \in State(g), p, q \in Int :
           Open(p, q) => Right(h[<<t, p, q>>], f[t], p, q),
         NEW k \in Nat, NEW acc \in Acc, ScanInv(g, f, s, lo, b, k, acc)
  PROVE  ScanInv(g, f, s, lo, b, k + 1, SeenAt(g, h, s, lo, b, k + 1, acc))
<1> DEFINE old == Scanned(g, f, s, k)
           new == Scanned(g, f, s, k + 1)
           out == SeenAt(g, h, s, lo, b, k + 1, acc)
<1>0. /\ \A m \in legal_moves(g, s) : m \in Nat /\ apply(g, s, m) \in State(g)
      /\ (k + 1) - 1 = k /\ k + 1 # 0
      /\ WIN = 10000
  <2>1. ASSUME NEW m \in legal_moves(g, s) PROVE m \in Nat
    BY Moves
  <2> QED BY <2>1, RulesOf, WorthIs
<1>1. CASE k \notin legal_moves(g, s)
  <2>1. new = old
    BY <1>0, <1>1 DEF Scanned
  <2>2. out = acc
    BY <1>0, <1>1 DEF SeenAt
  <2> QED BY <2>1, <2>2 DEF ScanInv
<1>2. CASE k \in legal_moves(g, s) /\ acc.alpha >= b
  <2>1. old \subseteq new
    BY <1>0 DEF Scanned
  <2>2. out = acc
    BY <1>0, <1>2 DEF SeenAt
  <2>3. acc.value \in Worth /\ acc.alpha \in Int
    BY <1>2 DEF ScanInv, Acc
  <2> QED BY <1>2, <2>1, <2>2, <2>3 DEF ScanInv
<1>3. CASE k \in legal_moves(g, s) /\ ~ (acc.alpha >= b)
  <2> DEFINE t == apply(g, s, k)
             v == h[<<t, -b, -acc.alpha>>]
             x == f[t]
             w == Greater(acc.value, -v)
  <2>1. acc.value \in Int /\ acc.alpha \in Int /\ acc.alpha < b /\ acc.alpha = Greater(lo, acc.value)
    BY <1>3 DEF Acc, ScanInv
  <2>2. t \in State(g) /\ x \in Worth
    BY <1>0, <1>3
  <2>3. -20000 <= acc.value /\ acc.value < 20000
    <3>1. CASE old = {}
      BY <1>0, <3>1 DEF ScanInv
    <3>2. CASE old # {}
      BY <3>2, WorthIs DEF ScanInv
    <3> QED BY <3>1, <3>2
  <2>4. Right(v, x, -b, -acc.alpha)
    <3>1. -b \in Int /\ -acc.alpha \in Int /\ -20000 <= -b /\ -b < -acc.alpha /\ -acc.alpha <= 20000
      BY <2>1 DEF Greater, Open
    <3>2. Open(-b, -acc.alpha)
      BY <3>1 DEF Open
    <3> QED BY <2>2, <3>1, <3>2
  <2>5. v \in Worth
    BY <2>4 DEF Right
  <2>6. out = [value |-> w, alpha |-> Greater(acc.alpha, w)]
    BY <1>0, <1>3 DEF SeenAt, Tried
  <2> HIDE DEF v, x, w, out
  <2>7. /\ w \in Worth /\ acc.value <= w
        /\ Greater(acc.alpha, w) = Greater(lo, w)
        /\ Greater(lo, w) < b => -x <= w
        /\ Greater(lo, w) < b /\ w > lo => -x = w \/ w = acc.value
        /\ Greater(lo, w) >= b => w >= b /\ -x >= w
    <3>1. w = Greater(acc.value, -v) /\ Right(v, x, -b, -Greater(lo, acc.value))
          /\ Greater(lo, acc.value) < b
      BY <2>1, <2>4 DEF w
    <3> QED BY <2>1, <2>2, <2>3, <2>5, <3>1, OneMore DEF Open
  <2>8. out.value = w /\ out.alpha = Greater(lo, w) /\ w \in Int
    BY <2>6, <2>7, WorthIs
  <2>9. new = old \cup {k} /\ Reply(g, f, s, k) = -x
    <3>1. \A m \in Nat : m < k + 1 <=> m < k \/ m = k
      OBVIOUS
    <3>2. \A m \in new : m \in old \cup {k}
      BY <1>0, <3>1 DEF Scanned
    <3>3. \A m \in old \cup {k} : m \in new
      BY <1>0, <1>3, <3>1 DEF Scanned
    <3>4. Reply(g, f, s, k) = -x
      BY DEF Reply, x
    <3> QED BY <3>2, <3>3, <3>4
  <2>10. ASSUME out.alpha < b
         PROVE  /\ \A m \in new : Reply(g, f, s, m) <= out.value
                /\ out.value > lo => \E m \in new : Reply(g, f, s, m) = out.value
    <3>1. ASSUME NEW m \in old PROVE Reply(g, f, s, m) \in Int /\ Reply(g, f, s, m) <= acc.value
      <4>1. m \in legal_moves(g, s)
        BY DEF Scanned
      <4>2. f[apply(g, s, m)] \in Worth
        BY <1>0, <4>1
      <4>3. Reply(g, f, s, m) \in Int
        BY <4>2, WorthIs DEF Reply
      <4> QED BY <2>1, <4>3 DEF ScanInv
    <3>2. \A m \in new : Reply(g, f, s, m) <= out.value
      BY <2>1, <2>7, <2>8, <2>9, <2>10, <3>1
    <3>3. ASSUME out.value > lo PROVE \E m \in new : Reply(g, f, s, m) = out.value
      <4>1. CASE -x = w
        BY <2>8, <2>9, <4>1
      <4>2. CASE w = acc.value
        <5>1. \E m \in old : Reply(g, f, s, m) = acc.value
          BY <2>1, <2>8, <3>3, <4>2 DEF ScanInv
        <5> QED BY <2>8, <2>9, <4>2, <5>1
      <4> QED BY <2>7, <2>8, <2>10, <3>3, <4>1, <4>2
    <3> QED BY <3>2, <3>3
  <2>11. ASSUME out.alpha >= b
         PROVE  out.value >= b /\ \E m \in new : Reply(g, f, s, m) >= out.value
    BY <2>7, <2>8, <2>9, <2>11
  <2>12. out.alpha = Greater(lo, out.value) /\ new # {} /\ out.value \in Worth
    BY <2>7, <2>8, <2>9
  <2>13. ScanInv(g, f, s, lo, b, k + 1, out)
    <3>1. out.alpha = Greater(lo, out.value)
      BY <2>12
    <3>2. Scanned(g, f, s, k + 1) = {} => out.value = -2 * WIN
      BY <2>12
    <3>3. Scanned(g, f, s, k + 1) # {} => out.value \in Worth
      BY <2>12
    <3>4. out.alpha < b =>
            /\ \A m \in Scanned(g, f, s, k + 1) : Reply(g, f, s, m) <= out.value
            /\ out.value > lo => \E m \in Scanned(g, f, s, k + 1) : Reply(g, f, s, m) = out.value
      BY <2>10
    <3>5. out.alpha >= b =>
            out.value >= b /\ \E m \in Scanned(g, f, s, k + 1) : Reply(g, f, s, m) >= out.value
      BY <2>11
    <3> QED BY <3>1, <3>2, <3>3, <3>4, <3>5 DEF ScanInv
  <2> QED BY <2>13 DEF out
<1> QED BY <1>1, <1>2, <1>3

(* The loop of _negamax, once it has gone over all the moves.                *)
LEMMA ScanEnds ==
  ASSUME NEW g \in GAME_IDS, NEW s \in State(g), NEW f \in [State(g) -> Worth],
         NEW h \in [Windows(g) -> Int], NEW lo \in Int, NEW b \in Int,
         Open(lo, b),
         \A t \in State(g), p, q \in Int :
           Open(p, q) => Right(h[<<t, p, q>>], f[t], p, q),
         outcome(g, s) = "none"
  PROVE  Right(Seen(g, h, s, lo, b)[Top(g)].value, Best(Replies(g, f, s)), lo, b)
<1>0. /\ \A m \in legal_moves(g, s) : m \in Nat /\ m < Top(g)
      /\ legal_moves(g, s) # {} /\ Top(g) \in Nat /\ WIN = 10000
  <2>1. ASSUME NEW m \in legal_moves(g, s) PROVE m \in Nat /\ m < Top(g)
    <3>1. m \in Nat /\ m + 1 \in 1..Top(g) /\ Top(g) \in Nat
      BY Moves, RulesOf
    <3> QED BY <3>1
  <2> QED BY <2>1, RulesOf, WorthIs
<1> DEFINE n == Top(g)
<1>1. PICK seen : /\ seen = Seen(g, h, s, lo, b)
                  /\ seen \in [0..n -> Acc]
                  /\ \A k \in 0..n : seen[k] = SeenAt(g, h, s, lo, b, k, seen[k - 1])
  BY SeenIs, Zenon
<1> DEFINE S == { k \in Nat : k <= n => ScanInv(g, f, s, lo, b, k, seen[k]) }
<1> HIDE DEF n
<1>2. 0 \in S
  <2>1. seen[0] = [value |-> -2 * WIN, alpha |-> lo]
    <3>1. 0 \in 0..n
      BY <1>0 DEF n
    <3> QED BY <1>1, <3>1 DEF SeenAt
  <2>2. Scanned(g, f, s, 0) = {}
    BY <1>0 DEF Scanned
  <2>3. seen[0].alpha = Greater(lo, seen[0].value) /\ seen[0].alpha = lo /\ seen[0].value = -2 * WIN
    BY <1>0, <2>1 DEF Greater, Open
  <2>4. ~ (seen[0].alpha >= b) /\ ~ (seen[0].value > lo)
    BY <1>0, <2>3 DEF Open
  <2> DEFINE acc == seen[0]
  <2>5. acc.alpha = Greater(lo, acc.value) /\ acc.value = -2 * WIN
    BY <2>3
  <2>6. ~ (acc.alpha >= b) /\ ~ (acc.value > lo)
    BY <2>4
  <2> HIDE DEF acc
  <2>7. ScanInv(g, f, s, lo, b, 0, acc)
    BY <2>2, <2>5, <2>6 DEF ScanInv
  <2> QED BY <2>7 DEF acc
<1>3. ASSUME NEW k \in Nat, k \in S PROVE k + 1 \in S
  <2> SUFFICES ASSUME k + 1 <= n PROVE ScanInv(g, f, s, lo, b, k + 1, seen[k + 1])
    OBVIOUS
  <2>1. k \in 0..n /\ k + 1 \in 0..n /\ (k + 1) - 1 = k
    BY <1>0 DEF n
  <2>2. seen[k + 1] = SeenAt(g, h, s, lo, b, k + 1, seen[k]) /\ seen[k] \in Acc
    BY <1>1, <2>1
  <2>3. ScanInv(g, f, s, lo, b, k, seen[k])
    BY <1>0, <1>3, <2>1 DEF n
  <2> DEFINE acc == seen[k]
  <2>4. acc \in Acc /\ ScanInv(g, f, s, lo, b, k, acc)
    BY <2>2, <2>3
  <2> HIDE DEF acc
  <2>5. ScanInv(g, f, s, lo, b, k + 1, SeenAt(g, h, s, lo, b, k + 1, acc))
    BY <2>4, ScanStep
  <2> QED BY <2>2, <2>5 DEF acc
<1> HIDE DEF S
<1>4. ScanInv(g, f, s, lo, b, n, seen[n])
  <2>1. n \in S
    BY <1>0, <1>2, <1>3, Induct DEF n
  <2> QED BY <1>0, <2>1 DEF S, n
<1> DEFINE v == seen[n].value
           x == Best(Replies(g, f, s))
<1>5. Scanned(g, f, s, n) = legal_moves(g, s)
  BY <1>0 DEF Scanned, n
<1>6. v \in Worth /\ seen[n].alpha = Greater(lo, v)
  BY <1>0, <1>4, <1>5 DEF ScanInv
<1>7. x \in Worth /\ (\A m \in legal_moves(g, s) : Reply(g, f, s, m) <= x)
      /\ \E m \in legal_moves(g, s) : Reply(g, f, s, m) = x
  <2>1. x \in Replies(g, f, s) /\ x \in Worth
        /\ \A m \in legal_moves(g, s) : -f[apply(g, s, m)] <= x
    BY BestReply
  <2> HIDE DEF x
  <2> QED BY <2>1 DEF Reply, Replies
<1> HIDE DEF v, x
<1>8. ASSUME seen[n].alpha < b PROVE Right(v, x, lo, b)
  <2>1. \A m \in legal_moves(g, s) : Reply(g, f, s, m) <= v
    BY <1>4, <1>5, <1>8 DEF ScanInv, v
  <2>2. v > lo => \E m \in legal_moves(g, s) : Reply(g, f, s, m) = v
    BY <1>4, <1>5, <1>8 DEF ScanInv, v
  <2>3. x <= v /\ (v > lo => v <= x)
    BY <1>7, <2>1, <2>2
  <2>4. v < b /\ v \in Int /\ x \in Int
    BY <1>6, <1>7, <1>8, WorthIs DEF Greater
  <2> QED BY <1>6, <2>3, <2>4 DEF Right
<1>9. ASSUME seen[n].alpha >= b PROVE Right(v, x, lo, b)
  <2>1. v >= b /\ \E m \in legal_moves(g, s) : Reply(g, f, s, m) >= v
    BY <1>4, <1>5, <1>9 DEF ScanInv, v
  <2>2. v \in Int /\ x \in Int
    BY <1>6, <1>7, WorthIs
  <2>3. ASSUME NEW m \in legal_moves(g, s) PROVE Reply(g, f, s, m) \in Int
    <3>1. f[apply(g, s, m)] \in Worth
      BY RulesOf
    <3> QED BY <3>1, WorthIs DEF Reply
  <2>4. x >= v
    BY <1>7, <2>1, <2>2, <2>3
  <2> QED BY <1>6, <2>1, <2>2, <2>4 DEF Right, Open
<1>10. seen[n].alpha \in Int
  BY <1>6, WorthIs DEF Greater
<1> QED BY <1>1, <1>8, <1>9, <1>10 DEF v, x, n

(* _negamax, asked of any window the search opens, answers as the full      *)
(* search does, or that its answer lies beyond the window's end.            *)
LEMMA AlphaBeta ==
  ASSUME NEW g \in GAME_IDS, NEW n \in 0..WIN - 1
  PROVE  /\ FullSearch(g, n) \in [State(g) -> Worth]
         /\ negamax(g, n) \in [Windows(g) -> Int]
         /\ \A t \in State(g), p, q \in Int :
              Open(p, q) =>
                Right(negamax(g, n)[<<t, p, q>>], FullSearch(g, n)[t], p, q)
<1>1. PICK f : f \in [0..n -> [State(g) -> Worth]] /\ FullRec(g, n, f) /\ FullSearch(g, n) = f[n]
  BY FullIs
<1>2. PICK h : h \in [0..n -> [Windows(g) -> Int]] /\ NegaRec(g, n, h) /\ negamax(g, n) = h[n]
  BY NegaIs
<1>3. \A i \in 0..n, t \in State(g) : f[i][t] = FullAt(g, i, f[i - 1], t)
  BY <1>1 DEF FullRec
<1>4. \A i \in 0..n : h[i] = [w \in Windows(g) |-> NegaAt(g, i, h[i - 1], w[1], w[2], w[3])]
  BY <1>2 DEF NegaRec
<1>5. ASSUME NEW i \in 0..n, NEW t \in State(g), NEW p \in Int, NEW q \in Int
      PROVE  h[i][<<t, p, q>>] = NegaAt(g, i, h[i - 1], t, p, q)
  <2>1. <<t, p, q>> \in Windows(g)
    BY DEF Windows
  <2> QED BY <1>4, <2>1
<1>6. n \in Nat /\ \A i \in 0..n : i \in 0..WIN - 1
  BY PliesAre, Zenon
<1> DEFINE Agree(i) == \A t \in State(g), p, q \in Int :
                         Open(p, q) => Right(h[i][<<t, p, q>>], f[i][t], p, q)
           S == { i \in Nat : i <= n => Agree(i) }
<1>7. \A v \in Worth, p, q \in Int : Right(v, v, p, q)
  BY WorthIs DEF Right
<1>8. ASSUME NEW i \in 0..n, NEW t \in State(g), NEW p \in Int, NEW q \in Int,
             outcome(g, t) # "none" \/ i = 0
      PROVE  Right(h[i][<<t, p, q>>], f[i][t], p, q)
  <2>1. h[i][<<t, p, q>>] = f[i][t]
    BY <1>3, <1>5, <1>8 DEF NegaAt, FullAt
  <2>2. f[i][t] \in Worth
    BY <1>1
  <2> QED BY <1>7, <2>1, <2>2
<1>9. 0 \in S
  <2>1. 0 \in 0..n
    BY <1>6
  <2> QED BY <1>8, <2>1
<1>10. ASSUME NEW i \in Nat, i \in S PROVE i + 1 \in S
  <2> SUFFICES ASSUME i + 1 <= n PROVE Agree(i + 1)
    OBVIOUS
  <2>1. i \in 0..n /\ i + 1 \in 0..n /\ (i + 1) - 1 = i /\ i + 1 # 0
    BY <1>6
  <2>2. Agree(i)
    BY <1>6, <1>10, <2>1
  <2> DEFINE ff == f[i]
             hh == h[i]
  <2>3. ff \in [State(g) -> Worth] /\ hh \in [Windows(g) -> Int]
    BY <1>1, <1>2, <2>1
  <2>4. \A t \in State(g), p, q \in Int :
          Open(p, q) => Right(hh[<<t, p, q>>], ff[t], p, q)
    BY <2>2
  <2> SUFFICES ASSUME NEW t \in State(g), NEW p \in Int, NEW q \in Int,
                      Open(p, q)
               PROVE  Right(h[i + 1][<<t, p, q>>], f[i + 1][t], p, q)
    OBVIOUS
  <2>5. CASE outcome(g, t) # "none"
    BY <1>8, <2>1, <2>5
  <2>6. CASE outcome(g, t) = "none"
    <3>1. f[i + 1][t] = Best(Replies(g, ff, t))
      BY <1>3, <2>1, <2>6 DEF FullAt
    <3>2. h[i + 1][<<t, p, q>>] = Seen(g, hh, t, p, q)[Top(g)].value
      BY <1>5, <2>1, <2>6 DEF NegaAt
    <3> HIDE DEF ff, hh
    <3>3. Right(Seen(g, hh, t, p, q)[Top(g)].value, Best(Replies(g, ff, t)), p, q)
      BY <2>3, <2>4, <2>6, ScanEnds
    <3> QED BY <3>1, <3>2, <3>3
  <2> QED BY <2>5, <2>6
<1> HIDE DEF S
<1>11. Agree(n)
  <2>1. n \in S
    BY <1>6, <1>9, <1>10, Induct
  <2> QED BY <1>6, <2>1 DEF S
<1> QED BY <1>1, <1>2, <1>6, <1>11

RootAt(g, s, h, order, k, acc) ==
  IF k = 0 THEN [best |-> order[1], score |-> -2 * WIN]
  ELSE LET score == -h[<<apply(g, s, order[k]), -2 * WIN, -acc.score>>]
       IN  IF score > acc.score THEN [best |-> order[k], score |-> score] ELSE acc
RootRec(g, s, h, order, tried) ==
  tried = [k \in 0..Len(order) |-> RootAt(g, s, h, order, k, tried[k - 1])]
RootAcc(g, s) == [best : legal_moves(g, s), score : Int]

(* Before move k + 1 of the loop in choose_move.                             *)
RootInv(g, f, s, order, k, acc) ==
  /\ acc \in RootAcc(g, s)
  /\ k = 0 => acc.score = -2 * WIN
  /\ k # 0 => /\ acc.score \in Worth
              /\ Reply(g, f, s, acc.best) = acc.score
              /\ \A j \in 1..k : Reply(g, f, s, order[j]) <= acc.score

LEMMA RootUnfolds ==
  ASSUME NEW g, NEW s, NEW depth, NEW order
  PROVE  choose_move(g, s, depth, order)
           = (CHOOSE tried : RootRec(g, s, negamax(g, depth - 1), order, tried))[Len(order)].best
BY DEF choose_move, RootRec, RootAt

LEMMA RootStep ==
  ASSUME NEW g \in GAME_IDS, NEW s \in State(g), NEW f \in [State(g) -> Worth],
         NEW h \in [Windows(g) -> Int],
         \A t \in State(g), p, q \in Int : Open(p, q) => Right(h[<<t, p, q>>], f[t], p, q),
         NEW order \in Seq(legal_moves(g, s)), NEW k \in 0..Len(order) - 1,
         NEW acc, RootInv(g, f, s, order, k, acc)
  PROVE  RootInv(g, f, s, order, k + 1, RootAt(g, s, h, order, k + 1, acc))
<1> DEFINE m == order[k + 1]
           t == apply(g, s, m)
           v == h[<<t, -2 * WIN, -acc.score>>]
           x == f[t]
           out == RootAt(g, s, h, order, k + 1, acc)
<1>0. Len(order) \in Nat /\ k + 1 \in 1..Len(order) /\ k + 1 # 0 /\ WIN = 10000
  BY WorthIs
<1>1. m \in legal_moves(g, s)
  BY <1>0
<1>2. t \in State(g) /\ x \in Worth
  BY <1>1, RulesOf
<1>3. acc.score \in Int /\ acc \in RootAcc(g, s)
  BY DEF RootInv, RootAcc
<1>4. -20000 <= acc.score /\ acc.score < 20000
  <2>1. CASE k = 0
    BY <1>0, <2>1 DEF RootInv
  <2>2. CASE k # 0
    BY <2>2, WorthIs DEF RootInv
  <2> QED BY <2>1, <2>2
<1>5. Right(v, x, -2 * WIN, -acc.score)
  <2>1. -2 * WIN \in Int /\ -acc.score \in Int /\ Open(-2 * WIN, -acc.score)
    BY <1>0, <1>3, <1>4 DEF Open
  <2> QED BY <1>2, <2>1
<1>6. out = IF -v > acc.score THEN [best |-> m, score |-> -v] ELSE acc
  BY <1>0 DEF RootAt
<1>7. Reply(g, f, s, m) = -x
  BY DEF Reply
<1>8. ASSUME NEW j \in 1..k
      PROVE  Reply(g, f, s, order[j]) \in Int /\ Reply(g, f, s, order[j]) <= acc.score
  <2>1. order[j] \in legal_moves(g, s) /\ k # 0
    BY <1>0
  <2>2. f[apply(g, s, order[j])] \in Worth
    BY <2>1, RulesOf
  <2>3. Reply(g, f, s, order[j]) \in Int
    BY <2>2, WorthIs DEF Reply
  <2>4. Reply(g, f, s, order[j]) <= acc.score
    BY <2>1 DEF RootInv
  <2> QED BY <2>3, <2>4
<1> HIDE DEF m, t, v, x, out
<1>9. /\ v \in Int /\ -20000 < v /\ v < 20000 /\ x \in Int /\ -v \in Worth
      /\ v < -acc.score => v = x
      /\ v >= -acc.score => x >= v
  <2>1. v \in Worth /\ v \in Int /\ -20000 < v /\ v < 20000 /\ x \in Int /\ -v \in Worth
    <3>1. v \in Worth
      BY <1>5 DEF Right
    <3>2. v \in Int /\ 0 - v < 20000 /\ v < 20000 /\ -v \in Worth
      BY <3>1, WorthIs
    <3>3. x \in Int
      BY <1>2, WorthIs
    <3>4. -20000 < v
      BY <3>2
    <3> QED BY <3>1, <3>2, <3>3, <3>4
  <2>2. v < -acc.score => v = x
    BY <1>0, <1>3, <1>5, <2>1 DEF Right
  <2>3. v >= -acc.score => x >= v
    BY <1>5 DEF Right
  <2> QED BY <2>1, <2>2, <2>3
<1>10. \A j \in 1..k + 1 : j \in 1..k \/ j = k + 1
  OBVIOUS
<1>11. CASE -v > acc.score
  <2>1. out.best = m /\ out.score = -v /\ -v = -x /\ out \in RootAcc(g, s)
    BY <1>1, <1>3, <1>6, <1>9, <1>11 DEF RootAcc
  <2>2. \A j \in 1..k + 1 : Reply(g, f, s, order[j]) <= out.score
    BY <1>3, <1>7, <1>8, <1>9, <1>10, <1>11, <2>1 DEF m
  <2> QED BY <1>0, <1>7, <1>9, <2>1, <2>2 DEF RootInv, out
<1>12. CASE ~ (-v > acc.score)
  <2>1. out = acc
    BY <1>6, <1>12
  <2>2. -x <= acc.score
    BY <1>3, <1>9, <1>12
  <2>3. k # 0
    BY <1>0, <1>9, <1>12 DEF RootInv
  <2>4. \A j \in 1..k + 1 : Reply(g, f, s, order[j]) <= acc.score
    BY <1>7, <1>8, <1>10, <2>2 DEF m
  <2>5. acc.score \in Worth /\ Reply(g, f, s, acc.best) = acc.score
    BY <2>3 DEF RootInv
  <2> QED BY <1>0, <1>3, <2>1, <2>4, <2>5 DEF RootInv, out
<1> QED BY <1>11, <1>12

LEMMA RootIs ==
  ASSUME NEW g \in GAME_IDS, NEW s \in State(g), NEW f \in [State(g) -> Worth],
         NEW h \in [Windows(g) -> Int],
         \A t \in State(g), p, q \in Int : Open(p, q) => Right(h[<<t, p, q>>], f[t], p, q),
         NEW order \in Seq(legal_moves(g, s)), Len(order) # 0
  PROVE  \E tried : /\ tried = (CHOOSE r : RootRec(g, s, h, order, r))
                    /\ RootInv(g, f, s, order, Len(order), tried[Len(order)])
<1> DEFINE n == Len(order)
           A == RootAcc(g, s)
           first == [best |-> order[1], score |-> -2 * WIN]
           F == [k \in 1..n |-> [acc \in A |-> RootAt(g, s, h, order, k, acc)]]
<1>0. n \in Nat /\ n # 0 /\ 0 \in 0..n /\ 1 \in 1..n /\ WIN = 10000
  BY WorthIs
<1>1. first \in A
  <2>1. order[1] \in legal_moves(g, s)
    BY <1>0
  <2> QED BY <1>0, <2>1 DEF RootAcc
<1>2. \A acc : RootAt(g, s, h, order, 0, acc) = first
  BY DEF RootAt
<1>3. ASSUME NEW k \in 1..n, NEW acc \in A PROVE RootAt(g, s, h, order, k, acc) \in A
  <2>1. k # 0 /\ order[k] \in legal_moves(g, s)
    BY <1>0
  <2> DEFINE t == apply(g, s, order[k])
             score == -h[<<t, -2 * WIN, -acc.score>>]
  <2>2. t \in State(g) /\ acc.score \in Int
    BY <2>1, RulesOf DEF RootAcc
  <2>3. <<t, -2 * WIN, -acc.score>> \in Windows(g)
    BY <1>0, <2>2 DEF Windows
  <2>4. score \in Int
    <3>1. h[<<t, -2 * WIN, -acc.score>>] \in Int
      BY <2>3
    <3> QED BY <3>1
  <2>5. RootAt(g, s, h, order, k, acc)
          = IF score > acc.score THEN [best |-> order[k], score |-> score] ELSE acc
    BY <2>1 DEF RootAt
  <2> HIDE DEF score
  <2> QED BY <2>1, <2>4, <2>5 DEF RootAcc
<1>4. F \in [1..n -> [A -> A]]
  BY <1>3
<1>5. \A k \in 1..n, acc \in A : F[k][acc] = RootAt(g, s, h, order, k, acc)
  OBVIOUS
<1> HIDE DEF F, first, A, n
<1>6. PICK q \in [0..n -> A] : Folds(q, first, F, n)
  BY <1>0, <1>1, <1>4, Recursion, Zenon
<1>7. RootRec(g, s, h, order, q)
  <2>1. q[0] = first /\ q = [k \in 0..n |-> q[k]]
    BY <1>6 DEF Folds
  <2>2. ASSUME NEW k \in 0..n PROVE q[k] = RootAt(g, s, h, order, k, q[k - 1])
    <3>1. CASE k = 0
      BY <1>2, <2>1, <3>1
    <3>2. CASE k # 0
      <4>1. k \in 1..n /\ k - 1 \in 0..n
        BY <1>0, <3>2
      <4>2. q[k - 1] \in A /\ q[k] = F[k][q[k - 1]]
        BY <1>6, <4>1 DEF Folds
      <4> QED BY <1>5, <4>1, <4>2
    <3> QED BY <3>1, <3>2
  <2> QED BY <2>1, <2>2, Zenon DEF RootRec, n
<1>8. PICK tried : tried = (CHOOSE r : RootRec(g, s, h, order, r))
  OBVIOUS
<1>9. RootRec(g, s, h, order, tried)
  BY <1>7, <1>8, Zenon
<1>10. \A k \in 0..n : tried[k] = RootAt(g, s, h, order, k, tried[k - 1])
  BY <1>9 DEF RootRec, n
<1> DEFINE S == { k \in Nat : k <= n => RootInv(g, f, s, order, k, tried[k]) }
<1>11. 0 \in S
  <2>1. tried[0] = first /\ first.score = -2 * WIN
    BY <1>0, <1>2, <1>10 DEF first
  <2> QED BY <1>1, <2>1 DEF RootInv, A
<1>12. ASSUME NEW k \in Nat, k \in S PROVE k + 1 \in S
  <2> SUFFICES ASSUME k + 1 <= n PROVE RootInv(g, f, s, order, k + 1, tried[k + 1])
    OBVIOUS
  <2>1. k \in 0..n - 1 /\ k + 1 \in 0..n /\ (k + 1) - 1 = k
    BY <1>0
  <2>2. tried[k + 1] = RootAt(g, s, h, order, k + 1, tried[k])
    BY <1>10, <2>1
  <2>3. PICK acc : acc = tried[k]
    OBVIOUS
  <2>4. RootInv(g, f, s, order, k, acc) /\ k \in 0..Len(order) - 1
    BY <1>0, <1>12, <2>1, <2>3 DEF n
  <2>5. RootInv(g, f, s, order, k + 1, RootAt(g, s, h, order, k + 1, acc))
    BY <2>4, RootStep
  <2> QED BY <2>2, <2>3, <2>5
<1> HIDE DEF S
<1>13. RootInv(g, f, s, order, n, tried[n])
  <2>1. n \in S
    BY <1>0, <1>11, <1>12, Induct
  <2> QED BY <1>0, <2>1 DEF S
<1> QED BY <1>8, <1>13 DEF n

(* What the bot plays, if it looks ahead at all.                             *)
LEMMA ChosenIsBest ==
  ASSUME NEW g \in GAME_IDS, NEW s \in State(g), NEW depth \in 1..WIN - 1,
         NEW order, Shuffles(order, legal_moves(g, s)), outcome(g, s) = "none",
         NEW m, m = choose_move(g, s, depth, order)
  PROVE  /\ m \in legal_moves(g, s)
         /\ \A o \in legal_moves(g, s) :
              FullSearch(g, depth - 1)[apply(g, s, m)] <= FullSearch(g, depth - 1)[apply(g, s, o)]
<1>1. depth - 1 \in 0..WIN - 1
  BY WorthIs
<1>2. PICK f, h : f = FullSearch(g, depth - 1) /\ h = negamax(g, depth - 1)
  OBVIOUS
<1>3. /\ f \in [State(g) -> Worth] /\ h \in [Windows(g) -> Int]
      /\ \A t \in State(g), p, q \in Int : Open(p, q) => Right(h[<<t, p, q>>], f[t], p, q)
  BY <1>1, <1>2, AlphaBeta
<1>4. /\ order \in Seq(legal_moves(g, s))
      /\ \A o \in legal_moves(g, s) : \E i \in 1..Len(order) : order[i] = o
      /\ legal_moves(g, s) # {}
  BY RulesOf DEF Shuffles
<1>5. Len(order) \in Nat /\ Len(order) # 0
  BY <1>4
<1>6. PICK tried : /\ tried = (CHOOSE r : RootRec(g, s, h, order, r))
                   /\ RootInv(g, f, s, order, Len(order), tried[Len(order)])
  BY <1>3, <1>4, <1>5, RootIs
<1>7. m = tried[Len(order)].best
  BY <1>2, <1>6, RootUnfolds
<1>8. PICK acc : acc = tried[Len(order)]
  OBVIOUS
<1>9. /\ m \in legal_moves(g, s) /\ acc.score \in Worth
      /\ Reply(g, f, s, m) = acc.score
      /\ \A j \in 1..Len(order) : Reply(g, f, s, order[j]) <= acc.score
  BY <1>5, <1>6, <1>7, <1>8 DEF RootInv, RootAcc
<1>10. ASSUME NEW o \in legal_moves(g, s) PROVE f[apply(g, s, m)] <= f[apply(g, s, o)]
  <2>1. Reply(g, f, s, o) <= Reply(g, f, s, m)
    BY <1>4, <1>9
  <2>2. apply(g, s, m) \in State(g) /\ apply(g, s, o) \in State(g)
    BY <1>9, RulesOf
  <2>3. f[apply(g, s, m)] \in Int /\ f[apply(g, s, o)] \in Int
    BY <1>3, <2>2, WorthIs
  <2> QED BY <2>1, <2>3 DEF Reply
<1> QED BY <1>2, <1>9, <1>10

(* The minimax bot always plays a move that looking at every line to the same *)
(* depth finds best: on boards of any size, for any depth short of WIN, and   *)
(* whatever order the moves were shuffled into, cutting lines off and        *)
(* handing narrowed windows down does not change the choice.                 *)
THEOREM BotIsBest == DemoSpec => BotPlaysABest
<1>1. ASSUME DemoInv, [DemoNext]_demoVars, mind = "minimax", tick,
             NEW o \in legal_moves(game, position["bot"])
      PROVE  FullSearch(game, Depth(game) - 1)[position["bot"]']
               <= FullSearch(game, Depth(game) - 1)[apply(game, position["bot"], o)]
  <2>1. PICK g, s, d : g = game /\ s = position["bot"] /\ d = Depth(g)
    OBVIOUS
  <2>2. outcome(g, s) = "none"
    BY <1>1, <2>1 DEF tick, our_turn
  <2>3. PICK m \in BotMoves : submit_move("bot", m)
    BY <1>1 DEF tick
  <2>4. mind # "random"
    BY <1>1
  <2>5. PICK order : Shuffles(order, legal_moves(g, s)) /\ m = choose_move(g, s, d, order)
    BY <2>1, <2>3, <2>4 DEF BotMoves
  <2>6. g \in GAME_IDS /\ Played(g, s)
    BY <1>1, <2>1 DEF DemoInv, Side
  <2>7. s \in State(g)
    BY <2>6 DEF Played, C4Played, State, GAME_IDS
  <2>8. d \in 1..WIN - 1
    BY <2>1, <2>6, DepthAssumption
  <2>9. FullSearch(g, d - 1)[apply(g, s, m)] <= FullSearch(g, d - 1)[apply(g, s, o)]
    <3>1. o \in legal_moves(g, s) /\ g \in GAME_IDS
      BY <2>1, <2>6
    <3> QED BY <2>2, <2>5, <2>7, <2>8, <3>1, ChosenIsBest
  <2>10. position' = [position EXCEPT !["bot"] = apply(game, @, m)]
    BY <2>3 DEF submit_move
  <2>11. position["bot"]' = apply(g, s, m)
    BY <1>1, <2>1, <2>10 DEF DemoInv, Side
  <2> QED BY <2>1, <2>9, <2>11
<1>2. DemoInv /\ [DemoNext]_demoVars =>
        (mind = "minimax" /\ tick =>
           \A m \in legal_moves(game, position["bot"]) :
             FullSearch(game, Depth(game) - 1)[position["bot"]']
               <= FullSearch(game, Depth(game) - 1)[apply(game, position["bot"], m)])
  BY <1>1
<1> QED BY <1>2, DemoInvariance, PTL DEF DemoSpec, BotPlaysABest
=============================================================================
