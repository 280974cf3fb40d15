------------------------------ MODULE Induction ------------------------------
(***************************************************************************)
(* Natural induction and recursion, with sets and functions in the place of   *)
(* predicates and operators: what the proofs about data rest on.            *)
(***************************************************************************)
EXTENDS Integers, NaturalsInduction, WellFoundedInduction, TLAPS

LEMMA Induct ==
  ASSUME NEW S, 0 \in S, \A n \in Nat : n \in S => n + 1 \in S
  PROVE  Nat \subseteq S
<1> SUFFICES ASSUME Nat \ S # {} PROVE FALSE
  OBVIOUS
<1>1. \A x, y \in Nat : <<x, y>> \in OpToRel(<, Nat) <=> x < y
  BY DEF OpToRel
<1>2. PICK R : IsWellFoundedOn(R, Nat) /\ \A x, y \in Nat : <<x, y>> \in R <=> x < y
  BY <1>1, NatLessThanWellFounded, Zenon
<1>3. PICK least \in Nat \ S : \A n \in Nat \ S : ~ (<<n, least>> \in R)
  <2>1. IsWellFoundedOn(R, Nat) /\ Nat \ S \subseteq Nat
    BY <1>2
  <2> QED BY <2>1, WFMin, Zenon
<1>4. least \in Nat /\ least # 0
  BY <1>3
<1>5. least - 1 \in Nat /\ least - 1 < least /\ least = (least - 1) + 1
  BY <1>4
<1>6. least - 1 \in S
  BY <1>2, <1>3, <1>4, <1>5
<1> QED BY <1>3, <1>5, <1>6

LEMMA Least ==
  ASSUME NEW S \in SUBSET Nat, NEW k \in S
  PROVE  \E least \in S : \A n \in S : least <= n
<1> SUFFICES ASSUME \A least \in S : \E n \in S : n < least PROVE FALSE
  OBVIOUS
<1> DEFINE T == {n \in Nat : \A i \in 0..n : i \notin S}
<1>1. 0 \in T
  OBVIOUS
<1>2. ASSUME NEW n \in Nat, n \in T PROVE n + 1 \in T
  <2>1. n + 1 \notin S
    BY <1>2
  <2> QED BY <1>2, <2>1
<1> HIDE DEF T
<1>3. k \in T
  BY <1>1, <1>2, Induct
<1> QED BY <1>3 DEF T

Folds(g, b, F, n) == g[0] = b /\ \A i \in 1..n : g[i] = F[i][g[i - 1]]

LEMMA Recursion ==
  ASSUME NEW T, NEW b \in T, NEW n \in Nat, NEW F \in [1..n -> [T -> T]]
  PROVE  \E g \in [0..n -> T] : Folds(g, b, F, n)
<1> DEFINE Upto(k) == \E g \in [0..k -> T] :
                        g[0] = b /\ \A i \in 1..k : i <= n => g[i] = F[i][g[i - 1]]
           S == {k \in Nat : k <= n => Upto(k)}
<1>1. 0 \in S
  <2> DEFINE g == [i \in 0..0 |-> b]
  <2>1. g \in [0..0 -> T] /\ g[0] = b /\ \A i \in 1..0 : FALSE
    OBVIOUS
  <2> HIDE DEF g
  <2>2. Upto(0)
    BY <2>1
  <2> QED BY <2>2
<1>2. ASSUME NEW k \in Nat, k \in S PROVE k + 1 \in S
  <2> SUFFICES ASSUME k + 1 <= n PROVE Upto(k + 1)
    OBVIOUS
  <2>1. PICK g \in [0..k -> T] : g[0] = b /\ \A i \in 1..k : i <= n => g[i] = F[i][g[i - 1]]
    BY <1>2
  <2> DEFINE h == [i \in 0..k + 1 |-> IF i = k + 1 THEN F[k + 1][g[k]] ELSE g[i]]
  <2>2. k + 1 \in 1..n /\ g[k] \in T
    OBVIOUS
  <2>3. F[k + 1][g[k]] \in T
    BY <2>2
  <2>4. h \in [0..k + 1 -> T] /\ h[0] = b
    BY <2>1, <2>3
  <2>5. ASSUME NEW i \in 1..k + 1, i <= n PROVE h[i] = F[i][h[i - 1]]
    <3>1. i - 1 \in 0..k /\ h[i - 1] = g[i - 1]
      OBVIOUS
    <3>2. CASE i = k + 1
      BY <3>1, <3>2
    <3>3. CASE i # k + 1
      <4>1. i \in 1..k /\ h[i] = g[i]
        BY <3>3
      <4> QED BY <2>1, <2>5, <3>1, <4>1
    <3> QED BY <3>2, <3>3
  <2> HIDE DEF h
  <2> QED BY <2>4, <2>5
<1> HIDE DEF S
<1>3. n \in S
  BY <1>1, <1>2, Induct
<1>4. Upto(n)
  BY <1>3 DEF S
<1> QED BY <1>4 DEF Folds

(* What a recursive function is, once its equation has a solution.           *)
Unfolds(s, b, F, n, T) ==
  /\ s = [i \in 0..n |-> s[i]]
  /\ s[0] = b
  /\ \A i \in 1..n : s[i - 1] \in T => s[i] = F[i][s[i - 1]]

LEMMA FoldsAre ==
  ASSUME NEW T, NEW b \in T, NEW n \in Nat, NEW F \in [1..n -> [T -> T]],
         NEW s, Unfolds(s, b, F, n, T)
  PROVE  s \in [0..n -> T] /\ Folds(s, b, F, n)
<1> USE DEF Unfolds
<1> DEFINE S == {i \in Nat : i <= n => s[i] \in T}
<1>1. 0 \in S
  OBVIOUS
<1>2. ASSUME NEW i \in Nat, i \in S PROVE i + 1 \in S
  <2> SUFFICES ASSUME i + 1 <= n PROVE s[i + 1] \in T
    OBVIOUS
  <2>1. i + 1 \in 1..n /\ (i + 1) - 1 = i /\ s[i] \in T
    BY <1>2
  <2>2. s[i + 1] = F[i + 1][s[i]] /\ F[i + 1] \in [T -> T]
    BY <2>1
  <2> QED BY <2>1, <2>2
<1> HIDE DEF S
<1>3. Nat \subseteq S
  BY <1>1, <1>2, Induct
<1>4. \A i \in 0..n : s[i] \in T
  BY <1>3 DEF S
<1>5. ASSUME NEW i \in 1..n PROVE s[i] = F[i][s[i - 1]]
  <2>1. i - 1 \in 0..n
    OBVIOUS
  <2> QED BY <1>4, <2>1
<1> QED BY <1>4, <1>5 DEF Folds
=============================================================================
