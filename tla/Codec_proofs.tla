----------------------------- MODULE Codec_proofs ----------------------------
(***************************************************************************)
(* Proofs about Codec, for every message, card and text and any lengths of    *)
(* ids, keys and signatures.                                               *)
(*                                                                         *)
(* Frames: a reader (take, take_lp, TakeField) that accepts what was put      *)
(* accepts it with more behind it too, and then leaves exactly that (Extends), *)
(* so a frame with a byte more has something left, and one without its end    *)
(* cannot be accepted. Cards: the signature says which bytes it is over, and  *)
(* the length of the name where they end. Lines: what divides a text at a     *)
(* separator takes a join apart again (JoinRead), escapes leave no separator   *)
(* in a note, and are undone one character at a time.                        *)
(***************************************************************************)
EXTENDS Codec, Induction, SequenceTheorems

-----------------------------------------------------------------------------
(* Sequences, from the first element on.                                    *)

LEMMA ConsIs ==
  ASSUME NEW T, NEW x \in T, NEW s \in Seq(T)
  PROVE  /\ <<x>> \o s \in Seq(T) /\ Len(<<x>> \o s) = Len(s) + 1
         /\ (<<x>> \o s)[1] = x /\ <<x>> \o s # <<>>
         /\ \A i \in 1..Len(s) : (<<x>> \o s)[i + 1] = s[i]
OBVIOUS

LEMMA ConsOf ==
  ASSUME NEW T, NEW s \in Seq(T), s # <<>>
  PROVE  \E x \in T, rest \in Seq(T) : s = <<x>> \o rest
<1> DEFINE rest == Tail(s)
<1>1. Len(s) \in Nat \ {0} /\ s[1] \in T /\ rest \in Seq(T) /\ Len(rest) = Len(s) - 1
      /\ \A i \in 1..Len(rest) : rest[i] = s[i + 1]
  OBVIOUS
<1>2. /\ <<s[1]>> \o rest \in Seq(T) /\ Len(<<s[1]>> \o rest) = Len(rest) + 1
      /\ (<<s[1]>> \o rest)[1] = s[1]
      /\ \A i \in 1..Len(rest) : (<<s[1]>> \o rest)[i + 1] = rest[i]
  <2> HIDE DEF rest
  <2> QED BY <1>1, ConsIs
<1> HIDE DEF rest
<1>3. ASSUME NEW i \in 1..Len(s) PROVE s[i] = (<<s[1]>> \o rest)[i]
  <2>1. CASE i = 1
    BY <1>2, <2>1
  <2>2. CASE i # 1
    <3>1. i - 1 \in 1..Len(rest) /\ (i - 1) + 1 = i
      BY <1>1, <2>2
    <3> QED BY <1>1, <1>2, <3>1
  <2> QED BY <2>1, <2>2
<1>4. Len(<<s[1]>> \o rest) = Len(s)
  BY <1>1, <1>2
<1>5. s = <<s[1]>> \o rest
  BY <1>2, <1>3, <1>4, SeqEqual
<1> QED BY <1>1, <1>5

LEMMA SeqIs ==
  ASSUME NEW T, NEW n \in Nat, NEW f, f = [i \in 1..n |-> f[i]], \A i \in 1..n : f[i] \in T
  PROVE  f \in Seq(T) /\ Len(f) = n
OBVIOUS

LEMMA SeqInduct ==
  ASSUME NEW T, NEW S, <<>> \in S, \A x \in T, s \in Seq(T) : s \in S => <<x>> \o s \in S
  PROVE  Seq(T) \subseteq S
<1> DEFINE N == {n \in Nat : \A s \in Seq(T) : Len(s) = n => s \in S}
<1>1. 0 \in N
  OBVIOUS
<1>2. ASSUME NEW n \in Nat, n \in N PROVE n + 1 \in N
  <2> SUFFICES ASSUME NEW s \in Seq(T), Len(s) = n + 1 PROVE s \in S
    OBVIOUS
  <2>1. PICK x \in T, rest \in Seq(T) : s = <<x>> \o rest
    <3>1. s # <<>>
      BY <1>2
    <3> QED BY <3>1, ConsOf
  <2>2. Len(rest) = n
    BY <2>1, ConsIs
  <2> QED BY <1>2, <2>1, <2>2
<1> HIDE DEF N
<1>3. ASSUME NEW s \in Seq(T) PROVE s \in S
  <2>1. Len(s) \in N
    BY <1>1, <1>2, Induct
  <2> QED BY <2>1 DEF N
<1> QED BY <1>3

(* Concat, as the function its definition unfolds to.                       *)
LEMMA ConcatIs ==
  ASSUME NEW T, NEW parts \in Seq(Seq(T))
  PROVE  \E last \in [0..Len(parts) -> Seq(T)] :
           /\ last[0] = <<>>
           /\ \A k \in 1..Len(parts) : last[k] = parts[Len(parts) + 1 - k] \o last[k - 1]
           /\ Concat(parts) = last[Len(parts)]
<1> DEFINE n == Len(parts)
           Rec(f) == f = [k \in 0..n |-> IF k = 0 THEN <<>> ELSE parts[n + 1 - k] \o f[k - 1]]
           F == [k \in 1..n |-> [x \in Seq(T) |-> parts[n + 1 - k] \o x]]
<1>1. n \in Nat /\ <<>> \in Seq(T) /\ \A k \in 1..n : n + 1 - k \in 1..n /\ parts[n + 1 - k] \in Seq(T)
  <2>1. <<>> \in Seq(T)
    OBVIOUS
  <2>2. n \in Nat /\ \A k \in 1..n : n + 1 - k \in 1..n
    OBVIOUS
  <2>3. \A k \in 1..n : parts[k] \in Seq(T)
    OBVIOUS
  <2> QED BY <2>1, <2>2, <2>3
<1>2. F \in [1..n -> [Seq(T) -> Seq(T)]]
  <2>1. ASSUME NEW p \in Seq(T), NEW x \in Seq(T) PROVE p \o x \in Seq(T)
    OBVIOUS
  <2> HIDE DEF n
  <2> QED BY <1>1, <2>1
<1>3. \A k \in 1..n, x \in Seq(T) : F[k][x] = parts[n + 1 - k] \o x
  OBVIOUS
<1> HIDE DEF F, n, Rec
<1>4. PICK g \in [0..n -> Seq(T)] : Folds(g, <<>>, F, n)
  BY <1>1, <1>2, Recursion
<1>5. ASSUME NEW k \in 1..n PROVE g[k] = parts[n + 1 - k] \o g[k - 1]
  <2>1. g[k - 1] \in Seq(T)
    BY <1>1, <1>4
  <2>2. g[k] = F[k][g[k - 1]]
    BY <1>4 DEF Folds
  <2> QED BY <1>3, <2>1, <2>2, Zenon
<1>6. Rec(g)
  <2>1. g[0] = <<>> /\ g = [k \in 0..n |-> g[k]]
    BY <1>4 DEF Folds
  <2>2. ASSUME NEW k \in 0..n
        PROVE  g[k] = IF k = 0 THEN <<>> ELSE parts[n + 1 - k] \o g[k - 1]
    <3>1. k = 0 \/ k \in 1..n
      BY <1>1
    <3> QED BY <1>5, <2>1, <3>1
  <2>3. [k \in 0..n |-> g[k]]
          = [k \in 0..n |-> IF k = 0 THEN <<>> ELSE parts[n + 1 - k] \o g[k - 1]]
    BY <2>2, Zenon
  <2> QED BY <2>1, <2>3, Zenon DEF Rec
<1>7. PICK f : f = (CHOOSE fun : Rec(fun))
  OBVIOUS
<1>8. Rec(f)
  BY <1>6, <1>7
<1>9. Unfolds(f, <<>>, F, n, Seq(T))
  <2>1. \A k \in 0..n : f[k] = IF k = 0 THEN <<>> ELSE parts[n + 1 - k] \o f[k - 1]
    BY <1>8, Zenon DEF Rec
  <2>2. f = [k \in 0..n |-> f[k]]
    BY <1>8, <2>1, Zenon DEF Rec
  <2>3. 0 \in 0..n /\ \A k \in 1..n : k \in 0..n /\ k # 0
    BY <1>1
  <2>4. f[0] = <<>> /\ \A k \in 1..n : f[k] = parts[n + 1 - k] \o f[k - 1]
    BY <2>1, <2>3, Zenon
  <2>5. \A k \in 1..n : f[k - 1] \in Seq(T) => f[k] = F[k][f[k - 1]]
    BY <1>3, <2>4, Zenon
  <2> QED BY <2>2, <2>4, <2>5, Zenon DEF Unfolds
<1>10. f \in [0..n -> Seq(T)] /\ Folds(f, <<>>, F, n)
  BY <1>1, <1>2, <1>9, FoldsAre
<1>11. Concat(parts) = f[n]
  BY <1>7 DEF Concat, n, Rec
<1>12. ASSUME NEW k \in 1..n PROVE f[k] = parts[n + 1 - k] \o f[k - 1]
  <2>1. f[k - 1] \in Seq(T)
    BY <1>1, <1>10
  <2>2. f[k] = F[k][f[k - 1]]
    BY <1>10 DEF Folds
  <2> QED BY <1>3, <2>1, <2>2, Zenon
<1> QED BY <1>10, <1>11, <1>12 DEF Folds, n

LEMMA ConcatOfNone == Concat(<<>>) = <<>>
<1>1. <<>> \in Seq(Seq(Nat)) /\ Len(<<>>) = 0
  OBVIOUS
<1>2. PICK last \in [0..Len(<<>>) -> Seq(Nat)] : last[0] = <<>> /\ Concat(<<>>) = last[Len(<<>>)]
  BY <1>1, ConcatIs
<1> QED BY <1>1, <1>2

LEMMA ConcatType ==
  ASSUME NEW T, NEW parts \in Seq(Seq(T)) PROVE Concat(parts) \in Seq(T)
<1>1. PICK last \in [0..Len(parts) -> Seq(T)] : Concat(parts) = last[Len(parts)]
  BY ConcatIs
<1>2. Len(parts) \in 0..Len(parts)
  OBVIOUS
<1> QED BY <1>1, <1>2

LEMMA ConcatCons ==
  ASSUME NEW T, NEW x \in Seq(T), NEW parts \in Seq(Seq(T))
  PROVE  Concat(<<x>> \o parts) = x \o Concat(parts)
<1> DEFINE n == Len(parts)
           all == <<x>> \o parts
<1>1. n \in Nat /\ all \in Seq(Seq(T)) /\ Len(all) = n + 1 /\ all[1] = x
      /\ \A i \in 1..n : all[i + 1] = parts[i]
  BY ConsIs
<1>2. PICK last \in [0..n -> Seq(T)] :
         /\ last[0] = <<>>
         /\ \A k \in 1..n : last[k] = parts[n + 1 - k] \o last[k - 1]
         /\ Concat(parts) = last[n]
  BY ConcatIs
<1> HIDE DEF n, all
<1>3. PICK most \in [0..n + 1 -> Seq(T)] :
         /\ most[0] = <<>>
         /\ \A k \in 1..n + 1 : most[k] = all[n + 1 + 1 - k] \o most[k - 1]
         /\ Concat(all) = most[n + 1]
  <2>1. \E most \in [0..Len(all) -> Seq(T)] :
           /\ most[0] = <<>>
           /\ \A k \in 1..Len(all) : most[k] = all[Len(all) + 1 - k] \o most[k - 1]
           /\ Concat(all) = most[Len(all)]
    BY <1>1, ConcatIs, Zenon
  <2> QED BY <1>1, <2>1
<1> DEFINE S == {k \in Nat : k <= n => most[k] = last[k]}
<1>4. 0 \in S
  BY <1>2, <1>3
<1>5. ASSUME NEW k \in Nat, k \in S PROVE k + 1 \in S
  <2> SUFFICES ASSUME k + 1 <= n PROVE most[k + 1] = last[k + 1]
    OBVIOUS
  <2>1. /\ k + 1 \in 1..n /\ k + 1 \in 1..n + 1 /\ (k + 1) - 1 = k
        /\ n + 1 - (k + 1) = n - k /\ n + 1 + 1 - (k + 1) = (n - k) + 1 /\ n - k \in 1..n
    BY <1>1
  <2>2. most[k] = last[k]
    BY <1>1, <1>5, <2>1
  <2>3. most[k + 1] = all[(n - k) + 1] \o most[k]
    BY <1>3, <2>1
  <2>4. last[k + 1] = parts[n - k] \o last[k]
    BY <1>2, <2>1
  <2>5. all[(n - k) + 1] = parts[n - k]
    BY <1>1, <2>1
  <2> QED BY <2>2, <2>3, <2>4, <2>5
<1> HIDE DEF S
<1>6. n \in S
  BY <1>1, <1>4, <1>5, Induct
<1>7. most[n] = last[n]
  BY <1>1, <1>6 DEF S
<1>8. n + 1 \in 1..n + 1 /\ (n + 1) - 1 = n /\ n + 1 + 1 - (n + 1) = 1
  BY <1>1
<1>9. most[n + 1] = all[1] \o most[n]
  BY <1>3, <1>8
<1> QED BY <1>1, <1>2, <1>3, <1>7, <1>9 DEF all

LEMMA ConcatOfOne ==
  ASSUME NEW T, NEW x \in Seq(T) PROVE Concat(<<x>>) = x
<1>1. <<>> \in Seq(Seq(T)) /\ <<x>> \o <<>> = <<x>> /\ x \o <<>> = x
  <2>1. <<>> \in Seq(Seq(T)) /\ <<x>> \in Seq(Seq(T))
    OBVIOUS
  <2> QED BY <2>1, ConcatEmptySeq
<1> QED BY <1>1, ConcatCons, ConcatOfNone

LEMMA ConcatSplit ==
  ASSUME NEW T, NEW a \in Seq(Seq(T)), NEW b \in Seq(Seq(T))
  PROVE  Concat(a \o b) = Concat(a) \o Concat(b)
<1> DEFINE S == {s \in Seq(Seq(T)) : Concat(s \o b) = Concat(s) \o Concat(b)}
<1>0. Concat(b) \in Seq(T)
  BY ConcatType
<1>1. <<>> \in S
  <2>1. <<>> \in Seq(Seq(T))
    OBVIOUS
  <2>2. <<>> \o b = b /\ <<>> \o Concat(b) = Concat(b)
    BY <1>0, ConcatEmptySeq
  <2> QED BY <2>1, <2>2, ConcatOfNone
<1>2. ASSUME NEW x \in Seq(T), NEW s \in Seq(Seq(T)), s \in S PROVE <<x>> \o s \in S
  <2>1. <<x>> \in Seq(Seq(T)) /\ <<x>> \o s \in Seq(Seq(T)) /\ s \o b \in Seq(Seq(T))
    OBVIOUS
  <2>2. (<<x>> \o s) \o b = <<x>> \o (s \o b)
    BY <2>1, ConcatAssociative
  <2>3. Concat(<<x>> \o (s \o b)) = x \o Concat(s \o b)
    BY <2>1, ConcatCons
  <2>4. Concat(s \o b) = Concat(s) \o Concat(b)
    BY <1>2
  <2>5. Concat(<<x>> \o s) = x \o Concat(s)
    BY ConcatCons
  <2>6. Concat(s) \in Seq(T)
    BY ConcatType
  <2>7. (x \o Concat(s)) \o Concat(b) = x \o (Concat(s) \o Concat(b))
    BY <1>0, <2>6, ConcatAssociative
  <2> QED BY <2>1, <2>2, <2>3, <2>4, <2>5, <2>7
<1> HIDE DEF S
<1>3. Seq(Seq(T)) \subseteq S
  BY <1>1, <1>2, SeqInduct
<1> QED BY <1>3 DEF S

-----------------------------------------------------------------------------
(* Reading one value after the other.                                       *)

Results(V) == {WireError} \cup [ok : {TRUE}, value : V, rest : Seq(Byte)]

LEMMA ReadIs ==
  ASSUME NEW value, NEW rest
  PROVE  /\ Read(value, rest).ok /\ Read(value, rest).value = value /\ Read(value, rest).rest = rest
         /\ ~WireError.ok /\ Read(value, rest) # WireError
<1>1. Read(value, rest).ok = TRUE /\ WireError.ok = FALSE
  BY DEF Read, WireError
<1>2. Read(value, rest).value = value /\ Read(value, rest).rest = rest
  BY DEF Read
<1>3. Read(value, rest) # WireError
  BY <1>1
<1> QED BY <1>1, <1>2, <1>3

LEMMA ReadParts ==
  ASSUME NEW r, NEW value, NEW rest, r = Read(value, rest)
  PROVE  r.ok /\ r.value = value /\ r.rest = rest
<1>1. Read(value, rest).ok /\ Read(value, rest).value = value /\ Read(value, rest).rest = rest
  BY ReadIs, Zenon
<1> QED BY <1>1

LEMMA ResultIs ==
  ASSUME NEW V
  PROVE  /\ WireError \in Results(V)
         /\ \A value \in V, rest \in Seq(Byte) : Read(value, rest) \in Results(V)
         /\ \A r \in Results(V) : r.ok => /\ r.value \in V /\ r.rest \in Seq(Byte)
                                          /\ r = Read(r.value, r.rest)
         /\ \A r \in Results(V) : ~r.ok => r = WireError
<1>1. \A value \in V, rest \in Seq(Byte) : Read(value, rest) \in Results(V)
  BY DEF Results, Read
<1>2. ASSUME NEW r \in Results(V), r.ok
      PROVE  r.value \in V /\ r.rest \in Seq(Byte) /\ r = Read(r.value, r.rest)
  <2>1. r # WireError
    BY <1>2, ReadIs
  <2>2. r \in [ok : {TRUE}, value : V, rest : Seq(Byte)]
    BY <2>1 DEF Results
  <2>3. PICK v \in V, s \in Seq(Byte) : r = [ok |-> TRUE, value |-> v, rest |-> s]
    BY <2>2
  <2>4. r.value = v /\ r.rest = s
    BY <2>3
  <2> QED BY <2>3, <2>4 DEF Read
<1>3. ASSUME NEW r \in Results(V), ~r.ok PROVE r = WireError
  BY <1>3 DEF Results
<1>4. WireError \in Results(V)
  BY DEF Results
<1> QED BY <1>1, <1>2, <1>3, <1>4

LEMMA Associates ==
  \A x, y, z \in Seq(Byte) : (x \o y) \o z = x \o (y \o z) /\ x \o y \in Seq(Byte)
BY ConcatAssociative

LEMMA ThenIs ==
  ASSUME NEW V, NEW before \in Results(Seq(V)), NEW one \in Results(V)
  PROVE  /\ Then(before, one) \in Results(Seq(V))
         /\ ~before.ok => Then(before, one) = WireError
         /\ before.ok /\ one.ok =>
              Then(before, one) = Read(Append(before.value, one.value), one.rest)
         /\ Then(before, one).ok => before.ok /\ one.ok
<1>1. CASE before.ok /\ one.ok
  <2>1. before.value \in Seq(V) /\ one.value \in V /\ one.rest \in Seq(Byte)
    BY <1>1, ResultIs
  <2>2. Append(before.value, one.value) \in Seq(V)
    BY <2>1, AppendProperties
  <2>3. Then(before, one) = Read(Append(before.value, one.value), one.rest)
    BY <1>1, Zenon DEF Then
  <2>4. Read(Append(before.value, one.value), one.rest) \in Results(Seq(V))
    BY <2>1, <2>2, ResultIs
  <2>5. Then(before, one) \in Results(Seq(V))
    BY <2>3, <2>4
  <2> QED BY <1>1, <2>3, <2>5, Zenon
<1>2. CASE ~(before.ok /\ one.ok)
  <2>1. Then(before, one) = WireError
    BY <1>2 DEF Then
  <2> QED BY <1>2, <2>1, ResultIs, ReadIs
<1> QED BY <1>1, <1>2

(* n values, the i-th read by R[i].                                         *)
Next1(R, before) == IF before.ok THEN Then(before, R[before.rest]) ELSE WireError
Reads(f, R, n, data) ==
  f[0] = Read(<<>>, data) /\ \A i \in 1..n : f[i] = Next1(R[i], f[i - 1])
Readers(V) == [Seq(Byte) -> Results(V)]

LEMMA Next1Is ==
  ASSUME NEW V, NEW R \in Readers(V), NEW before \in Results(Seq(V))
  PROVE  Next1(R, before) \in Results(Seq(V))
<1>1. CASE before.ok
  <2>1. before.rest \in Seq(Byte)
    BY <1>1, ResultIs
  <2>2. R[before.rest] \in Results(V)
    BY <2>1 DEF Readers
  <2>3. Next1(R, before) = Then(before, R[before.rest])
    BY <1>1 DEF Next1
  <2> QED BY <2>2, <2>3, ThenIs
<1>2. CASE ~before.ok
  BY <1>2, ResultIs DEF Next1
<1> QED BY <1>1, <1>2

LEMMA ThenReads ==
  ASSUME NEW v, NEW rest, NEW w, NEW more
  PROVE  Then(Read(v, rest), Read(w, more)) = Read(Append(v, w), more)
<1>1. Read(v, rest).ok /\ Read(v, rest).rest = rest /\ Read(v, rest).value = v
  BY ReadIs, Zenon
<1>2. Read(w, more).ok /\ Read(w, more).rest = more /\ Read(w, more).value = w
  BY ReadIs, Zenon
<1> QED BY <1>1, <1>2, Zenon DEF Then

LEMMA Next1Reads ==
  ASSUME NEW R, NEW before, NEW v, NEW rest, before = Read(v, rest),
         NEW w, NEW more, R[rest] = Read(w, more)
  PROVE  Next1(R, before) = Read(Append(v, w), more)
<1>1. Read(v, rest).ok /\ Read(v, rest).rest = rest /\ Read(v, rest).value = v
  BY ReadIs, Zenon
<1>2. before.ok /\ before.rest = rest
  BY <1>1
<1>3. Next1(R, before) = Then(before, Read(w, more))
  BY <1>2, Zenon DEF Next1
<1>4. Then(Read(v, rest), Read(w, more)) = Read(Append(v, w), more)
  BY ThenReads
<1> QED BY <1>3, <1>4

LEMMA LoopExists ==
  ASSUME NEW V, NEW n \in Nat, NEW R \in [1..n -> Readers(V)], NEW data \in Seq(Byte)
  PROVE  \E f : f = [i \in 0..n |-> f[i]] /\ Reads(f, R, n, data)
<1> DEFINE T == Results(Seq(V))
           F == [i \in 1..n |-> [x \in T |-> Next1(R[i], x)]]
<1>1. ASSUME NEW i \in 1..n, NEW x \in T PROVE Next1(R[i], x) \in T /\ F[i][x] = Next1(R[i], x)
  <2>1. R[i] \in Readers(V)
    OBVIOUS
  <2>2. Next1(R[i], x) \in T
    BY <2>1, Next1Is
  <2> QED BY <2>2
<1>2. F \in [1..n -> [T -> T]]
  BY <1>1
<1>3. Read(<<>>, data) \in T
  <2>1. <<>> \in Seq(V)
    OBVIOUS
  <2> QED BY <2>1, ResultIs
<1> HIDE DEF T, F
<1>4. PICK f \in [0..n -> T] : Folds(f, Read(<<>>, data), F, n)
  BY <1>2, <1>3, Recursion
<1>5. ASSUME NEW i \in 1..n PROVE f[i] = Next1(R[i], f[i - 1])
  <2>1. f[i - 1] \in T
    BY <1>4
  <2>2. f[i] = F[i][f[i - 1]]
    BY <1>4 DEF Folds
  <2> QED BY <1>1, <2>1, <2>2
<1>6. f[0] = Read(<<>>, data) /\ f = [i \in 0..n |-> f[i]]
  BY <1>4 DEF Folds
<1> QED BY <1>5, <1>6 DEF Reads

LEMMA LoopTyped ==
  ASSUME NEW V, NEW n \in Nat, NEW R \in [1..n -> Readers(V)], NEW data \in Seq(Byte),
         NEW f, Reads(f, R, n, data)
  PROVE  \A i \in 0..n : f[i] \in Results(Seq(V))
<1> DEFINE S == {i \in Nat : i <= n => f[i] \in Results(Seq(V))}
<1>1. 0 \in S
  <2>1. <<>> \in Seq(V)
    OBVIOUS
  <2>2. Read(<<>>, data) \in Results(Seq(V))
    BY <2>1, ResultIs
  <2>3. f[0] \in Results(Seq(V))
    BY <2>2, Zenon DEF Reads
  <2> QED BY <2>3
<1>2. ASSUME NEW i \in Nat, i \in S PROVE i + 1 \in S
  <2> SUFFICES ASSUME i + 1 <= n PROVE f[i + 1] \in Results(Seq(V))
    OBVIOUS
  <2>1. i + 1 \in 1..n /\ (i + 1) - 1 = i /\ f[i] \in Results(Seq(V))
    BY <1>2
  <2>2. f[i + 1] = Next1(R[i + 1], f[i])
    BY <2>1 DEF Reads
  <2>3. R[i + 1] \in Readers(V)
    BY <2>1
  <2> QED BY <2>1, <2>2, <2>3, Next1Is
<1> HIDE DEF S
<1>3. Nat \subseteq S
  BY <1>1, <1>2, Induct
<1> QED BY <1>3 DEF S

Loops(V, f, R, n, data) ==
  n \in Nat /\ R \in [1..n -> Readers(V)] /\ data \in Seq(Byte) /\ Reads(f, R, n, data)

Accepts(reader, part, value) ==
  \A x \in Seq(Byte) : reader[part \o x] = Read(value, x)
AcceptsAll(V, R, n, parts, vals) ==
  /\ parts \in Seq(Seq(Byte)) /\ Len(parts) = n /\ vals \in Seq(V) /\ Len(vals) = n
  /\ \A i \in 1..n : Accepts(R[i], parts[i], vals[i])

(* What was put in a row is read in a row.                                  *)
LEMMA LoopAccepts ==
  ASSUME NEW V, NEW n, NEW R, NEW f, NEW parts, NEW vals, NEW tail \in Seq(Byte),
         Loops(V, f, R, n, Concat(parts) \o tail), AcceptsAll(V, R, n, parts, vals)
  PROVE  f[n] = Read(vals, tail)
<1> DEFINE data == Concat(parts) \o tail
<1>0. n \in Nat /\ R \in [1..n -> Readers(V)] /\ data \in Seq(Byte) /\ Reads(f, R, n, data)
  BY DEF Loops
<1>00. /\ parts \in Seq(Seq(Byte)) /\ Len(parts) = n /\ vals \in Seq(V) /\ Len(vals) = n
       /\ \A i \in 1..n : Accepts(R[i], parts[i], vals[i])
  BY DEF AcceptsAll
<1> USE <1>0, <1>00
<1> DEFINE After(i) == Concat(SubSeq(parts, i + 1, n)) \o tail
           S == {i \in Nat : i <= n => f[i] = Read(SubSeq(vals, 1, i), After(i))}
<1>1. 0 \in S
  <2>1. SubSeq(vals, 1, 0) = <<>>
    BY SubSeqEmpty
  <2>2. SubSeq(parts, 1, n) = parts
    BY SubSeqFull
  <2>3. f[0] = Read(<<>>, data)
    BY DEF Reads
  <2>4. SubSeq(parts, 0 + 1, n) = parts
    BY <2>2
  <2>5. f[0] = Read(SubSeq(vals, 1, 0), After(0))
    BY <2>1, <2>3, <2>4, Zenon
  <2> QED BY <2>5
<1>2. ASSUME NEW i \in Nat, i \in S PROVE i + 1 \in S
  <2> SUFFICES ASSUME i + 1 <= n PROVE f[i + 1] = Read(SubSeq(vals, 1, i + 1), After(i + 1))
    OBVIOUS
  <2> DEFINE more == SubSeq(parts, i + 1 + 1, n)
             upto == SubSeq(vals, 1, i)
  <2>1. i + 1 \in 1..n /\ (i + 1) - 1 = i /\ i + 1 \in 1..Len(parts) /\ n \in i + 1..Len(parts)
        /\ i + 1 \in 1..Len(vals) /\ 1 \in 1..Len(vals) /\ i + 1 \in 1..Len(vals)
    BY <1>2
  <2>2. f[i] = Read(upto, After(i))
    BY <1>2, <2>1
  <2>3. parts[i + 1] \in Seq(Byte) /\ vals[i + 1] \in V /\ more \in Seq(Seq(Byte)) /\ upto \in Seq(V)
    BY <2>1
  <2>4. SubSeq(parts, i + 1, n) = <<parts[i + 1]>> \o more
    BY <2>1, SubSeqRecursiveFirst
  <2>5. Concat(<<parts[i + 1]>> \o more) = parts[i + 1] \o Concat(more) /\ Concat(more) \in Seq(Byte)
    BY <2>3, ConcatCons, ConcatType
  <2>6. After(i) = parts[i + 1] \o After(i + 1) /\ After(i + 1) \in Seq(Byte)
    <3>1. After(i) = (parts[i + 1] \o Concat(more)) \o tail
      BY <2>4, <2>5
    <3>2. After(i + 1) = Concat(more) \o tail
      OBVIOUS
    <3> HIDE DEF After, more
    <3>3. (parts[i + 1] \o Concat(more)) \o tail = parts[i + 1] \o (Concat(more) \o tail)
      <4> DEFINE now == parts[i + 1]
                 later == Concat(more)
      <4>1. now \in Seq(Byte) /\ later \in Seq(Byte)
        BY <2>3, <2>5
      <4> HIDE DEF now, later
      <4>2. (now \o later) \o tail = now \o (later \o tail)
        BY <4>1, Associates
      <4> QED BY <4>2 DEF now, later
    <3>4. Concat(more) \o tail \in Seq(Byte)
      BY <2>5, ConcatProperties
    <3> QED BY <3>1, <3>2, <3>3, <3>4
  <2>7. SubSeq(vals, 1, i + 1) = Append(upto, vals[i + 1])
    <3>1. SubSeq(vals, 1, i + 1) = SubSeq(vals, 1, (i + 1) - 1) \o <<vals[i + 1]>>
      <4>1. 1 \in 1..Len(vals) /\ i + 1 \in 1..Len(vals)
        BY <2>1
      <4> QED BY <4>1, SubSeqRecursiveSecond
    <3>2. Append(upto, vals[i + 1]) = upto \o <<vals[i + 1]>>
      BY <2>3, AppendIsConcat
    <3> QED BY <2>1, <3>1, <3>2
  <2> HIDE DEF After, upto, more
  <2>8. R[i + 1][After(i)] = Read(vals[i + 1], After(i + 1))
    BY <2>1, <2>6 DEF Accepts
  <2>9. f[i + 1] = Next1(R[i + 1], f[i])
    BY <2>1 DEF Reads
  <2>10. f[i + 1] = Read(Append(upto, vals[i + 1]), After(i + 1))
    BY <2>2, <2>8, <2>9, Next1Reads
  <2> QED BY <2>7, <2>10
<1>3. n \in S
  <2> HIDE DEF S
  <2> QED BY <1>1, <1>2, Induct
<1>4. f[n] = Read(SubSeq(vals, 1, n), After(n))
  BY <1>3
<1>5. SubSeq(vals, 1, n) = vals
  BY SubSeqFull
<1>6. SubSeq(parts, n + 1, n) = <<>>
  BY SubSeqEmpty
<1>7. <<>> \o tail = tail
  BY ConcatEmptySeq
<1> QED BY <1>4, <1>5, <1>6, <1>7, ConcatOfNone

(* What is read of a text is read of a longer one.                          *)
Extends(reader) ==
  \A d, x \in Seq(Byte) : reader[d].ok => reader[d \o x] = Read(reader[d].value, reader[d].rest \o x)

LEMMA LoopExtends ==
  ASSUME NEW V, NEW n, NEW R, NEW data, NEW x \in Seq(Byte),
         NEW f, Loops(V, f, R, n, data), NEW g, Loops(V, g, R, n, data \o x),
         \A i \in 1..n : Extends(R[i]), f[n].ok
  PROVE  g[n] = Read(f[n].value, f[n].rest \o x)
<1> DEFINE S == {i \in Nat : i <= n => (f[i].ok => g[i] = Read(f[i].value, f[i].rest \o x))}
<1>00. /\ n \in Nat /\ R \in [1..n -> Readers(V)] /\ data \in Seq(Byte)
       /\ Reads(f, R, n, data) /\ Reads(g, R, n, data \o x)
  BY DEF Loops
<1> USE <1>00
<1>0. \A i \in 0..n : f[i] \in Results(Seq(V))
  BY LoopTyped
<1>1. 0 \in S
  <2>1. f[0] = Read(<<>>, data) /\ g[0] = Read(<<>>, data \o x)
    BY DEF Reads
  <2> QED BY <2>1, ReadIs
<1>2. ASSUME NEW i \in Nat, i \in S PROVE i + 1 \in S
  <2> SUFFICES ASSUME i + 1 <= n, f[i + 1].ok
               PROVE  g[i + 1] = Read(f[i + 1].value, f[i + 1].rest \o x)
    OBVIOUS
  <2> DEFINE one == R[i + 1][f[i].rest]
  <2>1. i + 1 \in 1..n /\ (i + 1) - 1 = i /\ i \in 0..n
    OBVIOUS
  <2>2. f[i + 1] = Next1(R[i + 1], f[i]) /\ g[i + 1] = Next1(R[i + 1], g[i])
    BY <2>1 DEF Reads
  <2>3. f[i].ok /\ f[i + 1] = Then(f[i], one)
    BY <2>2, ReadIs, Zenon DEF Next1
  <2>4. f[i].rest \in Seq(Byte) /\ one \in Results(V) /\ f[i] \in Results(Seq(V))
    <3>1. f[i] \in Results(Seq(V)) /\ R[i + 1] \in Readers(V)
      BY <1>0, <2>1
    <3>2. f[i].rest \in Seq(Byte)
      BY <2>3, <3>1, ResultIs
    <3> QED BY <3>1, <3>2 DEF Readers
  <2> HIDE DEF one
  <2>5. one.ok /\ f[i + 1] = Read(Append(f[i].value, one.value), one.rest)
    BY <2>3, <2>4, ThenIs
  <2>6. g[i] = Read(f[i].value, f[i].rest \o x)
    BY <1>2, <2>1, <2>3
  <2>7. R[i + 1][f[i].rest \o x] = Read(one.value, one.rest \o x)
    <3>1. Extends(R[i + 1])
      BY <2>1
    <3> QED BY <2>4, <2>5, <3>1 DEF Extends, one
  <2>8. g[i + 1] = Read(Append(f[i].value, one.value), one.rest \o x)
    BY <2>2, <2>6, <2>7, Next1Reads
  <2>9. f[i + 1].value = Append(f[i].value, one.value) /\ f[i + 1].rest = one.rest
    <3> DEFINE both == Append(f[i].value, one.value)
               left == one.rest
               now == f[i + 1]
    <3>1. now = Read(both, left)
      BY <2>5
    <3> HIDE DEF both, left, now
    <3>2. now.value = both /\ now.rest = left
      BY <3>1, ReadParts
    <3> QED BY <3>2 DEF both, left, now
  <2> QED BY <2>8, <2>9
<1> HIDE DEF S
<1>3. n \in S
  BY <1>1, <1>2, Induct
<1> QED BY <1>3 DEF S

-----------------------------------------------------------------------------
(* The reader: take, take_lp, the fields of a frame.                        *)

LEMMA CutAt ==
  ASSUME NEW T, NEW a \in Seq(T), NEW b \in Seq(T)
  PROVE  /\ a \o b \in Seq(T) /\ Len(a \o b) = Len(a) + Len(b)
         /\ SubSeq(a \o b, 1, Len(a)) = a
         /\ SubSeq(a \o b, Len(a) + 1, Len(a \o b)) = b
<1> DEFINE s == a \o b
           f == SubSeq(s, 1, Len(a))
           g == SubSeq(s, Len(a) + 1, Len(s))
<1>1. /\ s \in Seq(T) /\ Len(s) = Len(a) + Len(b) /\ Len(a) \in Nat /\ Len(b) \in Nat
      /\ \A i \in 1..Len(a) + Len(b) : s[i] = IF i <= Len(a) THEN a[i] ELSE b[i - Len(a)]
  BY ConcatProperties
<1>2. \A i \in 1..Len(s) : s[i] \in T
  BY <1>1
<1> HIDE DEF s
<1>3. f \in Seq(T) /\ Len(f) = Len(a) /\ \A i \in 1..Len(a) : f[i] = s[i]
  <2>1. \A i \in 1..Len(a) : s[i] \in T
    BY <1>1, <1>2
  <2>2. /\ f \in Seq(T) /\ Len(f) = IF 1 <= Len(a) THEN Len(a) - 1 + 1 ELSE 0
        /\ \A i \in 1..Len(a) - 1 + 1 : f[i] = s[1 + i - 1]
    BY <1>1, <2>1, SubSeqProperties
  <2> HIDE DEF f
  <2> QED BY <1>1, <2>2
<1>4. g \in Seq(T) /\ Len(g) = Len(b) /\ \A i \in 1..Len(b) : g[i] = s[Len(a) + i]
  <2>1. \A i \in Len(a) + 1..Len(s) : s[i] \in T
    BY <1>1, <1>2
  <2>2. /\ g \in Seq(T)
        /\ Len(g) = IF Len(a) + 1 <= Len(s) THEN Len(s) - (Len(a) + 1) + 1 ELSE 0
        /\ \A i \in 1..Len(s) - (Len(a) + 1) + 1 : g[i] = s[Len(a) + 1 + i - 1]
    BY <1>1, <2>1, SubSeqProperties
  <2>3. /\ Len(s) - (Len(a) + 1) + 1 = Len(b)
        /\ IF Len(a) + 1 <= Len(s) THEN TRUE ELSE Len(b) = 0
        /\ \A i \in 1..Len(b) : Len(a) + 1 + i - 1 = Len(a) + i
    BY <1>1
  <2> HIDE DEF g
  <2>4. Len(g) = Len(b)
    BY <2>2, <2>3
  <2>5. \A i \in 1..Len(b) : g[i] = s[Len(a) + i]
    BY <2>2, <2>3
  <2> QED BY <2>2, <2>4, <2>5
<1> HIDE DEF f, g
<1>5. f = a
  <2>1. \A i \in 1..Len(f) : f[i] = a[i]
    BY <1>1, <1>3
  <2> QED BY <1>3, <2>1, SeqEqual
<1>6. g = b
  <2>1. ASSUME NEW i \in 1..Len(g) PROVE g[i] = b[i]
    <3>1. i \in 1..Len(b) /\ Len(a) + i \in 1..Len(a) + Len(b) /\ ~(Len(a) + i <= Len(a))
          /\ (Len(a) + i) - Len(a) = i
      BY <1>1, <1>4
    <3> QED BY <1>1, <1>4, <3>1
  <2> QED BY <1>4, <2>1, SeqEqual
<1> QED BY <1>1, <1>5, <1>6 DEF s, f, g

LEMMA Halves ==
  ASSUME NEW T, NEW s \in Seq(T), NEW n \in 0..Len(s)
  PROVE  /\ SubSeq(s, 1, n) \in Seq(T) /\ Len(SubSeq(s, 1, n)) = n
         /\ SubSeq(s, n + 1, Len(s)) \in Seq(T)
         /\ s = SubSeq(s, 1, n) \o SubSeq(s, n + 1, Len(s))
<1>1. Len(s) \in Nat /\ \A i \in 1..n : s[i] \in T
  OBVIOUS
<1>2. SubSeq(s, 1, n) \in Seq(T) /\ Len(SubSeq(s, 1, n)) = IF 1 <= n THEN n - 1 + 1 ELSE 0
  BY <1>1, SubSeqProperties
<1>3. SubSeq(s, n + 1, Len(s)) \in Seq(T)
  <2>1. \A i \in n + 1..Len(s) : s[i] \in T
    OBVIOUS
  <2> QED BY <1>1, <2>1, SubSeqProperties
<1>4. SubSeq(s, 1, n) \o SubSeq(s, n + 1, Len(s)) = SubSeq(s, 1, Len(s))
  <2>1. 1 \in 1..Len(s) + 1 /\ n \in 1 - 1..Len(s) /\ Len(s) \in n..Len(s)
    BY <1>1
  <2> QED BY <2>1, ConcatAdjacentSubSeq
<1>5. SubSeq(s, 1, Len(s)) = s
  BY SubSeqFull
<1>6. (IF 1 <= n THEN n - 1 + 1 ELSE 0) = n
  BY <1>1
<1> DEFINE front == SubSeq(s, 1, n)
           back == SubSeq(s, n + 1, Len(s))
<1>7. front \in Seq(T) /\ Len(front) = (IF 1 <= n THEN n - 1 + 1 ELSE 0) /\ back \in Seq(T)
      /\ s = front \o back
  BY <1>2, <1>3, <1>4, <1>5
<1> HIDE DEF front, back
<1>8. front \in Seq(T) /\ Len(front) = n /\ back \in Seq(T) /\ s = front \o back
  BY <1>6, <1>7
<1> QED BY <1>8 DEF front, back

LEMMA TakeAccepts ==
  ASSUME NEW p \in Seq(Byte), NEW x \in Seq(Byte) PROVE take(Len(p), p \o x) = Read(p, x)
<1>1. Len(p \o x) = Len(p) + Len(x) /\ Len(p) \in Nat /\ Len(x) \in Nat
      /\ SubSeq(p \o x, 1, Len(p)) = p /\ SubSeq(p \o x, Len(p) + 1, Len(p \o x)) = x
  BY CutAt
<1>2. ~(Len(p) > Len(p \o x))
  BY <1>1
<1> QED BY <1>1, <1>2, Zenon DEF take

LEMMA TakeIs ==
  ASSUME NEW n \in Nat, NEW data \in Seq(Byte)
  PROVE  \/ n > Len(data) /\ take(n, data) = WireError
         \/ \E p, x \in Seq(Byte) : n = Len(p) /\ data = p \o x /\ take(n, data) = Read(p, x)
<1>1. CASE n > Len(data)
  BY <1>1 DEF take
<1>2. CASE ~(n > Len(data))
  <2> DEFINE p == SubSeq(data, 1, n)
             x == SubSeq(data, n + 1, Len(data))
  <2>1. n \in 0..Len(data)
    BY <1>2
  <2>2. p \in Seq(Byte) /\ Len(p) = n /\ x \in Seq(Byte) /\ data = p \o x
    BY <2>1, Halves
  <2>3. take(n, data) = Read(p, x)
    BY <1>2 DEF take
  <2> HIDE DEF p, x
  <2> QED BY <2>2, <2>3
<1> QED BY <1>1, <1>2

LEMMA TakeExtends ==
  ASSUME NEW n \in Nat, NEW data \in Seq(Byte), NEW x \in Seq(Byte), take(n, data).ok
  PROVE  take(n, data \o x) = Read(take(n, data).value, take(n, data).rest \o x)
<1>1. take(n, data) # WireError
  BY ReadIs
<1>2. PICK p, y \in Seq(Byte) : n = Len(p) /\ data = p \o y /\ take(n, data) = Read(p, y)
  BY <1>1, TakeIs
<1>3. take(n, data).value = p /\ take(n, data).rest = y
  BY <1>2, ReadParts
<1>4. data \o x = p \o (y \o x) /\ y \o x \in Seq(Byte)
  BY <1>2, Associates
<1>5. take(Len(p), p \o (y \o x)) = Read(p, y \o x)
  BY <1>4, TakeAccepts
<1> QED BY <1>2, <1>3, <1>4, <1>5

LEMMA TakeTyped ==
  ASSUME NEW n \in Nat, NEW data \in Seq(Byte) PROVE take(n, data) \in Results(Seq(Byte))
BY TakeIs, ResultIs

TakeLp == [d \in Seq(Byte) |-> take_lp(d)]

LEMMA TakeLpIs ==
  /\ take_lp(<<>>) = WireError
  /\ \A byte \in Byte, x \in Seq(Byte) : take_lp(<<byte>> \o x) = take(byte, x)
<1>1. ASSUME NEW byte \in Byte, NEW x \in Seq(Byte) PROVE take_lp(<<byte>> \o x) = take(byte, x)
  <2>1. <<byte>> \o x # <<>> /\ (<<byte>> \o x)[1] = byte
    BY ConsIs
  <2>2. Tail(<<byte>> \o x) = x
    OBVIOUS
  <2> QED BY <2>1, <2>2 DEF take_lp
<1> QED BY <1>1 DEF take_lp

LEMMA TakeLpReads == TakeLp \in Readers(Seq(Byte)) /\ Extends(TakeLp)
<1>1. ASSUME NEW d \in Seq(Byte) PROVE take_lp(d) \in Results(Seq(Byte))
  <2>1. CASE d = <<>>
    BY <2>1, TakeLpIs, ResultIs
  <2>2. CASE d # <<>>
    <3>1. PICK byte \in Byte, s \in Seq(Byte) : d = <<byte>> \o s
      BY <2>2, ConsOf
    <3>2. byte \in Nat
      BY DEF Byte
    <3> QED BY <3>1, <3>2, TakeLpIs, TakeTyped
  <2> QED BY <2>1, <2>2
<1>2. ASSUME NEW d \in Seq(Byte), NEW x \in Seq(Byte), take_lp(d).ok
      PROVE  take_lp(d \o x) = Read(take_lp(d).value, take_lp(d).rest \o x)
  <2>1. d # <<>>
    BY <1>2, TakeLpIs, ReadIs
  <2>2. PICK byte \in Byte, s \in Seq(Byte) : d = <<byte>> \o s
    BY <2>1, ConsOf
  <2>3. byte \in Nat /\ <<byte>> \in Seq(Byte)
    BY DEF Byte
  <2>4. d \o x = <<byte>> \o (s \o x) /\ s \o x \in Seq(Byte)
    BY <2>2, <2>3, Associates
  <2>5. take_lp(d) = take(byte, s) /\ take_lp(d \o x) = take(byte, s \o x)
    BY <2>2, <2>4, TakeLpIs
  <2> QED BY <1>2, <2>3, <2>5, TakeExtends
<1> QED BY <1>1, <1>2 DEF TakeLp, Readers, Extends

LEMMA TakeLpAccepts ==
  ASSUME NEW value \in Seq(Byte), Len(value) <= 255
  PROVE  Accepts(TakeLp, Blob(value), value) /\ Blob(value) \in Seq(Byte)
<1>1. Len(value) \in Byte /\ <<Len(value)>> \in Seq(Byte)
  <2>1. Len(value) \in 0..255
    <3>1. PICK n \in Nat : n = Len(value)
      BY LenProperties
    <3>2. n <= 255
      BY <3>1
    <3>3. n \in 0..255
      BY <3>2
    <3> QED BY <3>1, <3>3
  <2>2. Len(value) \in Byte
    BY <2>1 DEF Byte
  <2> QED BY <2>2
<1>2. ASSUME NEW x \in Seq(Byte) PROVE TakeLp[Blob(value) \o x] = Read(value, x)
  <2>1. Blob(value) \o x = <<Len(value)>> \o (value \o x) /\ value \o x \in Seq(Byte)
    BY <1>1, Associates DEF Blob
  <2>2. <<Len(value)>> \o (value \o x) \in Seq(Byte)
    BY <1>1, <2>1, Associates
  <2>3. take_lp(<<Len(value)>> \o (value \o x)) = take(Len(value), value \o x)
    BY <1>1, <2>1, TakeLpIs
  <2> QED BY <2>1, <2>2, <2>3, TakeAccepts DEF TakeLp
<1>3. Blob(value) \in Seq(Byte)
  BY <1>1, Associates DEF Blob
<1> QED BY <1>2, <1>3 DEF Accepts

(* What a reader that is an operator does, as one that is a function.       *)
LEMMA Next1Is2 ==
  ASSUME NEW V, NEW R \in Readers(V), NEW before \in Results(Seq(V)), NEW one,
         before.ok => one = R[before.rest]
  PROVE  Then(before, one) = Next1(R, before)
<1>1. CASE before.ok
  BY <1>1 DEF Next1
<1>2. CASE ~before.ok
  BY <1>2 DEF Next1, Then
<1> QED BY <1>1, <1>2

TakeLps(n) == [i \in 1..n |-> TakeLp]

LEMMA TakeBlobsIs ==
  ASSUME NEW n \in Nat, NEW data \in Seq(Byte)
  PROVE  \E f : Reads(f, TakeLps(n), n, data) /\ take_blobs(n, data) = f[n]
<1> DEFINE R == TakeLps(n)
           Rec(f) == f = [i \in 0..n |-> IF i = 0 THEN Read(<<>>, data)
                                         ELSE Then(f[i - 1], take_lp(f[i - 1].rest))]
<1>1. R \in [1..n -> Readers(Seq(Byte))] /\ \A i \in 1..n : R[i] = TakeLp
  BY TakeLpReads DEF TakeLps
<1> HIDE DEF R
<1>2. PICK g : g = [i \in 0..n |-> g[i]] /\ Reads(g, R, n, data)
  BY <1>1, LoopExists
<1>3. \A i \in 0..n : g[i] \in Results(Seq(Seq(Byte)))
  BY <1>1, <1>2, LoopTyped
<1>4. ASSUME NEW i \in 1..n PROVE g[i] = Then(g[i - 1], take_lp(g[i - 1].rest))
  <2>1. g[i - 1] \in Results(Seq(Seq(Byte))) /\ R[i] = TakeLp /\ TakeLp \in Readers(Seq(Byte))
    <3>1. i - 1 \in 0..n
      OBVIOUS
    <3> QED BY <1>1, <1>3, <3>1, TakeLpReads
  <2>2. ASSUME g[i - 1].ok PROVE take_lp(g[i - 1].rest) = R[i][g[i - 1].rest]
    <3>1. g[i - 1].rest \in Seq(Byte)
      BY <2>1, <2>2, ResultIs
    <3> QED BY <2>1, <3>1 DEF TakeLp
  <2>3. g[i] = Next1(R[i], g[i - 1])
    BY <1>2 DEF Reads
  <2> QED BY <2>1, <2>2, <2>3, Next1Is2
<1>5. Rec(g)
  <2>1. ASSUME NEW i \in 0..n
        PROVE  g[i] = IF i = 0 THEN Read(<<>>, data) ELSE Then(g[i - 1], take_lp(g[i - 1].rest))
    <3>1. i = 0 \/ i \in 1..n
      OBVIOUS
    <3> QED BY <1>2, <1>4, <3>1 DEF Reads
  <2>2. [i \in 0..n |-> g[i]]
          = [i \in 0..n |-> IF i = 0 THEN Read(<<>>, data)
                            ELSE Then(g[i - 1], take_lp(g[i - 1].rest))]
    BY <2>1, Zenon
  <2> QED BY <1>2, <2>2
<1> HIDE DEF Rec
<1>6. PICK f : f = (CHOOSE fun : Rec(fun))
  OBVIOUS
<1>7. Rec(f) /\ take_blobs(n, data) = f[n]
  BY <1>5, <1>6 DEF take_blobs, Rec
<1>8. f[0] = Read(<<>>, data) /\ \A i \in 1..n : f[i] = Then(f[i - 1], take_lp(f[i - 1].rest))
  <2>1. \A i \in 0..n : f[i] = IF i = 0 THEN Read(<<>>, data)
                               ELSE Then(f[i - 1], take_lp(f[i - 1].rest))
    BY <1>7, Zenon DEF Rec
  <2>2. 0 \in 0..n /\ \A i \in 1..n : i \in 0..n /\ i # 0
    OBVIOUS
  <2> QED BY <2>1, <2>2
<1> DEFINE S == {i \in Nat : i <= n => f[i] = g[i]}
<1>9. 0 \in S
  BY <1>2, <1>8 DEF Reads
<1>10. ASSUME NEW i \in Nat, i \in S PROVE i + 1 \in S
  <2> SUFFICES ASSUME i + 1 <= n PROVE f[i + 1] = g[i + 1]
    OBVIOUS
  <2>1. i + 1 \in 1..n /\ (i + 1) - 1 = i /\ f[i] = g[i]
    BY <1>10
  <2> QED BY <1>4, <1>8, <2>1
<1> HIDE DEF S
<1>11. n \in S
  BY <1>9, <1>10, Induct
<1>12. f[n] = g[n]
  BY <1>11 DEF S
<1> QED BY <1>2, <1>7, <1>12 DEF R

LEMMA TakeBlobsTyped ==
  ASSUME NEW n \in Nat, NEW data \in Seq(Byte) PROVE take_blobs(n, data) \in Results(Seq(Seq(Byte)))
<1>1. PICK f : Reads(f, TakeLps(n), n, data) /\ take_blobs(n, data) = f[n]
  BY TakeBlobsIs
<1>2. TakeLps(n) \in [1..n -> Readers(Seq(Byte))] /\ n \in 0..n
  BY TakeLpReads DEF TakeLps
<1>3. f[n] \in Results(Seq(Seq(Byte)))
  BY <1>1, <1>2, LoopTyped
<1> QED BY <1>1, <1>3

LEMMA TakeBlobsExtends ==
  ASSUME NEW n \in Nat, NEW data \in Seq(Byte), NEW x \in Seq(Byte), take_blobs(n, data).ok
  PROVE  take_blobs(n, data \o x) = Read(take_blobs(n, data).value, take_blobs(n, data).rest \o x)
<1>0. data \o x \in Seq(Byte)
  BY Associates
<1> DEFINE R == TakeLps(n)
<1>1. PICK f : Reads(f, R, n, data) /\ take_blobs(n, data) = f[n]
  BY TakeBlobsIs
<1>2. PICK g : Reads(g, R, n, data \o x) /\ take_blobs(n, data \o x) = g[n]
  BY <1>0, TakeBlobsIs
<1>3. R \in [1..n -> Readers(Seq(Byte))] /\ \A i \in 1..n : Extends(R[i])
  BY TakeLpReads DEF TakeLps
<1>4. f[n].ok
  BY <1>1
<1> HIDE DEF R
<1>6. Loops(Seq(Byte), f, R, n, data) /\ Loops(Seq(Byte), g, R, n, data \o x)
  BY <1>0, <1>1, <1>2, <1>3 DEF Loops
<1>5. g[n] = Read(f[n].value, f[n].rest \o x)
  BY <1>3, <1>4, <1>6, LoopExtends
<1> QED BY <1>1, <1>2, <1>5

LEMMA DataIs ==
  ASSUME NEW v \in Data PROVE v \in Seq(Byte) /\ Len(v) <= 255 /\ v # <<>>
<1>1. PICK n \in 1..255 : n = Len(v)
  BY DEF Data
<1>2. n <= 255 /\ n # 0
  OBVIOUS
<1>3. Len(v) <= 255 /\ Len(v) # 0
  BY <1>1, <1>2
<1> QED BY <1>3, EmptySeq DEF Data

LEMMA TakeBlobsAccepts ==
  ASSUME NEW list \in Seq(Data), NEW x \in Seq(Byte)
  PROVE  /\ [i \in 1..Len(list) |-> Blob(list[i])] \in Seq(Seq(Byte))
         /\ take_blobs(Len(list), Concat([i \in 1..Len(list) |-> Blob(list[i])]) \o x) = Read(list, x)
<1> DEFINE n == Len(list)
           parts == [i \in 1..n |-> Blob(list[i])]
           data == Concat(parts) \o x
<1>0. n \in Nat
  OBVIOUS
<1>1. ASSUME NEW i \in 1..n PROVE list[i] \in Seq(Byte) /\ Len(list[i]) <= 255
  <2>1. list[i] \in Data
    OBVIOUS
  <2> QED BY <2>1, DataIs
<1>2. ASSUME NEW i \in 1..n PROVE Accepts(TakeLp, Blob(list[i]), list[i]) /\ Blob(list[i]) \in Seq(Byte)
  BY <1>1, TakeLpAccepts
<1>3. list \in Seq(Seq(Byte)) /\ Len(list) = n
  <2>1. Data \subseteq Seq(Byte)
    BY DEF Data
  <2>2. list \in Seq(Seq(Byte))
    BY <2>1, SeqMonotonic
  <2> QED BY <2>2
<1> HIDE DEF n
<1>4. parts \in Seq(Seq(Byte)) /\ Len(parts) = n /\ \A i \in 1..n : parts[i] = Blob(list[i])
  BY <1>0, <1>2
<1> HIDE DEF parts
<1>5. data \in Seq(Byte)
  BY <1>4, ConcatType, Associates
<1> HIDE DEF data
<1> DEFINE R == TakeLps(n)
<1>6. PICK f : Reads(f, R, n, data) /\ take_blobs(n, data) = f[n]
  BY <1>0, <1>5, TakeBlobsIs
<1>7. R \in [1..n -> Readers(Seq(Byte))]
  BY TakeLpReads DEF TakeLps
<1>8. \A i \in 1..n : Accepts(R[i], parts[i], list[i])
  BY <1>2, <1>4 DEF TakeLps
<1> HIDE DEF R
<1>11. Loops(Seq(Byte), f, R, n, Concat(parts) \o x)
  BY <1>0, <1>5, <1>6, <1>7 DEF Loops, data
<1>12. AcceptsAll(Seq(Byte), R, n, parts, list)
  BY <1>3, <1>4, <1>8 DEF AcceptsAll
<1>10. f[n] = Read(list, x)
  BY <1>11, <1>12, LoopAccepts
<1> QED BY <1>4, <1>6, <1>10 DEF data, parts, n

Word16 == {n \in Nat : n < 65536}

LEMMA BelowIs ==
  ASSUME NEW m \in Nat, m < 65536 PROVE m \in Word16
BY DEF Word16

LEMMA ShortIs ==
  ASSUME NEW n \in Word16
  PROVE  Short(n) \in Seq(Byte) /\ Len(Short(n)) = 2 /\ FromShort(Short(n)) = n
<1>1. n \div 256 \in Byte /\ n % 256 \in Byte /\ 256 * (n \div 256) + (n % 256) = n
  BY DEF Byte, Word16
<1> DEFINE a == n \div 256
           b == n % 256
<1>2. a \in Byte /\ b \in Byte /\ 256 * a + b = n
  BY <1>1
<1> HIDE DEF a, b
<1>3. <<a, b>> \in Seq(Byte) /\ Len(<<a, b>>) = 2 /\ <<a, b>>[1] = a /\ <<a, b>>[2] = b
  BY <1>2
<1>4. Short(n) = <<a, b>>
  BY DEF Short, a, b
<1> QED BY <1>2, <1>3, <1>4 DEF FromShort

LEMMA FromShortIs ==
  ASSUME NEW p \in Seq(Byte), Len(p) = 2 PROVE FromShort(p) \in Nat
<1>1. 1 \in 1..Len(p) /\ 2 \in 1..Len(p)
  OBVIOUS
<1>2. p[1] \in Byte /\ p[2] \in Byte
  BY <1>1, ElementOfSeq
<1>3. ASSUME NEW a \in Byte, NEW b \in Byte PROVE 256 * a + b \in Nat
  <2>1. a \in Nat /\ b \in Nat
    BY DEF Byte
  <2> QED BY <2>1
<1> QED BY <1>2, <1>3 DEF FromShort

Kinds == {"byte", "word", "note", "blob", "blobs"}
Values == Byte \cup Seq(Byte) \cup Seq(Seq(Byte))
TakeF(kind) == [d \in Seq(Byte) |-> TakeField(kind, d)]

LEMMA TakeFieldIs ==
  /\ \A d : TakeField("byte", d) = IF d = <<>> THEN WireError ELSE Read(d[1], Tail(d))
  /\ \A d : TakeField("blobs", d) = IF take(2, d).ok
                                    THEN take_blobs(FromShort(take(2, d).value), take(2, d).rest)
                                    ELSE WireError
  /\ \A d : \A kind \in {"word", "note", "blob"} : TakeField(kind, d) = take_lp(d)
BY DEF TakeField

LEMMA ByteRead ==
  /\ TakeField("byte", <<>>) = WireError
  /\ \A b \in Byte, s \in Seq(Byte) : TakeField("byte", <<b>> \o s) = Read(b, s)
<1>1. ASSUME NEW b \in Byte, NEW s \in Seq(Byte) PROVE TakeField("byte", <<b>> \o s) = Read(b, s)
  <2>1. <<b>> \o s # <<>> /\ (<<b>> \o s)[1] = b
    BY ConsIs
  <2>2. Tail(<<b>> \o s) = s
    OBVIOUS
  <2> QED BY <2>1, <2>2, TakeFieldIs
<1> QED BY <1>1, TakeFieldIs

LEMMA BlobsRead ==
  ASSUME NEW d \in Seq(Byte)
  PROVE  \/ TakeField("blobs", d) = WireError
         \/ \E p, y \in Seq(Byte) :
              /\ Len(p) = 2 /\ d = p \o y
              /\ TakeField("blobs", d) = take_blobs(FromShort(p), y)
<1>1. CASE take(2, d).ok
  <2>1. take(2, d) # WireError
    BY <1>1, ReadIs
  <2>2. PICK p, y \in Seq(Byte) : 2 = Len(p) /\ d = p \o y /\ take(2, d) = Read(p, y)
    BY <2>1, TakeIs
  <2>3. take(2, d).value = p /\ take(2, d).rest = y
    BY <2>2, ReadParts
  <2>4. TakeField("blobs", d) = take_blobs(FromShort(p), y)
    BY <1>1, <2>3, TakeFieldIs
  <2> QED BY <2>2, <2>4
<1>2. CASE ~take(2, d).ok
  BY <1>2, TakeFieldIs
<1> QED BY <1>1, <1>2

LEMMA BlobsReadOf ==
  ASSUME NEW p \in Seq(Byte), Len(p) = 2, NEW y \in Seq(Byte)
  PROVE  TakeField("blobs", p \o y) = take_blobs(FromShort(p), y)
<1>1. take(2, p \o y) = Read(p, y)
  BY TakeAccepts
<1>2. take(2, p \o y).ok /\ take(2, p \o y).value = p /\ take(2, p \o y).rest = y
  BY <1>1, ReadParts
<1> QED BY <1>2, TakeFieldIs

LEMMA ResultsGrow ==
  ASSUME NEW V, NEW W, V \subseteq W PROVE Results(V) \subseteq Results(W)
BY DEF Results

LEMMA FieldTyped ==
  ASSUME NEW kind \in Kinds, NEW d \in Seq(Byte) PROVE TakeField(kind, d) \in Results(Values)
<1>1. CASE kind = "byte"
  <2>1. CASE d = <<>>
    BY <1>1, <2>1, ByteRead, ResultIs
  <2>2. CASE d # <<>>
    <3>1. PICK b \in Byte, s \in Seq(Byte) : d = <<b>> \o s
      BY <2>2, ConsOf
    <3>2. TakeField("byte", d) = Read(b, s) /\ b \in Values
      BY <3>1, ByteRead DEF Values
    <3> QED BY <1>1, <3>2, ResultIs
  <2> QED BY <2>1, <2>2
<1>2. CASE kind = "blobs"
  <2>1. CASE TakeField("blobs", d) = WireError
    BY <1>2, <2>1, ResultIs
  <2>2. CASE TakeField("blobs", d) # WireError
    <3>1. PICK p, y \in Seq(Byte) : /\ Len(p) = 2 /\ d = p \o y
                                    /\ TakeField("blobs", d) = take_blobs(FromShort(p), y)
      BY <2>2, BlobsRead
    <3>2. FromShort(p) \in Nat
      BY <3>1, FromShortIs
    <3>3. take_blobs(FromShort(p), y) \in Results(Seq(Seq(Byte)))
      BY <3>2, TakeBlobsTyped
    <3>4. Results(Seq(Seq(Byte))) \subseteq Results(Values)
      <4>1. Seq(Seq(Byte)) \subseteq Values
        BY DEF Values
      <4> QED BY <4>1, ResultsGrow
    <3> QED BY <1>2, <3>1, <3>3, <3>4
  <2> QED BY <2>1, <2>2
<1>3. CASE kind \in {"word", "note", "blob"}
  <2>1. TakeField(kind, d) = TakeLp[d]
    BY <1>3, TakeFieldIs DEF TakeLp
  <2>2. TakeLp[d] \in Results(Seq(Byte))
    BY TakeLpReads DEF Readers
  <2>3. Results(Seq(Byte)) \subseteq Results(Values)
    <3>1. Seq(Byte) \subseteq Values
      BY DEF Values
    <3> QED BY <3>1, ResultsGrow
  <2> QED BY <2>1, <2>2, <2>3
<1> QED BY <1>1, <1>2, <1>3 DEF Kinds

LEMMA FieldExtends ==
  ASSUME NEW kind \in Kinds, NEW d \in Seq(Byte), NEW x \in Seq(Byte), TakeField(kind, d).ok
  PROVE  TakeField(kind, d \o x) = Read(TakeField(kind, d).value, TakeField(kind, d).rest \o x)
<1>0. TakeField(kind, d) # WireError
  BY ReadIs
<1>1. CASE kind = "byte"
  <2>1. d # <<>>
    BY <1>0, <1>1, ByteRead
  <2>2. PICK b \in Byte, s \in Seq(Byte) : d = <<b>> \o s
    BY <2>1, ConsOf
  <2>3. d \o x = <<b>> \o (s \o x) /\ s \o x \in Seq(Byte)
    <3>1. <<b>> \in Seq(Byte)
      OBVIOUS
    <3> QED BY <2>2, <3>1, Associates
  <2>4. TakeField("byte", d) = Read(b, s) /\ TakeField("byte", d \o x) = Read(b, s \o x)
    BY <2>2, <2>3, ByteRead
  <2>5. TakeField("byte", d).value = b /\ TakeField("byte", d).rest = s
    BY <2>4, ReadParts
  <2> QED BY <1>1, <2>4, <2>5
<1>2. CASE kind = "blobs"
  <2>1. PICK p, y \in Seq(Byte) : /\ Len(p) = 2 /\ d = p \o y
                                  /\ TakeField("blobs", d) = take_blobs(FromShort(p), y)
    BY <1>0, <1>2, BlobsRead
  <2>2. d \o x = p \o (y \o x) /\ y \o x \in Seq(Byte)
    BY <2>1, Associates
  <2>3. TakeField("blobs", d \o x) = take_blobs(FromShort(p), y \o x)
    BY <2>1, <2>2, BlobsReadOf
  <2>4. FromShort(p) \in Nat
    BY <2>1, FromShortIs
  <2>5. take_blobs(FromShort(p), y).ok
    BY <1>2, <2>1
  <2>6. take_blobs(FromShort(p), y \o x)
          = Read(take_blobs(FromShort(p), y).value, take_blobs(FromShort(p), y).rest \o x)
    BY <2>4, <2>5, TakeBlobsExtends
  <2> QED BY <1>2, <2>1, <2>3, <2>6
<1>3. CASE kind \in {"word", "note", "blob"}
  <2>1. d \o x \in Seq(Byte)
    BY Associates
  <2>2. TakeField(kind, d) = TakeLp[d] /\ TakeField(kind, d \o x) = TakeLp[d \o x]
    BY <1>3, <2>1, TakeFieldIs DEF TakeLp
  <2>3. TakeLp[d].ok
    BY <2>2
  <2>4. TakeLp[d \o x] = Read(TakeLp[d].value, TakeLp[d].rest \o x)
    BY <2>3, TakeLpReads DEF Extends
  <2> QED BY <2>2, <2>4
<1> QED BY <1>1, <1>2, <1>3 DEF Kinds

LEMMA TextIs ==
  ASSUME NEW v \in Text PROVE v \in Seq(Byte) /\ v \in Seq(Ascii) /\ Len(v) <= 255
<1>1. Ascii \subseteq Byte
  BY DEF Ascii, Byte
<1>2. v \in Seq(Ascii) /\ Len(v) <= 255
  BY DEF Text
<1> QED BY <1>1, <1>2, SeqMonotonic

LEMMA BlobsAreBytes ==
  ASSUME NEW list \in Seq(Data) PROVE [i \in 1..Len(list) |-> Blob(list[i])] \in Seq(Seq(Byte))
<1>1. <<>> \in Seq(Byte)
  OBVIOUS
<1> QED BY <1>1, TakeBlobsAccepts

LEMMA FieldAccepts ==
  ASSUME NEW kind \in Kinds, NEW v \in Field(kind)
  PROVE  /\ Put(kind, v) \in Seq(Byte) /\ v \in Values
         /\ \A x \in Seq(Byte) : TakeField(kind, Put(kind, v) \o x) = Read(v, x)
<1>1. CASE kind = "byte"
  <2>1. v \in Byte /\ Put(kind, v) = <<v>> /\ <<v>> \in Seq(Byte)
    <3>1. v \in Byte
      BY <1>1 DEF Field
    <3>2. Put(kind, v) = <<v>>
      BY <1>1 DEF Put
    <3> QED BY <3>1, <3>2
  <2>2. v \in Values
    BY <2>1 DEF Values
  <2> QED BY <1>1, <2>1, <2>2, ByteRead
<1>2. CASE kind \in {"word", "note", "blob"}
  <2>1. v \in Seq(Byte) /\ Len(v) <= 255
    <3>1. v \in Text \/ v \in Data
      BY <1>2 DEF Field
    <3> QED BY <3>1, TextIs, DataIs
  <2>2. Put(kind, v) = Blob(v)
    BY <1>2 DEF Put
  <2>3. Accepts(TakeLp, Blob(v), v) /\ Blob(v) \in Seq(Byte)
    BY <2>1, TakeLpAccepts
  <2>4. ASSUME NEW x \in Seq(Byte) PROVE TakeField(kind, Blob(v) \o x) = Read(v, x)
    <3>1. Blob(v) \o x \in Seq(Byte)
      BY <2>3, Associates
    <3>2. TakeLp[Blob(v) \o x] = take_lp(Blob(v) \o x)
      BY <3>1 DEF TakeLp
    <3>3. TakeField(kind, Blob(v) \o x) = take_lp(Blob(v) \o x)
      BY <1>2, TakeFieldIs
    <3> QED BY <2>3, <3>2, <3>3 DEF Accepts
  <2>5. v \in Values
    BY <2>1 DEF Values
  <2> QED BY <2>2, <2>3, <2>4, <2>5
<1>3. CASE kind = "blobs"
  <2> DEFINE blobs == Concat([i \in 1..Len(v) |-> Blob(v[i])])
             n == Len(v)
  <2>1. v \in Seq(Data) /\ n < 65536
    BY <1>3 DEF Field
  <2>2. n \in Word16
    <3>1. PICK m \in Nat : m = Len(v)
      BY <2>1
    <3>2. m < 65536
      BY <2>1, <3>1
    <3>3. m \in Word16
      BY <3>2, BelowIs
    <3> QED BY <3>1, <3>3
  <2>3. Short(n) \in Seq(Byte) /\ Len(Short(n)) = 2 /\ FromShort(Short(n)) = n
    <3> HIDE DEF n
    <3> QED BY <2>2, ShortIs
  <2>4. blobs \in Seq(Byte)
    <3>2. [i \in 1..Len(v) |-> Blob(v[i])] \in Seq(Seq(Byte))
      BY <2>1, BlobsAreBytes
    <3> QED BY <3>2, ConcatType
  <2>5. Put(kind, v) = Short(n) \o blobs
    BY <1>3 DEF Put
  <2>6. ASSUME NEW x \in Seq(Byte) PROVE TakeField("blobs", Put(kind, v) \o x) = Read(v, x)
    <3>1. take_blobs(n, blobs \o x) = Read(v, x)
      BY <2>1, TakeBlobsAccepts
    <3> HIDE DEF n, blobs
    <3>2. Put(kind, v) \o x = Short(n) \o (blobs \o x) /\ blobs \o x \in Seq(Byte)
      BY <2>3, <2>4, <2>5, Associates
    <3>3. TakeField("blobs", Short(n) \o (blobs \o x)) = take_blobs(FromShort(Short(n)), blobs \o x)
      BY <2>3, <3>2, BlobsReadOf
    <3> QED BY <2>3, <3>1, <3>2, <3>3
  <2>7. v \in Values
    <3>1. Data \subseteq Seq(Byte)
      BY DEF Data
    <3>2. v \in Seq(Seq(Byte))
      BY <2>1, <3>1, SeqMonotonic
    <3> QED BY <3>2 DEF Values
  <2> HIDE DEF n, blobs
  <2>8. Put(kind, v) \in Seq(Byte)
    BY <2>3, <2>4, <2>5, Associates
  <2> QED BY <1>3, <2>6, <2>7, <2>8
<1> QED BY <1>1, <1>2, <1>3 DEF Kinds

FieldReaders(kinds) == [i \in 1..Len(kinds) |-> TakeF(kinds[i])]

LEMMA FieldReadersAre ==
  ASSUME NEW kinds \in Seq(Kinds)
  PROVE  /\ FieldReaders(kinds) \in [1..Len(kinds) -> Readers(Values)]
         /\ \A i \in 1..Len(kinds) : /\ FieldReaders(kinds)[i] = TakeF(kinds[i])
                                     /\ Extends(FieldReaders(kinds)[i])
<1>1. ASSUME NEW kind \in Kinds PROVE TakeF(kind) \in Readers(Values) /\ Extends(TakeF(kind))
  <2>1. TakeF(kind) \in Readers(Values)
    BY FieldTyped DEF TakeF, Readers
  <2>2. ASSUME NEW d \in Seq(Byte), NEW x \in Seq(Byte), TakeF(kind)[d].ok
        PROVE  TakeF(kind)[d \o x] = Read(TakeF(kind)[d].value, TakeF(kind)[d].rest \o x)
    <3>1. d \o x \in Seq(Byte)
      BY Associates
    <3>2. TakeF(kind)[d] = TakeField(kind, d) /\ TakeF(kind)[d \o x] = TakeField(kind, d \o x)
      BY <3>1 DEF TakeF
    <3>3. TakeField(kind, d).ok
      BY <2>2, <3>2
    <3>4. TakeField(kind, d \o x) = Read(TakeField(kind, d).value, TakeField(kind, d).rest \o x)
      BY <3>3, FieldExtends
    <3> QED BY <3>2, <3>4
  <2> QED BY <2>1, <2>2 DEF Extends
<1>2. \A i \in 1..Len(kinds) : kinds[i] \in Kinds
  OBVIOUS
<1> QED BY <1>1, <1>2 DEF FieldReaders

LEMMA TakeFieldsIs ==
  ASSUME NEW kinds \in Seq(Kinds), NEW data \in Seq(Byte)
  PROVE  \E f : /\ Loops(Values, f, FieldReaders(kinds), Len(kinds), data)
                /\ TakeFields(kinds, data) = f[Len(kinds)]
<1> DEFINE R == FieldReaders(kinds)
           n == Len(kinds)
           Rec(f) == f = [i \in 0..n |-> IF i = 0 THEN Read(<<>>, data)
                                         ELSE Then(f[i - 1], TakeField(kinds[i], f[i - 1].rest))]
<1>1. /\ n \in Nat /\ R \in [1..n -> Readers(Values)] /\ \A i \in 1..n : kinds[i] \in Kinds
      /\ \A i \in 1..n : R[i] = TakeF(kinds[i]) /\ R[i] \in Readers(Values)
  BY FieldReadersAre
<1> HIDE DEF R, n, Rec
<1>2. PICK g : g = [i \in 0..n |-> g[i]] /\ Reads(g, R, n, data)
  BY <1>1, LoopExists
<1>3. \A i \in 0..n : g[i] \in Results(Seq(Values))
  BY <1>1, <1>2, LoopTyped
<1>4. ASSUME NEW i \in 1..n PROVE g[i] = Then(g[i - 1], TakeField(kinds[i], g[i - 1].rest))
  <2> DEFINE one == TakeField(kinds[i], g[i - 1].rest)
  <2>1. g[i - 1] \in Results(Seq(Values)) /\ R[i] = TakeF(kinds[i]) /\ R[i] \in Readers(Values)
    <3>1. i - 1 \in 0..n
      BY <1>1
    <3> QED BY <1>1, <1>3, <3>1
  <2>2. ASSUME g[i - 1].ok PROVE one = R[i][g[i - 1].rest]
    <3>1. g[i - 1].rest \in Seq(Byte)
      BY <2>1, <2>2, ResultIs
    <3> QED BY <2>1, <3>1 DEF TakeF
  <2>3. g[i] = Next1(R[i], g[i - 1])
    BY <1>2 DEF Reads
  <2> HIDE DEF one
  <2>4. Then(g[i - 1], one) = Next1(R[i], g[i - 1])
    BY <2>1, <2>2, Next1Is2
  <2> QED BY <2>3, <2>4 DEF one
<1>5. Rec(g)
  <2>1. ASSUME NEW i \in 0..n
        PROVE  g[i] = IF i = 0 THEN Read(<<>>, data)
                      ELSE Then(g[i - 1], TakeField(kinds[i], g[i - 1].rest))
    <3>1. i = 0 \/ i \in 1..n
      BY <1>1
    <3> QED BY <1>2, <1>4, <3>1 DEF Reads
  <2>2. [i \in 0..n |-> g[i]]
          = [i \in 0..n |-> IF i = 0 THEN Read(<<>>, data)
                            ELSE Then(g[i - 1], TakeField(kinds[i], g[i - 1].rest))]
    BY <2>1, Zenon
  <2> QED BY <1>2, <2>2 DEF Rec
<1>6. PICK f : f = (CHOOSE fun : Rec(fun))
  OBVIOUS
<1>7. Rec(f) /\ TakeFields(kinds, data) = f[n]
  BY <1>5, <1>6 DEF TakeFields, Rec, n
<1>8. f[0] = Read(<<>>, data)
      /\ \A i \in 1..n : f[i] = Then(f[i - 1], TakeField(kinds[i], f[i - 1].rest))
  <2>1. \A i \in 0..n : f[i] = IF i = 0 THEN Read(<<>>, data)
                               ELSE Then(f[i - 1], TakeField(kinds[i], f[i - 1].rest))
    BY <1>7, Zenon DEF Rec
  <2>2. 0 \in 0..n /\ \A i \in 1..n : i \in 0..n /\ i # 0
    BY <1>1
  <2> QED BY <2>1, <2>2
<1> DEFINE S == {i \in Nat : i <= n => f[i] = g[i]}
<1>9. 0 \in S
  BY <1>2, <1>8 DEF Reads
<1>10. ASSUME NEW i \in Nat, i \in S PROVE i + 1 \in S
  <2> SUFFICES ASSUME i + 1 <= n PROVE f[i + 1] = g[i + 1]
    OBVIOUS
  <2>1. i + 1 \in 1..n /\ (i + 1) - 1 = i /\ f[i] = g[i]
    BY <1>1, <1>10
  <2> QED BY <1>4, <1>8, <2>1
<1> HIDE DEF S
<1>11. n \in S
  BY <1>1, <1>9, <1>10, Induct
<1>12. f[n] = g[n]
  BY <1>1, <1>11 DEF S
<1>13. Loops(Values, g, R, n, data)
  BY <1>1, <1>2 DEF Loops
<1> QED BY <1>7, <1>12, <1>13 DEF R, n

(* The fields of a type, written and read back; and a longer text.           *)
LEMMA TakeFieldsAccepts ==
  ASSUME NEW kinds \in Seq(Kinds), NEW vals, vals = [i \in 1..Len(kinds) |-> vals[i]],
         \A i \in 1..Len(kinds) : vals[i] \in Field(kinds[i]), NEW x \in Seq(Byte)
  PROVE  LET parts == [i \in 1..Len(kinds) |-> Put(kinds[i], vals[i])]
         IN  parts \in Seq(Seq(Byte)) /\ TakeFields(kinds, Concat(parts) \o x) = Read(vals, x)
<1> DEFINE n == Len(kinds)
           R == FieldReaders(kinds)
           parts == [i \in 1..n |-> Put(kinds[i], vals[i])]
<1>1. n \in Nat /\ \A i \in 1..n : kinds[i] \in Kinds
  OBVIOUS
<1>2. \A i \in 1..n : R[i] = TakeF(kinds[i])
  BY FieldReadersAre
<1>3. ASSUME NEW i \in 1..n
      PROVE  /\ Put(kinds[i], vals[i]) \in Seq(Byte) /\ vals[i] \in Values
             /\ Accepts(R[i], Put(kinds[i], vals[i]), vals[i])
  <2>1. kinds[i] \in Kinds /\ vals[i] \in Field(kinds[i])
    BY <1>1
  <2>2. /\ Put(kinds[i], vals[i]) \in Seq(Byte) /\ vals[i] \in Values
        /\ \A y \in Seq(Byte) : TakeField(kinds[i], Put(kinds[i], vals[i]) \o y) = Read(vals[i], y)
    BY <2>1, FieldAccepts
  <2>3. ASSUME NEW y \in Seq(Byte) PROVE R[i][Put(kinds[i], vals[i]) \o y] = Read(vals[i], y)
    <3>1. Put(kinds[i], vals[i]) \o y \in Seq(Byte)
      BY <2>2, Associates
    <3>2. R[i] = TakeF(kinds[i])
      BY <1>2
    <3> HIDE DEF R
    <3> QED BY <2>2, <3>1, <3>2 DEF TakeF
  <2> QED BY <2>2, <2>3 DEF Accepts
<1>4. vals = [i \in 1..n |-> vals[i]]
  OBVIOUS
<1> HIDE DEF R
<1>5. parts \in Seq(Seq(Byte)) /\ Len(parts) = n /\ vals \in Seq(Values) /\ Len(vals) = n
      /\ \A i \in 1..n : parts[i] = Put(kinds[i], vals[i])
  <2> HIDE DEF n
  <2>1. \A i \in 1..n : parts[i] = Put(kinds[i], vals[i])
    OBVIOUS
  <2>2. parts = [i \in 1..n |-> parts[i]]
    OBVIOUS
  <2> HIDE DEF parts
  <2>3. parts \in Seq(Seq(Byte)) /\ Len(parts) = n
    <3>1. \A i \in 1..n : parts[i] \in Seq(Byte)
      BY <1>3, <2>1
    <3> QED BY <1>1, <2>2, <3>1, SeqIs
  <2>4. vals \in Seq(Values) /\ Len(vals) = n
    BY <1>1, <1>3, <1>4, SeqIs
  <2> QED BY <2>1, <2>3, <2>4
<1> HIDE DEF parts
<1>6. AcceptsAll(Values, R, n, parts, vals)
  BY <1>3, <1>5 DEF AcceptsAll
<1>7. Concat(parts) \o x \in Seq(Byte)
  BY <1>5, ConcatType, Associates
<1>8. PICK f : /\ Loops(Values, f, R, n, Concat(parts) \o x)
               /\ TakeFields(kinds, Concat(parts) \o x) = f[n]
  BY <1>7, TakeFieldsIs DEF R
<1> HIDE DEF n
<1>9. f[n] = Read(vals, x)
  BY <1>6, <1>8, LoopAccepts
<1> QED BY <1>5, <1>8, <1>9 DEF parts, n

LEMMA TakeFieldsExtends ==
  ASSUME NEW kinds \in Seq(Kinds), NEW data \in Seq(Byte), NEW x \in Seq(Byte),
         TakeFields(kinds, data).ok
  PROVE  TakeFields(kinds, data \o x)
           = Read(TakeFields(kinds, data).value, TakeFields(kinds, data).rest \o x)
<1> DEFINE n == Len(kinds)
           R == FieldReaders(kinds)
<1>0. data \o x \in Seq(Byte)
  BY Associates
<1>1. PICK f : Loops(Values, f, R, n, data) /\ TakeFields(kinds, data) = f[n]
  BY TakeFieldsIs
<1>2. PICK g : Loops(Values, g, R, n, data \o x) /\ TakeFields(kinds, data \o x) = g[n]
  BY <1>0, TakeFieldsIs
<1>3. \A i \in 1..n : Extends(R[i])
  BY FieldReadersAre
<1>4. f[n].ok
  BY <1>1
<1> HIDE DEF n, R
<1>5. g[n] = Read(f[n].value, f[n].rest \o x)
  BY <1>1, <1>2, <1>3, <1>4, LoopExtends
<1> QED BY <1>1, <1>2, <1>5

(* Of three parts in a row, the one in the middle.                          *)
LEMMA Middle ==
  ASSUME NEW T, NEW a \in Seq(T), NEW b \in Seq(T), NEW c \in Seq(T)
  PROVE  SubSeq((a \o b) \o c, Len(a) + 1, Len(a) + Len(b)) = b
<1>0. ASSUME NEW u \in Seq(T), NEW v \in Seq(T)
      PROVE  u \o v \in Seq(T) /\ Len(u \o v) = Len(u) + Len(v)
  BY ConcatProperties
<1> DEFINE ab == a \o b
           s == ab \o c
           f == SubSeq(s, Len(a) + 1, Len(a) + Len(b))
<1>1. ab \in Seq(T) /\ Len(ab) = Len(a) + Len(b) /\ Len(a) \in Nat /\ Len(b) \in Nat
      /\ SubSeq(ab, Len(a) + 1, Len(ab)) = b
  BY CutAt
<1>2. \A i \in 1..Len(b) : ab[Len(a) + i] = b[i]
  BY ConcatProperties
<1> HIDE DEF ab
<1>3. s \in Seq(T) /\ Len(s) = Len(ab) + Len(c) /\ Len(c) \in Nat
      /\ \A i \in 1..Len(ab) : s[i] = ab[i]
  <2>1. s \in Seq(T) /\ Len(s) = Len(ab) + Len(c)
    BY <1>0, <1>1
  <2>2. \A i \in 1..Len(ab) : s[i] = ab[i]
    BY <1>1
  <2> QED BY <2>1, <2>2
<1> HIDE DEF s
<1>4. \A i \in Len(a) + 1..Len(a) + Len(b) : s[i] \in T
  <2>1. \A i \in Len(a) + 1..Len(a) + Len(b) : i \in 1..Len(s)
    BY <1>1, <1>3
  <2> QED BY <1>3, <2>1, ElementOfSeq
<1>5. /\ f \in Seq(T)
      /\ Len(f) = IF Len(a) + 1 <= Len(a) + Len(b) THEN Len(a) + Len(b) - (Len(a) + 1) + 1 ELSE 0
      /\ \A i \in 1..Len(a) + Len(b) - (Len(a) + 1) + 1 : f[i] = s[Len(a) + 1 + i - 1]
  BY <1>1, <1>4, SubSeqProperties
<1> HIDE DEF f
<1>6. Len(f) = Len(b)
  BY <1>1, <1>5
<1>7. ASSUME NEW i \in 1..Len(b) PROVE f[i] = b[i]
  <2>1. Len(a) + 1 + i - 1 = Len(a) + i /\ i \in 1..Len(a) + Len(b) - (Len(a) + 1) + 1
        /\ Len(a) + i \in 1..Len(ab)
    BY <1>1
  <2> QED BY <1>2, <1>3, <1>5, <2>1
<1> QED BY <1>5, <1>6, <1>7, SeqEqual DEF f, s, ab

LEMMA Cancels ==
  ASSUME NEW T
  PROVE  \A a, b, c, d \in Seq(T) : a \o b = c \o d /\ Len(a) = Len(c) => a = c /\ b = d
<1>1. ASSUME NEW a \in Seq(T), NEW b \in Seq(T)
      PROVE  SubSeq(a \o b, 1, Len(a)) = a /\ SubSeq(a \o b, Len(a) + 1, Len(a \o b)) = b
  BY CutAt
<1> SUFFICES ASSUME NEW a \in Seq(T), NEW b \in Seq(T), NEW c \in Seq(T), NEW d \in Seq(T)
             PROVE  a \o b = c \o d /\ Len(a) = Len(c) => a = c /\ b = d
  BY Zenon
<1> DEFINE u == a \o b
           v == c \o d
<1>2. /\ SubSeq(u, 1, Len(a)) = a /\ SubSeq(u, Len(a) + 1, Len(u)) = b
      /\ SubSeq(v, 1, Len(c)) = c /\ SubSeq(v, Len(c) + 1, Len(v)) = d
  BY <1>1
<1> HIDE DEF u, v
<1>3. u = v /\ Len(a) = Len(c) => a = c /\ b = d
  BY <1>2, Zenon
<1> QED BY <1>3 DEF u, v

(* A text that lost its end.                                                *)
LEMMA CutIs ==
  ASSUME NEW T, NEW w \in Seq(T), NEW n \in 0..Len(w) - 1
  PROVE  /\ SubSeq(w, 1, n) \in Seq(T)
         /\ \E x \in Seq(T) : x # <<>> /\ w = SubSeq(w, 1, n) \o x
<1> DEFINE p == SubSeq(w, 1, n)
           x == SubSeq(w, n + 1, Len(w))
<1>1. n \in 0..Len(w) /\ Len(w) \in Nat
  OBVIOUS
<1>2. p \in Seq(T) /\ Len(p) = n /\ x \in Seq(T) /\ w = p \o x
  BY <1>1, Halves
<1> HIDE DEF p, x
<1>3. x # <<>>
  <2>1. Len(w) = n + Len(x)
    BY <1>2, ConcatProperties
  <2> QED BY <1>1, <2>1
<1> QED BY <1>2, <1>3 DEF p

-----------------------------------------------------------------------------
(* Frames                                                                   *)

LEMMA LayoutIs == ASSUME NEW t PROVE Layout(t) \in Seq(Kinds)
<1>1. /\ <<"word", "word", "note">> \in Seq(Kinds) /\ <<"note">> \in Seq(Kinds)
      /\ <<"blob", "blob">> \in Seq(Kinds) /\ <<"byte", "byte", "blob", "blobs">> \in Seq(Kinds)
      /\ <<"byte", "blob">> \in Seq(Kinds)
  BY DEF Kinds
<1>2. <<>> \in Seq(Kinds)
  OBVIOUS
<1> QED BY <1>1, <1>2 DEF Layout

LEMMA FirstIs ==
  ASSUME NEW m \in Message
  PROVE  LET b0 == VERSION * 16 + ValueOf(m.t)
         IN  b0 \in Byte /\ b0 > 16 /\ b0 \div 16 = VERSION /\ b0 % 16 \in DOMAIN MsgType /\ MsgType[b0 % 16] = m.t
<1>1. \E value \in 1..Len(MsgType) : MsgType[value] = m.t
  <2>1. IsMessage(m)
    BY SentAssumption
  <2> QED BY <2>1 DEF IsMessage
<1>2. PICK value \in 1..Len(MsgType) : value = ValueOf(m.t) /\ MsgType[value] = m.t
  BY <1>1 DEF ValueOf
<1>3. Len(MsgType) = 11 /\ DOMAIN MsgType = 1..11
  BY DEF MsgType
<1>4. value \in 1..11
  BY <1>2, <1>3
<1>5. 1 * 16 + value > 16 /\ (1 * 16 + value) \div 16 = 1 /\ (1 * 16 + value) % 16 = value
  BY <1>4
<1>6. 1 * 16 + value \in Byte
  BY <1>4 DEF Byte
<1> QED BY <1>2, <1>3, <1>4, <1>5, <1>6 DEF VERSION

LEMMA MessageIs ==
  ASSUME NEW m \in Message
  PROVE  /\ m.gid \in Seq(Byte) /\ Len(m.gid) = GID_LEN /\ GID_LEN \in Nat
         /\ m.ply \in Word16
         /\ m.fields = [i \in 1..Len(Layout(m.t)) |-> m.fields[i]]
         /\ \A i \in 1..Len(Layout(m.t)) : m.fields[i] \in Field(Layout(m.t)[i])
         /\ FieldsSound(m.t, m.fields)
         /\ m = [t |-> m.t, gid |-> m.gid, ply |-> m.ply, fields |-> m.fields]
<1>1. IsMessage(m)
  BY SentAssumption
<1>2. GID_LEN \in Nat
  BY CodecAssumption
<1>3. m.ply \in Word16
  BY <1>1 DEF IsMessage, Word16
<1> QED BY <1>1, <1>2, <1>3 DEF IsMessage

LEMMA CutBytes ==
  \A a, b \in Seq(Byte) :
    /\ a \o b \in Seq(Byte) /\ Len(a \o b) = Len(a) + Len(b)
    /\ SubSeq(a \o b, 1, Len(a)) = a /\ SubSeq(a \o b, Len(a) + 1, Len(a \o b)) = b
    /\ \A i \in 1..Len(a) : (a \o b)[i] = a[i]
<1>1. ASSUME NEW a \in Seq(Byte), NEW b \in Seq(Byte)
      PROVE  /\ a \o b \in Seq(Byte) /\ Len(a \o b) = Len(a) + Len(b)
             /\ SubSeq(a \o b, 1, Len(a)) = a /\ SubSeq(a \o b, Len(a) + 1, Len(a \o b)) = b
  BY CutAt
<1>2. ASSUME NEW a \in Seq(Byte), NEW b \in Seq(Byte), NEW i \in 1..Len(a) PROVE (a \o b)[i] = a[i]
  OBVIOUS
<1> QED BY <1>1, <1>2

FrameBody(m) == Concat([i \in 1..Len(m.fields) |-> Put(Layout(m.t)[i], m.fields[i])])

LEMMA HeaderIs ==
  ASSUME NEW m \in Message
  PROVE  /\ HeaderOf(m) \in Seq(Byte) /\ Len(HeaderOf(m)) = 1 + GID_LEN + 2
         /\ HeaderOf(m)[1] = VERSION * 16 + ValueOf(m.t)
         /\ SubSeq(HeaderOf(m), 2, 1 + GID_LEN) = m.gid
         /\ FromShort(SubSeq(HeaderOf(m), 2 + GID_LEN, 3 + GID_LEN)) = m.ply
<1> DEFINE b0 == VERSION * 16 + ValueOf(m.t)
           short == Short(m.ply)
           gid == m.gid
<1>1. b0 \in Byte /\ gid \in Seq(Byte) /\ Len(gid) = GID_LEN /\ GID_LEN \in Nat
  BY FirstIs, MessageIs
<1>2. short \in Seq(Byte) /\ Len(short) = 2 /\ FromShort(short) = m.ply
  BY MessageIs, ShortIs
<1>3. HeaderOf(m) = (<<b0>> \o gid) \o short
  BY DEF HeaderOf
<1> HIDE DEF b0, short, gid
<1> DEFINE one == <<b0>>
           front == one \o gid
           h == front \o short
<1>4. one \in Seq(Byte) /\ Len(one) = 1 /\ one[1] = b0
  BY <1>1
<1> HIDE DEF one
<1>5. front \in Seq(Byte) /\ Len(front) = 1 + GID_LEN /\ front[1] = b0
  <2>1. /\ front \in Seq(Byte) /\ Len(front) = Len(one) + Len(gid)
        /\ \A i \in 1..Len(one) : front[i] = one[i]
    <3>1. gid \in Seq(Byte) /\ one \in Seq(Byte)
      BY <1>1, <1>4
    <3> QED BY <3>1, CutBytes, Zenon
  <2> HIDE DEF front
  <2> QED BY <1>1, <1>4, <2>1
<1>6. SubSeq(h, Len(one) + 1, Len(one) + Len(gid)) = gid
  BY <1>1, <1>2, <1>4, Middle
<1> HIDE DEF front
<1>7. h \in Seq(Byte) /\ Len(h) = Len(front) + Len(short)
      /\ SubSeq(h, Len(front) + 1, Len(h)) = short
  BY <1>2, <1>5, CutBytes
<1>8. h[1] = front[1]
  <2>1. 1 \in 1..Len(front)
    BY <1>1, <1>5
  <2> QED BY <1>2, <1>5, <2>1, CutBytes
<1> HIDE DEF h
<1>9. Len(h) = 1 + GID_LEN + 2 /\ Len(h) = 3 + GID_LEN /\ Len(front) + 1 = 2 + GID_LEN
      /\ Len(one) + 1 = 2 /\ Len(one) + Len(gid) = 1 + GID_LEN
  BY <1>1, <1>2, <1>4, <1>5, <1>7
<1>10. HeaderOf(m) = h
  BY <1>3 DEF h, front, one
<1> QED BY <1>2, <1>5, <1>6, <1>7, <1>8, <1>9, <1>10, Zenon DEF b0, gid

LEMMA BodyIs ==
  ASSUME NEW m \in Message
  PROVE  /\ FrameBody(m) \in Seq(Byte)
         /\ \A x \in Seq(Byte) : TakeFields(Layout(m.t), FrameBody(m) \o x) = Read(m.fields, x)
<1> DEFINE kinds == Layout(m.t)
           vals == m.fields
           parts == [i \in 1..Len(kinds) |-> Put(kinds[i], vals[i])]
<1>1. kinds \in Seq(Kinds) /\ vals = [i \in 1..Len(kinds) |-> vals[i]]
      /\ \A i \in 1..Len(kinds) : vals[i] \in Field(kinds[i])
  BY LayoutIs, MessageIs
<1>2. Len(vals) = Len(kinds)
  BY <1>1
<1>3. FrameBody(m) = Concat(parts)
  BY <1>2 DEF FrameBody
<1> HIDE DEF kinds, vals
<1>4. ASSUME NEW x \in Seq(Byte)
      PROVE  parts \in Seq(Seq(Byte)) /\ TakeFields(kinds, Concat(parts) \o x) = Read(vals, x)
  BY <1>1, TakeFieldsAccepts
<1> HIDE DEF parts
<1>5. <<>> \in Seq(Byte)
  OBVIOUS
<1>6. Concat(parts) \in Seq(Byte)
  BY <1>4, <1>5, ConcatType
<1> QED BY <1>3, <1>4, <1>6 DEF kinds, vals

LEMMA DecodeIs ==
  ASSUME NEW m \in Message, NEW y \in Seq(Byte)
  PROVE  LET body == TakeFields(Layout(m.t), y)
         IN  decode_binary(HeaderOf(m) \o y)
               = IF done(body) /\ FieldsSound(m.t, body.value)
                 THEN [t |-> m.t, gid |-> m.gid, ply |-> m.ply, fields |-> body.value]
                 ELSE WireError
<1> DEFINE b0 == VERSION * 16 + ValueOf(m.t)
           h == HeaderOf(m)
           data == h \o y
           n == 1 + GID_LEN + 2
<1>1. /\ b0 \div 16 = VERSION /\ b0 % 16 \in DOMAIN MsgType /\ MsgType[b0 % 16] = m.t
      /\ h \in Seq(Byte) /\ Len(h) = n /\ n \in Nat /\ h[1] = b0
      /\ SubSeq(h, 2, 1 + GID_LEN) = m.gid
      /\ FromShort(SubSeq(h, 2 + GID_LEN, 3 + GID_LEN)) = m.ply
  BY FirstIs, HeaderIs, MessageIs
<1> HIDE DEF h, b0
<1>2. take(n, data) = Read(h, y)
  <2> HIDE DEF n
  <2>1. take(Len(h), h \o y) = Read(h, y)
    BY <1>1, TakeAccepts
  <2> QED BY <1>1, <2>1
<1>3. take(n, data).ok /\ take(n, data).value = h /\ take(n, data).rest = y
  BY <1>2, ReadParts
<1>4. 1 \in 1..Len(h)
  <2>1. GID_LEN \in Nat
    BY MessageIs
  <2> QED BY <1>1, <2>1
<1>5. data # <<>> /\ data[1] = b0
  <2>1. Len(data) = Len(h) + Len(y) /\ data[1] = h[1]
    BY <1>1, <1>4, CutBytes
  <2>2. Len(data) # 0
    BY <1>1, <1>4, <2>1
  <2> HIDE DEF data
  <2>3. data # <<>>
    BY <2>2
  <2> QED BY <1>1, <2>1, <2>3
<1> HIDE DEF data
<1> DEFINE body == TakeFields(Layout(m.t), y)
           yes == done(body) /\ FieldsSound(m.t, body.value)
<1>6. decode_binary(data)
        = IF yes THEN [t |-> m.t, gid |-> SubSeq(h, 2, 1 + GID_LEN),
                       ply |-> FromShort(SubSeq(h, 2 + GID_LEN, 3 + GID_LEN)), fields |-> body.value]
          ELSE WireError
  BY <1>1, <1>3, <1>5, Zenon DEF decode_binary, n
<1>7. decode_binary(data)
        = IF yes THEN [t |-> m.t, gid |-> m.gid, ply |-> m.ply, fields |-> body.value] ELSE WireError
  BY <1>1, <1>6, Zenon
<1> QED BY <1>7 DEF data, h

LEMMA FrameIsRead ==
  ASSUME NEW m \in Message PROVE decode_binary(encode_binary(m)) = m
<1> DEFINE body == TakeFields(Layout(m.t), FrameBody(m))
<1>1. <<>> \in Seq(Byte)
  OBVIOUS
<1>2. FrameBody(m) \in Seq(Byte) /\ FrameBody(m) \o <<>> = FrameBody(m)
  BY BodyIs, ConcatEmptySeq
<1>3. body = Read(m.fields, <<>>)
  BY <1>1, <1>2, BodyIs
<1>4. body.ok /\ body.value = m.fields /\ body.rest = <<>>
  BY <1>3, ReadParts
<1>5. done(body) /\ FieldsSound(m.t, body.value)
  BY <1>4, MessageIs DEF done
<1>6. encode_binary(m) = HeaderOf(m) \o FrameBody(m)
  BY DEF encode_binary, FrameBody
<1>7. decode_binary(HeaderOf(m) \o FrameBody(m))
        = IF done(body) /\ FieldsSound(m.t, body.value)
          THEN [t |-> m.t, gid |-> m.gid, ply |-> m.ply, fields |-> body.value]
          ELSE WireError
  BY <1>2, DecodeIs
<1>8. m = [t |-> m.t, gid |-> m.gid, ply |-> m.ply, fields |-> m.fields]
  BY MessageIs
<1> HIDE DEF body
<1>9. decode_binary(HeaderOf(m) \o FrameBody(m))
        = [t |-> m.t, gid |-> m.gid, ply |-> m.ply, fields |-> m.fields]
  BY <1>4, <1>5, <1>7, Zenon
<1> QED BY <1>6, <1>8, <1>9, Zenon

LEMMA LongerIsRefused ==
  ASSUME NEW m \in Message, NEW x \in Seq(Byte), x # <<>>
  PROVE  decode_binary(encode_binary(m) \o x) = WireError
<1> DEFINE y == FrameBody(m) \o x
           body == TakeFields(Layout(m.t), y)
<1>1. FrameBody(m) \in Seq(Byte) /\ y \in Seq(Byte) /\ HeaderOf(m) \in Seq(Byte)
  BY BodyIs, HeaderIs, Associates
<1>2. body = Read(m.fields, x)
  BY BodyIs
<1>3. body.rest = x
  BY <1>2, ReadParts
<1>4. ~done(body)
  BY <1>3 DEF done
<1>5. encode_binary(m) \o x = HeaderOf(m) \o y
  BY <1>1, Associates DEF encode_binary, FrameBody
<1> HIDE DEF y
<1> QED BY <1>1, <1>4, <1>5, DecodeIs

LEMMA ShorterIsRefused ==
  ASSUME NEW m \in Message, NEW p \in Seq(Byte), NEW x \in Seq(Byte), x # <<>>,
         encode_binary(m) = p \o x
  PROVE  decode_binary(p) = WireError
<1> DEFINE n == 1 + GID_LEN + 2
           h == HeaderOf(m)
           b == FrameBody(m)
<1>1. n \in Nat /\ h \in Seq(Byte) /\ Len(h) = n /\ b \in Seq(Byte) /\ p \o x = h \o b
  <2>1. n \in Nat /\ h \in Seq(Byte) /\ Len(h) = n
    BY MessageIs, HeaderIs
  <2>2. b \in Seq(Byte)
    BY BodyIs
  <2>3. p \o x = h \o b
    BY DEF encode_binary, FrameBody
  <2> QED BY <2>1, <2>2, <2>3
<1> HIDE DEF h, b
<1>2. CASE n > Len(p)
  <2>1. ~take(n, p).ok
    BY <1>2, ReadIs DEF take
  <2> QED BY <2>1, Zenon DEF decode_binary, n
<1>3. CASE ~(n > Len(p))
  <2> DEFINE front == SubSeq(p, 1, n)
             y == SubSeq(p, n + 1, Len(p))
             body == TakeFields(Layout(m.t), y)
  <2>1. n \in 0..Len(p)
    BY <1>1, <1>3
  <2>2. front \in Seq(Byte) /\ Len(front) = n /\ y \in Seq(Byte) /\ p = front \o y
    BY <2>1, Halves
  <2> HIDE DEF front, y
  <2>3. front \o (y \o x) = h \o b /\ y \o x \in Seq(Byte)
    <3>1. (front \o y) \o x = front \o (y \o x) /\ y \o x \in Seq(Byte)
      BY <2>2, Associates
    <3> QED BY <1>1, <2>2, <3>1
  <2>4. front = h /\ y \o x = b
    <3>1. Len(front) = Len(h)
      BY <1>1, <2>2
    <3> QED BY <1>1, <2>2, <2>3, <3>1, Cancels
  <2>5. ~done(body)
    <3> SUFFICES ASSUME body.ok, body.rest = <<>> PROVE FALSE
      BY DEF done
    <3>1. TakeFields(Layout(m.t), y \o x) = Read(body.value, body.rest \o x)
      BY <2>2, LayoutIs, TakeFieldsExtends
    <3>2. <<>> \in Seq(Byte)
      OBVIOUS
    <3>3. b \o <<>> = b /\ <<>> \o x = x
      BY <1>1, ConcatEmptySeq
    <3>4. TakeFields(Layout(m.t), b \o <<>>) = Read(m.fields, <<>>)
      BY <3>2, BodyIs DEF b
    <3>5. Read(m.fields, <<>>) = Read(body.value, x)
      BY <2>4, <3>1, <3>3, <3>4
    <3> HIDE DEF body
    <3>6. Read(m.fields, <<>>).rest = <<>> /\ Read(body.value, x).rest = x
      BY ReadIs
    <3> QED BY <3>5, <3>6
  <2>6. decode_binary(h \o y) = WireError
    BY <2>2, <2>5, DecodeIs DEF h
  <2> QED BY <2>2, <2>4, <2>6
<1> QED BY <1>2, <1>3

-----------------------------------------------------------------------------
(* Cards                                                                    *)

LEMMA FromLongIs ==
  ASSUME NEW l, NEW a, NEW b, SubSeq(l, 1, 2) = a, SubSeq(l, 3, 4) = b
  PROVE  FromLong(l) = 65536 * FromShort(a) + FromShort(b)
<1>1. FromLong(l) = 65536 * FromShort(SubSeq(l, 1, 2)) + FromShort(SubSeq(l, 3, 4))
  BY DEF FromLong
<1>2. FromShort(SubSeq(l, 1, 2)) = FromShort(a) /\ FromShort(SubSeq(l, 3, 4)) = FromShort(b)
  BY Zenon
<1> QED BY <1>1, <1>2

LEMMA LongIs ==
  ASSUME NEW n \in Nat, n \div 65536 < 65536
  PROVE  Long(n) \in Seq(Byte) /\ Len(Long(n)) = 4 /\ FromLong(Long(n)) = n
<1> DEFINE hi == n \div 65536
           lo == n % 65536
           a == Short(hi)
           b == Short(lo)
<1>1. hi \in Nat /\ lo \in Nat /\ hi < 65536 /\ lo < 65536 /\ 65536 * hi + lo = n
  OBVIOUS
<1> HIDE DEF hi, lo
<1>2. hi \in Word16 /\ lo \in Word16
  BY <1>1, BelowIs
<1>3. a \in Seq(Byte) /\ Len(a) = 2 /\ FromShort(a) = hi /\ b \in Seq(Byte) /\ Len(b) = 2 /\ FromShort(b) = lo
  BY <1>2, ShortIs
<1> HIDE DEF a, b
<1> DEFINE l == a \o b
<1>40. a \in Seq(Byte) /\ b \in Seq(Byte)
  BY <1>3
<1>4. l \in Seq(Byte) /\ Len(l) = Len(a) + Len(b)
  BY <1>40, CutBytes
<1>41. SubSeq(l, 1, Len(a)) = a /\ SubSeq(l, Len(a) + 1, Len(l)) = b
  BY <1>40, CutBytes
<1> HIDE DEF l
<1>5. Len(l) = 4 /\ Len(a) + 1 = 3
  BY <1>3, <1>4
<1>6. SubSeq(l, 1, 2) = a /\ SubSeq(l, 3, 4) = b
  BY <1>3, <1>41, <1>5
<1>7. FromLong(l) = 65536 * hi + lo
  <2>1. FromLong(l) = 65536 * FromShort(a) + FromShort(b)
    BY <1>6, FromLongIs
  <2> QED BY <1>3, <2>1
<1>8. Long(n) = l
  BY DEF Long, l, a, b, hi, lo
<1>9. FromLong(l) = n
  BY <1>1, <1>7
<1>10. FromLong(Long(n)) = n
  BY <1>8, <1>9
<1>11. Long(n) \in Seq(Byte) /\ Len(Long(n)) = 4
  <2>0. l \in Seq(Byte)
    BY <1>4
  <2>1. Len(l) = 4
    BY <1>5
  <2> QED BY <1>8, <2>0, <2>1
<1> QED BY <1>10, <1>11

LEMMA BitIs == Bit[0] = 1 /\ \A g \in 1..Catalog : Bit[g] = 2 * Bit[g - 1] /\ Bit[g] \in Nat
<1> DEFINE Rec(f) == f = [g \in 0..Catalog |-> IF g = 0 THEN 1 ELSE 2 * f[g - 1]]
           F == [g \in 1..Catalog |-> [x \in Nat |-> 2 * x]]
<1>1. Catalog \in Nat
  BY CodecAssumption
<1>2. F \in [1..Catalog -> [Nat -> Nat]] /\ 1 \in Nat
  OBVIOUS
<1>3. \A g \in 1..Catalog, x \in Nat : F[g][x] = 2 * x
  OBVIOUS
<1> HIDE DEF F
<1>4. PICK h \in [0..Catalog -> Nat] : Folds(h, 1, F, Catalog)
  BY <1>1, <1>2, Recursion
<1>5. \A g \in 1..Catalog : g - 1 \in 0..Catalog /\ h[g] = 2 * h[g - 1]
  <2> SUFFICES ASSUME NEW g \in 1..Catalog PROVE g - 1 \in 0..Catalog /\ h[g] = 2 * h[g - 1]
    OBVIOUS
  <2>1. g - 1 \in 0..Catalog
    BY <1>1
  <2>2. h[g - 1] \in Nat /\ h[g] = F[g][h[g - 1]]
    BY <1>4, <2>1 DEF Folds
  <2> QED BY <1>3, <2>1, <2>2
<1>6. Rec(h)
  <2>1. \A g \in 0..Catalog : g = 0 \/ g \in 1..Catalog
    BY <1>1
  <2>2. \A g \in 0..Catalog : h[g] = IF g = 0 THEN 1 ELSE 2 * h[g - 1]
    BY <1>4, <1>5, <2>1 DEF Folds
  <2>3. [g \in 0..Catalog |-> h[g]] = [g \in 0..Catalog |-> IF g = 0 THEN 1 ELSE 2 * h[g - 1]]
    BY <2>2, Zenon
  <2> QED BY <2>3
<1> HIDE DEF Rec
<1>7. PICK f : f = (CHOOSE fun : Rec(fun))
  OBVIOUS
<1>8. Rec(f) /\ Bit = f
  BY <1>6, <1>7 DEF Bit, Rec
<1>9. f = [g \in 0..Catalog |-> f[g]] /\ f[0] = 1 /\ \A g \in 1..Catalog : f[g] = 2 * f[g - 1]
  <2>1. \A g \in 0..Catalog : f[g] = IF g = 0 THEN 1 ELSE 2 * f[g - 1]
    BY <1>8, Zenon DEF Rec
  <2>2. f = [g \in 0..Catalog |-> f[g]]
    BY <1>8, <2>1, Zenon DEF Rec
  <2>3. 0 \in 0..Catalog /\ \A g \in 1..Catalog : g \in 0..Catalog /\ g # 0
    BY <1>1
  <2> QED BY <2>1, <2>2, <2>3, Zenon
<1>10. Unfolds(f, 1, F, Catalog, Nat)
  BY <1>3, <1>9 DEF Unfolds
<1>11. f \in [0..Catalog -> Nat]
  BY <1>1, <1>2, <1>10, FoldsAre
<1>12. \A g \in 1..Catalog : f[g] \in Nat
  BY <1>11
<1> QED BY <1>8, <1>9, <1>12

LEMMA BitsAre == \A g \in 0..Catalog : Bit[g] \in Nat
<1>1. Catalog \in Nat
  BY CodecAssumption
<1>2. ASSUME NEW g \in 0..Catalog PROVE g = 0 \/ g \in 1..Catalog
  BY <1>1
<1> QED BY <1>2, BitIs

LEMMA MaskIs ==
  ASSUME NEW games
  PROVE  \E mask \in [0..Catalog -> Nat] :
           /\ mask[0] = 0
           /\ \A k \in 1..Catalog : mask[k] = mask[k - 1] + (IF k - 1 \in games THEN Bit[k - 1] ELSE 0)
           /\ games_mask(games) = mask[Catalog]
<1> DEFINE More(k) == IF k - 1 \in games THEN Bit[k - 1] ELSE 0
           Rec(f) == f = [k \in 0..Catalog |-> IF k = 0 THEN 0 ELSE f[k - 1] + More(k)]
           F == [k \in 1..Catalog |-> [x \in Nat |-> x + More(k)]]
<1>1. Catalog \in Nat
  BY CodecAssumption
<1>0. ASSUME NEW k \in 1..Catalog PROVE More(k) \in Nat
  <2>1. k - 1 \in 0..Catalog
    BY <1>1
  <2>2. Bit[k - 1] \in Nat
    BY <2>1, BitsAre
  <2> QED BY <2>2
<1> HIDE DEF More
<1>2. F \in [1..Catalog -> [Nat -> Nat]] /\ 0 \in Nat
  BY <1>0
<1>3. \A k \in 1..Catalog, x \in Nat : F[k][x] = x + More(k)
  OBVIOUS
<1> HIDE DEF F
<1>4. PICK h \in [0..Catalog -> Nat] : Folds(h, 0, F, Catalog)
  BY <1>1, <1>2, Recursion
<1>5. ASSUME NEW k \in 1..Catalog PROVE h[k] = h[k - 1] + More(k)
  <2>1. k - 1 \in 0..Catalog
    BY <1>1
  <2>2. h[k - 1] \in Nat /\ h[k] = F[k][h[k - 1]]
    BY <1>4, <2>1 DEF Folds
  <2> QED BY <1>3, <2>2
<1>6. Rec(h)
  <2>1. \A k \in 0..Catalog : k = 0 \/ k \in 1..Catalog
    BY <1>1
  <2>2. \A k \in 0..Catalog : h[k] = IF k = 0 THEN 0 ELSE h[k - 1] + More(k)
    BY <1>4, <1>5, <2>1 DEF Folds
  <2>3. [k \in 0..Catalog |-> h[k]] = [k \in 0..Catalog |-> IF k = 0 THEN 0 ELSE h[k - 1] + More(k)]
    BY <2>2, Zenon
  <2> QED BY <2>3
<1> HIDE DEF Rec
<1>7. PICK f : f = (CHOOSE fun : Rec(fun))
  OBVIOUS
<1>8. Rec(f) /\ games_mask(games) = f[Catalog]
  BY <1>6, <1>7 DEF games_mask, Rec, More
<1>9. f = [k \in 0..Catalog |-> f[k]] /\ f[0] = 0 /\ \A k \in 1..Catalog : f[k] = f[k - 1] + More(k)
  <2>1. \A k \in 0..Catalog : f[k] = IF k = 0 THEN 0 ELSE f[k - 1] + More(k)
    BY <1>8, Zenon DEF Rec
  <2>2. f = [k \in 0..Catalog |-> f[k]]
    BY <1>8, <2>1, Zenon DEF Rec
  <2>3. 0 \in 0..Catalog /\ \A k \in 1..Catalog : k \in 0..Catalog /\ k # 0
    BY <1>1
  <2> QED BY <2>1, <2>2, <2>3, Zenon
<1>10. Unfolds(f, 0, F, Catalog, Nat)
  BY <1>3, <1>9, Zenon DEF Unfolds
<1>11. f \in [0..Catalog -> Nat]
  BY <1>1, <1>2, <1>10, FoldsAre
<1> QED BY <1>8, <1>9, <1>11 DEF More

Powers == {1, 2, 4, 8, 16, 32, 64, 128}

(* Twice a power of two, as often as one likes, shows in no lower bit.       *)
LEMMA LowBits ==
  ASSUME NEW x \in Nat, NEW j \in Nat, NEW b \in Powers
  PROVE  ((x + b * (2 * j)) \div b) % 2 = (x \div b) % 2
<1>1. CASE b = 1
  BY <1>1
<1>2. CASE b = 2
  BY <1>2
<1>3. CASE b = 4
  BY <1>3
<1>4. CASE b = 8
  BY <1>4
<1>5. CASE b = 16
  BY <1>5
<1>6. CASE b = 32
  BY <1>6
<1>7. CASE b = 64
  BY <1>7
<1>8. CASE b = 128
  BY <1>8
<1> QED BY <1>1, <1>2, <1>3, <1>4, <1>5, <1>6, <1>7, <1>8 DEF Powers

LEMMA HighBit ==
  ASSUME NEW b \in Powers, NEW x \in Nat, x < b
  PROVE  (x \div b) % 2 = 0 /\ ((x + b) \div b) % 2 = 1
<1>1. CASE b = 1
  BY <1>1
<1>2. CASE b = 2
  BY <1>2
<1>3. CASE b = 4
  BY <1>3
<1>4. CASE b = 8
  BY <1>4
<1>5. CASE b = 16
  BY <1>5
<1>6. CASE b = 32
  BY <1>6
<1>7. CASE b = 64
  BY <1>7
<1>8. CASE b = 128
  BY <1>8
<1> QED BY <1>1, <1>2, <1>3, <1>4, <1>5, <1>6, <1>7, <1>8 DEF Powers

LEMMA LowBitIs ==
  ASSUME NEW g \in 0..Catalog - 1 PROVE Bit[g] \in Powers
<1>1. Catalog \in 1..8
  BY CodecAssumption
<1>2. Bit[0] = 1 /\ \A k \in 1..Catalog : Bit[k] = 2 * Bit[k - 1]
  BY BitIs
<1> DEFINE Known(k, b) == k <= Catalog => Bit[k] = b
<1>3. ASSUME NEW k \in Nat, NEW b \in Nat, Known(k, b) PROVE Known(k + 1, 2 * b)
  <2> SUFFICES ASSUME k + 1 <= Catalog PROVE Bit[k + 1] = 2 * b
    OBVIOUS
  <2>1. k + 1 \in 1..Catalog /\ (k + 1) - 1 = k /\ k <= Catalog
    BY <1>1
  <2>2. Bit[k] = b
    BY <1>3, <2>1
  <2> QED BY <1>2, <2>1, <2>2
<1>4. Known(0, 1)
  BY <1>2
<1> HIDE DEF Known
<1>5. Known(0 + 1, 2 * 1) /\ 0 + 1 = 1 /\ 2 * 1 = 2
  BY <1>3, <1>4
<1>6. Known(1 + 1, 2 * 2) /\ 1 + 1 = 2 /\ 2 * 2 = 4
  BY <1>3, <1>5
<1>7. Known(2 + 1, 2 * 4) /\ 2 + 1 = 3 /\ 2 * 4 = 8
  BY <1>3, <1>6
<1>8. Known(3 + 1, 2 * 8) /\ 3 + 1 = 4 /\ 2 * 8 = 16
  BY <1>3, <1>7
<1>9. Known(4 + 1, 2 * 16) /\ 4 + 1 = 5 /\ 2 * 16 = 32
  BY <1>3, <1>8
<1>10. Known(5 + 1, 2 * 32) /\ 5 + 1 = 6 /\ 2 * 32 = 64
  BY <1>3, <1>9
<1>11. Known(6 + 1, 2 * 64) /\ 6 + 1 = 7 /\ 2 * 64 = 128
  BY <1>3, <1>10
<1>12. g \in {0, 1, 2, 3, 4, 5, 6, 7} /\ g <= Catalog
  BY <1>1
<1>13. Known(1, 2) /\ Known(2, 4) /\ Known(3, 8) /\ Known(4, 16) /\ Known(5, 32) /\ Known(6, 64)
       /\ Known(7, 128)
  BY <1>5, <1>6, <1>7, <1>8, <1>9, <1>10, <1>11
<1> QED BY <1>4, <1>12, <1>13 DEF Known, Powers

LEMMA HigherBitIs ==
  ASSUME NEW g \in 0..Catalog - 1, NEW k \in 1..Catalog, g < k
  PROVE  \E j \in Nat : Bit[k] = Bit[g] * (2 * j)
<1> DEFINE S == {i \in Nat : g < i /\ i <= Catalog => \E j \in Nat : Bit[i] = Bit[g] * (2 * j)}
<1>1. Catalog \in Nat /\ Bit[g] \in Nat
  <2>1. Catalog \in Nat
    BY CodecAssumption
  <2>2. g \in 0..Catalog
    BY <2>1
  <2> QED BY <2>1, <2>2, BitsAre
<1>2. 0 \in S
  OBVIOUS
<1>3. ASSUME NEW i \in Nat, i \in S PROVE i + 1 \in S
  <2> SUFFICES ASSUME g < i + 1, i + 1 <= Catalog PROVE \E j \in Nat : Bit[i + 1] = Bit[g] * (2 * j)
    OBVIOUS
  <2>1. i + 1 \in 1..Catalog /\ (i + 1) - 1 = i
    BY <1>1
  <2>2. Bit[i + 1] = 2 * Bit[i]
    BY <2>1, BitIs
  <2>3. CASE g = i
    <3>1. 2 * Bit[g] = Bit[g] * (2 * 1)
      BY <1>1
    <3> QED BY <2>2, <2>3, <3>1
  <2>4. CASE g # i
    <3>1. g < i /\ i <= Catalog
      BY <1>1, <2>4
    <3>2. PICK j \in Nat : Bit[i] = Bit[g] * (2 * j)
      BY <1>3, <3>1
    <3>3. \A b \in Nat : 2 * (b * (2 * j)) = b * (2 * (2 * j))
      OBVIOUS
    <3>4. 2 * j \in Nat
      OBVIOUS
    <3>5. Bit[i + 1] = Bit[g] * (2 * (2 * j))
      BY <1>1, <2>2, <3>2, <3>3
    <3> QED BY <3>4, <3>5
  <2> QED BY <2>3, <2>4
<1> HIDE DEF S
<1>4. k \in S
  BY <1>2, <1>3, Induct
<1>5. k <= Catalog
  OBVIOUS
<1> QED BY <1>4, <1>5 DEF S

LEMMA GamesAreRead ==
  ASSUME NEW games \in SUBSET (0..Catalog - 1)
  PROVE  games_mask(games) \in Nat /\ games_from_mask(games_mask(games)) = games
<1>1. Catalog \in Nat
  BY CodecAssumption
<1>2. PICK mask \in [0..Catalog -> Nat] :
         /\ mask[0] = 0
         /\ \A k \in 1..Catalog : mask[k] = mask[k - 1] + (IF k - 1 \in games THEN Bit[k - 1] ELSE 0)
         /\ games_mask(games) = mask[Catalog]
  BY MaskIs
<1> DEFINE Shows(k, g) == (mask[k] \div Bit[g]) % 2 = 1
           Good(k) == mask[k] < Bit[k] /\ \A g \in 0..k - 1 : Shows(k, g) <=> g \in games
           S == {k \in Nat : k <= Catalog => Good(k)}
<1>3. 0 \in S
  BY <1>2, BitIs
<1>4. ASSUME NEW k \in Nat, k \in S PROVE k + 1 \in S
  <2> SUFFICES ASSUME k + 1 <= Catalog PROVE Good(k + 1)
    OBVIOUS
  <2>1. k + 1 \in 1..Catalog /\ (k + 1) - 1 = k /\ k \in 0..Catalog - 1 /\ k \in 0..Catalog /\ k <= Catalog
    BY <1>1
  <2>2. mask[k] \in Nat /\ mask[k] < Bit[k] /\ \A g \in 0..k - 1 : Shows(k, g) <=> g \in games
    BY <1>2, <1>4, <2>1
  <2> HIDE DEF Shows
  <2>3. mask[k + 1] = mask[k] + (IF k \in games THEN Bit[k] ELSE 0)
    BY <1>2, <2>1
  <2>4. Bit[k] \in Powers /\ Bit[k + 1] = 2 * Bit[k] /\ Bit[k] \in Nat
    BY <2>1, LowBitIs, BitIs, BitsAre
  <2>5. mask[k + 1] < Bit[k + 1]
    <3> DEFINE now == mask[k]
               bit == Bit[k]
    <3>1. now \in Nat /\ bit \in Nat /\ now < bit
      BY <2>2, <2>4
    <3> HIDE DEF now, bit
    <3>2. now + bit < 2 * bit /\ now + 0 < 2 * bit
      BY <3>1
    <3> QED BY <2>3, <2>4, <3>2 DEF now, bit
  <2>6. Shows(k + 1, k) <=> k \in games
    <3>1. (mask[k] \div Bit[k]) % 2 = 0 /\ ((mask[k] + Bit[k]) \div Bit[k]) % 2 = 1
      <4> DEFINE now == mask[k]
                 bit == Bit[k]
      <4>1. now \in Nat /\ bit \in Powers /\ now < bit
        BY <2>2, <2>4
      <4> HIDE DEF now, bit
      <4>2. (now \div bit) % 2 = 0 /\ ((now + bit) \div bit) % 2 = 1
        BY <4>1, HighBit
      <4> QED BY <4>2 DEF now, bit
    <3>2. CASE k \in games
      BY <2>3, <3>1, <3>2 DEF Shows
    <3>3. CASE k \notin games
      <4>1. mask[k + 1] = mask[k]
        BY <2>2, <2>3, <3>3
      <4> QED BY <3>1, <3>3, <4>1 DEF Shows
    <3> QED BY <3>2, <3>3
  <2>7. ASSUME NEW g \in 0..k - 1 PROVE Shows(k + 1, g) <=> g \in games
    <3>1. g \in 0..Catalog - 1 /\ g < k
      BY <1>1, <2>1
    <3>2. Shows(k + 1, g) <=> Shows(k, g)
      <4>1. CASE k \in games
        <5>1. k \in 1..Catalog
          BY <1>1, <2>1, <3>1
        <5>2. PICK j \in Nat : Bit[k] = Bit[g] * (2 * j)
          BY <3>1, <5>1, HigherBitIs
        <5>3. Bit[g] \in Powers
          BY <3>1, LowBitIs
        <5>4. ((mask[k] + Bit[g] * (2 * j)) \div Bit[g]) % 2 = (mask[k] \div Bit[g]) % 2
          BY <2>2, <5>3, LowBits
        <5>5. mask[k + 1] = mask[k] + Bit[g] * (2 * j)
          BY <2>3, <4>1, <5>2
        <5> QED BY <5>4, <5>5, Zenon DEF Shows
      <4>2. CASE k \notin games
        <5>1. mask[k + 1] = mask[k]
          BY <2>2, <2>3, <4>2
        <5> QED BY <5>1, Zenon DEF Shows
      <4> QED BY <4>1, <4>2
    <3> QED BY <2>2, <3>2
  <2>8. ASSUME NEW g \in 0..(k + 1) - 1 PROVE g = k \/ g \in 0..k - 1
    OBVIOUS
  <2>9. \A g \in 0..(k + 1) - 1 : Shows(k + 1, g) <=> g \in games
    BY <2>6, <2>7, <2>8
  <2> QED BY <2>5, <2>9
<1> HIDE DEF S
<1>5. Catalog \in S
  BY <1>1, <1>3, <1>4, Induct
<1>6. Good(Catalog)
  BY <1>1, <1>5 DEF S
<1>7. games_from_mask(games_mask(games)) = { g \in 0..Catalog - 1 : Shows(Catalog, g) }
  BY <1>2 DEF games_from_mask
<1> HIDE DEF Shows
<1>8. games_from_mask(games_mask(games)) = games
  BY <1>6, <1>7
<1>9. games_mask(games) \in Nat
  BY <1>1, <1>2
<1> QED BY <1>8, <1>9

LEMMA PrefixKeeps ==
  ASSUME NEW T, NEW a \in Seq(T), NEW b \in Seq(T), NEW m \in Nat, NEW n \in Nat,
         1 <= m, m <= n, n <= Len(a)
  PROVE  SubSeq(a \o b, m, n) = SubSeq(a, m, n)
<1> DEFINE s == a \o b
           f == SubSeq(s, m, n)
           g == SubSeq(a, m, n)
<1>1. s \in Seq(T) /\ \A i \in 1..Len(a) : s[i] = a[i] /\ a[i] \in T
  <2>1. \A i \in 1..Len(a) : s[i] = a[i]
    OBVIOUS
  <2>2. \A i \in 1..Len(a) : a[i] \in T
    OBVIOUS
  <2>3. s \in Seq(T)
    BY ConcatProperties
  <2> QED BY <2>1, <2>2, <2>3
<1> HIDE DEF s
<1>2. \A i \in m..n : i \in 1..Len(a)
  BY LenProperties
<1>3. /\ f \in Seq(T) /\ Len(f) = n - m + 1 /\ \A i \in 1..n - m + 1 : f[i] = s[m + i - 1]
  <2>1. \A i \in m..n : s[i] \in T
    BY <1>1, <1>2
  <2> QED BY <1>1, <2>1, SubSeqProperties
<1>4. /\ g \in Seq(T) /\ Len(g) = n - m + 1 /\ \A i \in 1..n - m + 1 : g[i] = a[m + i - 1]
  <2>1. \A i \in m..n : a[i] \in T
    BY <1>1, <1>2
  <2> QED BY <2>1, SubSeqProperties
<1> HIDE DEF f, g
<1>5. ASSUME NEW i \in 1..Len(f) PROVE f[i] = g[i]
  <2>1. i \in 1..n - m + 1 /\ m + i - 1 \in m..n
    BY <1>3
  <2>2. m + i - 1 \in 1..Len(a)
    BY <1>2, <2>1
  <2> QED BY <1>1, <1>3, <1>4, <2>1, <2>2
<1>6. f = g
  BY <1>3, <1>4, <1>5, SeqEqual
<1> QED BY <1>6 DEF f, g, s

LEMMA CutNats ==
  \A a, b \in Seq(Nat) :
    /\ a \o b \in Seq(Nat) /\ Len(a \o b) = Len(a) + Len(b)
    /\ SubSeq(a \o b, 1, Len(a)) = a /\ SubSeq(a \o b, Len(a) + 1, Len(a \o b)) = b
    /\ \A i \in 1..Len(a) : (a \o b)[i] = a[i]
<1>1. ASSUME NEW a \in Seq(Nat), NEW b \in Seq(Nat)
      PROVE  /\ a \o b \in Seq(Nat) /\ Len(a \o b) = Len(a) + Len(b)
             /\ SubSeq(a \o b, 1, Len(a)) = a /\ SubSeq(a \o b, Len(a) + 1, Len(a \o b)) = b
  BY CutAt
<1>2. ASSUME NEW a \in Seq(Nat), NEW b \in Seq(Nat), NEW i \in 1..Len(a) PROVE (a \o b)[i] = a[i]
  OBVIOUS
<1> QED BY <1>1, <1>2

LEMMA JoinNats ==
  \A a, b, c \in Seq(Nat) : (a \o b) \o c = a \o (b \o c) /\ b \o c \in Seq(Nat)
BY ConcatAssociative

LEMMA BytesAreNats == Byte \subseteq Nat /\ Seq(Byte) \subseteq Seq(Nat) /\ Ascii \subseteq Nat
<1>1. Byte \subseteq Nat /\ Ascii \subseteq Nat
  BY DEF Byte, Ascii
<1> QED BY <1>1, SeqMonotonic

LEMMA NameIs ==
  ASSUME NEW card \in Card PROVE CardName(card) \in Seq(Nat)
<1>1. card.name \in Seq(Ascii) /\ MAX_NAME_LEN \in Nat
  <2>1. IsCard(card)
    BY SentAssumption
  <2> QED BY <2>1, CodecAssumption DEF IsCard
<1>2. card.name \in Seq(Nat)
  BY <1>1, BytesAreNats, SeqMonotonic
<1> DEFINE n == IF Len(card.name) < MAX_NAME_LEN THEN Len(card.name) ELSE MAX_NAME_LEN
<1>3. n \in 0..Len(card.name)
  BY <1>1, <1>2
<1> HIDE DEF n
<1>4. SubSeq(card.name, 1, n) \in Seq(Nat)
  BY <1>2, <1>3, Halves
<1> QED BY <1>4 DEF CardName, n

CardFixed == 1 + PUBLIC_KEY_LEN + 4 + 1 + 1
CardFront(card) ==
  <<VERSION>> \o card.public_key \o Long(card.published_at)
    \o <<games_mask(card.games)>> \o <<Len(CardName(card))>>

LEMMA CardFrontIs ==
  ASSUME NEW card \in Card
  PROVE  /\ CardFront(card) \in Seq(Nat) /\ Len(CardFront(card)) = CardFixed
         /\ PUBLIC_KEY_LEN \in Nat
         /\ CardFront(card)[1] = VERSION
         /\ CardFront(card)[CardFixed] = Len(CardName(card))
         /\ CardFront(card)[CardFixed - 1] = games_mask(card.games)
         /\ SubSeq(CardFront(card), 2, 1 + PUBLIC_KEY_LEN) = card.public_key
         /\ SubSeq(CardFront(card), 2 + PUBLIC_KEY_LEN, 5 + PUBLIC_KEY_LEN) = Long(card.published_at)
         /\ signed_bytes(card) = CardFront(card) \o CardName(card)
<1> DEFINE K == PUBLIC_KEY_LEN
           name == CardName(card)
           m == games_mask(card.games)
           l == Len(name)
           long == Long(card.published_at)
           key == card.public_key
           va == <<VERSION>>
           vm == <<m>>
           vl == <<l>>
           a == va \o key
           b == a \o long
           c == b \o vm
           d == c \o vl
<1>0. IsCard(card) /\ K \in Nat \ {0}
  BY SentAssumption, CodecAssumption
<1>1. key \in Seq(Nat) /\ Len(key) = K
  BY <1>0, BytesAreNats DEF IsCard
<1>2. long \in Seq(Nat) /\ Len(long) = 4
  BY <1>0, LongIs, BytesAreNats DEF IsCard
<1>3. m \in Nat
  <2>1. card.games \in SUBSET (0..Catalog - 1)
    BY <1>0 DEF IsCard
  <2> QED BY <2>1, GamesAreRead
<1>4. name \in Seq(Nat) /\ l \in Nat
  BY NameIs
<1> HIDE DEF m, l, long, key, name
<1>5. va \in Seq(Nat) /\ Len(va) = 1 /\ va[1] = VERSION
  BY DEF VERSION
<1>6. vm \in Seq(Nat) /\ Len(vm) = 1 /\ vm[1] = m /\ vl \in Seq(Nat) /\ Len(vl) = 1 /\ vl[1] = l
  BY <1>3, <1>4
<1> HIDE DEF va, vm, vl
<1>7. a \in Seq(Nat) /\ Len(a) = 1 + K /\ a[1] = VERSION
  <2>1. a \in Seq(Nat) /\ Len(a) = Len(va) + Len(key) /\ \A i \in 1..Len(va) : a[i] = va[i]
    BY <1>1, <1>5, CutNats
  <2> HIDE DEF a
  <2> QED BY <1>0, <1>1, <1>5, <2>1
<1>8. SubSeq(a, 2, 1 + K) = key
  <2>1. SubSeq(a, Len(va) + 1, Len(a)) = key
    BY <1>1, <1>5, CutNats
  <2>2. Len(va) + 1 = 2
    BY <1>5
  <2> HIDE DEF a
  <2> QED BY <1>7, <2>1, <2>2
<1> HIDE DEF a
<1>9. b \in Seq(Nat) /\ Len(b) = 5 + K /\ \A i \in 1..1 + K : b[i] = a[i]
  <2>1. b \in Seq(Nat) /\ Len(b) = Len(a) + Len(long) /\ \A i \in 1..Len(a) : b[i] = a[i]
    BY <1>2, <1>7, CutNats
  <2> HIDE DEF b
  <2> QED BY <1>0, <1>2, <1>7, <2>1
<1>10. SubSeq(b, 2 + K, 5 + K) = long
  <2>1. SubSeq(b, Len(a) + 1, Len(b)) = long
    BY <1>2, <1>7, CutNats
  <2>2. Len(a) + 1 = 2 + K
    BY <1>0, <1>7
  <2> HIDE DEF b
  <2> QED BY <1>9, <2>1, <2>2
<1>11. SubSeq(b, 2, 1 + K) = key
  <2>1. 1 <= 2 /\ 2 <= 1 + K /\ 1 + K <= Len(a) /\ 2 \in Nat /\ 1 + K \in Nat
    BY <1>0, <1>7
  <2>2. SubSeq(a \o long, 2, 1 + K) = SubSeq(a, 2, 1 + K)
    BY <1>2, <1>7, <2>1, PrefixKeeps
  <2> QED BY <1>8, <2>2
<1> HIDE DEF b

<1>12. c \in Seq(Nat) /\ Len(c) = 6 + K /\ \A i \in 1..5 + K : c[i] = b[i]
  <2>1. c \in Seq(Nat) /\ Len(c) = Len(b) + Len(vm) /\ \A i \in 1..Len(b) : c[i] = b[i]
    BY <1>6, <1>9, CutNats
  <2> HIDE DEF c
  <2> QED BY <1>0, <1>6, <1>9, <2>1
<1>13. c[6 + K] = m
  <2>1. SubSeq(c, Len(b) + 1, Len(c)) = vm
    BY <1>6, <1>9, CutNats
  <2>2. Len(b) + 1 = 6 + K
    BY <1>0, <1>9
  <2> HIDE DEF c
  <2>3. SubSeq(c, 6 + K, 6 + K) = vm
    BY <1>12, <2>1, <2>2
  <2>4. 6 + K \in 1..Len(c)
    BY <1>0, <1>12
  <2>5. SubSeq(c, 6 + K, 6 + K)[1] = c[6 + K]
    BY <1>12, <2>4
  <2> QED BY <1>6, <2>3, <2>5
<1>14. SubSeq(c, 2, 1 + K) = key /\ SubSeq(c, 2 + K, 5 + K) = long
  <2>1. 1 <= 2 /\ 2 <= 1 + K /\ 1 + K <= Len(b) /\ 2 \in Nat /\ 1 + K \in Nat
        /\ 1 <= 2 + K /\ 2 + K <= 5 + K /\ 5 + K <= Len(b) /\ 2 + K \in Nat /\ 5 + K \in Nat
    BY <1>0, <1>9
  <2>2. SubSeq(b \o vm, 2, 1 + K) = SubSeq(b, 2, 1 + K)
    BY <1>6, <1>9, <2>1, PrefixKeeps
  <2>3. SubSeq(b \o vm, 2 + K, 5 + K) = SubSeq(b, 2 + K, 5 + K)
    BY <1>6, <1>9, <2>1, PrefixKeeps
  <2> QED BY <1>10, <1>11, <2>2, <2>3
<1> HIDE DEF c
<1>15. d \in Seq(Nat) /\ Len(d) = 7 + K /\ \A i \in 1..6 + K : d[i] = c[i]
  <2>1. d \in Seq(Nat) /\ Len(d) = Len(c) + Len(vl) /\ \A i \in 1..Len(c) : d[i] = c[i]
    BY <1>6, <1>12, CutNats
  <2> HIDE DEF d
  <2> QED BY <1>0, <1>6, <1>12, <2>1
<1>16. d[7 + K] = l
  <2>1. SubSeq(d, Len(c) + 1, Len(d)) = vl
    BY <1>6, <1>12, CutNats
  <2>2. Len(c) + 1 = 7 + K
    BY <1>0, <1>12
  <2> HIDE DEF d
  <2>3. SubSeq(d, 7 + K, 7 + K) = vl
    BY <1>15, <2>1, <2>2
  <2>4. 7 + K \in 1..Len(d)
    BY <1>0, <1>15
  <2>5. SubSeq(d, 7 + K, 7 + K)[1] = d[7 + K]
    BY <1>15, <2>4
  <2> QED BY <1>6, <2>3, <2>5
<1>17. SubSeq(d, 2, 1 + K) = key /\ SubSeq(d, 2 + K, 5 + K) = long
  <2>1. 1 <= 2 /\ 2 <= 1 + K /\ 1 + K <= Len(c) /\ 2 \in Nat /\ 1 + K \in Nat
        /\ 1 <= 2 + K /\ 2 + K <= 5 + K /\ 5 + K <= Len(c) /\ 2 + K \in Nat /\ 5 + K \in Nat
    BY <1>0, <1>12
  <2>2. SubSeq(c \o vl, 2, 1 + K) = SubSeq(c, 2, 1 + K)
    BY <1>6, <1>12, <2>1, PrefixKeeps
  <2>3. SubSeq(c \o vl, 2 + K, 5 + K) = SubSeq(c, 2 + K, 5 + K)
    BY <1>6, <1>12, <2>1, PrefixKeeps
  <2> QED BY <1>14, <2>2, <2>3
<1>18. signed_bytes(card) = d \o name
  <2>1. signed_bytes(card) = c \o (vl \o name)
    BY DEF signed_bytes, Blob, a, b, c, va, vm, vl, m, l, long, key, name
  <2>2. (c \o vl) \o name = c \o (vl \o name)
    BY <1>4, <1>6, <1>12, JoinNats
  <2> QED BY <2>1, <2>2
<1>19. CardFront(card) = d
  BY DEF CardFront, a, b, c, d, va, vm, vl, m, l, long, key, name
<1> HIDE DEF d
<1>20. d[1] = VERSION /\ d[6 + K] = m
  <2>1. 1 \in 1..1 + K /\ 1 \in 1..5 + K /\ 1 \in 1..6 + K /\ 6 + K \in 1..6 + K
    BY <1>0
  <2>2. d[1] = c[1] /\ c[1] = b[1] /\ b[1] = a[1] /\ d[6 + K] = c[6 + K]
    BY <1>9, <1>12, <1>15, <2>1
  <2> QED BY <1>7, <1>13, <2>2
<1>21. CardFixed = 7 + K /\ CardFixed - 1 = 6 + K
  BY <1>0 DEF CardFixed
<1>22. CardFront(card) \in Seq(Nat) /\ Len(CardFront(card)) = CardFixed
  BY <1>15, <1>19, <1>21
<1>23. PUBLIC_KEY_LEN \in Nat
  BY <1>0
<1>24. /\ CardFront(card)[1] = VERSION
       /\ CardFront(card)[CardFixed] = Len(CardName(card))
       /\ CardFront(card)[CardFixed - 1] = games_mask(card.games)
  BY <1>16, <1>19, <1>20, <1>21, Zenon DEF m, l, name
<1>25. /\ SubSeq(CardFront(card), 2, 1 + PUBLIC_KEY_LEN) = card.public_key
       /\ SubSeq(CardFront(card), 2 + PUBLIC_KEY_LEN, 5 + PUBLIC_KEY_LEN) = Long(card.published_at)
  BY <1>17, <1>19, Zenon DEF key, long
<1>26. signed_bytes(card) = CardFront(card) \o CardName(card)
  BY <1>18, <1>19, Zenon DEF name
<1> QED BY <1>22, <1>23, <1>24, <1>25, <1>26, Zenon

LEMMA SignedIs ==
  ASSUME NEW card \in Card
  PROVE  LET body == signed_bytes(card)
             sign == Sign(body)
             whole == encode_card(card)
         IN  /\ body \in Seq(Nat) /\ Len(body) = CardFixed + Len(CardName(card)) /\ body \in Bodies
             /\ sign \in Seq(Nat) /\ Len(sign) = SIGNATURE_LEN /\ SIGNATURE_LEN \in Nat \ {0}
             /\ CardFixed \in Nat \ {0, 1} /\ Len(CardName(card)) \in Nat
             /\ whole \in Seq(Nat) /\ Len(whole) = Len(body) + SIGNATURE_LEN
             /\ SubSeq(whole, 1, Len(body)) = body /\ SubSeq(whole, Len(body) + 1, Len(whole)) = sign
             /\ \A i \in 1..CardFixed : whole[i] = CardFront(card)[i]
<1> DEFINE G == CardFront(card)
           N == CardName(card)
           B == signed_bytes(card)
           S == Sign(B)
           W == B \o S
<1>1. G \in Seq(Nat) /\ Len(G) = CardFixed /\ N \in Seq(Nat)
  BY CardFrontIs, NameIs
<1>2. B = G \o N
  BY CardFrontIs
<1>3. B \in Bodies
  BY DEF Bodies
<1>4. S \in Seq(Nat) /\ Len(S) = SIGNATURE_LEN
  BY <1>3, SignatureAssumption
<1>5. SIGNATURE_LEN \in Nat \ {0} /\ CardFixed \in Nat \ {0, 1}
  BY CodecAssumption DEF CardFixed
<1> HIDE DEF G, N, S, B
<1>6. B \in Seq(Nat) /\ Len(B) = CardFixed + Len(N) /\ \A i \in 1..CardFixed : B[i] = G[i]
  <2> DEFINE GN == G \o N
  <2>1. GN \in Seq(Nat) /\ Len(GN) = Len(G) + Len(N) /\ \A i \in 1..Len(G) : GN[i] = G[i]
    BY <1>1, CutNats
  <2> HIDE DEF GN
  <2>2. B = GN
    BY <1>2 DEF GN
  <2> QED BY <1>1, <2>1, <2>2
<1>7. /\ W \in Seq(Nat) /\ Len(W) = Len(B) + Len(S)
      /\ SubSeq(W, 1, Len(B)) = B /\ SubSeq(W, Len(B) + 1, Len(W)) = S
      /\ \A i \in 1..Len(B) : W[i] = B[i]
  <2>1. B \in Seq(Nat) /\ S \in Seq(Nat)
    BY <1>4, <1>6
  <2> QED BY <2>1, CutNats
<1> HIDE DEF W
<1>8. Len(N) \in Nat
  BY <1>1
<1>9. \A i \in 1..CardFixed : i \in 1..Len(B)
  BY <1>5, <1>6, <1>8
<1>10. \A i \in 1..CardFixed : W[i] = G[i]
  BY <1>6, <1>7, <1>9
<1>11. Len(W) = Len(B) + SIGNATURE_LEN
  BY <1>4, <1>7
<1>12. W = encode_card(card)
  BY DEF W, S, B, encode_card
<1> QED BY <1>3, <1>4, <1>5, <1>6, <1>7, <1>8, <1>10, <1>11, <1>12, Zenon DEF G, N, B, S

(* What a card must be to be read.                                          *)
Checked(data, body_len) ==
  /\ Len(data) >= CardFixed + SIGNATURE_LEN /\ data[1] = VERSION
  /\ Len(data) = body_len + SIGNATURE_LEN
  /\ Verifies(SubSeq(data, body_len + 1, Len(data)), SubSeq(data, 1, body_len))

LEMMA DecodeCardIs ==
  ASSUME NEW data, NEW body_len, body_len = CardFixed + data[CardFixed]
  PROVE  decode_card(data)
           = IF Checked(data, body_len)
             THEN [public_key |-> SubSeq(data, 2, 1 + PUBLIC_KEY_LEN),
                   games |-> games_from_mask(data[CardFixed - 1]),
                   name |-> SubSeq(SubSeq(data, 1, body_len), CardFixed + 1, body_len),
                   published_at |-> FromLong(SubSeq(data, 2 + PUBLIC_KEY_LEN, 5 + PUBLIC_KEY_LEN))]
             ELSE WireError
BY Zenon DEF decode_card, CardFixed, Checked

LEMMA CardIsRead ==
  ASSUME NEW card \in Card
  PROVE  decode_card(encode_card(card)) = [card EXCEPT !.name = CardName(card)]
<1> DEFINE G == CardFront(card)
           N == CardName(card)
           B == signed_bytes(card)
           S == Sign(B)
           W == encode_card(card)
           K == PUBLIC_KEY_LEN
           len == Len(B)
<1>1. /\ B \in Seq(Nat) /\ len = CardFixed + Len(N) /\ B \in Bodies
      /\ S \in Seq(Nat) /\ Len(S) = SIGNATURE_LEN /\ SIGNATURE_LEN \in Nat \ {0}
      /\ CardFixed \in Nat \ {0, 1} /\ Len(N) \in Nat
      /\ W \in Seq(Nat) /\ Len(W) = len + SIGNATURE_LEN
      /\ SubSeq(W, 1, len) = B /\ SubSeq(W, len + 1, Len(W)) = S
      /\ \A i \in 1..CardFixed : W[i] = G[i]
  BY SignedIs, Zenon
<1>2. /\ G \in Seq(Nat) /\ Len(G) = CardFixed /\ K \in Nat
      /\ G[1] = VERSION /\ G[CardFixed] = Len(N)
      /\ G[CardFixed - 1] = games_mask(card.games)
      /\ SubSeq(G, 2, 1 + K) = card.public_key
      /\ SubSeq(G, 2 + K, 5 + K) = Long(card.published_at)
      /\ B = G \o N
  BY CardFrontIs, Zenon
<1>3. N \in Seq(Nat) /\ CardFixed = 7 + K
  <2>1. N \in Seq(Nat)
    BY NameIs
  <2>2. CardFixed = 7 + K
    BY <1>2 DEF CardFixed
  <2> QED BY <2>1, <2>2
<1>4. IsCard(card) /\ W = B \o S
  BY SentAssumption DEF encode_card
<1> HIDE DEF G, N, B, S, W, K, len
<1>5. W = G \o (N \o S) /\ N \o S \in Seq(Nat)
  <2>1. (G \o N) \o S = G \o (N \o S) /\ N \o S \in Seq(Nat)
    <3>1. G \in Seq(Nat) /\ N \in Seq(Nat) /\ S \in Seq(Nat)
      BY <1>1, <1>2, <1>3
    <3> QED BY <3>1, JoinNats
  <2> QED BY <1>2, <1>4, <2>1
<1>6. SubSeq(W, 2, 1 + K) = card.public_key /\ SubSeq(W, 2 + K, 5 + K) = Long(card.published_at)
  <2> DEFINE rest == N \o S
  <2>1. 2 \in Nat /\ 1 + K \in Nat /\ 2 + K \in Nat /\ 5 + K \in Nat /\ 2 + K <= 5 + K
        /\ 1 <= 2 /\ 1 <= 2 + K /\ 1 + K <= Len(G) /\ 5 + K <= Len(G) /\ G \in Seq(Nat) /\ rest \in Seq(Nat)
    BY <1>2, <1>3, <1>5
  <2>0. 2 <= 1 + K
    <3>1. K \in Nat \ {0}
      BY CodecAssumption DEF K
    <3> QED BY <3>1
  <2> HIDE DEF rest
  <2>2. SubSeq(G \o rest, 2, 1 + K) = SubSeq(G, 2, 1 + K)
    BY <2>0, <2>1, PrefixKeeps
  <2>3. SubSeq(G \o rest, 2 + K, 5 + K) = SubSeq(G, 2 + K, 5 + K)
    BY <2>1, PrefixKeeps
  <2>4. W = G \o rest
    BY <1>5 DEF rest
  <2> QED BY <1>2, <2>2, <2>3, <2>4, Zenon
<1>7. W[1] = VERSION /\ W[CardFixed] = Len(N) /\ W[CardFixed - 1] = games_mask(card.games)
  <2>1. 1 \in 1..CardFixed /\ CardFixed \in 1..CardFixed /\ CardFixed - 1 \in 1..CardFixed
    BY <1>1
  <2> QED BY <1>1, <1>2, <2>1, Zenon
<1>8. SubSeq(B, CardFixed + 1, len) = N
  <2>1. SubSeq(G \o N, Len(G) + 1, Len(G \o N)) = N
    <3>1. G \in Seq(Nat) /\ N \in Seq(Nat)
      BY <1>2, <1>3
    <3> QED BY <3>1, CutNats
  <2> QED BY <1>2, <2>1, Zenon DEF len
<1>9. Checked(W, len)
  <2>1. Len(W) >= CardFixed + SIGNATURE_LEN
    <3>1. PICK n \in Nat : n = Len(N)
      BY <1>1
    <3>2. Len(W) = (CardFixed + n) + SIGNATURE_LEN
      BY <1>1, <3>1
    <3>3. (CardFixed + n) + SIGNATURE_LEN >= CardFixed + SIGNATURE_LEN
      BY <1>1
    <3> QED BY <3>2, <3>3
  <2>2. Verifies(S, B)
    BY <1>1, Zenon DEF Verifies, S
  <2> QED BY <1>1, <1>7, <2>1, <2>2, Zenon DEF Checked
<1>10. decode_card(W)
         = IF Checked(W, len)
           THEN [public_key |-> SubSeq(W, 2, 1 + K), games |-> games_from_mask(W[CardFixed - 1]),
                 name |-> SubSeq(SubSeq(W, 1, len), CardFixed + 1, len),
                 published_at |-> FromLong(SubSeq(W, 2 + K, 5 + K))]
           ELSE WireError
  <2>1. len = CardFixed + W[CardFixed]
    BY <1>1, <1>7, Zenon
  <2> QED BY <2>1, DecodeCardIs, Zenon DEF K
<1>11. games_from_mask(games_mask(card.games)) = card.games
  <2>1. card.games \in SUBSET (0..Catalog - 1)
    BY <1>4 DEF IsCard
  <2> QED BY <2>1, GamesAreRead
<1>12. FromLong(Long(card.published_at)) = card.published_at
  <2>1. card.published_at \in Nat /\ card.published_at \div 65536 < 65536
    BY <1>4 DEF IsCard
  <2> QED BY <2>1, LongIs
<1>13. decode_card(W)
         = [public_key |-> card.public_key, games |-> card.games, name |-> N,
            published_at |-> card.published_at]
  BY <1>1, <1>6, <1>7, <1>8, <1>9, <1>10, <1>11, <1>12, Zenon
<1>14. [card EXCEPT !.name = N]
         = [public_key |-> card.public_key, games |-> card.games, name |-> N,
            published_at |-> card.published_at]
  <2>1. card = [public_key |-> card.public_key, games |-> card.games, name |-> card.name,
                published_at |-> card.published_at]
    BY <1>4 DEF IsCard
  <2> QED BY <2>1
<1> QED BY <1>13, <1>14, Zenon DEF W, N

(* A card read has the length its bytes say and a signature that verifies.   *)
LEMMA ReadCardIs ==
  ASSUME NEW data, NEW body_len, body_len = CardFixed + data[CardFixed],
         decode_card(data) # WireError
  PROVE  Checked(data, body_len)
BY DecodeCardIs, Zenon

LEMMA CardFixedIs ==
  ASSUME NEW card \in Card
  PROVE  encode_card(card)[CardFixed] = Len(CardName(card)) /\ encode_card(card)[1] = VERSION
<1>1. CardFixed \in 1..CardFixed /\ 1 \in 1..CardFixed
  BY SignedIs
<1>2. \A i \in 1..CardFixed : encode_card(card)[i] = CardFront(card)[i]
  BY SignedIs, Zenon
<1> QED BY <1>1, <1>2, CardFrontIs, Zenon

LEMMA OtherLengthIsRefused ==
  ASSUME NEW card \in Card, NEW data, data[CardFixed] = Len(CardName(card)),
         Len(data) # Len(encode_card(card))
  PROVE  decode_card(data) = WireError
<1> SUFFICES ASSUME decode_card(data) # WireError PROVE FALSE
  OBVIOUS
<1> DEFINE len == CardFixed + data[CardFixed]
<1>1. Checked(data, len)
  BY ReadCardIs
<1>2. Len(data) = len + SIGNATURE_LEN
  BY <1>1, Zenon DEF Checked
<1>3. Len(encode_card(card)) = CardFixed + Len(CardName(card)) + SIGNATURE_LEN
  BY SignedIs, Zenon
<1> QED BY <1>2, <1>3, Zenon

LEMMA ShorterCardIsRefused ==
  ASSUME NEW card \in Card, NEW n \in 0..Len(encode_card(card)) - 1
  PROVE  decode_card(SubSeq(encode_card(card), 1, n)) = WireError
<1> DEFINE W == encode_card(card)
           p == SubSeq(W, 1, n)
           len == CardFixed + p[CardFixed]
<1>1. W \in Seq(Nat) /\ CardFixed \in Nat \ {0, 1} /\ SIGNATURE_LEN \in Nat \ {0}
  BY SignedIs, Zenon
<1> HIDE DEF W
<1>2. n \in 0..Len(W) /\ n # Len(W) /\ n \in Nat
  BY <1>1 DEF W
<1>3. Len(p) = n /\ \A i \in 1..n : p[i] = W[i]
  BY <1>1, <1>2
<1> HIDE DEF p
<1>4. CASE n < CardFixed + SIGNATURE_LEN
  <2>1. ~(Len(p) >= CardFixed + SIGNATURE_LEN)
    BY <1>1, <1>2, <1>3, <1>4
  <2>2. ~Checked(p, len)
    BY <2>1, Zenon DEF Checked
  <2>3. decode_card(p) = WireError
    BY <2>2, ReadCardIs, Zenon
  <2> QED BY <2>3, Zenon DEF p, W
<1>5. CASE ~(n < CardFixed + SIGNATURE_LEN)
  <2>1. CardFixed \in 1..n
    BY <1>1, <1>2, <1>5
  <2>2. p[CardFixed] = Len(CardName(card))
    BY <1>3, <2>1, CardFixedIs DEF W
  <2>3. Len(p) # Len(W)
    BY <1>2, <1>3
  <2>4. decode_card(p) = WireError
    BY <2>2, <2>3, OtherLengthIsRefused, Zenon DEF W
  <2> QED BY <2>4, Zenon DEF p, W
<1> QED BY <1>4, <1>5

LEMMA LongerCardIsRefused ==
  ASSUME NEW card \in Card, NEW byte \in Nat
  PROVE  decode_card(Append(encode_card(card), byte)) = WireError
<1> DEFINE W == encode_card(card)
           d == Append(W, byte)
<1>1. W \in Seq(Nat) /\ CardFixed \in Nat \ {0, 1} /\ CardFixed <= Len(W) /\ Len(W) \in Nat
  <2>1. PICK k, l \in Nat : /\ k = Len(CardName(card)) /\ l = SIGNATURE_LEN
                            /\ Len(W) = CardFixed + k + l
    BY SignedIs, Zenon
  <2>2. W \in Seq(Nat) /\ CardFixed \in Nat \ {0, 1}
    BY SignedIs, Zenon
  <2>3. CardFixed <= CardFixed + k + l
    BY <2>2
  <2> QED BY <2>1, <2>2, <2>3
<1> HIDE DEF W
<1>2. Len(d) = Len(W) + 1 /\ d[CardFixed] = W[CardFixed]
  <2>1. CardFixed \in 1..Len(W)
    BY <1>1
  <2> QED BY <1>1, <2>1, AppendProperties
<1> HIDE DEF d
<1>3. Len(d) # Len(W)
  BY <1>1, <1>2
<1>4. d[CardFixed] = Len(CardName(card))
  BY <1>2, CardFixedIs DEF W
<1>5. decode_card(d) = WireError
  BY <1>3, <1>4, OtherLengthIsRefused, Zenon DEF W
<1> QED BY <1>5 DEF d, W

LEMMA SubAt ==
  ASSUME NEW T, NEW s \in Seq(T), NEW m \in 0..Len(s), NEW j \in 1..Len(s) - m
  PROVE  SubSeq(s, m + 1, Len(s))[j] = s[m + j]
OBVIOUS

LEMMA OtherCardIsRefused ==
  ASSUME NEW card \in Card, NEW i \in DOMAIN encode_card(card), NEW byte \in Nat,
         byte # encode_card(card)[i]
  PROVE  decode_card([encode_card(card) EXCEPT ![i] = byte]) = WireError
<1> DEFINE W == encode_card(card)
           B == signed_bytes(card)
           S == Sign(B)
           d == [W EXCEPT ![i] = byte]
           k == Len(CardName(card))
           l == SIGNATURE_LEN
           len == Len(B)
<1>1. /\ B \in Seq(Nat) /\ len = CardFixed + k /\ B \in Bodies /\ S \in Seq(Nat)
      /\ l \in Nat \ {0} /\ CardFixed \in Nat \ {0, 1} /\ k \in Nat
      /\ W \in Seq(Nat) /\ Len(W) = len + l
      /\ SubSeq(W, 1, len) = B /\ SubSeq(W, len + 1, Len(W)) = S
      /\ W[CardFixed] = k
  BY SignedIs, CardFixedIs, Zenon
<1>0. i \in DOMAIN W /\ byte # W[i]
  OBVIOUS
<1> HIDE DEF W, B, S, k, l, len
<1>2. d \in Seq(Nat) /\ Len(d) = Len(W) /\ i \in 1..Len(W) /\ \A j \in 1..Len(W) : j # i => d[j] = W[j]
  <2>1. i \in 1..Len(W)
    BY <1>0, <1>1
  <2> QED BY <1>1, <2>1
<1>3. d[i] = byte
  BY <1>0
<1> HIDE DEF d
<1> SUFFICES ASSUME decode_card(d) # WireError PROVE FALSE
  BY Zenon DEF d, W
<1>4. CASE i = CardFixed
  <2>1. Checked(d, CardFixed + d[CardFixed])
    BY ReadCardIs
  <2>2. Len(d) = (CardFixed + byte) + l
    BY <1>3, <1>4, <2>1, Zenon DEF Checked, l
  <2>3. Len(d) = (CardFixed + k) + l
    BY <1>1, <1>2
  <2>4. byte = k
    BY <1>1, <2>2, <2>3
  <2> QED BY <1>0, <1>1, <1>4, <2>4
<1>5. CASE i # CardFixed
  <2>1. CardFixed \in 1..Len(W)
    BY <1>1
  <2>2. d[CardFixed] = k
    BY <1>1, <1>2, <1>5, <2>1
  <2>3. Checked(d, len)
    <3>1. len = CardFixed + d[CardFixed]
      BY <1>1, <2>2
    <3> QED BY <3>1, ReadCardIs
  <2>4. SubSeq(d, 1, len) \in Bodies /\ SubSeq(d, len + 1, Len(d)) = Sign(SubSeq(d, 1, len))
    BY <2>3, Zenon DEF Checked, Verifies
  <2>5. len \in 0..Len(W) /\ len \in Nat /\ len <= Len(W)
    BY <1>1
  <2>6. CASE i <= len
    <3>1. SubSeq(d, len + 1, Len(d)) = S
      <4>1. \A j \in len + 1..Len(W) : d[j] = W[j]
        BY <1>2, <2>5, <2>6
      <4>2. SubSeq(d, len + 1, Len(d)) = SubSeq(W, len + 1, Len(W))
        BY <1>1, <1>2, <2>5, <4>1
      <4> QED BY <1>1, <4>2
    <3>2. Sign(SubSeq(d, 1, len)) = Sign(B)
      BY <2>4, <3>1, Zenon DEF S
    <3>3. SubSeq(d, 1, len) = B
      BY <1>1, <2>4, <3>2, SignatureAssumption, Zenon
    <3>4. i \in 1..len
      BY <1>2, <2>5, <2>6
    <3>5. SubSeq(d, 1, len)[i] = d[i] /\ SubSeq(W, 1, len)[i] = W[i]
      BY <1>1, <1>2, <2>5, <3>4
    <3> QED BY <1>0, <1>1, <1>3, <3>3, <3>5, Zenon
  <2>7. CASE ~(i <= len)
    <3>1. SubSeq(d, 1, len) = B
      <4>1. \A j \in 1..len : d[j] = W[j]
        BY <1>2, <2>5, <2>7
      <4>2. SubSeq(d, 1, len) = SubSeq(W, 1, len)
        BY <1>1, <1>2, <2>5, <4>1
      <4> QED BY <1>1, <4>2
    <3>2. SubSeq(d, len + 1, Len(d)) = SubSeq(W, len + 1, Len(W))
      BY <1>1, <2>4, <3>1, Zenon DEF S
    <3>3. i - len \in 1..Len(W) - len /\ len + (i - len) = i
      BY <1>2, <2>5, <2>7
    <3>4. SubSeq(d, len + 1, Len(d))[i - len] = d[i] /\ SubSeq(W, len + 1, Len(W))[i - len] = W[i]
      <4> DEFINE j == i - len
      <4>1. d \in Seq(Nat) /\ W \in Seq(Nat) /\ j \in 1..Len(d) - len /\ j \in 1..Len(W) - len
            /\ len \in 0..Len(d) /\ len \in 0..Len(W)
        BY <1>1, <1>2, <2>5, <3>3
      <4> HIDE DEF j
      <4>2. SubSeq(d, len + 1, Len(d))[j] = d[len + j]
        BY <4>1, SubAt
      <4>3. SubSeq(W, len + 1, Len(W))[j] = W[len + j]
        BY <4>1, SubAt
      <4>4. len + j = i
        BY <3>3 DEF j
      <4> QED BY <4>2, <4>3, <4>4, Zenon DEF j
    <3> QED BY <1>0, <1>3, <3>2, <3>4, Zenon
  <2> QED BY <2>6, <2>7
<1> QED BY <1>4, <1>5

-----------------------------------------------------------------------------
(* Lines, cut into their pieces.                                            *)

Cuts == Seq(Seq(Nat)) \ {<<>>}
More(seps, c, pieces) ==
  IF c \in seps THEN << <<>> >> \o pieces ELSE [pieces EXCEPT ![1] = <<c>> \o @]

LEMMA MoreIs ==
  ASSUME NEW seps, NEW c \in Nat, NEW pieces \in Cuts
  PROVE  More(seps, c, pieces) \in Cuts
<1>1. pieces \in Seq(Seq(Nat)) /\ pieces # <<>>
  BY DEF Cuts
<1>2. CASE c \in seps
  <2>1. <<>> \in Seq(Nat)
    OBVIOUS
  <2>2. << <<>> >> \o pieces \in Seq(Seq(Nat)) /\ << <<>> >> \o pieces # <<>>
    BY <1>1, <2>1, ConsIs
  <2> QED BY <1>2, <2>2 DEF More, Cuts
<1>3. CASE c \notin seps
  <2>1. 1 \in 1..Len(pieces) /\ pieces[1] \in Seq(Nat)
    BY <1>1
  <2>2. <<c>> \o pieces[1] \in Seq(Nat)
    BY <2>1
  <2> DEFINE e == [pieces EXCEPT ![1] = <<c>> \o pieces[1]]
  <2>3. e \in Seq(Seq(Nat)) /\ Len(e) = Len(pieces) /\ Len(pieces) # 0
    BY <1>1, <2>1, <2>2
  <2>4. More(seps, c, pieces) = e
    BY <1>3 DEF More
  <2> HIDE DEF e
  <2>5. e # <<>>
    BY <2>3
  <2> QED BY <2>3, <2>4, <2>5 DEF Cuts
<1> QED BY <1>2, <1>3

LEMMA PiecesIs ==
  ASSUME NEW seps, NEW text \in Seq(Nat)
  PROVE  \E last \in [0..Len(text) -> Cuts] :
           /\ last[0] = << <<>> >>
           /\ \A k \in 1..Len(text) : last[k] = More(seps, text[Len(text) + 1 - k], last[k - 1])
           /\ Pieces(seps, text) = last[Len(text)]
<1> DEFINE n == Len(text)
           one == << <<>> >>
           Rec(f) == f = [k \in 0..n |-> IF k = 0 THEN one
                                         ELSE IF text[n + 1 - k] \in seps THEN << <<>> >> \o f[k - 1]
                                         ELSE [f[k - 1] EXCEPT ![1] = <<text[n + 1 - k]>> \o @]]
           F == [k \in 1..n |-> [x \in Cuts |-> More(seps, text[n + 1 - k], x)]]
<1>1. n \in Nat /\ \A k \in 1..n : n + 1 - k \in 1..n /\ text[n + 1 - k] \in Nat
  <2>1. n \in Nat /\ \A k \in 1..n : n + 1 - k \in 1..n
    OBVIOUS
  <2>2. \A k \in 1..n : text[k] \in Nat
    OBVIOUS
  <2> QED BY <2>1, <2>2
<1>0. one \in Cuts
  <2>1. <<>> \in Seq(Nat)
    OBVIOUS
  <2> QED BY <2>1 DEF Cuts
<1>2. F \in [1..n -> [Cuts -> Cuts]]
  <2> HIDE DEF n
  <2> QED BY <1>1, MoreIs
<1>3. \A k \in 1..n, x \in Cuts : F[k][x] = More(seps, text[n + 1 - k], x)
  OBVIOUS
<1> HIDE DEF F, n, one
<1>4. PICK g \in [0..n -> Cuts] : Folds(g, one, F, n)
  BY <1>0, <1>1, <1>2, Recursion
<1>5. ASSUME NEW k \in 1..n PROVE g[k] = More(seps, text[n + 1 - k], g[k - 1])
  <2>1. g[k - 1] \in Cuts
    BY <1>1, <1>4
  <2>2. g[k] = F[k][g[k - 1]]
    BY <1>4 DEF Folds
  <2> QED BY <1>3, <2>1, <2>2, Zenon
<1>6. Rec(g)
  <2>1. g[0] = one /\ g = [k \in 0..n |-> g[k]]
    BY <1>4 DEF Folds
  <2>2. ASSUME NEW k \in 0..n
        PROVE  g[k] = IF k = 0 THEN one
                      ELSE IF text[n + 1 - k] \in seps THEN << <<>> >> \o g[k - 1]
                      ELSE [g[k - 1] EXCEPT ![1] = <<text[n + 1 - k]>> \o @]
    <3>1. k = 0 \/ k \in 1..n
      BY <1>1
    <3>2. CASE k = 0
      BY <2>1, <3>2
    <3>3. CASE k # 0
      <4>1. g[k] = More(seps, text[n + 1 - k], g[k - 1])
        BY <1>5, <3>1, <3>3
      <4> QED BY <3>3, <4>1, Zenon DEF More
    <3> QED BY <3>2, <3>3
  <2>3. [k \in 0..n |-> g[k]]
          = [k \in 0..n |-> IF k = 0 THEN one
                            ELSE IF text[n + 1 - k] \in seps THEN << <<>> >> \o g[k - 1]
                            ELSE [g[k - 1] EXCEPT ![1] = <<text[n + 1 - k]>> \o @]]
    BY <2>2, Zenon
  <2> QED BY <2>1, <2>3, Zenon
<1> HIDE DEF Rec
<1>7. PICK f : f = (CHOOSE fun : Rec(fun))
  OBVIOUS
<1>8. Rec(f)
  BY <1>6, <1>7
<1>9. f = [k \in 0..n |-> f[k]] /\ f[0] = one
      /\ \A k \in 1..n : f[k] = More(seps, text[n + 1 - k], f[k - 1])
  <2>1. \A k \in 0..n : f[k] = IF k = 0 THEN one
                               ELSE IF text[n + 1 - k] \in seps THEN << <<>> >> \o f[k - 1]
                               ELSE [f[k - 1] EXCEPT ![1] = <<text[n + 1 - k]>> \o @]
    BY <1>8, Zenon DEF Rec
  <2>2. f = [k \in 0..n |-> f[k]]
    BY <1>8, <2>1, Zenon DEF Rec
  <2>3. 0 \in 0..n /\ \A k \in 1..n : k \in 0..n /\ k # 0
    BY <1>1
  <2>4. ASSUME NEW k \in 1..n PROVE f[k] = More(seps, text[n + 1 - k], f[k - 1])
    <3>1. f[k] = IF text[n + 1 - k] \in seps THEN << <<>> >> \o f[k - 1]
                 ELSE [f[k - 1] EXCEPT ![1] = <<text[n + 1 - k]>> \o @]
      BY <2>1, <2>3, Zenon
    <3> QED BY <3>1, Zenon DEF More
  <2> QED BY <2>1, <2>2, <2>3, <2>4, Zenon
<1>10. Unfolds(f, one, F, n, Cuts)
  BY <1>3, <1>9, Zenon DEF Unfolds
<1>11. f \in [0..n -> Cuts]
  BY <1>0, <1>1, <1>2, <1>10, FoldsAre
<1>12. Pieces(seps, text) = f[n]
  BY <1>7 DEF Pieces, n, Rec, one
<1> QED BY <1>9, <1>11, <1>12 DEF n, one

LEMMA PiecesType ==
  ASSUME NEW seps, NEW text \in Seq(Nat) PROVE Pieces(seps, text) \in Cuts
<1>1. PICK last \in [0..Len(text) -> Cuts] : Pieces(seps, text) = last[Len(text)]
  BY PiecesIs
<1>2. Len(text) \in 0..Len(text)
  OBVIOUS
<1> QED BY <1>1, <1>2

LEMMA PiecesOfNone == ASSUME NEW seps PROVE Pieces(seps, <<>>) = << <<>> >>
<1>1. <<>> \in Seq(Nat) /\ Len(<<>>) = 0
  OBVIOUS
<1>2. PICK last \in [0..Len(<<>>) -> Cuts] :
        last[0] = << <<>> >> /\ Pieces(seps, <<>>) = last[Len(<<>>)]
  BY <1>1, PiecesIs
<1> QED BY <1>1, <1>2

LEMMA PiecesCons ==
  ASSUME NEW seps, NEW x \in Nat, NEW text \in Seq(Nat)
  PROVE  Pieces(seps, <<x>> \o text) = More(seps, x, Pieces(seps, text))
<1> DEFINE n == Len(text)
           all == <<x>> \o text
<1>1. n \in Nat /\ all \in Seq(Nat) /\ Len(all) = n + 1 /\ all[1] = x
      /\ \A i \in 1..n : all[i + 1] = text[i]
  BY ConsIs
<1>2. PICK last \in [0..n -> Cuts] :
         /\ last[0] = << <<>> >>
         /\ \A k \in 1..n : last[k] = More(seps, text[n + 1 - k], last[k - 1])
         /\ Pieces(seps, text) = last[n]
  BY PiecesIs
<1> HIDE DEF n, all
<1>3. PICK most \in [0..n + 1 -> Cuts] :
         /\ most[0] = << <<>> >>
         /\ \A k \in 1..n + 1 : most[k] = More(seps, all[n + 1 + 1 - k], most[k - 1])
         /\ Pieces(seps, all) = most[n + 1]
  <2>1. \E most \in [0..Len(all) -> Cuts] :
           /\ most[0] = << <<>> >>
           /\ \A k \in 1..Len(all) : most[k] = More(seps, all[Len(all) + 1 - k], most[k - 1])
           /\ Pieces(seps, all) = most[Len(all)]
    BY <1>1, PiecesIs, Zenon
  <2> QED BY <1>1, <2>1
<1> DEFINE S == {k \in Nat : k <= n => most[k] = last[k]}
<1>4. 0 \in S
  BY <1>2, <1>3
<1>5. ASSUME NEW k \in Nat, k \in S PROVE k + 1 \in S
  <2> SUFFICES ASSUME k + 1 <= n PROVE most[k + 1] = last[k + 1]
    OBVIOUS
  <2>1. /\ k + 1 \in 1..n /\ k + 1 \in 1..n + 1 /\ (k + 1) - 1 = k
        /\ n + 1 - (k + 1) = n - k /\ n + 1 + 1 - (k + 1) = (n - k) + 1 /\ n - k \in 1..n
    BY <1>1
  <2>2. most[k] = last[k]
    BY <1>1, <1>5, <2>1
  <2>3. most[k + 1] = More(seps, all[(n - k) + 1], most[k])
    BY <1>3, <2>1
  <2>4. last[k + 1] = More(seps, text[n - k], last[k])
    BY <1>2, <2>1
  <2>5. all[(n - k) + 1] = text[n - k]
    BY <1>1, <2>1
  <2> QED BY <2>2, <2>3, <2>4, <2>5
<1> HIDE DEF S
<1>6. n \in S
  BY <1>1, <1>4, <1>5, Induct
<1>7. most[n] = last[n]
  BY <1>1, <1>6 DEF S
<1>8. n + 1 \in 1..n + 1 /\ (n + 1) - 1 = n /\ n + 1 + 1 - (n + 1) = 1
  BY <1>1
<1>9. most[n + 1] = More(seps, all[1], most[n])
  BY <1>3, <1>8
<1> QED BY <1>1, <1>2, <1>3, <1>7, <1>9 DEF all

(* A part with no separator in it goes before the first piece.               *)
Before(part, pieces) == [pieces EXCEPT ![1] = part \o @]

LEMMA BeforeIs ==
  ASSUME NEW part \in Seq(Nat), NEW pieces \in Cuts
  PROVE  /\ Before(part, pieces) \in Cuts /\ Len(Before(part, pieces)) = Len(pieces)
         /\ 1 \in 1..Len(pieces) /\ pieces[1] \in Seq(Nat)
         /\ Before(part, pieces)[1] = part \o pieces[1]
         /\ \A i \in 2..Len(pieces) : Before(part, pieces)[i] = pieces[i]
<1>1. pieces \in Seq(Seq(Nat)) /\ pieces # <<>>
  BY DEF Cuts
<1>2. 1 \in 1..Len(pieces) /\ pieces[1] \in Seq(Nat)
  BY <1>1
<1>3. part \o pieces[1] \in Seq(Nat)
  BY <1>2, ConcatProperties
<1> DEFINE e == Before(part, pieces)
<1>4. e \in Seq(Seq(Nat)) /\ Len(e) = Len(pieces) /\ e[1] = part \o pieces[1]
      /\ \A i \in 2..Len(pieces) : e[i] = pieces[i]
  BY <1>1, <1>2, <1>3 DEF Before
<1> HIDE DEF e
<1>5. e # <<>>
  BY <1>2, <1>4
<1> QED BY <1>2, <1>4, <1>5 DEF e, Cuts

LEMMA BeforeBefore ==
  ASSUME NEW a \in Seq(Nat), NEW b \in Seq(Nat), NEW pieces \in Cuts
  PROVE  Before(a, Before(b, pieces)) = Before(a \o b, pieces)
<1> DEFINE one == Before(b, pieces)
           two == Before(a, one)
           ab == a \o b
           both == Before(ab, pieces)
<1>1. one \in Cuts /\ Len(one) = Len(pieces) /\ 1 \in 1..Len(pieces) /\ pieces[1] \in Seq(Nat)
      /\ one[1] = b \o pieces[1] /\ \A i \in 2..Len(pieces) : one[i] = pieces[i]
  BY BeforeIs, Zenon
<1>2. ab \in Seq(Nat) /\ a \o (b \o pieces[1]) = ab \o pieces[1]
  <2> DEFINE first == pieces[1]
  <2>1. first \in Seq(Nat)
    BY <1>1
  <2> HIDE DEF first
  <2>2. (a \o b) \o first = a \o (b \o first)
    BY <2>1, JoinNats
  <2>3. a \o b \in Seq(Nat)
    BY CutNats
  <2> QED BY <2>2, <2>3 DEF first
<1> HIDE DEF one, ab
<1>3. two \in Cuts /\ Len(two) = Len(one) /\ two[1] = a \o one[1]
      /\ \A i \in 2..Len(one) : two[i] = one[i]
  BY <1>1, BeforeIs, Zenon
<1>4. both \in Cuts /\ Len(both) = Len(pieces) /\ both[1] = ab \o pieces[1]
      /\ \A i \in 2..Len(pieces) : both[i] = pieces[i]
  BY <1>2, BeforeIs, Zenon
<1> HIDE DEF two, both
<1>5. two \in Seq(Seq(Nat)) /\ both \in Seq(Seq(Nat)) /\ Len(two) = Len(both)
  BY <1>1, <1>3, <1>4 DEF Cuts
<1>6. two[1] = both[1]
  BY <1>1, <1>2, <1>3, <1>4, Zenon
<1>7. ASSUME NEW i \in 1..Len(two) PROVE two[i] = both[i]
  <2>1. CASE i = 1
    BY <1>6, <2>1
  <2>2. CASE i # 1
    <3>1. i \in 2..Len(pieces) /\ i \in 2..Len(one)
      BY <1>1, <1>3, <1>5, <2>2
    <3> QED BY <1>1, <1>3, <1>4, <3>1
  <2> QED BY <2>1, <2>2
<1>8. two = both
  BY <1>5, <1>7, SeqEqual
<1> QED BY <1>8 DEF two, one, both, ab

LEMMA JoinCuts ==
  \A a, b, c \in Seq(Seq(Nat)) : (a \o b) \o c = a \o (b \o c) /\ b \o c \in Seq(Seq(Nat))
BY ConcatAssociative

LEMMA JoinAt ==
  \A a, b \in Seq(Seq(Nat)) :
    /\ Len(a \o b) = Len(a) + Len(b) /\ Len(a) \in Nat /\ Len(b) \in Nat
    /\ \A i \in 1..Len(a) : (a \o b)[i] = a[i]
    /\ \A i \in 1..Len(b) : (a \o b)[Len(a) + i] = b[i]
OBVIOUS

LEMMA BeforeJoin ==
  ASSUME NEW part \in Seq(Nat), NEW P \in Cuts, NEW Q \in Cuts
  PROVE  Before(part, P \o Q) = Before(part, P) \o Q
<1>1. P \in Seq(Seq(Nat)) /\ P # <<>> /\ Q \in Seq(Seq(Nat)) /\ 1 \in 1..Len(P)
  BY DEF Cuts
<1> DEFINE p == Before(part, P)
           all == P \o Q
           new == Before(part, all)
           both == p \o Q
<1>2. p \in Seq(Seq(Nat)) /\ Len(p) = Len(P) /\ p[1] = part \o P[1] /\ \A i \in 2..Len(P) : p[i] = P[i]
  BY BeforeIs DEF Cuts
<1>3. all \in Seq(Seq(Nat)) /\ Len(all) = Len(P) + Len(Q) /\ Len(P) \in Nat /\ Len(Q) \in Nat
      /\ (\A i \in 1..Len(P) : all[i] = P[i]) /\ \A i \in 1..Len(Q) : all[Len(P) + i] = Q[i]
  BY <1>1
<1> HIDE DEF p, all
<1>4. all \in Cuts
  <2>1. all # <<>>
    BY <1>1, <1>3
  <2> QED BY <1>3, <2>1 DEF Cuts
<1>5. new \in Seq(Seq(Nat)) /\ Len(new) = Len(all) /\ new[1] = part \o all[1]
      /\ \A i \in 2..Len(all) : new[i] = all[i]
  BY <1>4, BeforeIs DEF Cuts
<1>6. both \in Seq(Seq(Nat)) /\ Len(both) = Len(p) + Len(Q)
      /\ (\A i \in 1..Len(p) : both[i] = p[i]) /\ \A i \in 1..Len(Q) : both[Len(p) + i] = Q[i]
  <2>1. p \in Seq(Seq(Nat)) /\ Q \in Seq(Seq(Nat))
    BY <1>1, <1>2
  <2> QED BY <2>1, JoinAt, JoinCuts
<1> HIDE DEF new, both
<1>7. ASSUME NEW i \in 1..Len(new) PROVE new[i] = both[i]
  <2>0. 1 \in 1..Len(P) /\ all[1] = P[1]
    BY <1>1, <1>3
  <2>1. CASE i = 1
    <3>1. both[1] = p[1]
      BY <1>2, <1>6, <2>0
    <3> QED BY <1>2, <1>5, <2>0, <2>1, <3>1, Zenon
  <2>2. CASE i # 1 /\ i <= Len(P)
    <3>1. i \in 2..Len(all) /\ i \in 1..Len(P) /\ i \in 2..Len(P) /\ i \in 1..Len(p)
      BY <1>2, <1>3, <1>5, <2>2
    <3> QED BY <1>2, <1>3, <1>5, <1>6, <3>1, Zenon
  <2>3. CASE ~(i <= Len(P))
    <3>1. i \in 2..Len(all) /\ i - Len(P) \in 1..Len(Q) /\ Len(P) + (i - Len(P)) = i
      BY <1>1, <1>3, <1>5, <2>3
    <3>2. all[i] = Q[i - Len(P)]
      BY <1>3, <3>1
    <3>3. both[i] = Q[i - Len(P)]
      BY <1>2, <1>6, <3>1
    <3> QED BY <1>5, <3>1, <3>2, <3>3
  <2> QED BY <2>1, <2>2, <2>3
<1>8. Len(new) = Len(both)
  BY <1>2, <1>3, <1>5, <1>6
<1>9. new = both
  BY <1>5, <1>6, <1>7, <1>8, SeqEqual
<1> QED BY <1>9 DEF new, both, p, all

LEMMA BeforeNone ==
  ASSUME NEW pieces \in Cuts PROVE Before(<<>>, pieces) = pieces
<1>1. <<>> \in Seq(Nat)
  OBVIOUS
<1> DEFINE e == Before(<<>>, pieces)
<1>2. e \in Cuts /\ Len(e) = Len(pieces) /\ 1 \in 1..Len(pieces) /\ pieces[1] \in Seq(Nat)
      /\ e[1] = <<>> \o pieces[1] /\ \A i \in 2..Len(pieces) : e[i] = pieces[i]
  BY <1>1, BeforeIs
<1> HIDE DEF e
<1>3. e[1] = pieces[1]
  BY <1>2, ConcatEmptySeq
<1>4. e \in Seq(Seq(Nat)) /\ pieces \in Seq(Seq(Nat))
  BY <1>2 DEF Cuts
<1>5. ASSUME NEW i \in 1..Len(e) PROVE e[i] = pieces[i]
  <2>1. i = 1 \/ i \in 2..Len(pieces)
    BY <1>2, <1>4
  <2> QED BY <1>2, <1>3, <2>1
<1>6. e = pieces
  BY <1>2, <1>4, <1>5, SeqEqual
<1> QED BY <1>6 DEF e

LEMMA PiecesAfter ==
  ASSUME NEW seps, NEW part \in Seq(Nat \ seps), NEW text \in Seq(Nat)
  PROVE  Pieces(seps, part \o text) = Before(part, Pieces(seps, text))
<1> DEFINE S == {p \in Seq(Nat) : Pieces(seps, p \o text) = Before(p, Pieces(seps, text))}
           P == Pieces(seps, text)
<1>1. P \in Cuts
  BY PiecesType
<1>2. <<>> \in S
  <2>1. <<>> \in Seq(Nat) /\ <<>> \o text = text
    <3>1. <<>> \in Seq(Nat)
      OBVIOUS
    <3> QED BY <3>1, ConcatEmptySeq
  <2> QED BY <1>1, <2>1, BeforeNone
<1>3. ASSUME NEW x \in Nat \ seps, NEW p \in Seq(Nat \ seps), p \in S PROVE <<x>> \o p \in S
  <2>1. p \in Seq(Nat) /\ x \in Nat /\ x \notin seps /\ <<x>> \in Seq(Nat)
    BY <1>3
  <2>2. p \o text \in Seq(Nat) /\ <<x>> \o p \in Seq(Nat) /\ (<<x>> \o p) \o text = <<x>> \o (p \o text)
    BY <2>1, ConcatAssociative, ConcatProperties
  <2>3. Pieces(seps, p \o text) = Before(p, P)
    BY <1>3
  <2> HIDE DEF P
  <2>4. Pieces(seps, <<x>> \o (p \o text)) = More(seps, x, Before(p, P))
    BY <2>1, <2>2, <2>3, PiecesCons, Zenon
  <2>5. More(seps, x, Before(p, P)) = Before(<<x>>, Before(p, P))
    BY <2>1 DEF More, Before
  <2>6. Before(<<x>>, Before(p, P)) = Before(<<x>> \o p, P)
    BY <1>1, <2>1, BeforeBefore
  <2> QED BY <2>2, <2>4, <2>5, <2>6, Zenon DEF P
<1> HIDE DEF S
<1>4. Seq(Nat \ seps) \subseteq S
  BY <1>2, <1>3, SeqInduct
<1> QED BY <1>4 DEF S

LEMMA PiecesCut ==
  ASSUME NEW seps, NEW sep \in Nat, sep \in seps, NEW text \in Seq(Nat), NEW start \in Seq(Nat)
  PROVE  Pieces(seps, start \o (<<sep>> \o text)) = Pieces(seps, start) \o Pieces(seps, text)
<1> DEFINE y == <<sep>> \o text
           Q == Pieces(seps, text)
           S == {p \in Seq(Nat) : Pieces(seps, p \o y) = Pieces(seps, p) \o Q}
<1>1. Q \in Cuts /\ y \in Seq(Nat)
  <2>1. <<sep>> \in Seq(Nat)
    OBVIOUS
  <2> QED BY <2>1, PiecesType, ConcatProperties
<1>2. Pieces(seps, y) = << <<>> >> \o Q
  BY PiecesCons DEF More
<1> HIDE DEF y, Q
<1>3. <<>> \in S
  <2>1. <<>> \in Seq(Nat)
    OBVIOUS
  <2>2. <<>> \o y = y
    BY <1>1, ConcatEmptySeq
  <2> QED BY <1>2, <2>1, <2>2, PiecesOfNone
<1>4. ASSUME NEW x \in Nat, NEW p \in Seq(Nat), p \in S PROVE <<x>> \o p \in S
  <2> DEFINE P == Pieces(seps, p)
  <2>1. P \in Cuts
    BY PiecesType
  <2>2. <<x>> \in Seq(Nat) /\ p \o y \in Seq(Nat) /\ <<x>> \o p \in Seq(Nat)
        /\ (<<x>> \o p) \o y = <<x>> \o (p \o y)
    <3>1. <<x>> \in Seq(Nat)
      OBVIOUS
    <3> QED BY <1>1, <3>1, ConcatAssociative, ConcatProperties
  <2>3. Pieces(seps, p \o y) = P \o Q
    BY <1>4
  <2>4. Pieces(seps, <<x>> \o p) = More(seps, x, P)
    BY PiecesCons
  <2> HIDE DEF P
  <2>5. Pieces(seps, <<x>> \o (p \o y)) = More(seps, x, P \o Q)
    BY <2>2, <2>3, PiecesCons, Zenon
  <2>6. P \in Seq(Seq(Nat)) /\ P # <<>> /\ Q \in Seq(Seq(Nat))
    BY <1>1, <2>1 DEF Cuts
  <2>7. More(seps, x, P \o Q) = More(seps, x, P) \o Q
    <3>1. CASE x \in seps
      <4>1. <<>> \in Seq(Nat)
        OBVIOUS
      <4>2. << <<>> >> \in Seq(Seq(Nat))
        BY <4>1
      <4>3. << <<>> >> \o (P \o Q) = (<< <<>> >> \o P) \o Q
        <5> DEFINE none == << <<>> >>
        <5>1. none \in Seq(Seq(Nat))
          BY <4>2
        <5> HIDE DEF none
        <5>2. none \o (P \o Q) = (none \o P) \o Q
          BY <2>6, <5>1, JoinCuts
        <5> QED BY <5>2 DEF none
      <4> QED BY <3>1, <4>3 DEF More
    <3>2. CASE x \notin seps
      <4>0. <<x>> \in Seq(Nat)
        OBVIOUS
      <4>1. [P \o Q EXCEPT ![1] = <<x>> \o @] = [P EXCEPT ![1] = <<x>> \o @] \o Q
        <5> DEFINE one == <<x>>
        <5>1. one \in Seq(Nat)
          BY <4>0
        <5> HIDE DEF one
        <5>2. Before(one, P \o Q) = Before(one, P) \o Q
          BY <1>1, <2>1, <5>1, BeforeJoin
        <5> QED BY <5>2, Zenon DEF Before, one
      <4> QED BY <3>2, <4>1 DEF More
    <3> QED BY <3>1, <3>2
  <2> QED BY <2>2, <2>4, <2>5, <2>7, Zenon
<1> HIDE DEF S
<1>5. Seq(Nat) \subseteq S
  BY <1>3, <1>4, SeqInduct
<1> QED BY <1>5 DEF S, y, Q

-----------------------------------------------------------------------------
(* What each element of a sequence becomes, in a row.                       *)

Maps(P, A, B) == P \in [A -> B]
Mapped(P, s) == [i \in 1..Len(s) |-> P[s[i]]]
Each(P, s) == Concat(Mapped(P, s))

MapsTo(P, s, B) ==
  /\ Mapped(P, s) \in Seq(B) /\ Len(Mapped(P, s)) = Len(s)
  /\ \A i \in 1..Len(s) : Mapped(P, s)[i] = P[s[i]]

LEMMA MappedType ==
  \A A, B, P : Maps(P, A, B) => \A s \in Seq(A) : MapsTo(P, s, B)
BY DEF Mapped, Maps, MapsTo

LEMMA MappedNone == ASSUME NEW P PROVE Mapped(P, <<>>) = <<>>
BY DEF Mapped

Splits(P, s, u) == Mapped(P, s \o u) = Mapped(P, s) \o Mapped(P, u)

LEMMA MappedJoin ==
  ASSUME NEW A, NEW B, NEW P, Maps(P, A, B), NEW s \in Seq(A), NEW u \in Seq(A)
  PROVE  Splits(P, s, u)
<1> DEFINE a == Mapped(P, s)
           b == Mapped(P, u)
           su == s \o u
           c == Mapped(P, su)
           ab == a \o b
<1>1. su \in Seq(A) /\ Len(su) = Len(s) + Len(u) /\ Len(s) \in Nat /\ Len(u) \in Nat
      /\ (\A i \in 1..Len(s) : su[i] = s[i]) /\ \A i \in 1..Len(u) : su[Len(s) + i] = u[i]
  OBVIOUS
<1> HIDE DEF su
<1>2. /\ a \in Seq(B) /\ Len(a) = Len(s) /\ \A i \in 1..Len(s) : a[i] = P[s[i]]
      /\ b \in Seq(B) /\ Len(b) = Len(u) /\ \A i \in 1..Len(u) : b[i] = P[u[i]]
      /\ c \in Seq(B) /\ Len(c) = Len(su) /\ \A i \in 1..Len(su) : c[i] = P[su[i]]
  <2>1. a \in Seq(B) /\ Len(a) = Len(s) /\ \A i \in 1..Len(s) : a[i] = P[s[i]]
    BY MappedType DEF MapsTo
  <2>2. b \in Seq(B) /\ Len(b) = Len(u) /\ \A i \in 1..Len(u) : b[i] = P[u[i]]
    BY MappedType DEF MapsTo
  <2>3. c \in Seq(B) /\ Len(c) = Len(su) /\ \A i \in 1..Len(su) : c[i] = P[su[i]]
    <3>1. MapsTo(P, su, B)
      BY <1>1, MappedType, Zenon
    <3> QED BY <3>1, Zenon DEF MapsTo
  <2> QED BY <2>1, <2>2, <2>3, Zenon
<1> HIDE DEF a, b, c
<1>3. ab \in Seq(B) /\ Len(ab) = Len(a) + Len(b)
      /\ (\A i \in 1..Len(a) : ab[i] = a[i]) /\ \A i \in 1..Len(b) : ab[Len(a) + i] = b[i]
  <2>1. a \in Seq(B) /\ b \in Seq(B)
    BY <1>2
  <2> QED BY <2>1
<1> HIDE DEF ab
<1>4. ASSUME NEW i \in 1..Len(c) PROVE c[i] = ab[i]
  <2>1. i \in 1..Len(su) /\ c[i] = P[su[i]]
    BY <1>2
  <2>2. CASE i <= Len(s)
    <3>1. i \in 1..Len(s)
      BY <1>1, <2>1, <2>2
    <3> QED BY <1>1, <1>2, <1>3, <2>1, <3>1
  <2>3. CASE ~(i <= Len(s))
    <3>1. i - Len(s) \in 1..Len(u) /\ Len(s) + (i - Len(s)) = i
      BY <1>1, <2>1, <2>3
    <3>2. su[i] = u[i - Len(s)]
      BY <1>1, <3>1
    <3>3. ab[i] = b[i - Len(s)]
      BY <1>2, <1>3, <3>1
    <3> QED BY <1>2, <2>1, <3>1, <3>2, <3>3
  <2> QED BY <2>2, <2>3
<1>5. Len(c) = Len(ab)
  BY <1>1, <1>2, <1>3
<1>6. c = ab
  BY <1>2, <1>3, <1>4, <1>5, SeqEqual
<1> QED BY <1>6 DEF a, b, c, ab, su, Splits

MapsCons(P, x, s) == Mapped(P, <<x>> \o s) = <<P[x]>> \o Mapped(P, s)

LEMMA MappedCons ==
  ASSUME NEW A, NEW B, NEW P, Maps(P, A, B), NEW x \in A, NEW s \in Seq(A)
  PROVE  MapsCons(P, x, s)
<1> DEFINE one == <<x>>
<1>1. one \in Seq(A) /\ Mapped(P, one) = <<P[x]>>
  BY DEF Mapped
<1> HIDE DEF one
<1>2. Splits(P, one, s)
  BY <1>1, MappedJoin, Zenon
<1> QED BY <1>1, <1>2, Zenon DEF one, Splits, MapsCons

LEMMA EachType ==
  ASSUME NEW A, NEW B, NEW P, Maps(P, A, Seq(B)), NEW s \in Seq(A) PROVE Each(P, s) \in Seq(B)
<1>1. Mapped(P, s) \in Seq(Seq(B))
  BY MappedType DEF MapsTo
<1> QED BY <1>1, ConcatType DEF Each

LEMMA EachNone == ASSUME NEW P PROVE Each(P, <<>>) = <<>>
BY MappedNone, ConcatOfNone DEF Each

EachMore(P, x, s) == Each(P, <<x>> \o s) = P[x] \o Each(P, s)

LEMMA EachCons ==
  ASSUME NEW A, NEW B, NEW P, Maps(P, A, Seq(B)), NEW x \in A, NEW s \in Seq(A)
  PROVE  EachMore(P, x, s)
<1>1. MapsCons(P, x, s)
  BY MappedCons, Zenon
<1>2. P[x] \in Seq(B) /\ Mapped(P, s) \in Seq(Seq(B))
  BY MappedType DEF Maps, MapsTo
<1>3. Concat(<<P[x]>> \o Mapped(P, s)) = P[x] \o Concat(Mapped(P, s))
  BY <1>2, ConcatCons
<1> QED BY <1>1, <1>3, Zenon DEF Each, MapsCons, EachMore

EachSplits(P, s, u) == Each(P, s \o u) = Each(P, s) \o Each(P, u)

LEMMA EachJoin ==
  ASSUME NEW A, NEW B, NEW P, Maps(P, A, Seq(B)), NEW s \in Seq(A), NEW u \in Seq(A)
  PROVE  EachSplits(P, s, u)
<1>1. Splits(P, s, u)
  BY MappedJoin, Zenon
<1>2. Mapped(P, s) \in Seq(Seq(B)) /\ Mapped(P, u) \in Seq(Seq(B))
  BY MappedType DEF MapsTo
<1>3. Concat(Mapped(P, s) \o Mapped(P, u)) = Concat(Mapped(P, s)) \o Concat(Mapped(P, u))
  BY <1>2, ConcatSplit
<1> QED BY <1>1, <1>3, Zenon DEF Each, Splits, EachSplits

LEMMA EachOne ==
  ASSUME NEW A, NEW B, NEW P, Maps(P, A, Seq(B)), NEW x \in A PROVE Each(P, <<x>>) = P[x]
<1>1. <<x>> \in Seq(A) /\ Mapped(P, <<x>>) = <<P[x]>> /\ P[x] \in Seq(B)
  BY DEF Mapped, Maps
<1> QED BY <1>1, ConcatOfOne DEF Each

(* Elements that stay what they are.                                        *)
LEMMA EachSame ==
  ASSUME NEW A, NEW P, Maps(P, A, Seq(A)), NEW B \in SUBSET A, \A x \in B : P[x] = <<x>>,
         NEW s \in Seq(B)
  PROVE  Each(P, s) = s
<1> DEFINE S == {u \in Seq(A) : Each(P, u) = u}
<1>1. <<>> \in S
  <2>1. <<>> \in Seq(A)
    OBVIOUS
  <2> QED BY <2>1, EachNone
<1>2. ASSUME NEW x \in B, NEW u \in Seq(B), u \in S PROVE <<x>> \o u \in S
  <2>1. u \in Seq(A) /\ x \in A /\ Each(P, u) = u
    BY <1>2
  <2>2. <<x>> \o u \in Seq(A)
    BY <2>1, ConsIs
  <2>3. EachMore(P, x, u)
    BY <2>1, EachCons, Zenon
  <2>4. P[x] = <<x>>
    OBVIOUS
  <2> QED BY <2>1, <2>2, <2>3, <2>4, Zenon DEF EachMore
<1> HIDE DEF S
<1>3. Seq(B) \subseteq S
  BY <1>1, <1>2, SeqInduct
<1> QED BY <1>3 DEF S

-----------------------------------------------------------------------------
(* Words, and what reads them back from where they were joined.              *)

Kept == [piece \in Seq(Nat) |-> IF piece = <<>> THEN <<>> ELSE <<piece>>]

LEMMA KeptMaps == Maps(Kept, Seq(Nat), Seq(Seq(Nat)))
<1>1. ASSUME NEW piece \in Seq(Nat)
      PROVE  (IF piece = <<>> THEN <<>> ELSE <<piece>>) \in Seq(Seq(Nat))
  OBVIOUS
<1> QED BY <1>1 DEF Maps, Kept

LEMMA KeptIs ==
  /\ Kept[<<>>] = <<>>
  /\ \A piece \in Seq(Nat) : piece # <<>> => Kept[piece] = <<piece>>
<1>1. <<>> \in Seq(Nat)
  OBVIOUS
<1> QED BY <1>1 DEF Kept

LEMMA WordsAre ==
  ASSUME NEW seps, NEW text \in Seq(Nat)
  PROVE  Words(seps, text) = Each(Kept, Pieces(seps, text)) /\ Words(seps, text) \in Seq(Seq(Nat))
<1> DEFINE pieces == Pieces(seps, text)
<1>1. pieces \in Seq(Seq(Nat))
  BY PiecesType DEF Cuts
<1>2. Words(seps, text) = Concat([i \in 1..Len(pieces) |-> IF pieces[i] = <<>> THEN <<>> ELSE <<pieces[i]>>])
  BY DEF Words
<1> HIDE DEF pieces
<1>3. ASSUME NEW i \in 1..Len(pieces)
      PROVE  (IF pieces[i] = <<>> THEN <<>> ELSE <<pieces[i]>>) = Kept[pieces[i]]
  <2>1. pieces[i] \in Seq(Nat)
    BY <1>1
  <2> QED BY <2>1 DEF Kept
<1>4. [i \in 1..Len(pieces) |-> IF pieces[i] = <<>> THEN <<>> ELSE <<pieces[i]>>] = Mapped(Kept, pieces)
  BY <1>3, Zenon DEF Mapped
<1>5. Each(Kept, pieces) \in Seq(Seq(Nat))
  BY <1>1, KeptMaps, EachType, Zenon
<1> QED BY <1>2, <1>4, <1>5, Zenon DEF Each, pieces

WordsOf(seps) == [text \in Seq(Nat) |-> Words(seps, text)]
PiecesOf(seps) == [text \in Seq(Nat) |-> Pieces(seps, text)]
Divides(P, sep) == \A x, y \in Seq(Nat) : P[x \o (<<sep>> \o y)] = P[x] \o P[y]

LEMMA WordsMaps ==
  ASSUME NEW seps
  PROVE  /\ Maps(WordsOf(seps), Seq(Nat), Seq(Seq(Nat)))
         /\ \A text \in Seq(Nat) : WordsOf(seps)[text] = Words(seps, text)
BY WordsAre DEF Maps, WordsOf

LEMMA PiecesMaps ==
  ASSUME NEW seps
  PROVE  /\ Maps(PiecesOf(seps), Seq(Nat), Seq(Seq(Nat)))
         /\ \A text \in Seq(Nat) : PiecesOf(seps)[text] = Pieces(seps, text)
<1>1. \A text \in Seq(Nat) : Pieces(seps, text) \in Seq(Seq(Nat))
  BY PiecesType DEF Cuts
<1> QED BY <1>1 DEF Maps, PiecesOf

LEMMA CutNat ==
  \A sep \in Nat, x, y \in Seq(Nat) :
    <<sep>> \o y \in Seq(Nat) /\ x \o (<<sep>> \o y) \in Seq(Nat)
OBVIOUS

LEMMA PiecesDivide ==
  ASSUME NEW seps, NEW sep \in Nat, sep \in seps
  PROVE  Divides(PiecesOf(seps), sep)
<1>1. ASSUME NEW x \in Seq(Nat), NEW y \in Seq(Nat)
      PROVE  PiecesOf(seps)[x \o (<<sep>> \o y)] = PiecesOf(seps)[x] \o PiecesOf(seps)[y]
  <2>1. x \o (<<sep>> \o y) \in Seq(Nat)
    BY CutNat, Zenon
  <2>2. Pieces(seps, x \o (<<sep>> \o y)) = Pieces(seps, x) \o Pieces(seps, y)
    BY PiecesCut
  <2> QED BY <2>1, <2>2, PiecesMaps, Zenon
<1> QED BY <1>1, Zenon DEF Divides

LEMMA WordsDivide ==
  ASSUME NEW seps, NEW sep \in Nat, sep \in seps
  PROVE  Divides(WordsOf(seps), sep)
<1>1. ASSUME NEW x \in Seq(Nat), NEW y \in Seq(Nat)
      PROVE  WordsOf(seps)[x \o (<<sep>> \o y)] = WordsOf(seps)[x] \o WordsOf(seps)[y]
  <2> DEFINE z == x \o (<<sep>> \o y)
             X == Pieces(seps, x)
             Y == Pieces(seps, y)
  <2>1. z \in Seq(Nat)
    BY CutNat, Zenon
  <2>2. Pieces(seps, z) = X \o Y
    BY PiecesCut
  <2>3. X \in Seq(Seq(Nat)) /\ Y \in Seq(Seq(Nat))
    BY PiecesType DEF Cuts
  <2>4. Words(seps, x) = Each(Kept, X) /\ Words(seps, y) = Each(Kept, Y)
    BY WordsAre
  <2> HIDE DEF X, Y, z
  <2>5. Words(seps, z) = Each(Kept, X \o Y)
    BY <2>1, <2>2, WordsAre, Zenon
  <2>6. EachSplits(Kept, X, Y)
    BY <2>3, KeptMaps, EachJoin, Zenon
  <2>7. Words(seps, z) = Words(seps, x) \o Words(seps, y)
    BY <2>4, <2>5, <2>6, Zenon DEF EachSplits
  <2>8. WordsOf(seps)[z] = Words(seps, z) /\ WordsOf(seps)[x] = Words(seps, x)
        /\ WordsOf(seps)[y] = Words(seps, y)
    BY <2>1, WordsMaps, Zenon
  <2> QED BY <2>7, <2>8, Zenon DEF z
<1> QED BY <1>1, Zenon DEF Divides

(* A text with no separator in it is one piece, and one word unless empty.    *)
LEMMA OnePiece ==
  ASSUME NEW seps, NEW part \in Seq(Nat \ seps)
  PROVE  Pieces(seps, part) = <<part>>
<1>1. <<>> \in Seq(Nat) /\ part \in Seq(Nat)
  OBVIOUS
<1>2. part \o <<>> = part
  BY <1>1, ConcatEmptySeq
<1>3. Pieces(seps, part \o <<>>) = Before(part, Pieces(seps, <<>>))
  BY <1>1, PiecesAfter
<1>4. Before(part, << <<>> >>) = <<part>>
  <2>1. [<< <<>> >> EXCEPT ![1] = part \o @] = <<part \o <<>> >>
    OBVIOUS
  <2> QED BY <1>2, <2>1, Zenon DEF Before
<1> QED BY <1>2, <1>3, <1>4, PiecesOfNone, Zenon

LEMMA OneWord ==
  ASSUME NEW seps, NEW part \in Seq(Nat \ seps), part # <<>>
  PROVE  Words(seps, part) = <<part>>
<1>1. part \in Seq(Nat)
  OBVIOUS
<1>2. Words(seps, part) = Each(Kept, <<part>>)
  BY <1>1, OnePiece, WordsAre, Zenon
<1>3. Each(Kept, <<part>>) = Kept[part]
  BY <1>1, KeptMaps, EachOne, Zenon
<1> QED BY <1>1, <1>2, <1>3, KeptIs, Zenon

(* sep.join of words, read with what divides at sep.                         *)
Lead(sep) == [word \in Seq(Nat) |-> <<sep>> \o word]

LEMMA LeadMaps ==
  ASSUME NEW sep \in Nat
  PROVE  /\ Maps(Lead(sep), Seq(Nat), Seq(Nat))
         /\ \A word \in Seq(Nat) : Lead(sep)[word] = <<sep>> \o word
<1>1. \A word \in Seq(Nat) : <<sep>> \o word \in Seq(Nat)
  BY CutNat, Zenon
<1> QED BY <1>1 DEF Maps, Lead

LEMMA JoinIs ==
  ASSUME NEW sep \in Nat, NEW word \in Seq(Nat), NEW rest \in Seq(Seq(Nat))
  PROVE  Join(sep, <<word>> \o rest) = word \o Each(Lead(sep), rest)
<1> DEFINE words == <<word>> \o rest
           parts == [i \in 1..Len(words) |-> IF i = 1 THEN words[i] ELSE <<sep>> \o words[i]]
           tail == Mapped(Lead(sep), rest)
           both == <<word>> \o tail
<1>1. words \in Seq(Seq(Nat)) /\ Len(words) = Len(rest) + 1 /\ words[1] = word /\ Len(rest) \in Nat
      /\ \A i \in 1..Len(rest) : words[i + 1] = rest[i]
  BY ConsIs
<1>2. tail \in Seq(Seq(Nat)) /\ Len(tail) = Len(rest) /\ \A i \in 1..Len(rest) : tail[i] = Lead(sep)[rest[i]]
  <2>1. MapsTo(Lead(sep), rest, Seq(Nat))
    BY LeadMaps, MappedType, Zenon
  <2> QED BY <2>1, Zenon DEF MapsTo
<1> HIDE DEF words, tail
<1>3. both \in Seq(Seq(Nat)) /\ Len(both) = Len(tail) + 1 /\ both[1] = word
      /\ \A i \in 1..Len(tail) : both[i + 1] = tail[i]
  BY <1>2, ConsIs
<1>4. /\ Len(parts) = Len(words)
      /\ \A i \in 1..Len(words) : parts[i] = IF i = 1 THEN words[i] ELSE <<sep>> \o words[i]
  BY <1>1
<1>5. parts \in Seq(Seq(Nat))
  <2>1. \A i \in 1..Len(words) : words[i] \in Seq(Nat)
    BY <1>1
  <2>2. \A i \in 1..Len(words) : <<sep>> \o words[i] \in Seq(Nat)
    BY <2>1, CutNat, Zenon
  <2> QED BY <1>1, <2>1, <2>2
<1> HIDE DEF both, parts
<1>6. ASSUME NEW i \in 1..Len(parts) PROVE parts[i] = both[i]
  <2>1. CASE i = 1
    BY <1>1, <1>3, <1>4, <2>1
  <2>2. CASE i # 1
    <3>1. i - 1 \in 1..Len(rest) /\ (i - 1) + 1 = i
      BY <1>1, <1>4, <2>2
    <3>2. words[i] = rest[i - 1]
      BY <1>1, <3>1
    <3>3. both[i] = tail[i - 1]
      BY <1>2, <1>3, <3>1
    <3>4. rest[i - 1] \in Seq(Nat)
      BY <3>1
    <3>5. tail[i - 1] = <<sep>> \o rest[i - 1]
      BY <1>2, <3>1, <3>4, LeadMaps, Zenon
    <3>6. parts[i] = <<sep>> \o words[i]
      BY <1>4, <2>2, Zenon
    <3> QED BY <3>2, <3>3, <3>5, <3>6, Zenon
  <2> QED BY <2>1, <2>2
<1>7. Len(parts) = Len(both)
  BY <1>1, <1>2, <1>3, <1>4
<1>8. parts = both
  BY <1>3, <1>5, <1>6, <1>7, SeqEqual
<1>9. Join(sep, words) = Concat(parts)
  BY DEF Join, parts
<1>10. Concat(<<word>> \o tail) = word \o Concat(tail)
  BY <1>2, ConcatCons
<1> QED BY <1>8, <1>9, <1>10, Zenon DEF both, words, tail, Each

LEMMA JoinRead ==
  ASSUME NEW sep \in Nat, NEW P, Maps(P, Seq(Nat), Seq(Seq(Nat))), Divides(P, sep),
         NEW word \in Seq(Nat), NEW rest \in Seq(Seq(Nat))
  PROVE  P[Join(sep, <<word>> \o rest)] = P[word] \o Each(P, rest)
<1> DEFINE T(u) == Each(Lead(sep), u)
           S == {u \in Seq(Seq(Nat)) : \A w \in Seq(Nat) : P[w \o T(u)] = P[w] \o Each(P, u)}
<1>0. \A w \in Seq(Nat) : P[w] \in Seq(Seq(Nat))
  BY DEF Maps
<1>a. \A u \in Seq(Seq(Nat)) : T(u) \in Seq(Nat) /\ Each(P, u) \in Seq(Seq(Nat))
  BY LeadMaps, EachType
<1>1. <<>> \in S
  <2>1. <<>> \in Seq(Seq(Nat))
    OBVIOUS
  <2>2. Each(Lead(sep), <<>>) = <<>> /\ Each(P, <<>>) = <<>>
    BY EachNone
  <2>3. ASSUME NEW w \in Seq(Nat) PROVE P[w \o <<>>] = P[w] \o <<>>
    <3>1. w \o <<>> = w /\ P[w] \in Seq(Seq(Nat))
      BY <1>0, ConcatEmptySeq
    <3>2. P[w] \o <<>> = P[w]
      BY <3>1, ConcatEmptySeq
    <3> QED BY <3>1, <3>2, Zenon
  <2> QED BY <2>1, <2>2, <2>3, Zenon
<1>2. ASSUME NEW x \in Seq(Nat), NEW u \in Seq(Seq(Nat)), u \in S PROVE <<x>> \o u \in S
  <2>1. <<x>> \o u \in Seq(Seq(Nat))
    BY ConsIs
  <2>2. ASSUME NEW w \in Seq(Nat) PROVE P[w \o T(<<x>> \o u)] = P[w] \o Each(P, <<x>> \o u)
    <3> DEFINE t == T(u)
               e == Each(P, u)
    <3>1. t \in Seq(Nat) /\ e \in Seq(Seq(Nat)) /\ P[x \o t] = P[x] \o e
      BY <1>2, <1>a
    <3>2. EachMore(Lead(sep), x, u) /\ EachMore(P, x, u)
      BY LeadMaps, EachCons, Zenon
    <3>3. T(<<x>> \o u) = (<<sep>> \o x) \o t
      BY <3>2, LeadMaps, Zenon DEF EachMore
    <3>4. Each(P, <<x>> \o u) = P[x] \o e
      BY <3>2, Zenon DEF EachMore
    <3> HIDE DEF t, e
    <3>5. (<<sep>> \o x) \o t = <<sep>> \o (x \o t) /\ x \o t \in Seq(Nat)
      <4>1. <<sep>> \in Seq(Nat)
        OBVIOUS
      <4> DEFINE one == <<sep>>
      <4>2. one \in Seq(Nat)
        BY <4>1
      <4> HIDE DEF one
      <4>3. (one \o x) \o t = one \o (x \o t)
        BY <3>1, <4>2, JoinNats
      <4>4. x \o t \in Seq(Nat)
        BY <3>1, CutNats
      <4> QED BY <4>3, <4>4 DEF one
    <3>6. P[w \o (<<sep>> \o (x \o t))] = P[w] \o P[x \o t]
      BY <3>5, Zenon DEF Divides
    <3> QED BY <3>1, <3>3, <3>4, <3>5, <3>6, Zenon
  <2> QED BY <2>1, <2>2, Zenon
<1> HIDE DEF S
<1>3. Seq(Seq(Nat)) \subseteq S
  BY <1>1, <1>2, SeqInduct
<1>4. P[word \o Each(Lead(sep), rest)] = P[word] \o Each(P, rest)
  BY <1>3 DEF S
<1> QED BY <1>4, JoinIs, Zenon

-----------------------------------------------------------------------------
(* Escapes, and what undoes them.                                           *)

Escapable == DOMAIN Escape

LEMMA EscapableIs ==
  /\ Escapable = {Percent, Blank, Newline}
  /\ Escape[Percent] = <<37, 50, 53>> /\ Escape[Blank] = <<37, 50, 48>>
  /\ Escape[Newline] = <<37, 48, 65>>
BY DEF Escapable, Escape, Percent, Blank, Newline

EscapeOf(c) ==
  /\ c \in Nat /\ Escape[c] \in Seq(Nat) /\ Len(Escape[c]) = 3
  /\ Escape[c][1] = Percent /\ Escape[c][2] \in Nat /\ Escape[c][3] \in Nat
  /\ Escape[c][2] # Percent /\ Escape[c][3] # Percent
Apart(c, d) == Escape[c][2] # Escape[d][2] \/ Escape[c][3] # Escape[d][3]

LEMMA EscapeIs ==
  /\ \A c \in Escapable : EscapeOf(c)
  /\ \A c, d \in Escapable : c # d => Apart(c, d)
<1>1. EscapeOf(Percent) /\ EscapeOf(Blank) /\ EscapeOf(Newline)
  <2>1. EscapeOf(Percent)
    BY EscapableIs DEF EscapeOf, Percent
  <2>2. EscapeOf(Blank)
    BY EscapableIs DEF EscapeOf, Percent, Blank
  <2>3. EscapeOf(Newline)
    BY EscapableIs DEF EscapeOf, Percent, Newline
  <2> QED BY <2>1, <2>2, <2>3
<1>2. Apart(Percent, Blank) /\ Apart(Percent, Newline) /\ Apart(Blank, Newline)
      /\ Apart(Blank, Percent) /\ Apart(Newline, Percent) /\ Apart(Newline, Blank)
  BY EscapableIs DEF Apart
<1> QED BY <1>1, <1>2, EscapableIs, Zenon

OccursAt(c, text, i) ==
  /\ i \in 1..Len(text) - 2
  /\ text[i] = Percent /\ text[i + 1] = Escape[c][2] /\ text[i + 2] = Escape[c][3]

LEMMA OccursIs ==
  ASSUME NEW c \in Escapable, NEW text \in Seq(Nat), NEW i \in Int
  PROVE  Occurs(c, text, i) <=> OccursAt(c, text, i)
<1> DEFINE e == Escape[c]
<1>1. e \in Seq(Nat) /\ Len(e) = 3 /\ e[1] = Percent
  BY EscapeIs DEF EscapeOf
<1>2. CASE i \notin 1..Len(text) - 2
  BY <1>2 DEF Occurs, OccursAt
<1>3. CASE i \in 1..Len(text) - 2
  <2> DEFINE cut == SubSeq(text, i, i + 2)
  <2>1. cut \in Seq(Nat) /\ Len(cut) = 3 /\ cut[1] = text[i] /\ cut[2] = text[i + 1]
        /\ cut[3] = text[i + 2]
    BY <1>3
  <2> HIDE DEF cut, e
  <2>2. ASSUME cut[1] = e[1], cut[2] = e[2], cut[3] = e[3] PROVE cut = e
    <3>1. ASSUME NEW k \in 1..Len(cut) PROVE cut[k] = e[k]
      <4>1. k = 1 \/ k = 2 \/ k = 3
        BY <2>1
      <4> QED BY <2>2, <4>1
    <3>2. Len(cut) = Len(e)
      BY <1>1, <2>1
    <3> QED BY <1>1, <2>1, <3>1, <3>2, SeqEqual
  <2>3. cut = e <=> cut[1] = e[1] /\ cut[2] = e[2] /\ cut[3] = e[3]
    BY <2>2
  <2>4. Occurs(c, text, i) <=> cut = e
    BY <1>3, Zenon DEF Occurs, cut, e
  <2>5. OccursAt(c, text, i) <=> text[i] = Percent /\ text[i + 1] = e[2] /\ text[i + 2] = e[3]
    BY <1>3, Zenon DEF OccursAt, e
  <2> QED BY <1>1, <2>1, <2>3, <2>4, <2>5, Zenon
<1> QED BY <1>2, <1>3

At(c, text, i) ==
  IF Occurs(c, text, i) THEN <<c>>
  ELSE IF Occurs(c, text, i - 1) \/ Occurs(c, text, i - 2) THEN <<>>
  ELSE <<text[i]>>
Unesc(c, text) == [i \in 1..Len(text) |-> At(c, text, i)]

LEMMA UnescapedIs ==
  ASSUME NEW c \in Escapable, NEW text \in Seq(Nat)
  PROVE  /\ Unesc(c, text) \in Seq(Seq(Nat)) /\ Len(Unesc(c, text)) = Len(text)
         /\ \A i \in 1..Len(text) : Unesc(c, text)[i] = At(c, text, i)
         /\ Unescaped(c, text) = Concat(Unesc(c, text))
         /\ Unescaped(c, text) \in Seq(Nat)
<1>1. c \in Nat
  BY EscapeIs DEF EscapeOf
<1>2. \A i \in 1..Len(text) : At(c, text, i) \in Seq(Nat)
  <2>1. <<c>> \in Seq(Nat) /\ <<>> \in Seq(Nat)
    BY <1>1
  <2>2. ASSUME NEW i \in 1..Len(text) PROVE At(c, text, i) \in Seq(Nat)
    <3>1. text[i] \in Nat
      OBVIOUS
    <3>2. <<text[i]>> \in Seq(Nat)
      BY <3>1
    <3> QED BY <2>1, <3>2, Zenon DEF At
  <2> QED BY <2>2
<1>3. Unescaped(c, text) = Concat(Unesc(c, text))
  BY Zenon DEF Unescaped, Unesc, At
<1>4. Unesc(c, text) \in Seq(Seq(Nat)) /\ Len(Unesc(c, text)) = Len(text)
      /\ \A i \in 1..Len(text) : Unesc(c, text)[i] = At(c, text, i)
  BY <1>2 DEF Unesc
<1>5. Concat(Unesc(c, text)) \in Seq(Nat)
  BY <1>4, ConcatType
<1> QED BY <1>3, <1>4, <1>5

LEMMA JoinAtNat ==
  \A a, b \in Seq(Nat) :
    /\ Len(a \o b) = Len(a) + Len(b) /\ Len(a) \in Nat /\ Len(b) \in Nat
    /\ \A i \in 1..Len(a) : (a \o b)[i] = a[i]
    /\ \A i \in 1..Len(b) : (a \o b)[Len(a) + i] = b[i]
OBVIOUS

(* What comes before changes nothing in a text, when no escape runs into it.  *)
LEMMA OccursShift ==
  ASSUME NEW c \in Escapable, NEW start \in Seq(Nat), NEW text \in Seq(Nat), NEW i \in 1..Len(text)
  PROVE  Occurs(c, start \o text, Len(start) + i) <=> Occurs(c, text, i)
<1> DEFINE all == start \o text
           k == Len(start)
           n == Len(text)
<1>1. all \in Seq(Nat) /\ Len(all) = k + n /\ k \in Nat /\ n \in Nat
      /\ \A j \in 1..n : all[k + j] = text[j]
  BY CutNats, JoinAtNat
<1>2. i \in 1..n /\ i \in Int /\ k + i \in Int
  BY <1>1
<1> HIDE DEF all, k, n
<1>3. Occurs(c, all, k + i) <=> OccursAt(c, all, k + i)
  BY <1>1, <1>2, OccursIs
<1>4. Occurs(c, text, i) <=> OccursAt(c, text, i)
  BY <1>2, OccursIs
<1>5. CASE i <= n - 2
  <2>1. i \in 1..n /\ i + 1 \in 1..n /\ i + 2 \in 1..n /\ (k + i) + 1 = k + (i + 1) /\ (k + i) + 2 = k + (i + 2)
        /\ k + i \in 1..(k + n) - 2 /\ i \in 1..n - 2
    BY <1>1, <1>2, <1>5
  <2>2. all[k + i] = text[i] /\ all[(k + i) + 1] = text[i + 1] /\ all[(k + i) + 2] = text[i + 2]
    BY <1>1, <2>1
  <2>3. k + i \in 1..Len(all) - 2 /\ i \in 1..Len(text) - 2
    BY <1>1, <2>1 DEF n
  <2>4. OccursAt(c, all, k + i) <=> OccursAt(c, text, i)
    BY <2>2, <2>3, Zenon DEF OccursAt
  <2> QED BY <1>3, <1>4, <2>4 DEF all, k
<1>6. CASE ~(i <= n - 2)
  <2>1. k + i \notin 1..Len(all) - 2 /\ i \notin 1..Len(text) - 2
    BY <1>1, <1>2, <1>6 DEF n
  <2>2. ~OccursAt(c, all, k + i) /\ ~OccursAt(c, text, i)
    BY <2>1, Zenon DEF OccursAt
  <2> QED BY <1>3, <1>4, <2>2 DEF all, k
<1> QED BY <1>5, <1>6

Clear(c, start, text) ==
  /\ ~Occurs(c, start \o text, Len(start)) /\ ~Occurs(c, start \o text, Len(start) - 1)
Front(c, start, text) == [i \in 1..Len(start) |-> At(c, start \o text, i)]

LEMMA AtShift ==
  ASSUME NEW c \in Escapable, NEW start \in Seq(Nat), NEW text \in Seq(Nat), Clear(c, start, text),
         NEW i \in 1..Len(text)
  PROVE  At(c, start \o text, Len(start) + i) = At(c, text, i)
<1> DEFINE all == start \o text
           k == Len(start)
           n == Len(text)
<1>1. k \in Nat /\ n \in Nat /\ all[k + i] = text[i]
  BY JoinAtNat
<1>2. \A j \in 1..n : Occurs(c, all, k + j) <=> Occurs(c, text, j)
  BY OccursShift
<1>3. ~Occurs(c, all, k) /\ ~Occurs(c, all, k - 1)
  BY DEF Clear
<1>4. ASSUME NEW j \in Int, ~(j \in 1..n) PROVE ~Occurs(c, text, j)
  BY <1>1, <1>4 DEF Occurs
<1>5. i \in 1..n
  OBVIOUS
<1> HIDE DEF all, k, n
<1>6. Occurs(c, all, (k + i) - 1) <=> Occurs(c, text, i - 1)
  <2>1. CASE i = 1
    <3>1. (k + i) - 1 = k /\ i - 1 = 0 /\ 0 \notin 1..n /\ 0 \in Int
      BY <1>1, <2>1
    <3> QED BY <1>3, <1>4, <3>1
  <2>2. CASE i # 1
    <3>1. (k + i) - 1 = k + (i - 1) /\ i - 1 \in 1..n
      BY <1>1, <1>5, <2>2
    <3> QED BY <1>2, <3>1
  <2> QED BY <2>1, <2>2
<1>7. Occurs(c, all, (k + i) - 2) <=> Occurs(c, text, i - 2)
  <2>1. CASE i = 1
    <3>1. (k + i) - 2 = k - 1 /\ i - 2 \notin 1..n /\ i - 2 \in Int
      BY <1>1, <2>1
    <3> QED BY <1>3, <1>4, <3>1
  <2>2. CASE i = 2
    <3>1. (k + i) - 2 = k /\ i - 2 \notin 1..n /\ i - 2 \in Int
      BY <1>1, <2>2
    <3> QED BY <1>3, <1>4, <3>1
  <2>3. CASE i # 1 /\ i # 2
    <3>1. (k + i) - 2 = k + (i - 2) /\ i - 2 \in 1..n
      BY <1>1, <1>5, <2>3
    <3> QED BY <1>2, <3>1
  <2> QED BY <2>1, <2>2, <2>3
<1>8. Occurs(c, all, k + i) <=> Occurs(c, text, i)
  BY <1>2, <1>5
<1>9. At(c, all, k + i) = At(c, text, i)
  BY <1>1, <1>6, <1>7, <1>8, Zenon DEF At
<1> QED BY <1>9 DEF all, k

LEMMA UnescapedAfter ==
  ASSUME NEW c \in Escapable, NEW start \in Seq(Nat), NEW text \in Seq(Nat), Clear(c, start, text)
  PROVE  /\ Front(c, start, text) \in Seq(Seq(Nat))
         /\ Unescaped(c, start \o text) = Concat(Front(c, start, text)) \o Unescaped(c, text)
<1> DEFINE all == start \o text
           front == Front(c, start, text)
           a == Unesc(c, all)
           b == Unesc(c, text)
           fb == front \o b
<1>1. all \in Seq(Nat) /\ Len(all) = Len(start) + Len(text) /\ Len(start) \in Nat /\ Len(text) \in Nat
  BY CutNats, JoinAtNat
<1>2. \A i \in 1..Len(text) : At(c, all, Len(start) + i) = At(c, text, i)
  BY AtShift
<1>b. b \in Seq(Seq(Nat)) /\ Len(b) = Len(text) /\ (\A i \in 1..Len(text) : b[i] = At(c, text, i))
      /\ Unescaped(c, text) = Concat(b)
  BY UnescapedIs
<1>d. front = [i \in 1..Len(start) |-> At(c, all, i)]
  BY DEF Front
<1> HIDE DEF all, b, front
<1>a. a \in Seq(Seq(Nat)) /\ Len(a) = Len(all) /\ (\A i \in 1..Len(all) : a[i] = At(c, all, i))
      /\ Unescaped(c, all) = Concat(a)
  BY <1>1, UnescapedIs
<1> HIDE DEF a
<1>f. front \in Seq(Seq(Nat)) /\ Len(front) = Len(start)
      /\ \A i \in 1..Len(start) : front[i] = At(c, all, i)
  <2>1. \A i \in 1..Len(start) : i \in 1..Len(all)
    BY <1>1
  <2>2. \A i \in 1..Len(all) : a[i] \in Seq(Nat)
    BY <1>a
  <2>3. \A i \in 1..Len(start) : At(c, all, i) \in Seq(Nat)
    BY <1>a, <2>1, <2>2
  <2> QED BY <1>1, <1>d, <2>3
<1>g. fb \in Seq(Seq(Nat)) /\ Len(fb) = Len(front) + Len(b)
      /\ (\A i \in 1..Len(front) : fb[i] = front[i]) /\ \A i \in 1..Len(b) : fb[Len(front) + i] = b[i]
  <2>1. front \in Seq(Seq(Nat)) /\ b \in Seq(Seq(Nat))
    BY <1>b, <1>f
  <2> QED BY <2>1, JoinAt, JoinCuts
<1> HIDE DEF fb
<1>3. ASSUME NEW i \in 1..Len(a) PROVE a[i] = fb[i]
  <2>1. i \in 1..Len(all) /\ a[i] = At(c, all, i)
    BY <1>a
  <2>2. CASE i <= Len(start)
    <3>1. i \in 1..Len(start) /\ i \in 1..Len(front)
      BY <1>1, <1>f, <2>1, <2>2
    <3> QED BY <1>f, <1>g, <2>1, <3>1, Zenon
  <2>3. CASE ~(i <= Len(start))
    <3>1. i - Len(start) \in 1..Len(text) /\ Len(start) + (i - Len(start)) = i
      BY <1>1, <2>1, <2>3
    <3>2. a[i] = At(c, text, i - Len(start))
      BY <1>2, <2>1, <3>1
    <3>3. fb[i] = b[i - Len(start)]
      BY <1>b, <1>f, <1>g, <3>1
    <3> QED BY <1>b, <3>1, <3>2, <3>3
  <2> QED BY <2>2, <2>3
<1>4. Len(a) = Len(fb)
  BY <1>1, <1>a, <1>b, <1>f, <1>g
<1>5. a = fb
  BY <1>3, <1>4, <1>a, <1>g, SeqEqual
<1>6. Concat(front \o b) = Concat(front) \o Concat(b)
  BY <1>b, <1>f, ConcatSplit
<1> QED BY <1>5, <1>6, <1>a, <1>b, <1>f, Zenon DEF fb, front, all

LEMMA Pair == \A x, y \in Seq(Nat) : <<x, y>> = <<x>> \o <<y>>
<1> TAKE x, y \in Seq(Nat)
<1> DEFINE a == <<x, y>>
           b == <<x>> \o <<y>>
<1>1. a \in Seq(Seq(Nat)) /\ Len(a) = 2 /\ a[1] = x /\ a[2] = y
  OBVIOUS
<1>2. <<y>> \in Seq(Seq(Nat)) /\ Len(<<y>>) = 1 /\ <<y>>[1] = y
  OBVIOUS
<1>3. b \in Seq(Seq(Nat)) /\ Len(b) = 2 /\ b[1] = x /\ b[2] = y
  <2> DEFINE s == <<y>>
  <2>1. s \in Seq(Seq(Nat)) /\ Len(s) = 1 /\ s[1] = y /\ 1 \in 1..Len(s)
    BY <1>2
  <2> HIDE DEF s
  <2> DEFINE xs == <<x>> \o s
  <2>2. xs \in Seq(Seq(Nat)) /\ Len(xs) = Len(s) + 1 /\ xs[1] = x /\ \A i \in 1..Len(s) : xs[i + 1] = s[i]
    <3>1. s \in Seq(Seq(Nat)) /\ x \in Seq(Nat)
      BY <2>1
    <3> QED BY <3>1, ConsIs
  <2> HIDE DEF xs
  <2>3. xs \in Seq(Seq(Nat)) /\ Len(xs) = 2 /\ xs[1] = x /\ xs[2] = y
    <3>1. 1 + 1 = 2 /\ xs[1 + 1] = s[1]
      BY <2>1, <2>2
    <3> QED BY <2>1, <2>2, <3>1
  <2> QED BY <2>3, Zenon DEF xs, s
<1> HIDE DEF a, b
<1>4. ASSUME NEW i \in 1..Len(a) PROVE a[i] = b[i]
  <2>1. i = 1 \/ i = 2
    BY <1>1
  <2> QED BY <1>1, <1>3, <2>1
<1>5. a = b
  BY <1>1, <1>3, <1>4, SeqEqual
<1> QED BY <1>5 DEF a, b

LEMMA ConcatOfThree ==
  ASSUME NEW x \in Seq(Nat), NEW y \in Seq(Nat), NEW z \in Seq(Nat)
  PROVE  Concat(<<x, y, z>>) = x \o (y \o z)
<1> DEFINE two == <<y, z>>
           one == <<z>>
<1>0. one \in Seq(Seq(Nat)) /\ two \in Seq(Seq(Nat))
  OBVIOUS
<1>a. two = <<y>> \o one
  BY Pair, Zenon
<1>b. <<x, y, z>> = <<x>> \o two
  OBVIOUS
<1>1. one \in Seq(Seq(Nat)) /\ two \in Seq(Seq(Nat)) /\ two = <<y>> \o one /\ <<x, y, z>> = <<x>> \o two
  BY <1>0, <1>a, <1>b, Zenon
<1>2. Concat(one) = z
  BY ConcatOfOne
<1> HIDE DEF one, two
<1>3. Concat(<<y>> \o one) = y \o Concat(one)
  BY <1>1, ConcatCons
<1>4. Concat(<<x>> \o two) = x \o Concat(two)
  BY <1>1, ConcatCons
<1> QED BY <1>1, <1>2, <1>3, <1>4, Zenon

LEMMA UnescapedNone ==
  ASSUME NEW c \in Escapable PROVE Unescaped(c, <<>>) = <<>>
<1>1. <<>> \in Seq(Nat) /\ Unesc(c, <<>>) = <<>>
  BY DEF Unesc
<1> QED BY <1>1, UnescapedIs, ConcatOfNone, Zenon

LEMMA UnescapedPlain ==
  ASSUME NEW c \in Escapable, NEW x \in Nat, x # Percent, NEW text \in Seq(Nat)
  PROVE  Unescaped(c, <<x>> \o text) = <<x>> \o Unescaped(c, text)
<1> DEFINE start == <<x>>
           all == start \o text
<1>1. start \in Seq(Nat) /\ Len(start) = 1
  OBVIOUS
<1>2. all \in Seq(Nat) /\ all[1] = x
  BY ConsIs
<1>3. Front(c, start, text) = <<At(c, all, 1)>>
  BY DEF Front
<1> HIDE DEF start, all
<1>4. ~Occurs(c, all, 1)
  <2>1. ~OccursAt(c, all, 1)
    BY <1>2, Zenon DEF OccursAt
  <2> QED BY <1>2, <2>1, OccursIs
<1>5. ~Occurs(c, all, 0) /\ ~Occurs(c, all, 1 - 1) /\ ~Occurs(c, all, 1 - 2)
  <2>1. 0 \notin 1..Len(all) - 2 /\ 1 - 1 \notin 1..Len(all) - 2 /\ 1 - 2 \notin 1..Len(all) - 2
    OBVIOUS
  <2> QED BY <2>1, Zenon DEF Occurs
<1>6. Clear(c, start, text)
  BY <1>1, <1>4, <1>5, Zenon DEF Clear, all
<1>7. At(c, all, 1) = <<x>>
  BY <1>2, <1>4, <1>5, Zenon DEF At
<1>8. Unescaped(c, start \o text) = Concat(Front(c, start, text)) \o Unescaped(c, text)
  BY <1>1, <1>6, UnescapedAfter, Zenon
<1>9. Concat(<<start>>) = start
  BY <1>1, ConcatOfOne
<1> QED BY <1>3, <1>7, <1>8, <1>9, Zenon DEF start

LEMMA EscapeAhead ==
  ASSUME NEW c \in Escapable, NEW d \in Escapable, NEW text \in Seq(Nat)
  PROVE  /\ Occurs(c, Escape[d] \o text, 1) <=> c = d
         /\ \A i \in {-1, 0, 2, 3} : ~Occurs(c, Escape[d] \o text, i)
         /\ Clear(c, Escape[d], text)
<1> DEFINE e == Escape[d]
           all == e \o text
<1>1. e \in Seq(Nat) /\ Len(e) = 3 /\ e[1] = Percent /\ e[2] # Percent /\ e[3] # Percent
  BY EscapeIs DEF EscapeOf
<1> HIDE DEF e
<1>2. all \in Seq(Nat) /\ Len(all) = Len(e) + Len(text) /\ Len(text) \in Nat
      /\ \A i \in 1..Len(e) : all[i] = e[i]
  BY <1>1, CutNats, JoinAtNat
<1> HIDE DEF all
<1>3. all[1] = e[1] /\ all[2] = e[2] /\ all[3] = e[3] /\ 1 \in 1..Len(all) - 2
      /\ 1 + 1 = 2 /\ 1 + 2 = 3
  BY <1>1, <1>2
<1>4. Occurs(c, all, 1) <=> OccursAt(c, all, 1)
  BY <1>2, OccursIs
<1>5. OccursAt(c, all, 1) <=> e[2] = Escape[c][2] /\ e[3] = Escape[c][3]
  BY <1>1, <1>3, Zenon DEF OccursAt
<1>6. Occurs(c, all, 1) <=> c = d
  <2>1. c # d => Apart(c, d)
    BY EscapeIs, Zenon
  <2> QED BY <1>4, <1>5, <2>1, Zenon DEF Apart, e
<1>7. ~Occurs(c, all, 2) /\ ~Occurs(c, all, 3)
  <2>1. ~OccursAt(c, all, 2) /\ ~OccursAt(c, all, 3)
    BY <1>1, <1>3, Zenon DEF OccursAt
  <2> QED BY <1>2, <2>1, OccursIs
<1>8. ~Occurs(c, all, 0) /\ ~Occurs(c, all, -1)
  <2>1. 0 \notin 1..Len(all) - 2 /\ -1 \notin 1..Len(all) - 2
    OBVIOUS
  <2> QED BY <2>1 DEF Occurs
<1>9. Clear(c, e, text)
  <2>1. Len(e) = 3 /\ Len(e) - 1 = 2
    BY <1>1
  <2> QED BY <1>7, <2>1, Zenon DEF Clear, all
<1>10. \A i \in {-1, 0, 2, 3} : ~Occurs(c, all, i)
  BY <1>7, <1>8
<1> QED BY <1>6, <1>9, <1>10, Zenon DEF e, all

LEMMA UnescapedEscape ==
  ASSUME NEW c \in Escapable, NEW d \in Escapable, NEW text \in Seq(Nat)
  PROVE  Unescaped(c, Escape[d] \o text)
           = (IF c = d THEN <<c>> ELSE Escape[d]) \o Unescaped(c, text)
<1> DEFINE e == Escape[d]
           all == e \o text
           front == Front(c, e, text)
<1>1. e \in Seq(Nat) /\ Len(e) = 3 /\ c \in Nat /\ e[1] \in Nat /\ e[2] \in Nat /\ e[3] \in Nat
  BY EscapeIs DEF EscapeOf
<1>2. /\ Occurs(c, all, 1) <=> c = d
      /\ ~Occurs(c, all, -1) /\ ~Occurs(c, all, 0) /\ ~Occurs(c, all, 2) /\ ~Occurs(c, all, 3)
      /\ Clear(c, e, text)
  BY EscapeAhead
<1> HIDE DEF e
<1>3. all[1] = e[1] /\ all[2] = e[2] /\ all[3] = e[3]
  <2>1. \A i \in 1..Len(e) : all[i] = e[i]
    BY <1>1, JoinAtNat
  <2>2. 1 \in 1..Len(e) /\ 2 \in 1..Len(e) /\ 3 \in 1..Len(e)
    BY <1>1
  <2> QED BY <2>1, <2>2
<1>4. front = <<At(c, all, 1), At(c, all, 2), At(c, all, 3)>>
  BY <1>1 DEF Front
<1> HIDE DEF all
<1>5. 1 - 1 = 0 /\ 1 - 2 = -1 /\ 2 - 1 = 1 /\ 2 - 2 = 0 /\ 3 - 1 = 2 /\ 3 - 2 = 1
  OBVIOUS
<1>6. Unescaped(c, all) = Concat(front) \o Unescaped(c, text)
  BY <1>1, <1>2, UnescapedAfter, Zenon DEF all
<1>7. <<>> \in Seq(Nat) /\ <<c>> \in Seq(Nat) /\ <<e[1]>> \in Seq(Nat) /\ <<e[2]>> \in Seq(Nat)
      /\ <<e[3]>> \in Seq(Nat)
  BY <1>1
<1> HIDE DEF front
<1>8. CASE c = d
  <2>1. At(c, all, 1) = <<c>> /\ At(c, all, 2) = <<>> /\ At(c, all, 3) = <<>>
    BY <1>2, <1>5, <1>8 DEF At
  <2>2. Concat(<< <<c>>, <<>>, <<>> >>) = <<c>> \o (<<>> \o <<>>)
    BY <1>7, ConcatOfThree, Zenon
  <2>3. <<c>> \o (<<>> \o <<>>) = <<c>>
    OBVIOUS
  <2> QED BY <1>4, <1>6, <1>8, <2>1, <2>2, <2>3, Zenon DEF all, e
<1>9. CASE c # d
  <2>1. At(c, all, 1) = <<e[1]>> /\ At(c, all, 2) = <<e[2]>> /\ At(c, all, 3) = <<e[3]>>
    BY <1>2, <1>3, <1>5, <1>9 DEF At
  <2>2. Concat(<< <<e[1]>>, <<e[2]>>, <<e[3]>> >>) = <<e[1]>> \o (<<e[2]>> \o <<e[3]>>)
    BY <1>7, ConcatOfThree, Zenon
  <2>3. <<e[1]>> \o (<<e[2]>> \o <<e[3]>>) = e
    BY <1>1
  <2> QED BY <1>4, <1>6, <1>9, <2>1, <2>2, <2>3, Zenon DEF all, e
<1> QED BY <1>8, <1>9

(* The escapes of only some characters.                                     *)
Only(A) == [x \in Nat |-> IF x \in A THEN Escape[x] ELSE <<x>>]

LEMMA OnlyMaps ==
  ASSUME NEW A \in SUBSET Escapable
  PROVE  /\ Maps(Only(A), Nat, Seq(Nat))
         /\ \A x \in Nat : Only(A)[x] = IF x \in A THEN Escape[x] ELSE <<x>>
<1>1. ASSUME NEW x \in Nat PROVE (IF x \in A THEN Escape[x] ELSE <<x>>) \in Seq(Nat)
  <2>1. <<x>> \in Seq(Nat)
    OBVIOUS
  <2>2. x \in A => Escape[x] \in Seq(Nat)
    BY EscapeIs DEF EscapeOf
  <2> QED BY <2>1, <2>2
<1> QED BY <1>1 DEF Maps, Only

LEMMA UnescapedOnly ==
  ASSUME NEW A \in SUBSET Escapable, NEW c \in A, Percent \in A, NEW text \in Seq(Nat)
  PROVE  Unescaped(c, Each(Only(A), text)) = Each(Only(A \ {c}), text)
<1> DEFINE P == Only(A)
           R == Only(A \ {c})
           S == {t \in Seq(Nat) : Unescaped(c, Each(P, t)) = Each(R, t)}
<1>1. /\ Maps(P, Nat, Seq(Nat)) /\ \A x \in Nat : P[x] = IF x \in A THEN Escape[x] ELSE <<x>>
      /\ Maps(R, Nat, Seq(Nat)) /\ \A x \in Nat : R[x] = IF x \in A \ {c} THEN Escape[x] ELSE <<x>>
  BY OnlyMaps
<1>0. c \in Escapable
  OBVIOUS
<1> HIDE DEF P, R
<1>2. <<>> \in S
  <2>1. <<>> \in Seq(Nat) /\ Each(P, <<>>) = <<>> /\ Each(R, <<>>) = <<>>
    BY EachNone
  <2> QED BY <1>0, <2>1, UnescapedNone, Zenon
<1>3. ASSUME NEW x \in Nat, NEW t \in Seq(Nat), t \in S PROVE <<x>> \o t \in S
  <2> DEFINE p == Each(P, t)
  <2>1. EachMore(P, x, t) /\ EachMore(R, x, t)
    BY <1>1, EachCons, Zenon
  <2>2. p \in Seq(Nat)
    BY <1>1, EachType, Zenon
  <2>3. Unescaped(c, p) = Each(R, t)
    BY <1>3
  <2> HIDE DEF p
  <2>4. Unescaped(c, P[x] \o p) = R[x] \o Unescaped(c, p)
    <3>1. CASE x \notin A
      <4>1. P[x] = <<x>> /\ R[x] = <<x>> /\ x # Percent
        BY <1>1, <3>1
      <4> QED BY <1>0, <2>2, <4>1, UnescapedPlain, Zenon
    <3>2. CASE x \in A
      <4>1. P[x] = Escape[x] /\ R[x] = (IF c = x THEN <<c>> ELSE Escape[x]) /\ x \in Escapable
        BY <1>1, <3>2
      <4>2. Unescaped(c, Escape[x] \o p) = (IF c = x THEN <<c>> ELSE Escape[x]) \o Unescaped(c, p)
        BY <1>0, <2>2, <4>1, UnescapedEscape
      <4> QED BY <4>1, <4>2, Zenon
    <3> QED BY <3>1, <3>2
  <2>5. <<x>> \o t \in Seq(Nat)
    BY ConsIs
  <2>6. Unescaped(c, Each(P, <<x>> \o t)) = Each(R, <<x>> \o t)
    BY <2>1, <2>3, <2>4, Zenon DEF EachMore, p
  <2> QED BY <2>5, <2>6
<1> HIDE DEF S
<1>4. Seq(Nat) \subseteq S
  BY <1>2, <1>3, SeqInduct
<1> QED BY <1>4 DEF S, P, R

(* Every escape undone: the text as it was.                                 *)
LEMMA UnescapedAll ==
  ASSUME NEW text \in Seq(Nat)
  PROVE  Unescaped(Percent, Unescaped(Blank, Unescaped(Newline, Each(Only(Escapable), text)))) = text
<1> DEFINE A == Escapable \ {Newline}
           B == A \ {Blank}
           C == B \ {Percent}
<1>1. /\ Escapable \in SUBSET Escapable /\ Newline \in Escapable /\ Percent \in Escapable
      /\ A \in SUBSET Escapable /\ Blank \in A /\ Percent \in A
      /\ B \in SUBSET Escapable /\ Percent \in B
      /\ C \in SUBSET Escapable /\ C = {}
  BY EscapableIs DEF Percent, Blank, Newline
<1> HIDE DEF A, B, C
<1>2. Unescaped(Newline, Each(Only(Escapable), text)) = Each(Only(A), text)
  BY <1>1, UnescapedOnly, Zenon DEF A
<1>3. Unescaped(Blank, Each(Only(A), text)) = Each(Only(B), text)
  BY <1>1, UnescapedOnly, Zenon DEF B
<1>4. Unescaped(Percent, Each(Only(B), text)) = Each(Only(C), text)
  BY <1>1, UnescapedOnly, Zenon DEF C
<1>5. Each(Only(C), text) = text
  <2>1. Maps(Only(C), Nat, Seq(Nat)) /\ \A x \in Nat : Only(C)[x] = IF x \in C THEN Escape[x] ELSE <<x>>
    BY <1>1, OnlyMaps
  <2>2. \A x \in Nat : Only(C)[x] = <<x>>
    BY <1>1, <2>1
  <2>3. Nat \in SUBSET Nat
    OBVIOUS
  <2> QED BY <2>1, <2>2, <2>3, EachSame
<1> QED BY <1>2, <1>3, <1>4, <1>5, Zenon

-----------------------------------------------------------------------------
(* A note on a line.                                                        *)

Escaping == Only(Escapable)
Enc == [text \in Seq(Nat) |-> Each(Escaping, text)]

LEMMA EscapingMaps ==
  /\ Maps(Escaping, Nat, Seq(Nat))
  /\ \A x \in Nat : Escaping[x] = IF x \in Escapable THEN Escape[x] ELSE <<x>>
BY OnlyMaps DEF Escaping

LEMMA EncMaps ==
  /\ Maps(Enc, Seq(Nat), Seq(Nat))
  /\ \A text \in Seq(Nat) : Enc[text] = Each(Escaping, text) /\ Enc[text] \in Seq(Nat)
<1>1. \A text \in Seq(Nat) : Each(Escaping, text) \in Seq(Nat)
  BY EscapingMaps, EachType, Zenon
<1> QED BY <1>1 DEF Maps, Enc

LEMMA EncNone == Enc[<<>>] = <<>>
<1>1. <<>> \in Seq(Nat)
  OBVIOUS
<1> QED BY <1>1, EncMaps, EachNone, Zenon

EncMore(x, text) == Enc[<<x>> \o text] = Escaping[x] \o Enc[text]
EncJoins(a, b) == Enc[a \o b] = Enc[a] \o Enc[b]

LEMMA EncCons ==
  ASSUME NEW x \in Nat, NEW text \in Seq(Nat)
  PROVE  EncMore(x, text)
<1>1. <<x>> \o text \in Seq(Nat)
  BY ConsIs
<1>2. EachMore(Escaping, x, text)
  BY EscapingMaps, EachCons, Zenon
<1> QED BY <1>1, <1>2, EncMaps, Zenon DEF EachMore, EncMore

LEMMA EncJoin ==
  ASSUME NEW a \in Seq(Nat), NEW b \in Seq(Nat)
  PROVE  EncJoins(a, b)
<1>1. a \o b \in Seq(Nat)
  BY CutNats
<1>2. EachSplits(Escaping, a, b)
  BY EscapingMaps, EachJoin, Zenon
<1> QED BY <1>1, <1>2, EncMaps, Zenon DEF EachSplits, EncJoins

LEMMA EncOne ==
  ASSUME NEW x \in Nat PROVE Enc[<<x>>] = Escaping[x]
<1>1. <<x>> \in Seq(Nat)
  OBVIOUS
<1>2. Each(Escaping, <<x>>) = Escaping[x]
  BY EscapingMaps, EachOne
<1> QED BY <1>1, <1>2, EncMaps, Zenon

LEMMA EncSome ==
  ASSUME NEW text \in Seq(Nat), text # <<>> PROVE Enc[text] # <<>>
<1>1. PICK x \in Nat, rest \in Seq(Nat) : text = <<x>> \o rest
  BY ConsOf
<1>2. EncMore(x, rest)
  BY EncCons
<1>3. Escaping[x] \in Seq(Nat) /\ Escaping[x] # <<>>
  <2>1. x \in Escapable => Escape[x] \in Seq(Nat) /\ Escape[x] # <<>>
    BY EscapeIs DEF EscapeOf
  <2>2. <<x>> \in Seq(Nat) /\ <<x>> # <<>>
    OBVIOUS
  <2> QED BY <2>1, <2>2, EscapingMaps
<1>4. Enc[rest] \in Seq(Nat)
  BY EncMaps
<1> DEFINE a == Escaping[x]
           b == Enc[rest]
<1>5. a \o b # <<>>
  <2>1. a \in Seq(Nat) /\ b \in Seq(Nat) /\ a # <<>>
    BY <1>3, <1>4
  <2> HIDE DEF a, b
  <2>2. Len(a \o b) = Len(a) + Len(b) /\ Len(a) # 0 /\ Len(a) \in Nat /\ Len(b) \in Nat
    BY <2>1
  <2> QED BY <2>2
<1> QED BY <1>1, <1>2, <1>5, Zenon DEF EncMore

LEMMA QIs ==
  ASSUME NEW text \in Seq(Nat) PROVE q(text) = Unless(Dash, Enc[text])
<1>1. \A i \in 1..Len(text) : text[i] \in Nat
  OBVIOUS
<1>2. \A i \in 1..Len(text) :
        (IF text[i] \in DOMAIN Escape THEN Escape[text[i]] ELSE <<text[i]>>) = Escaping[text[i]]
  BY <1>1, EscapingMaps, Zenon DEF Escapable
<1>3. [i \in 1..Len(text) |-> IF text[i] \in DOMAIN Escape THEN Escape[text[i]] ELSE <<text[i]>>]
        = Mapped(Escaping, text)
  BY <1>2, Zenon DEF Mapped
<1> QED BY <1>3, EncMaps, Zenon DEF q, Each

LEMMA DashIs == Dash \in Seq(Nat) /\ Dash # <<>> /\ Enc[Dash] = Dash
<1>1. Dash \in Seq(Nat) /\ Dash # <<>> /\ 45 \in Nat
  BY DEF Dash
<1>2. 45 \notin Escapable
  BY EscapableIs DEF Percent, Blank, Newline
<1>3. Enc[Dash] = Escaping[45]
  BY <1>1, EncOne, Zenon DEF Dash
<1> QED BY <1>1, <1>2, <1>3, EscapingMaps, Zenon DEF Dash

(* A dash alone is read as nothing, all else as it was.                     *)
LEMMA UqIs ==
  ASSUME NEW text \in Seq(Nat)
  PROVE  uq(Enc[text]) = IF text = Dash THEN <<>> ELSE text
<1> DEFINE Un(t) == Unescaped(Percent, Unescaped(Blank, Unescaped(Newline, t)))
<1>1. Un(Enc[text]) = text /\ Un(Enc[Dash]) = Dash
  BY UnescapedAll, EncMaps, DashIs, Zenon DEF Escaping
<1>2. Enc[text] = Dash <=> text = Dash
  BY <1>1, DashIs, Zenon
<1> QED BY <1>1, <1>2, Zenon DEF uq

Soft == White \ {Blank, Newline}

LEMMA SoftIs ==
  ASSUME NEW x \in Nat
  PROVE  /\ x \in Soft => x \in White /\ x \notin Escapable
         /\ x \notin Soft => Escaping[x] \in Seq(Nat \ White)
<1>1. ASSUME x \in Soft PROVE x \in White /\ x \notin Escapable
  BY <1>1, EscapableIs DEF Soft, White, Percent, Blank, Newline
<1>2. ASSUME x \notin Soft PROVE Escaping[x] \in Seq(Nat \ White)
  <2>1. CASE x \in Escapable
    <3>1. 37 \in Nat \ White /\ 50 \in Nat \ White /\ 53 \in Nat \ White /\ 48 \in Nat \ White
          /\ 65 \in Nat \ White
      BY DEF White
    <3>2. x = Percent \/ x = Blank \/ x = Newline
      BY <2>1, EscapableIs, Zenon
    <3> DEFINE T == Nat \ White
    <3> HIDE DEF T
    <3>4. 37 \in T /\ 50 \in T /\ 53 \in T /\ 48 \in T /\ 65 \in T
      BY <3>1 DEF T
    <3>5. <<37, 50, 53>> \in Seq(T) /\ <<37, 50, 48>> \in Seq(T) /\ <<37, 48, 65>> \in Seq(T)
      BY <3>4
    <3>3. Escape[x] \in Seq(Nat \ White)
      BY <3>2, <3>5, EscapableIs, Zenon DEF T
    <3> QED BY <2>1, <3>3, EscapingMaps
  <2>2. CASE x \notin Escapable
    <3>1. x \notin White
      BY <1>2, <2>2, EscapableIs DEF Soft
    <3>2. <<x>> \in Seq(Nat \ White)
      BY <3>1
    <3> QED BY <2>2, <3>2, EscapingMaps
  <2> QED BY <2>1, <2>2
<1> QED BY <1>1, <1>2

(* The first piece of many.                                                 *)
LEMMA BeforeCons ==
  ASSUME NEW part \in Seq(Nat), NEW first \in Seq(Nat), NEW rest \in Seq(Seq(Nat))
  PROVE  Before(part, <<first>> \o rest) = <<part \o first>> \o rest
<1> DEFINE all == <<first>> \o rest
           new == Before(part, all)
           pf == part \o first
           both == <<pf>> \o rest
<1>1. all \in Seq(Seq(Nat)) /\ Len(all) = Len(rest) + 1 /\ all[1] = first /\ all # <<>>
      /\ Len(rest) \in Nat /\ \A i \in 1..Len(rest) : all[i + 1] = rest[i]
  BY ConsIs
<1>2. pf \in Seq(Nat)
  BY CutNats
<1> HIDE DEF all, pf
<1>3. both \in Seq(Seq(Nat)) /\ Len(both) = Len(rest) + 1 /\ both[1] = pf
      /\ \A i \in 1..Len(rest) : both[i + 1] = rest[i]
  BY <1>2, ConsIs
<1>4. all \in Cuts
  BY <1>1 DEF Cuts
<1>5. new \in Seq(Seq(Nat)) /\ Len(new) = Len(all) /\ new[1] = part \o all[1]
      /\ \A i \in 2..Len(all) : new[i] = all[i]
  BY <1>4, BeforeIs DEF Cuts
<1> HIDE DEF new, both
<1>6. ASSUME NEW i \in 1..Len(new) PROVE new[i] = both[i]
  <2>1. CASE i = 1
    BY <1>1, <1>3, <1>5, <2>1, Zenon DEF pf
  <2>2. CASE i # 1
    <3>1. i \in 2..Len(all) /\ i - 1 \in 1..Len(rest) /\ (i - 1) + 1 = i
      BY <1>1, <1>5, <2>2
    <3>2. all[i] = rest[i - 1] /\ both[i] = rest[i - 1]
      BY <1>1, <1>3, <3>1
    <3> QED BY <1>5, <3>1, <3>2
  <2> QED BY <2>1, <2>2
<1>7. Len(new) = Len(both)
  BY <1>1, <1>3, <1>5
<1>8. new = both
  BY <1>3, <1>5, <1>6, <1>7, SeqEqual
<1> QED BY <1>8 DEF new, both, all, pf

LEMMA CutsAre ==
  ASSUME NEW pieces \in Cuts
  PROVE  \E first \in Seq(Nat), rest \in Seq(Seq(Nat)) : pieces = <<first>> \o rest
<1>1. pieces \in Seq(Seq(Nat)) /\ pieces # <<>>
  BY DEF Cuts
<1> QED BY <1>1, ConsOf

LEMMA PiecesOfEnc ==
  ASSUME NEW text \in Seq(Nat)
  PROVE  Pieces(White, Enc[text]) = Mapped(Enc, Pieces(Soft, text))
<1> DEFINE S == {t \in Seq(Nat) : Pieces(White, Enc[t]) = Mapped(Enc, Pieces(Soft, t))}
<1>0. <<>> \in Seq(Nat)
  OBVIOUS
<1>1. <<>> \in S
  <2>1. Mapped(Enc, << <<>> >>) = <<Enc[<<>>]>>
    BY DEF Mapped
  <2>2. Pieces(White, Enc[<<>>]) = << <<>> >> /\ Pieces(Soft, <<>>) = << <<>> >>
    BY EncNone, PiecesOfNone
  <2> QED BY <1>0, <2>1, <2>2, EncNone, Zenon
<1>2. ASSUME NEW x \in Nat, NEW t \in Seq(Nat), t \in S PROVE <<x>> \o t \in S
  <2> DEFINE P == Pieces(Soft, t)
             e == Enc[t]
             a == Escaping[x]
  <2>1. P \in Cuts /\ e \in Seq(Nat) /\ a \in Seq(Nat)
    BY PiecesType, EncMaps, EscapingMaps DEF Maps
  <2>2. Pieces(White, e) = Mapped(Enc, P)
    BY <1>2
  <2>3. <<x>> \o t \in Seq(Nat)
    BY ConsIs
  <2>4. Enc[<<x>> \o t] = a \o e
    BY EncCons, Zenon DEF EncMore
  <2>5. Pieces(Soft, <<x>> \o t) = More(Soft, x, P)
    BY PiecesCons
  <2>p. PICK first \in Seq(Nat), rest \in Seq(Seq(Nat)) : P = <<first>> \o rest
    BY <2>1, CutsAre, Zenon
  <2>q. P \in Seq(Seq(Nat))
    BY <2>1 DEF Cuts
  <2> HIDE DEF P, e, a
  <2>6. CASE x \in Soft
    <3>1. x \in White /\ a = <<x>>
      BY <2>6, SoftIs, EscapingMaps DEF a
    <3>2. Pieces(White, <<x>> \o e) = << <<>> >> \o Mapped(Enc, P)
      <4>1. Pieces(White, <<x>> \o e) = More(White, x, Pieces(White, e))
        BY <2>1, PiecesCons
      <4>2. More(White, x, Mapped(Enc, P)) = << <<>> >> \o Mapped(Enc, P)
        BY <3>1, Zenon DEF More
      <4> QED BY <2>2, <4>1, <4>2, Zenon
    <3>3. MapsCons(Enc, <<>>, P)
      BY <1>0, <2>q, EncMaps, MappedCons, Zenon
    <3>4. Pieces(Soft, <<x>> \o t) = << <<>> >> \o P
      BY <2>5, <2>6, Zenon DEF More
    <3>5. Pieces(White, Enc[<<x>> \o t]) = Mapped(Enc, Pieces(Soft, <<x>> \o t))
      BY <2>4, <3>1, <3>2, <3>3, <3>4, EncNone, Zenon DEF MapsCons
    <3> QED BY <2>3, <3>5
  <2>7. CASE x \notin Soft
    <3>1. a \in Seq(Nat \ White)
      BY <2>7, SoftIs DEF a
    <3>2. Pieces(White, a \o e) = Before(a, Mapped(Enc, P))
      BY <2>1, <2>2, <3>1, PiecesAfter, Zenon
    <3>3. <<x>> \in Seq(Nat)
      OBVIOUS
    <3>4. Pieces(Soft, <<x>> \o t) = Before(<<x>>, P)
      BY <2>5, <2>7, Zenon DEF More, Before
    <3>5. Before(<<x>>, P) = <<(<<x>> \o first)>> \o rest
      BY <2>p, <3>3, BeforeCons, Zenon
    <3> DEFINE xf == <<x>> \o first
    <3>6. xf \in Seq(Nat) /\ Enc[xf] = a \o Enc[first]
      <4>1. xf \in Seq(Nat)
        BY ConsIs
      <4>2. Enc[xf] = a \o Enc[first]
        BY EncCons, Zenon DEF EncMore, a
      <4> QED BY <4>1, <4>2
    <3> HIDE DEF xf
    <3>7. MapsCons(Enc, xf, rest) /\ MapsCons(Enc, first, rest)
      BY <3>6, EncMaps, MappedCons, Zenon
    <3>8. Enc[first] \in Seq(Nat) /\ Mapped(Enc, rest) \in Seq(Seq(Nat))
      <4>1. MapsTo(Enc, rest, Seq(Nat))
        BY EncMaps, MappedType, Zenon
      <4> QED BY <4>1, EncMaps DEF MapsTo
    <3>9. Before(a, <<Enc[first]>> \o Mapped(Enc, rest)) = <<a \o Enc[first]>> \o Mapped(Enc, rest)
      BY <2>1, <3>8, BeforeCons, Zenon
    <3>10. Before(a, Mapped(Enc, P)) = Mapped(Enc, <<xf>> \o rest)
      BY <2>p, <3>6, <3>7, <3>9, Zenon DEF MapsCons
    <3>11. Pieces(White, Enc[<<x>> \o t]) = Mapped(Enc, Pieces(Soft, <<x>> \o t))
      BY <2>4, <3>2, <3>4, <3>5, <3>10, Zenon DEF xf
    <3> QED BY <2>3, <3>11
  <2> QED BY <2>6, <2>7
<1> HIDE DEF S
<1>3. Seq(Nat) \subseteq S
  BY <1>1, <1>2, SeqInduct
<1> QED BY <1>3 DEF S

LEMMA KeptEnc ==
  ASSUME NEW pieces \in Seq(Seq(Nat))
  PROVE  Each(Kept, Mapped(Enc, pieces)) = Mapped(Enc, Each(Kept, pieces))
<1> DEFINE S == {s \in Seq(Seq(Nat)) : Each(Kept, Mapped(Enc, s)) = Mapped(Enc, Each(Kept, s))}
<1>1. <<>> \in S
  <2>1. <<>> \in Seq(Seq(Nat))
    OBVIOUS
  <2> QED BY <2>1, MappedNone, EachNone, Zenon
<1>2. ASSUME NEW x \in Seq(Nat), NEW s \in Seq(Seq(Nat)), s \in S PROVE <<x>> \o s \in S
  <2> DEFINE m == Mapped(Enc, s)
             k == Each(Kept, s)
             e == Enc[x]
  <2>1. m \in Seq(Seq(Nat))
    <3>1. MapsTo(Enc, s, Seq(Nat))
      BY EncMaps, MappedType, Zenon
    <3> QED BY <3>1 DEF MapsTo
  <2>2. k \in Seq(Seq(Nat))
    BY KeptMaps, EachType, Zenon
  <2>3. e \in Seq(Nat)
    BY EncMaps
  <2>4. Each(Kept, m) = Mapped(Enc, k)
    BY <1>2
  <2>5. MapsCons(Enc, x, s)
    BY EncMaps, MappedCons, Zenon
  <2>6. EachMore(Kept, x, s)
    BY KeptMaps, EachCons, Zenon
  <2> HIDE DEF m, k, e
  <2>7. EachMore(Kept, e, m)
    BY <2>1, <2>3, KeptMaps, EachCons, Zenon
  <2>8. Each(Kept, Mapped(Enc, <<x>> \o s)) = Kept[e] \o Mapped(Enc, k)
    BY <2>4, <2>5, <2>7, Zenon DEF EachMore, MapsCons, m, e
  <2>9. Each(Kept, <<x>> \o s) = Kept[x] \o k
    BY <2>6, Zenon DEF EachMore, k
  <2>10. Kept[e] \o Mapped(Enc, k) = Mapped(Enc, Kept[x] \o k)
    <3>1. CASE x = <<>>
      <4>1. Kept[x] = <<>> /\ Kept[e] = <<>>
        BY <3>1, KeptIs, EncNone, Zenon DEF e
      <4>2. <<>> \o k = k
        BY <2>2, ConcatEmptySeq
      <4>3. Mapped(Enc, k) \in Seq(Seq(Nat))
        <5>1. MapsTo(Enc, k, Seq(Nat))
          BY <2>2, EncMaps, MappedType, Zenon
        <5> QED BY <5>1 DEF MapsTo
      <4>4. <<>> \o Mapped(Enc, k) = Mapped(Enc, k)
        BY <4>3, ConcatEmptySeq
      <4> QED BY <4>1, <4>2, <4>4, Zenon
    <3>2. CASE x # <<>>
      <4>1. Kept[x] = <<x>> /\ Kept[e] = <<e>>
        BY <2>3, <3>2, KeptIs, EncSome, Zenon DEF e
      <4>2. MapsCons(Enc, x, k)
        BY <2>2, EncMaps, MappedCons, Zenon
      <4> QED BY <4>1, <4>2, Zenon DEF MapsCons, e
    <3> QED BY <3>1, <3>2
  <2>11. <<x>> \o s \in Seq(Seq(Nat))
    BY ConsIs
  <2>12. Each(Kept, Mapped(Enc, <<x>> \o s)) = Mapped(Enc, Each(Kept, <<x>> \o s))
    BY <2>8, <2>9, <2>10, Zenon
  <2> QED BY <2>11, <2>12
<1> HIDE DEF S
<1>3. Seq(Seq(Nat)) \subseteq S
  BY <1>1, <1>2, SeqInduct
<1> QED BY <1>3 DEF S

LEMMA WordsOfEnc ==
  ASSUME NEW text \in Seq(Nat)
  PROVE  Words(White, Enc[text]) = Mapped(Enc, Parted(text)) /\ Parted(text) \in Seq(Seq(Nat))
<1> DEFINE P == Pieces(Soft, text)
<1>1. P \in Seq(Seq(Nat))
  BY PiecesType DEF Cuts
<1>2. Pieces(White, Enc[text]) = Mapped(Enc, P)
  BY PiecesOfEnc
<1>3. Parted(text) = Each(Kept, P) /\ Parted(text) \in Seq(Seq(Nat))
  BY WordsAre DEF Parted, Soft
<1>4. Enc[text] \in Seq(Nat)
  BY EncMaps
<1> HIDE DEF P
<1>5. Words(White, Enc[text]) = Each(Kept, Mapped(Enc, P))
  BY <1>2, <1>4, WordsAre, Zenon
<1>6. Each(Kept, Mapped(Enc, P)) = Mapped(Enc, Each(Kept, P))
  BY <1>1, KeptEnc
<1> QED BY <1>3, <1>5, <1>6, Zenon

-----------------------------------------------------------------------------
(* The other fields on a line: a word each.                                 *)

Plain == Seq(Nat \ White) \ {<<>>}
Free == Nat \ {Comma}

LEMMA PlainIs ==
  ASSUME NEW word \in Plain
  PROVE  word \in Seq(Nat) /\ word \in Seq(Nat \ White) /\ word # <<>> /\ Words(White, word) = <<word>>
<1>1. word \in Seq(Nat \ White) /\ word # <<>>
  BY DEF Plain
<1>2. word \in Seq(Nat)
  BY <1>1
<1> QED BY <1>1, <1>2, OneWord

LEMMA HexIs ==
  ASSUME NEW data \in Seq(Nat)
  PROVE  /\ Hex(data) \in Seq(Nat) /\ Len(Hex(data)) = Len(data)
         /\ Hex(data) \in Seq(Nat \ White) /\ Hex(data) \in Seq(Free)
         /\ FromHex(Hex(data)) = data
         /\ data # <<>> => Hex(data) # <<>> /\ Hex(data)[1] # 45 /\ Hex(data) \in Plain
<1> DEFINE h == Hex(data)
<1>1. \A i \in 1..Len(data) : data[i] \in Nat
  OBVIOUS
<1>2. h = [i \in 1..Len(data) |-> 256 + data[i]]
  BY DEF Hex
<1>3. Len(h) = Len(data) /\ \A i \in 1..Len(data) : h[i] = 256 + data[i]
  BY <1>2
<1>4. \A i \in 1..Len(data) : h[i] \in Nat \ White /\ h[i] \in Nat /\ h[i] \in Free /\ h[i] # 45 /\ h[i] - 256 = data[i]
  BY <1>1, <1>3 DEF White, Free, Comma
<1>5. h \in Seq(Nat \ White)
  BY <1>2, <1>3, <1>4
<1>6. h \in Seq(Free)
  BY <1>2, <1>3, <1>4
<1>7. h \in Seq(Nat)
  BY <1>2, <1>3, <1>4
<1>8. FromHex(h) = data
  <2>1. FromHex(h) = [i \in 1..Len(h) |-> h[i] - 256]
    BY DEF FromHex
  <2>2. [i \in 1..Len(h) |-> h[i] - 256] = [i \in 1..Len(data) |-> data[i]]
    BY <1>3, <1>4
  <2>3. data = [i \in 1..Len(data) |-> data[i]]
    BY SeqIs
  <2> QED BY <2>1, <2>2, <2>3, Zenon
<1> HIDE DEF h
<1>9. ASSUME data # <<>> PROVE h # <<>> /\ h[1] # 45 /\ h \in Plain
  <2>1. Len(data) # 0 /\ 1 \in 1..Len(data)
    BY <1>9
  <2>2. h # <<>>
    BY <1>3, <2>1
  <2> QED BY <1>4, <1>5, <2>1, <2>2 DEF Plain
<1> QED BY <1>3, <1>5, <1>6, <1>7, <1>8, <1>9, Zenon DEF h

HexF == [data \in Seq(Nat) |-> Hex(data)]

LEMMA HexMaps ==
  Maps(HexF, Seq(Nat), Seq(Nat)) /\ \A data \in Seq(Nat) : HexF[data] = Hex(data)
<1>1. \A data \in Seq(Nat) : Hex(data) \in Seq(Nat)
  BY HexIs
<1> QED BY <1>1 DEF HexF, Maps

(* What stays within a smaller type.                                        *)
LEMMA EachWithin ==
  ASSUME NEW P, NEW C, NEW T, \A x \in C : P[x] \in Seq(T), NEW s \in Seq(C)
  PROVE  Each(P, s) \in Seq(T)
<1>1. \A i \in 1..Len(s) : s[i] \in C
  OBVIOUS
<1>2. \A i \in 1..Len(s) : P[s[i]] \in Seq(T)
  BY <1>1
<1>3. Mapped(P, s) \in Seq(Seq(T))
  BY <1>2 DEF Mapped
<1> QED BY <1>3, ConcatType DEF Each

HexWords == {Hex(data) : data \in Seq(Nat)}

(* Blobs in a row, with commas between.                                     *)
LEMMA BlobsLine ==
  ASSUME NEW first \in Seq(Nat), first # <<>>, NEW rest \in Seq(HexWords)
  PROVE  /\ Join(Comma, <<Hex(first)>> \o rest) \in Plain
         /\ Join(Comma, <<Hex(first)>> \o rest) # Dash
         /\ Pieces({Comma}, Join(Comma, <<Hex(first)>> \o rest)) = <<Hex(first)>> \o rest
<1> DEFINE h == Hex(first)
           tail == Each(Lead(Comma), rest)
           line == Join(Comma, <<h>> \o rest)
           P == PiecesOf({Comma})
<1>c. Comma \in Nat \ White /\ Comma \in Nat /\ Comma \in {Comma}
  BY DEF Comma, White
<1>h. h \in Seq(Nat) /\ h \in Seq(Nat \ White) /\ h \in Seq(Free) /\ h # <<>> /\ h[1] # 45
  BY HexIs
<1>1. HexWords \in SUBSET Seq(Nat) /\ \A word \in HexWords : word \in Seq(Nat) /\ word \in Seq(Nat \ White) /\ word \in Seq(Free)
  BY HexIs DEF HexWords
<1>2. rest \in Seq(Seq(Nat))
  BY <1>1, SeqMonotonic
<1>3. \A word \in HexWords : Lead(Comma)[word] \in Seq(Nat \ White)
  <2>1. ASSUME NEW word \in HexWords PROVE <<Comma>> \o word \in Seq(Nat \ White)
    <3>1. word \in Seq(Nat \ White)
      BY <1>1
    <3> QED BY <1>c, <3>1, ConsIs
  <2> QED BY <1>1, <1>c, <2>1, LeadMaps
<1>4. tail \in Seq(Nat \ White)
  BY <1>3, EachWithin, Zenon
<1> HIDE DEF h
<1>5. line = h \o tail
  BY <1>2, <1>c, <1>h, JoinIs, Zenon
<1>6. P[line] = P[h] \o Each(P, rest)
  <2>1. Maps(P, Seq(Nat), Seq(Seq(Nat))) /\ Divides(P, Comma)
    BY <1>c, PiecesMaps, PiecesDivide
  <2> HIDE DEF P
  <2>2. P[Join(Comma, <<h>> \o rest)] = P[h] \o Each(P, rest)
    BY <1>2, <1>c, <1>h, <2>1, JoinRead, Zenon
  <2> QED BY <2>2
<1>7. \A word \in Seq(Nat) : word \in Seq(Free) => P[word] = <<word>>
  BY OnePiece, PiecesMaps DEF Free
<1>8. Each(P, rest) = rest
  <2>1. \A word \in HexWords : P[word] = <<word>>
    BY <1>1, <1>7
  <2> QED BY <1>1, <2>1, EachSame, PiecesMaps
<1> HIDE DEF tail
<1>9. line \in Seq(Nat \ White) /\ line # <<>> /\ line[1] = h[1]
  <2> DEFINE both == h \o tail
  <2>1. both \in Seq(Nat \ White) /\ Len(both) = Len(h) + Len(tail) /\ Len(h) # 0 /\ Len(h) \in Nat /\ Len(tail) \in Nat
    BY <1>4, <1>h
  <2>2. both[1] = h[1]
    BY <1>4, <1>h
  <2> HIDE DEF both
  <2>3. both # <<>>
    BY <2>1
  <2> QED BY <1>5, <2>1, <2>2, <2>3, Zenon DEF both
<1>10. line \in Seq(Nat)
  BY <1>9
<1> HIDE DEF P
<1>11. P[line] = Pieces({Comma}, line)
  BY <1>10, PiecesMaps DEF P
<1>12. line # Dash
  BY <1>9, <1>h DEF Dash
<1> HIDE DEF line
<1>13. line \in Plain
  BY <1>9 DEF Plain
<1>14. Pieces({Comma}, line) = <<h>> \o rest
  BY <1>6, <1>7, <1>8, <1>11, <1>h, Zenon
<1> QED BY <1>12, <1>13, <1>14 DEF line, h

LEMMA ByteOnLine ==
  ASSUME NEW v \in Byte
  PROVE  Written("byte", v) \in Plain /\ Understood("byte", Written("byte", v)) = v
<1>1. v \in Nat
  BY DEF Byte
<1> DEFINE one == <<v>>
<1>2. one \in Seq(Nat) /\ one # <<>> /\ one[1] = v
  BY <1>1
<1> HIDE DEF one
<1>3. Hex(one) \in Plain /\ FromHex(Hex(one)) = one
  BY <1>2, HexIs
<1>4. Written("byte", v) = Hex(one)
  BY DEF Written, one
<1>5. Understood("byte", Hex(one)) = FromHex(Hex(one))[1]
  BY DEF Understood
<1> QED BY <1>2, <1>3, <1>4, <1>5, Zenon

LEMMA WordOnLine ==
  ASSUME NEW v \in Field("word")
  PROVE  Written("word", v) \in Plain /\ Understood("word", Written("word", v)) = v
<1>1. v \in Text /\ v # <<>> /\ \A i \in 1..Len(v) : v[i] \notin White
  BY DEF Field
<1>2. v \in Seq(Ascii)
  BY <1>1, TextIs
<1>3. \A i \in 1..Len(v) : v[i] \in Nat \ White
  <2>1. \A i \in 1..Len(v) : v[i] \in Ascii
    BY <1>2
  <2>2. \A i \in 1..Len(v) : v[i] \in Nat
    BY <2>1, BytesAreNats
  <2> QED BY <1>1, <2>2, Zenon
<1>4. v \in Seq(Nat \ White)
  <2>1. v = [i \in 1..Len(v) |-> v[i]] /\ Len(v) \in Nat
    BY <1>2, SeqIs
  <2>2. [i \in 1..Len(v) |-> v[i]] \in Seq(Nat \ White)
    BY <1>3, <2>1
  <2> QED BY <2>1, <2>2, Zenon
<1>5. Written("word", v) = v /\ Understood("word", v) = v
  BY DEF Written, Understood
<1> QED BY <1>1, <1>4, <1>5 DEF Plain

LEMMA BlobOnLine ==
  ASSUME NEW v \in Data
  PROVE  Written("blob", v) \in Plain /\ Understood("blob", Written("blob", v)) = v
<1>1. v \in Seq(Nat) /\ v # <<>>
  BY DataIs, BytesAreNats
<1>2. Hex(v) \in Plain /\ FromHex(Hex(v)) = v
  BY <1>1, HexIs
<1>3. Written("blob", v) = Hex(v) /\ Understood("blob", Hex(v)) = FromHex(Hex(v))
  BY DEF Written, Understood
<1> QED BY <1>2, <1>3, Zenon

LEMMA BlobsOnLine ==
  ASSUME NEW v \in Seq(Data)
  PROVE  Written("blobs", v) \in Plain /\ Understood("blobs", Written("blobs", v)) = v
<1> DEFINE list == [i \in 1..Len(v) |-> Hex(v[i])]
           line == Join(Comma, list)
<1>1. Written("blobs", v) = Unless(Dash, line)
  BY DEF Written
<1>2. CASE v = <<>>
  <2>1. list = <<>>
    BY <1>2
  <2>2. line = Concat(<<>>)
    BY <2>1 DEF Join
  <2>3. Written("blobs", v) = Dash
    BY <1>1, <2>2, ConcatOfNone DEF Unless
  <2>4. Dash \in Plain
    <3>1. 45 \in Nat \ White
      BY DEF White
    <3> QED BY <3>1 DEF Plain, Dash
  <2>5. Understood("blobs", Dash) = <<>>
    BY DEF Understood
  <2> QED BY <1>2, <2>3, <2>4, <2>5, Zenon
<1>3. CASE v # <<>>
  <2>0. \A d \in Data : d \in Seq(Nat) /\ d # <<>>
    BY DataIs, BytesAreNats
  <2>1. PICK d \in Data, s \in Seq(Data) : v = <<d>> \o s
    BY <1>3, ConsOf
  <2>2. v \in Seq(Seq(Nat)) /\ s \in Seq(Seq(Nat)) /\ d \in Seq(Nat) /\ d # <<>>
    <3>1. Data \subseteq Seq(Nat)
      BY <2>0
    <3> QED BY <2>0, <3>1, SeqMonotonic
  <2>3. \A i \in 1..Len(v) : v[i] \in Seq(Nat)
    BY <2>2
  <2>4. list = Mapped(HexF, v)
    <3>1. \A i \in 1..Len(v) : Hex(v[i]) = HexF[v[i]]
      BY <2>3, HexMaps, Zenon
    <3> QED BY <3>1, Zenon DEF Mapped
  <2>5. MapsCons(HexF, d, s)
    BY <2>2, HexMaps, MappedCons, Zenon
  <2> DEFINE rest == Mapped(HexF, s)
  <2>6. rest \in Seq(HexWords)
    <3>1. \A i \in 1..Len(s) : s[i] \in Seq(Nat)
      BY <2>2
    <3>2. \A i \in 1..Len(s) : HexF[s[i]] \in HexWords
      BY <3>1, HexMaps DEF HexWords
    <3> QED BY <3>2 DEF Mapped
  <2>7. list = <<Hex(d)>> \o rest
    BY <2>1, <2>2, <2>4, <2>5, HexMaps, Zenon DEF MapsCons
  <2>e. Len(list) = Len(v) /\ \A i \in 1..Len(v) : list[i] = Hex(v[i])
    OBVIOUS
  <2> HIDE DEF rest, list
  <2>8. line \in Plain /\ line # Dash /\ Pieces({Comma}, line) = list
    BY <2>2, <2>6, <2>7, BlobsLine, Zenon
  <2> HIDE DEF line
  <2>9. line # <<>>
    BY <2>8 DEF Plain
  <2>10. Written("blobs", v) = line
    BY <1>1, <2>9, Zenon DEF Unless
  <2>11. Understood("blobs", line) = [i \in 1..Len(list) |-> FromHex(list[i])]
    BY <2>8 DEF Understood
  <2>12. [i \in 1..Len(list) |-> FromHex(list[i])] = [i \in 1..Len(v) |-> v[i]]
    <3>1. \A i \in 1..Len(v) : FromHex(list[i]) = v[i]
      BY <2>3, <2>e, HexIs, Zenon
    <3>2. [i \in 1..Len(v) |-> FromHex(list[i])] = [i \in 1..Len(v) |-> v[i]]
      BY <3>1, Zenon
    <3> QED BY <2>e, <3>2, Zenon
  <2>13. v = [i \in 1..Len(v) |-> v[i]]
    BY SeqIs
  <2> QED BY <2>8, <2>10, <2>11, <2>12, <2>13, Zenon
<1> QED BY <1>2, <1>3

LEMMA FieldOnLine ==
  ASSUME NEW kind \in Kinds, kind # "note", NEW v \in Field(kind)
  PROVE  Written(kind, v) \in Plain /\ Understood(kind, Written(kind, v)) = v
<1>1. CASE kind = "byte"
  <2>1. v \in Byte
    BY <1>1 DEF Field
  <2> QED BY <1>1, <2>1, ByteOnLine
<1>2. CASE kind = "word"
  BY <1>2, WordOnLine
<1>3. CASE kind = "blob"
  <2>1. v \in Data
    BY <1>3 DEF Field
  <2> QED BY <1>3, <2>1, BlobOnLine
<1>4. CASE kind = "blobs"
  <2>1. v \in Seq(Data)
    BY <1>4 DEF Field
  <2> QED BY <1>4, <2>1, BlobsOnLine
<1> QED BY <1>1, <1>2, <1>3, <1>4 DEF Kinds

(* A note on a line: the words of it, each with its escapes.                 *)
LEMMA NoteOnLine ==
  ASSUME NEW note \in Text
  PROVE  /\ note \in Seq(Nat) /\ Written("note", note) \in Seq(Nat)
         /\ Words(White, Written("note", note)) \in Seq(Seq(Nat))
         /\ Words(White, Written("note", note)) = <<>> <=> note # <<>> /\ Parted(note) = <<>>
         /\ Words(White, Written("note", note)) # <<>> =>
              Understood("note", Words(White, Written("note", note))[1]) = NoteOfLine(note)
<1> DEFINE line == Written("note", note)
           words == Words(White, line)
<1>1. note \in Seq(Nat)
  BY TextIs, BytesAreNats
<1>2. line = Unless(Dash, Enc[note])
  BY <1>1, QIs DEF Written
<1>3. \A word : Understood("note", word) = uq(word)
  BY DEF Understood
<1> HIDE DEF line
<1>4. CASE note = <<>>
  <2>1. line = Dash
    BY <1>2, <1>4, EncNone DEF Unless
  <2>2. Dash \in Plain
    <3>1. 45 \in Nat \ White
      BY DEF White
    <3> QED BY <3>1 DEF Plain, Dash
  <2>3. words = <<Dash>> /\ line \in Seq(Nat)
    BY <2>1, <2>2, PlainIs
  <2>4. words # <<>> /\ words[1] = Dash /\ words \in Seq(Seq(Nat))
    BY <2>3, DashIs
  <2>5. uq(Dash) = <<>> /\ NoteOfLine(note) = <<>>
    BY <1>4, Zenon DEF uq, NoteOfLine
  <2> QED BY <1>1, <1>3, <1>4, <2>3, <2>4, <2>5, Zenon DEF line
<1>5. CASE note # <<>>
  <2>1. line = Enc[note] /\ line \in Seq(Nat)
    BY <1>1, <1>2, <1>5, EncSome, EncMaps DEF Unless
  <2> DEFINE parts == Parted(note)
  <2>2. words = Mapped(Enc, parts) /\ parts \in Seq(Seq(Nat))
    BY <1>1, <2>1, WordsOfEnc
  <2> HIDE DEF words
  <2>p. Parted(note) = parts
    OBVIOUS
  <2> HIDE DEF parts
  <2>3. words \in Seq(Seq(Nat)) /\ Len(words) = Len(parts)
        /\ \A i \in 1..Len(parts) : words[i] = Enc[parts[i]]
    <3>1. MapsTo(Enc, parts, Seq(Nat))
      BY <2>2, EncMaps, MappedType, Zenon
    <3> QED BY <2>2, <3>1, Zenon DEF MapsTo
  <2>4. words = <<>> <=> parts = <<>>
    BY <2>2, <2>3, EmptySeq
  <2>5. ASSUME words # <<>> PROVE uq(words[1]) = NoteOfLine(note)
    <3>1. 1 \in 1..Len(parts)
      BY <2>2, <2>4, <2>5
    <3>2. parts[1] \in Seq(Nat) /\ words[1] = Enc[parts[1]]
      BY <2>2, <2>3, <3>1
    <3>3. uq(words[1]) = IF parts[1] = Dash THEN <<>> ELSE parts[1]
      BY <3>2, UqIs, Zenon
    <3> QED BY <1>5, <2>p, <3>3, Zenon DEF NoteOfLine
  <2> QED BY <1>1, <1>3, <1>5, <2>1, <2>3, <2>4, <2>5, <2>p, Zenon DEF line, words
<1> QED BY <1>4, <1>5

-----------------------------------------------------------------------------
(* A line: its head, its fields, and the note where there is one, at its end. *)

HeadOf(m) == <<Hex(m.gid), Hex(<<ValueOf(m.t)>>), Hex(<<m.ply>>)>>
FieldsOf(m) == [i \in 1..Len(m.fields) |-> Written(Layout(m.t)[i], m.fields[i])]

LEMMA TypeIs ==
  ASSUME NEW m \in Message
  PROVE  ValueOf(m.t) \in Nat /\ MsgType[ValueOf(m.t)] = m.t
<1>1. \E value \in 1..Len(MsgType) : MsgType[value] = m.t
  <2>1. IsMessage(m)
    BY SentAssumption
  <2> QED BY <2>1 DEF IsMessage
<1>2. PICK value \in 1..Len(MsgType) : value = ValueOf(m.t) /\ MsgType[value] = m.t
  BY <1>1 DEF ValueOf
<1>3. Len(MsgType) = 11
  BY DEF MsgType
<1>4. value \in Nat
  BY <1>3
<1> QED BY <1>2, <1>4

LEMMA NoteLast ==
  ASSUME NEW t, NEW i \in 1..Len(Layout(t)), Layout(t)[i] = "note"
  PROVE  i = Len(Layout(t)) /\ t # "SYNC_STATE" /\ t # "REJECT"
<1>1. CASE t = "INVITE"
  <2>1. Layout(t) = <<"word", "word", "note">>
    BY <1>1 DEF Layout
  <2> DEFINE lay == Layout(t)
  <2>2. Len(lay) = 3 /\ lay[1] # "note" /\ lay[2] # "note"
    BY <2>1
  <2>3. i \in 1..Len(lay) /\ lay[i] = "note"
    OBVIOUS
  <2> HIDE DEF lay
  <2>4. i = 1 \/ i = 2 \/ i = 3
    BY <2>2, <2>3
  <2>5. i = 3
    BY <2>2, <2>3, <2>4, Zenon
  <2> QED BY <1>1, <2>2, <2>5, Zenon DEF lay
<1>2. CASE t \in {"DECLINE", "CHAT"}
  <2>1. Layout(t) = <<"note">>
    BY <1>2 DEF Layout
  <2> QED BY <1>2, <2>1
<1>3. CASE t = "MOVE"
  <2>1. Layout(t) = <<"blob", "blob">>
    BY <1>3 DEF Layout
  <2> QED BY <1>3, <2>1
<1>4. CASE t = "SYNC_STATE"
  <2>1. Layout(t) = <<"byte", "byte", "blob", "blobs">>
    BY <1>4 DEF Layout
  <2> QED BY <1>4, <2>1
<1>5. CASE t = "REJECT"
  <2>1. Layout(t) = <<"byte", "blob">>
    BY <1>5 DEF Layout
  <2> QED BY <1>5, <2>1
<1>6. CASE t \notin {"INVITE", "DECLINE", "CHAT", "MOVE", "SYNC_STATE", "REJECT"}
  <2>1. Layout(t) = <<>>
    BY <1>6 DEF Layout
  <2> QED BY <2>1
<1> QED BY <1>1, <1>2, <1>3, <1>4, <1>5, <1>6

LEMMA FieldsAre ==
  ASSUME NEW m \in Message
  PROVE  LET n == Len(Layout(m.t))
         IN  /\ n \in Nat /\ Len(m.fields) = n
             /\ Layout(m.t) \in Seq(Kinds)
             /\ FieldsOf(m) = [i \in 1..n |-> Written(Layout(m.t)[i], m.fields[i])]
             /\ \A i \in 1..n : Layout(m.t)[i] \in Kinds /\ m.fields[i] \in Field(Layout(m.t)[i])
<1> DEFINE lay == Layout(m.t)
           n == Len(lay)
<1>1. lay \in Seq(Kinds)
  BY LayoutIs
<1>2. n \in Nat /\ \A i \in 1..n : lay[i] \in Kinds
  BY <1>1
<1>3. m.fields = [i \in 1..n |-> m.fields[i]] /\ \A i \in 1..n : m.fields[i] \in Field(lay[i])
  BY MessageIs, Zenon
<1> DEFINE fields == m.fields
<1> HIDE DEF lay, n, fields
<1>4. Len(fields) = n
  <2>1. fields = [i \in 1..n |-> fields[i]]
    BY <1>3 DEF fields
  <2> QED BY <1>2, <2>1
<1>5. FieldsOf(m) = [i \in 1..n |-> Written(lay[i], m.fields[i])]
  BY <1>4, Zenon DEF FieldsOf, fields, lay
<1> QED BY <1>1, <1>2, <1>3, <1>4, <1>5 DEF lay, n, fields

LEMMA HeadIs ==
  ASSUME NEW m \in Message
  PROVE  /\ HeadOf(m) \in Seq(Plain) /\ Len(HeadOf(m)) = 3
         /\ FromHex(HeadOf(m)[1]) = m.gid
         /\ MsgType[FromHex(HeadOf(m)[2])[1]] = m.t
         /\ FromHex(HeadOf(m)[3])[1] = m.ply
<1> DEFINE gid == m.gid
           value == <<ValueOf(m.t)>>
           ply == <<m.ply>>
<1>1. gid \in Seq(Nat) /\ gid # <<>>
  <2>1. gid \in Seq(Byte) /\ Len(gid) = GID_LEN /\ GID_LEN # 0
    BY MessageIs, CodecAssumption
  <2> QED BY <2>1, BytesAreNats
<1>2. value \in Seq(Nat) /\ value # <<>> /\ MsgType[value[1]] = m.t
  BY TypeIs
<1>3. m.ply \in Nat
  <2>1. IsMessage(m)
    BY SentAssumption
  <2> QED BY <2>1 DEF IsMessage
<1>4. ply \in Seq(Nat) /\ ply # <<>> /\ ply[1] = m.ply
  BY <1>3
<1> HIDE DEF gid, value, ply
<1>5. /\ Hex(gid) \in Plain /\ FromHex(Hex(gid)) = gid
      /\ Hex(value) \in Plain /\ FromHex(Hex(value)) = value
      /\ Hex(ply) \in Plain /\ FromHex(Hex(ply)) = ply
  BY <1>1, <1>2, <1>4, HexIs, Zenon
<1>6. HeadOf(m) = <<Hex(gid), Hex(value), Hex(ply)>>
  BY DEF HeadOf, gid, value, ply
<1> DEFINE h == <<Hex(gid), Hex(value), Hex(ply)>>
<1>7. h \in Seq(Plain) /\ Len(h) = 3 /\ h[1] = Hex(gid) /\ h[2] = Hex(value) /\ h[3] = Hex(ply)
  BY <1>5
<1> HIDE DEF h
<1>8. HeadOf(m) = h
  BY <1>6 DEF h
<1> QED BY <1>2, <1>4, <1>5, <1>7, <1>8, Zenon DEF gid

WhiteWords == WordsOf(White)

LEMMA WhiteWordsAre ==
  /\ Maps(WhiteWords, Seq(Nat), Seq(Seq(Nat))) /\ Divides(WhiteWords, Blank)
  /\ \A text \in Seq(Nat) : WhiteWords[text] = Words(White, text)
  /\ Plain \in SUBSET Seq(Nat) /\ \A word \in Plain : WhiteWords[word] = <<word>>
<1>1. Blank \in Nat /\ Blank \in White
  BY DEF Blank, White
<1>2. /\ Maps(WhiteWords, Seq(Nat), Seq(Seq(Nat))) /\ Divides(WhiteWords, Blank)
      /\ \A text \in Seq(Nat) : WhiteWords[text] = Words(White, text)
  BY <1>1, WordsMaps, WordsDivide DEF WhiteWords
<1>3. ASSUME NEW word \in Plain PROVE word \in Seq(Nat) /\ WhiteWords[word] = <<word>>
  BY <1>2, PlainIs
<1> QED BY <1>2, <1>3

(* Joined with blanks, plain words are those words, and a last text is its    *)
(* words after them.                                                        *)
LEMMA JoinedWords ==
  ASSUME NEW words \in Seq(Plain), NEW last \in Seq(Nat)
  PROVE  /\ words # <<>> => Join(Blank, words) \in Seq(Nat) /\ Words(White, Join(Blank, words)) = words
         /\ words # <<>> => /\ Join(Blank, words \o <<last>>) \in Seq(Nat)
                            /\ Words(White, Join(Blank, words \o <<last>>)) = words \o Words(White, last)
<1> SUFFICES ASSUME words # <<>>
             PROVE  /\ Join(Blank, words) \in Seq(Nat) /\ Words(White, Join(Blank, words)) = words
                    /\ Join(Blank, words \o <<last>>) \in Seq(Nat)
                    /\ Words(White, Join(Blank, words \o <<last>>)) = words \o Words(White, last)
  BY Zenon
<1> DEFINE P == WhiteWords
<1>1. PICK first \in Plain, rest \in Seq(Plain) : words = <<first>> \o rest
  BY ConsOf
<1>2. first \in Seq(Nat) /\ rest \in Seq(Seq(Nat)) /\ words \in Seq(Seq(Nat)) /\ <<last>> \in Seq(Seq(Nat))
      /\ rest \o <<last>> \in Seq(Seq(Nat))
  <2>1. first \in Seq(Nat) /\ rest \in Seq(Seq(Nat)) /\ words \in Seq(Seq(Nat)) /\ <<last>> \in Seq(Seq(Nat))
    BY WhiteWordsAre, SeqMonotonic
  <2> QED BY <2>1, JoinCuts
<1> HIDE DEF P
<1>0. Blank \in Nat
  BY DEF Blank
<1>3. ASSUME NEW s \in Seq(Seq(Nat))
      PROVE  /\ Join(Blank, <<first>> \o s) \in Seq(Nat)
             /\ Words(White, Join(Blank, <<first>> \o s)) = Each(P, <<first>> \o s)
  <2>1. Join(Blank, <<first>> \o s) = first \o Each(Lead(Blank), s)
    BY <1>0, <1>2, JoinIs, Zenon
  <2>2. Each(Lead(Blank), s) \in Seq(Nat)
    BY <1>0, LeadMaps, EachType, Zenon
  <2>3. first \o Each(Lead(Blank), s) \in Seq(Nat)
    BY <1>2, <2>2, CutNats, Zenon
  <2>4. P[Join(Blank, <<first>> \o s)] = P[first] \o Each(P, s)
    BY <1>0, <1>2, WhiteWordsAre, JoinRead, Zenon DEF P
  <2>5. EachMore(P, first, s)
    BY <1>2, WhiteWordsAre, EachCons, Zenon DEF P
  <2>6. Join(Blank, <<first>> \o s) \in Seq(Nat)
    BY <2>1, <2>3, Zenon
  <2>7. P[Join(Blank, <<first>> \o s)] = Words(White, Join(Blank, <<first>> \o s))
    BY <2>6, WhiteWordsAre, Zenon DEF P
  <2> QED BY <2>4, <2>5, <2>6, <2>7, Zenon DEF EachMore
<1>4. Each(P, words) = words
  BY WhiteWordsAre, EachSame DEF P
<1>5. Join(Blank, words) \in Seq(Nat) /\ Words(White, Join(Blank, words)) = words
  BY <1>1, <1>2, <1>3, <1>4, Zenon
<1>6. words \o <<last>> = <<first>> \o (rest \o <<last>>)
  <2> DEFINE a == <<first>>
             c == <<last>>
  <2>1. a \in Seq(Seq(Nat)) /\ c \in Seq(Seq(Nat)) /\ rest \in Seq(Seq(Nat))
    BY <1>2
  <2> HIDE DEF a, c
  <2>2. (a \o rest) \o c = a \o (rest \o c)
    BY <2>1, JoinCuts
  <2> QED BY <1>1, <2>2, Zenon DEF a, c
<1>7. EachSplits(P, words, <<last>>)
  BY <1>2, WhiteWordsAre, EachJoin, Zenon DEF P
<1>8. Each(P, <<last>>) = P[last]
  BY WhiteWordsAre, EachOne DEF P
<1>9. P[last] = Words(White, last)
  BY WhiteWordsAre, Zenon DEF P
<1>10. Each(P, words \o <<last>>) = words \o Words(White, last)
  BY <1>4, <1>7, <1>8, <1>9, Zenon DEF EachSplits
<1>11. /\ Join(Blank, words \o <<last>>) \in Seq(Nat)
       /\ Words(White, Join(Blank, words \o <<last>>)) = Each(P, words \o <<last>>)
  BY <1>2, <1>3, <1>6, Zenon
<1> QED BY <1>5, <1>10, <1>11, Zenon

LEMMA JoinPlain ==
  \A a, b \in Seq(Plain) :
    /\ a \o b \in Seq(Plain) /\ Len(a \o b) = Len(a) + Len(b)
    /\ \A i \in 1..Len(a) : (a \o b)[i] = a[i]
    /\ \A i \in 1..Len(b) : (a \o b)[Len(a) + i] = b[i]
OBVIOUS

NoteWords(m, i) == Words(White, FieldsOf(m)[i])

LineShape(m, words) ==
  LET n == Len(Layout(m.t))
  IN  /\ words \in Seq(Seq(Nat)) /\ Len(words) >= 3
      /\ \A i \in 1..3 : words[i] = HeadOf(m)[i]
      /\ \A i \in 1..n : Layout(m.t)[i] # "note" =>
           Len(words) >= 3 + i /\ words[3 + i] = FieldsOf(m)[i]
      /\ \A i \in 1..n : Layout(m.t)[i] = "note" =>
           /\ i = n
           /\ NoteWords(m, i) = <<>> => Len(words) < 3 + i
           /\ NoteWords(m, i) # <<>> => Len(words) >= 3 + i /\ words[3 + i] = NoteWords(m, i)[1]

LEMMA PlainLine ==
  ASSUME NEW m \in Message, \A i \in 1..Len(Layout(m.t)) : Layout(m.t)[i] # "note"
  PROVE  LineShape(m, Words(White, encode_text(m)))
<1> DEFINE lay == Layout(m.t)
           n == Len(lay)
           F == FieldsOf(m)
           H == HeadOf(m)
           all == H \o F
           words == Words(White, encode_text(m))
<1>1. n \in Nat /\ F = [i \in 1..n |-> Written(lay[i], m.fields[i])]
      /\ \A i \in 1..n : lay[i] \in Kinds /\ m.fields[i] \in Field(lay[i])
  BY FieldsAre
<1>2. H \in Seq(Plain) /\ Len(H) = 3
  BY HeadIs
<1>3. \A i \in 1..n : Written(lay[i], m.fields[i]) \in Plain
  <2>1. \A i \in 1..n : lay[i] # "note"
    OBVIOUS
  <2> HIDE DEF n, lay
  <2> QED BY <1>1, <2>1, FieldOnLine, Zenon
<1>4. encode_text(m) = Join(Blank, all)
  BY DEF encode_text, HeadOf, FieldsOf
<1>0. \A i \in 1..n : ~(lay[i] = "note")
  OBVIOUS
<1> HIDE DEF lay, n, F, H
<1>5. F \in Seq(Plain) /\ Len(F) = n
  BY <1>1, <1>3
<1>6. all \in Seq(Plain) /\ Len(all) = 3 + n /\ (\A i \in 1..3 : all[i] = H[i]) /\ \A i \in 1..n : all[3 + i] = F[i]
  <2>1. all \in Seq(Plain) /\ Len(all) = Len(H) + Len(F) /\ (\A i \in 1..Len(H) : all[i] = H[i])
        /\ \A i \in 1..Len(F) : all[Len(H) + i] = F[i]
    BY <1>2, <1>5, JoinPlain, Zenon
  <2> QED BY <1>2, <1>5, <2>1, Zenon
<1> HIDE DEF all
<1>7. all # <<>>
  BY <1>1, <1>6
<1>8. <<>> \in Seq(Nat)
  OBVIOUS
<1>9. words = all
  BY <1>4, <1>6, <1>7, <1>8, JoinedWords, Zenon
<1>10. all \in Seq(Seq(Nat))
  BY <1>6, WhiteWordsAre, SeqMonotonic
<1> HIDE DEF words
<1>11. Len(all) >= 3 /\ \A i \in 1..n : Len(all) >= 3 + i
  BY <1>1, <1>6
<1>12. /\ words \in Seq(Seq(Nat)) /\ Len(words) >= 3
       /\ \A i \in 1..3 : words[i] = H[i]
       /\ \A i \in 1..n : Len(words) >= 3 + i /\ words[3 + i] = F[i]
  BY <1>6, <1>9, <1>10, <1>11, Zenon
<1>13. LineShape(m, words)
  BY <1>0, <1>12, Zenon DEF LineShape, lay, n, F, H
<1> QED BY <1>13 DEF words

LEMMA NoteLine ==
  ASSUME NEW m \in Message, NEW k \in 1..Len(Layout(m.t)), Layout(m.t)[k] = "note"
  PROVE  LineShape(m, Words(White, encode_text(m)))
<1> DEFINE lay == Layout(m.t)
           n == Len(lay)
           F == FieldsOf(m)
           H == HeadOf(m)
           front == [i \in 1..n - 1 |-> F[i]]
           plain == H \o front
           last == F[n]
           W == Words(White, last)
           words == Words(White, encode_text(m))
<1>1. n \in Nat /\ F = [i \in 1..n |-> Written(lay[i], m.fields[i])]
      /\ \A i \in 1..n : lay[i] \in Kinds /\ m.fields[i] \in Field(lay[i])
  BY FieldsAre
<1>2. H \in Seq(Plain) /\ Len(H) = 3
  BY HeadIs
<1>3. \A i \in 1..n : lay[i] = "note" => i = n
  BY NoteLast
<1>4. k = n
  BY <1>3
<1>5. n \in 1..n /\ lay[n] = "note"
  BY <1>4
<1>6. encode_text(m) = Join(Blank, H \o F)
  BY DEF encode_text, HeadOf, FieldsOf
<1>a. \A i \in 1..n : NoteWords(m, i) = Words(White, F[i])
  BY DEF NoteWords
<1> HIDE DEF lay, n, F, H
<1>7. \A i \in 1..n - 1 : i \in 1..n /\ i # n
  BY <1>1
<1>8. \A i \in 1..n - 1 : F[i] \in Plain
  <2>1. ASSUME NEW i \in 1..n - 1 PROVE F[i] \in Plain
    <3>1. i \in 1..n /\ lay[i] # "note"
      BY <1>3, <1>7
    <3>2. F[i] = Written(lay[i], m.fields[i])
      BY <1>1, <3>1
    <3> QED BY <1>1, <3>1, <3>2, FieldOnLine, Zenon
  <2> QED BY <2>1
<1>9. last \in Seq(Nat) /\ W \in Seq(Seq(Nat))
  <2>1. last = Written("note", m.fields[n])
    BY <1>1, <1>5
  <2>2. m.fields[n] \in Field("note")
    BY <1>1, <1>5, Zenon
  <2>3. m.fields[n] \in Text
    BY <2>2 DEF Field
  <2> QED BY <2>1, <2>3, NoteOnLine, Zenon
<1>10. front \in Seq(Plain) /\ Len(front) = n - 1 /\ \A i \in 1..n - 1 : front[i] = F[i]
  <2>1. n - 1 \in Nat
    BY <1>1, <1>5
  <2> QED BY <1>8, <2>1
<1>11. H \o F = plain \o <<last>>
  <2> DEFINE one == <<last>>
             a == H \o F
             b == plain \o one
  <2>0. \A i \in 1..n : F[i] \in Seq(Nat)
    <3>1. \A word \in Plain : word \in Seq(Nat)
      BY PlainIs
    <3>2. \A i \in 1..n : i \in 1..n - 1 \/ i = n
      BY <1>1
    <3> QED BY <1>8, <1>9, <3>1, <3>2, Zenon
  <2>1. F \in Seq(Seq(Nat)) /\ Len(F) = n
    <3>1. F = [i \in 1..n |-> F[i]]
      BY <1>1
    <3> QED BY <1>1, <2>0, <3>1, SeqIs
  <2>2. H \in Seq(Seq(Nat)) /\ front \in Seq(Seq(Nat)) /\ one \in Seq(Seq(Nat)) /\ Len(one) = 1 /\ one[1] = last
    <3>1. H \in Seq(Seq(Nat)) /\ front \in Seq(Seq(Nat))
      BY <1>2, <1>10, WhiteWordsAre, SeqMonotonic
    <3> QED BY <1>9, <3>1
  <2> HIDE DEF front, one, last
  <2>3. a \in Seq(Seq(Nat)) /\ Len(a) = 3 + n /\ (\A i \in 1..3 : a[i] = H[i]) /\ \A i \in 1..n : a[3 + i] = F[i]
    <3>1. a \in Seq(Seq(Nat)) /\ Len(a) = Len(H) + Len(F) /\ (\A i \in 1..Len(H) : a[i] = H[i])
          /\ \A i \in 1..Len(F) : a[Len(H) + i] = F[i]
      BY <2>1, <2>2, JoinAt, JoinCuts
    <3> QED BY <1>2, <2>1, <3>1, Zenon
  <2>4. plain \in Seq(Seq(Nat)) /\ Len(plain) = 3 + (n - 1) /\ (\A i \in 1..3 : plain[i] = H[i])
        /\ \A i \in 1..n - 1 : plain[3 + i] = F[i]
    <3>1. plain \in Seq(Seq(Nat)) /\ Len(plain) = Len(H) + Len(front) /\ (\A i \in 1..Len(H) : plain[i] = H[i])
          /\ \A i \in 1..Len(front) : plain[Len(H) + i] = front[i]
      BY <2>2, JoinAt, JoinCuts
    <3> QED BY <1>2, <1>10, <3>1, Zenon
  <2> HIDE DEF plain, a
  <2>5. b \in Seq(Seq(Nat)) /\ Len(b) = Len(plain) + 1 /\ (\A i \in 1..Len(plain) : b[i] = plain[i])
        /\ b[Len(plain) + 1] = last
    <3>1. b \in Seq(Seq(Nat)) /\ Len(b) = Len(plain) + Len(one) /\ (\A i \in 1..Len(plain) : b[i] = plain[i])
          /\ \A i \in 1..Len(one) : b[Len(plain) + i] = one[i]
      BY <2>2, <2>4, JoinAt, JoinCuts
    <3>2. 1 \in 1..Len(one)
      BY <2>2
    <3> QED BY <2>2, <3>1, <3>2
  <2> HIDE DEF b
  <2>6. Len(a) = Len(b) /\ Len(a) = 3 + n /\ Len(plain) = 2 + n
    BY <1>1, <2>3, <2>4, <2>5
  <2>7. ASSUME NEW i \in 1..Len(a) PROVE a[i] = b[i]
    <3>1. CASE i \in 1..3
      <4>1. i \in 1..Len(plain)
        BY <1>1, <1>5, <2>6, <3>1
      <4> QED BY <2>3, <2>4, <2>5, <3>1, <4>1, Zenon
    <3>2. CASE i \notin 1..3 /\ i # 3 + n
      <4>1. i - 3 \in 1..n - 1 /\ i - 3 \in 1..n /\ 3 + (i - 3) = i /\ i \in 1..Len(plain)
        BY <1>1, <2>6, <3>2
      <4>2. a[i] = F[i - 3]
        BY <2>3, <4>1
      <4>3. plain[i] = F[i - 3]
        BY <2>4, <4>1
      <4> QED BY <2>5, <4>1, <4>2, <4>3, Zenon
    <3>3. CASE i = 3 + n
      <4>1. a[i] = F[n]
        BY <1>5, <2>3, <3>3
      <4>2. i = Len(plain) + 1
        BY <1>1, <2>6, <3>3
      <4> QED BY <2>5, <4>1, <4>2, Zenon DEF last
    <3> QED BY <3>1, <3>2, <3>3
  <2>8. a = b
    BY <2>3, <2>5, <2>6, <2>7, SeqEqual
  <2> QED BY <2>8 DEF a, b, one
<1> HIDE DEF front
<1>12. plain \in Seq(Plain) /\ Len(plain) = 2 + n /\ (\A i \in 1..3 : plain[i] = H[i])
       /\ \A i \in 1..n - 1 : plain[3 + i] = F[i]
  <2>1. plain \in Seq(Plain) /\ Len(plain) = Len(H) + Len(front) /\ (\A i \in 1..Len(H) : plain[i] = H[i])
        /\ \A i \in 1..Len(front) : plain[Len(H) + i] = front[i]
    BY <1>2, <1>10, JoinPlain, Zenon
  <2>2. 3 + (n - 1) = 2 + n
    BY <1>1
  <2> QED BY <1>2, <1>10, <2>1, <2>2, Zenon
<1> HIDE DEF plain
<1>13. plain # <<>>
  BY <1>1, <1>12
<1>14. words = plain \o W
  <2> HIDE DEF last
  <2>1. Words(White, Join(Blank, plain \o <<last>>)) = plain \o Words(White, last)
    BY <1>9, <1>12, <1>13, JoinedWords
  <2> QED BY <1>6, <1>11, <2>1, Zenon
<1>15. plain \in Seq(Seq(Nat))
  BY <1>12, WhiteWordsAre, SeqMonotonic
<1> DEFINE both == plain \o W
<1> HIDE DEF W, last
<1>16. both \in Seq(Seq(Nat)) /\ Len(both) = Len(plain) + Len(W) /\ Len(W) \in Nat
       /\ (\A i \in 1..Len(plain) : both[i] = plain[i]) /\ \A i \in 1..Len(W) : both[Len(plain) + i] = W[i]
  BY <1>9, <1>15, JoinAt, JoinCuts
<1> HIDE DEF both, words
<1>17. \A i \in 1..3 : both[i] = H[i]
  <2>1. \A i \in 1..3 : i \in 1..Len(plain)
    BY <1>1, <1>5, <1>12
  <2> QED BY <1>12, <1>16, <2>1, Zenon
<1>18. ASSUME NEW i \in 1..n, lay[i] # "note" PROVE Len(both) >= 3 + i /\ both[3 + i] = F[i]
  <2>0. i # n
    BY <1>5, <1>18
  <2>1. i \in 1..n - 1 /\ 3 + i \in 1..Len(plain)
    BY <1>1, <1>12, <2>0
  <2>2. Len(both) >= 3 + i
    BY <1>1, <1>12, <1>16, <2>1
  <2> QED BY <1>12, <1>16, <2>1, <2>2, Zenon
<1>19. W = <<>> => Len(both) < 3 + n
  BY <1>1, <1>12, <1>16
<1>20. W # <<>> => Len(both) >= 3 + n /\ both[3 + n] = W[1]
  <2> SUFFICES ASSUME W # <<>> PROVE Len(both) >= 3 + n /\ both[3 + n] = W[1]
    OBVIOUS
  <2>1. Len(W) # 0
    BY <1>9
  <2>2. 1 \in 1..Len(W) /\ Len(plain) + 1 = 3 + n
    BY <1>1, <1>12, <1>16, <2>1
  <2>3. both[Len(plain) + 1] = W[1]
    BY <1>16, <2>2, Zenon
  <2>4. Len(both) >= 3 + n
    BY <1>1, <1>12, <1>16, <2>1
  <2> QED BY <2>2, <2>3, <2>4, Zenon
<1>21. Len(both) >= 3
  BY <1>1, <1>12, <1>16, <1>5
<1>22. \A i \in 1..n : lay[i] = "note" => i = n /\ NoteWords(m, i) = W
  BY <1>3, <1>a, Zenon DEF W, last
<1>23. words = both
  BY <1>14 DEF both
<1>24. LineShape(m, both)
  <2>1. \A i \in 1..n : lay[i] # "note" => Len(both) >= 3 + i /\ both[3 + i] = F[i]
    BY <1>18, Zenon
  <2>2. \A i \in 1..n : lay[i] = "note" =>
           /\ i = n
           /\ NoteWords(m, i) = <<>> => Len(both) < 3 + i
           /\ NoteWords(m, i) # <<>> => Len(both) >= 3 + i /\ both[3 + i] = NoteWords(m, i)[1]
    BY <1>19, <1>20, <1>22, Zenon
  <2> QED BY <1>16, <1>17, <1>21, <2>1, <2>2, Zenon DEF LineShape, lay, n, F, H
<1> QED BY <1>23, <1>24, Zenon DEF words

LEMMA LineIs ==
  ASSUME NEW m \in Message PROVE LineShape(m, Words(White, encode_text(m)))
BY PlainLine, NoteLine, Zenon

LineFields(m) ==
  [i \in 1..Len(Layout(m.t)) |->
     IF Layout(m.t)[i] = "note" THEN NoteOfLine(m.fields[i]) ELSE m.fields[i]]
Lost(m, i) == Layout(m.t)[i] = "note" /\ m.fields[i] # <<>> /\ Parted(m.fields[i]) = <<>>

LEMMA OfLineIs ==
  ASSUME NEW m \in Message
  PROVE  OfLine(m) = IF \E i \in 1..Len(Layout(m.t)) : Lost(m, i) THEN WireError
                     ELSE [t |-> m.t, gid |-> m.gid, ply |-> m.ply, fields |-> LineFields(m)]
<1> DEFINE n == Len(Layout(m.t))
           fields == m.fields
           notes == { i \in DOMAIN m.fields : Layout(m.t)[i] = "note" }
           read == [i \in DOMAIN m.fields |-> IF i \in notes THEN NoteOfLine(m.fields[i]) ELSE m.fields[i]]
<1>1. m = [t |-> m.t, gid |-> m.gid, ply |-> m.ply, fields |-> fields]
  BY MessageIs, Zenon
<1>2. fields = [i \in 1..n |-> fields[i]]
  BY MessageIs, Zenon
<1>3. DOMAIN m.fields = 1..n
  <2>1. DOMAIN [i \in 1..n |-> fields[i]] = 1..n
    OBVIOUS
  <2> QED BY <1>2, <2>1, Zenon
<1>4. read = LineFields(m)
  BY <1>3, Zenon DEF LineFields
<1>5. (\E i \in notes : m.fields[i] # <<>> /\ Parted(m.fields[i]) = <<>>) <=> \E i \in 1..n : Lost(m, i)
  BY <1>3, Zenon DEF Lost
<1>6. OfLine(m) = IF \E i \in notes : m.fields[i] # <<>> /\ Parted(m.fields[i]) = <<>> THEN WireError
                  ELSE [m EXCEPT !.fields = read]
  BY Zenon DEF OfLine
<1> HIDE DEF read, notes
<1>7. [m EXCEPT !.fields = read] = [t |-> m.t, gid |-> m.gid, ply |-> m.ply, fields |-> read]
  <2> DEFINE t == m.t
             gid == m.gid
             ply == m.ply
  <2>1. m = [t |-> t, gid |-> gid, ply |-> ply, fields |-> fields]
    BY <1>1
  <2> HIDE DEF t, gid, ply, fields
  <2>2. [m EXCEPT !.fields = read] = [t |-> t, gid |-> gid, ply |-> ply, fields |-> read]
    BY <2>1
  <2> QED BY <2>2 DEF t, gid, ply
<1> QED BY <1>4, <1>5, <1>6, <1>7, Zenon

LEMMA SoundOnLine ==
  ASSUME NEW m \in Message PROVE FieldsSound(m.t, LineFields(m))
<1>1. CASE m.t = "SYNC_STATE" \/ m.t = "REJECT"
  <2>1. \A i \in 1..Len(Layout(m.t)) : Layout(m.t)[i] # "note"
    BY <1>1, NoteLast, Zenon
  <2>2. LineFields(m) = [i \in 1..Len(Layout(m.t)) |-> m.fields[i]]
    BY <2>1, Zenon DEF LineFields
  <2>3. m.fields = [i \in 1..Len(Layout(m.t)) |-> m.fields[i]] /\ FieldsSound(m.t, m.fields)
    BY MessageIs, Zenon
  <2> QED BY <2>2, <2>3, Zenon
<1>2. CASE m.t # "SYNC_STATE" /\ m.t # "REJECT"
  BY <1>2, Zenon DEF FieldsSound
<1> QED BY <1>1, <1>2

(* A line is read as the message it was written from.                        *)
LEMMA LineIsRead ==
  ASSUME NEW m \in Message PROVE decode_text(encode_text(m)) = OfLine(m)
<1> DEFINE lay == Layout(m.t)
           n == Len(lay)
           line == encode_text(m)
           words == Words(White, line)
           fields == [i \in 1..n |-> Understood(lay[i], words[3 + i])]
<1>0. n \in Nat /\ FieldsOf(m) = [i \in 1..n |-> Written(lay[i], m.fields[i])]
      /\ \A i \in 1..n : lay[i] \in Kinds /\ m.fields[i] \in Field(lay[i])
  BY FieldsAre
<1>1. /\ words \in Seq(Seq(Nat)) /\ Len(words) >= 3
      /\ \A i \in 1..3 : words[i] = HeadOf(m)[i]
      /\ \A i \in 1..n : lay[i] # "note" => Len(words) >= 3 + i /\ words[3 + i] = FieldsOf(m)[i]
      /\ \A i \in 1..n : lay[i] = "note" =>
           /\ i = n
           /\ NoteWords(m, i) = <<>> => Len(words) < 3 + i
           /\ NoteWords(m, i) # <<>> => Len(words) >= 3 + i /\ words[3 + i] = NoteWords(m, i)[1]
  <2>1. LineShape(m, words)
    BY LineIs
  <2> QED BY <2>1, Zenon DEF LineShape
<1>l. \A i \in 1..n : Lost(m, i) <=> lay[i] = "note" /\ m.fields[i] # <<>> /\ Parted(m.fields[i]) = <<>>
  BY Zenon DEF Lost
<1>w. \A i \in 1..n : NoteWords(m, i) = Words(White, FieldsOf(m)[i])
  BY Zenon DEF NoteWords
<1>f. LineFields(m) = [i \in 1..n |-> IF lay[i] = "note" THEN NoteOfLine(m.fields[i]) ELSE m.fields[i]]
  BY Zenon DEF LineFields
<1>2. words[1] = HeadOf(m)[1] /\ words[2] = HeadOf(m)[2] /\ words[3] = HeadOf(m)[3]
  <2>1. 1 \in 1..3 /\ 2 \in 1..3 /\ 3 \in 1..3
    OBVIOUS
  <2> QED BY <1>1, <2>1, Zenon
<1>3. FromHex(words[1]) = m.gid /\ MsgType[FromHex(words[2])[1]] = m.t /\ FromHex(words[3])[1] = m.ply
  BY <1>2, HeadIs, Zenon
<1>4. Len(words) \in Nat
  BY <1>1
<1>5. decode_text(line)
        = IF Len(words) >= 3 + n /\ FieldsSound(m.t, fields)
          THEN [t |-> m.t, gid |-> m.gid, ply |-> m.ply, fields |-> fields] ELSE WireError
  <2> DEFINE t == MsgType[FromHex(words[2])[1]]
  <2>1. decode_text(line)
          = IF /\ Len(words) >= 3 /\ Len(words) >= 3 + Len(Layout(t))
               /\ FieldsSound(t, [i \in 1..Len(Layout(t)) |-> Understood(Layout(t)[i], words[3 + i])])
            THEN [t |-> t, gid |-> FromHex(words[1]), ply |-> FromHex(words[3])[1],
                  fields |-> [i \in 1..Len(Layout(t)) |-> Understood(Layout(t)[i], words[3 + i])]]
            ELSE WireError
    BY Zenon DEF decode_text
  <2>2. t = m.t
    BY <1>3
  <2> HIDE DEF t, words, line
  <2> QED BY <1>1, <1>3, <2>1, <2>2, Zenon
<1> DEFINE gone == \E i \in 1..n : Lost(m, i)
<1>6. OfLine(m) = IF gone THEN WireError
                  ELSE [t |-> m.t, gid |-> m.gid, ply |-> m.ply, fields |-> LineFields(m)]
  BY OfLineIs
<1> HIDE DEF lay, n, words, line, fields
<1>7. ASSUME NEW i \in 1..n, lay[i] = "note"
      PROVE  /\ NoteWords(m, i) = <<>> <=> Lost(m, i)
             /\ NoteWords(m, i) # <<>> => Understood("note", NoteWords(m, i)[1]) = NoteOfLine(m.fields[i])
  <2>1. FieldsOf(m)[i] = Written("note", m.fields[i])
    BY <1>0, <1>7
  <2>2. m.fields[i] \in Text
    <3>1. m.fields[i] \in Field("note")
      BY <1>0, <1>7, Zenon
    <3> QED BY <3>1 DEF Field
  <2>3. NoteWords(m, i) = Words(White, Written("note", m.fields[i]))
    BY <1>w, <2>1, Zenon
  <2> QED BY <1>7, <1>l, <2>2, <2>3, NoteOnLine, Zenon
<1>8. CASE gone
  <2>1. PICK i \in 1..n : Lost(m, i)
    BY <1>8
  <2>2. i = n /\ NoteWords(m, i) = <<>>
    BY <1>1, <1>7, <1>l, <2>1, Zenon
  <2>3. Len(words) < 3 + n
    BY <1>1, <1>l, <2>1, <2>2, Zenon
  <2>4. ~(Len(words) >= 3 + n)
    BY <1>0, <1>4, <2>3
  <2> QED BY <1>5, <1>6, <1>8, <2>4, Zenon DEF line
<1>9. CASE ~gone
  <2>1. ASSUME NEW i \in 1..n
        PROVE  /\ Len(words) >= 3 + i
               /\ Understood(lay[i], words[3 + i])
                    = IF lay[i] = "note" THEN NoteOfLine(m.fields[i]) ELSE m.fields[i]
    <3>1. CASE lay[i] = "note"
      <4>1. NoteWords(m, i) # <<>>
        BY <1>7, <1>9, <3>1, Zenon
      <4> QED BY <1>1, <1>7, <3>1, <4>1, Zenon
    <3>2. CASE lay[i] # "note"
      <4>1. Len(words) >= 3 + i /\ words[3 + i] = FieldsOf(m)[i]
        BY <1>1, <3>2, Zenon
      <4>2. FieldsOf(m)[i] = Written(lay[i], m.fields[i])
        BY <1>0
      <4>3. Understood(lay[i], Written(lay[i], m.fields[i])) = m.fields[i]
        BY <1>0, <3>2, FieldOnLine, Zenon
      <4> QED BY <3>2, <4>1, <4>2, <4>3, Zenon
    <3> QED BY <3>1, <3>2, Zenon
  <2>2. fields = LineFields(m)
    BY <1>f, <2>1, Zenon DEF fields
  <2>3. Len(words) >= 3 + n
    <3>1. CASE n = 0
      BY <1>1, <1>4, <3>1
    <3>2. CASE n # 0
      <4>1. n \in 1..n
        BY <1>0, <3>2
      <4> QED BY <2>1, <4>1, Zenon
    <3> QED BY <3>1, <3>2
  <2>4. FieldsSound(m.t, fields)
    BY <2>2, SoundOnLine, Zenon
  <2> QED BY <1>5, <1>6, <1>9, <2>2, <2>3, <2>4, Zenon DEF line
<1> QED BY <1>8, <1>9

-----------------------------------------------------------------------------
(* The link.                                                                *)

Cut(w, p) == \E n \in 0..Len(w) - 1 : p = SubSeq(w, 1, n)
Longer(w, p) == \E byte \in Noise : p = Append(w, byte)
Changed(w, p) == \E i \in DOMAIN w, byte \in Noise : p = [w EXCEPT ![i] = byte]

FrameSent == sent_ \in Message /\ LET w == encode_binary(sent_)
                                  IN  payload = w \/ Cut(w, payload) \/ Longer(w, payload)
LineSent == sent_ \in Message /\ payload = encode_text(sent_)
CardSent == sent_ \in Card /\ LET w == encode_card(sent_)
                              IN  payload = w \/ Cut(w, payload) \/ Longer(w, payload) \/ Changed(w, payload)
TypedSent == sent_ \in Typed /\ (payload = sent_ \/ Cut(sent_, payload) \/ Longer(sent_, payload))

(* What is on the link is what somebody said, or that with one thing done to  *)
(* it.                                                                      *)
Carried ==
  \/ form = "none"
  \/ form = "frame" /\ FrameSent
  \/ form = "line" /\ LineSent
  \/ form = "card" /\ CardSent
  \/ form = "typed" /\ TypedSent

LEMMA NotAFrame ==
  ASSUME NEW data, data = <<>> \/ data[1] \div 16 # VERSION
  PROVE  decode_binary(data) = WireError
BY Zenon DEF decode_binary

(* What is done to a payload leaves its first byte alone, or nothing.        *)
LEMMA FirstStays ==
  ASSUME NEW w \in Seq(Nat), w # <<>>, NEW p, p = w \/ Cut(w, p) \/ Longer(w, p)
  PROVE  p = <<>> \/ p[1] = w[1]
<1>1. CASE p = w
  BY <1>1
<1>2. CASE Cut(w, p)
  <2>1. PICK n \in 0..Len(w) - 1 : p = SubSeq(w, 1, n)
    BY <1>2 DEF Cut
  <2>2. CASE n = 0
    BY <2>1, <2>2
  <2>3. CASE n # 0
    <3> DEFINE c == SubSeq(w, 1, n)
    <3>1. c[1] = w[1]
      BY <2>3
    <3> QED BY <2>1, <3>1
  <2> QED BY <2>2, <2>3
<1>3. CASE Longer(w, p)
  <2>1. PICK byte \in Noise : p = Append(w, byte)
    BY <1>3 DEF Longer
  <2>2. byte \in Nat
    BY CodecAssumption, BytesAreNats
  <2> DEFINE a == Append(w, byte)
  <2>3. 1 \in 1..Len(w)
    OBVIOUS
  <2>4. a[1] = w[1]
    BY <2>2, <2>3
  <2> QED BY <2>1, <2>4
<1> QED BY <1>1, <1>2, <1>3

(* A frame is as it was sent, or refused, and never a card.                   *)
LEMMA FramesAreRead ==
  ASSUME form = "frame", FrameSent PROVE ReadAsSent
<1> DEFINE m == sent_
           w == encode_binary(m)
           p == payload
<1>1. m \in Message /\ (p = w \/ Cut(w, p) \/ Longer(w, p))
  BY DEF FrameSent
<1>2. w \in Seq(Byte) /\ w # <<>> /\ w[1] = VERSION * 16 + ValueOf(m.t)
  <2> DEFINE h == HeaderOf(m)
             b == FrameBody(m)
  <2>1. h \in Seq(Byte) /\ Len(h) = 1 + GID_LEN + 2 /\ h[1] = VERSION * 16 + ValueOf(m.t) /\ b \in Seq(Byte)
        /\ GID_LEN \in Nat
    BY <1>1, HeaderIs, BodyIs, MessageIs
  <2>2. w = h \o b
    BY DEF encode_binary, FrameBody
  <2> HIDE DEF h, b, w
  <2> DEFINE hb == h \o b
  <2>3. hb \in Seq(Byte) /\ Len(hb) = Len(h) + Len(b) /\ Len(b) \in Nat /\ \A i \in 1..Len(h) : hb[i] = h[i]
    <3>1. h \in Seq(Byte) /\ b \in Seq(Byte)
      BY <2>1
    <3>2. hb \in Seq(Byte) /\ Len(hb) = Len(h) + Len(b) /\ \A i \in 1..Len(h) : hb[i] = h[i]
      BY <3>1, CutBytes, Zenon
    <3>3. Len(b) \in Nat
      BY <3>1
    <3> QED BY <3>2, <3>3
  <2> HIDE DEF hb
  <2>4. 1 \in 1..Len(h)
    BY <2>1
  <2>5. hb # <<>> /\ hb[1] = h[1]
    BY <2>1, <2>3, <2>4
  <2>6. w = hb
    BY <2>2 DEF hb
  <2> QED BY <2>1, <2>3, <2>5, <2>6, Zenon
<1>3. VERSION * 16 + ValueOf(m.t) > 16
  BY <1>1, FirstIs
<1>4. w \in Seq(Nat)
  BY <1>2, BytesAreNats
<1>a. decode_binary(w) = m
  BY <1>1, FrameIsRead
<1>b. ASSUME NEW n \in 0..Len(w) - 1 PROVE decode_binary(SubSeq(w, 1, n)) = WireError /\ SubSeq(w, 1, n) # w
  <2>1. PICK x \in Seq(Byte) : x # <<>> /\ w = SubSeq(w, 1, n) \o x /\ SubSeq(w, 1, n) \in Seq(Byte)
    BY <1>2, CutIs
  <2>2. decode_binary(SubSeq(w, 1, n)) = WireError
    BY <1>1, <2>1, ShorterIsRefused
  <2>3. SubSeq(w, 1, n) # w
    <3> HIDE DEF w
    <3>1. Len(SubSeq(w, 1, n)) = n /\ Len(w) # n
      BY <1>2
    <3> QED BY <3>1
  <2> QED BY <2>2, <2>3
<1>c. ASSUME NEW byte \in Noise PROVE decode_binary(Append(w, byte)) = WireError /\ Append(w, byte) # w
  <2>1. byte \in Byte /\ <<byte>> \in Seq(Byte) /\ <<byte>> # <<>>
    <3>1. byte \in Byte
      BY CodecAssumption
    <3> QED BY <3>1
  <2>2. decode_binary(w \o <<byte>>) = WireError
    BY <1>1, <2>1, LongerIsRefused
  <2> HIDE DEF w
  <2>3. Append(w, byte) = w \o <<byte>> /\ Append(w, byte) # w
    <3>1. Append(w, byte) = w \o <<byte>>
      BY <1>2, <2>1, AppendIsConcat
    <3>2. Len(Append(w, byte)) = Len(w) + 1 /\ Len(w) \in Nat
      BY <1>2, <2>1
    <3> QED BY <3>1, <3>2
  <2> QED BY <2>2, <2>3, Zenon
<1> HIDE DEF w, p, m
<1>5. decode_binary(p) = IF p = w THEN m ELSE WireError
  <2>1. CASE p = w
    BY <1>a, <2>1, Zenon
  <2>2. CASE p # w
    <3>1. Cut(w, p) \/ Longer(w, p)
      BY <1>1, <2>2
    <3>2. decode_binary(p) = WireError
      BY <1>b, <1>c, <3>1, Zenon DEF Cut, Longer
    <3> QED BY <2>2, <3>2, Zenon
  <2> QED BY <2>1, <2>2
<1>6. ~looks_like_card(p)
  <2>1. p = <<>> \/ p[1] = w[1]
    BY <1>1, <1>2, <1>4, FirstStays
  <2>2. w[1] # 1
    BY <1>2, <1>3
  <2> QED BY <2>1, <2>2 DEF looks_like_card, VERSION
<1>7. Encoded("frame", sent_) = w
  BY DEF Encoded, w, m
<1> QED BY <1>5, <1>6, <1>7, Zenon DEF ReadAsSent, p, m

(* A card is as it was sent, or refused, and never a frame.                   *)
LEMMA CardsAreRead ==
  ASSUME form = "card", CardSent PROVE ReadAsSent
<1> DEFINE card == sent_
           w == encode_card(card)
           p == payload
           same == [card EXCEPT !.name = CardName(card)]
<1>1. card \in Card /\ (p = w \/ Cut(w, p) \/ Longer(w, p) \/ Changed(w, p))
  BY DEF CardSent
<1>a. decode_card(w) = same
  BY <1>1, CardIsRead
<1>b. ASSUME NEW n \in 0..Len(w) - 1 PROVE decode_card(SubSeq(w, 1, n)) = WireError
  BY <1>1, ShorterCardIsRefused
<1>n. Noise \subseteq Nat
  BY CodecAssumption, BytesAreNats
<1>c. ASSUME NEW byte \in Noise PROVE decode_card(Append(w, byte)) = WireError
  <2>1. byte \in Nat
    BY <1>n
  <2> QED BY <1>1, <2>1, LongerCardIsRefused
<1>d. ASSUME NEW i \in DOMAIN w, NEW byte \in Noise, byte # w[i]
      PROVE  decode_card([w EXCEPT ![i] = byte]) = WireError
  <2>1. byte \in Nat
    BY <1>n
  <2> QED BY <1>1, <1>d, <2>1, OtherCardIsRefused
<1>e. w \in Seq(Nat)
  BY <1>1, SignedIs, Zenon
<1> HIDE DEF w, p, same
<1>2. ASSUME NEW n \in 0..Len(w) - 1 PROVE SubSeq(w, 1, n) # w
  <2>1. Len(SubSeq(w, 1, n)) = n /\ Len(w) # n
    BY <1>e
  <2> QED BY <2>1
<1>3. ASSUME NEW byte \in Noise PROVE Append(w, byte) # w
  <2>1. Len(Append(w, byte)) = Len(w) + 1 /\ Len(w) \in Nat
    BY <1>e
  <2> QED BY <2>1
<1>4. ASSUME NEW i \in DOMAIN w, NEW byte \in Noise
      PROVE  [w EXCEPT ![i] = byte] = w <=> byte = w[i]
  BY <1>e
<1>5. decode_card(p) = IF p = w THEN same ELSE WireError
  <2>1. CASE p = w
    BY <1>a, <2>1, Zenon
  <2>2. CASE Cut(w, p)
    BY <1>b, <1>2, <2>2, Zenon DEF Cut
  <2>3. CASE Longer(w, p)
    BY <1>c, <1>3, <2>3, Zenon DEF Longer
  <2>4. CASE Changed(w, p)
    <3>1. PICK i \in DOMAIN w, byte \in Noise : p = [w EXCEPT ![i] = byte]
      BY <2>4 DEF Changed
    <3>2. CASE byte = w[i]
      <4>1. p = w
        BY <1>4, <3>1, <3>2, Zenon
      <4> QED BY <1>a, <4>1, Zenon
    <3>3. CASE byte # w[i]
      <4>1. p # w /\ decode_card(p) = WireError
        BY <1>4, <1>d, <3>1, <3>3, Zenon
      <4> QED BY <4>1, Zenon
    <3> QED BY <3>2, <3>3
  <2> QED BY <1>1, <2>1, <2>2, <2>3, <2>4
<1>6. decode_binary(p) = WireError \/ p[1] # VERSION
  <2>1. 1 \div 16 # 1
    OBVIOUS
  <2>2. p[1] = VERSION => p[1] \div 16 # VERSION
    BY <2>1 DEF VERSION
  <2> QED BY <2>2, NotAFrame, Zenon
<1>7. Encoded("card", sent_) = w
  BY DEF Encoded, w
<1> QED BY <1>5, <1>6, <1>7, Zenon DEF ReadAsSent, p, same

(* What a person types is neither.                                          *)
LEMMA TypedIsNoFrame ==
  ASSUME form = "typed", TypedSent PROVE ReadAsSent
<1>1. sent_ \in Seq(Byte) /\ sent_ # <<>> /\ sent_[1] >= 32
  BY CodecAssumption DEF TypedSent
<1>2. sent_ \in Seq(Nat)
  BY <1>1, BytesAreNats
<1>3. payload = <<>> \/ payload[1] = sent_[1]
  BY <1>1, <1>2, FirstStays DEF TypedSent
<1>4. sent_[1] # VERSION /\ sent_[1] \div 16 # VERSION
  <2> DEFINE b == sent_[1]
  <2>1. b \in Nat /\ b >= 32
    BY <1>1, <1>2
  <2> HIDE DEF b
  <2>2. b # 1 /\ b \div 16 # 1
    BY <2>1
  <2> QED BY <2>2 DEF b, VERSION
<1>5. ~looks_like_card(payload)
  BY <1>3, <1>4, Zenon DEF looks_like_card
<1>6. decode_binary(payload) = WireError
  BY <1>3, <1>4, NotAFrame, Zenon
<1> QED BY <1>5, <1>6, Zenon DEF ReadAsSent

LEMMA CarriedIsRead ==
  ASSUME Carried PROVE ReadAsSent
<1>1. CASE form = "none"
  BY <1>1, Zenon DEF ReadAsSent
<1>2. CASE form = "frame" /\ FrameSent
  BY <1>2, FramesAreRead
<1>3. CASE form = "line" /\ LineSent
  <2>1. decode_text(payload) = OfLine(sent_)
    BY <1>3, LineIsRead DEF LineSent
  <2> QED BY <1>3, <2>1, Zenon DEF ReadAsSent
<1>4. CASE form = "card" /\ CardSent
  BY <1>4, CardsAreRead
<1>5. CASE form = "typed" /\ TypedSent
  BY <1>5, TypedIsNoFrame
<1> QED BY <1>1, <1>2, <1>3, <1>4, <1>5 DEF Carried

(* Only a payload still whole is cut, added to or changed.                    *)
LEMMA CarriedStep ==
  ASSUME Carried, [CodecNext]_codecVars PROVE Carried'
<1>1. CASE SendsOne("frame", Message)
  BY <1>1 DEF SendsOne, Encoded, Carried, FrameSent
<1>2. CASE SendsOne("line", Message)
  BY <1>2 DEF SendsOne, Encoded, Carried, LineSent
<1>3. CASE SendsOne("card", Card)
  BY <1>3 DEF SendsOne, Encoded, Carried, CardSent
<1>4. CASE SendsOne("typed", Typed)
  BY <1>4 DEF SendsOne, Encoded, Carried, TypedSent
<1>s. /\ form = "frame" => sent_ \in Message /\ Encoded(form, sent_) = encode_binary(sent_)
      /\ form = "card" => sent_ \in Card /\ Encoded(form, sent_) = encode_card(sent_)
      /\ form = "typed" => sent_ \in Typed /\ Encoded(form, sent_) = sent_
  BY DEF Carried, FrameSent, CardSent, TypedSent, Encoded
<1>5. CASE CutShort
  <2>1. form' = form /\ sent_' = sent_ /\ form \in {"frame", "card", "typed"} /\ Cut(Encoded(form, sent_), payload')
    BY <1>5 DEF CutShort, Cut
  <2> QED BY <1>s, <2>1 DEF Carried, FrameSent, CardSent, TypedSent
<1>6. CASE ByteAdded
  <2>1. form' = form /\ sent_' = sent_ /\ form \in {"frame", "card", "typed"} /\ Longer(Encoded(form, sent_), payload')
    BY <1>6 DEF ByteAdded, Longer
  <2> QED BY <1>s, <2>1 DEF Carried, FrameSent, CardSent, TypedSent
<1>7. CASE ByteChanged
  <2>1. form' = form /\ sent_' = sent_ /\ form = "card" /\ Changed(Encoded(form, sent_), payload')
    BY <1>7 DEF ByteChanged, Changed
  <2> QED BY <1>s, <2>1 DEF Carried, CardSent
<1>8. CASE UNCHANGED codecVars
  BY <1>8 DEF codecVars, Carried, FrameSent, LineSent, CardSent, TypedSent
<1> QED BY <1>1, <1>2, <1>3, <1>4, <1>5, <1>6, <1>7, <1>8 DEF CodecNext

(* ReadAsSent, for every message, card and typed text, any lengths of ids and  *)
(* keys, and any byte the link adds, changes or cuts off: what is put on the  *)
(* wire is read as it was sent or not at all, a frame is never taken for a    *)
(* card, a card for a frame, nor a person's words for either                  *)
(* (encode_binary, encode_text and their readers in messages.py, encode_card  *)
(* and decode_card in lobby.py).                                            *)
THEOREM WireReading == CodecSpec => []ReadAsSent
<1>1. CodecInit => Carried
  BY DEF CodecInit, Carried
<1>2. Carried /\ [CodecNext]_codecVars => Carried'
  BY CarriedStep
<1>3. Carried => ReadAsSent
  BY CarriedIsRead
<1> QED BY <1>1, <1>2, <1>3, PTL DEF CodecSpec
=============================================================================
