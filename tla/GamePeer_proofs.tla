--------------------------- MODULE GamePeer_proofs --------------------------
(***************************************************************************)
(* Proofs about GamePeer, for every game, every hash, any number of crashes *)
(* and either seat, in three parts.                                         *)
(*                                                                         *)
(* The logs. In a state that satisfies IInv each step leaves the logs       *)
(* alone, lets a peer play a move it may play, or gives a peer that is      *)
(* behind exactly the other's log (LogStep).                                *)
(*                                                                         *)
(* The abstract game. Every step of the two peers is brought to one of six  *)
(* shapes (GameStep), what it does to the logs and to one peer's status     *)
(* together, and each shape is a step of CorrespondenceGame or a stutter.   *)
(*                                                                         *)
(* How games end. Every step accounts for the result it records, the offer  *)
(* it believes and the move it remembers (Account), and EndInv follows.     *)
(***************************************************************************)
EXTENDS GamePeer, TLAPS

-----------------------------------------------------------------------------
(* The two peers and their seats                                           *)

LEMMA PeerFacts ==
  ASSUME NEW p \in Peer
  PROVE  /\ Other(p) \in Peer /\ Other(p) # p /\ Other(Other(p)) = p
         /\ Peer = {p, Other(p)}
         /\ SeatOf(p) \in Seat /\ SeatOf(Other(p)) # SeatOf(p)
BY GamePeerAssumption DEF Peer, Other, SeatOf, other_seat, Seat

LEMMA SeatsAlternate ==
  ASSUME NEW n \in Nat
  PROVE  SeatAt(n) \in Seat /\ SeatAt(n + 1) # SeatAt(n)
BY DEF SeatAt, Seat

-----------------------------------------------------------------------------
(* Sequences                                                               *)

LEMMA PrefixFacts ==
  ASSUME NEW S, NEW h \in Seq(S), NEW n \in 0..Len(h)
  PROVE  /\ SubSeq(h, 1, n) \in Seq(S)
         /\ Len(SubSeq(h, 1, n)) = n
         /\ \A i \in 1..n : SubSeq(h, 1, n)[i] = h[i]
OBVIOUS

LEMMA SameElements ==
  ASSUME NEW S, NEW h \in Seq(S), NEW g \in Seq(S),
         Len(h) = Len(g), \A i \in 1..Len(h) : h[i] = g[i]
  PROVE  h = g
OBVIOUS

LEMMA PrefixOfPrefix ==
  ASSUME NEW S, NEW h \in Seq(S), NEW n \in 0..Len(h), NEW k \in 0..n
  PROVE  SubSeq(SubSeq(h, 1, n), 1, k) = SubSeq(h, 1, k)
OBVIOUS

(* A history that extends another one has its prefixes.                    *)
Extends(g, h) ==
  Len(h) <= Len(g) /\ \A i \in 1..Len(h) : g[i] = h[i]

LEMMA ExtendsPrefix ==
  ASSUME NEW S, NEW h \in Seq(S), NEW g \in Seq(S), Extends(g, h),
         NEW n \in 0..Len(h)
  PROVE  SubSeq(g, 1, n) = SubSeq(h, 1, n)
BY DEF Extends

LEMMA AppendExtends ==
  ASSUME NEW S, NEW h \in Seq(S), NEW x \in S
  PROVE  /\ Append(h, x) \in Seq(S)
         /\ Len(Append(h, x)) = Len(h) + 1
         /\ Append(h, x)[Len(h) + 1] = x
         /\ SubSeq(Append(h, x), 1, Len(h)) = h
         /\ Extends(Append(h, x), h)
BY DEF Extends

(* IsPrefix of the library, element by element.                            *)
LEMMA ExtendsIsPrefix ==
  ASSUME NEW S, NEW h \in Seq(S), NEW g \in Seq(S), Extends(g, h)
  PROVE  IsPrefix(h, g)
BY DEF Extends, IsPrefix

-----------------------------------------------------------------------------
(* What a step does to the logs                                            *)

PlayStep(p, m) ==
  /\ MayPlay(p, m) /\ m \in Move
  /\ log' = [log EXCEPT ![p] = Append(log[p], m)]

LearnStep(p) ==
  /\ ~ Waiting(p)
  /\ Len(log[p]) < Len(log[Other(p)])
  /\ log' = [log EXCEPT ![p] = log[Other(p)]]

LogStep ==
  \/ log' = log
  \/ \E p \in Peer, m \in Move : PlayStep(p, m)
  \/ \E p \in Peer : LearnStep(p)

(* The part of IInv that is about the logs alone.                          *)
Aligned ==
  \A p \in Peer : \A i \in 1..Len(log[p]) :
    i <= Len(log[Other(p)]) => log[p][i] = log[Other(p)][i]

LogInv ==
  /\ log \in [Peer -> Seq(Move)]
  /\ Aligned
  /\ LeadAtMostOne
  /\ \A p \in Peer : Replays(log[p])

LEMMA IInvLogs == IInv => LogInv
BY DEF IInv, LogInv, Aligned, TypeOK

(* A peer that is not ahead holds a prefix of the other one's log.          *)
LEMMA Behind ==
  ASSUME LogInv, NEW p \in Peer, NEW n \in 0..Len(log[Other(p)]),
         n <= Len(log[p])
  PROVE  SubSeq(log[p], 1, n) = SubSeq(log[Other(p)], 1, n)
<1> DEFINE q == Other(p)
<1>1. q \in Peer /\ log[p] \in Seq(Move) /\ log[q] \in Seq(Move)
  BY PeerFacts DEF LogInv
<1>2. \A i \in 1..n : log[p][i] = log[q][i]
  <2> SUFFICES ASSUME NEW i \in 1..n PROVE log[p][i] = log[q][i]
    OBVIOUS
  <2>1. Len(log[p]) \in Nat /\ Len(log[q]) \in Nat
    BY <1>1
  <2>2. i \in 1..Len(log[p]) /\ i <= Len(log[q])
    BY <2>1
  <2> QED BY <2>2 DEF LogInv, Aligned
<1>3. n \in 0..Len(log[p])
  BY <1>1
<1> HIDE DEF q
<1> QED BY <1>1, <1>2, <1>3, PrefixFacts, SameElements DEF q

(* The other peer's log is at most one move longer.                        *)
LEMMA LeadBound ==
  ASSUME LogInv, NEW p \in Peer
  PROVE  /\ Len(log[p]) \in Nat /\ Len(log[Other(p)]) \in Nat
         /\ Len(log[Other(p)]) <= Len(log[p]) + 1
         /\ Len(log[p]) < Len(log[Other(p)]) =>
              SeatAt(Len(log[p])) = SeatOf(Other(p))
<1>1. Other(p) \in Peer /\ Other(Other(p)) = p
  BY PeerFacts
<1>2. Len(log[p]) \in Nat /\ Len(log[Other(p)]) \in Nat
  BY <1>1 DEF LogInv
<1> QED BY <1>1, <1>2 DEF LogInv, LeadAtMostOne

(* A peer that may play is not behind.                                     *)
LEMMA PlayerKnowsAll ==
  ASSUME LogInv, NEW p \in Peer, our_turn(p)
  PROVE  Len(log[Other(p)]) <= Len(log[p])
BY LeadBound, PeerFacts DEF our_turn

LEMMA ReplaysPrefix ==
  ASSUME NEW h \in Seq(Move), Replays(h), NEW n \in 0..Len(h)
  PROVE  Replays(SubSeq(h, 1, n))
<1>1. /\ Len(SubSeq(h, 1, n)) = n
      /\ \A i \in 1..n : SubSeq(h, 1, n)[i] = h[i]
  BY PrefixFacts
<1>2. \A i \in 1..n : SubSeq(SubSeq(h, 1, n), 1, i - 1) = SubSeq(h, 1, i - 1)
  <2> SUFFICES ASSUME NEW i \in 1..n
               PROVE SubSeq(SubSeq(h, 1, n), 1, i - 1) = SubSeq(h, 1, i - 1)
    OBVIOUS
  <2>1. i - 1 \in 0..n
    OBVIOUS
  <2> QED BY <2>1, PrefixOfPrefix
<1>3. \A i \in 1..n : i \in 1..Len(h)
  OBVIOUS
<1> QED BY <1>1, <1>2, <1>3 DEF Replays

LEMMA ReplaysAppend ==
  ASSUME NEW h \in Seq(Move), Replays(h), NEW m \in Move, Legal(h, m)
  PROVE  Replays(Append(h, m))
<1> DEFINE g == Append(h, m)
<1>1. g \in Seq(Move) /\ Len(g) = Len(h) + 1 /\ g[Len(h) + 1] = m
      /\ SubSeq(g, 1, Len(h)) = h /\ Extends(g, h)
  BY AppendExtends
<1> HIDE DEF g
<1> SUFFICES ASSUME NEW i \in 1..Len(g)
             PROVE  Legal(SubSeq(g, 1, i - 1), g[i])
  BY DEF Replays, g
<1>2. Len(h) \in Nat
  OBVIOUS
<1>3. CASE i = Len(h) + 1
  <2>1. i - 1 = Len(h)
    BY <1>2, <1>3
  <2>2. SubSeq(g, 1, i - 1) = h /\ g[i] = m
    BY <1>1, <1>3, <2>1
  <2> QED BY <2>2
<1>4. CASE i \in 1..Len(h)
  <2>1. i - 1 \in 0..Len(h)
    BY <1>2, <1>4
  <2>2. SubSeq(g, 1, i - 1) = SubSeq(h, 1, i - 1)
    BY <1>1, <2>1, ExtendsPrefix
  <2>3. g[i] = h[i]
    BY <1>1, <1>4 DEF Extends
  <2> QED BY <1>4, <2>2, <2>3 DEF Replays
<1> QED BY <1>1, <1>2, <1>3, <1>4

-----------------------------------------------------------------------------
(* Either kind of change keeps LogInv and only ever extends a log.         *)

LEMMA PlayStepLogs ==
  ASSUME LogInv, NEW p \in Peer, NEW m \in Move, PlayStep(p, m)
  PROVE  LogInv' /\ \A r \in Peer : Extends(log'[r], log[r])
<1> DEFINE q == Other(p)
           h == log[p]
           g == Append(log[p], m)
<1>1. /\ q \in Peer /\ q # p /\ Other(q) = p /\ Peer = {p, q}
      /\ SeatOf(p) # SeatOf(q)
  BY PeerFacts
<1>2. h \in Seq(Move) /\ log[q] \in Seq(Move)
  BY <1>1 DEF LogInv
<1>3. /\ g \in Seq(Move) /\ Len(g) = Len(h) + 1 /\ Extends(g, h)
      /\ Len(h) \in Nat /\ Len(log[q]) \in Nat
  BY <1>2, AppendExtends
<1>4. log'[p] = g /\ log'[q] = log[q] /\ log' \in [Peer -> Seq(Move)]
  BY <1>1, <1>3 DEF LogInv, PlayStep
<1>5. Len(log[q]) <= Len(h)
  BY PlayerKnowsAll DEF PlayStep, MayPlay
<1>6. Aligned'
  <2>1. \A i \in 1..Len(log[q]) : g[i] = log[q][i]
    BY <1>1, <1>2, <1>3, <1>5 DEF LogInv, Aligned, Extends
  <2> HIDE DEF q, h, g
  <2> SUFFICES ASSUME NEW r \in Peer, NEW i \in 1..Len(log'[r]),
                      i <= Len(log'[Other(r)])
               PROVE  log'[r][i] = log'[Other(r)][i]
    BY DEF Aligned
  <2>2. CASE r = p
    <3>1. log'[r] = g /\ log'[Other(r)] = log[q]
      BY <1>4, <2>2 DEF q
    <3>2. i \in 1..Len(log[q])
      BY <1>3, <3>1
    <3> QED BY <2>1, <3>1, <3>2
  <2>3. CASE r = q
    <3>1. log'[r] = log[q] /\ log'[Other(r)] = g
      BY <1>1, <1>4, <2>3
    <3> QED BY <2>1, <3>1
  <2> QED BY <1>1, <2>2, <2>3
<1>7. LeadAtMostOne'
  <2>1. SeatAt(Len(h)) = SeatOf(p)
    BY DEF PlayStep, MayPlay, our_turn
  <2>2. Len(log[q]) = Len(h) \/ Len(h) = Len(log[q]) + 1
    BY <1>1, <1>3, <1>5 DEF LogInv, LeadAtMostOne
  <2>3. Len(h) = Len(log[q]) + 1 => SeatAt(Len(log[q])) = SeatOf(p)
    BY <1>1, <1>3 DEF LogInv, LeadAtMostOne
  <2>4. Len(log[q]) = Len(h)
    BY <1>3, <2>1, <2>2, <2>3, SeatsAlternate
  <2> QED BY <1>1, <1>3, <1>4, <2>1, <2>4 DEF LeadAtMostOne
<1>8. \A r \in Peer : Replays(log'[r])
  <2>1. Replays(g)
    BY <1>2, ReplaysAppend DEF PlayStep, MayPlay, LogInv
  <2> QED BY <1>1, <1>4, <2>1 DEF LogInv
<1>9. \A r \in Peer : Extends(log'[r], log[r])
  BY <1>1, <1>2, <1>3, <1>4 DEF Extends
<1> QED BY <1>4, <1>6, <1>7, <1>8, <1>9 DEF LogInv

LEMMA LearnStepLogs ==
  ASSUME LogInv, NEW p \in Peer, LearnStep(p)
  PROVE  LogInv' /\ \A r \in Peer : Extends(log'[r], log[r])
<1> DEFINE q == Other(p)
<1>1. q \in Peer /\ q # p /\ Other(q) = p /\ Peer = {p, q}
  BY PeerFacts
<1>2. log[p] \in Seq(Move) /\ log[q] \in Seq(Move)
      /\ Len(log[p]) \in Nat /\ Len(log[q]) \in Nat
  BY <1>1 DEF LogInv
<1>3. log'[p] = log[q] /\ log'[q] = log[q] /\ log' \in [Peer -> Seq(Move)]
  BY <1>1, <1>2 DEF LogInv, LearnStep
<1>4. Aligned' /\ LeadAtMostOne'
  BY <1>1, <1>2, <1>3 DEF Aligned, LeadAtMostOne
<1>5. \A r \in Peer : Replays(log'[r])
  BY <1>1, <1>3 DEF LogInv
<1>6. Extends(log[q], log[p])
  BY <1>1, <1>2 DEF LogInv, Aligned, LearnStep, Extends
<1>7. Extends(log[q], log[q])
  BY <1>2 DEF Extends
<1> QED BY <1>1, <1>3, <1>4, <1>5, <1>6, <1>7 DEF LogInv

LEMMA LogStepLogs ==
  ASSUME LogInv, LogStep
  PROVE  LogInv' /\ \A r \in Peer : Extends(log'[r], log[r])
<1>1. CASE log' = log
  <2>1. LogInv'
    BY <1>1 DEF LogInv, Aligned, LeadAtMostOne
  <2>2. \A r \in Peer : log[r] \in Seq(Move)
    BY DEF LogInv
  <2>3. \A r \in Peer : Extends(log[r], log[r])
    BY <2>2 DEF Extends
  <2> QED BY <1>1, <2>1, <2>3
<1>2. CASE \E p \in Peer, m \in Move : PlayStep(p, m)
  BY <1>2, PlayStepLogs
<1>3. CASE \E p \in Peer : LearnStep(p)
  BY <1>3, LearnStepLogs
<1> QED BY <1>1, <1>2, <1>3 DEF LogStep

-----------------------------------------------------------------------------
(* Messages stay truthful while logs only grow                             *)

LEMMA TruthKept ==
  ASSUME LogInv, LogInv', \A r \in Peer : Extends(log'[r], log[r]),
         NEW m, IsMessage(m), Truthful(m)
  PROVE  Truthful(m)'
<1> DEFINE q == Other(m.to)
           h == log[q]
           g == log'[q]
<1>1. q \in Peer
  BY PeerFacts DEF IsMessage
<1>2. h \in Seq(Move) /\ g \in Seq(Move) /\ Extends(g, h)
      /\ Len(h) \in Nat /\ Len(g) \in Nat /\ Len(h) <= Len(g)
  BY <1>1 DEF LogInv, Extends
<1>3. ASSUME m.type = "MOVE"
      PROVE  /\ m.ply < Len(g) /\ g[m.ply + 1] = m.move
             /\ m.hash = Hash(SubSeq(g, 1, m.ply + 1))
  <2>1. /\ m.ply \in Nat /\ m.ply < Len(h) /\ h[m.ply + 1] = m.move
        /\ m.hash = Hash(SubSeq(h, 1, m.ply + 1))
    BY <1>3 DEF IsMessage, Truthful
  <2>2. m.ply + 1 \in 1..Len(h) /\ m.ply + 1 \in 0..Len(h)
    BY <1>2, <2>1
  <2>3. SubSeq(g, 1, m.ply + 1) = SubSeq(h, 1, m.ply + 1)
    BY <1>2, <2>2, ExtendsPrefix
  <2>4. g[m.ply + 1] = h[m.ply + 1]
    BY <1>2, <2>2 DEF Extends
  <2>5. m.ply < Len(g)
    BY <1>2, <2>1
  <2> HIDE DEF q, h, g
  <2> QED BY <2>1, <2>3, <2>4, <2>5
<1>4. ASSUME m.type = "SYNC_STATE"
      PROVE  /\ m.ply <= Len(g)
             /\ m.hash = Hash(SubSeq(g, 1, m.ply))
             /\ m.moves = Slice(SubSeq(g, 1, m.ply), m.part)
  <2>1. /\ m.ply \in Nat /\ m.ply <= Len(h)
        /\ m.hash = Hash(SubSeq(h, 1, m.ply))
        /\ m.moves = Slice(SubSeq(h, 1, m.ply), m.part)
    BY <1>4 DEF IsMessage, Truthful
  <2>2. m.ply \in 0..Len(h)
    BY <1>2, <2>1
  <2>3. SubSeq(g, 1, m.ply) = SubSeq(h, 1, m.ply)
    BY <1>2, <2>2, ExtendsPrefix
  <2>4. m.ply <= Len(g)
    BY <1>2, <2>1
  <2> HIDE DEF q, h, g
  <2> QED BY <2>1, <2>3, <2>4
<1>5. m.type = "MOVE" => SeatAt(m.ply) = SeatOf(Other(m.to))
  BY DEF Truthful
<1> QED BY <1>3, <1>4, <1>5 DEF Truthful

-----------------------------------------------------------------------------
(* The two handlers that add moves                                         *)

(* A MOVE is silence or exactly the move its receiver lacks: never a gap,   *)
(* an illegal move, a divergence or a turn out of line.                     *)
LEMMA MoveArrives ==
  ASSUME IInv, NEW p \in Peer, NEW msg \in Inbox(p, "MOVE")
  PROVE  /\ ~ OutOfTurn(p, msg)
         /\ Verdict(log[p], msg) \in {"FINISHED", "DUPLICATE", "APPLIED"}
         /\ Verdict(log[p], msg) = "APPLIED" =>
              /\ Len(log[p]) < Len(log[Other(p)])
              /\ Append(log[p], msg.move) = log[Other(p)]
<1> DEFINE q == Other(p)
           n == Len(log[p])
<1>0. LogInv
  BY IInvLogs
<1>1. q \in Peer /\ SeatOf(q) # SeatOf(p)
      /\ log[p] \in Seq(Move) /\ log[q] \in Seq(Move)
  BY <1>0, PeerFacts DEF LogInv
<1>2. /\ msg \in net /\ msg.type = "MOVE" /\ msg.to = p
      /\ IsMessage(msg) /\ Truthful(msg)
  BY DEF Inbox, IInv, TypeOK, MessagesTruthful
<1>3. /\ msg.ply \in Nat /\ msg.ply < Len(log[q])
      /\ log[q][msg.ply + 1] = msg.move
      /\ SeatAt(msg.ply) = SeatOf(q)
      /\ msg.hash = Hash(SubSeq(log[q], 1, msg.ply + 1))
  BY <1>2 DEF IsMessage, Truthful
<1>4. n \in Nat /\ Len(log[q]) \in Nat /\ Len(log[q]) <= n + 1
  BY <1>0, LeadBound
<1>5. ~ OutOfTurn(p, msg)
  BY <1>1, <1>3 DEF OutOfTurn, our_turn
<1>6. ASSUME msg.ply = n
      PROVE  /\ Legal(log[p], msg.move)
             /\ Hash(Append(log[p], msg.move)) = msg.hash
             /\ n < Len(log[q])
             /\ Append(log[p], msg.move) = log[q]
  <2>1. Len(log[q]) = n + 1
    BY <1>3, <1>4, <1>6
  <2>2. n \in 0..Len(log[q]) /\ n + 1 \in 1..Len(log[q])
    BY <1>4, <2>1
  <2>3. SubSeq(log[p], 1, n) = SubSeq(log[q], 1, n)
    BY <1>0, <1>4, <2>2, Behind
  <2>4. SubSeq(log[p], 1, n) = log[p]
    BY <1>1
  <2>5. SubSeq(log[q], 1, n + 1) = log[q]
    BY <1>1, <2>1
  <2>6. Append(SubSeq(log[q], 1, n), log[q][n + 1]) = SubSeq(log[q], 1, n + 1)
    <3>1. n \in 0..(Len(log[q]) - 1)
      BY <1>4, <2>1
    <3> HIDE DEF n
    <3> QED BY <1>1, <3>1
  <2>7. Append(log[p], msg.move) = log[q]
    BY <1>3, <1>6, <2>3, <2>4, <2>5, <2>6
  <2>8. Legal(SubSeq(log[q], 1, n + 1 - 1), log[q][n + 1])
    BY <1>0, <1>1, <2>2 DEF LogInv, Replays
  <2>9. n + 1 - 1 = n
    BY <1>4
  <2>10. Legal(log[p], msg.move)
    BY <1>3, <1>6, <2>3, <2>4, <2>8, <2>9
  <2> QED BY <1>3, <1>6, <2>1, <2>2, <2>5, <2>7, <2>10
<1>7. CASE msg.ply < n
  BY <1>5, <1>4, <1>3, <1>7 DEF Verdict
<1>8. CASE msg.ply = n
  BY <1>5, <1>6, <1>4, <1>8 DEF Verdict
<1> QED BY <1>3, <1>4, <1>7, <1>8

(* A completed sync buffer holds a prefix of the sender's log; if that is   *)
(* longer than the receiver's log it is the sender's whole log, and is      *)
(* adopted.                                                                 *)
LEMMA SyncArrives ==
  ASSUME IInv, NEW p \in Peer, NEW msg \in Inbox(p, "SYNC_STATE"),
         Complete(Buffered(buf[p], msg), msg.ply),
         msg.ply > Len(log[p])
  PROVE  LET moves == Assembled(Buffered(buf[p], msg), msg.ply)
         IN  /\ Len(log[p]) < Len(log[Other(p)])
             /\ moves = log[Other(p)]
             /\ Adoptable(log[p], moves, msg.hash)
<1> DEFINE q == Other(p)
           b == Buffered(buf[p], msg)
           n == msg.ply
           h == SubSeq(log[q], 1, n)
           moves == Assembled(b, n)
<1>0. LogInv
  BY IInvLogs
<1>1. q \in Peer /\ log[q] \in Seq(Move) /\ Len(log[q]) \in Nat
  BY <1>0, PeerFacts DEF LogInv
<1>2. /\ msg \in net /\ msg.type = "SYNC_STATE" /\ msg.to = p
      /\ IsMessage(msg) /\ Truthful(msg)
  BY DEF Inbox, IInv, TypeOK, MessagesTruthful
<1>3. /\ n \in Nat /\ n <= Len(log[q]) /\ msg.hash = Hash(h)
      /\ n \in 0..Len(log[q])
  BY <1>1, <1>2 DEF IsMessage, Truthful
<1>4. h \in Seq(Move) /\ Len(h) = n /\ \A k \in 1..n : h[k] = log[q][k]
  BY <1>1, <1>3, PrefixFacts
<1>5. \A m \in b : m.ply = n /\ m.moves = Slice(h, m.part)
  <2> SUFFICES ASSUME NEW m \in b PROVE m.ply = n /\ m.moves = Slice(h, m.part)
    OBVIOUS
  <2>1. m = msg \/ (m \in buf[p] /\ m.ply = n)
    BY DEF Buffered, SameSnapshot
  <2>2. m.type = "SYNC_STATE" /\ m.to = p /\ Truthful(m) /\ m.ply = n
    BY <1>2, <2>1 DEF IInv, TypeOK, MessagesTruthful
  <2> QED BY <2>2 DEF Truthful
<1>6. \A k \in 1..n : moves[k] = h[k]
  <2> SUFFICES ASSUME NEW k \in 1..n PROVE moves[k] = h[k]
    OBVIOUS
  <2> DEFINE c == CHOOSE m \in b : m.part = PartOf(k)
  <2>1. PartOf(k) \in {m.part : m \in b}
    BY DEF Complete, PartsOf
  <2>2. c \in b /\ c.part = PartOf(k)
    BY <2>1
  <2>3. c.moves = Slice(h, PartOf(k))
    BY <1>5, <2>2
  <2>4. k \in {j \in 1..Len(h) : PartOf(j) = PartOf(k)}
    BY <1>4
  <2>5. Slice(h, PartOf(k))[k] = h[k]
    BY <2>4 DEF Slice
  <2>6. moves[k] = c.moves[k]
    BY DEF Assembled
  <2> QED BY <2>3, <2>5, <2>6
<1>7. moves = [k \in 1..n |-> h[k]]
  BY <1>6 DEF Assembled
<1>8. moves = h
  <2> HIDE DEF moves, h, n
  <2> QED BY <1>3, <1>4, <1>7
<1>9. Len(log[p]) \in Nat /\ Len(log[q]) <= Len(log[p]) + 1
  BY <1>0, LeadBound
<1>10. n = Len(log[q]) /\ Len(log[p]) < Len(log[q])
  BY <1>1, <1>3, <1>9
<1>11. h = log[q]
  BY <1>1, <1>10
<1>12. Replays(log[q])
  BY <1>0, <1>1 DEF LogInv
<1> QED BY <1>3, <1>8, <1>10, <1>11, <1>12 DEF Adoptable

-----------------------------------------------------------------------------
(* Every step is a LogStep                                                 *)

LEMMA ResetIsNothing ==
  ASSUME IInv, NEW p \in Peer, Waiting(p)
  PROVE  [log EXCEPT ![p] = <<>>] = log
<1>1. log[p] = <<>> /\ log \in [Peer -> Seq(Move)]
  BY DEF IInv, QuietUntilAccepted, TypeOK
<1> QED BY <1>1

LEMMA PlaysLogStep ==
  ASSUME NEW p \in Peer, NEW m \in Move, MayPlay(p, m),
         log' = [log EXCEPT ![p] = Append(@, m)]
  PROVE  LogStep
BY DEF LogStep, PlayStep

LEMMA MoveLogStep ==
  ASSUME IInv, NEW p \in Peer, NEW msg \in Inbox(p, "MOVE"), Playing(p),
         Applies(Verdict(log[p], msg)),
         log' = [log EXCEPT ![p] = Append(@, msg.move)]
  PROVE  LogStep
<1>1. Verdict(log[p], msg) = "APPLIED"
  BY MoveArrives DEF Applies
<1>2. LearnStep(p)
  BY <1>1, MoveArrives DEF LearnStep, Playing, Waiting
<1> QED BY <1>2 DEF LogStep

LEMMA ReceiveMoveLogStep ==
  ASSUME IInv, NEW p \in Peer, NEW msg \in Inbox(p, "MOVE"),
         ReceiveMove(p, msg)
  PROVE  LogStep
<1>1. ~ OutOfTurn(p, msg)
  BY MoveArrives
<1>2. CASE Applies(Verdict(log[p], msg))
  BY <1>1, <1>2, MoveLogStep DEF ReceiveMove
<1>3. CASE ~ Applies(Verdict(log[p], msg))
  BY <1>1, <1>3 DEF ReceiveMove, LogStep
<1> QED BY <1>2, <1>3

LEMMA SyncLogStep ==
  ASSUME IInv, NEW p \in Peer, NEW msg \in Inbox(p, "SYNC_STATE"),
         ReceiveSyncState(p, msg) \/ CrashInSyncState(p, msg)
  PROVE  LogStep
<1> DEFINE b == Buffered(buf[p], msg)
           moves == Assembled(b, msg.ply)
<1>1. log' = log \/ (/\ Complete(b, msg.ply) /\ ~ msg.ply <= Len(log[p])
                     /\ log' = [log EXCEPT ![p] = moves])
      \/ (/\ Complete(b, msg.ply) /\ msg.ply > Len(log[p])
          /\ log' = [log EXCEPT ![p] = moves])
  BY DEF ReceiveSyncState, CrashInSyncState
<1>2. msg.ply \in Nat /\ Len(log[p]) \in Nat
  BY DEF Inbox, IInv, TypeOK, IsMessage
<1>3. CASE /\ Complete(b, msg.ply) /\ msg.ply > Len(log[p])
           /\ log' = [log EXCEPT ![p] = moves]
  <2>1. ~ Waiting(p)
    BY DEF Inbox, IInv, QuietUntilAccepted
  <2>2. LearnStep(p)
    BY <1>3, <2>1, SyncArrives DEF LearnStep
  <2> QED BY <2>2 DEF LogStep
<1> QED BY <1>1, <1>2, <1>3 DEF LogStep

LEMMA EveryStepIsALogStep ==
  ASSUME IInv, [Next]_vars
  PROVE  LogStep
<1>1. CASE UNCHANGED vars
  BY <1>1 DEF vars, LogStep
<1>2. ASSUME NEW p \in Peer, UserStep(p)
      PROVE  LogStep
  <2>1. CASE \E m \in Move : SubmitMove(p, m)
    BY <2>1, PlaysLogStep DEF SubmitMove
  <2>2. CASE Invite(p) \/ Resign(p) \/ OfferDraw(p) \/ AcceptDraw(p) \/ Nudge(p)
    BY <2>2 DEF Invite, Resign, OfferDraw, AcceptDraw, Nudge, LogStep
  <2> QED BY <1>2, <2>1, <2>2 DEF UserStep
<1>3. ASSUME NEW p \in Peer, ReceiveLog(p)
      PROVE  LogStep
  <2>1. CASE ReceiveInvite(p)
    BY <2>1 DEF ReceiveInvite, LogStep
  <2>2. CASE ReceiveAccept(p)
    BY <2>2, ResetIsNothing DEF ReceiveAccept, Waiting, LogStep
  <2>3. CASE \E msg \in Inbox(p, "SYNC_STATE") : ReceiveSyncState(p, msg)
    BY <2>3, SyncLogStep
  <2> QED BY <1>3, <2>1, <2>2, <2>3 DEF ReceiveLog
<1>4. ASSUME NEW p \in Peer, ReceiveStep(p)
      PROVE  LogStep
  <2>1. CASE \E msg \in Inbox(p, "MOVE") : ReceiveMove(p, msg)
    BY <2>1, ReceiveMoveLogStep
  <2>2. CASE ReceiveDupInvite(p) \/ ReceiveDecline(p) \/ ReceiveSyncRequest(p)
    BY <2>2 DEF ReceiveDupInvite, ReceiveDecline, ReceiveSyncRequest, LogStep
  <2>3. CASE ReceiveResign(p) \/ ReceiveDrawOffer(p) \/ ReceiveDrawAccept(p)
    BY <2>3 DEF ReceiveResign, ReceiveDrawOffer, ReceiveDrawAccept, LogStep
  <2> QED BY <1>4, <2>1, <2>2, <2>3 DEF ReceiveStep
<1>5. ASSUME NEW p \in Peer, CrashStep(p)
      PROVE  LogStep
  <2>1. CASE Restart(p)
    BY <2>1 DEF Restart, LogStep
  <2>2. CASE \E m \in Move : CrashInSubmit(p, m)
    BY <2>2, PlaysLogStep DEF CrashInSubmit
  <2>3. CASE \E msg \in Inbox(p, "MOVE") : CrashInReceiveMove(p, msg)
    BY <2>3, MoveLogStep DEF CrashInReceiveMove
  <2>4. CASE CrashInAccept(p)
    BY <2>4, ResetIsNothing DEF CrashInAccept, Waiting, LogStep
  <2>5. CASE \E msg \in Inbox(p, "SYNC_STATE") : CrashInSyncState(p, msg)
    BY <2>5, SyncLogStep
  <2> QED BY <1>5, <2>1, <2>2, <2>3, <2>4, <2>5 DEF CrashStep
<1>6. CASE \E msg \in net : Lose(msg)
  BY <1>6 DEF Lose, LogStep
<1> QED BY <1>1, <1>2, <1>3, <1>4, <1>5, <1>6 DEF Next

-----------------------------------------------------------------------------
(* What a step sends, remembers and buffers                                *)

PlainTypes == MsgTypes \ {"MOVE", "SYNC_STATE", "REJECT"}

FreshMove(p, m) ==
  \E mv \in Move : /\ MayPlay(p, mv)
                  /\ m = MoveMsg(p, log[p], mv)
                  /\ log' = [log EXCEPT ![p] = Append(@, mv)]

Fresh(p, m) ==
  \/ \E t \in PlainTypes : /\ m = Plain(t, p)
                           /\ t = "SYNC_REQUEST" => ~ Waiting(p)
  \/ FreshMove(p, m)
  \/ m \in SyncState(p) /\ log' = log /\ Inbox(p, "SYNC_REQUEST") # {}

Speech ==
  /\ \A m \in net' : m \in net \/ \E p \in Peer : Fresh(p, m) \/ m \in lastOut[p]
  /\ \A p \in Peer : \A m \in lastOut'[p] : m \in lastOut[p] \/ FreshMove(p, m)
  /\ \A p \in Peer : \A m \in buf'[p] :
       m \in buf[p] \/ m \in Inbox(p, "SYNC_STATE")
  /\ DOMAIN lastOut' = Peer /\ DOMAIN buf' = Peer

(* An operation or handler that sends at most one message without fields.   *)
LEMMA PlainSpeech ==
  ASSUME IInv, NEW p \in Peer, NEW t \in PlainTypes,
         t = "SYNC_REQUEST" => ~ Waiting(p),
         net' = net \/ Send({Plain(t, p)}), UNCHANGED <<lastOut, buf>>
  PROVE  Speech
BY DEF Send, Speech, Fresh, IInv, TypeOK

LEMMA CrashSpeech ==
  ASSUME IInv, NEW p \in Peer, Crash(p), UNCHANGED net
  PROVE  Speech
BY DEF Speech, Crash, IInv, TypeOK

LEMMA UserSpeech ==
  ASSUME IInv, NEW p \in Peer, UserStep(p)
  PROVE  Speech
<1>1. CASE Invite(p)
  BY <1>1, PlainSpeech DEF Invite, PlainTypes, MsgTypes
<1>2. CASE \E m \in Move : SubmitMove(p, m)
  <2>1. PICK m \in Move : SubmitMove(p, m)
    BY <1>2
  <2>2. FreshMove(p, MoveMsg(p, log[p], m))
    BY <2>1 DEF SubmitMove, FreshMove
  <2> QED BY <2>1, <2>2 DEF SubmitMove, Send, Speech, Fresh, IInv, TypeOK
<1>3. CASE Resign(p)
  BY <1>3, PlainSpeech DEF Resign, PlainTypes, MsgTypes
<1>4. CASE OfferDraw(p)
  BY <1>4, PlainSpeech DEF OfferDraw, PlainTypes, MsgTypes
<1>5. CASE AcceptDraw(p)
  BY <1>5, PlainSpeech DEF AcceptDraw, PlainTypes, MsgTypes
<1>6. CASE Nudge(p)
  <2>1. CASE Nudged(p) = {Plain("INVITE", p)}
    BY <1>6, <2>1, PlainSpeech DEF Nudge, PlainTypes, MsgTypes
  <2>2. CASE our_turn(p) /\ Nudged(p) = {Plain("SYNC_REQUEST", p)}
    BY <1>6, <2>2, PlainSpeech DEF Nudge, our_turn, Waiting, PlainTypes, MsgTypes
  <2>3. CASE Nudged(p) \subseteq lastOut[p]
    BY <1>6, <2>3 DEF Nudge, Send, Speech, IInv, TypeOK
  <2> QED BY <2>1, <2>2, <2>3 DEF Nudged, our_turn
<1> QED BY <1>1, <1>2, <1>3, <1>4, <1>5, <1>6 DEF UserStep

LEMMA SyncSpeech ==
  ASSUME IInv, NEW p \in Peer, NEW msg \in Inbox(p, "SYNC_STATE"),
         ReceiveSyncState(p, msg)
  PROVE  Speech
<1>1. Buffered(buf[p], msg) \subseteq buf[p] \cup {msg}
  BY DEF Buffered
<1>2. UNCHANGED <<lastOut, net>>
  BY DEF ReceiveSyncState
<1>3. buf' = [buf EXCEPT ![p] = Buffered(buf[p], msg)] \/ buf' = [buf EXCEPT ![p] = {}]
  BY DEF ReceiveSyncState
<1> QED BY <1>1, <1>2, <1>3 DEF Speech, IInv, TypeOK

LEMMA ReceiveSpeech ==
  ASSUME IInv, NEW p \in Peer, ReceiveLog(p) \/ ReceiveStep(p)
  PROVE  Speech
<1>1. CASE ReceiveInvite(p)
  BY <1>1, PlainSpeech DEF ReceiveInvite, PlainTypes, MsgTypes
<1>2. CASE ReceiveAccept(p) \/ ReceiveDecline(p) \/ ReceiveResign(p)
           \/ ReceiveDrawOffer(p) \/ ReceiveDrawAccept(p)
  BY <1>2 DEF ReceiveAccept, ReceiveDecline, ReceiveResign, ReceiveDrawOffer,
              ReceiveDrawAccept, Speech, IInv, TypeOK
<1>3. CASE ReceiveDupInvite(p)
  BY <1>3, PlainSpeech DEF ReceiveDupInvite, PlainTypes, MsgTypes
<1>4. CASE \E msg \in Inbox(p, "MOVE") : ReceiveMove(p, msg)
  <2>1. PICK msg \in Inbox(p, "MOVE") : ReceiveMove(p, msg)
    BY <1>4
  <2>2. net' = net /\ UNCHANGED <<lastOut, buf>>
    BY <2>1, MoveArrives DEF ReceiveMove, Answer, Send
  <2> QED BY <2>2 DEF Speech, IInv, TypeOK
<1>5. CASE ReceiveSyncRequest(p)
  BY <1>5 DEF ReceiveSyncRequest, Send, Speech, Fresh, IInv, TypeOK
<1>6. CASE \E msg \in Inbox(p, "SYNC_STATE") : ReceiveSyncState(p, msg)
  BY <1>6, SyncSpeech
<1> QED BY <1>1, <1>2, <1>3, <1>4, <1>5, <1>6 DEF ReceiveLog, ReceiveStep

LEMMA CrashStepSpeech ==
  ASSUME IInv, NEW p \in Peer, CrashStep(p)
  PROVE  Speech
<1>1. CASE Restart(p)
  BY <1>1, CrashSpeech DEF Restart
<1>2. CASE \E m \in Move : CrashInSubmit(p, m)
  <2>1. PICK m \in Move : CrashInSubmit(p, m)
    BY <1>2
  <2>2. FreshMove(p, MoveMsg(p, log[p], m))
    BY <2>1 DEF CrashInSubmit, FreshMove
  <2> QED BY <2>1, <2>2 DEF CrashInSubmit, Crash, Send, Speech, Fresh, IInv, TypeOK
<1>3. CASE \E msg \in Inbox(p, "MOVE") : CrashInReceiveMove(p, msg)
  BY <1>3, CrashSpeech DEF CrashInReceiveMove
<1>4. CASE CrashInAccept(p)
  BY <1>4, CrashSpeech DEF CrashInAccept
<1>5. CASE \E msg \in Inbox(p, "SYNC_STATE") : CrashInSyncState(p, msg)
  BY <1>5, CrashSpeech DEF CrashInSyncState
<1> QED BY <1>1, <1>2, <1>3, <1>4, <1>5 DEF CrashStep

LEMMA EveryStepSpeech ==
  ASSUME IInv, [Next]_vars
  PROVE  Speech
<1>1. CASE UNCHANGED vars
  BY <1>1 DEF vars, Speech, IInv, TypeOK
<1>2. CASE \E msg \in net : Lose(msg)
  BY <1>2 DEF Lose, Speech, IInv, TypeOK
<1> QED BY <1>1, <1>2, UserSpeech, ReceiveSpeech, CrashStepSpeech DEF Next

-----------------------------------------------------------------------------
(* Everything said is true                                                 *)

Sound(m) == IsMessage(m) /\ Truthful(m) /\ m.type # "REJECT"

LEMMA OldMessagesSound ==
  ASSUME IInv
  PROVE  /\ \A m \in net : Sound(m)
         /\ \A p \in Peer : \A m \in lastOut[p] :
              Sound(m) /\ m.type = "MOVE" /\ m.to # p
         /\ \A p \in Peer : \A m \in buf[p] :
              Sound(m) /\ m.type = "SYNC_STATE" /\ m.to = p
BY DEF IInv, TypeOK, MessagesTruthful, NoFalseAccusation, Sound

LEMMA PlainSound ==
  ASSUME NEW p \in Peer, NEW t \in PlainTypes
  PROVE  Sound(Plain(t, p))' /\ Plain(t, p).type = t /\ Plain(t, p).to = Other(p)
BY PeerFacts DEF Sound, IsMessage, Truthful, Plain, PlainTypes, MsgTypes

LEMMA FreshMoveSound ==
  ASSUME LogInv, NEW p \in Peer, NEW m, FreshMove(p, m)
  PROVE  Sound(m)' /\ m.type = "MOVE" /\ m.to = Other(p)
<1>1. PICK mv \in Move : /\ MayPlay(p, mv)
                        /\ m = MoveMsg(p, log[p], mv)
                        /\ log' = [log EXCEPT ![p] = Append(@, mv)]
  BY DEF FreshMove
<1> DEFINE h == log[p]
           g == Append(log[p], mv)
<1>2. h \in Seq(Move) /\ Len(h) \in Nat /\ log'[p] = g
  BY <1>1 DEF LogInv
<1>3. g \in Seq(Move) /\ Len(g) = Len(h) + 1 /\ g[Len(h) + 1] = mv
  BY <1>2, AppendExtends
<1>4. SubSeq(g, 1, Len(h) + 1) = g
  BY <1>3
<1>5. /\ m.type = "MOVE" /\ m.to = Other(p) /\ m.ply = Len(h)
      /\ m.move = mv /\ m.hash = Hash(g)
  BY <1>1 DEF MoveMsg
<1>6. Other(m.to) = p /\ m.to \in Peer
  BY <1>5, PeerFacts
<1>7. IsMessage(m)
  BY <1>2, <1>5, <1>6 DEF IsMessage, MsgTypes
<1>8. SeatAt(m.ply) = SeatOf(p)
  BY <1>1, <1>5 DEF MayPlay, our_turn
<1>9. log'[Other(m.to)] = g
  BY <1>2, <1>6
<1>10. m.ply < Len(g) /\ g[m.ply + 1] = m.move
       /\ m.hash = Hash(SubSeq(g, 1, m.ply + 1))
  <2>1. m.ply + 1 = Len(h) + 1 /\ m.ply < Len(g)
    BY <1>2, <1>3, <1>5
  <2>2. SubSeq(g, 1, m.ply + 1) = g /\ g[m.ply + 1] = mv
    BY <1>3, <1>4, <2>1
  <2> HIDE DEF g, h
  <2> QED BY <1>5, <2>1, <2>2
<1>11. Truthful(m)'
  <2> HIDE DEF g, h
  <2> QED BY <1>5, <1>6, <1>8, <1>9, <1>10 DEF Truthful
<1> QED BY <1>5, <1>7, <1>11 DEF Sound, IsMessage

LEMMA SyncPartSound ==
  ASSUME LogInv, NEW p \in Peer, NEW m \in SyncState(p), log' = log
  PROVE  Sound(m)' /\ m.type = "SYNC_STATE" /\ m.to = Other(p)
<1> DEFINE h == log[p]
<1>1. PICK i \in PartsOf(Len(log[p])) : m = SyncPart(p, i)
  BY DEF SyncState
<1>2. h \in Seq(Move) /\ Len(h) \in Nat
  BY DEF LogInv
<1>3. /\ m.type = "SYNC_STATE" /\ m.to = Other(p) /\ m.ply = Len(h)
      /\ m.hash = Hash(h) /\ m.part = i /\ m.moves = Slice(h, i)
  BY <1>1 DEF SyncPart
<1>4. Other(m.to) = p /\ m.to \in Peer
  BY <1>3, PeerFacts
<1>5. SubSeq(h, 1, Len(h)) = h
  BY <1>2
<1>6. IsMessage(m)
  BY <1>1, <1>2, <1>3, <1>4 DEF IsMessage, MsgTypes
<1>7. Truthful(m)'
  <2>1. log'[Other(m.to)] = h
    BY <1>4
  <2>2. SubSeq(h, 1, m.ply) = h /\ m.ply <= Len(h)
    BY <1>2, <1>3, <1>5
  <2> HIDE DEF h
  <2> QED BY <1>3, <2>1, <2>2 DEF Truthful
<1> QED BY <1>3, <1>6, <1>7 DEF Sound, IsMessage

LEMMA SpeechSound ==
  ASSUME IInv, LogStep, Speech
  PROVE  /\ \A m \in net' : Sound(m)'
         /\ \A p \in Peer : \A m \in lastOut'[p] :
              Sound(m)' /\ m.type = "MOVE" /\ m.to # p
         /\ \A p \in Peer : \A m \in buf'[p] :
              Sound(m)' /\ m.type = "SYNC_STATE" /\ m.to = p
<1>1. LogInv /\ LogInv' /\ \A r \in Peer : Extends(log'[r], log[r])
  BY IInvLogs, LogStepLogs
<1>2. ASSUME NEW m, Sound(m) PROVE Sound(m)'
  BY <1>1, <1>2, TruthKept DEF Sound, IsMessage
<1>3. ASSUME NEW p \in Peer, NEW m, Fresh(p, m) PROVE Sound(m)'
  BY <1>1, <1>3, PlainSound, FreshMoveSound, SyncPartSound DEF Fresh
<1>4. \A m \in net' : Sound(m)'
  BY <1>2, <1>3, OldMessagesSound DEF Speech
<1>5. ASSUME NEW p \in Peer, NEW m \in lastOut'[p]
      PROVE  Sound(m)' /\ m.type = "MOVE" /\ m.to # p
  BY <1>1, <1>2, OldMessagesSound, FreshMoveSound, PeerFacts DEF Speech
<1>6. ASSUME NEW p \in Peer, NEW m \in buf'[p]
      PROVE  Sound(m)' /\ m.type = "SYNC_STATE" /\ m.to = p
  BY <1>2, OldMessagesSound DEF Speech, Inbox
<1> QED BY <1>4, <1>5, <1>6

-----------------------------------------------------------------------------
(* Statuses, results and the rest of the entry                             *)

ControlOK ==
  /\ status \in [Peer -> StatusSet \ {"broken"}]
  /\ result \in [Peer -> ResultSet]
  /\ session \in [Peer -> BOOLEAN]
  /\ drawBy \in [Peer -> Seat \cup {"none"}]
  /\ restarts \in Nat

(* A step keeps the types, breaks no session, and never takes a peer back   *)
(* to waiting for an answer to an invitation.                               *)
ControlStep ==
  ControlOK' /\ \A p \in Peer : Waiting(p)' => Waiting(p)

LEMMA ControlNow ==
  ASSUME IInv
  PROVE  ControlOK
BY DEF IInv, TypeOK, NoFalseAccusation, ControlOK

LEMMA FinishControl ==
  ASSUME IInv, NEW p \in Peer, NEW r \in ResultSet,
         Finish(p, r) \/ UNCHANGED <<status, result>>,
         UNCHANGED <<session, drawBy, restarts>>
  PROVE  ControlStep
BY ControlNow DEF ControlStep, ControlOK, Finish, Waiting, StatusSet

LEMMA CrashControl ==
  ASSUME IInv, NEW p \in Peer, Crash(p), session' \in [Peer -> BOOLEAN]
  PROVE  ControlStep
BY ControlNow DEF ControlStep, ControlOK, Crash, Waiting

LEMMA UserControl ==
  ASSUME IInv, NEW p \in Peer, UserStep(p)
  PROVE  ControlStep
<1>1. CASE Invite(p)
  BY <1>1, ControlNow DEF Invite, ControlStep, ControlOK, Waiting, StatusSet
<1>2. CASE \E m \in Move : SubmitMove(p, m)
  BY <1>2, FinishControl DEF SubmitMove, CheckFinished, ResultSet
<1>3. CASE Resign(p)
  BY <1>3, FinishControl DEF Resign, ResignedBy, ResultSet
<1>4. CASE OfferDraw(p)
  BY <1>4, ControlNow, PeerFacts DEF OfferDraw, ControlStep, ControlOK, Waiting
<1>5. CASE AcceptDraw(p)
  BY <1>5, FinishControl DEF AcceptDraw, ResultSet
<1>6. CASE Nudge(p)
  BY <1>6, ControlNow DEF Nudge, ControlStep, ControlOK, Waiting
<1> QED BY <1>1, <1>2, <1>3, <1>4, <1>5, <1>6 DEF UserStep

LEMMA SyncControl ==
  ASSUME IInv, NEW p \in Peer, NEW msg \in Inbox(p, "SYNC_STATE"),
         ReceiveSyncState(p, msg)
  PROVE  ControlStep
<1> DEFINE b == Buffered(buf[p], msg)
           moves == Assembled(b, msg.ply)
<1>1. UNCHANGED <<session, drawBy, restarts>>
  BY DEF ReceiveSyncState
<1>2. msg.ply \in Nat /\ Len(log[p]) \in Nat
  BY DEF Inbox, IInv, TypeOK, IsMessage
<1>3. (Complete(b, msg.ply) /\ ~ msg.ply <= Len(log[p]))
         => Adoptable(log[p], moves, msg.hash)
  BY <1>2, SyncArrives
<1>4. \/ UNCHANGED <<status, result>>
      \/ CheckFinished(p, log[p]) \/ CheckFinished(p, moves)
  <2> HIDE DEF b, moves
  <2> QED BY <1>3 DEF ReceiveSyncState, b, moves
<1>5. Finish(p, "rules") \/ UNCHANGED <<status, result>>
  BY <1>4 DEF CheckFinished
<1> QED BY <1>1, <1>5, FinishControl DEF ResultSet

LEMMA ReceiveControl ==
  ASSUME IInv, NEW p \in Peer, ReceiveLog(p) \/ ReceiveStep(p)
  PROVE  ControlStep
<1>1. CASE ReceiveInvite(p) \/ ReceiveAccept(p)
  BY <1>1, ControlNow DEF ReceiveInvite, ReceiveAccept, ControlStep, ControlOK,
                          Waiting, StatusSet
<1>2. CASE ReceiveDecline(p)
  BY <1>2, FinishControl DEF ReceiveDecline, ResultSet
<1>3. CASE ReceiveResign(p)
  BY <1>3, FinishControl DEF ReceiveResign, ResignedBy, ResultSet
<1>4. CASE ReceiveDrawAccept(p)
  BY <1>4, FinishControl DEF ReceiveDrawAccept, ResultSet
<1>5. CASE ReceiveDrawOffer(p)
  BY <1>5, ControlNow, PeerFacts DEF ReceiveDrawOffer, ControlStep, ControlOK,
                                     Waiting
<1>6. CASE ReceiveDupInvite(p) \/ ReceiveSyncRequest(p)
  BY <1>6, ControlNow DEF ReceiveDupInvite, ReceiveSyncRequest, ControlStep,
                          ControlOK, Waiting
<1>7. CASE \E msg \in Inbox(p, "MOVE") : ReceiveMove(p, msg)
  BY <1>7, FinishControl DEF ReceiveMove, CheckFinished, ResultSet
<1>8. CASE \E msg \in Inbox(p, "SYNC_STATE") : ReceiveSyncState(p, msg)
  BY <1>8, SyncControl
<1> QED BY <1>1, <1>2, <1>3, <1>4, <1>5, <1>6, <1>7, <1>8
        DEF ReceiveLog, ReceiveStep

LEMMA CrashStepControl ==
  ASSUME IInv, NEW p \in Peer, CrashStep(p)
  PROVE  ControlStep
<1>1. Crash(p) /\ session' \in [Peer -> BOOLEAN]
  BY ControlNow DEF CrashStep, Restart, CrashInSubmit, CrashInReceiveMove,
                    CrashInAccept, CrashInSyncState, ControlOK
<1> QED BY <1>1, CrashControl

LEMMA EveryStepControl ==
  ASSUME IInv, [Next]_vars
  PROVE  ControlStep
<1>1. CASE UNCHANGED vars
  BY <1>1, ControlNow DEF vars, ControlStep, ControlOK, Waiting
<1>2. CASE \E msg \in net : Lose(msg)
  BY <1>2, ControlNow DEF Lose, ControlStep, ControlOK, Waiting
<1> QED BY <1>1, <1>2, UserControl, ReceiveControl, CrashStepControl DEF Next

-----------------------------------------------------------------------------
(* A waiting peer has an empty log, has asked for nothing and is sent none. *)

LEMMA QuietStep ==
  ASSUME IInv, LogStep, Speech, ControlStep
  PROVE  QuietUntilAccepted'
<1> SUFFICES ASSUME NEW p \in Peer, Waiting(p)'
             PROVE  /\ log'[p] = <<>>
                    /\ \A m \in net' : /\ m.type = "SYNC_REQUEST" => m.to = p
                                       /\ m.type = "SYNC_STATE" => m.to # p
  BY DEF QuietUntilAccepted
<1>1. /\ Waiting(p) /\ log[p] = <<>>
      /\ \A m \in net : /\ m.type = "SYNC_REQUEST" => m.to = p
                        /\ m.type = "SYNC_STATE" => m.to # p
  BY DEF ControlStep, IInv, QuietUntilAccepted
<1>2. p \in Peer /\ log \in [Peer -> Seq(Move)]
  BY DEF IInv, TypeOK
<1>3. log'[p] = <<>>
  <2>1. CASE log' = log
    BY <1>1, <2>1
  <2>2. ASSUME NEW r \in Peer, NEW m \in Move, PlayStep(r, m)
        PROVE  log'[p] = log[p]
    BY <1>1, <1>2, <2>2 DEF PlayStep, MayPlay, our_turn, Waiting
  <2>3. ASSUME NEW r \in Peer, LearnStep(r)
        PROVE  log'[p] = log[p]
    BY <1>1, <1>2, <2>3 DEF LearnStep
  <2> QED BY <1>1, <2>1, <2>2, <2>3 DEF LogStep
<1>4. ASSUME NEW r \in Peer, NEW m, Fresh(r, m)
      PROVE  /\ m.type = "SYNC_REQUEST" => m.to = p
             /\ m.type = "SYNC_STATE" => m.to # p
  <2>1. ASSUME NEW t \in PlainTypes, m = Plain(t, r),
               t = "SYNC_REQUEST" => ~ Waiting(r)
        PROVE  /\ m.type = "SYNC_REQUEST" => m.to = p
               /\ m.type = "SYNC_STATE" => m.to # p
    <3>1. m.type = t /\ m.to = Other(r) /\ t # "SYNC_STATE"
      BY <2>1 DEF Plain, PlainTypes
    <3>2. CASE r = p
      <4>1. t # "SYNC_REQUEST"
        BY <1>1, <2>1, <3>2 DEF Waiting
      <4> QED BY <3>1, <4>1
    <3>3. CASE r # p
      BY <3>1, <3>3, PeerFacts
    <3> QED BY <3>2, <3>3
  <2>2. CASE FreshMove(r, m)
    BY <2>2, FreshMoveSound, IInvLogs
  <2>3. CASE m \in SyncState(r) /\ log' = log /\ Inbox(r, "SYNC_REQUEST") # {}
    <3>1. m.type = "SYNC_STATE" /\ m.to = Other(r)
      BY <2>3, SyncPartSound, IInvLogs
    <3>2. r = p
      BY <1>1, <2>3 DEF Inbox
    <3> QED BY <3>1, <3>2, PeerFacts
  <2> QED BY <1>4, <2>1, <2>2, <2>3 DEF Fresh
<1>5. \A r \in Peer : \A m \in lastOut[r] : m.type = "MOVE"
  BY DEF IInv, TypeOK
<1> QED BY <1>1, <1>3, <1>4, <1>5 DEF Speech

-----------------------------------------------------------------------------
(* IInv is inductive                                                       *)

LEMMA InitIInv ==
  ASSUME Init
  PROVE  IInv
<1>1. log \in [Peer -> Seq(Move)] /\ \A p \in Peer : log[p] = <<>> /\ Len(log[p]) = 0
  <2>1. <<>> \in Seq(Move) /\ Len(<<>>) = 0
    OBVIOUS
  <2>2. log = [p \in Peer |-> <<>>]
    BY DEF Init
  <2>3. \A p \in Peer : log[p] = <<>>
    BY <2>2
  <2>4. log \in [Peer -> Seq(Move)]
    BY <2>1, <2>2, Zenon
  <2> QED BY <2>1, <2>3, <2>4
<1>2. TypeOK
  <2>1. status \in [Peer -> StatusSet] /\ result \in [Peer -> ResultSet]
    BY DEF Init, StatusSet, ResultSet
  <2>2. session \in [Peer -> BOOLEAN] /\ drawBy \in [Peer -> Seat \cup {"none"}]
    BY DEF Init
  <2>3. /\ DOMAIN lastOut = Peer /\ DOMAIN buf = Peer
        /\ \A p \in Peer : lastOut[p] = {} /\ buf[p] = {}
        /\ net = {} /\ restarts \in Nat
    BY DEF Init
  <2> QED BY <1>1, <2>1, <2>2, <2>3 DEF TypeOK
<1>3. LogInv
  <2>1. \A p \in Peer : Len(log[Other(p)]) = 0 /\ 1..Len(log[p]) = {}
    BY <1>1, PeerFacts
  <2> QED BY <1>1, <2>1 DEF LogInv, Aligned, LeadAtMostOne, Replays
<1>4. MessagesTruthful /\ NoFalseAccusation /\ QuietUntilAccepted
  BY <1>1 DEF Init, MessagesTruthful, NoFalseAccusation, QuietUntilAccepted
<1> QED BY <1>2, <1>3, <1>4 DEF IInv, LogInv, Aligned

LEMMA NextIInv ==
  ASSUME IInv, [Next]_vars
  PROVE  IInv'
<1>1. LogStep /\ Speech /\ ControlStep
  BY EveryStepIsALogStep, EveryStepSpeech, EveryStepControl
<1>2. LogInv'
  BY <1>1, IInvLogs, LogStepLogs
<1>3. /\ \A m \in net' : Sound(m)'
      /\ \A p \in Peer : \A m \in lastOut'[p] :
           Sound(m)' /\ m.type = "MOVE" /\ m.to # p
      /\ \A p \in Peer : \A m \in buf'[p] :
           Sound(m)' /\ m.type = "SYNC_STATE" /\ m.to = p
  BY <1>1, SpeechSound
<1>4. TypeOK'
  BY <1>1, <1>2, <1>3 DEF TypeOK, ControlStep, ControlOK, LogInv, Speech,
                          Sound, IsMessage
<1>5. MessagesTruthful'
  BY <1>3 DEF MessagesTruthful, Sound
<1>6. NoFalseAccusation'
  BY <1>1, <1>3 DEF NoFalseAccusation, Sound, ControlStep, ControlOK
<1>7. QuietUntilAccepted'
  BY <1>1, QuietStep
<1> QED BY <1>2, <1>4, <1>5, <1>6, <1>7 DEF IInv, LogInv, Aligned

-----------------------------------------------------------------------------
(* The theorems                                                            *)

(* The inductive invariant holds in every reachable state.                 *)
THEOREM Invariance == Spec => []IInv
<1>1. Init => IInv
  BY InitIInv
<1>2. IInv /\ [Next]_vars => IInv'
  BY NextIInv
<1> QED BY <1>1, <1>2, PTL DEF Spec

(* Type correctness.                                                       *)
THEOREM TypeCorrect == Spec => []TypeOK
<1>1. IInv => TypeOK
  BY DEF IInv
<1> QED BY <1>1, Invariance, PTL

LEMMA AlignedIsOneHistory ==
  ASSUME LogInv
  PROVE  OneHistory
<1> SUFFICES ASSUME NEW p \in Peer
             PROVE  \/ IsPrefix(log[p], log[Other(p)])
                    \/ IsPrefix(log[Other(p)], log[p])
  BY DEF OneHistory
<1> DEFINE q == Other(p)
<1>1. q \in Peer /\ Other(q) = p
      /\ log[p] \in Seq(Move) /\ log[q] \in Seq(Move)
      /\ Len(log[p]) \in Nat /\ Len(log[q]) \in Nat
  BY PeerFacts DEF LogInv
<1>2. CASE Len(log[p]) <= Len(log[q])
  <2>1. Extends(log[q], log[p])
    BY <1>1, <1>2 DEF LogInv, Aligned, Extends
  <2> QED BY <1>1, <2>1, ExtendsIsPrefix
<1>3. CASE Len(log[q]) <= Len(log[p])
  <2>1. Extends(log[p], log[q])
    BY <1>1, <1>3 DEF LogInv, Aligned, Extends
  <2> QED BY <1>1, <2>1, ExtendsIsPrefix
<1> QED BY <1>1, <1>2, <1>3

(* The two logs are always one history, whatever the game and its hash.    *)
THEOREM HistoryIsOne == Spec => []OneHistory
<1>1. IInv => OneHistory
  BY IInvLogs, AlignedIsOneHistory
<1> QED BY <1>1, Invariance, PTL

(* A peer is at most one ply ahead, with a move of its own seat.           *)
THEOREM LeadIsBounded == Spec => []LeadAtMostOne
<1>1. IInv => LeadAtMostOne
  BY DEF IInv
<1> QED BY <1>1, Invariance, PTL

(* No message is ever answered with REJECT and no session ever breaks.     *)
THEOREM NeverAccused == Spec => []NoFalseAccusation
<1>1. IInv => NoFalseAccusation
  BY DEF IInv
<1> QED BY <1>1, Invariance, PTL

(* Every message, however old, tells what its sender's log still says.     *)
THEOREM MessagesStayTrue == Spec => []MessagesTruthful
<1>1. IInv => MessagesTruthful
  BY DEF IInv
<1> QED BY <1>1, Invariance, PTL

(* No step takes a move out of a log or changes one.                       *)
THEOREM LogsOnlyGrow == Spec => LogOnlyGrows
<1>1. IInv /\ [Next]_vars => [\A p \in Peer : IsPrefix(log[p], log'[p])]_vars
  <2> SUFFICES ASSUME IInv, [Next]_vars, NEW p \in Peer
               PROVE  IsPrefix(log[p], log'[p])
    OBVIOUS
  <2>1. LogInv /\ LogInv' /\ Extends(log'[p], log[p])
    BY IInvLogs, EveryStepIsALogStep, LogStepLogs
  <2> QED BY <2>1, ExtendsIsPrefix DEF LogInv
<1> QED BY <1>1, Invariance, PTL DEF Spec, LogOnlyGrows

-----------------------------------------------------------------------------
(* The six shapes                                                          *)

SetStatus(p, st) == status' = [status EXCEPT ![p] = st]

(* The step may record that p's game ended by the rules, if it did.         *)
MayEnd(p) ==
  \/ status' = status
  \/ WinnerOf(log'[p]) # "none" /\ SetStatus(p, "finished")

Inviting(p) == log' = log /\ status[p] = "none" /\ SetStatus(p, "invited_out")
Joining(p) == log' = log /\ Waiting(p) /\ SetStatus(p, "playing")
Stopping(p) == log' = log /\ SetStatus(p, "finished")

GameStep ==
  \/ log' = log /\ status' = status
  \/ \E p \in Peer : Inviting(p) \/ Joining(p) \/ Stopping(p)
  \/ \E p \in Peer : \E m \in Move : PlayStep(p, m) /\ MayEnd(p)
  \/ \E p \in Peer : LearnStep(p) /\ MayEnd(p)

LEMMA SubmitIsGameStep ==
  ASSUME NEW p \in Peer, NEW m \in Move,
         SubmitMove(p, m) \/ CrashInSubmit(p, m)
  PROVE  GameStep
<1>1. PlayStep(p, m)
  BY DEF SubmitMove, CrashInSubmit, PlayStep, MayPlay
<1>2. MayEnd(p)
  BY DEF SubmitMove, CrashInSubmit, CheckFinished, Finish, Crash, MayEnd, SetStatus
<1> QED BY <1>1, <1>2 DEF GameStep

LEMMA MoveIsGameStep ==
  ASSUME IInv, NEW p \in Peer, NEW msg \in Inbox(p, "MOVE"),
         ReceiveMove(p, msg) \/ CrashInReceiveMove(p, msg)
  PROVE  GameStep
<1>1. ~ OutOfTurn(p, msg) /\ Playing(p)
  BY MoveArrives DEF ReceiveMove, CrashInReceiveMove
<1>2. CASE Applies(Verdict(log[p], msg))
  <2>1. /\ Verdict(log[p], msg) = "APPLIED"
        /\ Len(log[p]) < Len(log[Other(p)])
        /\ Append(log[p], msg.move) = log[Other(p)]
    BY <1>2, MoveArrives DEF Applies
  <2>2. log' = [log EXCEPT ![p] = Append(log[p], msg.move)]
    BY <1>1, <1>2 DEF ReceiveMove, CrashInReceiveMove
  <2>3. LearnStep(p)
    BY <1>1, <2>1, <2>2 DEF LearnStep, Playing, Waiting
  <2>4. MayEnd(p)
    BY <1>1, <2>1 DEF ReceiveMove, CrashInReceiveMove, CheckFinished, Finish,
                      Crash, MayEnd, SetStatus
  <2> QED BY <2>3, <2>4 DEF GameStep
<1>3. CASE ~ Applies(Verdict(log[p], msg))
  <2>1. log' = log /\ status' = status
    BY <1>1, <1>3 DEF ReceiveMove, CrashInReceiveMove, Applies
  <2> QED BY <2>1 DEF GameStep
<1> QED BY <1>2, <1>3

LEMMA SyncIsGameStep ==
  ASSUME IInv, NEW p \in Peer, NEW msg \in Inbox(p, "SYNC_STATE"),
         ReceiveSyncState(p, msg) \/ CrashInSyncState(p, msg)
  PROVE  GameStep
<1> DEFINE b == Buffered(buf[p], msg)
           moves == Assembled(b, msg.ply)
<1>1. msg.ply \in Nat /\ Len(log[p]) \in Nat /\ ~ Waiting(p)
  BY DEF Inbox, IInv, TypeOK, IsMessage, QuietUntilAccepted
<1>2. CASE Complete(b, msg.ply) /\ msg.ply > Len(log[p])
  <2>1. /\ Len(log[p]) < Len(log[Other(p)])
        /\ moves = log[Other(p)]
        /\ Adoptable(log[p], moves, msg.hash)
    BY <1>2, SyncArrives
  <2>2. log' = [log EXCEPT ![p] = moves]
    BY <1>1, <1>2, <2>1 DEF ReceiveSyncState, CrashInSyncState
  <2>3. log'[p] = moves
    BY <2>2 DEF IInv, TypeOK
  <2>4. MayEnd(p)
    BY <1>1, <1>2, <2>1, <2>3
       DEF ReceiveSyncState, CrashInSyncState, CheckFinished, Finish, Crash,
           MayEnd, SetStatus
  <2>5. LearnStep(p)
    BY <1>1, <2>1, <2>2 DEF LearnStep
  <2> QED BY <2>4, <2>5 DEF GameStep
<1>3. CASE ~ Complete(b, msg.ply)
  <2>1. log' = log /\ status' = status
    BY <1>3 DEF ReceiveSyncState, CrashInSyncState
  <2> QED BY <2>1 DEF GameStep
<1>4. CASE Complete(b, msg.ply) /\ ~ (msg.ply > Len(log[p]))
  <2>1. log' = log /\ CheckFinished(p, log[p])
    BY <1>1, <1>4 DEF ReceiveSyncState, CrashInSyncState
  <2>2. (log' = log /\ status' = status) \/ Stopping(p)
    BY <2>1 DEF CheckFinished, Finish, Stopping, SetStatus
  <2> QED BY <2>2 DEF GameStep
<1> QED BY <1>2, <1>3, <1>4

LEMMA EveryStepIsAGameStep ==
  ASSUME IInv, [Next]_vars
  PROVE  GameStep
<1>1. CASE UNCHANGED vars
  BY <1>1 DEF vars, GameStep
<1>2. ASSUME NEW p \in Peer, UserStep(p)
      PROVE  GameStep
  <2>1. CASE Invite(p)
    BY <2>1 DEF Invite, GameStep, Inviting, SetStatus
  <2>2. CASE \E m \in Move : SubmitMove(p, m)
    BY <2>2, SubmitIsGameStep
  <2>3. CASE Resign(p) \/ AcceptDraw(p)
    BY <2>3 DEF Resign, AcceptDraw, Finish, GameStep, Stopping, SetStatus
  <2>4. CASE OfferDraw(p) \/ Nudge(p)
    BY <2>4 DEF OfferDraw, Nudge, GameStep
  <2> QED BY <1>2, <2>1, <2>2, <2>3, <2>4 DEF UserStep
<1>3. ASSUME NEW p \in Peer, ReceiveLog(p)
      PROVE  GameStep
  <2>1. CASE ReceiveInvite(p)
    BY <2>1 DEF ReceiveInvite, GameStep, Joining, Waiting, SetStatus
  <2>2. CASE ReceiveAccept(p)
    <3>1. Waiting(p)
      BY <2>2 DEF ReceiveAccept, Waiting
    <3>2. log' = log
      BY <2>2, <3>1, ResetIsNothing DEF ReceiveAccept
    <3>3. Joining(p)
      BY <2>2, <3>1, <3>2 DEF ReceiveAccept, Joining, SetStatus
    <3> QED BY <3>3 DEF GameStep
  <2>3. CASE \E msg \in Inbox(p, "SYNC_STATE") : ReceiveSyncState(p, msg)
    BY <2>3, SyncIsGameStep
  <2> QED BY <1>3, <2>1, <2>2, <2>3 DEF ReceiveLog
<1>4. ASSUME NEW p \in Peer, ReceiveStep(p)
      PROVE  GameStep
  <2>1. CASE \E msg \in Inbox(p, "MOVE") : ReceiveMove(p, msg)
    BY <2>1, MoveIsGameStep
  <2>2. CASE ReceiveDupInvite(p) \/ ReceiveDrawOffer(p) \/ ReceiveSyncRequest(p)
    BY <2>2 DEF ReceiveDupInvite, ReceiveDrawOffer, ReceiveSyncRequest, GameStep
  <2>3. CASE ReceiveDecline(p) \/ ReceiveResign(p) \/ ReceiveDrawAccept(p)
    BY <2>3 DEF ReceiveDecline, ReceiveResign, ReceiveDrawAccept, Finish,
                GameStep, Stopping, SetStatus
  <2> QED BY <1>4, <2>1, <2>2, <2>3 DEF ReceiveStep
<1>5. ASSUME NEW p \in Peer, CrashStep(p)
      PROVE  GameStep
  <2>1. CASE Restart(p)
    BY <2>1 DEF Restart, Crash, GameStep
  <2>2. CASE \E m \in Move : CrashInSubmit(p, m)
    BY <2>2, SubmitIsGameStep
  <2>3. CASE \E msg \in Inbox(p, "MOVE") : CrashInReceiveMove(p, msg)
    BY <2>3, MoveIsGameStep
  <2>4. CASE CrashInAccept(p)
    BY <2>4, ResetIsNothing DEF CrashInAccept, Crash, Waiting, GameStep
  <2>5. CASE \E msg \in Inbox(p, "SYNC_STATE") : CrashInSyncState(p, msg)
    BY <2>5, SyncIsGameStep
  <2> QED BY <1>5, <2>1, <2>2, <2>3, <2>4, <2>5 DEF CrashStep
<1>6. CASE \E msg \in net : Lose(msg)
  BY <1>6 DEF Lose, GameStep
<1> QED BY <1>1, <1>2, <1>3, <1>4, <1>5, <1>6 DEF Next

-----------------------------------------------------------------------------
(* The refinement mapping                                                  *)

Seen == [s \in Seat |-> Len(log[PeerAt(s)])]
Phase == [s \in Seat |-> PhaseOf(status[PeerAt(s)])]

LEMMA SeatsArePeers ==
  /\ \A p \in Peer : SeatOf(p) \in Seat /\ PeerAt(SeatOf(p)) = p
  /\ \A s \in Seat : PeerAt(s) \in Peer /\ SeatOf(PeerAt(s)) = s
<1>1. \A p, r \in Peer : SeatOf(p) = SeatOf(r) => p = r
  BY PeerFacts
<1>2. \A s \in Seat : \E p \in Peer : SeatOf(p) = s
  BY GamePeerAssumption DEF Seat, Peer, SeatOf, other_seat
<1>3. \A p \in Peer : SeatOf(p) \in Seat
  BY PeerFacts
<1>4. \A s \in Seat : PeerAt(s) \in Peer /\ SeatOf(PeerAt(s)) = s
  BY <1>2 DEF PeerAt
<1> QED BY <1>1, <1>3, <1>4

LEMMA SeenChange ==
  ASSUME log \in [Peer -> Seq(Move)], NEW p \in Peer, NEW g,
         log' = [log EXCEPT ![p] = g]
  PROVE  Seen' = [Seen EXCEPT ![SeatOf(p)] = Len(g)]
<1>1. \A s \in Seat : PeerAt(s) \in Peer /\ (s = SeatOf(p) <=> PeerAt(s) = p)
  BY SeatsArePeers
<1>2. \A s \in Seat : log'[PeerAt(s)] = IF s = SeatOf(p) THEN g ELSE log[PeerAt(s)]
  BY <1>1
<1>3. \A s \in Seat :
        Len(log'[PeerAt(s)]) =
          IF s = SeatOf(p) THEN Len(g) ELSE Len(log[PeerAt(s)])
  BY <1>2
<1>4. Seen' = [s \in Seat |-> Len(log'[PeerAt(s)])]
  BY DEF Seen
<1>5. SeatOf(p) \in Seat
  BY SeatsArePeers
<1> QED BY <1>3, <1>4, <1>5, Zenon DEF Seen

LEMMA PhaseChange ==
  ASSUME status \in [Peer -> StatusSet], NEW p \in Peer, NEW st,
         SetStatus(p, st)
  PROVE  Phase' = [Phase EXCEPT ![SeatOf(p)] = PhaseOf(st)]
<1>1. \A s \in Seat : PeerAt(s) \in Peer /\ (s = SeatOf(p) <=> PeerAt(s) = p)
  BY SeatsArePeers
<1>2. \A s \in Seat :
        status'[PeerAt(s)] = IF s = SeatOf(p) THEN st ELSE status[PeerAt(s)]
  BY <1>1 DEF SetStatus
<1>3. \A s \in Seat :
        PhaseOf(status'[PeerAt(s)]) =
          IF s = SeatOf(p) THEN PhaseOf(st) ELSE PhaseOf(status[PeerAt(s)])
  BY <1>2
<1> QED BY <1>3 DEF Phase

LEMMA OwnEntries ==
  ASSUME NEW p \in Peer
  PROVE  Seen[SeatOf(p)] = Len(log[p]) /\ Phase[SeatOf(p)] = PhaseOf(status[p])
BY SeatsArePeers DEF Seen, Phase

(* A peer that is not behind holds the history.                            *)
LEMMA AheadHoldsHistory ==
  ASSUME LogInv, NEW p \in Peer, Len(log[Other(p)]) <= Len(log[p])
  PROVE  Longest = log[p]
<1> DEFINE q == Other(p)
<1>1. q \in Peer /\ Other(q) = p /\ log[p] \in Seq(Move) /\ log[q] \in Seq(Move)
      /\ Len(log[p]) \in Nat /\ Len(log[q]) \in Nat
  BY PeerFacts DEF LogInv
<1>2. CASE Len(log[q]) = Len(log[p])
  <2>1. \A i \in 1..Len(log[p]) : log[p][i] = log[q][i]
    BY <1>1, <1>2 DEF LogInv, Aligned
  <2>2. log[p] = log[q]
    BY <1>1, <1>2, <2>1, SameElements
  <2> QED BY <2>2 DEF Longest, Peer, Other
<1>3. CASE Len(log[q]) < Len(log[p])
  BY <1>1, <1>3 DEF Longest, Peer, Other
<1> QED BY <1>1, <1>2, <1>3

-----------------------------------------------------------------------------
(* Each shape is a step of the game, or a stutter                           *)

GameStutter == UNCHANGED <<Longest, Seen, Phase>>

LEMMA MayEndPhase ==
  ASSUME status \in [Peer -> StatusSet], NEW p \in Peer, MayEnd(p)
  PROVE  \/ Phase' = Phase
         \/ /\ WinnerOf(log'[p]) # "none"
            /\ Phase' = [Phase EXCEPT ![SeatOf(p)] = "done"]
<1>1. CASE status' = status
  BY <1>1 DEF Phase
<1>2. CASE WinnerOf(log'[p]) # "none" /\ SetStatus(p, "finished")
  BY <1>2, PhaseChange DEF PhaseOf
<1> QED BY <1>1, <1>2 DEF MayEnd

LEMMA PlayRefines ==
  ASSUME LogInv, status \in [Peer -> StatusSet],
         NEW p \in Peer, NEW m \in Move, PlayStep(p, m), MayEnd(p)
  PROVE  Game!Play(SeatOf(p), m)
<1> DEFINE s == SeatOf(p)
           h == log[p]
           g == Append(h, m)
<1>1. s \in Seat /\ h \in Seq(Move) /\ Len(h) \in Nat /\ Other(p) \in Peer
      /\ Other(p) # p
  BY PeerFacts DEF LogInv
<1>2. our_turn(p) /\ WinnerOf(h) = "none" /\ Legal(h, m)
  BY DEF PlayStep, MayPlay
<1>3. Len(log[Other(p)]) <= Len(h)
  BY <1>2, PlayerKnowsAll
<1>4. Longest = h
  BY <1>3, AheadHoldsHistory
<1>5. log' = [log EXCEPT ![p] = g] /\ log'[p] = g /\ log'[Other(p)] = log[Other(p)]
  BY <1>1 DEF PlayStep, LogInv
<1>6. Longest' = g
  <2>1. Len(g) = Len(h) + 1 /\ Len(log'[Other(p)]) \in Nat
    BY <1>1, <1>5 DEF LogInv
  <2>2. Len(log'[Other(p)]) < Len(log'[p])
    BY <1>1, <1>3, <1>5, <2>1
  <2>3. Longest' = log'[p]
    BY <2>1, <2>2, <1>1, <1>5 DEF Longest, Peer, Other
  <2> QED BY <1>5, <2>3
<1>7. Seen[s] = Len(h) /\ Phase[s] = "active"
  BY <1>2, OwnEntries DEF our_turn, PhaseOf
<1>8. Seen' = [Seen EXCEPT ![s] = Len(g)]
  BY <1>5, SeenChange DEF LogInv
<1>9. (Len(h) % 2 = 0) <=> (s = "first")
  BY <1>1, <1>2 DEF our_turn, SeatAt, Seat
<1>10. \/ Phase' = Phase
       \/ /\ WinnerOf(g) # "none"
          /\ Phase' = [Phase EXCEPT ![s] = "done"]
  BY <1>5, MayEndPhase
<1> QED BY <1>2, <1>4, <1>6, <1>7, <1>8, <1>9, <1>10
        DEF Game!Play, Game!ToMove, Game!Over, Seen, Phase

LEMMA LearnRefines ==
  ASSUME LogInv, status \in [Peer -> StatusSet],
         NEW p \in Peer, LearnStep(p), MayEnd(p)
  PROVE  Game!Learn(SeatOf(p))
<1> DEFINE s == SeatOf(p)
           q == Other(p)
<1>1. /\ s \in Seat /\ q \in Peer /\ q # p /\ Other(q) = p
      /\ Len(log[p]) \in Nat /\ Len(log[q]) \in Nat
  BY PeerFacts DEF LogInv
<1>2. Longest = log[q]
  BY <1>1, AheadHoldsHistory DEF LearnStep
<1>3. log' = [log EXCEPT ![p] = log[q]] /\ log'[p] = log[q] /\ log'[q] = log[q]
  BY <1>1 DEF LearnStep, LogInv
<1>4. Longest' = log[q]
  BY <1>1, <1>3 DEF Longest, Peer, Other
<1>5. Seen[s] < Len(Longest)
  BY <1>2, OwnEntries DEF LearnStep
<1>6. Seen' = [Seen EXCEPT ![s] = Len(Longest)]
  BY <1>2, <1>3, SeenChange DEF LogInv
<1>7. \/ Phase' = Phase
      \/ /\ WinnerOf(Longest) # "none"
         /\ Phase' = [Phase EXCEPT ![s] = "done"]
  BY <1>2, <1>3, MayEndPhase
<1> QED BY <1>2, <1>4, <1>5, <1>6, <1>7
        DEF Game!Learn, Game!Over, Seen, Phase

LEMMA StatusRefines ==
  ASSUME log' = log, status \in [Peer -> StatusSet],
         NEW p \in Peer, Inviting(p) \/ Joining(p) \/ Stopping(p)
  PROVE  \/ Game!Join(SeatOf(p)) \/ Game!Stop(SeatOf(p)) \/ GameStutter
<1> DEFINE s == SeatOf(p)
<1>1. Longest' = Longest /\ Seen' = Seen
  BY DEF Longest, Seen
<1>2. s \in Seat /\ Phase[s] = PhaseOf(status[p])
  BY OwnEntries, PeerFacts
<1>3. CASE Inviting(p)
  <2>1. Phase' = [Phase EXCEPT ![s] = "waiting"] /\ Phase[s] = "waiting"
    BY <1>2, <1>3, PhaseChange DEF Inviting, PhaseOf
  <2>2. Phase' = Phase
    BY <1>2, <2>1 DEF Phase
  <2> QED BY <1>1, <2>2 DEF GameStutter
<1>4. CASE Joining(p)
  <2>1. Phase' = [Phase EXCEPT ![s] = "active"] /\ Phase[s] = "waiting"
    BY <1>2, <1>4, PhaseChange DEF Joining, Waiting, PhaseOf
  <2> QED BY <1>1, <2>1 DEF Game!Join, Seen, Phase
<1>5. CASE Stopping(p)
  <2>1. Phase' = [Phase EXCEPT ![s] = "done"]
    BY <1>5, PhaseChange DEF Stopping, PhaseOf
  <2>2. CASE Phase[s] = "done"
    <3>1. Phase' = Phase
      BY <1>2, <2>1, <2>2 DEF Phase
    <3> QED BY <1>1, <3>1 DEF GameStutter
  <2>3. CASE Phase[s] # "done"
    BY <1>1, <2>1, <2>3 DEF Game!Stop, Seen, Phase
  <2> QED BY <2>2, <2>3
<1> QED BY <1>3, <1>4, <1>5

LEMMA GameStepRefines ==
  ASSUME LogInv, status \in [Peer -> StatusSet], GameStep
  PROVE  Game!GameNext \/ GameStutter
<1>1. CASE log' = log /\ status' = status
  BY <1>1 DEF GameStutter, Longest, Seen, Phase
<1>2. ASSUME NEW p \in Peer, Inviting(p) \/ Joining(p) \/ Stopping(p)
      PROVE  Game!GameNext \/ GameStutter
  <2>1. log' = log /\ SeatOf(p) \in Seat
    BY <1>2, PeerFacts DEF Inviting, Joining, Stopping
  <2> QED BY <1>2, <2>1, StatusRefines DEF Game!GameNext, Game!Seat, Seat
<1>3. ASSUME NEW p \in Peer, NEW m \in Move, PlayStep(p, m), MayEnd(p)
      PROVE  Game!GameNext
  BY <1>3, PlayRefines, PeerFacts DEF Game!GameNext, Game!Seat, Seat
<1>4. ASSUME NEW p \in Peer, LearnStep(p), MayEnd(p)
      PROVE  Game!GameNext
  BY <1>4, LearnRefines, PeerFacts DEF Game!GameNext, Game!Seat, Seat
<1> QED BY <1>1, <1>2, <1>3, <1>4 DEF GameStep

LEMMA InitRefines ==
  ASSUME Init
  PROVE  Game!GameInit
<1>1. \A p \in Peer : log[p] = <<>> /\ Len(log[p]) = 0 /\ PhaseOf(status[p]) = "waiting"
  BY DEF Init, PhaseOf
<1>2. Longest = <<>>
  BY <1>1 DEF Longest, Peer
<1>3. \A s \in Seat : Len(log[PeerAt(s)]) = 0 /\ PhaseOf(status[PeerAt(s)]) = "waiting"
  BY <1>1, SeatsArePeers
<1> QED BY <1>2, <1>3 DEF Game!GameInit, Game!Seat, Seat

(* GamePeer implements CorrespondenceGame: through duplication, reordering, *)
(* loss and crashes the two peers do nothing but play one game.             *)
THEOREM Refinement == Spec => PlaysOneGame
<1>1. Init => Game!GameInit
  BY InitRefines
<1>2. IInv /\ [Next]_vars => [Game!GameNext]_(Game!gameVars)
  <2> SUFFICES ASSUME IInv, [Next]_vars
               PROVE  Game!GameNext \/ GameStutter
    BY DEF GameStutter, Game!gameVars, Seen, Phase
  <2>1. LogInv /\ status \in [Peer -> StatusSet]
    BY IInvLogs DEF IInv, TypeOK
  <2> QED BY <2>1, EveryStepIsAGameStep, GameStepRefines
<1> QED BY <1>1, <1>2, Invariance, PTL DEF Spec, PlaysOneGame, Game!GameSpec

-----------------------------------------------------------------------------
(* How games end. A step leaves statuses and results alone, opens a game,   *)
(* or ends one for a Reason; draw offers are heard or made; and what was    *)
(* sent stays sent on a network that loses nothing.                         *)

Reason(p, r) ==
  \/ r = "declined"
  \/ r = ResignedBy(SeatOf(p)) /\ Plain("RESIGN", p) \in net'
  \/ r = ResignedBy(SeatOf(Other(p))) /\ Inbox(p, "RESIGN") # {}
  \/ /\ r = "draw:agreed"
     /\ drawBy[p] = SeatOf(Other(p)) /\ Plain("DRAW_ACCEPT", p) \in net'
  \/ /\ r = "draw:agreed"
     /\ drawBy[p] = SeatOf(p) /\ Inbox(p, "DRAW_ACCEPT") # {}

Opening(p) ==
  /\ Waiting(p) /\ UNCHANGED result
  /\ \E st \in {"invited_out", "playing"} : status' = [status EXCEPT ![p] = st]

EndStep ==
  \/ UNCHANGED <<status, result>>
  \/ \E p \in Peer : Opening(p)
  \/ \E p \in Peer : WinnerOf(log'[p]) # "none" /\ Finish(p, "rules")
  \/ \E p \in Peer, r \in ResultSet :
       /\ status[p] # "finished" /\ r # "rules"
       /\ Reason(p, r) /\ Finish(p, r)

OfferStep ==
  \/ UNCHANGED drawBy
  \/ \E p \in Peer : /\ drawBy' = [drawBy EXCEPT ![p] = SeatOf(p)]
                     /\ Plain("DRAW_OFFER", p) \in net'
  \/ \E p \in Peer : /\ drawBy' = [drawBy EXCEPT ![p] = SeatOf(Other(p))]
                     /\ Inbox(p, "DRAW_OFFER") # {}

(* A move played is the one remembered, unless the peer crashed.            *)
RememberStep ==
  \/ restarts' = restarts + 1
  \/ \E p \in Peer, m \in Move :
       /\ PlayStep(p, m) /\ restarts' = restarts
       /\ lastOut' = [lastOut EXCEPT ![p] = {MoveMsg(p, log[p], m)}]
  \/ /\ UNCHANGED <<lastOut, restarts>>
     /\ log' = log \/ \E p \in Peer : LearnStep(p)

NetKept == Lossy \/ net \subseteq net'

Account == EndStep /\ OfferStep /\ RememberStep /\ NetKept

LEMMA UserAccount ==
  ASSUME IInv, NEW p \in Peer, UserStep(p)
  PROVE  Account
<1> USE DEF Account, RememberStep, NetKept, Send
<1>1. CASE Invite(p)
  BY <1>1 DEF Invite, EndStep, Opening, Waiting, OfferStep
<1>2. CASE \E m \in Move : SubmitMove(p, m)
  <2>1. PICK m \in Move : SubmitMove(p, m)
    BY <1>2
  <2>2. EndStep
    BY <2>1 DEF SubmitMove, CheckFinished, EndStep
  <2>3. RememberStep
    BY <2>1 DEF SubmitMove, PlayStep
  <2> QED BY <2>1, <2>2, <2>3 DEF SubmitMove, OfferStep
<1>3. CASE Resign(p)
  <2>1. Reason(p, ResignedBy(SeatOf(p))) /\ ResignedBy(SeatOf(p)) \in ResultSet
        /\ ResignedBy(SeatOf(p)) # "rules"
    BY <1>3 DEF Resign, Reason, ResignedBy, ResultSet
  <2>2. EndStep
    BY <1>3, <2>1 DEF Resign, Playing, EndStep
  <2> QED BY <1>3, <2>2 DEF Resign, OfferStep
<1>4. CASE OfferDraw(p)
  BY <1>4 DEF OfferDraw, EndStep, OfferStep
<1>5. CASE AcceptDraw(p)
  <2>1. Reason(p, "draw:agreed") /\ "draw:agreed" \in ResultSet
    BY <1>5 DEF AcceptDraw, Reason, ResultSet
  <2>2. EndStep
    BY <1>5, <2>1 DEF AcceptDraw, Playing, EndStep
  <2> QED BY <1>5, <2>2 DEF AcceptDraw, OfferStep
<1>6. CASE Nudge(p)
  BY <1>6 DEF Nudge, EndStep, OfferStep
<1> QED BY <1>1, <1>2, <1>3, <1>4, <1>5, <1>6 DEF UserStep

LEMMA LearnedFromMove ==
  ASSUME IInv, NEW p \in Peer, NEW msg \in Inbox(p, "MOVE"), Playing(p),
         Applies(Verdict(log[p], msg)),
         log' = [log EXCEPT ![p] = Append(@, msg.move)]
  PROVE  LearnStep(p)
<1>1. Verdict(log[p], msg) = "APPLIED"
  BY MoveArrives DEF Applies
<1> QED BY <1>1, MoveArrives DEF LearnStep, Playing, Waiting

LEMMA MoveAccount ==
  ASSUME IInv, NEW p \in Peer, NEW msg \in Inbox(p, "MOVE"),
         ReceiveMove(p, msg)
  PROVE  Account
<1>1. ~ OutOfTurn(p, msg) /\ Playing(p)
  BY MoveArrives DEF ReceiveMove
<1>2. log' = log \/ LearnStep(p)
  BY <1>1, LearnedFromMove DEF ReceiveMove
<1>3. UNCHANGED <<lastOut, restarts, drawBy>> /\ net \subseteq net'
  BY DEF ReceiveMove, Send
<1>4. EndStep
  BY DEF ReceiveMove, CheckFinished, EndStep
<1> QED BY <1>2, <1>3, <1>4 DEF Account, OfferStep, RememberStep, NetKept

LEMMA SyncAccount ==
  ASSUME IInv, NEW p \in Peer, NEW msg \in Inbox(p, "SYNC_STATE"),
         ReceiveSyncState(p, msg)
  PROVE  Account
<1> DEFINE b == Buffered(buf[p], msg)
           moves == Assembled(b, msg.ply)
<1>1. msg.ply \in Nat /\ Len(log[p]) \in Nat /\ ~ Waiting(p)
  BY DEF Inbox, IInv, TypeOK, IsMessage, QuietUntilAccepted
<1>2. UNCHANGED <<lastOut, restarts, drawBy, net>>
  BY DEF ReceiveSyncState
<1>3. CASE Complete(b, msg.ply) /\ msg.ply > Len(log[p])
  <2>1. /\ Len(log[p]) < Len(log[Other(p)])
        /\ moves = log[Other(p)]
        /\ Adoptable(log[p], moves, msg.hash)
    BY <1>3, SyncArrives
  <2>2. log' = [log EXCEPT ![p] = moves] /\ CheckFinished(p, moves)
    BY <1>1, <1>3, <2>1 DEF ReceiveSyncState
  <2>3. log'[p] = moves
    BY <2>2 DEF IInv, TypeOK
  <2>4. LearnStep(p)
    BY <1>1, <2>1, <2>2 DEF LearnStep
  <2>5. EndStep
    BY <2>2, <2>3 DEF CheckFinished, EndStep
  <2> QED BY <1>2, <2>4, <2>5 DEF Account, OfferStep, RememberStep, NetKept
<1>4. CASE ~ Complete(b, msg.ply) \/ ~ (msg.ply > Len(log[p]))
  <2>1. /\ log' = log
        /\ UNCHANGED <<status, result>> \/ CheckFinished(p, log'[p])
    BY <1>1, <1>4 DEF ReceiveSyncState
  <2>2. EndStep
    BY <2>1 DEF CheckFinished, EndStep
  <2> QED BY <1>2, <2>1, <2>2 DEF Account, OfferStep, RememberStep, NetKept
<1> QED BY <1>3, <1>4

LEMMA ReceiveAccount ==
  ASSUME IInv, NEW p \in Peer, ReceiveLog(p) \/ ReceiveStep(p)
  PROVE  Account
<1> USE DEF Account, RememberStep, NetKept, Send
<1>1. CASE ReceiveInvite(p)
  BY <1>1 DEF ReceiveInvite, EndStep, Opening, Waiting, OfferStep
<1>2. CASE ReceiveAccept(p)
  <2>1. log' = log /\ Waiting(p)
    BY <1>2, ResetIsNothing DEF ReceiveAccept, Waiting
  <2> QED BY <1>2, <2>1 DEF ReceiveAccept, EndStep, Opening, OfferStep
<1>3. CASE ReceiveDecline(p)
  BY <1>3 DEF ReceiveDecline, EndStep, Reason, ResultSet, OfferStep
<1>4. CASE ReceiveResign(p)
  <2>1. /\ Reason(p, ResignedBy(SeatOf(Other(p))))
        /\ ResignedBy(SeatOf(Other(p))) \in ResultSet \ {"rules"}
    BY <1>4 DEF ReceiveResign, Reason, ResignedBy, ResultSet
  <2>2. EndStep
    BY <1>4, <2>1 DEF ReceiveResign, EndStep
  <2> QED BY <1>4, <2>2 DEF ReceiveResign, OfferStep
<1>5. CASE ReceiveDrawAccept(p)
  <2>1. Reason(p, "draw:agreed") /\ "draw:agreed" \in ResultSet
    BY <1>5 DEF ReceiveDrawAccept, Reason, ResultSet
  <2>2. EndStep
    BY <1>5, <2>1 DEF ReceiveDrawAccept, EndStep
  <2> QED BY <1>5, <2>2 DEF ReceiveDrawAccept, OfferStep
<1>6. CASE ReceiveDrawOffer(p)
  BY <1>6 DEF ReceiveDrawOffer, EndStep, OfferStep
<1>7. CASE ReceiveDupInvite(p) \/ ReceiveSyncRequest(p)
  BY <1>7 DEF ReceiveDupInvite, ReceiveSyncRequest, EndStep, OfferStep
<1>8. CASE \E msg \in Inbox(p, "MOVE") : ReceiveMove(p, msg)
  BY <1>8, MoveAccount
<1>9. CASE \E msg \in Inbox(p, "SYNC_STATE") : ReceiveSyncState(p, msg)
  BY <1>9, SyncAccount
<1> QED BY <1>1, <1>2, <1>3, <1>4, <1>5, <1>6, <1>7, <1>8, <1>9
        DEF ReceiveLog, ReceiveStep

LEMMA CrashAccount ==
  ASSUME IInv, NEW p \in Peer, CrashStep(p)
  PROVE  Account
<1>1. Crash(p)
  BY DEF CrashStep, Restart, CrashInSubmit, CrashInReceiveMove, CrashInAccept,
         CrashInSyncState
<1>2. net \subseteq net'
  BY DEF CrashStep, Restart, CrashInSubmit, CrashInReceiveMove, CrashInAccept,
         CrashInSyncState, Send
<1> QED BY <1>1, <1>2 DEF Crash, Account, EndStep, OfferStep, RememberStep, NetKept

LEMMA EveryStepAccount ==
  ASSUME IInv, [Next]_vars
  PROVE  Account
<1>1. CASE UNCHANGED vars
  BY <1>1 DEF vars, Account, EndStep, OfferStep, RememberStep, NetKept
<1>2. CASE \E msg \in net : Lose(msg)
  BY <1>2 DEF Lose, Account, EndStep, OfferStep, RememberStep, NetKept
<1> QED BY <1>1, <1>2, UserAccount, ReceiveAccount, CrashAccount DEF Next

-----------------------------------------------------------------------------
(* EndInv is inductive                                                     *)

LEMMA NoneWonBeforeStep ==
  ASSUME LogInv, LogStep, NoneWonBefore
  PROVE  NoneWonBefore'
<1> SUFFICES ASSUME NEW p \in Peer, NEW n \in 0..Len(log'[p]), n < Len(log'[p])
             PROVE  WinnerOf(SubSeq(log'[p], 1, n)) = "none"
  BY DEF NoneWonBefore
<1>1. \A q \in Peer : log[q] \in Seq(Move) /\ Len(log[q]) \in Nat
  BY DEF LogInv
<1>2. CASE log' = log
  BY <1>2 DEF NoneWonBefore
<1>3. ASSUME NEW q \in Peer, NEW m \in Move, PlayStep(q, m)
      PROVE  WinnerOf(SubSeq(log'[p], 1, n)) = "none"
  <2>1. CASE p # q
    <3>1. log'[p] = log[p]
      BY <1>3, <2>1 DEF PlayStep
    <3> QED BY <3>1 DEF NoneWonBefore
  <2>2. CASE p = q
    <3> DEFINE h == log[p]
               g == Append(h, m)
    <3>1. log'[p] = g
      BY <1>3, <2>2 DEF PlayStep, LogInv
    <3>2. /\ g \in Seq(Move) /\ Len(g) = Len(h) + 1 /\ Extends(g, h)
          /\ h \in Seq(Move) /\ Len(h) \in Nat
      BY <1>1, AppendExtends
    <3>3. n \in 0..Len(h)
      BY <3>1, <3>2
    <3>4. SubSeq(g, 1, n) = SubSeq(h, 1, n)
      BY <3>2, <3>3, ExtendsPrefix
    <3>5. CASE n = Len(h)
      <4>1. SubSeq(h, 1, n) = h
        BY <3>2, <3>5
      <4> QED BY <1>3, <2>2, <3>1, <3>4, <4>1 DEF PlayStep, MayPlay
    <3>6. CASE n < Len(h)
      <4>1. WinnerOf(SubSeq(h, 1, n)) = "none"
        BY <3>3, <3>6 DEF NoneWonBefore
      <4> QED BY <3>1, <3>4, <4>1
    <3> HIDE DEF h, g
    <3> QED BY <3>2, <3>3, <3>5, <3>6
  <2> QED BY <2>1, <2>2
<1>4. ASSUME NEW q \in Peer, LearnStep(q)
      PROVE  WinnerOf(SubSeq(log'[p], 1, n)) = "none"
  <2>1. log'[p] = log[p] \/ log'[p] = log[Other(q)]
    BY <1>4 DEF LearnStep, LogInv
  <2> QED BY <2>1, PeerFacts DEF NoneWonBefore
<1> QED BY <1>2, <1>3, <1>4 DEF LogStep

(* A log that has a winner is the whole history.                            *)
LEMMA WonIsComplete ==
  ASSUME LogInv, NoneWonBefore, NEW p \in Peer, WinnerOf(log[p]) # "none"
  PROVE  Len(log[Other(p)]) <= Len(log[p])
<1> SUFFICES ASSUME Len(log[p]) < Len(log[Other(p)])
             PROVE  FALSE
  BY LeadBound
<1>1. /\ Len(log[p]) \in Nat /\ Len(log[Other(p)]) \in Nat /\ Other(p) \in Peer
      /\ log[p] \in Seq(Move)
  BY LeadBound, PeerFacts DEF LogInv
<1> DEFINE n == Len(log[p])
<1>2. n \in 0..Len(log[Other(p)])
  BY <1>1
<1>3. SubSeq(log[p], 1, n) = SubSeq(log[Other(p)], 1, n)
  BY <1>1, <1>2, Behind
<1>4. SubSeq(log[p], 1, n) = log[p]
  BY <1>1
<1>5. WinnerOf(SubSeq(log[Other(p)], 1, n)) = "none"
  BY <1>1, <1>2 DEF NoneWonBefore
<1> QED BY <1>3, <1>4, <1>5

LEMMA WonStays ==
  ASSUME LogInv, LogStep, NoneWonBefore, NEW p \in Peer,
         WinnerOf(log[p]) # "none"
  PROVE  log'[p] = log[p]
<1>1. Len(log[Other(p)]) <= Len(log[p]) /\ Len(log[p]) \in Nat
      /\ Len(log[Other(p)]) \in Nat
  BY WonIsComplete, LeadBound
<1>2. ASSUME NEW q \in Peer, NEW m \in Move, PlayStep(q, m)
      PROVE  log'[p] = log[p]
  BY <1>2 DEF PlayStep, MayPlay, LogInv
<1>3. ASSUME NEW q \in Peer, LearnStep(q)
      PROVE  log'[p] = log[p]
  <2>1. q # p
    BY <1>1, <1>3 DEF LearnStep
  <2> QED BY <1>3, <2>1 DEF LearnStep, LogInv
<1> QED BY <1>2, <1>3 DEF LogStep

LEMMA ResultTypes ==
  ASSUME IInv
  PROVE  /\ status \in [Peer -> StatusSet] /\ result \in [Peer -> ResultSet]
         /\ drawBy \in [Peer -> Seat \cup {"none"}]
         /\ \A s \in Seat : ResignedBy(s) # "rules" /\ ResignedBy(s) # ""
                            /\ ResignedBy(s) # "draw:agreed"
                            /\ ResignedBy(s) # "declined"
         /\ \A s, t \in Seat : ResignedBy(s) = ResignedBy(t) => s = t
BY DEF IInv, TypeOK, ResignedBy, Seat

LEMMA RulesHaveDecidedStep ==
  ASSUME IInv, LogStep, EndStep, NoneWonBefore, RulesHaveDecided
  PROVE  RulesHaveDecided'
<1> SUFFICES ASSUME NEW p \in Peer, result'[p] = "rules"
             PROVE  status'[p] = "finished" /\ WinnerOf(log'[p]) # "none"
  BY DEF RulesHaveDecided
<1> USE ResultTypes, IInvLogs
<1>1. ASSUME result[p] = "rules", status'[p] = status[p]
      PROVE  status'[p] = "finished" /\ WinnerOf(log'[p]) # "none"
  BY <1>1, WonStays DEF RulesHaveDecided
<1>2. CASE UNCHANGED <<status, result>>
  BY <1>1, <1>2
<1>3. ASSUME NEW q \in Peer, Opening(q)
      PROVE  status'[p] = "finished" /\ WinnerOf(log'[p]) # "none"
  <2>1. result[p] = "rules"
    BY <1>3 DEF Opening
  <2>2. q # p
    BY <1>3, <2>1 DEF RulesHaveDecided, Opening, Waiting
  <2> QED BY <1>1, <1>3, <2>1, <2>2 DEF Opening
<1>4. ASSUME NEW q \in Peer, Finish(q, "rules"), WinnerOf(log'[q]) # "none"
      PROVE  status'[p] = "finished" /\ WinnerOf(log'[p]) # "none"
  <2>1. CASE q = p
    BY <1>4, <2>1 DEF Finish
  <2>2. CASE q # p
    BY <1>1, <1>4, <2>2 DEF Finish
  <2> QED BY <2>1, <2>2
<1>5. ASSUME NEW q \in Peer, NEW r \in ResultSet, Finish(q, r), r # "rules"
      PROVE  status'[p] = "finished" /\ WinnerOf(log'[p]) # "none"
  BY <1>1, <1>5 DEF Finish
<1> QED BY <1>2, <1>3, <1>4, <1>5 DEF EndStep

(* On a network that loses nothing an inbox never empties again.            *)
LEMMA InboxKept ==
  ASSUME NetKept, ~ Lossy, NEW p \in Peer, NEW t
  PROVE  /\ Inbox(p, t) # {} => Inbox(p, t)' # {}
         /\ \A q \in Peer : Plain(t, q) \in net' => Inbox(Other(q), t)' # {}
BY DEF NetKept, Inbox, Plain

LEMMA OffersWereMadeStep ==
  ASSUME IInv, NetKept, OfferStep, OffersWereMade
  PROVE  OffersWereMade'
<1> SUFFICES ASSUME ~ Lossy, NEW p \in Peer, NEW q \in Peer,
                    drawBy'[p] = SeatOf(q)
             PROVE  Inbox(Other(q), "DRAW_OFFER")' # {}
  BY DEF OffersWereMade
<1> USE ResultTypes
<1>1. ASSUME drawBy[p] = SeatOf(q)
      PROVE  Inbox(Other(q), "DRAW_OFFER")' # {}
  BY <1>1, InboxKept, PeerFacts DEF OffersWereMade
<1>2. ASSUME NEW r \in Peer, drawBy' = [drawBy EXCEPT ![r] = SeatOf(r)],
             Plain("DRAW_OFFER", r) \in net'
      PROVE  Inbox(Other(q), "DRAW_OFFER")' # {}
  <2>1. CASE r = p
    <3>1. q = r
      BY <1>2, <2>1, PeerFacts
    <3> QED BY <1>2, <3>1, InboxKept
  <2>2. CASE r # p
    BY <1>1, <1>2, <2>2
  <2> QED BY <2>1, <2>2
<1>3. ASSUME NEW r \in Peer, drawBy' = [drawBy EXCEPT ![r] = SeatOf(Other(r))],
             Inbox(r, "DRAW_OFFER") # {}
      PROVE  Inbox(Other(q), "DRAW_OFFER")' # {}
  <2>1. CASE r = p
    <3>1. Other(q) = r
      BY <1>3, <2>1, PeerFacts
    <3> QED BY <1>3, <3>1, InboxKept
  <2>2. CASE r # p
    BY <1>1, <1>3, <2>2
  <2> QED BY <2>1, <2>2
<1> QED BY <1>1, <1>2, <1>3 DEF OfferStep

(* A result other than the rules' is recorded for its Reason.               *)
LEMMA ResultHasReason ==
  ASSUME IInv, EndStep, NEW p \in Peer
  PROVE  result'[p] = result[p] \/ result'[p] = "rules" \/ Reason(p, result'[p])
BY ResultTypes DEF EndStep, Opening, Finish

LEMMA ResignIsOwnStep ==
  ASSUME IInv, NetKept, EndStep, ResignIsOwn
  PROVE  ResignIsOwn'
<1> SUFFICES ASSUME ~ Lossy, NEW p \in Peer, NEW q \in Peer,
                    result'[p] = ResignedBy(SeatOf(q))
             PROVE  Inbox(Other(q), "RESIGN")' # {}
  BY DEF ResignIsOwn
<1> USE ResultTypes
<1>1. SeatOf(q) \in Seat /\ Other(q) \in Peer /\ SeatOf(p) \in Seat
      /\ Other(p) \in Peer /\ SeatOf(Other(p)) \in Seat
  BY PeerFacts
<1>2. CASE result[p] = result'[p]
  BY <1>1, <1>2, InboxKept DEF ResignIsOwn
<1>3. CASE Reason(p, result'[p])
  <2>1. \/ /\ ResignedBy(SeatOf(q)) = ResignedBy(SeatOf(p))
           /\ Plain("RESIGN", p) \in net'
        \/ /\ ResignedBy(SeatOf(q)) = ResignedBy(SeatOf(Other(p)))
           /\ Inbox(p, "RESIGN") # {}
    BY <1>1, <1>3 DEF Reason
  <2>2. \/ q = p /\ Plain("RESIGN", p) \in net'
        \/ Other(q) = p /\ Inbox(p, "RESIGN") # {}
    BY <1>1, <2>1, PeerFacts
  <2> QED BY <2>2, InboxKept
<1> QED BY <1>1, <1>2, <1>3, ResultHasReason

LEMMA DrawByConsentStep ==
  ASSUME IInv, NetKept, EndStep, OffersWereMade, DrawByConsent
  PROVE  DrawByConsent'
<1> SUFFICES ASSUME ~ Lossy, NEW p \in Peer, result'[p] = "draw:agreed"
             PROVE  \E q \in Peer : /\ Inbox(q, "DRAW_OFFER")' # {}
                                    /\ Inbox(Other(q), "DRAW_ACCEPT")' # {}
  BY DEF DrawByConsent
<1>1. Other(p) \in Peer /\ Other(Other(p)) = p
  BY PeerFacts
<1>2. CASE result[p] = result'[p]
  <2>1. PICK q \in Peer : /\ Inbox(q, "DRAW_OFFER") # {}
                          /\ Inbox(Other(q), "DRAW_ACCEPT") # {}
    BY <1>2 DEF DrawByConsent
  <2> QED BY <2>1, InboxKept, PeerFacts
<1>3. CASE Reason(p, result'[p])
  <2>1. \A s \in Seat : ResignedBy(s) # "draw:agreed"
    BY ResultTypes
  <2>2. \/ drawBy[p] = SeatOf(Other(p)) /\ Plain("DRAW_ACCEPT", p) \in net'
        \/ drawBy[p] = SeatOf(p) /\ Inbox(p, "DRAW_ACCEPT") # {}
    BY <1>3, <2>1, PeerFacts DEF Reason
  <2>3. CASE drawBy[p] = SeatOf(Other(p)) /\ Plain("DRAW_ACCEPT", p) \in net'
    <3>1. Inbox(p, "DRAW_OFFER")' # {}
      BY <1>1, <2>3, InboxKept DEF OffersWereMade
    <3>2. Inbox(Other(p), "DRAW_ACCEPT")' # {}
      BY <2>3, InboxKept
    <3> QED BY <3>1, <3>2
  <2>4. CASE drawBy[p] = SeatOf(p) /\ Inbox(p, "DRAW_ACCEPT") # {}
    <3>1. Inbox(Other(p), "DRAW_OFFER")' # {}
      BY <1>1, <2>4, InboxKept DEF OffersWereMade
    <3>2. Inbox(p, "DRAW_ACCEPT")' # {}
      BY <2>4, InboxKept
    <3> QED BY <1>1, <3>1, <3>2
  <2> QED BY <2>2, <2>3, <2>4
<1> QED BY <1>2, <1>3, ResultHasReason

LEMMA LeadRememberedStep ==
  ASSUME IInv, RememberStep, LeadRemembered
  PROVE  LeadRemembered'
<1> SUFFICES ASSUME NEW p \in Peer, restarts' = 0,
                    Len(log'[p]) > Len(log'[Other(p)])
             PROVE  \E m \in lastOut'[p] :
                      m.type = "MOVE" /\ m.ply = Len(log'[Other(p)])
  BY DEF LeadRemembered
<1> DEFINE q == Other(p)
<1>0. LogInv /\ DOMAIN lastOut = Peer
  BY IInvLogs DEF IInv, TypeOK
<1>1. /\ q \in Peer /\ q # p /\ Other(q) = p /\ Peer = {p, q}
      /\ Len(log[p]) \in Nat /\ Len(log[q]) \in Nat
      /\ log[p] \in Seq(Move)
      /\ Len(log[q]) <= Len(log[p]) + 1
  BY <1>0, PeerFacts, LeadBound DEF LogInv
<1>2. restarts \in Nat
  BY DEF IInv, TypeOK
<1>3. CASE UNCHANGED <<lastOut, restarts>> /\ log' = log
  BY <1>3 DEF LeadRemembered
<1>4. ASSUME NEW r \in Peer, LearnStep(r)
      PROVE  FALSE
  <2>1. log'[r] = log[Other(r)] /\ log'[Other(r)] = log[Other(r)]
    BY <1>0, <1>4, PeerFacts DEF LearnStep, LogInv
  <2>2. log'[p] = log'[q]
    BY <1>1, <2>1
  <2> QED BY <1>1, <2>1, <2>2
<1>5. ASSUME NEW r \in Peer, NEW mv \in Move, PlayStep(r, mv),
             lastOut' = [lastOut EXCEPT ![r] = {MoveMsg(r, log[r], mv)}]
      PROVE  \E m \in lastOut'[p] :
               m.type = "MOVE" /\ m.ply = Len(log'[q])
  <2>1. log'[r] = Append(log[r], mv) /\ log'[Other(r)] = log[Other(r)]
    BY <1>0, <1>5, PeerFacts DEF PlayStep, LogInv
  <2>2. Len(log[Other(r)]) <= Len(log[r]) /\ SeatAt(Len(log[r])) = SeatOf(r)
    BY <1>0, <1>5, PlayerKnowsAll DEF PlayStep, MayPlay, our_turn
  <2>3. Len(log'[r]) = Len(log[r]) + 1
    BY <1>0, <2>1, AppendExtends DEF LogInv
  <2>4. CASE r = q
    BY <1>1, <2>1, <2>2, <2>3, <2>4
  <2>5. CASE r = p
    <3>1. Len(log[p]) = Len(log[q])
      <4>1. CASE Len(log[p]) > Len(log[q])
        <5>1. Len(log[p]) = Len(log[q]) + 1 /\ SeatAt(Len(log[q])) = SeatOf(p)
          BY <1>0, <4>1 DEF LogInv, LeadAtMostOne
        <5> QED BY <1>1, <2>2, <2>5, <5>1, SeatsAlternate
      <4> QED BY <1>1, <2>2, <2>5, <4>1
    <3>2. lastOut'[p] = {MoveMsg(p, log[p], mv)}
      BY <1>0, <1>5, <2>5
    <3>3. /\ MoveMsg(p, log[p], mv).type = "MOVE"
          /\ MoveMsg(p, log[p], mv).ply = Len(log[p])
      BY DEF MoveMsg
    <3> QED BY <2>1, <2>5, <3>1, <3>2, <3>3
  <2> QED BY <1>1, <2>4, <2>5
<1>6. ~ (restarts' = restarts + 1)
  BY <1>2
<1> QED BY <1>3, <1>4, <1>5, <1>6 DEF RememberStep

LEMMA InitEndInv ==
  ASSUME Init
  PROVE  EndInv
<1>1. \A p \in Peer : /\ Len(log[p]) = 0 /\ result[p] = "" /\ drawBy[p] = "none"
                      /\ SeatOf(p) \in Seat /\ Other(p) \in Peer
                      /\ ResignedBy(SeatOf(p)) # ""
  BY PeerFacts DEF Init, ResignedBy
<1>2. \A p \in Peer : Len(log[Other(p)]) = 0 /\ SeatOf(p) # "none"
  BY <1>1 DEF Seat
<1>3. \A p \in Peer : /\ ~ (Len(log[p]) > Len(log[Other(p)]))
                      /\ \A n \in 0..Len(log[p]) : ~ (n < Len(log[p]))
  <2> SUFFICES ASSUME NEW p \in Peer
               PROVE  /\ ~ (Len(log[p]) > Len(log[Other(p)]))
                      /\ \A n \in 0..Len(log[p]) : ~ (n < Len(log[p]))
    OBVIOUS
  <2>1. Len(log[p]) = 0 /\ Len(log[Other(p)]) = 0
    BY <1>1, <1>2
  <2> QED BY <2>1
<1>4. RulesHaveDecided /\ OffersWereMade /\ ResignIsOwn /\ DrawByConsent
  BY <1>1, <1>2 DEF RulesHaveDecided, OffersWereMade, ResignIsOwn, DrawByConsent
<1> QED BY <1>3, <1>4, InitIInv DEF EndInv, NoneWonBefore, LeadRemembered

LEMMA NextEndInv ==
  ASSUME EndInv, [Next]_vars
  PROVE  EndInv'
<1>1. IInv /\ IInv' /\ LogInv /\ LogStep /\ Account
  BY NextIInv, IInvLogs, EveryStepIsALogStep, EveryStepAccount DEF EndInv
<1>2. NoneWonBefore'
  BY <1>1, NoneWonBeforeStep DEF EndInv
<1>3. RulesHaveDecided'
  BY <1>1, RulesHaveDecidedStep DEF EndInv, Account
<1>4. OffersWereMade'
  BY <1>1, OffersWereMadeStep DEF EndInv, Account
<1>5. ResignIsOwn'
  BY <1>1, ResignIsOwnStep DEF EndInv, Account
<1>6. DrawByConsent'
  BY <1>1, DrawByConsentStep DEF EndInv, Account
<1>7. LeadRemembered'
  BY <1>1, LeadRememberedStep DEF EndInv, Account
<1> QED BY <1>1, <1>2, <1>3, <1>4, <1>5, <1>6, <1>7 DEF EndInv

-----------------------------------------------------------------------------
(* The theorems about endings                                              *)

(* The inductive invariant of the endings holds in every reachable state.   *)
THEOREM EndInvariance == Spec => []EndInv
<1>1. Init => EndInv
  BY InitEndInv
<1>2. EndInv /\ [Next]_vars => EndInv'
  BY NextEndInv
<1> QED BY <1>1, <1>2, PTL DEF Spec

(* Nobody's resignation is recorded that its player did not send.           *)
THEOREM ResignationsAreOwn == Spec => []ResignIsOwn
<1>1. EndInv => ResignIsOwn
  BY DEF EndInv
<1> QED BY <1>1, EndInvariance, PTL

(* No draw is recorded that one player did not offer and the other accept.  *)
THEOREM DrawsAreAgreed == Spec => []DrawByConsent
<1>1. EndInv => DrawByConsent
  BY DEF EndInv
<1> QED BY <1>1, EndInvariance, PTL

LEMMA DecidedIsAgreed ==
  ASSUME EndInv
  PROVE  RulesAgree
<1> SUFFICES ASSUME \A r \in Peer : result[r] = "rules", NEW p \in Peer
             PROVE  log[p] = log[Other(p)]
  BY DEF RulesAgree
<1> DEFINE q == Other(p)
<1>1. LogInv /\ q \in Peer /\ Other(q) = p
  BY IInvLogs, PeerFacts DEF EndInv
<1>2. log[p] \in Seq(Move) /\ log[q] \in Seq(Move)
      /\ Len(log[p]) \in Nat /\ Len(log[q]) \in Nat
  BY <1>1 DEF LogInv
<1>3. WinnerOf(log[p]) # "none" /\ WinnerOf(log[q]) # "none"
  BY <1>1 DEF EndInv, RulesHaveDecided
<1>4. Len(log[q]) <= Len(log[p]) /\ Len(log[p]) <= Len(log[q])
  BY <1>1, <1>3, WonIsComplete DEF EndInv
<1>5. \A i \in 1..Len(log[p]) : log[p][i] = log[q][i]
  BY <1>1, <1>2, <1>4 DEF LogInv, Aligned
<1>6. Len(log[p]) = Len(log[q])
  BY <1>2, <1>4
<1> HIDE DEF q
<1> QED BY <1>2, <1>5, <1>6, SameElements DEF q

(* Two peers that let the rules decide saw the same game to its end.        *)
THEOREM TheRulesAgree == Spec => []RulesAgree
<1>1. EndInv => RulesAgree
  BY DecidedIsAgreed
<1> QED BY <1>1, EndInvariance, PTL

LEMMA LeadIsNudged ==
  ASSUME EndInv
  PROVE  NudgeCarriesTheLead
<1> SUFFICES ASSUME NEW p \in Peer, restarts = 0,
                    Len(log[p]) > Len(log[Other(p)])
             PROVE  \E m \in Nudged(p) :
                      m.type = "MOVE" /\ m.ply = Len(log[Other(p)])
  BY DEF NudgeCarriesTheLead
<1> DEFINE q == Other(p)
<1>1. /\ LogInv /\ q \in Peer /\ Len(log[p]) \in Nat /\ Len(log[q]) \in Nat
      /\ SeatOf(p) # SeatOf(q)
  BY IInvLogs, PeerFacts, LeadBound DEF EndInv
<1>2. Len(log[p]) = Len(log[q]) + 1 /\ SeatAt(Len(log[q])) = SeatOf(p)
  BY <1>1 DEF LogInv, LeadAtMostOne
<1>3. ~ our_turn(p)
  BY <1>1, <1>2, SeatsAlternate DEF our_turn
<1>4. ~ Waiting(p) /\ status[p] \in StatusSet \ {"broken"}
  <2>1. log[p] # <<>>
    BY <1>1, <1>2
  <2> QED BY <2>1 DEF EndInv, IInv, QuietUntilAccepted, NoFalseAccusation, TypeOK
<1>5. status[p] = "playing" \/ status[p] = "finished"
  BY <1>4 DEF Waiting, StatusSet
<1>6. Nudged(p) = lastOut[p]
  BY <1>3, <1>5 DEF Nudged
<1> QED BY <1>6 DEF EndInv, LeadRemembered

(* Without a crash a nudge of the peer that is ahead carries its lead.      *)
THEOREM NudgesCarryTheLead == Spec => []NudgeCarriesTheLead
<1>1. EndInv => NudgeCarriesTheLead
  BY LeadIsNudged
<1> QED BY <1>1, EndInvariance, PTL

(* A game that is over stays over, and what the rules decided stands.       *)
THEOREM EndingsStand == Spec => FinishedIsFinal
<1>1. EndInv /\ [Next]_vars =>
        [\A p \in Peer :
           /\ status[p] = "finished" => status'[p] = "finished"
           /\ result[p] = "rules" => result'[p] = "rules"]_vars
  <2> SUFFICES ASSUME EndInv, [Next]_vars, NEW p \in Peer
               PROVE  /\ status[p] = "finished" => status'[p] = "finished"
                      /\ result[p] = "rules" => result'[p] = "rules"
    OBVIOUS
  <2>1. IInv /\ EndStep /\ RulesHaveDecided
    BY EveryStepAccount DEF EndInv, Account
  <2>2. status[p] = "finished" => status'[p] = "finished"
    BY <2>1, ResultTypes DEF EndStep, Opening, Waiting, Finish
  <2>3. result[p] = "rules" => result'[p] = "rules"
    BY <2>1, ResultTypes DEF EndStep, Opening, Finish, RulesHaveDecided
  <2> QED BY <2>2, <2>3
<1> QED BY <1>1, EndInvariance, PTL DEF Spec, FinishedIsFinal
=============================================================================
