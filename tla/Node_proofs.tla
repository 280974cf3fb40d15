----------------------------- MODULE Node_proofs -----------------------------
(***************************************************************************)
(* Proofs about what surrounds a game: what stands between it and the         *)
(* networks (Radio, Lobby), and the programs that play it (Soak, NodeThreads). *)
(***************************************************************************)
EXTENDS Radio, Lobby, Soak, NodeThreads, Induction

-----------------------------------------------------------------------------
(* The Meshtastic transport. For any inbox limit, however the radio's thread   *)
(* and the pump interleave, every packet that is lost was counted, packets    *)
(* are taken in the order they came in, and an answer goes out on the port    *)
(* its question came in on. And for any budget into which one move fits, the   *)
(* parts a log is sent in keep the budget and are, put together, the log; a    *)
(* note is cut to what fits.                                                *)

Packet == [from : Peer, port : Port]

(* What the invariant says of each variable's values.                       *)
RadioTypes ==
  /\ packets \in Seq(Packet)
  /\ heard_on \in [Peer -> Port \cup {"none"}]
  /\ inbox \in Seq(Nat) /\ taken \in Nat
  /\ ingested \in {0, Len(packets)}
  /\ serving \in 0..Len(packets)
  /\ lost \in Nat /\ dropped_inbound \in Nat

(* A sequence whose numbers rise, the first of them above `from'.            *)
Rises(seq, from) == \A i \in 1..Len(seq) : seq[i] > (IF i = 1 THEN from ELSE seq[i - 1])

(* Only pump runs between the look at a full inbox and the append, and it     *)
(* makes room: an append that discards has been counted.                    *)
CountInv ==
  /\ Len(inbox) <= InboxLimit
  /\ lost <= dropped_inbound
  /\ ingested # 0 /\ Len(inbox) = InboxLimit => lost < dropped_inbound

(* The numbers in the inbox rise, from the last taken to the one to come.     *)
Before(k) == IF ingested = 0 THEN k <= Len(packets) ELSE k < ingested

OrderInv ==
  /\ Rises(inbox, taken)
  /\ \A i \in 1..Len(inbox) : Before(inbox[i])
  /\ Before(taken)

(* heard_on is the port of the last packet of each peer.                    *)
LastFrom(p, k) ==
  /\ packets[k] = [from |-> p, port |-> heard_on[p]]
  /\ \A j \in k + 1..Len(packets) : packets[j].from # p

HeardInv ==
  \A k \in 1..Len(packets) : \E last \in k..Len(packets) : LastFrom(packets[k].from, last)

ReplyInv == reply.re \in 0..Len(packets) /\ AnsweredWhereHeard

RadioInv == RadioTypes /\ CountInv /\ OrderInv /\ HeardInv /\ ReplyInv

USE RadioAssumption

-----------------------------------------------------------------------------
LEMMA PacketFields ==
  /\ \A from \in Peer, port \in Port : [from |-> from, port |-> port] \in Packet
  /\ \A packet \in Packet : packet.from \in Peer /\ packet.port \in Port
BY DEF Packet

LEMMA TailShape ==
  ASSUME NEW seq \in Seq(Nat), seq # <<>>
  PROVE  /\ Tail(seq) \in Seq(Nat) /\ Len(seq) \in Nat \ {0} /\ seq[1] \in Nat
         /\ Len(Tail(seq)) = Len(seq) - 1
         /\ \A i \in 1..Len(seq) - 1 : Tail(seq)[i] = seq[i + 1]
OBVIOUS

(* What is left of a rising sequence rises, from its head and from below it.  *)
LEMMA TailRises ==
  ASSUME NEW seq \in Seq(Nat), seq # <<>>, NEW from \in Nat, Rises(seq, from)
  PROVE  Rises(Tail(seq), seq[1]) /\ Rises(Tail(seq), from)
<1> DEFINE rest == Tail(seq)
<1>1. /\ Len(seq) \in Nat \ {0} /\ Len(rest) = Len(seq) - 1
      /\ \A i \in 1..Len(seq) - 1 : rest[i] = seq[i + 1]
      /\ \A i \in 1..Len(seq) : seq[i] \in Nat
  BY TailShape
<1>2. seq[1] > from /\ \A i \in 2..Len(seq) : seq[i] > seq[i - 1]
  BY <1>1 DEF Rises
<1> HIDE DEF rest
<1>3. \A i \in 1..Len(rest) : rest[i] = seq[i + 1] /\ i + 1 \in 2..Len(seq)
  BY <1>1
<1>4. ASSUME NEW i \in 1..Len(rest)
      PROVE  /\ rest[i] > (IF i = 1 THEN seq[1] ELSE rest[i - 1])
             /\ rest[i] > (IF i = 1 THEN from ELSE rest[i - 1])
  <2>1. rest[i] > seq[i]
    <3>1. rest[i] = seq[i + 1] /\ i + 1 \in 2..Len(seq) /\ i \in Nat
      BY <1>1, <1>3
    <3>2. (i + 1) - 1 = i
      BY <3>1
    <3>3. seq[i + 1] > seq[(i + 1) - 1]
      BY <1>2, <3>1
    <3> QED BY <3>1, <3>2, <3>3
  <2>2. CASE i = 1
    BY <1>1, <1>2, <1>3, <2>1, <2>2
  <2>3. CASE i # 1
    <3>1. i - 1 \in 1..Len(rest) /\ rest[i - 1] = seq[i]
      BY <1>1, <1>3, <2>3
    <3> QED BY <2>1, <2>3, <3>1
  <2> QED BY <2>2, <2>3
<1>5. Rises(rest, seq[1]) /\ Rises(rest, from)
  BY <1>4 DEF Rises
<1> QED
  BY <1>5 DEF rest

LEMMA RadioInitInv == RadioInit => RadioInv
<1> SUFFICES ASSUME RadioInit PROVE RadioInv
  OBVIOUS
<1>0. /\ packets = <<>> /\ inbox = <<>> /\ ingested = 0 /\ serving = 0 /\ taken = 0
      /\ lost = 0 /\ dropped_inbound = 0 /\ heard_on = [p \in Peer |-> "none"]
      /\ reply = NoReply
  BY DEF RadioInit
<1>1. <<>> \in Seq(Packet) /\ <<>> \in Seq(Nat)
  OBVIOUS
<1>2. RadioTypes
  BY <1>0, <1>1 DEF RadioTypes
<1>3. CountInv /\ OrderInv /\ HeardInv
  BY <1>0 DEF CountInv, OrderInv, HeardInv, Before, Rises
<1>4. ReplyInv
  BY <1>0 DEF ReplyInv, AnsweredWhereHeard, NoReply
<1> QED
  BY <1>2, <1>3, <1>4 DEF RadioInv

(* A packet is numbered, its port remembered, and a full inbox counted.      *)
LEMMA IngestKeeps ==
  ASSUME NEW from \in Peer, NEW port \in Port, RadioInv, Ingest(from, port)
  PROVE  RadioInv'
<1> DEFINE new == [from |-> from, port |-> port]
<1>0. RadioTypes /\ CountInv /\ OrderInv /\ HeardInv /\ ReplyInv
  BY DEF RadioInv
<1>1. /\ ingested = 0
      /\ packets' = Append(packets, new)
      /\ heard_on' = [heard_on EXCEPT ![from] = port]
      /\ dropped_inbound' = dropped_inbound + (IF Full THEN 1 ELSE 0)
      /\ ingested' = Len(packets')
      /\ UNCHANGED <<inbox, serving, taken, lost, reply>>
  BY DEF Ingest, Heard
<1>2. new \in Packet
  BY PacketFields
<1> HIDE DEF new
<1>3. /\ packets' \in Seq(Packet) /\ Len(packets') = Len(packets) + 1 /\ Len(packets) \in Nat
      /\ packets'[Len(packets) + 1] = new
      /\ \A k \in 1..Len(packets) : packets'[k] = packets[k]
  BY <1>0, <1>1, <1>2 DEF RadioTypes
<1>4. dropped_inbound' \in Nat /\ dropped_inbound' >= dropped_inbound
  BY <1>0, <1>1 DEF RadioTypes
<1>5. RadioTypes'
  BY <1>0, <1>1, <1>3, <1>4 DEF RadioTypes
<1>6. CountInv'
  <2>1. CASE Full
    BY <1>0, <1>1, <2>1 DEF CountInv, RadioTypes
  <2>2. CASE ~Full
    BY <1>0, <1>1, <2>2 DEF CountInv, RadioTypes, Full
  <2> QED BY <2>1, <2>2
<1>7. OrderInv'
  <2>1. /\ Rises(inbox, taken) /\ taken \in Nat /\ inbox \in Seq(Nat)
        /\ taken <= Len(packets) /\ \A i \in 1..Len(inbox) : inbox[i] <= Len(packets)
    BY <1>0, <1>1 DEF OrderInv, Before, RadioTypes
  <2>2. Rises(inbox, taken)'
    BY <1>1, <2>1 DEF Rises
  <2>3. /\ ingested' = Len(packets) + 1 /\ ingested' # 0 /\ taken' = taken /\ inbox' = inbox
        /\ Len(packets) \in Nat
    BY <1>1, <1>3
  <2>4. Before(taken)'
    BY <2>1, <2>3 DEF Before
  <2>5. ASSUME NEW i \in 1..Len(inbox) PROVE Before(inbox[i])'
    <3>1. inbox[i] \in Nat /\ inbox[i] <= Len(packets)
      BY <2>1
    <3> QED BY <2>3, <3>1 DEF Before
  <2> QED
    BY <2>2, <2>3, <2>4, <2>5 DEF OrderInv
<1>8. HeardInv'
  <2> SUFFICES ASSUME NEW k \in 1..Len(packets')
               PROVE  \E last \in k..Len(packets') : LastFrom(packets[k].from, last)'
    BY DEF HeardInv
  <2> DEFINE n == Len(packets')
             p == packets'[k].from
  <2>0. n \in k..n /\ n = Len(packets) + 1 /\ packets'[k] \in Packet
    BY <1>3
  <2>1. CASE p = from
    <3>1. packets'[n] = [from |-> p, port |-> heard_on'[p]]
      BY <1>0, <1>1, <1>3, <2>1 DEF RadioTypes, new
    <3>2. \A j \in n + 1..n : packets'[j].from # p
      BY <2>0
    <3> QED
      BY <2>0, <3>1, <3>2 DEF LastFrom
  <2>2. CASE p # from
    <3>1. k \in 1..Len(packets) /\ packets'[k] = packets[k]
      BY <1>3, <2>0, <2>2 DEF new
    <3>2. PICK last \in k..Len(packets) : LastFrom(packets[k].from, last)
      BY <1>0, <3>1 DEF HeardInv
    <3>3. packets'[last] = [from |-> p, port |-> heard_on'[p]]
      BY <1>0, <1>1, <1>3, <2>2, <3>1, <3>2 DEF LastFrom, RadioTypes
    <3>4. \A j \in last + 1..n : packets'[j].from # p
      BY <1>3, <2>2, <3>1, <3>2 DEF LastFrom, new
    <3> QED
      BY <1>3, <3>1, <3>3, <3>4 DEF LastFrom
  <2> QED
    BY <2>1, <2>2
<1>9. ReplyInv'
  <2>1. reply'.re \in 0..Len(packets')
    BY <1>0, <1>1, <1>3 DEF ReplyInv
  <2>2. ASSUME reply.re # 0
        PROVE  \/ reply.port = packets'[reply.re].port
               \/ \E later \in reply.re + 1..Len(packets') :
                    packets'[later] = [from |-> packets'[reply.re].from, port |-> reply.port]
    BY <1>0, <1>3, <2>2 DEF ReplyInv, AnsweredWhereHeard
  <2> QED
    BY <1>1, <2>1, <2>2 DEF ReplyInv, AnsweredWhereHeard
<1> QED
  BY <1>5, <1>6, <1>7, <1>8, <1>9 DEF RadioInv

(* The rest of the invariant, where packets, ports and the reply stand still. *)
LEMMA PacketsStand ==
  ASSUME HeardInv, UNCHANGED <<packets, heard_on>> PROVE HeardInv'
<1>1. packets' = packets /\ heard_on' = heard_on
  OBVIOUS
<1>2. ASSUME NEW p, NEW k PROVE LastFrom(p, k)' <=> LastFrom(p, k)
  BY <1>1 DEF LastFrom
<1> QED
  BY <1>1, <1>2 DEF HeardInv

LEMMA ReplyStands ==
  ASSUME ReplyInv, UNCHANGED <<packets, reply>> PROVE ReplyInv'
BY DEF ReplyInv, AnsweredWhereHeard

LEMMA EnqueueKeeps ==
  ASSUME RadioInv, Enqueue PROVE RadioInv'
<1> DEFINE overflows == Len(inbox) = InboxLimit
           kept == IF overflows THEN Tail(inbox) ELSE inbox
<1>0. RadioTypes /\ CountInv /\ OrderInv /\ HeardInv /\ ReplyInv
  BY DEF RadioInv
<1>1. /\ ingested # 0 /\ ingested' = 0
      /\ inbox' = Append(kept, ingested)
      /\ lost' = lost + (IF overflows THEN 1 ELSE 0)
      /\ UNCHANGED <<packets, heard_on, serving, taken, dropped_inbound, reply>>
  BY DEF Enqueue
<1>2. /\ ingested = Len(packets) /\ ingested \in Nat /\ inbox \in Seq(Nat) /\ Len(inbox) \in Nat
      /\ InboxLimit \in Nat \ {0}
  BY <1>0, <1>1 DEF RadioTypes
<1>3. /\ kept \in Seq(Nat) /\ Len(kept) \in Nat /\ Len(kept) < InboxLimit
      /\ \A i \in 1..Len(kept) : \E d \in {0, 1} :
           i + d \in 1..Len(inbox) /\ (d = 1 <=> overflows) /\ kept[i] = inbox[i + d]
  <2>1. CASE overflows
    <3>1. inbox # <<>>
      BY <1>2, <2>1
    <3>2. kept = Tail(inbox) /\ Len(kept) = Len(inbox) - 1 /\ kept \in Seq(Nat)
      BY <1>2, <2>1, <3>1
    <3>3. \A i \in 1..Len(kept) : i + 1 \in 1..Len(inbox) /\ kept[i] = inbox[i + 1]
      BY <1>2, <3>1, <3>2
    <3> QED BY <1>2, <2>1, <3>2, <3>3
  <2>2. CASE ~overflows
    <3>1. kept = inbox
      BY <2>2
    <3>2. \A i \in 1..Len(kept) : i + 0 \in 1..Len(inbox) /\ kept[i] = inbox[i + 0]
      BY <1>2, <3>1
    <3> QED BY <1>0, <1>2, <2>2, <3>1, <3>2 DEF CountInv
  <2> QED BY <2>1, <2>2
<1>4. RadioTypes'
  BY <1>0, <1>1, <1>2, <1>3 DEF RadioTypes
<1>5. CountInv'
  <2>1. CASE overflows
    BY <1>0, <1>1, <1>2, <1>3, <2>1 DEF CountInv, RadioTypes
  <2>2. CASE ~overflows
    BY <1>0, <1>1, <1>2, <1>3, <2>2 DEF CountInv, RadioTypes
  <2> QED BY <2>1, <2>2
<1>6. OrderInv'
  <2>1. \A i \in 1..Len(kept) : kept[i] < ingested /\ kept[i] \in Nat
    BY <1>0, <1>1, <1>2, <1>3 DEF OrderInv, Before
  <2>2. Rises(kept, taken)
    <3>1. CASE overflows
      <4>1. kept = Tail(inbox) /\ inbox # <<>> /\ taken \in Nat /\ Rises(inbox, taken)
        BY <1>0, <1>2, <3>1 DEF OrderInv, RadioTypes
      <4> QED BY <1>2, <4>1, TailRises
    <3>2. CASE ~overflows
      BY <1>0, <3>2 DEF OrderInv
    <3> QED BY <3>1, <3>2
  <2>3. taken < ingested /\ taken \in Nat
    BY <1>0, <1>1 DEF OrderInv, Before, RadioTypes
  <2> HIDE DEF kept
  <2>4. Rises(inbox', taken)
    <3>1. /\ Len(inbox') = Len(kept) + 1 /\ inbox'[Len(kept) + 1] = ingested
          /\ \A i \in 1..Len(kept) : inbox'[i] = kept[i]
      BY <1>1, <1>2, <1>3
    <3> SUFFICES ASSUME NEW i \in 1..Len(inbox')
                 PROVE  inbox'[i] > (IF i = 1 THEN taken ELSE inbox'[i - 1])
      BY DEF Rises
    <3>2. CASE i = 1 /\ Len(kept) = 0
      BY <1>2, <2>3, <3>1, <3>2
    <3>3. CASE i # 1 /\ i = Len(kept) + 1
      <4>1. i - 1 = Len(kept) /\ Len(kept) \in 1..Len(kept)
        BY <1>3, <3>1, <3>3
      <4>2. inbox'[i - 1] = kept[Len(kept)] /\ kept[Len(kept)] < ingested
        BY <2>1, <3>1, <4>1
      <4>3. kept[Len(kept)] \in Nat
        BY <2>1, <4>1
      <4> QED BY <1>2, <3>1, <3>3, <4>2, <4>3
    <3>4. CASE i = 1 /\ Len(kept) # 0
      <4>1. 1 \in 1..Len(kept)
        BY <1>3, <3>4
      <4>2. kept[1] > taken /\ inbox'[1] = kept[1]
        BY <2>2, <3>1, <4>1 DEF Rises
      <4> QED BY <3>4, <4>2
    <3>5. CASE i # 1 /\ i # Len(kept) + 1
      <4>1. i \in 1..Len(kept) /\ i - 1 \in 1..Len(kept)
        BY <1>3, <3>1, <3>5
      <4>2. kept[i] > kept[i - 1]
        BY <2>2, <3>5, <4>1 DEF Rises
      <4> QED BY <3>1, <3>5, <4>1, <4>2
    <3> QED BY <1>3, <3>1, <3>2, <3>3, <3>4, <3>5
  <2>5. \A i \in 1..Len(inbox') : inbox'[i] <= Len(packets)
    BY <1>1, <1>2, <1>3, <2>1
  <2> QED
    BY <1>1, <1>2, <2>3, <2>4, <2>5 DEF OrderInv, Before, Rises
<1> QED
  BY <1>0, <1>1, <1>4, <1>5, <1>6, PacketsStand, ReplyStands DEF RadioInv

(* pump takes the oldest.                                                   *)
LEMMA TakeKeeps ==
  ASSUME RadioInv, Take PROVE RadioInv'
<1>0. RadioTypes /\ CountInv /\ OrderInv /\ HeardInv /\ ReplyInv
  BY DEF RadioInv
<1>1. /\ inbox # <<>> /\ serving' = inbox[1] /\ taken' = inbox[1] /\ inbox' = Tail(inbox)
      /\ UNCHANGED <<packets, heard_on, ingested, lost, dropped_inbound, reply>>
  BY DEF Take
<1>2. /\ inbox \in Seq(Nat) /\ Len(inbox) \in Nat \ {0} /\ Len(inbox') = Len(inbox) - 1
      /\ inbox' \in Seq(Nat) /\ inbox[1] \in Nat
      /\ \A i \in 1..Len(inbox) - 1 : inbox'[i] = inbox[i + 1]
  BY <1>0, <1>1, TailShape DEF RadioTypes
<1>3. Before(inbox[1]) /\ Len(packets) \in Nat
  BY <1>0, <1>2 DEF OrderInv, RadioTypes
<1>4. inbox[1] <= Len(packets)
  BY <1>0, <1>2, <1>3 DEF Before, RadioTypes
<1>5. RadioTypes'
  BY <1>0, <1>1, <1>2, <1>3, <1>4 DEF RadioTypes
<1>6. CountInv'
  <2>1. Len(inbox') < InboxLimit /\ InboxLimit \in Nat /\ Len(inbox') \in Nat
    BY <1>0, <1>2 DEF CountInv
  <2> QED
    BY <1>0, <1>1, <2>1 DEF CountInv
<1>7. OrderInv'
  <2>1. Rises(inbox', taken')
    BY <1>0, <1>1, <1>2, TailRises DEF OrderInv, RadioTypes
  <2>2. \A i \in 1..Len(inbox') : Before(inbox'[i])
    BY <1>0, <1>2 DEF OrderInv
  <2>3. ingested' = ingested /\ Len(packets') = Len(packets) /\ Before(taken')
    BY <1>1, <1>3
  <2> QED
    BY <2>1, <2>2, <2>3 DEF OrderInv, Before, Rises
<1> QED
  BY <1>0, <1>1, <1>5, <1>6, <1>7, PacketsStand, ReplyStands DEF RadioInv

(* The port of an answer is that of the last packet heard from the asker.    *)
LEMMA SendKeeps ==
  ASSUME RadioInv, serving # 0, NEW parts, NEW sizes,
         SendTo(packets[serving].from, serving, parts, sizes),
         UNCHANGED packets
  PROVE  ReplyInv'
<1>0. RadioTypes /\ HeardInv /\ ReplyInv
  BY DEF RadioInv
<1>1. CASE UNCHANGED reply
  BY <1>0, <1>1, ReplyStands
<1>2. CASE reply' = [re |-> serving, port |-> PortOf(packets[serving].from), parts |-> parts]
  <2> DEFINE p == packets[serving].from
  <2>1. serving \in 1..Len(packets) /\ packets[serving] \in Packet
    BY <1>0 DEF RadioTypes
  <2>2. PICK last \in serving..Len(packets) : LastFrom(p, last)
    BY <1>0, <2>1 DEF HeardInv
  <2>3. packets[last] = [from |-> p, port |-> heard_on[p]] /\ packets[last] \in Packet
    BY <1>0, <2>1, <2>2 DEF LastFrom, RadioTypes
  <2>4. heard_on[p] \in Port
    BY <2>3, PacketFields
  <2>5. reply'.re = serving /\ reply'.port = heard_on[p]
    BY <1>2, <2>4 DEF PortOf, Port
  <2>6. CASE last = serving
    BY <2>1, <2>3, <2>5, <2>6 DEF ReplyInv, AnsweredWhereHeard
  <2>7. CASE last # serving
    <3>1. last \in serving + 1..Len(packets)
      BY <2>1, <2>7
    <3> QED
      BY <2>1, <2>3, <2>5, <3>1 DEF ReplyInv, AnsweredWhereHeard
  <2> QED
    BY <2>6, <2>7
<1> QED
  BY <1>1, <1>2 DEF SendTo

(* What the callback does leaves the inbox and its counts alone.             *)
LEMMA ServedKeeps ==
  ASSUME RadioInv, ReplyInv', serving' = 0,
         UNCHANGED <<packets, heard_on, inbox, ingested, taken, lost, dropped_inbound>>
  PROVE  RadioInv'
<1>1. RadioTypes /\ CountInv /\ OrderInv /\ HeardInv
  BY DEF RadioInv
<1>2. RadioTypes'
  BY <1>1 DEF RadioTypes
<1>3. CountInv' /\ OrderInv'
  BY <1>1 DEF CountInv, OrderInv, Before, Rises
<1> QED
  BY <1>1, <1>2, <1>3, PacketsStand DEF RadioInv

LEMMA AnsweringKeeps ==
  /\ RadioInv /\ ReceivesMove => RadioInv'
  /\ RadioInv /\ AnswersSyncRequest => RadioInv'
  /\ RadioInv /\ AnswersText => RadioInv'
<1>1. ASSUME RadioInv, ReceivesMove PROVE RadioInv'
  <2>1. /\ serving' = 0
        /\ UNCHANGED <<packets, heard_on, inbox, ingested, taken, lost, dropped_inbound, reply>>
    BY <1>1 DEF ReceivesMove
  <2>2. ReplyInv'
    BY <1>1, <2>1, ReplyStands DEF RadioInv
  <2> QED BY <1>1, <2>1, <2>2, ServedKeeps
<1>2. ASSUME RadioInv, AnswersSyncRequest PROVE RadioInv'
  <2>1. /\ serving # 0 /\ serving' = 0
        /\ UNCHANGED <<packets, heard_on, inbox, ingested, taken, lost, dropped_inbound>>
    BY <1>2 DEF AnswersSyncRequest
  <2>2. PICK parts, sizes : SendTo(packets[serving].from, serving, parts, sizes)
    BY <1>2 DEF AnswersSyncRequest
  <2>3. ReplyInv'
    BY <1>2, <2>1, <2>2, SendKeeps
  <2> QED BY <1>2, <2>1, <2>3, ServedKeeps
<1>3. ASSUME RadioInv, AnswersText PROVE RadioInv'
  <2>1. /\ serving # 0 /\ serving' = 0
        /\ UNCHANGED <<packets, heard_on, inbox, ingested, taken, lost, dropped_inbound>>
    BY <1>3 DEF AnswersText
  <2>2. PICK parts, sizes : SendTo(packets[serving].from, serving, parts, sizes)
    BY <1>3 DEF AnswersText
  <2>3. ReplyInv'
    BY <1>3, <2>1, <2>2, SendKeeps
  <2> QED BY <1>3, <2>1, <2>3, ServedKeeps
<1> QED
  BY <1>1, <1>2, <1>3

LEMMA RadioNextKeeps == RadioInv /\ [RadioNext]_radioVars => RadioInv'
<1> SUFFICES ASSUME RadioInv, [RadioNext]_radioVars PROVE RadioInv'
  OBVIOUS
<1>1. ASSUME NEW from \in Peer, NEW port \in Port, Ingest(from, port) PROVE RadioInv'
  BY <1>1, IngestKeeps
<1>2. CASE Enqueue
  BY <1>2, EnqueueKeeps
<1>3. CASE Take
  BY <1>3, TakeKeeps
<1>4. CASE ReceivesMove \/ AnswersSyncRequest \/ AnswersText
  BY <1>4, AnsweringKeeps
<1>5. CASE UNCHANGED radioVars
  <2>1. UNCHANGED <<packets, heard_on, inbox, ingested, serving, taken, lost, dropped_inbound,
                    reply>>
    BY <1>5 DEF radioVars
  <2>2. RadioTypes' /\ CountInv' /\ OrderInv'
    BY <2>1 DEF RadioInv, RadioTypes, CountInv, OrderInv, Before, Rises
  <2> QED
    BY <2>1, <2>2, PacketsStand, ReplyStands DEF RadioInv
<1> QED
  BY <1>1, <1>2, <1>3, <1>4, <1>5 DEF RadioNext

(* The inductive invariant, for any number of peers, limit of the inbox and   *)
(* sizes of messages.                                                       *)
THEOREM RadioInvariance == RadioSpec => []RadioInv
  BY RadioInitInv, RadioNextKeeps, PTL DEF RadioSpec

(* Every packet lost is in dropped_inbound, and those taken are taken in      *)
(* order (meshtastic.py:61-63).                                             *)
THEOREM EveryLossCounted == RadioSpec => []LossIsCounted
<1>1. RadioInv => LossIsCounted
  BY DEF RadioInv, CountInv, OrderInv, Rises, LossIsCounted
<1> QED
  BY <1>1, RadioInvariance, PTL

(* "Reply on the port you were heard on" (meshtastic.py:103).                *)
THEOREM AlwaysAnsweredWhereHeard == RadioSpec => []AnsweredWhereHeard
<1>1. RadioInv => AnsweredWhereHeard
  BY DEF RadioInv, ReplyInv
<1> QED
  BY <1>1, RadioInvariance, PTL
-----------------------------------------------------------------------------
HIDE RadioAssumption

(* Sums: the function a Total is the last value of.                         *)

Summed(s, w) == s[0] = 0 /\ \A i \in 1..Len(w) : s[i] = s[i - 1] + w[i]

LEMMA TotalIsSum ==
  ASSUME NEW w \in Seq(Nat)
  PROVE  \E s \in [0..Len(w) -> Nat] : Summed(s, w) /\ Total(w) = s[Len(w)]
<1> DEFINE n == Len(w)
           Sum(s) == s = [i \in 0..n |-> IF i = 0 THEN 0 ELSE s[i - 1] + w[i]]
           F == [i \in 1..n |-> [x \in Nat |-> x + w[i]]]
<1>1. n \in Nat
  OBVIOUS
<1>0. 0 \in Nat /\ F \in [1..n -> [Nat -> Nat]]
  OBVIOUS
<1>2. \A i \in 1..n, x \in Nat : F[i][x] = x + w[i]
  OBVIOUS
<1> HIDE DEF F, n, Sum
<1>3. PICK g \in [0..n -> Nat] : Folds(g, 0, F, n)
  BY <1>0, <1>1, Recursion
<1>4. ASSUME NEW i \in 1..n PROVE g[i] = g[i - 1] + w[i]
  <2>1. g[i - 1] \in Nat
    BY <1>1, <1>3
  <2>2. g[i] = F[i][g[i - 1]]
    BY <1>3 DEF Folds
  <2> QED BY <1>2, <2>1, <2>2, Zenon
<1>5. Sum(g)
  BY <1>1, <1>3, <1>4 DEF Sum, Folds
<1>6. PICK s : s = (CHOOSE sum : Sum(sum))
  OBVIOUS
<1>7. Sum(s)
  BY <1>5, <1>6
<1>8. s[0] = 0 /\ \A i \in 1..n : s[i] = s[i - 1] + w[i]
  <2>1. 0 \in 0..n /\ \A i \in 1..n : i \in 0..n /\ i # 0
    BY <1>1
  <2>2. \A i \in 0..n : s[i] = IF i = 0 THEN 0 ELSE s[i - 1] + w[i]
    BY <1>7, Zenon DEF Sum
  <2> QED BY <2>1, <2>2
<1> DEFINE S == {i \in Nat : i <= n => s[i] \in Nat}
<1>9. 0 \in S
  BY <1>8
<1>10. ASSUME NEW i \in Nat, i \in S PROVE i + 1 \in S
  <2> SUFFICES ASSUME i + 1 <= n PROVE s[i + 1] \in Nat
    OBVIOUS
  <2>1. i + 1 \in 1..n /\ (i + 1) - 1 = i /\ s[i] \in Nat
    BY <1>1, <1>10
  <2>2. s[i + 1] = s[i] + w[i + 1]
    BY <1>8, <2>1
  <2>3. w[i + 1] \in Nat
    BY <2>1 DEF n
  <2> QED BY <2>1, <2>2, <2>3
<1> HIDE DEF S
<1>11. s \in [0..n -> Nat]
  <2>1. \A i \in Nat : i \in S
    BY <1>9, <1>10, Induct
  <2>2. \A i \in 0..n : s[i] \in Nat
    BY <1>1, <2>1 DEF S
  <2>3. s = [i \in 0..n |-> s[i]]
    <3>1. \A i \in 0..n : s[i] = IF i = 0 THEN 0 ELSE s[i - 1] + w[i]
      BY <1>7, Zenon DEF Sum
    <3> QED BY <1>7, <3>1 DEF Sum
  <2> QED BY <2>2, <2>3
<1>12. Total(w) = s[n]
  BY <1>6 DEF Total, n, Sum
<1> QED BY <1>8, <1>11, <1>12 DEF Summed, n

Agree(w, v, n) == n <= Len(w) /\ n <= Len(v) /\ \A i \in 1..n : w[i] = v[i]

LEMMA SumsAgree ==
  ASSUME NEW w \in Seq(Nat), NEW v \in Seq(Nat), NEW n \in Nat, Agree(w, v, n),
         NEW s, Summed(s, w), NEW r, Summed(r, v)
  PROVE  s[n] = r[n]
<1> DEFINE S == {i \in Nat : i <= n => s[i] = r[i]}
<1>1. /\ Len(w) \in Nat /\ Len(v) \in Nat /\ n <= Len(w) /\ n <= Len(v)
      /\ \A i \in 1..n : w[i] = v[i]
  BY DEF Agree
<1>2. 0 \in S
  BY DEF Summed
<1>3. ASSUME NEW i \in Nat, i \in S PROVE i + 1 \in S
  <2> SUFFICES ASSUME i + 1 <= n PROVE s[i + 1] = r[i + 1]
    OBVIOUS
  <2>1. /\ i + 1 \in 1..n /\ i + 1 \in 1..Len(w) /\ i + 1 \in 1..Len(v)
        /\ (i + 1) - 1 = i /\ s[i] = r[i]
    BY <1>1, <1>3
  <2>2. s[i + 1] = s[i] + w[i + 1] /\ r[i + 1] = r[i] + v[i + 1]
    BY <2>1 DEF Summed
  <2>3. w[i + 1] = v[i + 1]
    BY <1>1, <2>1
  <2> QED BY <2>1, <2>2, <2>3
<1> HIDE DEF S
<1>4. n \in S
  BY <1>2, <1>3, Induct
<1> QED BY <1>4 DEF S

LEMMA TotalAppend ==
  ASSUME NEW w \in Seq(Nat), NEW x \in Nat
  PROVE  Total(Append(w, x)) = Total(w) + x
<1> DEFINE v == Append(w, x)
           n == Len(w)
<1>1. /\ v \in Seq(Nat) /\ Len(v) = n + 1 /\ v[n + 1] = x /\ n \in Nat
      /\ \A i \in 1..n : w[i] = v[i]
  OBVIOUS
<1> HIDE DEF v
<1>2. PICK s \in [0..n -> Nat] : Summed(s, w) /\ Total(w) = s[n]
  BY TotalIsSum
<1>3. PICK r \in [0..Len(v) -> Nat] : Summed(r, v) /\ Total(v) = r[Len(v)]
  BY <1>1, TotalIsSum
<1>4. Agree(w, v, n)
  BY <1>1 DEF Agree
<1>5. s[n] = r[n]
  BY <1>1, <1>2, <1>3, <1>4, SumsAgree
<1>6. r[n + 1] = r[n] + x
  <2>1. n + 1 \in 1..Len(v) /\ (n + 1) - 1 = n
    BY <1>1
  <2> QED BY <1>1, <1>3, <2>1 DEF Summed
<1> QED BY <1>1, <1>2, <1>3, <1>5, <1>6 DEF v

LEMMA TotalPrefix ==
  ASSUME NEW w \in Seq(Nat), NEW n \in 0..Len(w)
  PROVE  /\ Total(w) \in Nat /\ Total(<<>>) = 0
         /\ Total(SubSeq(w, 1, n)) \in Nat /\ Total(SubSeq(w, 1, n)) <= Total(w)
<1> DEFINE v == SubSeq(w, 1, n)
           m == Len(w)
<1>1. /\ v \in Seq(Nat) /\ Len(v) = n /\ n \in Nat /\ m \in Nat /\ n <= m
      /\ \A i \in 1..n : w[i] = v[i]
  OBVIOUS
<1>2. <<>> \in Seq(Nat) /\ Len(<<>>) = 0
  OBVIOUS
<1> HIDE DEF v, m
<1>3. PICK s \in [0..m -> Nat] : Summed(s, w) /\ Total(w) = s[m]
  BY TotalIsSum DEF m
<1>4. PICK r \in [0..n -> Nat] : Summed(r, v) /\ Total(v) = r[n]
  BY <1>1, TotalIsSum
<1>5. s[n] = r[n]
  <2>1. Agree(w, v, n)
    BY <1>1 DEF Agree, m
  <2> QED BY <1>1, <1>3, <1>4, <2>1, SumsAgree
<1>6. Total(<<>>) = 0
  BY <1>2, TotalIsSum DEF Summed
<1>7. s[n] <= s[m]
  <2> DEFINE S == {i \in Nat : n + i <= m => s[n] <= s[n + i]}
  <2>1. 0 \in S
    BY <1>1, <1>3
  <2>2. ASSUME NEW i \in Nat, i \in S PROVE i + 1 \in S
    <3> SUFFICES ASSUME n + (i + 1) <= m PROVE s[n] <= s[n + (i + 1)]
      OBVIOUS
    <3>1. /\ n + i \in 0..m /\ n + (i + 1) \in 1..m /\ n \in 0..m
          /\ (n + (i + 1)) - 1 = n + i /\ s[n] <= s[n + i]
      BY <1>1, <2>2
    <3>2. s[n + (i + 1)] = s[n + i] + w[n + (i + 1)]
      BY <1>3, <3>1 DEF Summed, m
    <3>3. w[n + (i + 1)] \in Nat
      BY <3>1 DEF m
    <3>4. s[n + i] \in Nat /\ s[n] \in Nat
      BY <1>1, <3>1
    <3> QED BY <3>1, <3>2, <3>3, <3>4
  <2> HIDE DEF S
  <2>3. m - n \in Nat /\ n + (m - n) = m
    BY <1>1
  <2>4. m - n \in S
    BY <2>1, <2>2, <2>3, Induct
  <2> QED BY <1>1, <2>3, <2>4 DEF S
<1>8. s[m] \in Nat /\ r[n] \in Nat
  BY <1>1, <1>3, <1>4
<1> QED BY <1>3, <1>4, <1>5, <1>6, <1>7, <1>8 DEF v

(* Texts: a size is the Total of the widths.                                *)

Widths(text) == [i \in 1..Len(text) |-> IF text[i] = 0 THEN 1 ELSE text[i]]

LEMMA WidthsOf ==
  ASSUME NEW text \in Seq(Nat)
  PROVE  /\ Widths(text) \in Seq(Nat) /\ Len(Widths(text)) = Len(text)
         /\ BytesOf(text) = Total(Widths(text))
         /\ \A n \in 0..Len(text) : SubSeq(text, 1, n) \in Seq(Nat)
                /\ Widths(SubSeq(text, 1, n)) = SubSeq(Widths(text), 1, n)
         /\ \A x \in Nat \ {0} : Append(text, x) \in Seq(Nat)
                /\ Widths(Append(text, x)) = Append(Widths(text), x)
<1>1. Widths(text) \in Seq(Nat) /\ Len(Widths(text)) = Len(text)
  <2>1. \A i \in 1..Len(text) : (IF text[i] = 0 THEN 1 ELSE text[i]) \in Nat
    OBVIOUS
  <2> QED BY <2>1 DEF Widths
<1>2. BytesOf(text) = Total(Widths(text))
  BY DEF BytesOf, Widths
<1>3. ASSUME NEW n \in 0..Len(text)
      PROVE  /\ SubSeq(text, 1, n) \in Seq(Nat)
             /\ Widths(SubSeq(text, 1, n)) = SubSeq(Widths(text), 1, n)
  <2> DEFINE p == SubSeq(text, 1, n)
  <2>1. p \in Seq(Nat) /\ Len(p) = n /\ \A i \in 1..n : p[i] = text[i] /\ i \in 1..Len(text)
    OBVIOUS
  <2> HIDE DEF p
  <2>2. Widths(p) = [i \in 1..n |-> IF text[i] = 0 THEN 1 ELSE text[i]]
    BY <2>1 DEF Widths
  <2>3. SubSeq(Widths(text), 1, n) = [i \in 1..n |-> Widths(text)[i]]
    BY <1>1
  <2>4. \A i \in 1..n : Widths(text)[i] = IF text[i] = 0 THEN 1 ELSE text[i]
    BY <2>1 DEF Widths
  <2> QED BY <2>1, <2>2, <2>3, <2>4 DEF p
<1>4. ASSUME NEW x \in Nat \ {0}
      PROVE  /\ Append(text, x) \in Seq(Nat)
             /\ Widths(Append(text, x)) = Append(Widths(text), x)
  <2> DEFINE a == Append(text, x)
             n == Len(text)
  <2>1. /\ a \in Seq(Nat) /\ Len(a) = n + 1 /\ n \in Nat /\ a[n + 1] = x
        /\ \A i \in 1..n : a[i] = text[i]
    OBVIOUS
  <2> HIDE DEF a
  <2>2. Widths(a) = [i \in 1..n + 1 |-> IF i = n + 1 THEN x ELSE Widths(text)[i]]
    <3>1. ASSUME NEW i \in 1..n + 1
          PROVE  (IF a[i] = 0 THEN 1 ELSE a[i]) = IF i = n + 1 THEN x ELSE Widths(text)[i]
      <4>1. i # n + 1 => i \in 1..n
        BY <2>1
      <4>2. \A j \in 1..n : Widths(text)[j] = IF text[j] = 0 THEN 1 ELSE text[j]
        BY DEF Widths
      <4> QED BY <2>1, <4>1, <4>2
    <3> QED BY <2>1, <3>1 DEF Widths
  <2>3. Append(Widths(text), x) = [i \in 1..n + 1 |-> IF i = n + 1 THEN x ELSE Widths(text)[i]]
    <3> DEFINE v == Widths(text)
               b == Append(v, x)
    <3>1. v \in Seq(Nat) /\ Len(v) = n
      BY <1>1
    <3> HIDE DEF v
    <3>2. /\ b \in Seq(Nat) /\ Len(b) = n + 1 /\ b[n + 1] = x
          /\ \A i \in 1..n : b[i] = v[i]
      BY <3>1
    <3> HIDE DEF b
    <3>3. b = [i \in 1..n + 1 |-> b[i]]
      BY <3>2
    <3>4. ASSUME NEW i \in 1..n + 1 PROVE b[i] = IF i = n + 1 THEN x ELSE v[i]
      <4>1. n \in Nat
        BY <2>1
      <4>2. i # n + 1 => i \in 1..n
        BY <4>1
      <4> QED BY <3>2, <4>2
    <3> QED BY <3>3, <3>4 DEF b, v
  <2> QED BY <2>1, <2>2, <2>3 DEF a
<1> QED BY <1>1, <1>2, <1>3, <1>4

LEMMA BytesFacts ==
  ASSUME NEW text \in Seq(Nat)
  PROVE  /\ BytesOf(text) \in Nat /\ BytesOf(<<>>) = 0
         /\ \A n \in 0..Len(text) :
              /\ SubSeq(text, 1, n) \in Seq(Nat) /\ BytesOf(SubSeq(text, 1, n)) \in Nat
              /\ BytesOf(SubSeq(text, 1, n)) <= BytesOf(text)
         /\ BytesOf(text \o Dots) = BytesOf(text) + 3
<1>1. /\ Widths(text) \in Seq(Nat) /\ Len(Widths(text)) = Len(text)
      /\ BytesOf(text) = Total(Widths(text)) /\ 0 \in 0..Len(text)
  BY WidthsOf
<1>2. BytesOf(text) \in Nat /\ Total(<<>>) = 0
  BY <1>1, TotalPrefix
<1>3. BytesOf(<<>>) = 0
  <2>1. <<>> \in Seq(Nat) /\ Len(<<>>) = 0
    OBVIOUS
  <2>2. Widths(<<>>) \in Seq(Nat) /\ Len(Widths(<<>>)) = 0 /\ BytesOf(<<>>) = Total(Widths(<<>>))
    BY <2>1, WidthsOf
  <2>3. Widths(<<>>) = <<>>
    BY <2>2
  <2> QED BY <1>2, <2>2, <2>3
<1>4. ASSUME NEW n \in 0..Len(text)
      PROVE  /\ SubSeq(text, 1, n) \in Seq(Nat) /\ BytesOf(SubSeq(text, 1, n)) \in Nat
             /\ BytesOf(SubSeq(text, 1, n)) <= BytesOf(text)
  <2>1. /\ SubSeq(text, 1, n) \in Seq(Nat)
        /\ Widths(SubSeq(text, 1, n)) = SubSeq(Widths(text), 1, n)
    BY WidthsOf
  <2>2. BytesOf(SubSeq(text, 1, n)) = Total(SubSeq(Widths(text), 1, n))
    BY <2>1, WidthsOf
  <2>3. n \in 0..Len(Widths(text))
    BY <1>1
  <2> QED BY <1>1, <2>1, <2>2, <2>3, TotalPrefix
<1>5. BytesOf(text \o Dots) = BytesOf(text) + 3
  <2> DEFINE a == Append(text, 1)
             b == Append(a, 1)
             c == Append(b, 1)
  <2>1. /\ a \in Seq(Nat) /\ b \in Seq(Nat) /\ c \in Seq(Nat)
        /\ text \o Dots = c
    BY DEF Dots
  <2>2. ASSUME NEW u \in Seq(Nat), BytesOf(u) \in Nat
        PROVE  BytesOf(Append(u, 1)) = BytesOf(u) + 1
    <3>1. /\ Append(u, 1) \in Seq(Nat) /\ Widths(u) \in Seq(Nat)
          /\ Widths(Append(u, 1)) = Append(Widths(u), 1) /\ BytesOf(u) = Total(Widths(u))
      <4>1. 1 \in Nat \ {0}
        OBVIOUS
      <4> QED BY <4>1, WidthsOf
    <3>2. BytesOf(Append(u, 1)) = Total(Widths(Append(u, 1)))
      BY <3>1, WidthsOf
    <3> QED BY <3>1, <3>2, TotalAppend
  <2> HIDE DEF a, b, c
  <2>3. BytesOf(a) = BytesOf(text) + 1 /\ BytesOf(a) \in Nat
    BY <1>2, <2>2 DEF a
  <2>4. BytesOf(b) = BytesOf(a) + 1 /\ BytesOf(b) \in Nat
    BY <2>1, <2>2, <2>3 DEF b
  <2>5. BytesOf(c) = BytesOf(b) + 1
    BY <2>1, <2>2, <2>4 DEF c
  <2> QED BY <1>2, <2>1, <2>3, <2>4, <2>5
<1> QED BY <1>2, <1>3, <1>4, <1>5

(* The clamp: what is cut and stripped is a beginning of the text.           *)

LEMMA CutFits ==
  ASSUME NEW text \in Seq(Nat), NEW limit \in Nat
  PROVE  \E n \in 0..Len(text) : /\ Cut(text, limit) = SubSeq(text, 1, n)
                                 /\ BytesOf(SubSeq(text, 1, n)) <= limit
<1> DEFINE Fits(n) == BytesOf(SubSeq(text, 1, n)) <= limit
           IsCut(n) == Fits(n) /\ (n < Len(text) => BytesOf(SubSeq(text, 1, n + 1)) > limit)
           TooLong == {n \in 0..Len(text) : ~ Fits(n)}
<1>1. Len(text) \in Nat /\ \A n \in 0..Len(text) : BytesOf(SubSeq(text, 1, n)) \in Nat
  BY BytesFacts
<1>2. Fits(0)
  <2>1. BytesOf(SubSeq(text, 1, 0)) = 0
    <3>1. SubSeq(text, 1, 0) = <<>>
      OBVIOUS
    <3>2. BytesOf(<<>>) = 0
      BY BytesFacts
    <3> QED BY <3>1, <3>2, Zenon
  <2>2. \A x : x = 0 => x <= limit
    OBVIOUS
  <2> QED BY <2>1, <2>2, Zenon
<1>3. \E n \in 0..Len(text) : IsCut(n)
  <2>1. CASE TooLong = {}
    <3>1. Len(text) \in 0..Len(text)
      BY <1>1
    <3>2. IsCut(Len(text))
      BY <1>1, <2>1, <3>1
    <3> QED BY <3>1, <3>2
  <2>2. CASE TooLong # {}
    <3>1. TooLong \in SUBSET Nat
      OBVIOUS
    <3>2. PICK m \in TooLong : \A n \in TooLong : m <= n
      BY <2>2, <3>1, Least
    <3>3. m \in 1..Len(text) /\ ~ Fits(m)
      BY <1>1, <1>2, <3>2
    <3>4. m - 1 \in 0..Len(text) /\ (m - 1) + 1 = m /\ m - 1 < m
      BY <1>1, <3>3
    <3>5. Fits(m - 1)
      BY <3>2, <3>4
    <3>6. BytesOf(SubSeq(text, 1, m)) > limit
      BY <1>1, <3>3
    <3>7. IsCut(m - 1)
      BY <3>4, <3>5, <3>6
    <3> QED BY <3>4, <3>7
  <2> QED BY <2>1, <2>2
<1>4. PICK n : n = CHOOSE k \in 0..Len(text) : IsCut(k)
  OBVIOUS
<1>5. n \in 0..Len(text) /\ IsCut(n)
  BY <1>3, <1>4
<1>6. Cut(text, limit) = SubSeq(text, 1, n)
  BY <1>4 DEF Cut
<1> QED BY <1>5, <1>6

LEMMA StripIsPrefix ==
  ASSUME NEW text \in Seq(Nat)
  PROVE  \E n \in 0..Len(text) : rstrip(text) = SubSeq(text, 1, n)
<1> DEFINE Blank(n) == \A i \in n + 1..Len(text) : text[i] = 0
           IsEnd(n) == (n > 0 => text[n] # 0) /\ Blank(n)
           Ends == {n \in 0..Len(text) : Blank(n)}
<1>1. Len(text) \in Nat
  OBVIOUS
<1>2. Len(text) \in Ends
  BY <1>1
<1>3. PICK m \in Ends : \A n \in Ends : m <= n
  <2>1. Ends \in SUBSET Nat
    OBVIOUS
  <2> HIDE DEF Ends
  <2> QED BY <1>2, <2>1, Least
<1>4. IsEnd(m)
  <2> SUFFICES ASSUME m > 0, text[m] = 0 PROVE FALSE
    BY <1>3
  <2>1. m - 1 \in 0..Len(text) /\ m - 1 < m /\ (m - 1) + 1 = m
    BY <1>1, <1>3
  <2>2. Blank(m - 1)
    BY <1>1, <1>3, <2>1
  <2>3. m - 1 \in Ends
    BY <2>1, <2>2
  <2> HIDE DEF Ends, Blank
  <2>4. m <= m - 1
    BY <1>3, <2>3
  <2>5. m \in Int
    BY <1>1, <1>3 DEF Ends
  <2> QED BY <2>4, <2>5
<1>5. PICK n : n = CHOOSE k \in 0..Len(text) : IsEnd(k)
  OBVIOUS
<1>6. n \in 0..Len(text)
  BY <1>3, <1>4, <1>5
<1>7. rstrip(text) = SubSeq(text, 1, n)
  BY <1>5 DEF rstrip
<1> QED BY <1>6, <1>7

LEMMA NotesFit == ChatsFit
<1> SUFFICES ASSUME NEW text \in Texts PROVE ChatSize(clamp_note(text)) <= BUDGET
  BY DEF ChatsFit
<1> DEFINE Room == BUDGET - ChatSize(<<>>)
<1>1. text \in Seq(Nat) /\ BytesOf(text) \in Nat /\ BytesOf(<<>>) = 0
  BY FitAssumption, BytesFacts
<1>2. MAX_NOTE_BYTES \in Int /\ BUDGET = MAX_NOTE_BYTES + Header + 1
  BY <1>1, WireAssumption DEF MAX_NOTE_BYTES, ChatSize, lp, Header
<1>3. ASSUME NEW u, BytesOf(u) \in Nat, BytesOf(u) <= MAX_NOTE_BYTES
      PROVE  ChatSize(u) <= BUDGET
  BY <1>2, <1>3 DEF ChatSize, lp, Header
<1>4. CASE BytesOf(text) <= MAX_NOTE_BYTES
  BY <1>1, <1>3, <1>4 DEF clamp_note
<1>5. CASE ~ (BytesOf(text) <= MAX_NOTE_BYTES)
  <2> DEFINE limit == MAX_NOTE_BYTES - 3
             c == Cut(text, limit)
             u == rstrip(c)
  <2>1. limit \in Nat
    <3>1. BytesOf(Dots) = 3
      <4>1. <<>> \in Seq(Nat) /\ <<>> \o Dots = Dots
        BY DEF Dots
      <4>2. BytesOf(<<>> \o Dots) = BytesOf(<<>>) + 3
        BY <4>1, BytesFacts
      <4> QED BY <1>1, <4>1, <4>2
    <3>2. ChatSize(Dots) <= BUDGET
      BY FitAssumption
    <3> QED BY <1>2, <3>1, <3>2 DEF ChatSize, lp, Header
  <2> HIDE DEF limit
  <2>2. PICK n \in 0..Len(text) : c = SubSeq(text, 1, n) /\ BytesOf(SubSeq(text, 1, n)) <= limit
    BY <1>1, <2>1, CutFits
  <2>3. c \in Seq(Nat) /\ BytesOf(c) \in Nat /\ BytesOf(c) <= limit
    BY <1>1, <2>2, BytesFacts
  <2> HIDE DEF c
  <2>4. PICK k \in 0..Len(c) : u = SubSeq(c, 1, k)
    BY <2>3, StripIsPrefix
  <2>5. u \in Seq(Nat) /\ BytesOf(u) \in Nat /\ BytesOf(u) <= BytesOf(c)
    BY <2>3, <2>4, BytesFacts
  <2> HIDE DEF u
  <2>6. BytesOf(u \o Dots) = BytesOf(u) + 3
    BY <2>5, BytesFacts
  <2>7. BytesOf(u \o Dots) \in Nat /\ BytesOf(u \o Dots) <= MAX_NOTE_BYTES
    BY <1>2, <2>3, <2>5, <2>6 DEF limit
  <2>8. clamp_note(text) = u \o Dots
    BY <1>5 DEF clamp_note, u, c, limit
  <2> QED BY <1>3, <2>7, <2>8
<1> QED BY <1>4, <1>5

(* The parts of a log.                                                      *)

Logs == Seq(MoveBytes)
Groups == Seq(Logs) \ {<<>>}
Flat(f, parts) == f[0] = <<>> /\ \A i \in 1..Len(parts) : f[i] = f[i - 1] \o parts[i]

LEMMA FlattenedIsFlat ==
  ASSUME NEW parts \in Seq(Logs)
  PROVE  \E f \in [0..Len(parts) -> Logs] : Flat(f, parts) /\ Flattened(parts) = f[Len(parts)]
<1> DEFINE n == Len(parts)
           Flats(f) == f = [i \in 0..n |-> IF i = 0 THEN <<>> ELSE f[i - 1] \o parts[i]]
           F == [i \in 1..n |-> [x \in Logs |-> x \o parts[i]]]
<1>1. n \in Nat
  OBVIOUS
<1>0. <<>> \in Logs /\ F \in [1..n -> [Logs -> Logs]]
  <2>1. <<>> \in Logs
    BY DEF Logs
  <2>2. \A i \in 1..n, x \in Logs : x \o parts[i] \in Logs
    BY DEF Logs
  <2> QED BY <2>1, <2>2
<1>2. \A i \in 1..n, x \in Logs : F[i][x] = x \o parts[i]
  OBVIOUS
<1> HIDE DEF F, n, Flats
<1>3. PICK g \in [0..n -> Logs] : Folds(g, <<>>, F, n)
  BY <1>0, <1>1, Recursion
<1>4. ASSUME NEW i \in 1..n PROVE g[i] = g[i - 1] \o parts[i]
  <2>1. g[i - 1] \in Logs
    BY <1>1, <1>3
  <2>2. g[i] = F[i][g[i - 1]]
    BY <1>3 DEF Folds
  <2> QED BY <1>2, <2>1, <2>2, Zenon
<1>5. Flats(g)
  <2>1. g[0] = <<>> /\ g = [i \in 0..n |-> g[i]]
    BY <1>3 DEF Folds
  <2>2. ASSUME NEW i \in 0..n PROVE g[i] = IF i = 0 THEN <<>> ELSE g[i - 1] \o parts[i]
    <3>1. i # 0 => i \in 1..n
      BY <1>1
    <3> QED BY <1>4, <2>1, <3>1
  <2> QED BY <2>1, <2>2, Zenon DEF Flats
<1>6. PICK s : s = (CHOOSE flat : Flats(flat))
  OBVIOUS
<1>7. Flats(s)
  BY <1>5, <1>6
<1>8. s[0] = <<>> /\ \A i \in 1..n : s[i] = s[i - 1] \o parts[i]
  <2>1. 0 \in 0..n /\ \A i \in 1..n : i \in 0..n /\ i # 0
    BY <1>1
  <2>2. \A i \in 0..n : s[i] = IF i = 0 THEN <<>> ELSE s[i - 1] \o parts[i]
    BY <1>7, Zenon DEF Flats
  <2> QED BY <2>1, <2>2
<1> DEFINE S == {i \in Nat : i <= n => s[i] \in Logs}
<1>9. 0 \in S
  BY <1>0, <1>8
<1>10. ASSUME NEW i \in Nat, i \in S PROVE i + 1 \in S
  <2> SUFFICES ASSUME i + 1 <= n PROVE s[i + 1] \in Logs
    OBVIOUS
  <2>1. i + 1 \in 1..n /\ (i + 1) - 1 = i /\ s[i] \in Logs
    BY <1>1, <1>10
  <2>2. s[i + 1] = s[i] \o parts[i + 1]
    BY <1>8, <2>1
  <2>3. parts[i + 1] \in Logs
    BY <2>1 DEF n
  <2> QED BY <2>1, <2>2, <2>3 DEF Logs
<1> HIDE DEF S
<1>11. s \in [0..n -> Logs]
  <2>1. \A i \in Nat : i \in S
    BY <1>9, <1>10, Induct
  <2>2. \A i \in 0..n : s[i] \in Logs
    BY <1>1, <2>1 DEF S
  <2>3. s = [i \in 0..n |-> s[i]]
    <3>1. \A i \in 0..n : s[i] = IF i = 0 THEN <<>> ELSE s[i - 1] \o parts[i]
      BY <1>7, Zenon DEF Flats
    <3> QED BY <1>7, <3>1 DEF Flats
  <2> QED BY <2>2, <2>3
<1>12. Flattened(parts) = s[n]
  BY <1>6 DEF Flattened, n, Flats
<1> QED BY <1>8, <1>11, <1>12 DEF Flat, n

LEMMA FlatsAgree ==
  ASSUME NEW w \in Seq(Logs), NEW v \in Seq(Logs), NEW n \in Nat, Agree(w, v, n),
         NEW s, Flat(s, w), NEW r, Flat(r, v)
  PROVE  s[n] = r[n]
<1> DEFINE S == {i \in Nat : i <= n => s[i] = r[i]}
<1>1. /\ Len(w) \in Nat /\ Len(v) \in Nat /\ n <= Len(w) /\ n <= Len(v)
      /\ \A i \in 1..n : w[i] = v[i]
  BY DEF Agree
<1>2. 0 \in S
  BY DEF Flat
<1>3. ASSUME NEW i \in Nat, i \in S PROVE i + 1 \in S
  <2> SUFFICES ASSUME i + 1 <= n PROVE s[i + 1] = r[i + 1]
    OBVIOUS
  <2>1. /\ i + 1 \in 1..n /\ i + 1 \in 1..Len(w) /\ i + 1 \in 1..Len(v)
        /\ (i + 1) - 1 = i /\ s[i] = r[i]
    BY <1>1, <1>3
  <2>2. s[i + 1] = s[i] \o w[i + 1] /\ r[i + 1] = r[i] \o v[i + 1]
    BY <2>1 DEF Flat
  <2>3. w[i + 1] = v[i + 1]
    BY <1>1, <2>1
  <2> QED BY <2>1, <2>2, <2>3
<1> HIDE DEF S
<1>4. n \in S
  BY <1>2, <1>3, Induct
<1> QED BY <1>4 DEF S

(* Parts that agree up to their last flatten to what those before it do, and the last. *)
LEMMA FlattenedLast ==
  ASSUME NEW w \in Seq(Logs), NEW v \in Seq(Logs), NEW n \in Nat,
         n <= Len(w), Len(v) = n + 1, Agree(w, v, n),
         NEW s, Flat(s, w)
  PROVE  Flattened(v) = s[n] \o v[n + 1]
<1>1. PICK r \in [0..Len(v) -> Logs] : Flat(r, v) /\ Flattened(v) = r[Len(v)]
  BY FlattenedIsFlat
<1>2. s[n] = r[n]
  BY <1>1, FlatsAgree
<1>3. n + 1 \in 1..Len(v) /\ (n + 1) - 1 = n
  OBVIOUS
<1>4. r[n + 1] = r[n] \o v[n + 1]
  BY <1>1, <1>3 DEF Flat
<1> QED BY <1>1, <1>2, <1>4

LEMMA SizeFacts ==
  /\ SyncStateSize(<<>>) \in Nat
  /\ \A whole \in Logs : SyncStateSize(whole) \in Nat
<1> SUFFICES ASSUME NEW whole \in Logs PROVE SyncStateSize(whole) \in Nat
  <2>1. <<>> \in Logs
    BY DEF Logs
  <2> QED BY <2>1
<1> DEFINE w == [i \in 1..Len(whole) |-> lp(whole[i])]
<1>1. w \in Seq(Nat)
  <2>0. \A i \in 1..Len(whole) : whole[i] \in MoveBytes
    BY DEF Logs
  <2>1. \A i \in 1..Len(whole) : whole[i] \in Nat
    BY <2>0, RadioAssumption
  <2>2. \A i \in 1..Len(whole) : lp(whole[i]) \in Nat
    BY <2>1 DEF lp
  <2>3. Len(whole) \in Nat
    BY DEF Logs
  <2> QED BY <2>2, <2>3
<1> HIDE DEF w
<1>2. Total(w) \in Nat
  <2>1. 0 \in 0..Len(w)
    BY <1>1
  <2> QED BY <1>1, <2>1, TotalPrefix
<1>3. SyncStateSize(whole) = Header + 2 + lp(HashLen) + 2 + Total(w)
  BY DEF SyncStateSize, w
<1> QED BY <1>2, <1>3, WireAssumption DEF Header, lp

AllFit(groups) == \A i \in 1..Len(groups) : SyncStateSize(groups[i]) <= BUDGET

LEMMA AppendLast ==
  ASSUME NEW T, NEW a \in Seq(T), NEW b \in Seq(T), NEW x \in T
  PROVE  a \o Append(b, x) = Append(a \o b, x)
<1>1. a \o Append(b, x) \in Seq(T) /\ Append(a \o b, x) \in Seq(T)
  OBVIOUS
<1>2. /\ Len(a) \in Nat /\ Len(b) \in Nat
      /\ Len(a \o Append(b, x)) = Len(a) + Len(b) + 1
      /\ Len(Append(a \o b, x)) = Len(a) + Len(b) + 1
  OBVIOUS
<1>3. ASSUME NEW i \in 1..Len(a) + Len(b) + 1
      PROVE  (a \o Append(b, x))[i] = Append(a \o b, x)[i]
  <2>1. CASE i <= Len(a)
    BY <1>2, <2>1
  <2>2. CASE i > Len(a) /\ i <= Len(a) + Len(b)
    BY <1>2, <2>2
  <2>3. CASE i = Len(a) + Len(b) + 1
    BY <1>2, <2>3
  <2> QED BY <1>2, <2>1, <2>2, <2>3
<1> QED BY <1>1, <1>2, <1>3

LEMMA GroupedKeeps ==
  ASSUME NEW groups \in Groups, NEW mv \in MoveBytes
  PROVE  /\ Grouped(groups, mv) \in Groups
         /\ Flattened(Grouped(groups, mv)) = Append(Flattened(groups), mv)
         /\ AllFit(groups) => AllFit(Grouped(groups, mv))
<1> DEFINE n == Len(groups)
           last == Append(groups[n], mv)
<1>1. /\ groups \in Seq(Logs) /\ n \in Nat /\ n >= 1 /\ n \in 1..n /\ groups[n] \in Seq(MoveBytes)
      /\ \A i \in 1..n : groups[i] \in Logs
  BY DEF Groups, Logs
<1>2. last \in Logs /\ <<mv>> \in Logs
  BY <1>1 DEF Logs
<1> HIDE DEF n
<1>3. PICK s \in [0..n -> Logs] : Flat(s, groups) /\ Flattened(groups) = s[n]
  BY <1>1, FlattenedIsFlat DEF n
<1>4. s[n] \in Seq(MoveBytes)
  BY <1>1, <1>3 DEF Logs
<1>5. CASE SyncStateSize(last) > BUDGET
  <2> DEFINE v == Append(groups, <<mv>>)
  <2>1. Grouped(groups, mv) = v
    BY <1>5 DEF Grouped, n
  <2>2. /\ v \in Seq(Logs) /\ Len(v) = n + 1 /\ v[n + 1] = <<mv>>
        /\ \A i \in 1..n : v[i] = groups[i]
    BY <1>1, <1>2 DEF n
  <2> HIDE DEF v
  <2>3. Agree(groups, v, n) /\ n <= Len(groups)
    BY <1>1, <2>2 DEF Agree, n
  <2>4. Flattened(v) = s[n] \o v[n + 1]
    <3>1. groups \in Seq(Logs) /\ Flat(s, groups) /\ n \in Nat
      BY <1>1, <1>3
    <3> QED BY <2>2, <2>3, <3>1, FlattenedLast
  <2>5. s[n] \o <<mv>> = Append(s[n], mv)
    BY <1>4
  <2>6. v \in Groups
    BY <1>1, <2>2 DEF Groups
  <2>7. ASSUME AllFit(groups) PROVE AllFit(v)
    <3> SUFFICES ASSUME NEW i \in 1..n + 1 PROVE SyncStateSize(v[i]) <= BUDGET
      BY <2>2 DEF AllFit
    <3>1. SyncStateSize(<<mv>>) <= BUDGET
      BY FitAssumption
    <3>2. i # n + 1 => i \in 1..n
      BY <1>1
    <3>3. \A j \in 1..n : SyncStateSize(groups[j]) <= BUDGET
      BY <2>7 DEF AllFit, n
    <3> QED BY <2>2, <3>1, <3>2, <3>3
  <2>8. Flattened(v) = Append(Flattened(groups), mv)
    BY <1>3, <2>2, <2>4, <2>5
  <2> QED BY <2>1, <2>6, <2>7, <2>8
<1>6. CASE ~ (SyncStateSize(last) > BUDGET)
  <2> DEFINE v == [groups EXCEPT ![n] = last]
  <2>1. Grouped(groups, mv) = v
    BY <1>6 DEF Grouped, n
  <2> HIDE DEF last
  <2>2. /\ v \in Seq(Logs) /\ Len(v) = n /\ v[n] = last
        /\ \A i \in 1..n - 1 : v[i] = groups[i]
    BY <1>1, <1>2 DEF n
  <2> HIDE DEF v
  <2>3. PICK k \in Nat : k = n - 1
    BY <1>1
  <2>4. k <= Len(groups) /\ n = k + 1 /\ Len(v) = k + 1
    BY <1>1, <2>2, <2>3 DEF n
  <2>5. Flattened(v) = s[n - 1] \o v[n]
    <3>1. Agree(groups, v, k)
      BY <1>1, <2>2, <2>3 DEF Agree, n
    <3>2. groups \in Seq(Logs) /\ Flat(s, groups)
      BY <1>1, <1>3
    <3>3. Flattened(v) = s[k] \o v[k + 1]
      BY <2>2, <2>4, <3>1, <3>2, FlattenedLast
    <3> QED BY <2>3, <2>4, <3>3
  <2>6. s[n] = s[n - 1] \o groups[n]
    BY <1>1, <1>3 DEF Flat, n
  <2>7. s[n - 1] \in Seq(MoveBytes)
    BY <1>1, <1>3 DEF Logs
  <2>8. s[n - 1] \o Append(groups[n], mv) = Append(s[n - 1] \o groups[n], mv)
    <3>1. PICK a, b : a = s[n - 1] /\ b = groups[n]
      OBVIOUS
    <3>2. a \in Seq(MoveBytes) /\ b \in Seq(MoveBytes)
      BY <1>1, <2>7, <3>1
    <3>3. a \o Append(b, mv) = Append(a \o b, mv)
      BY <3>2, AppendLast
    <3> QED BY <3>1, <3>3, Zenon
  <2>9. Flattened(v) = Append(Flattened(groups), mv)
    BY <1>3, <2>2, <2>5, <2>6, <2>8 DEF last
  <2>10. v \in Groups
    BY <1>1, <2>2 DEF Groups
  <2>11. ASSUME AllFit(groups) PROVE AllFit(v)
    <3> SUFFICES ASSUME NEW i \in 1..n PROVE SyncStateSize(v[i]) <= BUDGET
      BY <2>2 DEF AllFit
    <3>1. SyncStateSize(last) <= BUDGET
      <4>1. SyncStateSize(last) \in Nat
        BY <1>2, SizeFacts DEF last
      <4> QED BY <1>6, <4>1, WireAssumption DEF last
    <3>2. i # n => i \in 1..n - 1
      BY <1>1
    <3>3. \A j \in 1..n : SyncStateSize(groups[j]) <= BUDGET
      BY <2>11 DEF AllFit, n
    <3> QED BY <2>2, <3>1, <3>2, <3>3
  <2> QED BY <2>1, <2>9, <2>10, <2>11
<1> QED BY <1>5, <1>6

LEMMA ChunksFit ==
  ASSUME NEW whole \in Logs
  PROVE  /\ Flattened(chunk_sync_state(whole)) = whole
         /\ AllFit(chunk_sync_state(whole))
<1> DEFINE n == Len(whole)
           none == << <<>> >>
           Chunks(g) == g = [i \in 0..n |-> IF i = 0 THEN none ELSE Grouped(g[i - 1], whole[i])]
           F == [i \in 1..n |-> [x \in Groups |-> Grouped(x, whole[i])]]
<1>1. n \in Nat /\ \A i \in 1..n : whole[i] \in MoveBytes
  BY DEF Logs
<1>2. none \in Groups /\ Len(none) = 1 /\ none[1] = <<>>
  <2>1. <<>> \in Logs
    BY DEF Logs
  <2> QED BY <2>1 DEF Groups
<1>3. F \in [1..n -> [Groups -> Groups]]
  BY <1>1, GroupedKeeps
<1>4. \A i \in 1..n, x \in Groups : F[i][x] = Grouped(x, whole[i])
  OBVIOUS
<1> HIDE DEF F, n, none, Chunks
<1>5. PICK g \in [0..n -> Groups] : Folds(g, none, F, n)
  BY <1>1, <1>2, <1>3, Recursion
<1>6. ASSUME NEW i \in 1..n PROVE g[i] = Grouped(g[i - 1], whole[i])
  <2>1. g[i - 1] \in Groups
    BY <1>1, <1>5
  <2>2. g[i] = F[i][g[i - 1]]
    BY <1>5 DEF Folds
  <2> QED BY <1>4, <2>1, <2>2, Zenon
<1>7. Chunks(g)
  <2>1. g[0] = none /\ g = [i \in 0..n |-> g[i]]
    BY <1>5 DEF Folds
  <2>2. ASSUME NEW i \in 0..n PROVE g[i] = IF i = 0 THEN none ELSE Grouped(g[i - 1], whole[i])
    <3>1. i # 0 => i \in 1..n
      BY <1>1
    <3> QED BY <1>6, <2>1, <3>1
  <2> QED BY <2>1, <2>2, Zenon DEF Chunks
<1>8. PICK s : s = (CHOOSE groups : Chunks(groups))
  OBVIOUS
<1>9. Chunks(s)
  BY <1>7, <1>8
<1>10. s[0] = none /\ \A i \in 1..n : s[i] = Grouped(s[i - 1], whole[i])
  <2>1. 0 \in 0..n /\ \A i \in 1..n : i \in 0..n /\ i # 0
    BY <1>1
  <2>2. \A i \in 0..n : s[i] = IF i = 0 THEN none ELSE Grouped(s[i - 1], whole[i])
    BY <1>9, Zenon DEF Chunks
  <2> QED BY <2>1, <2>2
<1> DEFINE Right(i) == s[i] \in Groups /\ Flattened(s[i]) = SubSeq(whole, 1, i) /\ AllFit(s[i])
           S == {i \in Nat : i <= n => Right(i)}
<1>11. 0 \in S
  <2>1. Flattened(none) = <<>>
    <3>1. none \in Seq(Logs) /\ 1 \in 1..Len(none) /\ 1 - 1 = 0
      BY <1>2 DEF Groups
    <3>2. PICK f \in [0..Len(none) -> Logs] : Flat(f, none) /\ Flattened(none) = f[Len(none)]
      BY <3>1, FlattenedIsFlat
    <3>3. f[1] = f[0] \o <<>> /\ f[0] = <<>>
      BY <1>2, <3>1, <3>2 DEF Flat
    <3>4. <<>> \o <<>> = <<>>
      OBVIOUS
    <3> QED BY <1>2, <3>2, <3>3, <3>4
  <2>2. SubSeq(whole, 1, 0) = <<>>
    BY DEF Logs
  <2>3. AllFit(none)
    <3>1. ASSUME NEW i \in 1..Len(none) PROVE SyncStateSize(none[i]) <= BUDGET
      <4>1. none[i] = <<>>
        BY <1>2
      <4> QED BY <4>1, FitAssumption
    <3> QED BY <3>1 DEF AllFit
  <2>4. Right(0)
    BY <1>2, <1>10, <2>1, <2>2, <2>3
  <2> QED BY <2>4
<1>12. ASSUME NEW i \in Nat, i \in S PROVE i + 1 \in S
  <2> SUFFICES ASSUME i + 1 <= n PROVE Right(i + 1)
    OBVIOUS
  <2>1. i + 1 \in 1..n /\ (i + 1) - 1 = i /\ Right(i)
    BY <1>1, <1>12
  <2>2. s[i + 1] = Grouped(s[i], whole[i + 1]) /\ whole[i + 1] \in MoveBytes
    BY <1>1, <1>10, <2>1
  <2>3. /\ s[i + 1] \in Groups
        /\ Flattened(s[i + 1]) = Append(Flattened(s[i]), whole[i + 1])
        /\ AllFit(s[i + 1])
    BY <2>1, <2>2, GroupedKeeps
  <2>4. Append(SubSeq(whole, 1, i), whole[i + 1]) = SubSeq(whole, 1, i + 1)
    BY <1>1, <2>1 DEF Logs, n
  <2> QED BY <2>1, <2>3, <2>4
<1> HIDE DEF S
<1>13. n \in S
  BY <1>1, <1>11, <1>12, Induct
<1>14. Right(n)
  BY <1>1, <1>13 DEF S
<1>15. SubSeq(whole, 1, n) = whole
  BY DEF Logs, n
<1>16. chunk_sync_state(whole) = s[n]
  BY <1>8 DEF chunk_sync_state, n, none, Chunks
<1> QED BY <1>14, <1>15, <1>16

MovesInv == moves \in Logs

(* FramesFit: whatever the moves and the notes, a log goes out in parts that  *)
(* each keep the budget and put together are the log, and a note is cut to    *)
(* what fits (chunk_sync_state, Node.send_chat).                            *)
THEOREM FramesAlwaysFit == RadioSpec => []FramesFit
<1>1. RadioInit => MovesInv
  BY DEF RadioInit, MovesInv, Logs
<1>2. MovesInv /\ [RadioNext]_radioVars => MovesInv'
  <2>1. moves \in Logs /\ ReceivesMove => moves' \in Logs
    BY DEF ReceivesMove, Logs
  <2> QED BY <2>1 DEF RadioNext, radioVars, Ingest, Enqueue, Take, AnswersSyncRequest, AnswersText,
               MovesInv
<1>3. MovesInv => FramesFit
  <2> SUFFICES ASSUME moves \in Logs PROVE FramesFit
    BY DEF MovesInv
  <2>1. /\ Flattened(chunk_sync_state(moves)) = moves
        /\ AllFit(chunk_sync_state(moves))
    BY ChunksFit
  <2> QED BY <2>1, NotesFit DEF FramesFit, AllFit
<1> QED BY <1>1, <1>2, <1>3, PTL DEF RadioSpec

-----------------------------------------------------------------------------
(* The lobby. Whatever the network repeats, reorders and delays, and whoever   *)
(* announces another's card, the card listed is the latest that came in, and  *)
(* whoever is listed said so themselves not long ago.                       *)

(* A card its author announced, as against one that another repeats.         *)
ByAuthor(a) == a.from = a.signer

(* What is under way is not older than the network's delay.                 *)
AirInv ==
  \A a \in air :
    /\ a.since <= time /\ time - a.since <= MaxDelay
    /\ ByAuthor(a) => a.since <= told[a.signer] /\ a.at > 0 /\ a.at <= own[a.signer]

(* A card older than one that came in was announced before that one did, and *)
(* so is gone from the air by the time the list has forgotten the author.    *)
CardOrderInv ==
  \A a \in air :
    ByAuthor(a) /\ a.at < newest[a.signer] =>
      heard[a.signer] # NotHeard /\ a.since <= heard[a.signer].heard_at

CardHeardInv ==
  \A n \in Node :
    /\ newest[n] <= own[n]
    /\ heard[n] # NotHeard =>
         heard[n].heard_at <= time /\ heard[n].heard_at - told[n] <= MaxDelay

LobbyInv == LobbyTypeOK /\ AirInv /\ CardOrderInv /\ CardHeardInv /\ NewestWins

USE LobbyAssumption

-----------------------------------------------------------------------------
LEMMA NotHeardType == NotHeard \in [at : Nat, heard_at : Nat]
BY DEF NotHeard

LEMMA LobbyInitInv == LobbyInit => LobbyInv
<1> SUFFICES ASSUME LobbyInit PROVE LobbyInv
  OBVIOUS
<1>1. LobbyTypeOK
  BY NotHeardType DEF LobbyInit, LobbyTypeOK
<1>2. AirInv /\ CardOrderInv
  BY DEF LobbyInit, AirInv, CardOrderInv
<1>3. CardHeardInv /\ NewestWins
  BY DEF LobbyInit, CardHeardInv, NewestWins
<1> QED
  BY <1>1, <1>2, <1>3 DEF LobbyInv

(* A card of the author's own is not older than their last one.              *)
LEMMA PublishKeeps ==
  ASSUME NEW n \in Node, LobbyInv, Publish(n) PROVE LobbyInv'
<1> PICK at \in own[n]..MaxCards :
       /\ at > 0
       /\ own' = [own EXCEPT ![n] = at]
       /\ air' = air \cup {[from |-> n, signer |-> n, at |-> at, since |-> time]}
  BY DEF Publish
<1> DEFINE new == [from |-> n, signer |-> n, at |-> at, since |-> time]
<1>0. LobbyTypeOK /\ AirInv /\ CardOrderInv /\ CardHeardInv /\ NewestWins
  BY DEF LobbyInv
<1>1. told' = [told EXCEPT ![n] = time] /\ UNCHANGED <<time, heard, newest>>
  BY DEF Publish
<1>2. own[n] \in Nat /\ at \in Nat /\ at >= own[n] /\ time \in Nat /\ newest[n] \in Nat
  BY <1>0 DEF LobbyTypeOK
<1>3. new \in [from : Node, signer : Node, at : Nat, since : Nat]
  BY <1>2
<1>4. LobbyTypeOK'
  BY <1>0, <1>1, <1>2, <1>3 DEF LobbyTypeOK
<1>5. AirInv'
  BY <1>0, <1>1, <1>2 DEF LobbyTypeOK, AirInv, ByAuthor
<1>6. newest[n] <= at
  BY <1>0, <1>2 DEF CardHeardInv
<1>7. CardOrderInv'
  BY <1>0, <1>1, <1>2, <1>6 DEF LobbyTypeOK, CardOrderInv, ByAuthor
<1>8. CardHeardInv'
  BY <1>0, <1>1, <1>2, <1>6 DEF LobbyTypeOK, CardHeardInv
<1>9. NewestWins'
  BY <1>0, <1>1 DEF NewestWins
<1> QED
  BY <1>4, <1>5, <1>7, <1>8, <1>9 DEF LobbyInv

(* Another's card changes nothing that counts.                              *)
LEMMA RepublishKeeps ==
  ASSUME NEW n \in Node, LobbyInv, Republish(n) PROVE LobbyInv'
<1> PICK s \in Node \ {n} :
       /\ heard[s] # NotHeard
       /\ air' = air \cup {[from |-> n, signer |-> s, at |-> heard[s].at, since |-> time]}
  BY DEF Republish
<1> DEFINE new == [from |-> n, signer |-> s, at |-> heard[s].at, since |-> time]
<1>0. LobbyTypeOK /\ AirInv /\ CardOrderInv /\ CardHeardInv /\ NewestWins
  BY DEF LobbyInv
<1>1. UNCHANGED <<time, own, told, heard, newest>>
  BY DEF Republish
<1>2. heard[s] \in [at : Nat, heard_at : Nat] /\ time \in Nat
  BY <1>0 DEF LobbyTypeOK
<1>3. new \in [from : Node, signer : Node, at : Nat, since : Nat] /\ ~ByAuthor(new)
  BY <1>2 DEF ByAuthor
<1>4. LobbyTypeOK'
  BY <1>0, <1>1, <1>3 DEF LobbyTypeOK
<1>6. AirInv'
  BY <1>0, <1>1, <1>2, <1>3 DEF LobbyTypeOK, AirInv, ByAuthor
<1>7. CardOrderInv'
  BY <1>0, <1>1, <1>3 DEF CardOrderInv
<1>8. CardHeardInv' /\ NewestWins'
  BY <1>0, <1>1 DEF CardHeardInv, NewestWins
<1> QED
  BY <1>4, <1>6, <1>7, <1>8 DEF LobbyInv

(* The card that came in is the author's own, and either the latest or late. *)
LEMMA ReceiveKeeps ==
  ASSUME LobbyInv, Receive PROVE LobbyInv'
<1> PICK a \in air :
       /\ parse_announce(a)
       /\ heard' = note(a.signer, a.at)
       /\ newest' = [newest EXCEPT ![a.signer] = IF a.at > @ THEN a.at ELSE @]
  BY DEF Receive
<1> DEFINE s == a.signer
<1>0. LobbyTypeOK /\ AirInv /\ CardOrderInv /\ CardHeardInv /\ NewestWins
  BY DEF LobbyInv
<1>1. UNCHANGED <<time, own, told, air>>
  BY DEF Receive
<1>2. /\ s \in Node /\ a.at \in Nat /\ a.since \in Nat /\ time \in Nat
      /\ newest[s] \in Nat /\ own[s] \in Nat /\ told[s] \in Nat
      /\ heard[s] \in [at : Nat, heard_at : Nat]
  BY <1>0 DEF LobbyTypeOK
<1>3. /\ a.since <= time /\ time - a.since <= MaxDelay
      /\ a.since <= told[s] /\ a.at > 0 /\ a.at <= own[s]
  BY <1>0 DEF AirInv, ByAuthor, parse_announce
<1>4. CASE a.at < newest[s]
  <2>1. heard[s] # NotHeard /\ heard[s].at = newest[s]
    BY <1>0, <1>2, <1>4 DEF CardOrderInv, NewestWins, ByAuthor, parse_announce
  <2>2. UNCHANGED <<heard, newest>>
    <3>1. heard' = heard
      BY <1>4, <2>1 DEF note
    <3>2. ~(a.at > newest[s])
      BY <1>2, <1>4
    <3>3. newest' = newest
      BY <1>0, <3>2 DEF LobbyTypeOK
    <3> QED BY <3>1, <3>3
  <2> QED
    BY <1>0, <1>1, <2>2
       DEF LobbyInv, LobbyTypeOK, AirInv, CardOrderInv, CardHeardInv, NewestWins
<1>5. CASE a.at >= newest[s]
  <2>1. newest' = [newest EXCEPT ![s] = a.at]
    <3>1. (IF a.at > newest[s] THEN a.at ELSE newest[s]) = a.at
      BY <1>2, <1>5
    <3> QED BY <3>1
  <2>2. heard' = [heard EXCEPT ![s] = [at |-> a.at, heard_at |-> time]]
    <3>1. ~(heard[s] # NotHeard /\ a.at < heard[s].at)
      BY <1>0, <1>2, <1>5 DEF NewestWins
    <3> QED BY <3>1 DEF note
  <2>3. [at |-> a.at, heard_at |-> time] \in [at : Nat, heard_at : Nat]
    BY <1>2
  <2>4. [at |-> a.at, heard_at |-> time] # NotHeard
    BY <1>2, <1>3 DEF NotHeard
  <2>5. LobbyTypeOK'
    BY <1>0, <1>1, <1>2, <2>1, <2>2, <2>3 DEF LobbyTypeOK
  <2>6. AirInv'
    BY <1>0, <1>1 DEF AirInv
  <2>7. CardOrderInv'
    <3> SUFFICES ASSUME NEW b \in air, ByAuthor(b), b.at < newest'[b.signer]
                 PROVE  heard'[b.signer] # NotHeard /\ b.since <= heard'[b.signer].heard_at
      BY <1>1 DEF CardOrderInv
    <3>1. b.signer \in Node
      BY <1>0 DEF LobbyTypeOK
    <3>2. CASE b.signer = s
      BY <1>0, <1>2, <2>2, <2>4, <3>2 DEF AirInv, LobbyTypeOK
    <3>3. CASE b.signer # s
      BY <1>0, <1>2, <2>1, <2>2, <3>1, <3>3 DEF CardOrderInv, LobbyTypeOK
    <3> QED BY <3>2, <3>3
  <2>8. CardHeardInv'
    <3> SUFFICES ASSUME NEW n \in Node
                 PROVE  /\ newest'[n] <= own[n]
                        /\ heard'[n] # NotHeard =>
                             heard'[n].heard_at <= time /\ heard'[n].heard_at - told[n] <= MaxDelay
      BY <1>1 DEF CardHeardInv
    <3>1. CASE n = s
      BY <1>0, <1>2, <1>3, <2>1, <2>2, <3>1 DEF LobbyTypeOK
    <3>2. CASE n # s
      BY <1>0, <2>1, <2>2, <3>2 DEF CardHeardInv, LobbyTypeOK
    <3> QED BY <3>1, <3>2
  <2>9. NewestWins'
    BY <1>0, <1>2, <2>1, <2>2 DEF NewestWins, LobbyTypeOK
  <2> QED
    BY <2>5, <2>6, <2>7, <2>8, <2>9 DEF LobbyInv
<1> QED
  BY <1>2, <1>4, <1>5

(* What is forgotten is older than the network's delay.                     *)
LEMMA ForgetKeeps ==
  ASSUME LobbyInv, forget_stale PROVE LobbyInv'
<1>0. LobbyTypeOK /\ AirInv /\ CardOrderInv /\ CardHeardInv /\ NewestWins
  BY DEF LobbyInv
<1>1. UNCHANGED <<time, own, told, air, newest>>
  BY DEF forget_stale
<1>2. heard' = [n \in Node |-> IF Fresh(n) THEN heard[n] ELSE NotHeard]
  BY DEF forget_stale
<1>3. LobbyTypeOK'
  BY <1>0, <1>1, <1>2, NotHeardType DEF LobbyTypeOK
<1>4. AirInv'
  BY <1>0, <1>1 DEF AirInv
<1>5. CardOrderInv'
  <2> SUFFICES ASSUME NEW a \in air, ByAuthor(a), a.at < newest[a.signer]
               PROVE  heard'[a.signer] # NotHeard /\ a.since <= heard'[a.signer].heard_at
    BY <1>1 DEF CardOrderInv
  <2>1. /\ a.signer \in Node /\ a.since \in Nat /\ time \in Nat
        /\ heard[a.signer] \in [at : Nat, heard_at : Nat]
    BY <1>0 DEF LobbyTypeOK
  <2>2. heard[a.signer] # NotHeard /\ a.since <= heard[a.signer].heard_at
    BY <1>0 DEF CardOrderInv
  <2>3. time - a.since <= MaxDelay
    BY <1>0 DEF AirInv
  <2>4. time - heard[a.signer].heard_at <= MaxAge
    BY <2>1, <2>2, <2>3
  <2> QED
    BY <1>2, <2>1, <2>2, <2>4 DEF Fresh
<1>6. CardHeardInv' /\ NewestWins'
  BY <1>0, <1>1, <1>2 DEF CardHeardInv, NewestWins
<1> QED
  BY <1>3, <1>4, <1>5, <1>6 DEF LobbyInv

LEMMA TickKeeps ==
  ASSUME LobbyInv, LobbyTick PROVE LobbyInv'
<1>0. LobbyTypeOK /\ AirInv /\ CardOrderInv /\ CardHeardInv /\ NewestWins
  BY DEF LobbyInv
<1>1. UNCHANGED <<own, told, heard, newest>> /\ time' = time + 1
  BY DEF LobbyTick
<1>2. air' \subseteq air /\ \A a \in air' : time' - a.since <= MaxDelay
  BY DEF LobbyTick
<1>3. LobbyTypeOK'
  BY <1>0, <1>1, <1>2 DEF LobbyTypeOK
<1>4. AirInv'
  BY <1>0, <1>1, <1>2 DEF LobbyTypeOK, AirInv
<1>5. CardOrderInv' /\ NewestWins'
  BY <1>0, <1>1, <1>2 DEF CardOrderInv, NewestWins
<1>6. CardHeardInv'
  BY <1>0, <1>1 DEF LobbyTypeOK, CardHeardInv
<1> QED
  BY <1>3, <1>4, <1>5, <1>6 DEF LobbyInv

LEMMA LobbyNextKeeps == LobbyInv /\ [LobbyNext]_lobbyVars => LobbyInv'
<1> SUFFICES ASSUME LobbyInv, [LobbyNext]_lobbyVars PROVE LobbyInv'
  OBVIOUS
<1>1. ASSUME NEW n \in Node, Publish(n) PROVE LobbyInv'
  BY <1>1, PublishKeeps
<1>2. ASSUME NEW n \in Node, Republish(n) PROVE LobbyInv'
  BY <1>2, RepublishKeeps
<1>3. CASE Receive
  BY <1>3, ReceiveKeeps
<1>4. CASE forget_stale
  BY <1>4, ForgetKeeps
<1>5. CASE LobbyTick
  BY <1>5, TickKeeps
<1>6. CASE UNCHANGED lobbyVars
  BY <1>6 DEF lobbyVars, LobbyInv, LobbyTypeOK, AirInv, CardOrderInv, CardHeardInv, NewestWins
<1> QED
  BY <1>1, <1>2, <1>3, <1>4, <1>5, <1>6 DEF LobbyNext

(* The inductive invariant, for any number of nodes, any age limit and any    *)
(* delay not above it.                                                      *)
THEOREM LobbyInvariance == LobbySpec => []LobbyInv
  BY LobbyInitInv, LobbyNextKeeps, PTL DEF LobbySpec

(* "Newest wins" (lobby.py:212), in whatever order cards arrive and whatever  *)
(* the list forgot in between.                                              *)
THEOREM NewestAlwaysWins == LobbySpec => []NewestWins
<1>1. LobbyInv => NewestWins
  BY DEF LobbyInv
<1> QED
  BY <1>1, LobbyInvariance, PTL

(* Whoever is listed said so within the age limit and the network's delay,    *)
(* whatever others repeat of theirs (lobby_rns.py:99).                      *)
THEOREM ListedWereThere == LobbySpec => []FreshWasAnnounced
<1>1. LobbyInv => FreshWasAnnounced
  <2> SUFFICES ASSUME LobbyInv, NEW n \in entries
               PROVE  time - told[n] <= MaxAge + MaxDelay
    BY DEF FreshWasAnnounced
  <2>1. /\ n \in Node /\ heard[n] # NotHeard /\ time - heard[n].heard_at <= MaxAge
    BY DEF entries, Fresh
  <2>2. heard[n] \in [at : Nat, heard_at : Nat] /\ told[n] \in Nat /\ time \in Nat
    BY <2>1 DEF LobbyInv, LobbyTypeOK
  <2>3. heard[n].heard_at - told[n] <= MaxDelay
    BY <2>1 DEF LobbyInv, CardHeardInv
  <2> QED
    BY <2>1, <2>2, <2>3
<1> QED
  BY <1>1, LobbyInvariance, PTL

HIDE LobbyAssumption

-----------------------------------------------------------------------------
(* The soak pair. Whatever is lost, repeated or late, for any ply_cap and any  *)
(* number of games, the logs of the two loops are never more than one ply     *)
(* apart, and no game goes beyond the cap by more than one reply.            *)

(* Who is ahead has just moved: the runner at odd lengths, the responder at   *)
(* even ones.                                                               *)
LeadInv ==
  LET a == plies["runner"]
      b == plies["responder"]
  IN  \/ a = b
      \/ a = b + 1 /\ a % 2 = 1
      \/ b = a + 1 /\ b % 2 = 0

(* A MOVE in flight is of a ply its sender has in the log, and one it made.   *)
MoveSent(m) ==
  m.t = "MOVE" =>
    /\ m.to \in Party /\ m.ply \in Nat
    /\ m.to = "responder" => m.ply % 2 = 0 /\ m.ply < plies["runner"]
    /\ m.to = "runner" => m.ply % 2 = 1 /\ m.ply < plies["responder"]

CapInv ==
  /\ plies \in [Party -> Nat]
  /\ LeadInv
  /\ \A m \in wire : MoveSent(m)
  /\ CapHolds

USE SoakAssumption

-----------------------------------------------------------------------------
LEMMA Parity ==
  ASSUME NEW n \in Nat
  PROVE  /\ n % 2 \in {0, 1}
         /\ n % 2 = 0 <=> (n + 1) % 2 = 1
         /\ n # 0 /\ n % 2 = 0 => (n - 1) % 2 = 1
         /\ n # 0 /\ n % 2 = 1 => (n - 1) % 2 = 0
         /\ (n + (n % 2)) % 2 = 0
OBVIOUS

LEMMA CapIsEven ==
  ASSUME NEW n \in Nat, n <= PlyCap + (PlyCap % 2), n % 2 = 1
  PROVE  n + 1 <= PlyCap + (PlyCap % 2)
<1>1. (PlyCap + (PlyCap % 2)) % 2 = 0
  BY Parity
<1>2. PlyCap % 2 \in {0, 1}
  BY Parity
<1> QED
  BY <1>1, <1>2

(* The messages that are not moves say nothing of the logs.                 *)
LEMMA OtherKinds ==
  MoveSent(Invite) /\ MoveSent(Accept) /\ MoveSent(Resignation) /\ MoveSent(Stray)
BY DEF MoveSent, Invite, Accept, Resignation, Stray

LEMMA MoveFields ==
  ASSUME NEW p, NEW n
  PROVE  MoveTo(p, n).t = "MOVE" /\ MoveTo(p, n).to = p /\ MoveTo(p, n).ply = n
BY DEF MoveTo

(* Where the logs stand still, only what is new in flight has to be looked at. *)
LEMMA LogsStand ==
  ASSUME CapInv, UNCHANGED plies, \A m \in wire' \ wire : MoveSent(m)
  PROVE  CapInv'
BY DEF CapInv, LeadInv, CapHolds, MoveSent

(* A log that grows leaves what was sent true.                              *)
LEMMA SentStays ==
  ASSUME CapInv, plies' \in [Party -> Nat], \A p \in Party : plies'[p] >= plies[p]
  PROVE  \A m \in wire : MoveSent(m)'
<1> SUFFICES ASSUME NEW m \in wire, m.t = "MOVE" PROVE MoveSent(m)'
  BY DEF MoveSent
<1>1. MoveSent(m)
  BY DEF CapInv
<1>2. /\ plies["runner"] \in Nat /\ plies'["runner"] \in Nat
      /\ plies["responder"] \in Nat /\ plies'["responder"] \in Nat
      /\ plies'["runner"] >= plies["runner"] /\ plies'["responder"] >= plies["responder"]
  BY DEF CapInv, Party
<1> QED
  BY <1>1, <1>2 DEF MoveSent

LEMMA StepKeeps ==
  /\ CapInv /\ StepNextGame => CapInv'
  /\ CapInv /\ StepResign => CapInv'
  /\ CapInv /\ StepMove => CapInv'
<1>1. ASSUME CapInv, StepNextGame PROVE CapInv'
  <2>1. CASE UNCHANGED <<plies, wire>>
    BY <1>1, <2>1, LogsStand
  <2>2. CASE plies' = [p \in Party |-> 0] /\ wire' = {Invite}
    <3>1. plies' \in [Party -> Nat] /\ plies'["runner"] = 0 /\ plies'["responder"] = 0
      BY <2>2 DEF Party
    <3>2. LeadInv' /\ \A m \in wire' : MoveSent(m)'
      BY <2>2, <3>1 DEF LeadInv, MoveSent, Invite
    <3>3. PlyCap % 2 \in {0, 1}
      BY Parity
    <3>4. CapHolds'
      BY <2>2, <3>3 DEF CapHolds
    <3> QED BY <3>1, <3>2, <3>4 DEF CapInv
  <2> QED BY <1>1, <2>1, <2>2 DEF StepNextGame
<1>2. ASSUME CapInv, StepResign PROVE CapInv'
  BY <1>2, LogsStand, OtherKinds DEF StepResign
<1>3. ASSUME CapInv, StepMove PROVE CapInv'
  <2> DEFINE a == plies["runner"]
             b == plies["responder"]
  <2>1. /\ plies \in [Party -> Nat] /\ a \in Nat /\ b \in Nat
        /\ a % 2 = 0 /\ a < PlyCap
        /\ plies' = [plies EXCEPT !["runner"] = a + 1]
        /\ wire' = wire \cup {MoveTo("responder", a)}
    BY <1>3 DEF CapInv, StepMove, OnTurn, Party
  <2>2. /\ plies' \in [Party -> Nat]
        /\ plies'["runner"] = a + 1 /\ plies'["responder"] = b
    BY <2>1 DEF Party
  <2>3. a = b /\ (a + 1) % 2 = 1
    BY <1>3, <2>1, Parity DEF CapInv, LeadInv
  <2>4. LeadInv'
    BY <2>2, <2>3 DEF LeadInv
  <2> PICK last \in Nat : last = a
    BY <2>1
  <2>5. MoveSent(MoveTo("responder", last))'
    BY <2>1, <2>2, MoveFields DEF MoveSent, Party
  <2>6. \A m \in wire : MoveSent(m)'
    BY <1>3, <2>1, <2>2, SentStays DEF Party
  <2>7. CapHolds'
    <3>1. PlyCap % 2 \in {0, 1} /\ b <= PlyCap + (PlyCap % 2)
      BY <1>3, Parity DEF CapInv, CapHolds, Party
    <3> QED BY <2>1, <2>2, <3>1 DEF CapHolds, Party
  <2> QED BY <2>1, <2>2, <2>4, <2>5, <2>6, <2>7 DEF CapInv
<1> QED
  BY <1>1, <1>2, <1>3

LEMMA MoveReceivedKeeps ==
  ASSUME CapInv, NEW p \in Party, MoveReceived(p) PROVE CapInv'
<1>1. PICK m \in wire :
        /\ m.t = "MOVE" /\ m.to = p
        /\ wire' = wire \ {m}
        /\ LET fresh == StatusOf(p) = "playing" /\ m.ply = plies[p]
           IN  plies' = IF fresh THEN [plies EXCEPT ![p] = @ + 1] ELSE plies
  BY DEF MoveReceived
<1>2. CASE plies' = plies
  BY <1>1, <1>2, LogsStand
<1>3. CASE m.ply = plies[p] /\ plies' = [plies EXCEPT ![p] = plies[p] + 1]
  <2> DEFINE a == plies["runner"]
             b == plies["responder"]
  <2>1. plies \in [Party -> Nat] /\ a \in Nat /\ b \in Nat /\ MoveSent(m) /\ LeadInv
    BY <1>1 DEF CapInv, Party
  <2>2. plies' \in [Party -> Nat] /\ plies'[p] = plies[p] + 1
        /\ \A q \in Party : q # p => plies'[q] = plies[q]
    BY <1>3, <2>1
  <2>3. plies'["runner"] = plies'["responder"] /\ plies'["runner"] \in {a, b}
    <3>1. CASE p = "runner"
      <4>1. a < b
        BY <1>1, <1>3, <2>1, <3>1 DEF MoveSent
      <4>2. a + 1 = b
        BY <2>1, <4>1 DEF LeadInv
      <4> QED BY <2>2, <3>1, <4>2 DEF Party
    <3>2. CASE p = "responder"
      <4>1. b < a
        BY <1>1, <1>3, <2>1, <3>2 DEF MoveSent
      <4>2. b + 1 = a
        BY <2>1, <4>1 DEF LeadInv
      <4> QED BY <2>2, <3>2, <4>2 DEF Party
    <3> QED BY <3>1, <3>2 DEF Party
  <2>4. LeadInv'
    BY <2>3 DEF LeadInv
  <2>5. \A q \in Party : plies'[q] >= plies[q]
    BY <2>1, <2>2
  <2>6. \A n \in wire' : MoveSent(n)'
    BY <1>1, <2>2, <2>5, SentStays
  <2>7. CapHolds'
    BY <2>1, <2>3 DEF CapInv, CapHolds, Party
  <2> QED BY <2>2, <2>4, <2>6, <2>7 DEF CapInv
<1> QED
  BY <1>1, <1>2, <1>3

LEMMA PumpKeeps == CapInv /\ Pump => CapInv'
<1> SUFFICES ASSUME CapInv, Pump PROVE CapInv'
  OBVIOUS
<1>1. CASE RunnerAccepted
  BY <1>1, LogsStand DEF RunnerAccepted
<1>2. CASE ResponderInvited
  BY <1>2, LogsStand, OtherKinds DEF ResponderInvited
<1>3. CASE ResponderResigned
  BY <1>3, LogsStand DEF ResponderResigned
<1>4. CASE StrayReceived
  BY <1>4, LogsStand DEF StrayReceived
<1>5. ASSUME NEW p \in Party, MoveReceived(p) PROVE CapInv'
  BY <1>5, MoveReceivedKeeps
<1> QED
  BY <1>1, <1>2, <1>3, <1>4, <1>5 DEF Pump

(* A reply comes only where the logs are level, so the last one allowed is     *)
(* the one that makes the length even.                                      *)
LEMMA ResponderMovesKeeps == CapInv /\ ResponderMoves => CapInv'
<1> SUFFICES ASSUME CapInv, ResponderMoves PROVE CapInv'
  OBVIOUS
<1> DEFINE a == plies["runner"]
           b == plies["responder"]
<1>1. /\ plies \in [Party -> Nat] /\ a \in Nat /\ b \in Nat
      /\ b % 2 = 1
      /\ plies' = [plies EXCEPT !["responder"] = b + 1]
      /\ wire' = wire \cup {MoveTo("runner", b)}
  BY DEF CapInv, ResponderMoves, Party
<1>2. /\ plies' \in [Party -> Nat]
      /\ plies'["runner"] = a /\ plies'["responder"] = b + 1
  BY <1>1 DEF Party
<1>3. a = b /\ (b + 1) % 2 = 0
  BY <1>1, Parity DEF CapInv, LeadInv
<1>4. LeadInv'
  BY <1>2, <1>3 DEF LeadInv
<1> PICK last \in Nat : last = b
  BY <1>1
<1>5. MoveSent(MoveTo("runner", last))'
  BY <1>1, <1>2, MoveFields DEF MoveSent, Party
<1>6. \A m \in wire : MoveSent(m)'
  BY <1>1, <1>2, SentStays DEF Party
<1>7. CapHolds'
  <2>1. a <= PlyCap + (PlyCap % 2) /\ b <= PlyCap + (PlyCap % 2)
    BY DEF CapInv, CapHolds, Party
  <2>2. b + 1 <= PlyCap + (PlyCap % 2)
    BY <1>1, <2>1, CapIsEven
  <2> QED BY <1>2, <2>1, <2>2 DEF CapHolds, Party
<1> QED
  BY <1>1, <1>2, <1>4, <1>5, <1>6, <1>7 DEF CapInv

(* What is said again was said: the last ply of the one who moved last.       *)
LEMMA NudgesKeep ==
  /\ CapInv /\ RunnerNudges => CapInv'
  /\ CapInv /\ ResponderNudges => CapInv'
<1>0. CapInv => plies["runner"] \in Nat /\ plies["responder"] \in Nat
  BY DEF CapInv, Party
<1>1. ASSUME CapInv, RunnerNudges PROVE CapInv'
  <2> DEFINE a == plies["runner"]
  <2>1. CASE wire' = wire \cup {Invite}
    BY <1>1, <2>1, LogsStand, OtherKinds DEF RunnerNudges
  <2>2. CASE entry = "playing" /\ ~OnTurn /\ wire' = wire \cup {MoveTo("responder", a - 1)}
    <3>1. a \in Nat /\ a % 2 = 1
      BY <1>0, <1>1, <2>2, Parity DEF OnTurn
    <3>2. a - 1 \in Nat /\ (a - 1) % 2 = 0 /\ a - 1 < a
      BY <3>1, Parity
    <3>3. MoveSent(MoveTo("responder", a - 1))
      BY <3>2, MoveFields DEF MoveSent, Party
    <3> QED BY <1>1, <2>2, <3>3, LogsStand DEF RunnerNudges
  <2> QED BY <1>1, <2>1, <2>2 DEF RunnerNudges
<1>2. ASSUME CapInv, ResponderNudges PROVE CapInv'
  <2> DEFINE b == plies["responder"]
  <2>1. ASSUME NEW m \in wire' \ wire PROVE MoveSent(m)
    <3>1. CASE m = Stray
      BY <3>1, OtherKinds
    <3>2. CASE b % 2 = 0 /\ b > 0 /\ m = MoveTo("runner", b - 1)
      <4>1. b - 1 \in Nat /\ (b - 1) % 2 = 1 /\ b - 1 < b
        BY <1>0, <1>2, <3>2, Parity
      <4> QED BY <3>2, <4>1, MoveFields DEF MoveSent, Party
    <3> QED BY <1>2, <2>1, <3>1, <3>2 DEF ResponderNudges
  <2> QED BY <1>2, <2>1, LogsStand DEF ResponderNudges
<1> QED
  BY <1>1, <1>2

LEMMA SoakNextKeeps == CapInv /\ [SoakNext]_soakVars => CapInv'
<1> SUFFICES ASSUME CapInv, [SoakNext]_soakVars PROVE CapInv'
  OBVIOUS
<1>1. CASE Step
  BY <1>1, StepKeeps DEF Step
<1>2. CASE Pump
  BY <1>2, PumpKeeps
<1>3. CASE ResponderMoves
  BY <1>3, ResponderMovesKeeps
<1>4. CASE RunnerNudges \/ ResponderNudges
  BY <1>4, NudgesKeep
<1>5. CASE Lose
  BY <1>5, LogsStand DEF Lose
<1>6. CASE Tick
  BY <1>6, LogsStand DEF Tick
<1>7. CASE UNCHANGED soakVars
  BY <1>7, LogsStand DEF soakVars
<1> QED
  BY <1>1, <1>2, <1>3, <1>4, <1>5, <1>6, <1>7 DEF SoakNext

LEMMA SoakInitInv == SoakInit => CapInv
<1> SUFFICES ASSUME SoakInit PROVE CapInv
  OBVIOUS
<1>1. /\ plies \in [Party -> Nat] /\ plies["runner"] = 0 /\ plies["responder"] = 0
      /\ wire = {} /\ plies = [p \in Party |-> 0]
  BY DEF SoakInit, Party
<1>2. PlyCap % 2 \in {0, 1}
  BY Parity
<1> QED
  BY <1>1, <1>2 DEF CapInv, LeadInv, CapHolds

(* The two loops' logs of one game are level, or the one who moved last is    *)
(* one ply ahead, and every MOVE in flight is one its sender has played.       *)
THEOREM SoakInvariance == SoakSpec => []CapInv
<1> QED
  BY SoakInitInv, SoakNextKeeps, PTL DEF SoakSpec

(* "force-finish (resign) past this many plies" (soak.py): no game is longer  *)
(* than ply_cap, or by one where ply_cap is odd.                             *)
THEOREM NoGameBeyondCap == SoakSpec => []CapHolds
<1>1. CapInv => CapHolds
  BY DEF CapInv
<1> QED
  BY <1>1, SoakInvariance, PTL

HIDE SoakAssumption

-----------------------------------------------------------------------------
(* A Node and its threads, for any number of requests, any game length and     *)
(* any choice of moves: as long as no thread looks at the session while        *)
(* another is changing it, the node's state is its log, the two sides have     *)
(* one history, and neither gives the session up.                            *)

Hands == [move : Choice \cup {"none"}, pos : Seq(Choice), hash : Seq(Choice), ply : Nat]
Places == {"idle", "apply", "append", "assign", "send", "compare", "check"}

Types ==
  /\ log \in Seq(Choice) /\ state \in Seq(Choice) /\ theirs \in Seq(Choice)
  /\ pc \in [Threads -> Places] /\ hand \in [Threads -> Hands]
  /\ {status, theirStatus} \subseteq {"playing", "finished"}

(* Whoever is to move is the only one that can be ahead, and by one move.    *)
OneHistory ==
  \/ theirs = log
  \/ ~OurTurn(log) /\ \E x \in Choice : theirs = Append(log, x)
  \/ OurTurn(theirs) /\ \E x \in Choice : log = Append(theirs, x)

(* A move of a game, and the position after it.                             *)
Made(ply, move, pos, history) ==
  /\ ply \in Nat /\ move \in Choice /\ pos \in Seq(Choice)
  /\ Len(pos) = ply + 1 /\ pos[ply + 1] = move /\ IsPrefix(pos, history)

Side(to) == IF to = "peer" THEN log ELSE theirs

(* What is sent is of the sender's history.                                 *)
Sent(m) ==
  /\ m.t \in {"MOVE", "SYNC_STATE"} => m.to \in {"peer", "node"}
  /\ m.t = "MOVE" => Made(m.ply, m.move, m.pos, Side(m.to))
  /\ m.t = "SYNC_STATE" =>
       /\ m.moves \in Seq(Choice) /\ m.pos = m.moves /\ IsPrefix(m.moves, Side(m.to))

(* Between its look at the turn and its assignment of the state a thread has  *)
(* the session to itself; a request's move is made on the person's turn, the  *)
(* pump's is the one the peer is ahead by.                                  *)
AtWork(t) ==
  /\ pc[t] \in {"apply", "append"} =>
       /\ hand[t].move \in Choice /\ state = log
       /\ IF t = Pumping THEN theirs = Append(log, hand[t].move) ELSE OurTurn(log)
  /\ pc[t] = "append" => hand[t].pos = Append(log, hand[t].move)
  /\ pc[t] = "assign" => hand[t].pos = log
  /\ pc[t] \in {"assign", "send"} /\ t # Pumping =>
       Made(hand[t].ply, hand[t].move, hand[t].pos, log)

OneAtATime == \A t, s \in Threads : Changing(t) /\ Changing(s) => t = s

StateIsLog == (\A t \in Threads : pc[t] # "assign") => state = log

Whole ==
  /\ Types /\ OneHistory
  /\ \A m \in net : Sent(m)
  /\ \A t \in Threads : AtWork(t)
  /\ OneAtATime /\ StateIsLog

NodeInv == overlaps \in Nat /\ (overlaps = 0 => Whole)

-----------------------------------------------------------------------------
(* Histories                                                               *)

LEMMA PrefixIs ==
  ASSUME NEW S, NEW a \in Seq(S), NEW b \in Seq(S)
  PROVE  IsPrefix(a, b) <=> Len(a) <= Len(b) /\ \A i \in 1..Len(a) : a[i] = b[i]
<1>1. Len(a) \in Nat /\ Len(b) \in Nat
  OBVIOUS
<1>2. IsPrefix(a, b) => Len(a) <= Len(b) /\ \A i \in 1..Len(a) : a[i] = b[i]
  <2> SUFFICES ASSUME IsPrefix(a, b)
               PROVE  Len(a) <= Len(b) /\ \A i \in 1..Len(a) : a[i] = b[i]
    OBVIOUS
  <2>1. Len(a) <= Len(b) /\ SubSeq(a, 1, Len(a)) = SubSeq(b, 1, Len(a))
    BY DEF IsPrefix
  <2>2. \A i \in 1..Len(a) : /\ SubSeq(a, 1, Len(a))[i] = a[i]
                             /\ SubSeq(b, 1, Len(a))[i] = b[i]
    BY <1>1, <2>1
  <2> QED BY <2>1, <2>2
<1>3. Len(a) <= Len(b) /\ (\A i \in 1..Len(a) : a[i] = b[i]) => IsPrefix(a, b)
  <2> SUFFICES ASSUME Len(a) <= Len(b), \A i \in 1..Len(a) : a[i] = b[i]
               PROVE  IsPrefix(a, b)
    OBVIOUS
  <2>1. SubSeq(a, 1, Len(a)) = SubSeq(b, 1, Len(a))
    BY <1>1
  <2> QED BY <2>1 DEF IsPrefix
<1> QED BY <1>2, <1>3

LEMMA PrefixFacts ==
  ASSUME NEW S, NEW a \in Seq(S), NEW b \in Seq(S)
  PROVE  /\ IsPrefix(a, a)
         /\ \A x \in S : IsPrefix(a, Append(a, x))
         /\ IsPrefix(a, b) /\ Len(a) = Len(b) => a = b
         /\ \A c \in Seq(S) : IsPrefix(a, b) /\ IsPrefix(b, c) => IsPrefix(a, c)
<1>1. IsPrefix(a, a)
  BY PrefixIs
<1>2. ASSUME NEW x \in S PROVE IsPrefix(a, Append(a, x))
  <2> DEFINE c == Append(a, x)
  <2>1. c \in Seq(S) /\ Len(a) <= Len(c) /\ \A i \in 1..Len(a) : a[i] = c[i]
    OBVIOUS
  <2> HIDE DEF c
  <2>2. IsPrefix(a, c)
    BY <2>1, PrefixIs
  <2> QED BY <2>2 DEF c
<1>3. IsPrefix(a, b) /\ Len(a) = Len(b) => a = b
  BY PrefixIs
<1>4. ASSUME NEW c \in Seq(S), IsPrefix(a, b), IsPrefix(b, c)
      PROVE  IsPrefix(a, c)
  <2>1. Len(a) <= Len(b) /\ \A i \in 1..Len(a) : a[i] = b[i]
    BY <1>4, PrefixIs
  <2>2. Len(b) <= Len(c) /\ \A i \in 1..Len(b) : b[i] = c[i]
    BY <1>4, PrefixIs
  <2>3. Len(a) <= Len(c) /\ \A i \in 1..Len(a) : a[i] = c[i]
    BY <2>1, <2>2
  <2> QED BY <2>3, PrefixIs
<1> QED BY <1>1, <1>2, <1>3, <1>4

(* Who is ahead, by how much, and whose turn it then is.                     *)
LEMMA Ahead ==
  ASSUME Types, OneHistory
  PROVE  /\ Len(log) \in Nat /\ Len(theirs) \in Nat
         /\ OurTurn(log) \/ ~OurTurn(theirs) \/ Len(log) = Len(theirs) => theirs = log
         /\ Len(theirs) <= Len(log) + 1 /\ Len(log) <= Len(theirs) + 1
         /\ IsPrefix(log, theirs) \/ IsPrefix(theirs, log)
<1>1. log \in Seq(Choice) /\ theirs \in Seq(Choice)
  BY DEF Types
<1>2. Len(log) \in Nat /\ Len(theirs) \in Nat
  BY <1>1
<1>3. \A k \in Nat : k % 2 = 0 => (k + 1) % 2 # 0
  OBVIOUS
<1>4. \A k \in Nat : k % 2 # 0 => (k + 1) % 2 = 0
  OBVIOUS
<1>5. CASE theirs = log
  BY <1>1, <1>2, <1>5, PrefixFacts
<1>6. CASE ~OurTurn(log) /\ \E x \in Choice : theirs = Append(log, x)
  <2>1. PICK x \in Choice : theirs = Append(log, x)
    BY <1>6
  <2>2. Len(theirs) = Len(log) + 1 /\ IsPrefix(log, theirs)
    BY <1>1, <2>1, PrefixFacts
  <2>3. OurTurn(theirs)
    BY <1>2, <1>4, <1>6, <2>2 DEF OurTurn
  <2> QED BY <1>2, <1>6, <2>2, <2>3
<1>7. CASE OurTurn(theirs) /\ \E x \in Choice : log = Append(theirs, x)
  <2>1. PICK x \in Choice : log = Append(theirs, x)
    BY <1>7
  <2>2. Len(log) = Len(theirs) + 1 /\ IsPrefix(theirs, log)
    BY <1>1, <2>1, PrefixFacts
  <2>3. ~OurTurn(log)
    BY <1>2, <1>3, <1>7, <2>2 DEF OurTurn
  <2> QED BY <1>2, <1>7, <2>2, <2>3
<1> QED BY <1>5, <1>6, <1>7 DEF OneHistory

(* A history that is a prefix of the other side's, and longer than one's own, *)
(* is the other side's.                                                     *)
LEMMA Catches ==
  ASSUME Types, OneHistory, NEW history \in Seq(Choice)
  PROVE  /\ IsPrefix(history, theirs) /\ Len(history) > Len(log) => history = theirs
         /\ IsPrefix(history, log) /\ Len(history) > Len(theirs) => history = log
<1>1. log \in Seq(Choice) /\ theirs \in Seq(Choice)
  BY DEF Types
<1>2. Len(history) \in Nat
  OBVIOUS
<1>3. ASSUME IsPrefix(history, theirs), Len(history) > Len(log)
      PROVE  history = theirs
  <2>1. Len(history) <= Len(theirs)
    BY <1>1, <1>3, PrefixIs
  <2>2. Len(history) = Len(theirs)
    BY <1>2, <1>3, <2>1, Ahead
  <2> QED BY <1>1, <1>3, <2>2, PrefixFacts
<1>4. ASSUME IsPrefix(history, log), Len(history) > Len(theirs)
      PROVE  history = log
  <2>1. Len(history) <= Len(log)
    BY <1>1, <1>4, PrefixIs
  <2>2. Len(history) = Len(log)
    BY <1>2, <1>4, <2>1, Ahead
  <2> QED BY <1>1, <1>4, <2>2, PrefixFacts
<1> QED BY <1>3, <1>4

LEMMA MadeGrows ==
  ASSUME NEW ply, NEW move, NEW pos, NEW a \in Seq(Choice), NEW b \in Seq(Choice),
         IsPrefix(a, b), Made(ply, move, pos, a)
  PROVE  Made(ply, move, pos, b)
BY PrefixFacts DEF Made

(* The move just made.                                                      *)
LEMMA MakesMove ==
  ASSUME NEW a \in Seq(Choice), NEW move \in Choice
  PROVE  Made(Len(a), move, Append(a, move), Append(a, move))
<1> DEFINE c == Append(a, move)
<1>1. c \in Seq(Choice) /\ Len(c) = Len(a) + 1 /\ c[Len(a) + 1] = move /\ Len(a) \in Nat
  OBVIOUS
<1> HIDE DEF c
<1>2. IsPrefix(c, c)
  BY <1>1, PrefixFacts
<1>3. Made(Len(a), move, c, c)
  BY <1>1, <1>2 DEF Made
<1> QED BY <1>3 DEF c

-----------------------------------------------------------------------------
(* Steps                                                                   *)

LEMMA NetGrows ==
  ASSUME Whole, log' \in Seq(Choice), theirs' \in Seq(Choice),
         IsPrefix(log, log'), IsPrefix(theirs, theirs'),
         \A m \in net' : m \in net \/ Sent(m)'
  PROVE  \A m \in net' : Sent(m)'
<1> SUFFICES ASSUME NEW m \in net, m \in net' PROVE Sent(m)'
  OBVIOUS
<1>1. Sent(m) /\ log \in Seq(Choice) /\ theirs \in Seq(Choice)
  BY DEF Whole, Types
<1>2. m.t = "MOVE" => Made(m.ply, m.move, m.pos, Side(m.to)')
  BY <1>1, MadeGrows DEF Sent, Side
<1>3. m.t = "SYNC_STATE" => IsPrefix(m.moves, Side(m.to)')
  BY <1>1, PrefixFacts DEF Sent, Side
<1> QED BY <1>1, <1>2, <1>3 DEF Sent

(* A thread that does not move stays at work unless what it holds changes.   *)
LEMMA OthersWork ==
  ASSUME Whole, NEW s \in Threads, pc'[s] = pc[s], hand'[s] = hand[s],
         log' \in Seq(Choice), IsPrefix(log, log'),
         Changing(s) => log' = log /\ state' = state,
         s = Pumping /\ pc[s] \in {"apply", "append"} => theirs' = theirs
  PROVE  AtWork(s)'
<1>1. AtWork(s) /\ log \in Seq(Choice)
  BY DEF Whole, Types
<1>2. CASE Changing(s)
  BY <1>1, <1>2 DEF AtWork
<1>3. CASE ~Changing(s)
  <2>1. pc[s] \notin {"apply", "append", "assign"}
    BY <1>3 DEF Changing
  <2>2. pc[s] = "send" /\ s # Pumping => Made(hand[s].ply, hand[s].move, hand[s].pos, log')
    BY <1>1, MadeGrows DEF AtWork
  <2> QED BY <2>1, <2>2 DEF AtWork
<1> QED BY <1>2, <1>3

LEMMA ThreadMoves ==
  ASSUME Whole, NEW t \in Threads, NEW p \in Places, NEW h \in Hands,
         pc' = [pc EXCEPT ![t] = p], hand' = [hand EXCEPT ![t] = h],
         log' \in Seq(Choice), state' \in Seq(Choice), IsPrefix(log, log'),
         theirs' = theirs, theirStatus' = theirStatus,
         status' \in {"playing", "finished"},
         p \in {"apply", "append", "assign"} \/ log' # log \/ state' # state
           => \A s \in Threads \ {t} : ~Changing(s),
         \A m \in net' : m \in net \/ Sent(m)',
         AtWork(t)', OneHistory', StateIsLog'
  PROVE  Whole'
<1>1. Types /\ log \in Seq(Choice) /\ theirs \in Seq(Choice)
  BY DEF Whole, Types
<1>2. /\ pc \in [Threads -> Places] /\ hand \in [Threads -> Hands]
      /\ theirStatus \in {"playing", "finished"}
  BY <1>1 DEF Types
<1>3. pc' \in [Threads -> Places] /\ hand' \in [Threads -> Hands]
  BY <1>2
<1>4. Types'
  BY <1>1, <1>2, <1>3 DEF Types
<1>5. \A s \in Threads \ {t} : pc'[s] = pc[s] /\ hand'[s] = hand[s]
  BY <1>2
<1>6. ASSUME NEW s \in Threads, s # t PROVE AtWork(s)'
  BY <1>5, <1>6, OthersWork
<1>7. \A m \in net' : Sent(m)'
  <2>1. IsPrefix(theirs, theirs')
    BY <1>1, PrefixFacts
  <2> QED BY <1>1, <2>1, NetGrows
<1>8. OneAtATime'
  <2>1. ASSUME NEW r \in Threads, NEW s \in Threads, Changing(r)', Changing(s)'
        PROVE  r = s
    <3>1. pc'[t] = p
      BY <1>2
    <3>2. CASE r # t /\ s # t
      BY <1>5, <2>1, <3>2 DEF Whole, OneAtATime, Changing
    <3>3. CASE r = t /\ s # t
      BY <1>5, <2>1, <3>1, <3>3 DEF Changing
    <3>4. CASE r # t /\ s = t
      BY <1>5, <2>1, <3>1, <3>4 DEF Changing
    <3> QED BY <3>2, <3>3, <3>4
  <2> QED BY <2>1 DEF OneAtATime
<1> QED BY <1>4, <1>6, <1>7, <1>8 DEF Whole

(* What leaves the node's threads where they are.                           *)
LEMMA OutsideMoves ==
  ASSUME Whole, UNCHANGED <<log, state, pc, hand>>, theirs' \in Seq(Choice),
         IsPrefix(theirs, theirs'), OneHistory',
         theirs' # theirs => Len(theirs) # Len(log) + 1,
         {status', theirStatus'} \subseteq {"playing", "finished"},
         \A m \in net' : m \in net \/ Sent(m)'
  PROVE  Whole'
<1>1. Types /\ log \in Seq(Choice) /\ state \in Seq(Choice) /\ theirs \in Seq(Choice)
      /\ pc \in [Threads -> Places] /\ hand \in [Threads -> Hands]
  BY DEF Whole, Types
<1>2. Types'
  BY <1>1 DEF Types
<1>3. ASSUME NEW s \in Threads PROVE AtWork(s)'
  <2>1. s = Pumping /\ pc[s] \in {"apply", "append"} => theirs' = theirs
    <3>1. s = Pumping /\ pc[s] \in {"apply", "append"}
            => hand[s].move \in Choice /\ theirs = Append(log, hand[s].move)
      BY DEF Whole, AtWork
    <3>2. \A x \in Choice : Len(Append(log, x)) = Len(log) + 1
      BY <1>1
    <3> QED BY <3>1, <3>2
  <2>2. IsPrefix(log, log')
    BY <1>1, PrefixFacts
  <2> QED BY <1>1, <2>1, <2>2, OthersWork
<1>4. \A m \in net' : Sent(m)'
  <2>1. IsPrefix(log, log')
    BY <1>1, PrefixFacts
  <2> QED BY <1>1, <2>1, NetGrows
<1>5. OneAtATime' /\ StateIsLog'
  BY DEF Whole, OneAtATime, StateIsLog, Changing
<1> QED BY <1>2, <1>3, <1>4, <1>5 DEF Whole

(* Only questions are sent.                                                 *)
LEMMA Asks ==
  ASSUME Whole, UNCHANGED <<log, state, pc, hand, theirs, theirStatus, status>>,
         \A m \in net' : m \in net \/ Sent(m)'
  PROVE  Whole'
<1>1. theirs \in Seq(Choice) /\ {status, theirStatus} \subseteq {"playing", "finished"}
  BY DEF Whole, Types
<1>2. IsPrefix(theirs, theirs') /\ OneHistory'
  BY <1>1, PrefixFacts DEF Whole, OneHistory
<1> QED BY <1>1, <1>2, OutsideMoves

LEMMA Harmless ==
  \A m : m \in {Ask("peer"), Ask("node"), Rejection} => Sent(m)'
BY DEF Ask, Rejection, Sent

-----------------------------------------------------------------------------
(* The node's threads                                                      *)

Alone(t) == \A s \in Threads \ {t} : ~Changing(s)

LEMMA NoticedAlone ==
  ASSUME overlaps \in Nat, NEW t, Noticed(t), overlaps' = 0
  PROVE  overlaps = 0 /\ Alone(t)
<1>1. CASE \E s \in Threads \ {t} : Changing(s)
  <2>1. overlaps' = overlaps + 1
    BY <1>1 DEF Noticed
  <2> QED BY <2>1
<1>2. CASE ~ \E s \in Threads \ {t} : Changing(s)
  BY <1>2 DEF Noticed, Alone
<1> QED BY <1>1, <1>2

(* Whoever is changing the session does so alone.                           *)
LEMMA ChangingAlone ==
  ASSUME Whole, NEW t \in Threads, Changing(t)
  PROVE  Alone(t)
BY DEF Whole, OneAtATime, Alone

LEMMA AloneIsLog ==
  ASSUME Whole, NEW t \in Threads, Alone(t), pc[t] # "assign"
  PROVE  state = log
<1>1. \A s \in Threads : pc[s] # "assign"
  BY DEF Alone, Changing
<1> QED BY <1>1 DEF Whole, StateIsLog

LEMMA TypesOf ==
  ASSUME Whole
  PROVE  /\ log \in Seq(Choice) /\ state \in Seq(Choice) /\ theirs \in Seq(Choice)
         /\ pc \in [Threads -> Places] /\ hand \in [Threads -> Hands]
         /\ status \in {"playing", "finished"} /\ theirStatus \in {"playing", "finished"}
         /\ Request \subseteq Threads /\ Pumping \in Threads /\ NoHand \in Hands
         /\ IsPrefix(log, log) /\ IsPrefix(theirs, theirs)
<1>1. <<>> \in Seq(Choice)
  OBVIOUS
<1>2. NoHand \in Hands
  BY <1>1 DEF NoHand, Hands
<1> QED BY <1>2, PrefixFacts DEF Whole, Types, Threads

LEMMA PostMoveWhole ==
  ASSUME Whole, NEW r \in Request, PostMove(r), Alone(r)
  PROVE  Whole'
<1>1. PICK m \in Choice : hand' = [hand EXCEPT ![r] = [NoHand EXCEPT !.move = m]]
  BY DEF PostMove
<1>2. r \in Threads /\ r # Pumping
  BY ThreadAssumption DEF Threads
<1>3. state = log
  BY <1>2, AloneIsLog DEF PostMove
<1> DEFINE h == [NoHand EXCEPT !.move = m]
<1>4. h \in Hands /\ h.move = m
  BY TypesOf DEF Hands, NoHand
<1> HIDE DEF h
<1>5. /\ pc' = [pc EXCEPT ![r] = "apply"] /\ hand' = [hand EXCEPT ![r] = h]
      /\ OurTurn(log) /\ UNCHANGED <<log, state, status, net, theirs, theirStatus>>
  BY <1>1 DEF PostMove, h
<1>6. pc'[r] = "apply" /\ hand'[r] = h
  BY <1>2, <1>5, TypesOf
<1>7. AtWork(r)'
  BY <1>2, <1>3, <1>4, <1>5, <1>6 DEF AtWork
<1>8. OneHistory' /\ StateIsLog'
  BY <1>3, <1>5 DEF Whole, OneHistory, StateIsLog
<1>9. "apply" \in Places
  BY DEF Places
<1> QED BY <1>2, <1>4, <1>5, <1>7, <1>8, <1>9, TypesOf, ThreadMoves DEF Alone

LEMMA PumpMoveWhole ==
  ASSUME Whole, PumpMove, Alone(Pumping)
  PROVE  Whole'
<1>1. PICK m \in net :
        /\ m.t = "MOVE" /\ m.to = "node" /\ pc[Pumping] = "idle"
        /\ IF m.ply = Len(log)
           THEN /\ pc' = [pc EXCEPT ![Pumping] = "apply"]
                /\ hand' = [hand EXCEPT ![Pumping] =
                              [move |-> m.move, pos |-> <<>>, hash |-> m.pos, ply |-> m.ply]]
                /\ UNCHANGED net
           ELSE /\ net' = net \cup (IF m.ply > Len(log) /\ ~Over(state) THEN {Ask("peer")} ELSE {})
                /\ UNCHANGED <<pc, hand>>
        /\ UNCHANGED <<log, state, status, theirs, theirStatus>>
  BY DEF PumpMove
<1>2. CASE m.ply # Len(log)
  <2>1. \A k \in net' : k \in net \/ k = Ask("peer")
    BY <1>1, <1>2
  <2> QED BY <1>1, <1>2, <2>1, Harmless, Asks
<1>3. CASE m.ply = Len(log)
  <2>1. Made(m.ply, m.move, m.pos, theirs)
    BY <1>1 DEF Whole, Sent, Side
  <2>2. state = log
    BY <1>1, TypesOf, AloneIsLog
  <2>3. m.pos = theirs /\ Len(theirs) = Len(log) + 1
    <3>1. Len(m.pos) = Len(log) + 1 /\ m.pos \in Seq(Choice) /\ IsPrefix(m.pos, theirs)
      BY <1>3, <2>1 DEF Made
    <3>2. Len(log) \in Nat
      BY TypesOf
    <3> QED BY <3>1, <3>2, Catches DEF Whole
  <2>4. theirs = Append(log, m.move)
    <3>1. PICK x \in Choice : theirs = Append(log, x)
      <4>1. CASE theirs = log
        BY <2>3, <4>1, TypesOf
      <4>2. CASE \E x \in Choice : log = Append(theirs, x)
        BY <2>3, <4>2, TypesOf
      <4> QED BY <4>1, <4>2 DEF Whole, OneHistory
    <3>2. theirs[Len(log) + 1] = x
      BY <3>1, TypesOf
    <3>3. theirs[Len(log) + 1] = m.move
      BY <1>3, <2>1, <2>3 DEF Made
    <3> QED BY <3>1, <3>2, <3>3
  <2> DEFINE h == [move |-> m.move, pos |-> <<>>, hash |-> m.pos, ply |-> m.ply]
  <2>5. h \in Hands /\ h.move = m.move /\ m.move \in Choice
    <3>1. <<>> \in Seq(Choice)
      OBVIOUS
    <3> QED BY <2>1, <3>1 DEF Hands, Made
  <2> HIDE DEF h
  <2>6. pc' = [pc EXCEPT ![Pumping] = "apply"] /\ hand' = [hand EXCEPT ![Pumping] = h]
    BY <1>1, <1>3 DEF h
  <2>7. pc'[Pumping] = "apply" /\ hand'[Pumping] = h
    BY <2>6, TypesOf
  <2>8. AtWork(Pumping)'
    BY <1>1, <2>2, <2>4, <2>5, <2>7 DEF AtWork
  <2>9. OneHistory' /\ StateIsLog'
    BY <1>1, <2>2 DEF Whole, OneHistory, StateIsLog
  <2>10. "apply" \in Places
    BY DEF Places
  <2> QED BY <1>1, <1>3, <2>5, <2>6, <2>8, <2>9, <2>10, TypesOf, ThreadMoves DEF Alone
<1> QED BY <1>2, <1>3

LEMMA ApplyWhole ==
  ASSUME Whole, NEW t \in Threads, Apply(t)
  PROVE  Whole'
<1>1. Alone(t) /\ Changing(t) /\ AtWork(t)
  BY ChangingAlone DEF Apply, Changing, Whole
<1>2. state = log
  BY <1>1, AloneIsLog DEF Apply
<1>3. OneHistory' /\ StateIsLog'
  BY <1>2 DEF Apply, Whole, OneHistory, StateIsLog
<1>4. hand[t] \in Hands
  BY TypesOf
<1>5. CASE Over(state)
  <2>1. pc' = [pc EXCEPT ![t] = "idle"] /\ hand' = hand
    BY <1>5 DEF Apply
  <2>2. hand' = [hand EXCEPT ![t] = hand[t]]
    BY <2>1, TypesOf
  <2>3. pc'[t] = "idle"
    BY <2>1, TypesOf
  <2>4. AtWork(t)'
    BY <2>3 DEF AtWork
  <2>5. "idle" \in Places
    BY DEF Places
  <2> QED BY <1>1, <1>3, <1>4, <2>1, <2>2, <2>4, <2>5, TypesOf, ThreadMoves DEF Apply, Alone
<1>6. CASE ~Over(state)
  <2> DEFINE h == [hand[t] EXCEPT !.pos = Append(state, hand[t].move)]
  <2>1. hand[t].move \in Choice /\ IF t = Pumping THEN theirs = Append(log, hand[t].move) ELSE OurTurn(log)
    BY <1>1 DEF AtWork, Apply
  <2>2. h \in Hands /\ h.move = hand[t].move /\ h.pos = Append(log, hand[t].move)
    <3>1. Append(state, hand[t].move) \in Seq(Choice)
      BY <2>1, TypesOf
    <3> QED BY <1>2, <1>4, <3>1 DEF Hands
  <2>3. hand' = [hand EXCEPT ![t] = h] /\ pc' = [pc EXCEPT ![t] = "append"]
    BY <1>4, <1>6, TypesOf DEF Apply
  <2> HIDE DEF h
  <2>4. pc'[t] = "append" /\ hand'[t] = h
    BY <2>3, TypesOf
  <2>5. AtWork(t)'
    BY <1>2, <2>1, <2>2, <2>4 DEF AtWork, Apply
  <2>6. "append" \in Places
    BY DEF Places
  <2> QED BY <1>1, <1>3, <2>2, <2>3, <2>5, <2>6, TypesOf, ThreadMoves DEF Apply, Alone
<1> QED BY <1>5, <1>6

LEMMA AppendMoveWhole ==
  ASSUME Whole, NEW t \in Threads, AppendMove(t)
  PROVE  Whole'
<1>1. Alone(t) /\ AtWork(t)
  BY ChangingAlone DEF AppendMove, Changing, Whole
<1> DEFINE x == hand[t].move
<1>2. /\ x \in Choice /\ hand[t].pos = Append(log, x)
      /\ IF t = Pumping THEN theirs = Append(log, x) ELSE OurTurn(log)
  BY <1>1 DEF AtWork, AppendMove
<1> DEFINE h == [hand[t] EXCEPT !.ply = Len(log)]
<1>3. h \in Hands /\ h.move = x /\ h.pos = hand[t].pos /\ h.ply = Len(log)
  <2>1. hand[t] \in Hands /\ Len(log) \in Nat
    BY TypesOf
  <2> QED BY <2>1 DEF Hands
<1>4. /\ pc' = [pc EXCEPT ![t] = "assign"] /\ hand' = [hand EXCEPT ![t] = h]
      /\ log' = Append(log, x) /\ UNCHANGED <<state, status, net, theirs, theirStatus>>
  BY TypesOf DEF AppendMove
<1> HIDE DEF h, x
<1>5. pc'[t] = "assign" /\ hand'[t] = h
  BY <1>4, TypesOf
<1>6. log' \in Seq(Choice) /\ IsPrefix(log, log')
  BY <1>2, <1>4, TypesOf, PrefixFacts
<1>7. Made(Len(log), x, log', log')
  BY <1>2, <1>4, TypesOf, MakesMove
<1>8. AtWork(t)'
  BY <1>2, <1>3, <1>4, <1>5, <1>7 DEF AtWork
<1>9. OneHistory'
  <2>1. CASE t = Pumping
    BY <1>2, <1>4, <2>1 DEF OneHistory
  <2>2. CASE t # Pumping
    <3>1. theirs = log
      BY <1>2, <2>2, Ahead DEF Whole
    <3> QED BY <1>2, <1>4, <2>2, <3>1 DEF OneHistory
  <2> QED BY <2>1, <2>2
<1>10. StateIsLog'
  BY <1>5 DEF StateIsLog
<1>11. "assign" \in Places
  BY DEF Places
<1> QED BY <1>1, <1>3, <1>4, <1>6, <1>8, <1>9, <1>10, <1>11, TypesOf, ThreadMoves DEF Alone

LEMMA AssignWhole ==
  ASSUME Whole, NEW t \in Threads, Assign(t)
  PROVE  Whole'
<1>1. Alone(t) /\ AtWork(t)
  BY ChangingAlone DEF Assign, Changing, Whole
<1> DEFINE p == IF t = Pumping THEN "compare" ELSE "send"
<1>2. p \in Places /\ p \notin {"apply", "append", "assign"} /\ (p = "send" <=> t # Pumping)
  BY DEF Places
<1>3. /\ pc' = [pc EXCEPT ![t] = p] /\ state' = hand[t].pos
      /\ UNCHANGED <<log, status, hand, net, theirs, theirStatus>>
  BY DEF Assign
<1> HIDE DEF p
<1>4. pc'[t] = p /\ hand' = [hand EXCEPT ![t] = hand[t]] /\ hand[t] \in Hands
  BY <1>3, TypesOf
<1>5. state' = log
  BY <1>1, <1>3 DEF AtWork, Assign
<1>6. t # Pumping => Made(hand[t].ply, hand[t].move, hand[t].pos, log)
  BY <1>1 DEF AtWork, Assign
<1>7. AtWork(t)'
  BY <1>2, <1>3, <1>4, <1>6 DEF AtWork
<1>8. OneHistory' /\ StateIsLog'
  BY <1>3, <1>5 DEF Whole, OneHistory, StateIsLog
<1>9. state' \in Seq(Choice)
  BY <1>5, TypesOf
<1> QED BY <1>1, <1>2, <1>3, <1>4, <1>7, <1>8, <1>9, TypesOf, ThreadMoves DEF Alone

LEMMA SendMoveWhole ==
  ASSUME Whole, NEW r \in Request, SendMove(r)
  PROVE  Whole'
<1>0. PICK m : m = MoveOf("peer", hand[r].ply, hand[r].move, hand[r].pos)
  OBVIOUS
<1>1. r \in Threads /\ r # Pumping
  BY ThreadAssumption DEF Threads
<1>2. Made(hand[r].ply, hand[r].move, hand[r].pos, log)
  BY <1>1 DEF Whole, AtWork, SendMove
<1>3. /\ pc' = [pc EXCEPT ![r] = "check"] /\ net' = net \cup {m}
      /\ UNCHANGED <<log, state, status, hand, theirs, theirStatus>>
  BY <1>0 DEF SendMove
<1>4. Sent(m)'
  BY <1>0, <1>2, <1>3 DEF Sent, MoveOf, Side
<1>5. pc'[r] = "check" /\ hand' = [hand EXCEPT ![r] = hand[r]] /\ hand[r] \in Hands
  BY <1>1, <1>3, TypesOf
<1>6. AtWork(r)'
  BY <1>5 DEF AtWork
<1>7. OneHistory' /\ StateIsLog'
  <2>1. \A s \in Threads : pc'[s] # "assign" => pc[s] # "assign"
    BY <1>1, <1>3, TypesOf DEF SendMove
  <2> QED BY <1>3, <2>1 DEF Whole, OneHistory, StateIsLog
<1>8. "check" \in Places
  BY DEF Places
<1> QED BY <1>1, <1>3, <1>4, <1>5, <1>6, <1>7, <1>8, TypesOf, ThreadMoves

LEMMA CompareWhole ==
  ASSUME Whole, Compare
  PROVE  Whole'
<1>1. PICK p \in {"check", "idle"} :
        /\ pc' = [pc EXCEPT ![Pumping] = p]
        /\ \A m \in net' : m \in net \/ m = Ask("peer")
        /\ UNCHANGED <<log, state, status, hand, theirs, theirStatus>>
  BY DEF Compare
<1>2. /\ pc'[Pumping] = p /\ hand' = [hand EXCEPT ![Pumping] = hand[Pumping]]
      /\ hand[Pumping] \in Hands
  BY <1>1, TypesOf
<1>3. AtWork(Pumping)'
  BY <1>2 DEF AtWork
<1>4. OneHistory' /\ StateIsLog'
  <2>1. \A s \in Threads : pc'[s] # "assign" => pc[s] # "assign"
    BY <1>1, TypesOf DEF Compare
  <2> QED BY <1>1, <2>1 DEF Whole, OneHistory, StateIsLog
<1>5. p \in Places
  BY DEF Places
<1> QED BY <1>1, <1>2, <1>3, <1>4, <1>5, TypesOf, ThreadMoves, Harmless

LEMMA CheckWhole ==
  ASSUME Whole, NEW t \in Threads, Check(t)
  PROVE  Whole'
<1>1. /\ pc' = [pc EXCEPT ![t] = "idle"] /\ hand' = [hand EXCEPT ![t] = NoHand]
      /\ status' \in {"playing", "finished"}
      /\ UNCHANGED <<log, state, net, theirs, theirStatus>>
  BY TypesOf DEF Check
<1>2. pc'[t] = "idle"
  BY <1>1, TypesOf
<1>3. AtWork(t)'
  BY <1>2 DEF AtWork
<1>4. OneHistory' /\ StateIsLog'
  <2>1. \A s \in Threads : pc'[s] # "assign" => pc[s] # "assign"
    BY <1>1, TypesOf DEF Check
  <2> QED BY <1>1, <2>1 DEF Whole, OneHistory, StateIsLog
<1>5. "idle" \in Places
  BY DEF Places
<1> QED BY <1>1, <1>3, <1>4, <1>5, TypesOf, ThreadMoves

LEMMA PumpSyncRequestWhole ==
  ASSUME Whole, PumpSyncRequest, Alone(Pumping)
  PROVE  Whole'
<1>1. state = log
  BY TypesOf, AloneIsLog DEF PumpSyncRequest
<1>2. Sent(Snapshot("peer", log, state))'
  BY <1>1, TypesOf DEF PumpSyncRequest, Sent, Snapshot, Side
<1> QED BY <1>2, Asks DEF PumpSyncRequest

LEMMA PumpSyncStateWhole ==
  ASSUME Whole, PumpSyncState, Alone(Pumping)
  PROVE  Whole'
<1>1. PICK m \in net :
        /\ m.t = "SYNC_STATE" /\ m.to = "node" /\ pc[Pumping] = "idle"
        /\ Len(m.moves) > Len(log)
        /\ IF m.moves # m.pos THEN status' = "broken" /\ UNCHANGED <<log, pc, hand>>
           ELSE /\ log' = m.moves
                /\ pc' = [pc EXCEPT ![Pumping] = "assign"]
                /\ hand' = [hand EXCEPT ![Pumping] =
                              [NoHand EXCEPT !.pos = m.moves, !.hash = m.pos]]
                /\ UNCHANGED status
        /\ UNCHANGED <<state, net, theirs, theirStatus>>
  BY DEF PumpSyncState
<1>2. m.moves \in Seq(Choice) /\ m.pos = m.moves /\ IsPrefix(m.moves, theirs)
  BY <1>1 DEF Whole, Sent, Side
<1>3. m.moves = theirs
  BY <1>1, <1>2, Catches DEF Whole
<1> DEFINE h == [NoHand EXCEPT !.pos = theirs, !.hash = theirs]
<1>4. h \in Hands /\ h.pos = theirs
  BY TypesOf DEF Hands, NoHand
<1>5. /\ pc' = [pc EXCEPT ![Pumping] = "assign"] /\ hand' = [hand EXCEPT ![Pumping] = h]
      /\ log' = theirs /\ UNCHANGED <<status, state, net, theirs, theirStatus>>
  BY <1>1, <1>2, <1>3
<1> HIDE DEF h
<1>6. pc'[Pumping] = "assign" /\ hand'[Pumping] = h
  BY <1>5, TypesOf
<1>7. IsPrefix(log, log') /\ log' \in Seq(Choice)
  <2>1. ~IsPrefix(theirs, log)
    <3>1. Len(theirs) > Len(log) /\ Len(theirs) \in Nat /\ Len(log) \in Nat
      BY <1>1, <1>3, TypesOf
    <3> QED BY <3>1, TypesOf, PrefixIs
  <2> QED BY <1>5, <2>1, TypesOf, Ahead DEF Whole
<1>8. AtWork(Pumping)'
  BY <1>4, <1>5, <1>6 DEF AtWork
<1>9. OneHistory' /\ StateIsLog'
  BY <1>5, <1>6, TypesOf DEF OneHistory, StateIsLog
<1>10. "assign" \in Places
  BY DEF Places
<1> QED BY <1>4, <1>5, <1>7, <1>8, <1>9, <1>10, TypesOf, ThreadMoves DEF Alone

-----------------------------------------------------------------------------
(* The peer                                                                *)

LEMMA PeerMovesWhole ==
  ASSUME Whole, PeerMoves
  PROVE  Whole'
<1>1. PICK x \in Choice : /\ theirs' = Append(theirs, x)
                          /\ net' = net \cup {MoveOf("node", Len(theirs), x, theirs')}
  BY DEF PeerMoves
<1>2. theirs = log /\ ~OurTurn(log) /\ Len(log) \in Nat
  BY Ahead DEF Whole, PeerMoves
<1>3. theirs' \in Seq(Choice) /\ IsPrefix(theirs, theirs') /\ OneHistory'
  BY <1>1, <1>2, TypesOf, PrefixFacts DEF OneHistory, PeerMoves
<1>4. Made(Len(theirs), x, theirs', theirs')
  BY <1>1, TypesOf, MakesMove
<1>5. PICK m : m = MoveOf("node", Len(theirs), x, theirs')
  OBVIOUS
<1>7. Sent(m)'
  <2>1. /\ m.t = "MOVE" /\ m.to = "node" /\ m.ply = Len(theirs)
        /\ m.move = x /\ m.pos = theirs'
    BY <1>5 DEF MoveOf
  <2> QED BY <1>4, <2>1 DEF Sent, Side
<1>6. {status', theirStatus'} \subseteq {"playing", "finished"}
  BY TypesOf DEF PeerMoves
<1>8. theirs' # theirs => Len(theirs) # Len(log) + 1
  BY <1>2
<1> QED BY <1>1, <1>3, <1>5, <1>6, <1>7, <1>8, OutsideMoves DEF PeerMoves

LEMMA PeerReceivesMoveWhole ==
  ASSUME Whole, PeerReceivesMove
  PROVE  Whole'
<1>1. PICK m \in net :
        /\ m.t = "MOVE" /\ m.to = "peer" /\ theirStatus = "playing"
        /\ IF m.ply = Len(theirs) /\ OurTurn(theirs)
           THEN /\ theirs' = Append(theirs, m.move)
                /\ net' = net \cup (IF m.pos = theirs' THEN {} ELSE {Ask("node")})
                /\ theirStatus' = IF m.pos = theirs' /\ Over(theirs') THEN "finished" ELSE theirStatus
           ELSE /\ net' = net \cup (IF m.ply = Len(theirs) THEN {Rejection}
                                    ELSE IF m.ply > Len(theirs) THEN {Ask("node")} ELSE {})
                /\ UNCHANGED <<theirs, theirStatus>>
        /\ UNCHANGED <<log, state, status, pc, hand, overlaps>>
  BY DEF PeerReceivesMove
<1>2. \A k \in net' : k \in net \/ k \in {Ask("node"), Rejection}
  BY <1>1
<1>3. \A k \in net' : k \in net \/ Sent(k)'
  BY <1>2, Harmless
<1>4. CASE ~(m.ply = Len(theirs) /\ OurTurn(theirs))
  BY <1>1, <1>3, <1>4, Asks
<1>5. CASE m.ply = Len(theirs) /\ OurTurn(theirs)
  <2>1. Made(m.ply, m.move, m.pos, log)
    BY <1>1 DEF Whole, Sent, Side
  <2>2. Len(m.pos) = Len(theirs) + 1 /\ Len(theirs) \in Nat
    BY <1>5, <2>1, TypesOf DEF Made
  <2>3. m.pos = log
    BY <2>1, <2>2, Catches DEF Whole, Made
  <2>4. m.move \in Choice /\ theirs' = Append(theirs, m.move)
    BY <1>1, <1>5, <2>1 DEF Made
  <2>5. theirs' \in Seq(Choice) /\ IsPrefix(theirs, theirs')
    BY <2>4, TypesOf, PrefixFacts
  <2>6. log = theirs'
    <3>1. PICK x \in Choice : log = Append(theirs, x)
      <4>1. CASE theirs = log
        BY <2>2, <2>3, <4>1
      <4>2. CASE \E x \in Choice : theirs = Append(log, x)
        BY <2>2, <2>3, <4>2, TypesOf
      <4> QED BY <4>1, <4>2 DEF Whole, OneHistory
    <3>2. log[Len(theirs) + 1] = x
      BY <3>1, TypesOf
    <3>3. log[Len(theirs) + 1] = m.move
      BY <1>5, <2>1, <2>3 DEF Made
    <3> QED BY <2>4, <3>1, <3>2, <3>3
  <2>7. OneHistory'
    BY <1>1, <2>6 DEF OneHistory
  <2>8. Len(theirs) # Len(log) + 1
    BY <2>2, <2>3
  <2>9. {status', theirStatus'} \subseteq {"playing", "finished"}
    BY <1>1, <1>5, TypesOf
  <2> QED BY <1>1, <1>3, <2>5, <2>7, <2>8, <2>9, OutsideMoves
<1> QED BY <1>4, <1>5

LEMMA PeerAnswersWhole ==
  ASSUME Whole, PeerAnswers
  PROVE  Whole'
<1>1. Sent(Snapshot("node", theirs, theirs))'
  BY TypesOf DEF PeerAnswers, Sent, Snapshot, Side
<1> QED BY <1>1, Asks DEF PeerAnswers

LEMMA PeerSyncedWhole ==
  ASSUME Whole, PeerSynced
  PROVE  Whole'
<1>1. PICK m \in net :
        /\ m.t = "SYNC_STATE" /\ m.to = "peer" /\ Len(m.moves) > Len(theirs)
        /\ IF m.moves # m.pos THEN theirStatus' = "broken" /\ UNCHANGED theirs
           ELSE theirs' = m.moves /\ theirStatus' = IF Over(theirs') THEN "finished" ELSE theirStatus
        /\ UNCHANGED <<log, state, status, pc, hand, net, overlaps>>
  BY DEF PeerSynced
<1>2. m.moves \in Seq(Choice) /\ m.pos = m.moves /\ IsPrefix(m.moves, log)
  BY <1>1 DEF Whole, Sent, Side
<1>3. m.moves = log
  BY <1>1, <1>2, Catches DEF Whole
<1>4. theirs' = log /\ Len(log) > Len(theirs) /\ Len(log) \in Nat /\ Len(theirs) \in Nat
  BY <1>1, <1>2, <1>3, TypesOf
<1>5. IsPrefix(theirs, theirs')
  <2>1. ~IsPrefix(log, theirs)
    BY <1>4, TypesOf, PrefixIs
  <2> QED BY <1>4, <2>1, Ahead DEF Whole
<1>6. OneHistory' /\ theirs' \in Seq(Choice)
  BY <1>1, <1>4, TypesOf DEF OneHistory
<1>7. Len(theirs) # Len(log) + 1
  BY <1>4
<1>8. {status', theirStatus'} \subseteq {"playing", "finished"}
  BY <1>1, <1>2, TypesOf
<1> QED BY <1>1, <1>5, <1>6, <1>7, <1>8, OutsideMoves

-----------------------------------------------------------------------------
LEMMA NodeStep ==
  ASSUME NodeInv, [NodeNext]_nodeVars
  PROVE  NodeInv'
<1>1. overlaps \in Nat /\ overlaps' \in Nat /\ (overlaps' = 0 => overlaps = 0)
  <2>1. overlaps' = overlaps \/ overlaps' = overlaps + 1
    BY DEF NodeNext, RequestStep, PumpStep, PeerStep, nodeVars, PostMove, Apply, AppendMove,
           Assign, SendMove, Check, PumpMove, Compare, PumpSyncRequest, PumpSyncState,
           PumpReject, PostNudge, PeerMoves, PeerReceivesMove, PeerAnswers, PeerSynced,
           PeerNudges, Noticed
  <2> QED BY <2>1 DEF NodeInv
<1>2. ASSUME overlaps' = 0 PROVE Whole'
  <2>1. Whole /\ Request \subseteq Threads /\ Pumping \in Threads
    BY <1>1, <1>2 DEF NodeInv, Threads
  <2>2. \A t : Noticed(t) => Alone(t)
    BY <1>1, <1>2, NoticedAlone
  <2>3. ASSUME NEW r \in Request, RequestStep(r) PROVE Whole'
    <3>1. CASE PostMove(r)
      <4>1. Alone(r)
        BY <3>1, <2>2 DEF PostMove
      <4> QED BY <2>1, <3>1, <4>1, PostMoveWhole
    <3>2. CASE Apply(r)
      BY <2>1, <3>2, ApplyWhole
    <3>3. CASE AppendMove(r)
      BY <2>1, <3>3, AppendMoveWhole
    <3>4. CASE Assign(r)
      BY <2>1, <3>4, AssignWhole
    <3>5. CASE SendMove(r)
      BY <2>1, <3>5, SendMoveWhole
    <3>6. CASE Check(r)
      BY <2>1, <3>6, CheckWhole
    <3> QED BY <2>3, <3>1, <3>2, <3>3, <3>4, <3>5, <3>6 DEF RequestStep
  <2>4. ASSUME PumpStep PROVE Whole'
    <3>1. CASE PumpMove
      <4>1. Alone(Pumping)
        BY <3>1, <2>2 DEF PumpMove
      <4> QED BY <2>1, <3>1, <4>1, PumpMoveWhole
    <3>2. CASE Apply(Pumping) \/ AppendMove(Pumping) \/ Assign(Pumping) \/ Check(Pumping)
      BY <2>1, <3>2, ApplyWhole, AppendMoveWhole, AssignWhole, CheckWhole
    <3>3. CASE Compare
      BY <2>1, <3>3, CompareWhole
    <3>4. CASE PumpSyncRequest
      <4>1. Alone(Pumping)
        BY <3>4, <2>2 DEF PumpSyncRequest
      <4> QED BY <2>1, <3>4, <4>1, PumpSyncRequestWhole
    <3>5. CASE PumpSyncState
      <4>1. Alone(Pumping)
        BY <3>5, <2>2 DEF PumpSyncState
      <4> QED BY <2>1, <3>5, <4>1, PumpSyncStateWhole
    <3>6. CASE PumpReject
      BY <2>1, <3>6, Asks, Harmless DEF PumpReject
    <3> QED BY <2>4, <3>1, <3>2, <3>3, <3>4, <3>5, <3>6 DEF PumpStep
  <2>5. CASE PostNudge
    BY <2>1, <2>5, Asks, Harmless DEF PostNudge
  <2>6. ASSUME PeerStep PROVE Whole'
    <3>1. CASE PeerNudges
      BY <2>1, <3>1, Asks, Harmless DEF PeerNudges
    <3> QED BY <2>1, <2>6, <3>1, PeerMovesWhole, PeerReceivesMoveWhole, PeerAnswersWhole,
            PeerSyncedWhole DEF PeerStep
  <2>7. CASE UNCHANGED nodeVars
    BY <2>1, <2>7, Asks DEF nodeVars
  <2> QED BY <2>3, <2>4, <2>5, <2>6, <2>7 DEF NodeNext
<1> QED BY <1>1, <1>2 DEF NodeInv

(* In every reachable state.                                                *)
THEOREM NodeInvariance == NodeSpec => []NodeInv
<1>1. NodeInit => NodeInv
  <2> SUFFICES ASSUME NodeInit PROVE NodeInv
    OBVIOUS
  <2>1. <<>> \in Seq(Choice)
    OBVIOUS
  <2>2. NoHand \in Hands /\ "idle" \in Places
    BY <2>1 DEF NoHand, Hands, Places
  <2>3. Types
    BY <2>1, <2>2 DEF NodeInit, Types
  <2>4. \A t \in Threads : pc[t] = "idle"
    BY DEF NodeInit
  <2>5. (\A t \in Threads : AtWork(t)) /\ OneAtATime /\ StateIsLog
    BY <2>4 DEF NodeInit, AtWork, OneAtATime, StateIsLog, Changing
  <2>6. OneHistory /\ net = {} /\ overlaps = 0
    BY DEF NodeInit, OneHistory
  <2> QED BY <2>3, <2>5, <2>6 DEF NodeInv, Whole
<1>2. NodeInv /\ [NodeNext]_nodeVars => NodeInv'
  BY NodeStep
<1> QED BY <1>1, <1>2, PTL DEF NodeSpec

(* As long as no thread looks at the session while another is between its    *)
(* look at the turn and its assignment of the state, the state is the log's,  *)
(* both sides have one history, what is sent says what it leads to, and no    *)
(* session breaks: a lock around that much would be enough.                  *)
THEOREM OneAtATimeSuffices == NodeSpec => []OneAtATimeIsWhole
<1>1. NodeInv => OneAtATimeIsWhole
  <2> SUFFICES ASSUME NodeInv, overlaps = 0
               PROVE  /\ (\A t \in Threads : pc[t] # "assign") => state = log
                      /\ IsPrefix(log, theirs) \/ IsPrefix(theirs, log)
                      /\ \A m \in net : m.t = "MOVE" =>
                           Len(m.pos) = m.ply + 1 /\ m.pos[m.ply + 1] = m.move
                      /\ "broken" \notin {status, theirStatus}
    BY DEF OneAtATimeIsWhole
  <2>1. Whole
    BY DEF NodeInv
  <2>2. \A m \in net : m.t = "MOVE" =>
          Len(m.pos) = m.ply + 1 /\ m.pos[m.ply + 1] = m.move
    BY <2>1 DEF Whole, Sent, Made
  <2>3. "broken" \notin {status, theirStatus}
    BY <2>1, TypesOf
  <2>4. (\A t \in Threads : pc[t] # "assign") => state = log
    BY <2>1 DEF Whole, StateIsLog
  <2>5. IsPrefix(log, theirs) \/ IsPrefix(theirs, log)
    BY <2>1, Ahead DEF Whole
  <2> QED BY <2>2, <2>3, <2>4, <2>5
<1> QED BY <1>1, NodeInvariance, PTL
=============================================================================
