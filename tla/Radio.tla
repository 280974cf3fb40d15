------------------------------- MODULE Radio -------------------------------
(***************************************************************************)
(* net/meshtastic.py with the loop that pumps it. The radio's thread hands   *)
(* in packets (on_packet), the main thread takes them out of the bounded     *)
(* inbox and answers; between looking at the inbox's length and appending,   *)
(* and between taking a message and answering it, the other thread may run. *)
(* A peer's MOVE adds to the log, its SYNC_REQUEST asks for the log, a text  *)
(* gets a text. Packets are numbered as they come.                          *)
(***************************************************************************)
EXTENDS Wire

CONSTANTS Peer,                \* the nodes heard
          MAX_PAYLOAD_BYTES,   \* the radio's ceiling
          InboxLimit,          \* inbox_limit
          MoveBytes,           \* the sizes a move can have
          Texts,               \* texts a person may write
          MaxPackets           \* bound on packets that come in

ASSUME RadioAssumption ==
  /\ InboxLimit \in Nat \ {0} /\ MaxPackets \in Nat /\ MoveBytes \subseteq Nat
  /\ MAX_PAYLOAD_BYTES \in Nat /\ MAX_PAYLOAD_BYTES >= BUDGET

(* A move fits into a part of its own, and the dots into a note: a move has   *)
(* one byte or two, a hash eight, the budget two hundred (messages.py:23).     *)
ASSUME FitAssumption ==
  /\ Texts \subseteq Seq(Nat)
  /\ SyncStateSize(<<>>) <= BUDGET /\ ChatSize(Dots) <= BUDGET
  /\ \A size \in MoveBytes : SyncStateSize(<<size>>) <= BUDGET

VARIABLES packets,          \* every packet that has come in: [from, port]
          heard_on,         \* _heard_on, "none" where a peer is not in it
          inbox,            \* _inbound: numbers of packets
          ingested,         \* packet being appended by on_packet, 0 if none
          serving,          \* packet taken by pump and not yet answered, 0 if none
          taken,            \* the last packet pump has taken
          lost,             \* how many packets the inbox has discarded
          dropped_inbound, dropped_sends,
          moves,            \* the log, as the sizes of its moves
          reply             \* what was sent last: [re, port, parts]

radioVars == <<packets, heard_on, inbox, ingested, serving, taken, lost, dropped_inbound,
               dropped_sends, moves, reply>>

Port == {"binary", "text"}   \* port_num and text_port
NoReply == [re |-> 0, port |-> "none", parts |-> <<>>]

RadioInit ==
  /\ packets = <<>>
  /\ heard_on = [p \in Peer |-> "none"]
  /\ inbox = <<>> /\ ingested = 0 /\ serving = 0 /\ taken = 0 /\ lost = 0
  /\ dropped_inbound = 0 /\ dropped_sends = 0
  /\ moves = <<>> /\ reply = NoReply

-----------------------------------------------------------------------------
(* Mutant of Heard: one port remembered for the whole channel.              *)
HeardOnOnePort(from, port) == [p \in Peer |-> port]

Heard(from, port) == [heard_on EXCEPT ![from] = port]

(* Mutant of Full: the last place of the inbox is not counted.              *)
FullOneLate == Len(inbox) > InboxLimit

Full == Len(inbox) = InboxLimit

(* on_packet up to the append                                               *)
Ingest(from, port) ==
  /\ ingested = 0 /\ Len(packets) < MaxPackets
  /\ packets' = Append(packets, [from |-> from, port |-> port])
  /\ heard_on' = Heard(from, port)
  /\ dropped_inbound' = dropped_inbound + (IF Full THEN 1 ELSE 0)
  /\ ingested' = Len(packets')
  /\ UNCHANGED <<inbox, serving, taken, lost, dropped_sends, moves, reply>>

(* deque(maxlen).append: a full inbox loses its oldest.                     *)
Enqueue ==
  /\ ingested # 0
  /\ LET overflows == Len(inbox) = InboxLimit IN
       /\ inbox' = Append(IF overflows THEN Tail(inbox) ELSE inbox, ingested)
       /\ lost' = lost + (IF overflows THEN 1 ELSE 0)
  /\ ingested' = 0
  /\ UNCHANGED <<packets, heard_on, serving, taken, dropped_inbound, dropped_sends, moves, reply>>

(* pump: popleft, and the callback begins.                                  *)
Take ==
  /\ serving = 0 /\ inbox # <<>>
  /\ serving' = Head(inbox) /\ taken' = Head(inbox)
  /\ inbox' = Tail(inbox)
  /\ UNCHANGED <<packets, heard_on, ingested, lost, dropped_inbound, dropped_sends, moves, reply>>

PortOf(peer) == IF heard_on[peer] = "none" THEN "binary" ELSE heard_on[peer]

(* send: over the ceiling, or refused by the radio, is dropped and counted.  *)
SendTo(peer, re, parts, sizes) ==
  LET fits == \A i \in 1..Len(sizes) : sizes[i] <= MAX_PAYLOAD_BYTES IN
  \/ /\ fits
     /\ reply' = [re |-> re, port |-> PortOf(peer), parts |-> parts]
     /\ UNCHANGED dropped_sends
  \/ /\ dropped_sends' = 1   \* counted; that there were some is all that is kept
     /\ UNCHANGED reply

(* The callback: GamePeer for a frame, the companion host for a text.       *)
ReceivesMove ==
  /\ serving # 0 /\ packets[serving].port = "binary"
  /\ \E size \in MoveBytes : moves' = Append(moves, size)
  /\ serving' = 0
  /\ UNCHANGED <<packets, heard_on, inbox, ingested, taken, lost, dropped_inbound, dropped_sends,
                 reply>>

AnswersSyncRequest ==
  /\ serving # 0 /\ packets[serving].port = "binary"
  /\ LET parts == chunk_sync_state(moves)
     IN  SendTo(packets[serving].from, serving, parts,
                [i \in 1..Len(parts) |-> SyncStateSize(parts[i])])
  /\ serving' = 0
  /\ UNCHANGED <<packets, heard_on, inbox, ingested, taken, lost, dropped_inbound, moves>>

AnswersText ==
  /\ serving # 0 /\ packets[serving].port = "text"
  /\ \E text \in Texts :
       SendTo(packets[serving].from, serving, <<>>, <<BytesOf(text)>>)
  /\ serving' = 0
  /\ UNCHANGED <<packets, heard_on, inbox, ingested, taken, lost, dropped_inbound, moves>>

RadioNext ==
  \/ \E from \in Peer, port \in Port : Ingest(from, port)
  \/ Enqueue \/ Take \/ ReceivesMove \/ AnswersSyncRequest \/ AnswersText

RadioSpec == RadioInit /\ [][RadioNext]_radioVars

-----------------------------------------------------------------------------
RadioTypeOK ==
  /\ packets \in Seq([from : Peer, port : Port])
  /\ heard_on \in [Peer -> Port \cup {"none"}]
  /\ inbox \in Seq(Nat) /\ ingested \in Nat /\ serving \in Nat /\ taken \in Nat
  /\ lost \in Nat /\ dropped_inbound \in Nat /\ dropped_sends \in Nat
  /\ moves \in Seq(MoveBytes)

(* "A caller that never pumps gets a rising dropped_inbound count instead of  *)
(* ... a mystery" (meshtastic.py:61-63): every packet that came in was taken,  *)
(* waits, or is in the count, whatever the two threads do in between; and     *)
(* those taken were taken in the order they came in.                        *)
LossIsCounted ==
  /\ lost <= dropped_inbound
  /\ \A i \in 1..Len(inbox) : inbox[i] > (IF i = 1 THEN taken ELSE inbox[i - 1])

(* "Reply on the port you were heard on" (meshtastic.py:103): an answer goes   *)
(* out on the port its question came in on, unless the same peer has since    *)
(* been heard on the other one. No other peer's packet changes it.          *)
AnsweredWhereHeard ==
  reply.re # 0 =>
    \/ reply.port = packets[reply.re].port
    \/ \E later \in reply.re + 1..Len(packets) :
         packets[later] = [from |-> packets[reply.re].from, port |-> reply.port]

Flattened(parts) ==
  LET flat[i \in 0..Len(parts)] == IF i = 0 THEN <<>> ELSE flat[i - 1] \o parts[i]
  IN  flat[Len(parts)]

ChatsFit == \A text \in Texts : ChatSize(clamp_note(text)) <= BUDGET

(* Every part of a log, and every chat, is within the budget, so the radio's  *)
(* ceiling never costs one; and the parts put together are the log.          *)
FramesFit ==
  /\ LET parts == chunk_sync_state(moves)
     IN  /\ Flattened(parts) = moves
         /\ \A i \in 1..Len(parts) : SyncStateSize(parts[i]) <= BUDGET
  /\ ChatsFit
=============================================================================
