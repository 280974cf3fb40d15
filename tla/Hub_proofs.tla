----------------------------- MODULE Hub_proofs -----------------------------
(***************************************************************************)
(* Proofs about Hub, for any number of players, browsers, boots and claims:   *)
(* a link that was handed out goes on working through every crash and         *)
(* restart, a good link is refused only where another claim of the player     *)
(* crossed it or time ran out, no mail is lost while the process lives, and a *)
(* signed-in browser acts on the Node that takes its player's mail.           *)
(***************************************************************************)
EXTENDS Hub, NaturalsInduction, WellFoundedInduction, TLAPS

Hand == [node : Nat, nonce : Nat, exp : Nat]
Issued == [nonce : Nat, exp : Nat]
Link == [address : Nat, code : Nat]

SeatTypes ==
  /\ identity \in [Name -> Nat] /\ code \in [Name -> Nat] /\ players \in [Name -> Nat]
  /\ link \in [Name -> Link]
  /\ unprinted \subseteq Name
  /\ boots \in Nat

Place == {"idle", "claim_code", "build", "register", "print", "pump",
          "authorize", "verify", "refused", "serve"}

ThreadTypes ==
  /\ pc \in [Thread -> Place] /\ who \in [Thread -> Name \cup {0}] /\ got \in [Thread -> Hand]
  /\ challenges \in [Name -> Issued]
  /\ \A s \in sessions : s.who \in Name /\ s.exp \in Nat
  /\ nonces \in Nat /\ clock \in Nat
  /\ alone \in [Browser -> BOOLEAN]

MailTypes ==
  /\ inbound \in [Name -> Seq(Nat)] /\ sent \in Nat
  /\ nodes \in [Name -> Nat] /\ listener \in [Name -> Nat] /\ events \in [Name -> Seq(Nat)]

(* Where each thread may be, and for whom. The main thread works through the  *)
(* players whose link it has yet to print; a browser claims by a link.       *)
Building == {"claim_code", "build", "register"}

ThreadInv ==
  /\ pc[Main] \in Building \cup {"idle", "print", "pump"}
  /\ ~up => \A t \in Thread : pc[t] = "idle"
  /\ pc[Main] \in Building \cup {"print"} => who[Main] \in unprinted
  /\ pc[Main] \in {"idle", "pump"} => unprinted = {}
  /\ \A b \in Browser : pc[b] \in Building \cup {"authorize", "verify"} =>
       who[b] \in Name /\ link[who[b]] # NoLink

(* The address is that of the identity on disk, the code the one on disk.     *)
LinkInv ==
  /\ up => players = identity /\ boots # 0
  /\ \A n \in unprinted : identity[n] # 0
  /\ \A n \in Name : link[n] # NoLink =>
       /\ link[n].address = identity[n] /\ identity[n] # 0
       /\ link[n].code = code[n] /\ code[n] # 0

(* A claim nobody has crossed finds its own challenge outstanding.           *)
ClaimInv ==
  /\ \A b \in Browser : pc[b] = "verify" /\ alone[b] =>
       challenges[who[b]] = [nonce |-> got[b].nonce, exp |-> got[b].exp]
  /\ \A b, c \in Browser :
       b # c /\ pc[b] = "verify" /\ pc[c] = "verify" /\ who[b] = who[c] => ~alone[b]
  /\ RefusedOnlyByOverlap

(* Mail waits only for a player of this hub, and when the main thread pumps   *)
(* every one of them has a Node listening.                                  *)
MailInv ==
  /\ \A n \in Name : inbound[n] # <<>> => up /\ identity[n] # 0
  /\ \A n \in Name : nodes[n] # 0 => listener[n] # 0
  /\ \A t \in Thread : pc[t] = "register" => listener[who[t]] # 0
  /\ pc[Main] = "print" => listener[who[Main]] # 0
  /\ up => \A n \in Name : identity[n] # 0 => n \in unprinted \/ listener[n] # 0
  /\ MailIsKept

HubInv ==
  /\ SeatTypes /\ ThreadTypes /\ MailTypes
  /\ ThreadInv /\ LinkInv /\ ClaimInv /\ MailInv

USE HubAssumption DEF disk, memory, outside, counts

-----------------------------------------------------------------------------
LEMMA LeastIsIn ==
  ASSUME NEW S \in SUBSET Nat, S # {} PROVE Least(S) \in S
<1>1. \A x, y \in Nat : <<x, y>> \in OpToRel(<, Nat) <=> x < y
  BY DEF OpToRel
<1>2. PICK R : IsWellFoundedOn(R, Nat) /\ \A x, y \in Nat : <<x, y>> \in R <=> x < y
  BY <1>1, NatLessThanWellFounded, Zenon
<1>3. S \subseteq Nat
  OBVIOUS
<1>4. PICK least \in S : \A n \in S : ~(<<n, least>> \in R)
  <2>1. IsWellFoundedOn(R, Nat)
    BY <1>2
  <2> QED BY <2>1, <1>3, WFMin, Zenon
<1>5. ASSUME NEW n \in S PROVE least <= n
  <2>1. n \in Nat /\ least \in Nat /\ ~(<<n, least>> \in R)
    BY <1>3, <1>4
  <2>2. ~(n < least)
    BY <1>2, <2>1
  <2> QED BY <2>1, <2>2
<1> QED
  BY <1>5 DEF Least

LEMMA Fields ==
  /\ EmptyHand \in Hand /\ Nothing \in Issued /\ NoLink \in Link
  /\ \A node, nonce, exp \in Nat : [node |-> node, nonce |-> nonce, exp |-> exp] \in Hand
  /\ \A nonce, exp \in Nat : [nonce |-> nonce, exp |-> exp] \in Issued
  /\ \A address, key \in Nat : [address |-> address, code |-> key] \in Link
  /\ \A hand \in Hand : hand.node \in Nat /\ hand.nonce \in Nat /\ hand.exp \in Nat
  /\ \A hand \in Hand : hand = [node |-> hand.node, nonce |-> hand.nonce, exp |-> hand.exp]
BY DEF Hand, Issued, Link, EmptyHand, Nothing, NoLink

LEMMA Threads ==
  /\ Main \in Thread /\ Main \notin Browser /\ Browser \subseteq Thread
  /\ \A t \in Thread : t = Main \/ t \in Browser
BY DEF Thread, Main

-----------------------------------------------------------------------------
(* Every variable keeps its type.                                           *)

LEMMA SeatTypesKept ==
  ASSUME SeatTypes, [HubNext]_hubVars PROVE SeatTypes'
<1>1. ASSUME NEW args \in SUBSET Name, Boot(args) PROVE SeatTypes'
  <2>1. boots + 1 \in Nat
    BY DEF SeatTypes
  <2>2. identity' \in [Name -> Nat]
    BY <1>1, <2>1 DEF Boot, SeatTypes
  <2>3. players' \in [Name -> Nat]
    BY <1>1, <2>2 DEF Boot
  <2> QED BY <1>1, <2>1, <2>2, <2>3 DEF Boot, SeatTypes, resume_players
<1>2. CASE Crash
  BY <1>2 DEF Crash, SeatTypes
<1>3. CASE PrintLink
  <2>1. code' \in [Name -> Nat]
    BY <1>3 DEF PrintLink, SeatTypes, claim_code
  <2>2. link' \in [Name -> Link]
    <3> DEFINE n == who[Main]
    <3>1. CASE n \in Name
      <4>1. players[n] \in Nat /\ code'[n] \in Nat
        BY <2>1, <3>1 DEF SeatTypes
      <4>2. [address |-> players[n], code |-> code'[n]] \in Link
        BY <4>1, Fields
      <4> QED BY <1>3, <4>2 DEF PrintLink, SeatTypes
    <3>2. CASE n \notin Name
      BY <1>3, <3>2 DEF PrintLink, SeatTypes
    <3> QED BY <3>1, <3>2
  <2> QED BY <1>3, <2>1, <2>2 DEF PrintLink, SeatTypes
<1>4. CASE UNCHANGED <<identity, code, players, link, unprinted, boots>>
  BY <1>4 DEF SeatTypes
<1>5. ASSUME NEW t \in Thread, FindNode(t) \/ BuildNode(t) \/ RegisterNode(t) PROVE SeatTypes'
  BY <1>4, <1>5 DEF FindNode, BuildNode, RegisterNode
<1>6. ASSUME NEW b \in Browser, Request(b) PROVE SeatTypes'
  <2>1. CASE \E n \in Name : OpenLink(b, n)
    BY <1>4, <2>1 DEF OpenLink
  <2>2. CASE Authorize(b)
    BY <1>4, <2>2 DEF Authorize
  <2>3. CASE Verify(b)
    BY <1>4, <2>3 DEF Verify
  <2>4. CASE Lookup(b) \/ Serve(b)
    BY <1>4, <2>4 DEF Lookup, Serve
  <2> QED BY <1>5, <1>6, <2>1, <2>2, <2>3, <2>4, Threads DEF Request
<1>7. ASSUME NEW n \in Name, MailArrives(n) \/ Pump(n) PROVE SeatTypes'
  BY <1>4, <1>7 DEF MailArrives, Pump
<1>8. CASE Tick
  BY <1>4, <1>8 DEF Tick
<1>9. CASE UNCHANGED hubVars
  BY <1>4, <1>9 DEF hubVars
<1> QED
  BY <1>1, <1>2, <1>3, <1>5, <1>6, <1>7, <1>8, <1>9, Threads DEF HubNext, MainStep

LEMMA ThreadTypesKept ==
  ASSUME SeatTypes, ThreadTypes, MailTypes, ThreadInv, [HubNext]_hubVars PROVE ThreadTypes'
<1>1. ASSUME NEW args \in SUBSET Name, Boot(args) PROVE ThreadTypes'
  <2>1. Least(unprinted') \in unprinted' /\ unprinted' \subseteq Name
    <3>1. unprinted' = resume_players \cup args /\ unprinted' # {} /\ unprinted' \subseteq Name
      BY <1>1 DEF Boot, resume_players
    <3>2. Name \subseteq Nat
      OBVIOUS
    <3> QED BY <3>1, <3>2, LeastIsIn
  <2>2. pc' \in [Thread -> Place] /\ who' \in [Thread -> Name \cup {0}]
    BY <1>1, <2>1 DEF Boot, ThreadTypes, Place
  <2> QED BY <1>1, <2>2 DEF Boot, ThreadTypes
<1>2. CASE Crash
  <2>1. pc' \in [Thread -> Place] /\ who' \in [Thread -> Name \cup {0}]
    BY <1>2 DEF Crash, Place
  <2>2. got' \in [Thread -> Hand] /\ challenges' \in [Name -> Issued]
    BY <1>2, Fields DEF Crash
  <2>3. alone' \in [Browser -> BOOLEAN]
    BY <1>2 DEF Crash
  <2>4. sessions' = {} /\ clock' = 0 /\ nonces' = nonces
    BY <1>2 DEF Crash
  <2> QED BY <2>1, <2>2, <2>3, <2>4 DEF ThreadTypes
<1>3. CASE PrintLink
  <2>1. pc' \in [Thread -> Place]
    BY <1>3 DEF PrintLink, ThreadTypes, Place
  <2>2. who' \in [Thread -> Name \cup {0}]
    <3>1. unprinted' \subseteq Name /\ unprinted' \subseteq Nat
      BY <1>3 DEF PrintLink, SeatTypes
    <3>2. unprinted' # {} => Least(unprinted') \in Name
      BY <3>1, LeastIsIn
    <3> QED BY <1>3, <3>2 DEF PrintLink, ThreadTypes
  <2> QED BY <1>3, <2>1, <2>2 DEF PrintLink, ThreadTypes
<1>4. ASSUME NEW t \in Thread, FindNode(t) PROVE ThreadTypes'
  <2>1. pc' \in [Thread -> Place]
    BY <1>4 DEF FindNode, ThreadTypes, Onward, Place
  <2> QED BY <1>4, <2>1 DEF FindNode, ThreadTypes
<1>5. ASSUME NEW t \in Thread, BuildNode(t) \/ RegisterNode(t) PROVE ThreadTypes'
  <2>1. got' \in [Thread -> Hand]
    <3>1. CASE BuildNode(t)
      <4> DEFINE fresh == Len(events[who[t]]) + 1
      <4>1. got' = [got EXCEPT ![t] = [got[t] EXCEPT !.node = fresh]]
        BY <3>1 DEF BuildNode
      <4>2. who[t] \in Name
        BY <3>1, Threads DEF BuildNode, ThreadInv, SeatTypes, Building
      <4>3. fresh \in Nat
        BY <4>2 DEF MailTypes
      <4>4. [got[t] EXCEPT !.node = fresh] \in Hand
        BY <4>3 DEF ThreadTypes, Hand
      <4> QED BY <4>1, <4>4 DEF ThreadTypes
    <3>2. CASE RegisterNode(t)
      BY <3>2, Fields DEF RegisterNode, ThreadTypes
    <3> QED BY <1>5, <3>1, <3>2
  <2>2. pc' \in [Thread -> Place]
    BY <1>5 DEF BuildNode, RegisterNode, ThreadTypes, Onward, Place
  <2> QED BY <1>5, <2>1, <2>2 DEF BuildNode, RegisterNode, ThreadTypes
<1>6. ASSUME NEW b \in Browser, NEW n \in Name, OpenLink(b, n) PROVE ThreadTypes'
  <2>1. pc' \in [Thread -> Place] /\ who' \in [Thread -> Name \cup {0}]
    BY <1>6 DEF OpenLink, ThreadTypes, Place
  <2>2. got' \in [Thread -> Hand]
    BY <1>6, Fields DEF OpenLink, ThreadTypes
  <2>3. alone' \in [Browser -> BOOLEAN]
    BY <1>6 DEF OpenLink, ThreadTypes
  <2> QED BY <1>6, <2>1, <2>2, <2>3 DEF OpenLink, ThreadTypes
<1>7. ASSUME NEW b \in Browser, Authorize(b) PROVE ThreadTypes'
  <2>1. pc' \in [Thread -> Place] /\ who' = who
    BY <1>7 DEF Authorize, ThreadTypes, Place
  <2>2. nonces + 1 \in Nat /\ clock + ChallengeTTL \in Nat /\ nonces' \in Nat
    BY <1>7 DEF Authorize, ThreadTypes
  <2>3. challenges' \in [Name -> Issued]
    <3>1. [nonce |-> nonces + 1, exp |-> clock + ChallengeTTL] \in Issued
      BY <2>2, Fields
    <3> QED BY <1>7, <3>1 DEF Authorize, ThreadTypes, Challenge
  <2>4. got' \in [Thread -> Hand]
    <3>1. CASE got' = [got EXCEPT ![b].nonce = nonces + 1, ![b].exp = clock + ChallengeTTL]
      <4>1. got' = [got EXCEPT ![b] = [got[b] EXCEPT !.nonce = nonces + 1,
                                                     !.exp = clock + ChallengeTTL]]
        BY <3>1, Threads DEF ThreadTypes
      <4>2. [got[b] EXCEPT !.nonce = nonces + 1, !.exp = clock + ChallengeTTL] \in Hand
        BY <2>2, Threads DEF ThreadTypes, Hand
      <4> QED BY <4>1, <4>2 DEF ThreadTypes
    <3>2. CASE got' = got
      BY <3>2 DEF ThreadTypes
    <3> QED BY <1>7, <3>1, <3>2 DEF Authorize
  <2>5. alone' \in [Browser -> BOOLEAN]
    BY <1>7 DEF Authorize, ThreadTypes
  <2> QED BY <1>7, <2>1, <2>2, <2>3, <2>4, <2>5 DEF Authorize, ThreadTypes
<1>8. ASSUME NEW b \in Browser, Verify(b) PROVE ThreadTypes'
  <2>1. pc' \in [Thread -> Place] /\ who' \in [Thread -> Name \cup {0}]
    BY <1>8 DEF Verify, ThreadTypes, Place
  <2>2. challenges' \in [Name -> Issued] /\ got' \in [Thread -> Hand]
    BY <1>8, Fields DEF Verify, ThreadTypes
  <2>3. \A s \in sessions' : s.who \in Name /\ s.exp \in Nat
    <3>1. pc[b] = "verify" /\ who[b] \in Name
      BY <1>8 DEF Verify, ThreadInv
    <3>2. clock + SessionTTL \in Nat
      BY DEF ThreadTypes
    <3> QED BY <1>8, <3>1, <3>2 DEF Verify, ThreadTypes
  <2> QED BY <1>8, <2>1, <2>2, <2>3 DEF Verify, ThreadTypes
<1>9. ASSUME NEW b \in Browser, Lookup(b) PROVE ThreadTypes'
  <2>1. PICK s \in sessions :
          /\ pc' = [pc EXCEPT ![b] = "serve"]
          /\ who' = [who EXCEPT ![b] = s.who]
          /\ got' = [got EXCEPT ![b] = [EmptyHand EXCEPT !.exp = s.exp]]
    BY <1>9 DEF Lookup
  <2>2. [EmptyHand EXCEPT !.exp = s.exp] \in Hand /\ s.who \in Name
    BY DEF ThreadTypes, EmptyHand, Hand
  <2>3. pc' \in [Thread -> Place] /\ who' \in [Thread -> Name \cup {0}]
    BY <2>1, <2>2 DEF ThreadTypes, Place
  <2>4. got' \in [Thread -> Hand]
    BY <2>1, <2>2 DEF ThreadTypes
  <2> QED BY <1>9, <2>3, <2>4 DEF Lookup, ThreadTypes
<1>10. ASSUME NEW b \in Browser, Serve(b) PROVE ThreadTypes'
  <2>1. pc' \in [Thread -> Place] /\ who' \in [Thread -> Name \cup {0}]
    BY <1>10 DEF Serve, ThreadTypes, Place
  <2>2. got' \in [Thread -> Hand]
    BY <1>10, Fields DEF Serve, ThreadTypes
  <2>3. sessions' \subseteq sessions
    BY <1>10 DEF Serve
  <2> QED BY <1>10, <2>1, <2>2, <2>3 DEF Serve, ThreadTypes
<1>11. ASSUME NEW n \in Name, MailArrives(n) \/ Pump(n) PROVE ThreadTypes'
  BY <1>11 DEF MailArrives, Pump, ThreadTypes
<1>12. CASE Tick
  BY <1>12 DEF Tick, ThreadTypes
<1>13. CASE UNCHANGED hubVars
  BY <1>13 DEF hubVars, ThreadTypes
<1> QED
  BY <1>1, <1>2, <1>3, <1>4, <1>5, <1>6, <1>7, <1>8, <1>9, <1>10, <1>11, <1>12, <1>13, Threads
     DEF HubNext, MainStep, Request

LEMMA EventCounted ==
  ASSUME NEW seq \in Seq(Nat), NEW i \in Nat
  PROVE  [seq EXCEPT ![i] = seq[i] + 1] \in Seq(Nat)
<1> DEFINE m == Len(seq)
           counted == [seq EXCEPT ![i] = seq[i] + 1]
<1>1. m \in Nat /\ seq \in [1..m -> Nat]
  OBVIOUS
<1>2. counted \in [1..m -> Nat]
  <2>1. CASE i \in 1..m
    <3>1. seq[i] + 1 \in Nat
      BY <1>1, <2>1
    <3> QED BY <1>1, <3>1
  <2>2. CASE i \notin 1..m
    BY <1>1, <2>2
  <2> QED BY <2>1, <2>2
<1> HIDE DEF m, counted
<1>3. counted \in Seq(Nat)
  BY <1>1, <1>2
<1> QED
  BY <1>3 DEF counted

LEMMA MailTypesKept ==
  ASSUME ThreadTypes, MailTypes, SeatTypes, ThreadInv, [HubNext]_hubVars PROVE MailTypes'
<1>0. <<>> \in Seq(Nat) /\ <<0>> \in Seq(Nat)
  OBVIOUS
<1>1. ASSUME NEW args \in SUBSET Name, Boot(args) PROVE MailTypes'
  BY <1>0, <1>1 DEF Boot, MailTypes
<1>2. CASE Crash
  BY <1>0, <1>2 DEF Crash, MailTypes
<1>3. ASSUME NEW t \in Thread, BuildNode(t) PROVE MailTypes'
  <2>1. who[t] \in Name
    BY <1>3, Threads DEF BuildNode, ThreadInv, SeatTypes, Building
  <2>2. Append(events[who[t]], 0) \in Seq(Nat) /\ Len(events[who[t]]) + 1 \in Nat
    <3>1. events[who[t]] \in Seq(Nat)
      BY <2>1 DEF MailTypes
    <3> QED BY <3>1
  <2> QED BY <1>3, <2>1, <2>2 DEF BuildNode, MailTypes
<1>4. ASSUME NEW t \in Thread, RegisterNode(t) PROVE MailTypes'
  <2>1. got[t].node \in Nat
    BY Fields DEF ThreadTypes
  <2> QED BY <1>4, <2>1 DEF RegisterNode, MailTypes
<1>5. ASSUME NEW n \in Name, MailArrives(n) PROVE MailTypes'
  <2>1. sent + 1 \in Nat /\ Append(inbound[n], sent + 1) \in Seq(Nat)
    BY DEF MailTypes
  <2> QED BY <1>5, <2>1 DEF MailArrives, MailTypes
<1>6. ASSUME NEW n \in Name, Pump(n) PROVE MailTypes'
  <2>1. Tail(inbound[n]) \in Seq(Nat)
    BY <1>6 DEF Pump, MailTypes
  <2>2. events' \in [Name -> Seq(Nat)]
    <3>1. CASE events' = [events EXCEPT ![n][listener[n]] = events[n][listener[n]] + 1]
      <4>1. events' = [events EXCEPT ![n] =
                         [events[n] EXCEPT ![listener[n]] = events[n][listener[n]] + 1]]
        BY <3>1 DEF MailTypes
      <4>2. [events[n] EXCEPT ![listener[n]] = events[n][listener[n]] + 1] \in Seq(Nat)
        BY EventCounted DEF MailTypes
      <4> QED BY <4>1, <4>2 DEF MailTypes
    <3>2. CASE events' = events
      BY <3>2 DEF MailTypes
    <3> QED BY <1>6, <3>1, <3>2 DEF Pump
  <2> QED BY <1>6, <2>1, <2>2 DEF Pump, MailTypes
<1>7. CASE UNCHANGED <<inbound, sent, nodes, listener, events>>
  BY <1>7 DEF MailTypes
<1>8. ASSUME NEW t \in Thread, FindNode(t) PROVE MailTypes'
  BY <1>7, <1>8 DEF FindNode
<1>9. ASSUME NEW b \in Browser, NEW n \in Name, OpenLink(b, n) PROVE MailTypes'
  BY <1>7, <1>9 DEF OpenLink
<1>10. ASSUME NEW b \in Browser, Authorize(b) \/ Verify(b) PROVE MailTypes'
  BY <1>7, <1>10 DEF Authorize, Verify
<1>11. ASSUME NEW b \in Browser, Lookup(b) \/ Serve(b) PROVE MailTypes'
  BY <1>7, <1>11 DEF Lookup, Serve
<1>12. CASE PrintLink \/ Tick \/ UNCHANGED hubVars
  BY <1>7, <1>12 DEF PrintLink, Tick, hubVars
<1> QED
  BY <1>1, <1>2, <1>3, <1>4, <1>5, <1>6, <1>8, <1>9, <1>10, <1>11, <1>12, Threads
     DEF HubNext, MainStep, Request

-----------------------------------------------------------------------------
(* The threads' places.                                                     *)
LEMMA ThreadInvKept ==
  ASSUME SeatTypes, ThreadTypes, ThreadInv, [HubNext]_hubVars PROVE ThreadInv'
<1> USE Threads DEF Building
<1>1. ASSUME NEW args \in SUBSET Name, Boot(args) PROVE ThreadInv'
  <2>1. unprinted' # {} /\ unprinted' \subseteq Nat
    BY <1>1 DEF Boot, resume_players
  <2>2. Least(unprinted') \in unprinted'
    BY <2>1, LeastIsIn
  <2>3. up' /\ pc'[Main] = "claim_code" /\ who'[Main] \in unprinted'
    BY <1>1, <2>2 DEF Boot, ThreadTypes
  <2>4. \A b \in Browser : pc'[b] = "idle"
    BY <1>1 DEF Boot, ThreadInv, ThreadTypes
  <2> QED BY <2>3, <2>4 DEF ThreadInv
<1>2. CASE Crash
  BY <1>2 DEF Crash, ThreadInv
<1>3. CASE PrintLink
  <2>1. up /\ up' = up /\ \A b \in Browser : pc'[b] = pc[b] /\ who'[b] = who[b]
    BY <1>3 DEF PrintLink, ThreadInv, ThreadTypes
  <2>2. \A m \in Name : link[m] # NoLink => link'[m] = link[m]
    BY <1>3 DEF PrintLink, SeatTypes
  <2>3. CASE unprinted' = {}
    <3>1. pc'[Main] = "pump"
      BY <1>3, <2>3 DEF PrintLink, ThreadTypes
    <3> QED BY <2>1, <2>2, <2>3, <3>1 DEF ThreadInv
  <2>4. CASE unprinted' # {}
    <3>1. unprinted' \subseteq Nat
      BY <1>3 DEF PrintLink, SeatTypes
    <3>2. Least(unprinted') \in unprinted'
      BY <2>4, <3>1, LeastIsIn
    <3>3. pc'[Main] = "claim_code" /\ who'[Main] \in unprinted'
      BY <1>3, <2>4, <3>2 DEF PrintLink, ThreadTypes
    <3> QED BY <2>1, <2>2, <3>3 DEF ThreadInv
  <2> QED BY <2>3, <2>4
<1>4. ASSUME NEW t \in Thread, FindNode(t) \/ BuildNode(t) \/ RegisterNode(t) PROVE ThreadInv'
  <2>1. /\ up /\ UNCHANGED <<up, who, link, unprinted>>
        /\ pc[t] \in Building
        /\ pc' = [pc EXCEPT ![t] = pc'[t]]
        /\ pc'[t] \in {"build", "register", Onward(t)}
    BY <1>4 DEF FindNode, BuildNode, RegisterNode, ThreadInv, ThreadTypes
  <2>2. CASE t = Main
    BY <2>1, <2>2 DEF ThreadInv, ThreadTypes, Onward
  <2>3. CASE t \in Browser
    BY <2>1, <2>3 DEF ThreadInv, ThreadTypes, Onward
  <2> QED BY <2>2, <2>3
<1>5. ASSUME NEW b \in Browser, NEW n \in Name, OpenLink(b, n) PROVE ThreadInv'
  BY <1>5 DEF OpenLink, ThreadInv, ThreadTypes
<1>6. ASSUME NEW b \in Browser, Authorize(b) PROVE ThreadInv'
  <2>1. /\ pc[b] = "authorize" /\ UNCHANGED <<up, who, link, unprinted>>
        /\ pc' = [pc EXCEPT ![b] = "refused"] \/ pc' = [pc EXCEPT ![b] = "verify"]
    BY <1>6 DEF Authorize
  <2> QED BY <2>1 DEF ThreadInv, ThreadTypes
<1>7. ASSUME NEW b \in Browser, Verify(b) PROVE ThreadInv'
  <2>1. /\ pc[b] = "verify" /\ UNCHANGED <<up, link, unprinted>> /\ who' = [who EXCEPT ![b] = 0]
        /\ pc' = [pc EXCEPT ![b] = "refused"] \/ pc' = [pc EXCEPT ![b] = "idle"]
    BY <1>7 DEF Verify
  <2> QED BY <2>1 DEF ThreadInv, ThreadTypes
<1>8. ASSUME NEW b \in Browser, Lookup(b) PROVE ThreadInv'
  <2>1. PICK n : /\ up /\ UNCHANGED <<up, link, unprinted>> /\ who' = [who EXCEPT ![b] = n]
                 /\ pc' = [pc EXCEPT ![b] = "serve"]
    BY <1>8 DEF Lookup
  <2> QED BY <2>1 DEF ThreadInv, ThreadTypes
<1>9. ASSUME NEW b \in Browser, Serve(b) PROVE ThreadInv'
  <2>1. /\ UNCHANGED <<up, link, unprinted>> /\ who' = [who EXCEPT ![b] = 0]
        /\ pc[b] = "serve" /\ pc' = [pc EXCEPT ![b] = "idle"]
    BY <1>9 DEF Serve
  <2> QED BY <2>1 DEF ThreadInv, ThreadTypes
<1>10. CASE UNCHANGED <<up, pc, who, link, unprinted>>
  BY <1>10 DEF ThreadInv
<1>11. ASSUME NEW n \in Name, MailArrives(n) \/ Pump(n) PROVE ThreadInv'
  BY <1>10, <1>11 DEF MailArrives, Pump
<1>12. CASE Tick \/ UNCHANGED hubVars
  BY <1>10, <1>12 DEF Tick, hubVars
<1> QED
  BY <1>1, <1>2, <1>3, <1>4, <1>5, <1>6, <1>7, <1>8, <1>9, <1>11, <1>12
     DEF HubNext, MainStep, Request

-----------------------------------------------------------------------------
(* What links hold.                                                         *)
LEMMA LinkInvKept ==
  ASSUME SeatTypes, ThreadInv, LinkInv, [HubNext]_hubVars PROVE LinkInv'
<1>1. ASSUME NEW args \in SUBSET Name, Boot(args) PROVE LinkInv'
  <2>1. boots' # 0 /\ boots + 1 # 0 /\ UNCHANGED <<code, link>>
    BY <1>1 DEF Boot, SeatTypes
  <2>2. \A n \in Name : identity'[n] = IF n \in args /\ identity[n] = 0 THEN boots + 1
                                       ELSE identity[n]
    BY <1>1 DEF Boot
  <2>3. players' = identity'
    <3>1. \A n \in Name : players'[n] = identity'[n]
      BY <1>1, <2>2 DEF Boot, resume_players
    <3> QED BY <1>1, <3>1 DEF Boot
  <2>4. \A n \in unprinted' : identity'[n] # 0
    BY <1>1, <2>1, <2>2 DEF Boot, resume_players
  <2>5. ASSUME NEW n \in Name, link'[n] # NoLink
        PROVE  /\ link'[n].address = identity'[n] /\ identity'[n] # 0
               /\ link'[n].code = code'[n] /\ code'[n] # 0
    BY <2>1, <2>2, <2>5 DEF LinkInv
  <2> QED BY <2>1, <2>3, <2>4, <2>5 DEF LinkInv
<1>2. CASE Crash
  BY <1>2 DEF Crash, LinkInv
<1>3. CASE PrintLink
  <2> DEFINE n == who[Main]
  <2>1. n \in unprinted /\ n \in Name /\ up /\ UNCHANGED <<up, players, identity, boots>>
    BY <1>3, Threads DEF PrintLink, ThreadInv, SeatTypes
  <2>2. players = identity /\ identity[n] # 0 /\ boots # 0
    BY <2>1 DEF LinkInv
  <2>3. code'[n] # 0 /\ (code[n] # 0 => code'[n] = code[n])
    BY <1>3, <2>1, <2>2 DEF PrintLink, SeatTypes, claim_code
  <2>4. \A m \in Name \ {n} : code'[m] = code[m] /\ link'[m] = link[m]
    BY <1>3 DEF PrintLink, SeatTypes
  <2>5. /\ link'[n].address = identity[n]
        /\ link'[n].code = code'[n]
    <3>1. CASE link[n] # NoLink
      BY <1>3, <2>1, <2>3, <3>1 DEF PrintLink, LinkInv
    <3>2. CASE link[n] = NoLink
      <4>1. link'[n] = [address |-> players[n], code |-> code'[n]]
        BY <1>3, <2>1, <3>2 DEF PrintLink, SeatTypes
      <4> QED BY <2>2, <4>1
    <3> QED BY <3>1, <3>2
  <2>6. ASSUME NEW m \in Name, link'[m] # NoLink
        PROVE  /\ link'[m].address = identity'[m] /\ identity'[m] # 0
               /\ link'[m].code = code'[m] /\ code'[m] # 0
    <3>1. CASE m = n
      BY <2>1, <2>2, <2>3, <2>5, <3>1
    <3>2. CASE m # n
      BY <2>1, <2>4, <2>6, <3>2 DEF LinkInv
    <3> QED BY <3>1, <3>2
  <2>7. unprinted' \subseteq unprinted
    BY <1>3 DEF PrintLink
  <2> QED BY <2>1, <2>2, <2>6, <2>7 DEF LinkInv
<1>4. CASE UNCHANGED <<identity, code, up, players, link, unprinted, boots>>
  BY <1>4 DEF LinkInv
<1>5. ASSUME NEW t \in Thread, FindNode(t) \/ BuildNode(t) \/ RegisterNode(t) PROVE LinkInv'
  BY <1>4, <1>5 DEF FindNode, BuildNode, RegisterNode
<1>6. ASSUME NEW b \in Browser, Request(b) PROVE LinkInv'
  <2>1. CASE \E n \in Name : OpenLink(b, n)
    BY <1>4, <2>1 DEF OpenLink
  <2>2. CASE Authorize(b)
    BY <1>4, <2>2 DEF Authorize
  <2>3. CASE Verify(b)
    BY <1>4, <2>3 DEF Verify
  <2>4. CASE Lookup(b) \/ Serve(b)
    BY <1>4, <2>4 DEF Lookup, Serve
  <2> QED BY <1>5, <1>6, <2>1, <2>2, <2>3, <2>4, Threads DEF Request
<1>7. ASSUME NEW n \in Name, MailArrives(n) \/ Pump(n) PROVE LinkInv'
  BY <1>4, <1>7 DEF MailArrives, Pump
<1>8. CASE Tick \/ UNCHANGED hubVars
  BY <1>4, <1>8 DEF Tick, hubVars
<1> QED
  BY <1>1, <1>2, <1>3, <1>5, <1>6, <1>7, <1>8, Threads DEF HubNext, MainStep

-----------------------------------------------------------------------------
(* Claims. A step that leaves the claims under way and the refused ones alone. *)
LEMMA ClaimsStand ==
  ASSUME ThreadTypes, ClaimInv, UNCHANGED challenges, clock' \in Nat, clock' >= clock,
         \A b \in Browser : pc'[b] \in {"verify", "refused"} =>
           /\ pc'[b] = pc[b] /\ who'[b] = who[b] /\ got'[b] = got[b] /\ alone'[b] = alone[b]
  PROVE  ClaimInv'
<1>1. ASSUME NEW b \in Browser, pc'[b] = "verify", alone'[b]
      PROVE  challenges'[who'[b]] = [nonce |-> got'[b].nonce, exp |-> got'[b].exp]
  BY <1>1 DEF ClaimInv
<1>2. ASSUME NEW b \in Browser, NEW c \in Browser, b # c,
             pc'[b] = "verify", pc'[c] = "verify", who'[b] = who'[c]
      PROVE  ~alone'[b]
  BY <1>2 DEF ClaimInv
<1>3. ASSUME NEW b \in Browser, pc'[b] = "refused" PROVE ~alone'[b] \/ clock' > got'[b].exp
  <2>1. CASE ~alone[b]
    BY <1>3, <2>1
  <2>2. CASE clock > got[b].exp
    <3>1. got[b].exp \in Nat /\ clock \in Nat /\ got'[b] = got[b]
      BY <1>3, Fields, Threads DEF ThreadTypes
    <3>2. clock' > got'[b].exp
      BY <2>2, <3>1
    <3> QED BY <3>2
  <2> QED BY <1>3, <2>1, <2>2 DEF ClaimInv, RefusedOnlyByOverlap
<1> QED
  BY <1>1, <1>2, <1>3 DEF ClaimInv, RefusedOnlyByOverlap

(* The code on a link is the one on disk, so every claim gets its challenge;  *)
(* a rival's claim is crossed by it, and it by the rival's.                  *)
LEMMA AuthorizeKeepsClaims ==
  ASSUME SeatTypes, ThreadTypes, ThreadInv, LinkInv, ClaimInv,
         NEW b \in Browser, Authorize(b)
  PROVE  ClaimInv'
<1> DEFINE n == who[b]
           fresh == [nonce |-> nonces + 1, exp |-> clock + ChallengeTTL]
<1>1. n \in Name /\ link[n].code = code[n]
  BY DEF Authorize, ThreadInv, LinkInv
<1>2. /\ UNCHANGED <<who, clock>> /\ pc[b] = "authorize"
      /\ challenges' = [challenges EXCEPT ![n] = fresh]
      /\ pc' = [pc EXCEPT ![b] = "verify"]
      /\ got' = [got EXCEPT ![b].nonce = nonces + 1, ![b].exp = clock + ChallengeTTL]
      /\ alone' = [c \in Browser |-> IF c = b THEN Rivals(b) = {} ELSE alone[c] /\ c \notin Rivals(b)]
  BY <1>1 DEF Authorize, Challenge
<1>3. /\ challenges'[n] = fresh /\ got'[b].nonce = nonces + 1 /\ got'[b].exp = clock + ChallengeTTL
      /\ pc'[b] = "verify"
      /\ \A m \in Name \ {n} : challenges'[m] = challenges[m]
  BY <1>1, <1>2, Threads DEF ThreadTypes, Hand
<1>4. \A c \in Browser \ {b} : pc'[c] = pc[c] /\ got'[c] = got[c]
  BY <1>2, Threads DEF ThreadTypes
<1>5. alone'[b] <=> Rivals(b) = {}
  BY <1>2, Zenon
<1>6. \A c \in Browser \ {b} : alone'[c] => alone[c] /\ c \notin Rivals(b)
  BY <1>2
<1>7. \A c \in Browser \ {b} : c \in Rivals(b) <=> pc[c] = "verify" /\ who[c] = n
  BY DEF Rivals
<1>8. ASSUME NEW c \in Browser, pc'[c] = "verify", alone'[c]
      PROVE  challenges'[who'[c]] = [nonce |-> got'[c].nonce, exp |-> got'[c].exp]
  <2>1. CASE c = b
    BY <1>2, <1>3, <2>1
  <2>2. CASE c # b
    <3>1. alone[c] /\ pc[c] = "verify" /\ who[c] # n /\ who[c] \in Name
      BY <1>4, <1>6, <1>7, <1>8, <2>2 DEF ThreadInv
    <3>2. challenges'[who[c]] = challenges[who[c]] /\ got'[c] = got[c] /\ who'[c] = who[c]
      BY <1>2, <1>3, <1>4, <2>2, <3>1
    <3> QED BY <3>1, <3>2 DEF ClaimInv
  <2> QED BY <2>1, <2>2
<1>9. ASSUME NEW c \in Browser, NEW d \in Browser, c # d,
             pc'[c] = "verify", pc'[d] = "verify", who'[c] = who'[d]
      PROVE  ~alone'[c]
  <2>1. CASE c = b
    BY <1>2, <1>4, <1>5, <1>7, <1>9, <2>1
  <2>2. CASE c # b /\ d = b
    BY <1>2, <1>4, <1>6, <1>7, <1>9, <2>2
  <2>3. CASE c # b /\ d # b
    BY <1>2, <1>4, <1>6, <1>9, <2>3 DEF ClaimInv
  <2> QED BY <2>1, <2>2, <2>3
<1>10. ASSUME NEW c \in Browser, pc'[c] = "refused" PROVE ~alone'[c] \/ clock' > got'[c].exp
  <2>1. c # b /\ pc[c] = "refused" /\ got'[c] = got[c] /\ (alone'[c] => alone[c])
    BY <1>3, <1>4, <1>6, <1>10
  <2> QED BY <1>2, <2>1 DEF ClaimInv, RefusedOnlyByOverlap
<1> QED
  BY <1>8, <1>9, <1>10 DEF ClaimInv, RefusedOnlyByOverlap

(* The answer takes the player's challenge away: from nobody who is alone.    *)
LEMMA VerifyKeepsClaims ==
  ASSUME SeatTypes, ThreadTypes, ThreadInv, ClaimInv, NEW b \in Browser, Verify(b)
  PROVE  ClaimInv'
<1> DEFINE n == who[b]
<1>1. /\ pc[b] = "verify" /\ n \in Name /\ UNCHANGED <<clock, alone>>
      /\ challenges' = [challenges EXCEPT ![n] = Nothing]
      /\ who' = [who EXCEPT ![b] = 0]
  BY DEF Verify, ThreadInv
<1>2. \/ pc' = [pc EXCEPT ![b] = "idle"] /\ got' = [got EXCEPT ![b] = EmptyHand]
      \/ /\ pc' = [pc EXCEPT ![b] = "refused"] /\ got' = got
         /\ ~(challenges[n].nonce = got[b].nonce /\ clock <= challenges[n].exp)
  BY DEF Verify
<1>3. \A c \in Browser \ {b} : pc'[c] = pc[c] /\ who'[c] = who[c] /\ got'[c] = got[c]
  BY <1>1, <1>2, Threads DEF ThreadTypes
<1>4. pc'[b] \in {"idle", "refused"}
  BY <1>2, Threads DEF ThreadTypes
<1>5. ASSUME NEW c \in Browser, pc'[c] = "verify", alone'[c]
      PROVE  challenges'[who'[c]] = [nonce |-> got'[c].nonce, exp |-> got'[c].exp]
  <2>1. c # b /\ pc[c] = "verify" /\ alone[c] /\ who[c] \in Name
    BY <1>1, <1>3, <1>4, <1>5 DEF ThreadInv
  <2>2. who[c] # n
    BY <1>1, <2>1 DEF ClaimInv
  <2>3. challenges'[who[c]] = challenges[who[c]]
    BY <1>1, <2>1, <2>2 DEF ThreadTypes
  <2> QED BY <1>3, <2>1, <2>3 DEF ClaimInv
<1>6. ASSUME NEW c \in Browser, NEW d \in Browser, c # d,
             pc'[c] = "verify", pc'[d] = "verify", who'[c] = who'[d]
      PROVE  ~alone'[c]
  <2>1. c # b /\ d # b
    BY <1>4, <1>6
  <2> QED BY <1>1, <1>3, <1>6, <2>1 DEF ClaimInv
<1>7. ASSUME NEW c \in Browser, pc'[c] = "refused" PROVE ~alone'[c] \/ clock' > got'[c].exp
  <2>1. CASE c = b
    <3>1. SUFFICES ASSUME alone[b] PROVE clock' > got'[b].exp
      BY <1>1, <2>1
    <3>2. got' = got /\ ~(challenges[n].nonce = got[b].nonce /\ clock <= challenges[n].exp)
      BY <1>2, <1>7, <2>1, Threads DEF ThreadTypes
    <3>3. challenges[n] = [nonce |-> got[b].nonce, exp |-> got[b].exp]
      BY <1>1, <3>1 DEF ClaimInv
    <3>4. got[b].exp \in Nat /\ clock \in Nat
      BY Fields, Threads DEF ThreadTypes
    <3>5. ~(clock <= got[b].exp)
      BY <3>2, <3>3
    <3>6. clock > got[b].exp
      BY <3>4, <3>5
    <3> QED BY <1>1, <3>2, <3>6
  <2>2. CASE c # b
    BY <1>1, <1>3, <1>7, <2>2 DEF ClaimInv, RefusedOnlyByOverlap
  <2> QED BY <2>1, <2>2
<1> QED
  BY <1>5, <1>6, <1>7 DEF ClaimInv, RefusedOnlyByOverlap

LEMMA ClaimInvKept ==
  ASSUME SeatTypes, ThreadTypes, ThreadInv, LinkInv, ClaimInv, [HubNext]_hubVars
  PROVE  ClaimInv'
<1> USE Threads
<1>0. clock \in Nat /\ clock >= clock
  BY DEF ThreadTypes
<1>1. ASSUME NEW args \in SUBSET Name, Boot(args) PROVE ClaimInv'
  <2>1. \A b \in Browser : pc'[b] = "idle"
    BY <1>1 DEF Boot, ThreadInv, ThreadTypes
  <2> QED BY <2>1 DEF ClaimInv, RefusedOnlyByOverlap
<1>2. CASE Crash
  <2>1. \A b \in Browser : pc'[b] = "idle"
    BY <1>2 DEF Crash
  <2> QED BY <2>1 DEF ClaimInv, RefusedOnlyByOverlap
<1>3. CASE PrintLink
  <2>1. /\ UNCHANGED <<challenges, clock, alone, got>>
        /\ \A b \in Browser : pc'[b] = pc[b] /\ who'[b] = who[b]
    BY <1>3 DEF PrintLink, ThreadTypes
  <2> QED BY <1>0, <2>1, ClaimsStand
<1>4. ASSUME NEW t \in Thread, FindNode(t) \/ BuildNode(t) \/ RegisterNode(t) PROVE ClaimInv'
  <2>1. /\ UNCHANGED <<challenges, clock, alone, who>>
        /\ pc'[t] \notin {"verify", "refused"}
        /\ \A s \in Thread \ {t} : pc'[s] = pc[s] /\ got'[s] = got[s]
    BY <1>4 DEF FindNode, BuildNode, RegisterNode, ThreadTypes, Onward
  <2> QED BY <1>0, <2>1, ClaimsStand
<1>5. ASSUME NEW b \in Browser, NEW n \in Name, OpenLink(b, n) PROVE ClaimInv'
  <2>1. /\ UNCHANGED <<challenges, clock>> /\ pc'[b] = "claim_code"
        /\ \A c \in Browser \ {b} :
             pc'[c] = pc[c] /\ who'[c] = who[c] /\ got'[c] = got[c] /\ alone'[c] = alone[c]
    BY <1>5 DEF OpenLink, ThreadTypes
  <2> QED BY <1>0, <2>1, ClaimsStand
<1>6. ASSUME NEW b \in Browser, Lookup(b) \/ Serve(b) PROVE ClaimInv'
  <2>1. /\ UNCHANGED <<challenges, clock, alone>> /\ pc'[b] \in {"serve", "idle"}
        /\ \A c \in Browser \ {b} : pc'[c] = pc[c] /\ who'[c] = who[c] /\ got'[c] = got[c]
    BY <1>6 DEF Lookup, Serve, ThreadTypes
  <2> QED BY <1>0, <2>1, ClaimsStand
<1>7. ASSUME NEW b \in Browser, Authorize(b) \/ Verify(b) PROVE ClaimInv'
  BY <1>7, AuthorizeKeepsClaims, VerifyKeepsClaims
<1>8. ASSUME NEW n \in Name, MailArrives(n) \/ Pump(n) PROVE ClaimInv'
  <2>1. UNCHANGED <<challenges, clock, alone, pc, who, got>>
    BY <1>8 DEF MailArrives, Pump
  <2> QED BY <1>0, <2>1, ClaimsStand
<1>9. CASE Tick
  <2>1. UNCHANGED <<challenges, alone, pc, who, got>> /\ clock' \in Nat /\ clock' >= clock
    BY <1>0, <1>9 DEF Tick
  <2> QED BY <2>1, ClaimsStand
<1>10. CASE UNCHANGED hubVars
  <2>1. UNCHANGED <<challenges, clock, alone, pc, who, got>>
    BY <1>10 DEF hubVars
  <2> QED BY <1>0, <2>1, ClaimsStand
<1> QED
  BY <1>1, <1>2, <1>3, <1>4, <1>5, <1>6, <1>7, <1>8, <1>9, <1>10
     DEF HubNext, MainStep, Request

-----------------------------------------------------------------------------
(* Mail. A step that neither delivers nor pumps, and takes no listener away.  *)
LEMMA MailStands ==
  ASSUME MailInv, UNCHANGED <<up, identity, inbound, sent, handled, gone>>,
         \A n \in Name : listener[n] # 0 => listener'[n] # 0,
         \A n \in Name : nodes'[n] # 0 => listener'[n] # 0,
         \A t \in Thread : pc'[t] = "register" => listener'[who'[t]] # 0,
         pc'[Main] = "print" => listener'[who'[Main]] # 0,
         \A n \in unprinted : n \in unprinted' \/ listener'[n] # 0
  PROVE  MailInv'
<1>1. MailIsKept'
  BY DEF MailInv, MailIsKept, Waiting
<1> QED
  BY <1>1 DEF MailInv

LEMMA ArrivingIsKept ==
  ASSUME MailTypes, LinkInv, MailInv, NEW n \in Name, MailArrives(n)
  PROVE  MailInv'
<1>1. /\ up /\ players[n] = link[n].address /\ identity[n] # 0
      /\ inbound' = [inbound EXCEPT ![n] = Append(inbound[n], sent + 1)]
      /\ sent' = sent + 1
      /\ UNCHANGED <<up, identity, nodes, listener, unprinted, pc, who, handled, gone>>
  BY DEF MailArrives, LinkInv
<1>2. inbound[n] \in Seq(Nat) /\ sent \in Nat
  BY DEF MailTypes
<1> DEFINE k == Len(inbound[n])
<1>3. /\ k \in Nat /\ Len(inbound'[n]) = k + 1 /\ inbound'[n][k + 1] = sent + 1
      /\ \A i \in 1..k : inbound'[n][i] = inbound[n][i]
      /\ \A m \in Name \ {n} : inbound'[m] = inbound[m]
  BY <1>1, <1>2 DEF MailTypes
<1>4. ASSUME NEW m \in 1..sent' PROVE m \in handled' \cup gone' \/ Waiting(m)'
  <2>1. CASE m = sent + 1
    <3>1. k + 1 \in 1..Len(inbound'[n])
      BY <1>3
    <3> QED BY <1>3, <2>1, <3>1 DEF Waiting
  <2>2. CASE m # sent + 1
    <3>1. m \in 1..sent
      BY <1>1, <1>2, <2>2
    <3>2. CASE m \in handled \cup gone
      BY <1>1, <3>2
    <3>3. CASE Waiting(m)
      <4>1. PICK p \in Name : \E i \in 1..Len(inbound[p]) : inbound[p][i] = m
        BY <3>3 DEF Waiting
      <4>2. PICK i \in 1..Len(inbound[p]) : inbound[p][i] = m
        BY <4>1
      <4>3. i \in 1..Len(inbound'[p]) /\ inbound'[p][i] = m
        BY <1>3, <4>2
      <4> QED BY <4>3 DEF Waiting
    <3> QED BY <3>1, <3>2, <3>3 DEF MailInv, MailIsKept
  <2> QED BY <2>1, <2>2
<1>5. \A m \in Name : inbound'[m] # <<>> => up /\ identity[m] # 0
  BY <1>1, <1>3 DEF MailInv
<1> QED
  BY <1>1, <1>4, <1>5 DEF MailInv, MailIsKept

(* By the time the main thread pumps every player has a Node.                *)
LEMMA PumpingKeeps ==
  ASSUME MailTypes, ThreadInv, MailInv, NEW n \in Name, Pump(n)
  PROVE  MailInv'
<1>1. inbound[n] # <<>> /\ up /\ identity[n] # 0 /\ unprinted = {}
  BY DEF Pump, ThreadInv, MailInv
<1>2. listener[n] # 0
  BY <1>1 DEF MailInv
<1>3. /\ inbound' = [inbound EXCEPT ![n] = Tail(inbound[n])]
      /\ handled' = handled \cup {Head(inbound[n])}
      /\ UNCHANGED <<up, identity, nodes, listener, unprinted, pc, who, sent, gone>>
  BY <1>2 DEF Pump
<1>4. inbound[n] \in Seq(Nat)
  BY DEF MailTypes
<1> DEFINE k == Len(inbound[n])
<1>5. /\ k \in Nat \ {0} /\ Len(Tail(inbound[n])) = k - 1 /\ Head(inbound[n]) = inbound[n][1]
      /\ \A i \in 1..k - 1 : Tail(inbound[n])[i] = inbound[n][i + 1]
  BY <1>1, <1>4
<1>6. inbound'[n] = Tail(inbound[n]) /\ \A m \in Name \ {n} : inbound'[m] = inbound[m]
  BY <1>3 DEF MailTypes
<1>7. ASSUME NEW m \in 1..sent PROVE m \in handled' \cup gone' \/ Waiting(m)'
  <2>1. CASE m \in handled \cup gone
    BY <1>3, <2>1
  <2>2. CASE Waiting(m)
    <3>1. PICK p \in Name : \E i \in 1..Len(inbound[p]) : inbound[p][i] = m
      BY <2>2 DEF Waiting
    <3>2. PICK i \in 1..Len(inbound[p]) : inbound[p][i] = m
      BY <3>1
    <3>3. CASE p # n
      <4>1. i \in 1..Len(inbound'[p]) /\ inbound'[p][i] = m
        BY <1>6, <3>2, <3>3
      <4> QED BY <4>1 DEF Waiting
    <3>4. CASE p = n /\ i = 1
      BY <1>3, <1>5, <3>2, <3>4
    <3>5. CASE p = n /\ i # 1
      <4>1. i - 1 \in 1..k - 1 /\ (i - 1) + 1 = i
        BY <1>5, <3>2, <3>5
      <4>2. inbound'[n][i - 1] = m /\ i - 1 \in 1..Len(inbound'[n])
        BY <1>5, <1>6, <3>2, <3>5, <4>1
      <4> QED BY <4>2 DEF Waiting
    <3> QED BY <3>3, <3>4, <3>5
  <2> QED BY <2>1, <2>2 DEF MailInv, MailIsKept
<1>8. \A m \in Name : inbound'[m] # <<>> => up /\ identity[m] # 0
  BY <1>1, <1>6 DEF MailInv
<1> QED
  BY <1>3, <1>7, <1>8 DEF MailInv, MailIsKept

LEMMA MailInvKept ==
  ASSUME SeatTypes, ThreadTypes, MailTypes, ThreadInv, LinkInv, MailInv, [HubNext]_hubVars
  PROVE  MailInv'
<1> USE Threads
<1>1. ASSUME NEW args \in SUBSET Name, Boot(args) PROVE MailInv'
  <2>1. ~up /\ \A n \in Name : inbound'[n] = <<>>
    BY <1>1 DEF Boot, MailInv
  <2>2. \A t \in Thread : pc'[t] \in {"idle", "claim_code"}
    BY <1>1 DEF Boot, ThreadInv, ThreadTypes
  <2>3. nodes' = listener'
    BY <1>1 DEF Boot
  <2>4. \A n \in Name : identity'[n] # 0 => n \in unprinted'
    BY <1>1 DEF Boot, resume_players
  <2>5. MailIsKept'
    BY <1>1 DEF Boot, MailInv, MailIsKept, Waiting
  <2> QED BY <2>1, <2>2, <2>3, <2>4, <2>5 DEF MailInv
<1>2. CASE Crash
  <2>1. /\ up' = FALSE /\ \A n \in Name : inbound'[n] = <<>>
        /\ nodes' = listener' /\ \A t \in Thread : pc'[t] = "idle"
    BY <1>2 DEF Crash
  <2>2. MailIsKept'
    BY <1>2 DEF Crash, MailInv, MailIsKept, Waiting
  <2> QED BY <2>1, <2>2 DEF MailInv
<1>3. CASE PrintLink
  <2>1. /\ UNCHANGED <<up, identity, inbound, sent, handled, gone, nodes, listener>>
        /\ unprinted' = unprinted \ {who[Main]} /\ pc[Main] = "print"
        /\ pc'[Main] \in {"pump", "claim_code"}
        /\ \A b \in Browser : pc'[b] = pc[b] /\ who'[b] = who[b]
    BY <1>3 DEF PrintLink, ThreadTypes
  <2>2. listener[who[Main]] # 0
    BY <2>1 DEF MailInv
  <2>3. \A t \in Thread : pc'[t] = "register" => listener'[who'[t]] # 0
    BY <2>1 DEF MailInv
  <2>4. \A n \in unprinted : n \in unprinted' \/ listener'[n] # 0
    BY <2>1, <2>2
  <2>5. /\ \A n \in Name : nodes'[n] # 0 => listener'[n] # 0
        /\ \A n \in Name : listener[n] # 0 => listener'[n] # 0
    BY <2>1 DEF MailInv
  <2> QED BY <2>1, <2>3, <2>4, <2>5, MailStands
<1>4. ASSUME NEW t \in Thread, FindNode(t) PROVE MailInv'
  <2>1. /\ UNCHANGED <<up, identity, inbound, sent, handled, gone, nodes, listener, who, unprinted>>
        /\ pc[t] = "claim_code"
        /\ pc'[t] = IF nodes[who[t]] # 0 THEN Onward(t) ELSE "build"
        /\ \A s \in Thread \ {t} : pc'[s] = pc[s]
    BY <1>4 DEF FindNode, ThreadTypes
  <2>2. who[t] \in Name
    BY <2>1 DEF ThreadInv, SeatTypes, Building
  <2>3. \A s \in Thread : pc'[s] = "register" => listener'[who'[s]] # 0
    BY <2>1 DEF MailInv, Onward
  <2>4. pc'[Main] = "print" => listener'[who'[Main]] # 0
    BY <2>1, <2>2 DEF MailInv
  <2>5. /\ \A n \in Name : nodes'[n] # 0 => listener'[n] # 0
        /\ \A n \in Name : listener[n] # 0 => listener'[n] # 0
        /\ \A n \in unprinted : n \in unprinted' \/ listener'[n] # 0
    BY <2>1 DEF MailInv
  <2> QED BY <2>1, <2>3, <2>4, <2>5, MailStands
<1>5. ASSUME NEW t \in Thread, BuildNode(t) PROVE MailInv'
  <2>1. /\ UNCHANGED <<up, identity, inbound, sent, handled, gone, nodes, who, unprinted>>
        /\ pc[t] = "build" /\ pc'[t] = "register"
        /\ listener' = [listener EXCEPT ![who[t]] = Len(events[who[t]]) + 1]
        /\ \A s \in Thread \ {t} : pc'[s] = pc[s]
    BY <1>5 DEF BuildNode, ThreadTypes
  <2>2. who[t] \in Name
    BY <2>1 DEF ThreadInv, SeatTypes, Building
  <2>3. events[who[t]] \in Seq(Nat)
    BY <2>2 DEF MailTypes
  <2>4. listener'[who[t]] # 0 /\ \A n \in Name : n # who[t] => listener'[n] = listener[n]
    BY <2>1, <2>2, <2>3 DEF MailTypes
  <2>5. /\ \A s \in Thread : pc[s] = "register" => who[s] \in Name
        /\ pc[Main] = "print" => who[Main] \in Name
    BY DEF ThreadInv, SeatTypes, Building
  <2>6. \A s \in Thread : pc'[s] = "register" => listener'[who'[s]] # 0
    BY <2>1, <2>4, <2>5 DEF MailInv
  <2>7. pc'[Main] = "print" => listener'[who'[Main]] # 0
    BY <2>1, <2>4, <2>5 DEF MailInv
  <2>8. /\ \A n \in Name : nodes'[n] # 0 => listener'[n] # 0
        /\ \A n \in Name : listener[n] # 0 => listener'[n] # 0
        /\ \A n \in unprinted : n \in unprinted' \/ listener'[n] # 0
    BY <2>1, <2>4 DEF MailInv
  <2> QED BY <2>1, <2>6, <2>7, <2>8, MailStands
<1>6. ASSUME NEW t \in Thread, RegisterNode(t) PROVE MailInv'
  <2>1. /\ UNCHANGED <<up, identity, inbound, sent, handled, gone, listener, who, unprinted>>
        /\ pc[t] = "register" /\ pc'[t] = Onward(t)
        /\ nodes' = [nodes EXCEPT ![who[t]] = got[t].node]
        /\ \A s \in Thread \ {t} : pc'[s] = pc[s]
    BY <1>6 DEF RegisterNode, ThreadTypes
  <2>2. listener[who[t]] # 0
    BY <2>1 DEF MailInv
  <2>3. \A s \in Thread : pc'[s] = "register" => listener'[who'[s]] # 0
    BY <2>1 DEF MailInv, Onward
  <2>4. pc'[Main] = "print" => listener'[who'[Main]] # 0
    BY <2>1, <2>2 DEF MailInv
  <2>5. /\ \A n \in Name : nodes'[n] # 0 => listener'[n] # 0
        /\ \A n \in Name : listener[n] # 0 => listener'[n] # 0
        /\ \A n \in unprinted : n \in unprinted' \/ listener'[n] # 0
    BY <2>1, <2>2 DEF MailInv, MailTypes
  <2> QED BY <2>1, <2>3, <2>4, <2>5, MailStands
<1>7. ASSUME UNCHANGED <<up, identity, inbound, sent, handled, gone, nodes, listener, unprinted>>,
             \A t \in Thread : pc'[t] \in {"register", "print"} => pc'[t] = pc[t] /\ who'[t] = who[t]
      PROVE  MailInv'
  <2>1. /\ \A n \in Name : nodes'[n] # 0 => listener'[n] # 0
        /\ \A n \in Name : listener[n] # 0 => listener'[n] # 0
        /\ \A n \in unprinted : n \in unprinted' \/ listener'[n] # 0
        /\ \A t \in Thread : pc'[t] = "register" => listener'[who'[t]] # 0
        /\ pc'[Main] = "print" => listener'[who'[Main]] # 0
    BY <1>7 DEF MailInv
  <2> QED BY <1>7, <2>1, MailStands
<1>8. ASSUME NEW b \in Browser, NEW n \in Name, OpenLink(b, n) PROVE MailInv'
  BY <1>7, <1>8 DEF OpenLink, ThreadTypes
<1>9. ASSUME NEW b \in Browser, Authorize(b) PROVE MailInv'
  BY <1>7, <1>9 DEF Authorize, ThreadTypes
<1>10. ASSUME NEW b \in Browser, Verify(b) PROVE MailInv'
  BY <1>7, <1>10 DEF Verify, ThreadTypes
<1>11. ASSUME NEW b \in Browser, Lookup(b) \/ Serve(b) PROVE MailInv'
  BY <1>7, <1>11 DEF Lookup, Serve, ThreadTypes
<1>12. ASSUME NEW n \in Name, MailArrives(n) \/ Pump(n) PROVE MailInv'
  BY <1>12, ArrivingIsKept, PumpingKeeps
<1>13. CASE Tick
  BY <1>7, <1>13 DEF Tick
<1>14. CASE UNCHANGED hubVars
  BY <1>7, <1>14 DEF hubVars
<1> QED
  BY <1>1, <1>2, <1>3, <1>4, <1>5, <1>6, <1>8, <1>9, <1>10, <1>11, <1>12, <1>13, <1>14
     DEF HubNext, MainStep, Request

-----------------------------------------------------------------------------
LEMMA HubInitInv == HubInit => HubInv
<1> SUFFICES ASSUME HubInit PROVE HubInv
  OBVIOUS
<1>0. <<>> \in Seq(Nat) /\ 0 \in Nat
  OBVIOUS
<1>1. SeatTypes
  BY Fields DEF HubInit, SeatTypes
<1>2. ThreadTypes
  <2>1. pc \in [Thread -> Place] /\ who \in [Thread -> Name \cup {0}]
    BY DEF HubInit, Place
  <2>2. got \in [Thread -> Hand] /\ challenges \in [Name -> Issued]
    BY Fields DEF HubInit
  <2>3. alone \in [Browser -> BOOLEAN] /\ sessions = {} /\ nonces \in Nat /\ clock \in Nat
    BY DEF HubInit
  <2> QED BY <2>1, <2>2, <2>3 DEF ThreadTypes
<1>3. MailTypes
  BY <1>0 DEF HubInit, MailTypes
<1>4. ThreadInv
  BY Threads DEF HubInit, ThreadInv, Building
<1>5. LinkInv
  BY DEF HubInit, LinkInv
<1>6. ClaimInv
  BY Threads DEF HubInit, ClaimInv, RefusedOnlyByOverlap
<1>7. MailInv
  <2>1. /\ ~up /\ sent = 0 /\ \A n \in Name : inbound[n] = <<>> /\ nodes[n] = 0
        /\ \A t \in Thread : pc[t] = "idle"
    BY DEF HubInit
  <2>2. MailIsKept
    BY <2>1 DEF MailIsKept
  <2> QED BY <2>1, <2>2, Threads DEF MailInv
<1> QED
  BY <1>1, <1>2, <1>3, <1>4, <1>5, <1>6, <1>7 DEF HubInv

(* What the disk holds, where the threads are, what is outstanding and what    *)
(* waits belong together after every step, a crash included.                *)
THEOREM HubInvariance == HubSpec => []HubInv
<1>1. HubInv /\ [HubNext]_hubVars => HubInv'
  BY SeatTypesKept, ThreadTypesKept, MailTypesKept, ThreadInvKept, LinkInvKept, ClaimInvKept,
     MailInvKept DEF HubInv
<1> QED
  BY <1>1, HubInitInv, PTL DEF HubSpec

(* A link handed out by any boot works under every later one (resume_players,  *)
(* hub.py:181; claim_code, roster.py:94).                                   *)
THEOREM LinksWorkForEver == HubSpec => []LinksLast
<1>1. HubInv => LinksLast
  BY DEF HubInv, LinkInv, LinksLast
<1> QED
  BY <1>1, HubInvariance, PTL

(* A good link is refused only where another claim of its player crossed it,   *)
(* or its challenge ran out (auth.py:106, roster.py:127).                    *)
THEOREM RefusalsExplained == HubSpec => []RefusedOnlyByOverlap
<1>1. HubInv => RefusedOnlyByOverlap
  BY DEF HubInv, ClaimInv
<1> QED
  BY <1>1, HubInvariance, PTL

(* Mail is handled by a Node or waits for one, as long as the process lives    *)
(* (hub.py:102-120, PlayerTransport.deliver and pump).                       *)
THEOREM NoMailLost == HubSpec => []MailIsKept
<1>1. HubInv => MailIsKept
  BY DEF HubInv, MailInv
<1> QED
  BY <1>1, HubInvariance, PTL

-----------------------------------------------------------------------------
(* The seat of a signed-in browser.                                         *)

(* Tokens are made of nonces, each used once; a session is one player's.     *)
TokenInv ==
  /\ token \in [Browser -> Nat] /\ cursor \in [Browser -> Nat]
  /\ \A s \in sessions : s.token \in Nat /\ s.token <= nonces
  /\ \A b \in Browser : token[b] <= nonces
  /\ \A s, r \in sessions : s.token = r.token => s.who = r.who
  /\ \A c \in Browser : pc[c] = "verify" =>
       /\ got[c].nonce <= nonces
       /\ \A s \in sessions : s.token # got[c].nonce
       /\ \A b \in Browser : token[b] # got[c].nonce
       /\ \A b \in Browser \ {c} : pc[b] = "verify" => got[b].nonce # got[c].nonce
  /\ \A b \in Browser : pc[b] = "serve" =>
       /\ who[b] \in Name
       /\ \A s \in sessions : s.token = token[b] => s.who = who[b]
  /\ ~up => sessions = {}

Builds(t, n) == pc[t] \in {"build", "register"} /\ who[t] = n
Registers(t, n) == pc[t] = "register" /\ who[t] = n
Seated == {"authorize", "verify", "serve"}

(* A Node requests act on is one that was built; whoever is past the claim    *)
(* code, and whoever has a session, has one.                                *)
BuiltInv ==
  /\ \A n \in Name : nodes[n] <= Len(events[n]) /\ listener[n] <= Len(events[n])
  /\ \A t \in Thread : \A n \in Name : Registers(t, n) => got[t].node \in 1..Len(events[n])
  /\ \A b \in Browser : pc[b] \in Seated => nodes[who[b]] # 0
  /\ \A s \in sessions : nodes[s.who] # 0

(* One thread at most builds a Node of n, and the mail goes to that Node.     *)
OneNode(n) ==
  /\ \A t, u \in Thread : Builds(t, n) /\ Builds(u, n) => t = u
  /\ \A t \in Thread : Builds(t, n) => nodes[n] = 0
  /\ \A t \in Thread : Registers(t, n) => got[t].node = listener[n]
  /\ (\A t \in Thread : ~Registers(t, n)) => nodes[n] = listener[n]

NodesInv == BuiltInv /\ \A n \in Name \ twice : OneNode(n)

SigningIn == Building \cup {"authorize", "verify"}
Recorded(n) == events[n][nodes[n]]

CursorInv ==
  /\ \A b \in Browser : pc[b] \in SigningIn => cursor[b] = 0
  /\ \A b \in Browser : \A s \in sessions :
       s.token = token[b] /\ s.who \notin twice => cursor[b] <= Recorded(s.who)

SeatInv == HubInv /\ TokenInv /\ NodesInv /\ CursorInv

(* A step without a session begun or a claim made leaves the tokens alone.    *)
LEMMA TokensStand ==
  ASSUME TokenInv, UNCHANGED <<token, sessions, nonces>>, up' = up \/ up',
         cursor' \in [Browser -> Nat],
         \A b \in Browser : pc'[b] \in {"verify", "serve"} =>
           pc'[b] = pc[b] /\ who'[b] = who[b] /\ got'[b] = got[b]
  PROVE  TokenInv'
<1>1. ASSUME NEW c \in Browser, pc'[c] = "verify"
      PROVE  /\ got'[c].nonce <= nonces'
             /\ \A s \in sessions' : s.token # got'[c].nonce
             /\ \A b \in Browser : token'[b] # got'[c].nonce
             /\ \A b \in Browser \ {c} : pc'[b] = "verify" => got'[b].nonce # got'[c].nonce
  BY <1>1 DEF TokenInv
<1>2. ASSUME NEW b \in Browser, pc'[b] = "serve"
      PROVE  /\ who'[b] \in Name
             /\ \A s \in sessions' : s.token = token'[b] => s.who = who'[b]
  BY <1>2 DEF TokenInv
<1> QED BY <1>1, <1>2 DEF TokenInv

LEMMA RecordedNat ==
  ASSUME MailTypes, BuiltInv, NEW n \in Name, nodes[n] # 0
  PROVE  nodes[n] \in 1..Len(events[n]) /\ Recorded(n) \in Nat
<1>1. events[n] \in Seq(Nat) /\ nodes[n] \in Nat /\ nodes[n] <= Len(events[n])
  BY DEF MailTypes, BuiltInv
<1>2. nodes[n] \in 1..Len(events[n])
  BY <1>1
<1> QED BY <1>1, <1>2 DEF Recorded

LEMMA AuthorizeKeepsTokens ==
  ASSUME ThreadTypes, TokenInv, NEW b \in Browser, Authorize(b)
  PROVE  TokenInv'
<1> USE Threads
<1>1. CASE nonces' = nonces /\ pc' = [pc EXCEPT ![b] = "refused"] /\ UNCHANGED got
  <2>1. /\ UNCHANGED <<token, sessions, up, cursor, who>> /\ cursor' \in [Browser -> Nat]
        /\ \A c \in Browser : pc'[c] \in {"verify", "serve"} => pc'[c] = pc[c]
    BY <1>1 DEF Authorize, TokenInv, ThreadTypes
  <2> QED BY <1>1, <2>1, TokensStand
<1>2. CASE /\ nonces' = nonces + 1 /\ pc' = [pc EXCEPT ![b] = "verify"]
           /\ got' = [got EXCEPT ![b].nonce = nonces + 1, ![b].exp = clock + ChallengeTTL]
  <2>1. /\ UNCHANGED <<token, sessions, up, cursor, who>>
        /\ nonces \in Nat /\ got'[b].nonce = nonces + 1
        /\ pc'[b] = "verify"
        /\ \A c \in Browser \ {b} : pc'[c] = pc[c] /\ got'[c] = got[c]
    BY <1>2 DEF Authorize, ThreadTypes, Hand
  <2>2. \A s \in sessions : s.token \in Nat /\ s.token <= nonces
    BY DEF TokenInv
  <2>3. \A c \in Browser : token[c] \in Nat /\ token[c] <= nonces
    BY DEF TokenInv
  <2>4. \A c \in Browser : got[c].nonce \in Nat
    BY Fields DEF ThreadTypes
  <2>5. ASSUME NEW c \in Browser, pc'[c] = "verify"
        PROVE  /\ got'[c].nonce <= nonces'
               /\ \A s \in sessions' : s.token # got'[c].nonce
               /\ \A a \in Browser : token'[a] # got'[c].nonce
               /\ \A a \in Browser \ {c} : pc'[a] = "verify" => got'[a].nonce # got'[c].nonce
    <3>1. CASE c = b
      <4>1. \A a \in Browser \ {b} : pc'[a] = "verify" => got'[a].nonce <= nonces
        BY <2>1 DEF TokenInv
      <4>2. /\ nonces + 1 <= nonces'
            /\ \A s \in sessions : s.token # nonces + 1
            /\ \A a \in Browser : token[a] # nonces + 1
        BY <1>2, <2>1, <2>2, <2>3
      <4>3. \A a \in Browser \ {b} : pc'[a] = "verify" => got'[a].nonce # nonces + 1
        BY <2>1, <2>4, <4>1
      <4> QED BY <2>1, <3>1, <4>2, <4>3
    <3>2. CASE c # b
      <4>1. pc[c] = "verify" /\ got'[c] = got[c] /\ got[c].nonce <= nonces
        BY <2>1, <2>5, <3>2 DEF TokenInv
      <4>2. got[c].nonce <= nonces' /\ got[c].nonce # nonces + 1
        BY <1>2, <2>1, <2>4, <4>1
      <4>3. \A a \in Browser \ {c} : pc'[a] = "verify" => got'[a].nonce # got[c].nonce
        BY <2>1, <4>1, <4>2 DEF TokenInv
      <4> QED BY <2>1, <4>1, <4>2, <4>3 DEF TokenInv
    <3> QED BY <3>1, <3>2
  <2>6. /\ \A s \in sessions' : s.token <= nonces'
        /\ \A c \in Browser : token'[c] <= nonces'
    BY <1>2, <2>1, <2>2, <2>3
  <2>7. \A c \in Browser : pc'[c] = "serve" => pc[c] = "serve"
    BY <2>1
  <2> QED BY <2>1, <2>2, <2>5, <2>6, <2>7 DEF TokenInv
<1> QED BY <1>1, <1>2 DEF Authorize

(* The nonce of a granted claim becomes the token of one session.            *)
LEMMA VerifyKeepsTokens ==
  ASSUME ThreadTypes, ThreadInv, TokenInv, NEW b \in Browser, Verify(b)
  PROVE  TokenInv'
<1> USE Threads
<1> DEFINE n == who[b]
           k == got[b].nonce
<1>1. /\ pc[b] = "verify" /\ n \in Name /\ up /\ k \in Nat /\ k <= nonces
      /\ \A s \in sessions : s.token # k
      /\ \A c \in Browser : token[c] # k
      /\ \A c \in Browser \ {b} : pc[c] = "verify" => got[c].nonce # k
  BY Fields DEF Verify, ThreadInv, TokenInv, ThreadTypes
<1>2. UNCHANGED <<nonces, cursor, up>> /\ who' = [who EXCEPT ![b] = 0]
  BY DEF Verify
<1>3. CASE pc' = [pc EXCEPT ![b] = "refused"] /\ UNCHANGED <<sessions, token, got>>
  <2>1. \A c \in Browser : pc'[c] \in {"verify", "serve"} => pc'[c] = pc[c] /\ who'[c] = who[c]
    BY <1>2, <1>3 DEF ThreadTypes
  <2> QED BY <1>2, <1>3, <2>1, TokensStand DEF TokenInv
<1>4. CASE /\ pc' = [pc EXCEPT ![b] = "idle"]
           /\ sessions' = sessions \cup {[token |-> k, who |-> n, exp |-> clock + SessionTTL]}
           /\ token' = [token EXCEPT ![b] = k]
           /\ got' = [got EXCEPT ![b] = EmptyHand]
  <2>1. /\ pc'[b] = "idle" /\ token'[b] = k
        /\ \A c \in Browser \ {b} :
             pc'[c] = pc[c] /\ who'[c] = who[c] /\ got'[c] = got[c] /\ token'[c] = token[c]
    BY <1>2, <1>4 DEF ThreadTypes, TokenInv
  <2>2. \A s \in sessions' : s \in sessions \/ (s.token = k /\ s.who = n)
    BY <1>4
  <2>3. token' \in [Browser -> Nat] /\ \A c \in Browser : token'[c] <= nonces
    BY <1>1, <1>4, <2>1 DEF TokenInv
  <2>4. \A s \in sessions' : s.token \in Nat /\ s.token <= nonces
    BY <1>1, <2>2 DEF TokenInv
  <2>5. \A s, r \in sessions' : s.token = r.token => s.who = r.who
    BY <1>1, <2>2 DEF TokenInv
  <2>6. ASSUME NEW c \in Browser, pc'[c] = "verify"
        PROVE  /\ got'[c].nonce <= nonces'
               /\ \A s \in sessions' : s.token # got'[c].nonce
               /\ \A a \in Browser : token'[a] # got'[c].nonce
               /\ \A a \in Browser \ {c} : pc'[a] = "verify" => got'[a].nonce # got'[c].nonce
    <3>1. c # b /\ pc[c] = "verify" /\ got'[c] = got[c] /\ got[c].nonce # k
      BY <1>1, <2>1, <2>6
    <3>2. \A a \in Browser \ {c} : pc'[a] = "verify" => got'[a].nonce # got[c].nonce
      BY <2>1, <3>1 DEF TokenInv
    <3>3. \A a \in Browser : token'[a] # got[c].nonce
      BY <2>1, <3>1 DEF TokenInv
    <3>4. \A s \in sessions' : s.token # got[c].nonce
      BY <2>2, <3>1 DEF TokenInv
    <3> QED BY <1>2, <3>1, <3>2, <3>3, <3>4 DEF TokenInv
  <2>7. ASSUME NEW c \in Browser, pc'[c] = "serve"
        PROVE  /\ who'[c] \in Name
               /\ \A s \in sessions' : s.token = token'[c] => s.who = who'[c]
    <3>1. c # b /\ pc[c] = "serve" /\ token[c] # k /\ who'[c] = who[c] /\ token'[c] = token[c]
      BY <1>1, <2>1, <2>7
    <3> QED BY <2>2, <3>1 DEF TokenInv
  <2> QED BY <1>1, <1>2, <2>3, <2>4, <2>5, <2>6, <2>7 DEF TokenInv
<1> QED BY <1>3, <1>4 DEF Verify

LEMMA TokenInvKept ==
  ASSUME SeatInv, [HubNext]_hubVars
  PROVE  TokenInv'
<1> USE Threads
<1>0. /\ SeatTypes /\ ThreadTypes /\ MailTypes /\ ThreadInv /\ TokenInv /\ BuiltInv
      /\ cursor \in [Browser -> Nat]
  BY DEF SeatInv, HubInv, TokenInv, NodesInv
<1>1. ASSUME NEW args \in SUBSET Name, Boot(args) PROVE TokenInv'
  <2>1. /\ \A b \in Browser : pc'[b] = "idle"
        /\ UNCHANGED <<token, sessions, nonces, cursor>> /\ up'
    BY <1>0, <1>1 DEF Boot, ThreadInv, ThreadTypes
  <2> QED BY <1>0, <2>1, TokensStand
<1>2. CASE Crash
  <2>1. sessions' = {} /\ UNCHANGED <<token, cursor, nonces>> /\ \A b \in Browser : pc'[b] = "idle"
    BY <1>2 DEF Crash
  <2> QED BY <1>0, <2>1 DEF TokenInv
<1>3. CASE PrintLink
  <2>1. /\ UNCHANGED <<token, sessions, nonces, up, cursor, got>>
        /\ \A b \in Browser : pc'[b] = pc[b] /\ who'[b] = who[b]
    BY <1>0, <1>3 DEF PrintLink, ThreadTypes
  <2> QED BY <1>0, <2>1, TokensStand
<1>4. ASSUME NEW t \in Thread, FindNode(t) \/ BuildNode(t) \/ RegisterNode(t) PROVE TokenInv'
  <2>1. /\ UNCHANGED <<token, sessions, nonces, up, cursor, who>>
        /\ pc'[t] \notin {"verify", "serve"}
        /\ \A s \in Thread \ {t} : pc'[s] = pc[s] /\ got'[s] = got[s]
    BY <1>0, <1>4 DEF FindNode, BuildNode, RegisterNode, ThreadTypes, Onward
  <2> QED BY <1>0, <2>1, TokensStand
<1>5. ASSUME NEW b \in Browser, NEW n \in Name, OpenLink(b, n) PROVE TokenInv'
  <2>1. /\ UNCHANGED <<token, sessions, nonces, up>> /\ pc'[b] = "claim_code"
        /\ cursor' \in [Browser -> Nat]
        /\ \A c \in Browser \ {b} : pc'[c] = pc[c] /\ who'[c] = who[c] /\ got'[c] = got[c]
    BY <1>0, <1>5 DEF OpenLink, ThreadTypes
  <2> QED BY <1>0, <2>1, TokensStand
<1>6. ASSUME NEW b \in Browser, Lookup(b) PROVE TokenInv'
  <2>1. PICK s \in sessions : /\ s.token = token[b]
                              /\ pc' = [pc EXCEPT ![b] = "serve"]
                              /\ who' = [who EXCEPT ![b] = s.who]
                              /\ got' = [got EXCEPT ![b] = [EmptyHand EXCEPT !.exp = s.exp]]
    BY <1>6 DEF Lookup
  <2>2. UNCHANGED <<token, sessions, nonces, up, cursor>>
    BY <1>6 DEF Lookup
  <2>3. /\ pc'[b] = "serve" /\ who'[b] = s.who /\ s.who \in Name
        /\ \A c \in Browser \ {b} : pc'[c] = pc[c] /\ who'[c] = who[c] /\ got'[c] = got[c]
    BY <1>0, <2>1 DEF ThreadTypes
  <2>4. \A r \in sessions : r.token = token[b] => r.who = s.who
    BY <1>0, <2>1 DEF TokenInv
  <2>5. ASSUME NEW c \in Browser, pc'[c] = "serve"
        PROVE  /\ who'[c] \in Name
               /\ \A r \in sessions' : r.token = token'[c] => r.who = who'[c]
    <3>1. CASE c = b
      BY <2>2, <2>3, <2>4, <3>1
    <3>2. CASE c # b
      BY <1>0, <2>2, <2>3, <2>5, <3>2 DEF TokenInv
    <3> QED BY <3>1, <3>2
  <2>6. ASSUME NEW c \in Browser, pc'[c] = "verify"
        PROVE  /\ got'[c].nonce <= nonces'
               /\ \A r \in sessions' : r.token # got'[c].nonce
               /\ \A a \in Browser : token'[a] # got'[c].nonce
               /\ \A a \in Browser \ {c} : pc'[a] = "verify" => got'[a].nonce # got'[c].nonce
    <3>1. c # b /\ pc[c] = "verify" /\ got'[c] = got[c]
      BY <2>3, <2>6
    <3>2. \A a \in Browser \ {c} : pc'[a] = "verify" => got'[a].nonce # got[c].nonce
      BY <1>0, <2>3, <3>1 DEF TokenInv
    <3> QED BY <1>0, <2>2, <3>1, <3>2 DEF TokenInv
  <2> QED BY <1>0, <2>2, <2>5, <2>6 DEF TokenInv
<1>7. ASSUME NEW b \in Browser, Serve(b) PROVE TokenInv'
  <2>1. /\ UNCHANGED <<token, nonces, up>> /\ sessions' \subseteq sessions
        /\ pc[b] = "serve" /\ pc'[b] = "idle"
        /\ \A c \in Browser \ {b} : pc'[c] = pc[c] /\ who'[c] = who[c] /\ got'[c] = got[c]
    BY <1>0, <1>7 DEF Serve, ThreadTypes
  <2>2. cursor' \in [Browser -> Nat]
    <3>1. who[b] \in Name /\ nodes[who[b]] # 0
      BY <1>0, <2>1 DEF TokenInv, BuiltInv, Seated
    <3>2. Recorded(who[b]) \in Nat
      BY <1>0, <3>1, RecordedNat
    <3>3. \/ cursor' = cursor
          \/ cursor' = [cursor EXCEPT ![b] = IF Recorded(who[b]) > cursor[b] THEN Recorded(who[b])
                                             ELSE cursor[b]]
      BY <1>7 DEF Serve, Recorded
    <3> QED BY <1>0, <3>2, <3>3
  <2>3. ASSUME NEW c \in Browser, pc'[c] = "serve"
        PROVE  /\ who'[c] \in Name
               /\ \A r \in sessions' : r.token = token'[c] => r.who = who'[c]
    BY <1>0, <2>1, <2>3 DEF TokenInv
  <2>4. ASSUME NEW c \in Browser, pc'[c] = "verify"
        PROVE  /\ got'[c].nonce <= nonces'
               /\ \A r \in sessions' : r.token # got'[c].nonce
               /\ \A a \in Browser : token'[a] # got'[c].nonce
               /\ \A a \in Browser \ {c} : pc'[a] = "verify" => got'[a].nonce # got'[c].nonce
    <3>1. c # b /\ pc[c] = "verify" /\ got'[c] = got[c]
      BY <2>1, <2>4
    <3>2. \A a \in Browser \ {c} : pc'[a] = "verify" => got'[a].nonce # got[c].nonce
      BY <1>0, <2>1, <3>1 DEF TokenInv
    <3> QED BY <1>0, <2>1, <3>1, <3>2 DEF TokenInv
  <2> QED BY <1>0, <2>1, <2>2, <2>3, <2>4 DEF TokenInv
<1>8. ASSUME NEW b \in Browser, Authorize(b) \/ Verify(b) PROVE TokenInv'
  BY <1>0, <1>8, AuthorizeKeepsTokens, VerifyKeepsTokens
<1>9. CASE UNCHANGED <<token, sessions, nonces, up, cursor, pc, who, got>>
  BY <1>0, <1>9, TokensStand
<1>10. ASSUME NEW n \in Name, MailArrives(n) \/ Pump(n) PROVE TokenInv'
  BY <1>9, <1>10 DEF MailArrives, Pump
<1>11. CASE Tick \/ UNCHANGED hubVars
  BY <1>9, <1>11 DEF Tick, hubVars
<1> QED
  BY <1>1, <1>2, <1>3, <1>4, <1>5, <1>6, <1>7, <1>8, <1>10, <1>11
     DEF HubNext, MainStep, Request

-----------------------------------------------------------------------------
(* Nodes. A step that builds none, registers none and forgets none.          *)
LEMMA NodesStand ==
  ASSUME NodesInv, UNCHANGED <<nodes, listener>>, twice \subseteq twice',
         \A n \in Name : Len(events[n]) \in Nat /\ Len(events'[n]) = Len(events[n]),
         \A t \in Thread : pc[t] \in {"build", "register"} \/ pc'[t] \in {"build", "register"} =>
           pc'[t] = pc[t] /\ who'[t] = who[t] /\ got'[t] = got[t],
         \A b \in Browser : pc'[b] \in Seated => nodes[who'[b]] # 0,
         \A s \in sessions' : nodes[s.who] # 0
  PROVE  NodesInv'
<1>1. \A t \in Thread : \A n \in Name :
        (Builds(t, n)' <=> Builds(t, n)) /\ (Registers(t, n)' <=> Registers(t, n))
  BY DEF Builds, Registers
<1>2. \A t \in Thread : \A n \in Name : Registers(t, n) => got'[t] = got[t]
  BY DEF Registers
<1>3. BuiltInv'
  <2>1. \A n \in Name : nodes'[n] <= Len(events'[n]) /\ listener'[n] <= Len(events'[n])
    BY DEF NodesInv, BuiltInv
  <2>2. \A t \in Thread : \A n \in Name : Registers(t, n)' => got'[t].node \in 1..Len(events'[n])
    BY <1>1, <1>2 DEF NodesInv, BuiltInv
  <2> QED BY <2>1, <2>2 DEF BuiltInv
<1>4. ASSUME NEW n \in Name \ twice' PROVE OneNode(n)'
  <2>1. OneNode(n)
    BY DEF NodesInv
  <2> QED BY <1>1, <1>2, <2>1 DEF OneNode
<1> QED BY <1>3, <1>4 DEF NodesInv

LEMMA FindKeepsNodes ==
  ASSUME SeatTypes, ThreadTypes, MailTypes, ThreadInv, NodesInv, NEW t \in Thread, FindNode(t)
  PROVE  NodesInv'
<1> USE Threads
<1> DEFINE m == who[t]
<1>1. /\ pc[t] = "claim_code" /\ m \in Name
      /\ UNCHANGED <<nodes, listener, events, sessions, who, got>>
      /\ \A u \in Thread \ {t} : pc'[u] = pc[u]
  BY DEF FindNode, ThreadInv, ThreadTypes, SeatTypes, Building
<1>2. \A n \in Name : Len(events[n]) \in Nat
  BY DEF MailTypes
<1>3. CASE nodes[m] # 0
  <2>1. pc'[t] = Onward(t) /\ twice' = twice
    BY <1>1, <1>3 DEF FindNode, ThreadTypes
  <2>2. \A b \in Browser : pc'[b] \in Seated => nodes[who'[b]] # 0
    BY <1>1, <1>3 DEF NodesInv, BuiltInv, Seated
  <2> QED BY <1>1, <1>2, <2>1, <2>2, NodesStand DEF Onward, NodesInv, BuiltInv
<1>4. CASE nodes[m] = 0
  <2>1. /\ pc'[t] = "build"
        /\ twice' = IF \E u \in Thread \ {t} : pc[u] \in {"build", "register"} /\ who[u] = m
                    THEN twice \cup {m} ELSE twice
    BY <1>1, <1>4 DEF FindNode, ThreadTypes
  <2>2. \A u \in Thread : \A n \in Name : Registers(u, n)' <=> Registers(u, n)
    BY <1>1, <2>1 DEF Registers
  <2>3. \A u \in Thread : \A n \in Name : Builds(u, n)' <=> Builds(u, n) \/ (u = t /\ n = m)
    BY <1>1, <2>1 DEF Builds
  <2>4. BuiltInv'
    <3>1. \A b \in Browser : pc'[b] \in Seated => pc[b] \in Seated
      BY <1>1, <2>1 DEF Seated
    <3> QED BY <1>1, <2>2, <3>1 DEF NodesInv, BuiltInv
  <2>5. ASSUME NEW n \in Name \ twice' PROVE OneNode(n)'
    <3>1. OneNode(n)
      BY <2>1 DEF NodesInv
    <3>2. n = m => \A u \in Thread \ {t} : ~Builds(u, n)
      BY <2>1 DEF Builds
    <3>3. \A u, v \in Thread : Builds(u, n)' /\ Builds(v, n)' => u = v
      BY <2>3, <3>1, <3>2 DEF OneNode
    <3> QED BY <1>1, <1>4, <2>2, <2>3, <3>1, <3>3 DEF OneNode
  <2> QED BY <2>4, <2>5 DEF NodesInv
<1> QED BY <1>3, <1>4

LEMMA BuildKeepsNodes ==
  ASSUME SeatTypes, ThreadTypes, MailTypes, ThreadInv, NodesInv, NEW t \in Thread, BuildNode(t)
  PROVE  NodesInv'
<1> USE Threads
<1> DEFINE m == who[t]
           k == Len(events[m]) + 1
<1>1. /\ pc[t] = "build" /\ pc'[t] = "register" /\ m \in Name
      /\ UNCHANGED <<nodes, sessions, who, twice>>
      /\ \A u \in Thread \ {t} : pc'[u] = pc[u] /\ got'[u] = got[u]
  BY DEF BuildNode, ThreadInv, ThreadTypes, SeatTypes, Building
<1>2. \A n \in Name : Len(events[n]) \in Nat /\ nodes[n] \in Nat /\ listener[n] \in Nat
  BY DEF MailTypes
<1>3. Len(events'[m]) = k /\ \A n \in Name \ {m} : events'[n] = events[n]
  BY <1>1 DEF BuildNode, MailTypes
<1>4. listener'[m] = k /\ \A n \in Name \ {m} : listener'[n] = listener[n]
  BY <1>1 DEF BuildNode, MailTypes
<1>5. got'[t].node = k
  BY DEF BuildNode, ThreadTypes, Hand
<1> HIDE DEF m
<1>6. \A u \in Thread : \A n \in Name : Builds(u, n)' <=> Builds(u, n)
  BY <1>1 DEF Builds
<1>7. Builds(t, m)
  BY <1>1 DEF Builds, m
<1>8. \A u \in Thread : \A n \in Name : Registers(u, n)' <=> Registers(u, n) \/ (u = t /\ n = m)
  BY <1>1 DEF Registers, m
<1>9. BuiltInv'
  <2>1. \A n \in Name : nodes'[n] <= Len(events'[n]) /\ listener'[n] <= Len(events'[n])
    <3>1. \A n \in Name : nodes[n] <= Len(events[n]) /\ listener[n] <= Len(events[n])
      BY DEF NodesInv, BuiltInv
    <3> QED BY <1>1, <1>2, <1>3, <1>4, <3>1
  <2>2. ASSUME NEW u \in Thread, NEW n \in Name, Registers(u, n)'
        PROVE  got'[u].node \in 1..Len(events'[n])
    <3>1. CASE u = t
      <4>1. n = m
        BY <1>1, <2>2, <3>1 DEF Registers, m
      <4> QED BY <1>1, <1>2, <1>3, <1>5, <3>1, <4>1
    <3>2. CASE u # t
      <4>1. got[u].node \in 1..Len(events[n]) /\ got'[u] = got[u]
        BY <1>1, <1>8, <2>2, <3>2 DEF NodesInv, BuiltInv
      <4>2. Len(events'[n]) \in Nat /\ Len(events[n]) <= Len(events'[n])
        BY <1>1, <1>2, <1>3
      <4> QED BY <1>2, <4>1, <4>2
    <3> QED BY <3>1, <3>2
  <2>3. \A b \in Browser : pc'[b] \in Seated => pc[b] \in Seated
    BY <1>1 DEF Seated
  <2> QED BY <1>1, <2>1, <2>2, <2>3 DEF NodesInv, BuiltInv
<1>10. ASSUME NEW n \in Name \ twice' PROVE OneNode(n)'
  <2>1. OneNode(n)
    BY <1>1 DEF NodesInv
  <2>2. CASE n # m
    <3>1. \A u \in Thread : Registers(u, n)' => u # t
      BY <1>1, <2>2 DEF Registers, m
    <3>2. \A u \in Thread : Registers(u, n)' <=> Registers(u, n)
      BY <1>8, <2>2
    <3>3. listener'[n] = listener[n]
      BY <1>4, <2>2
    <3> QED BY <1>1, <1>6, <2>1, <3>1, <3>2, <3>3 DEF OneNode
  <2>3. CASE n = m
    <3>1. \A u \in Thread : Builds(u, n) => u = t
      BY <1>7, <2>1, <2>3 DEF OneNode
    <3>2. \A u \in Thread : Registers(u, n)' => u = t
      BY <1>6, <3>1 DEF Registers, Builds
    <3>3. Registers(t, n)'
      BY <1>8, <2>3
    <3>4. \A u \in Thread : Registers(u, n)' => got'[u].node = listener'[n]
      BY <1>4, <1>5, <2>3, <3>2
    <3> QED BY <1>1, <1>6, <2>1, <3>3, <3>4 DEF OneNode
  <2> QED BY <2>2, <2>3
<1> QED BY <1>9, <1>10 DEF NodesInv

LEMMA RegisterKeepsNodes ==
  ASSUME SeatTypes, ThreadTypes, MailTypes, ThreadInv, NodesInv, NEW t \in Thread, RegisterNode(t)
  PROVE  NodesInv'
<1> USE Threads
<1> DEFINE m == who[t]
           k == got[t].node
<1>1. /\ pc[t] = "register" /\ pc'[t] = Onward(t) /\ m \in Name
      /\ UNCHANGED <<listener, events, sessions, who, twice>>
      /\ \A u \in Thread \ {t} : pc'[u] = pc[u] /\ got'[u] = got[u]
  BY DEF RegisterNode, ThreadInv, ThreadTypes, SeatTypes, Building
<1>2. nodes'[m] = k /\ \A n \in Name \ {m} : nodes'[n] = nodes[n]
  BY <1>1 DEF RegisterNode, MailTypes
<1> HIDE DEF m
<1>3. Registers(t, m) /\ Builds(t, m)
  BY <1>1 DEF Registers, Builds, m
<1>4. k \in 1..Len(events[m]) /\ Len(events[m]) \in Nat
  BY <1>1, <1>3 DEF NodesInv, BuiltInv, MailTypes
<1>5. \A u \in Thread : \A n \in Name :
        /\ Builds(u, n)' <=> Builds(u, n) /\ u # t
        /\ Registers(u, n)' <=> Registers(u, n) /\ u # t
  BY <1>1 DEF Builds, Registers, Onward
<1>6. BuiltInv'
  <2>1. \A n \in Name : nodes'[n] <= Len(events'[n]) /\ listener'[n] <= Len(events'[n])
    BY <1>1, <1>2, <1>4 DEF NodesInv, BuiltInv
  <2>2. \A u \in Thread : \A n \in Name : Registers(u, n)' => got'[u].node \in 1..Len(events'[n])
    BY <1>1, <1>5 DEF NodesInv, BuiltInv
  <2>3. \A n \in Name : nodes[n] # 0 => nodes'[n] # 0
    <3>1. k # 0
      BY <1>4
    <3> HIDE DEF k
    <3> QED BY <1>2, <3>1
  <2>4. ASSUME NEW b \in Browser, pc'[b] \in Seated PROVE nodes'[who'[b]] # 0
    <3>1. CASE b = t
      BY <1>1, <1>2, <1>4, <3>1 DEF m
    <3>2. CASE b # t
      <4>1. nodes[who[b]] # 0
        BY <1>1, <2>4, <3>2 DEF NodesInv, BuiltInv
      <4>2. nodes'[who[b]] # 0
        <5>1. CASE who[b] = m
          BY <1>2, <1>4, <5>1
        <5>2. CASE who[b] # m
          <6>1. nodes' = [nodes EXCEPT ![m] = k]
            BY DEF RegisterNode, m
          <6> QED BY <4>1, <5>2, <6>1 DEF MailTypes
        <5> QED BY <5>1, <5>2
      <4> QED BY <1>1, <4>2
    <3> QED BY <3>1, <3>2
  <2>5. \A s \in sessions' : nodes'[s.who] # 0
    BY <1>1, <2>3 DEF ThreadTypes, NodesInv, BuiltInv
  <2> QED BY <2>1, <2>2, <2>4, <2>5 DEF BuiltInv
<1>7. ASSUME NEW n \in Name \ twice' PROVE OneNode(n)'
  <2>1. OneNode(n)
    BY <1>1 DEF NodesInv
  <2>2. CASE n # m
    <3>1. ~Registers(t, n) /\ ~Builds(t, n)
      BY <2>2 DEF Registers, Builds, m
    <3>2. \A u \in Thread : (Builds(u, n)' <=> Builds(u, n)) /\ (Registers(u, n)' <=> Registers(u, n))
      BY <1>5, <3>1
    <3>3. \A u \in Thread : Registers(u, n)' => got'[u] = got[u]
      BY <1>1, <1>5
    <3>4. nodes'[n] = nodes[n]
      BY <1>2, <2>2
    <3> QED BY <1>1, <2>1, <3>2, <3>3, <3>4 DEF OneNode
  <2>3. CASE n = m
    <3>1. \A u \in Thread : ~Builds(u, n)' /\ ~Registers(u, n)'
      <4>1. \A u \in Thread : Builds(u, n) => u = t
        BY <1>3, <2>1, <2>3 DEF OneNode
      <4>2. \A u \in Thread : Registers(u, n) => Builds(u, n)
        BY DEF Registers, Builds
      <4> QED BY <1>5, <4>1, <4>2
    <3>2. nodes'[n] = listener'[n]
      BY <1>1, <1>2, <1>3, <2>1, <2>3 DEF OneNode
    <3> QED BY <3>1, <3>2 DEF OneNode
  <2> QED BY <2>2, <2>3
<1> QED BY <1>6, <1>7 DEF NodesInv

LEMMA PumpCounts ==
  ASSUME MailTypes, ThreadTypes, NEW n \in Name, Pump(n), NEW m \in Name
  PROVE  /\ Len(events'[m]) = Len(events[m])
         /\ \A i \in 1..Len(events[m]) :
              events'[m][i] \in Nat /\ events[m][i] \in Nat /\ events'[m][i] >= events[m][i]
<1>1. events[m] \in Seq(Nat) /\ listener[m] \in Nat
  BY DEF MailTypes
<1>2. CASE events'[m] = events[m]
  BY <1>1, <1>2
<1>3. CASE events'[m] # events[m]
  <2> DEFINE seq == events[m]
             j == listener[m]
  <2>1. events'[m] = [seq EXCEPT ![j] = seq[j] + 1]
    BY <1>3 DEF Pump, MailTypes
  <2>2. seq \in Seq(Nat) /\ j \in Nat
    BY <1>1
  <2> HIDE DEF seq, j
  <2>3. /\ Len([seq EXCEPT ![j] = seq[j] + 1]) = Len(seq)
        /\ \A i \in 1..Len(seq) :
             [seq EXCEPT ![j] = seq[j] + 1][i] = IF i = j THEN seq[j] + 1 ELSE seq[i]
    BY <2>2
  <2>4. \A i \in 1..Len(seq) : seq[i] \in Nat
    BY <2>2
  <2>5. \A i \in 1..Len(seq) : events'[m][i] \in Nat /\ seq[i] \in Nat /\ events'[m][i] >= seq[i]
    BY <2>1, <2>3, <2>4
  <2> QED BY <2>1, <2>3, <2>5 DEF seq
<1> QED BY <1>2, <1>3

LEMMA NodesInvKept ==
  ASSUME SeatInv, [HubNext]_hubVars
  PROVE  NodesInv'
<1> USE Threads
<1>0. /\ SeatTypes /\ ThreadTypes /\ MailTypes /\ ThreadInv /\ TokenInv /\ NodesInv /\ BuiltInv
      /\ \A n \in Name : Len(events[n]) \in Nat
  <2>1. SeatTypes /\ ThreadTypes /\ MailTypes /\ ThreadInv /\ TokenInv /\ NodesInv /\ BuiltInv
    BY DEF SeatInv, HubInv, NodesInv
  <2>2. \A n \in Name : Len(events[n]) \in Nat
    BY <2>1 DEF MailTypes
  <2> QED BY <2>1, <2>2
<1>1. ASSUME NEW args \in SUBSET Name, Boot(args) PROVE NodesInv'
  <2>1. /\ \A t \in Thread : pc'[t] \in {"idle", "claim_code"}
        /\ sessions' = {} /\ nodes' = listener'
    BY <1>0, <1>1 DEF Boot, ThreadInv, ThreadTypes, TokenInv
  <2>2. \A n \in Name : nodes'[n] <= Len(events'[n])
    <3>1. Len(<<0>>) = 1 /\ Len(<<>>) = 0
      OBVIOUS
    <3> QED BY <1>1, <3>1 DEF Boot
  <2>3. \A t \in Thread : \A n \in Name : ~Builds(t, n)' /\ ~Registers(t, n)'
    BY <2>1 DEF Builds, Registers
  <2>4. \A b \in Browser : pc'[b] \notin Seated
    BY <2>1 DEF Seated
  <2>5. BuiltInv'
    BY <2>1, <2>2, <2>3, <2>4 DEF BuiltInv
  <2>6. \A n \in Name : OneNode(n)'
    BY <2>1, <2>3 DEF OneNode
  <2> QED BY <2>5, <2>6 DEF NodesInv
<1>2. CASE Crash
  <2>1. \A t \in Thread : pc'[t] = "idle"
    BY <1>2 DEF Crash
  <2>2. /\ sessions' = {} /\ nodes' = listener'
        /\ \A n \in Name : nodes'[n] = 0 /\ events'[n] = <<>>
    BY <1>2 DEF Crash
  <2>3. \A t \in Thread : \A n \in Name : ~Builds(t, n)' /\ ~Registers(t, n)'
    BY <2>1 DEF Builds, Registers
  <2>4. \A b \in Browser : pc'[b] \notin Seated
    BY <2>1 DEF Seated
  <2>5. BuiltInv'
    <3>1. \A n \in Name : nodes'[n] <= Len(events'[n]) /\ listener'[n] <= Len(events'[n])
      BY <2>2
    <3> QED BY <2>2, <2>3, <2>4, <3>1 DEF BuiltInv
  <2>6. \A n \in Name : OneNode(n)'
    BY <2>2, <2>3 DEF OneNode
  <2> QED BY <2>5, <2>6 DEF NodesInv
<1>3. CASE PrintLink
  <2>1. /\ UNCHANGED <<nodes, listener, events, sessions, twice, got>>
        /\ pc[Main] = "print" /\ pc'[Main] \in {"pump", "claim_code"}
        /\ \A b \in Browser : pc'[b] = pc[b] /\ who'[b] = who[b]
    BY <1>0, <1>3 DEF PrintLink, ThreadTypes
  <2>2. \A b \in Browser : pc'[b] \in Seated => nodes[who'[b]] # 0
    BY <1>0, <2>1 DEF BuiltInv
  <2> QED BY <1>0, <2>1, <2>2, NodesStand DEF BuiltInv
<1>4. ASSUME NEW t \in Thread, FindNode(t) \/ BuildNode(t) \/ RegisterNode(t) PROVE NodesInv'
  BY <1>0, <1>4, FindKeepsNodes, BuildKeepsNodes, RegisterKeepsNodes
<1>5. ASSUME NEW b \in Browser, NEW n \in Name, OpenLink(b, n) PROVE NodesInv'
  <2>1. /\ UNCHANGED <<nodes, listener, events, sessions, twice>>
        /\ pc[b] \in {"idle", "refused"} /\ pc'[b] = "claim_code"
        /\ \A t \in Thread \ {b} : pc'[t] = pc[t] /\ who'[t] = who[t] /\ got'[t] = got[t]
    BY <1>0, <1>5 DEF OpenLink, ThreadTypes, Free
  <2>2. \A c \in Browser : pc'[c] \in Seated => nodes[who'[c]] # 0
    BY <1>0, <2>1 DEF BuiltInv, Seated
  <2> QED BY <1>0, <2>1, <2>2, NodesStand DEF BuiltInv
<1>6. ASSUME NEW b \in Browser, Authorize(b) PROVE NodesInv'
  <2>1. /\ UNCHANGED <<nodes, listener, events, sessions, twice, who>>
        /\ pc[b] = "authorize" /\ pc'[b] \in {"verify", "refused"}
        /\ \A t \in Thread \ {b} : pc'[t] = pc[t] /\ got'[t] = got[t]
    BY <1>0, <1>6 DEF Authorize, ThreadTypes
  <2>2. \A c \in Browser : pc'[c] \in Seated => nodes[who'[c]] # 0
    BY <1>0, <2>1 DEF BuiltInv, Seated
  <2> QED BY <1>0, <2>1, <2>2, NodesStand DEF BuiltInv
<1>7. ASSUME NEW b \in Browser, Verify(b) PROVE NodesInv'
  <2>1. /\ UNCHANGED <<nodes, listener, events, twice>>
        /\ pc[b] = "verify" /\ pc'[b] \in {"idle", "refused"}
        /\ \A t \in Thread \ {b} : pc'[t] = pc[t] /\ who'[t] = who[t] /\ got'[t] = got[t]
    BY <1>0, <1>7 DEF Verify, ThreadTypes
  <2>2. \A s \in sessions' : s \in sessions \/ s.who = who[b]
    BY <1>7 DEF Verify
  <2>3. nodes[who[b]] # 0
    BY <1>0, <2>1 DEF BuiltInv, Seated
  <2>4. \A c \in Browser : pc'[c] \in Seated => nodes[who'[c]] # 0
    BY <1>0, <2>1 DEF BuiltInv, Seated
  <2>5. \A s \in sessions' : nodes[s.who] # 0
    BY <1>0, <2>2, <2>3 DEF BuiltInv
  <2> QED BY <1>0, <2>1, <2>4, <2>5, NodesStand
<1>8. ASSUME NEW b \in Browser, Lookup(b) PROVE NodesInv'
  <2>1. PICK s \in sessions : /\ pc' = [pc EXCEPT ![b] = "serve"]
                              /\ who' = [who EXCEPT ![b] = s.who]
                              /\ got' = [got EXCEPT ![b] = [EmptyHand EXCEPT !.exp = s.exp]]
    BY <1>8 DEF Lookup
  <2>2. UNCHANGED <<nodes, listener, events, sessions, twice>> /\ pc[b] \in {"idle", "refused"}
    BY <1>8 DEF Lookup, Free
  <2>3. /\ pc'[b] = "serve" /\ who'[b] = s.who /\ nodes[s.who] # 0
        /\ \A t \in Thread \ {b} : pc'[t] = pc[t] /\ who'[t] = who[t] /\ got'[t] = got[t]
    BY <1>0, <2>1 DEF ThreadTypes, BuiltInv
  <2>4. \A c \in Browser : pc'[c] \in Seated => nodes[who'[c]] # 0
    BY <1>0, <2>3 DEF BuiltInv
  <2> QED BY <1>0, <2>2, <2>3, <2>4, NodesStand DEF BuiltInv
<1>9. ASSUME NEW b \in Browser, Serve(b) PROVE NodesInv'
  <2>1. /\ UNCHANGED <<nodes, listener, events, twice>> /\ sessions' \subseteq sessions
        /\ pc[b] = "serve" /\ pc'[b] = "idle"
        /\ \A t \in Thread \ {b} : pc'[t] = pc[t] /\ who'[t] = who[t] /\ got'[t] = got[t]
    BY <1>0, <1>9 DEF Serve, ThreadTypes
  <2>2. \A c \in Browser : pc'[c] \in Seated => nodes[who'[c]] # 0
    BY <1>0, <2>1 DEF BuiltInv, Seated
  <2> QED BY <1>0, <2>1, <2>2, NodesStand DEF BuiltInv
<1>10. ASSUME UNCHANGED <<nodes, listener, sessions, twice, pc, who, got>>,
              \A n \in Name : Len(events'[n]) = Len(events[n])
       PROVE  NodesInv'
  BY <1>0, <1>10, NodesStand DEF BuiltInv
<1>11. ASSUME NEW n \in Name, MailArrives(n) PROVE NodesInv'
  BY <1>10, <1>11 DEF MailArrives
<1>12. ASSUME NEW n \in Name, Pump(n) PROVE NodesInv'
  <2>1. UNCHANGED <<nodes, listener, sessions, twice, pc, who, got>>
    BY <1>12 DEF Pump
  <2> QED BY <1>0, <1>10, <1>12, <2>1, PumpCounts
<1>13. CASE Tick \/ UNCHANGED hubVars
  BY <1>10, <1>13 DEF Tick, hubVars
<1> QED
  BY <1>1, <1>2, <1>3, <1>4, <1>5, <1>6, <1>7, <1>8, <1>9, <1>11, <1>12, <1>13
     DEF HubNext, MainStep, Request

-----------------------------------------------------------------------------
(* Cursors. A seat's Node records more and forgets nothing.                  *)
LEMMA CursorsStand ==
  ASSUME TokenInv, ThreadTypes, BuiltInv, CursorInv, UNCHANGED <<token, cursor>>,
         sessions' \subseteq sessions, twice \subseteq twice',
         \A b \in Browser : pc'[b] \in SigningIn => pc[b] \in SigningIn,
         \A n \in Name \ twice : nodes[n] # 0 =>
           Recorded(n) \in Nat /\ Recorded(n)' \in Nat /\ Recorded(n)' >= Recorded(n)
  PROVE  CursorInv'
<1>1. \A b \in Browser : pc'[b] \in SigningIn => cursor'[b] = 0
  BY DEF CursorInv
<1>2. ASSUME NEW b \in Browser, NEW s \in sessions', s.token = token'[b], s.who \notin twice'
      PROVE  cursor'[b] <= Recorded(s.who)'
  <2>1. PICK n \in Name : n = s.who
    BY DEF ThreadTypes
  <2>2. s \in sessions /\ nodes[n] # 0 /\ n \notin twice
    BY <1>2, <2>1 DEF BuiltInv
  <2>3. cursor[b] <= Recorded(n) /\ cursor[b] \in Nat
    BY <1>2, <2>1, <2>2 DEF CursorInv, TokenInv
  <2>4. cursor'[b] <= Recorded(n)'
    <3>1. Recorded(n) \in Nat /\ Recorded(n)' \in Nat /\ Recorded(n)' >= Recorded(n)
      BY <2>1, <2>2
    <3> QED BY <2>3, <3>1
  <2> QED BY <2>1, <2>4
<1> QED BY <1>1, <1>2 DEF CursorInv

LEMMA CursorInvKept ==
  ASSUME SeatInv, [HubNext]_hubVars
  PROVE  CursorInv'
<1> USE Threads
<1>0. /\ SeatTypes /\ ThreadTypes /\ MailTypes /\ ThreadInv /\ TokenInv /\ NodesInv /\ BuiltInv
      /\ CursorInv /\ cursor \in [Browser -> Nat]
      /\ \A n \in Name : nodes[n] # 0 => Recorded(n) \in Nat
  <2>1. SeatTypes /\ ThreadTypes /\ MailTypes /\ ThreadInv /\ TokenInv /\ NodesInv /\ BuiltInv
    BY DEF SeatInv, HubInv, NodesInv
  <2> QED BY <2>1, RecordedNat DEF SeatInv, TokenInv
<1>1. ASSUME UNCHANGED <<token, cursor>>, sessions' \subseteq sessions, twice \subseteq twice',
             UNCHANGED <<nodes, events>>,
             \A b \in Browser : pc'[b] \in SigningIn => pc[b] \in SigningIn
      PROVE  CursorInv'
  <2>1. \A n \in Name : Recorded(n)' = Recorded(n)
    BY <1>1 DEF Recorded
  <2>2. \A n \in Name \ twice : nodes[n] # 0 =>
           Recorded(n) \in Nat /\ Recorded(n)' \in Nat /\ Recorded(n)' >= Recorded(n)
    <3>1. ASSUME NEW n \in Name, nodes[n] # 0
          PROVE  Recorded(n) \in Nat /\ Recorded(n)' \in Nat /\ Recorded(n)' >= Recorded(n)
      <4>1. PICK r \in Nat : r = Recorded(n)
        BY <1>0, <3>1
      <4>2. Recorded(n)' = r
        BY <2>1, <4>1
      <4>3. r >= r
        OBVIOUS
      <4> QED BY <4>1, <4>2, <4>3
    <3> QED BY <3>1
  <2> QED BY <1>0, <1>1, <2>2, CursorsStand
<1>2. ASSUME NEW args \in SUBSET Name, Boot(args) PROVE CursorInv'
  <2>1. sessions' = {} /\ \A b \in Browser : pc'[b] \notin SigningIn
    BY <1>0, <1>2 DEF Boot, ThreadInv, ThreadTypes, TokenInv, SigningIn, Building
  <2> QED BY <2>1 DEF CursorInv
<1>3. CASE Crash
  <2>1. sessions' = {} /\ \A b \in Browser : pc'[b] \notin SigningIn
    BY <1>3 DEF Crash, SigningIn, Building
  <2> QED BY <2>1 DEF CursorInv
<1>4. CASE PrintLink
  <2>1. UNCHANGED <<token, cursor, sessions, twice, nodes, events>>
    BY <1>4 DEF PrintLink
  <2>2. \A b \in Browser : pc'[b] = pc[b]
    BY <1>0, <1>4 DEF PrintLink, ThreadTypes
  <2> QED BY <1>1, <2>1, <2>2
<1>5. ASSUME NEW t \in Thread, FindNode(t) PROVE CursorInv'
  <2>1. UNCHANGED <<token, cursor, sessions, nodes, events>> /\ twice \subseteq twice'
    BY <1>5 DEF FindNode
  <2>2. \A b \in Browser : pc'[b] \in SigningIn => pc[b] \in SigningIn
    BY <1>0, <1>5 DEF FindNode, ThreadTypes, SigningIn, Building
  <2> QED BY <1>1, <2>1, <2>2
<1>6. ASSUME NEW t \in Thread, BuildNode(t) \/ RegisterNode(t) PROVE CursorInv'
  <2> DEFINE m == who[t]
  <2>1. UNCHANGED <<token, cursor, sessions, twice>>
    BY <1>6 DEF BuildNode, RegisterNode
  <2>2. \A b \in Browser : pc'[b] \in SigningIn => pc[b] \in SigningIn
    BY <1>0, <1>6 DEF BuildNode, RegisterNode, ThreadTypes, SigningIn, Building
  <2>3. m \in Name /\ Builds(t, m)
    BY <1>0, <1>6 DEF BuildNode, RegisterNode, Builds, ThreadInv, SeatTypes, Building
  <2>4. m \notin twice => nodes[m] = 0
    BY <1>0, <2>3 DEF NodesInv, OneNode
  <2>5. \A n \in Name \ {m} : Recorded(n)' = Recorded(n)
    BY <1>0, <1>6, <2>3 DEF BuildNode, RegisterNode, Recorded, MailTypes
  <2>6. \A n \in Name \ twice : nodes[n] # 0 =>
           Recorded(n) \in Nat /\ Recorded(n)' \in Nat /\ Recorded(n)' >= Recorded(n)
    BY <1>0, <2>4, <2>5
  <2> QED BY <1>0, <2>1, <2>2, <2>6, CursorsStand
<1>7. ASSUME NEW b \in Browser, NEW n \in Name, OpenLink(b, n) PROVE CursorInv'
  <2>1. /\ UNCHANGED <<token, sessions, twice, nodes, events>> /\ cursor'[b] = 0
        /\ \A c \in Browser \ {b} : pc'[c] = pc[c] /\ cursor'[c] = cursor[c]
    BY <1>0, <1>7 DEF OpenLink, ThreadTypes
  <2>2. \A m \in Name : Recorded(m)' = Recorded(m)
    BY <2>1 DEF Recorded
  <2>3. \A c \in Browser : pc'[c] \in SigningIn => cursor'[c] = 0
    BY <1>0, <2>1 DEF CursorInv
  <2>4. ASSUME NEW c \in Browser, NEW s \in sessions', s.token = token'[c], s.who \notin twice'
        PROVE  cursor'[c] <= Recorded(s.who)'
    <3>1. PICK m \in Name : m = s.who
      BY <1>0, <2>1 DEF ThreadTypes
    <3>2. Recorded(m)' = Recorded(m) /\ Recorded(m) \in Nat
      BY <1>0, <2>1, <2>2, <3>1 DEF BuiltInv
    <3>3. c # b => cursor[c] <= Recorded(m)
      BY <1>0, <2>1, <2>4, <3>1 DEF CursorInv
    <3>4. cursor'[c] <= Recorded(m)
      <4>1. CASE c = b
        BY <2>1, <3>2, <4>1
      <4>2. CASE c # b
        BY <2>1, <3>3, <4>2
      <4> QED BY <4>1, <4>2
    <3> QED BY <3>1, <3>2, <3>4
  <2> QED BY <2>3, <2>4 DEF CursorInv
<1>8. ASSUME NEW b \in Browser, Authorize(b) PROVE CursorInv'
  <2>1. UNCHANGED <<token, cursor, sessions, twice, nodes, events>> /\ pc[b] = "authorize"
    BY <1>8 DEF Authorize
  <2>2. \A c \in Browser : pc'[c] \in SigningIn => pc[c] \in SigningIn
    BY <1>0, <1>8 DEF Authorize, ThreadTypes, SigningIn, Building
  <2> QED BY <1>1, <2>1, <2>2
<1>9. ASSUME NEW b \in Browser, Verify(b) PROVE CursorInv'
  <2> DEFINE n == who[b]
             k == got[b].nonce
  <2>1. /\ UNCHANGED <<cursor, twice, nodes, events>> /\ pc[b] = "verify"
        /\ pc'[b] \in {"idle", "refused"}
        /\ \A c \in Browser \ {b} : pc'[c] = pc[c]
    BY <1>0, <1>9 DEF Verify, ThreadTypes
  <2>2. \A c \in Browser : pc'[c] \in SigningIn => pc[c] \in SigningIn
    BY <2>1 DEF SigningIn, Building
  <2>3. CASE UNCHANGED <<sessions, token>>
    BY <1>1, <2>1, <2>2, <2>3
  <2>4. CASE /\ sessions' = sessions \cup {[token |-> k, who |-> n, exp |-> clock + SessionTTL]}
             /\ token' = [token EXCEPT ![b] = k]
    <3>1. /\ n \in Name /\ nodes[n] # 0 /\ cursor[b] = 0
          /\ \A c \in Browser : token[c] # k
      BY <1>0, <2>1 DEF ThreadInv, BuiltInv, Seated, CursorInv, SigningIn, TokenInv
    <3>2. token'[b] = k /\ \A c \in Browser \ {b} : token'[c] = token[c]
      BY <1>0, <2>4 DEF TokenInv
    <3>3. \A m \in Name : Recorded(m)' = Recorded(m)
      BY <2>1 DEF Recorded
    <3>4. \A s \in sessions' : s \in sessions \/ (s.token = k /\ s.who = n)
      BY <2>4
    <3>5. ASSUME NEW c \in Browser, NEW s \in sessions', s.token = token'[c], s.who \notin twice'
          PROVE  cursor'[c] <= Recorded(s.who)'
      <4>1. PICK m \in Name : m = s.who
        BY <1>0, <3>1, <3>4 DEF ThreadTypes
      <4>2. nodes[m] # 0 /\ Recorded(m) \in Nat /\ Recorded(m)' = Recorded(m)
        BY <1>0, <3>1, <3>3, <3>4, <4>1 DEF BuiltInv
      <4>3. CASE c = b
        BY <2>1, <3>1, <4>1, <4>2, <4>3
      <4>4. CASE c # b
        <5>1. s \in sessions /\ s.token = token[c] /\ s.who \notin twice
          BY <2>1, <3>1, <3>2, <3>4, <3>5, <4>4
        <5>2. cursor[c] <= Recorded(m)
          BY <1>0, <4>1, <5>1 DEF CursorInv
        <5> QED BY <2>1, <4>1, <4>2, <5>2
      <4> QED BY <4>3, <4>4
    <3>6. \A c \in Browser : pc'[c] \in SigningIn => cursor'[c] = 0
      BY <1>0, <2>1, <2>2 DEF CursorInv
    <3> QED BY <3>5, <3>6 DEF CursorInv
  <2> QED BY <1>9, <2>3, <2>4 DEF Verify
<1>10. ASSUME NEW b \in Browser, Lookup(b) PROVE CursorInv'
  <2>1. UNCHANGED <<token, cursor, sessions, twice, nodes, events>>
    BY <1>10 DEF Lookup
  <2>2. \A c \in Browser : pc'[c] \in SigningIn => pc[c] \in SigningIn
    BY <1>0, <1>10 DEF Lookup, ThreadTypes, SigningIn, Building
  <2> QED BY <1>1, <2>1, <2>2
<1>11. ASSUME NEW b \in Browser, Serve(b) PROVE CursorInv'
  <2> DEFINE n == who[b]
  <2>1. /\ UNCHANGED <<token, twice, nodes, events>> /\ pc[b] = "serve"
        /\ pc'[b] = "idle" /\ sessions' \subseteq sessions
        /\ \A c \in Browser \ {b} : pc'[c] = pc[c]
    BY <1>0, <1>11 DEF Serve, ThreadTypes
  <2>2. \A c \in Browser : pc'[c] \in SigningIn => pc[c] \in SigningIn
    BY <2>1 DEF SigningIn, Building
  <2>3. CASE UNCHANGED cursor
    BY <1>1, <2>1, <2>2, <2>3
  <2>4. CASE cursor' = [cursor EXCEPT ![b] = IF Recorded(n) > cursor[b] THEN Recorded(n)
                                             ELSE cursor[b]]
    <3>1. n \in Name /\ nodes[n] # 0 /\ Recorded(n) \in Nat
      BY <1>0, <2>1 DEF TokenInv, BuiltInv, Seated
    <3>2. /\ cursor'[b] = IF Recorded(n) > cursor[b] THEN Recorded(n) ELSE cursor[b]
          /\ \A c \in Browser \ {b} : cursor'[c] = cursor[c]
      BY <1>0, <2>4
    <3>3. \A m \in Name : Recorded(m)' = Recorded(m)
      BY <2>1 DEF Recorded
    <3>4. ASSUME NEW c \in Browser, NEW s \in sessions', s.token = token'[c], s.who \notin twice'
          PROVE  cursor'[c] <= Recorded(s.who)'
      <4>1. PICK m \in Name : m = s.who
        BY <1>0, <2>1 DEF ThreadTypes
      <4>2. /\ Recorded(m)' = Recorded(m)
            /\ cursor[c] <= Recorded(m)
        BY <1>0, <2>1, <3>3, <3>4, <4>1 DEF CursorInv
      <4>3. CASE c = b
        <5>1. m = n
          BY <1>0, <2>1, <3>4, <4>1, <4>3 DEF TokenInv
        <5>2. cursor'[b] <= Recorded(n)
          BY <3>1, <3>2, <4>2, <4>3, <5>1
        <5> QED BY <4>1, <4>2, <4>3, <5>1, <5>2
      <4>4. CASE c # b
        BY <3>2, <4>1, <4>2, <4>4
      <4> QED BY <4>3, <4>4
    <3>5. \A c \in Browser : pc'[c] \in SigningIn => cursor'[c] = 0
      <4>1. b \in Browser /\ pc'[b] \notin SigningIn
        BY <2>1 DEF SigningIn, Building
      <4> QED BY <1>0, <2>2, <3>2, <4>1 DEF CursorInv
    <3> QED BY <3>4, <3>5 DEF CursorInv
  <2> QED BY <1>11, <2>3, <2>4 DEF Serve, Recorded
<1>12. ASSUME NEW n \in Name, MailArrives(n) PROVE CursorInv'
  BY <1>1, <1>12 DEF MailArrives
<1>13. ASSUME NEW n \in Name, Pump(n) PROVE CursorInv'
  <2>1. UNCHANGED <<token, cursor, sessions, twice, nodes, pc>>
    BY <1>13 DEF Pump
  <2>2. ASSUME NEW m \in Name, nodes[m] # 0
        PROVE  Recorded(m) \in Nat /\ Recorded(m)' \in Nat /\ Recorded(m)' >= Recorded(m)
    <3>1. nodes[m] \in 1..Len(events[m])
      BY <1>0, <2>2, RecordedNat
    <3>2. /\ events'[m][nodes[m]] \in Nat /\ events[m][nodes[m]] \in Nat
          /\ events'[m][nodes[m]] >= events[m][nodes[m]]
      BY <1>0, <1>13, <3>1, PumpCounts
    <3> QED BY <2>1, <3>2 DEF Recorded
  <2> QED BY <1>0, <2>1, <2>2, CursorsStand
<1>14. CASE Tick \/ UNCHANGED hubVars
  BY <1>1, <1>14 DEF Tick, hubVars
<1> QED
  BY <1>2, <1>3, <1>4, <1>5, <1>6, <1>7, <1>8, <1>9, <1>10, <1>11, <1>12, <1>13, <1>14
     DEF HubNext, MainStep, Request

-----------------------------------------------------------------------------
(* Tokens, Nodes and cursors belong together after every step: a session has   *)
(* one player, one Node, and a page that has not read past it.              *)
THEOREM SeatInvariance == HubSpec => []SeatInv
<1>1. HubInit => SeatInv
  <2> SUFFICES ASSUME HubInit PROVE SeatInv
    OBVIOUS
  <2>1. HubInv
    BY HubInitInv
  <2>2. TokenInv
    BY Threads DEF HubInit, TokenInv
  <2>3. NodesInv
    <3>1. /\ \A n \in Name : nodes[n] = 0 /\ listener[n] = 0 /\ events[n] = <<>>
          /\ \A t \in Thread : pc[t] = "idle"
          /\ sessions = {}
      BY DEF HubInit
    <3>2. \A t \in Thread : \A n \in Name : ~Builds(t, n) /\ ~Registers(t, n)
      BY <3>1 DEF Builds, Registers
    <3>3. \A b \in Browser : pc[b] \notin Seated
      BY <3>1, Threads DEF Seated
    <3>4. \A n \in Name : nodes[n] <= Len(events[n]) /\ listener[n] <= Len(events[n])
      BY <3>1
    <3>5. BuiltInv
      BY <3>1, <3>2, <3>3, <3>4 DEF BuiltInv
    <3>6. \A n \in Name : OneNode(n)
      BY <3>1, <3>2 DEF OneNode
    <3> QED BY <3>5, <3>6 DEF NodesInv
  <2>4. CursorInv
    BY Threads DEF HubInit, CursorInv
  <2> QED BY <2>1, <2>2, <2>3, <2>4 DEF SeatInv
<1>2. SeatInv /\ [HubNext]_hubVars => SeatInv'
  <2> SUFFICES ASSUME SeatInv, [HubNext]_hubVars PROVE SeatInv'
    OBVIOUS
  <2>1. HubInv'
    BY SeatTypesKept, ThreadTypesKept, MailTypesKept, ThreadInvKept, LinkInvKept, ClaimInvKept,
       MailInvKept DEF SeatInv, HubInv
  <2> QED BY <2>1, TokenInvKept, NodesInvKept, CursorInvKept DEF SeatInv
<1> QED
  BY <1>1, <1>2, PTL DEF HubSpec

(* A signed-in browser acts on the Node its player's mail goes to and has not   *)
(* skipped events of it, unless two threads built Nodes of the player at once  *)
(* (roster.py:65-70; ui/page.py, the poll's lastEvent).                      *)
THEOREM SeatsAreWhole == HubSpec => []SeatIsWhole
<1>1. SeatInv => SeatIsWhole
  <2> SUFFICES ASSUME SeatInv, NEW b \in Browser, NEW s \in sessions,
                      s.token = token[b], s.who \notin twice
               PROVE  /\ nodes[s.who] = listener[s.who]
                      /\ cursor[b] <= events[s.who][nodes[s.who]]
    BY DEF SeatIsWhole
  <2>1. s.who \in Name \ twice /\ nodes[s.who] # 0
    BY DEF SeatInv, HubInv, ThreadTypes, NodesInv, BuiltInv
  <2>2. OneNode(s.who)
    BY <2>1 DEF SeatInv, NodesInv
  <2>3. \A t \in Thread : ~Registers(t, s.who)
    BY <2>1, <2>2 DEF OneNode, Registers, Builds
  <2>4. nodes[s.who] = listener[s.who]
    BY <2>2, <2>3 DEF OneNode
  <2>5. cursor[b] <= Recorded(s.who)
    BY DEF SeatInv, CursorInv
  <2> QED BY <2>4, <2>5 DEF Recorded
<1> QED
  BY <1>1, SeatInvariance, PTL
=============================================================================
