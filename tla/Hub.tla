-------------------------------- MODULE Hub --------------------------------
(***************************************************************************)
(* `farcade hub`: net/hub.py, roster.py, auth.py, ui/server.py and the      *)
(* sign-in and poll of ui/page.py. The main thread boots the players, starts *)
(* the server, prints every player's link and then pumps; each request runs   *)
(* on a thread of its own, and LXMF delivers on yet another. A request is a   *)
(* program counter moved by one action per point another thread can see.    *)
(* A key, and a claim code, is the number of the boot that made it; a Node    *)
(* is numbered among those built for its player.                            *)
(***************************************************************************)
EXTENDS Integers, Sequences, FiniteSets

CONSTANTS Name,           \* player names, as numbers: the order links are printed in
          Browser,        \* the browsers that may be open, one request each at a time
          ChallengeTTL,   \* CHALLENGE_TTL_SECONDS, in ticks
          SessionTTL,     \* SESSION_TTL_SECONDS, in ticks
          MaxBoots,       \* bound on starts of the program
          MaxClaims,      \* bound on challenges issued
          MaxMail,        \* bound on messages delivered
          MaxClock        \* bound on ticks

ASSUME HubAssumption ==
  /\ Name \subseteq Nat \ {0} /\ IsFiniteSet(Name)
  /\ {ChallengeTTL, SessionTTL, MaxBoots, MaxClaims, MaxMail, MaxClock} \subseteq Nat
  /\ "main" \notin Browser

VARIABLES
  (* on disk *)
  identity,     \* identity[n]: players/<n>/identity, 0 if there is none
  code,         \* code[n]: players/<n>/claim-code, 0 if there is none
  (* in memory *)
  up,           \* the process runs
  players,      \* hub.players and _by_dest: players[n] is the key registered, or 0
  inbound,        \* inbound[n]: PlayerTransport._inbound
  nodes,        \* roster.nodes: the Node requests for n act on, or 0
  listener,     \* receive_cb: the Node that takes n's mail, or 0
  events,       \* events[n][i]: how many events the i-th Node of n has recorded
  challenges,   \* Sessions._challenges by player: [nonce, exp], nonce 0 if none
  sessions,     \* Sessions._sessions: records [token, who, exp]
  unprinted,    \* players whose link the main thread has yet to print
  (* the threads *)
  pc, who, got, \* each thread's step, its player, and what it holds in hand
  (* outside *)
  link,         \* link[n]: the link and the address handed to n's person
  token,        \* token[b]: localStorage of that browser, 0 if empty
  cursor,       \* cursor[b]: lastEvent of its page
  (* history and bounds *)
  boots, nonces, sent, clock,
  handled,      \* messages some Node has taken
  gone,         \* messages that died with the process
  alone,        \* alone[b]: no other claim of the player crossed b's challenge
  twice         \* players two threads built a Node for at once

disk == <<identity, code>>
memory == <<players, inbound, nodes, listener, events, challenges, sessions>>
outside == <<link, token, cursor>>
counts == <<boots, nonces, sent, clock>>
hubVars == <<disk, up, memory, unprinted, pc, who, got, outside, counts, handled, gone, alone, twice>>

Main == "main"
Thread == Browser \cup {Main}

Nothing == [nonce |-> 0, exp |-> 0]
EmptyHand == [node |-> 0, nonce |-> 0, exp |-> 0]
NoLink == [address |-> 0, code |-> 0]

Least(S) == CHOOSE n \in S : \A other \in S : n <= other

HubInit ==
  /\ identity = [n \in Name |-> 0] /\ code = [n \in Name |-> 0]
  /\ up = FALSE
  /\ players = [n \in Name |-> 0] /\ inbound = [n \in Name |-> <<>>]
  /\ nodes = [n \in Name |-> 0] /\ listener = [n \in Name |-> 0]
  /\ events = [n \in Name |-> <<>>]
  /\ challenges = [n \in Name |-> Nothing] /\ sessions = {}
  /\ unprinted = {}
  /\ pc = [t \in Thread |-> "idle"] /\ who = [t \in Thread |-> 0]
  /\ got = [t \in Thread |-> EmptyHand]
  /\ link = [n \in Name |-> NoLink]
  /\ token = [b \in Browser |-> 0] /\ cursor = [b \in Browser |-> 0]
  /\ boots = 0 /\ nonces = 0 /\ sent = 0 /\ clock = 0
  /\ handled = {} /\ gone = {}
  /\ alone = [b \in Browser |-> TRUE] /\ twice = {}

-----------------------------------------------------------------------------
(* cmd_hub: the hub and its players, before the server answers anybody.     *)

(* Mutant of resume_players: a restart knows the players it is told of only. *)
resume_none == {}

resume_players == { n \in Name : identity[n] # 0 }

(* LxmfHub.__init__, and node_for_player for every one of --players. A       *)
(* crash in between is a boot with fewer of them.                           *)
Boot(args) ==
  /\ ~up /\ boots < MaxBoots
  /\ resume_players \cup args # {}
  /\ up' = TRUE /\ boots' = boots + 1
  /\ identity' = [n \in Name |->
       IF n \in args /\ identity[n] = 0 THEN boots + 1 ELSE identity[n]]
  /\ players' = [n \in Name |-> IF n \in resume_players \cup args THEN identity'[n] ELSE 0]
  /\ nodes' = [n \in Name |-> IF n \in args THEN 1 ELSE 0]
  /\ listener' = nodes'
  /\ events' = [n \in Name |-> IF n \in args THEN <<0>> ELSE <<>>]
  /\ unprinted' = resume_players \cup args
  /\ pc' = [pc EXCEPT ![Main] = "claim_code"]
  /\ who' = [who EXCEPT ![Main] = Least(unprinted')]
  /\ UNCHANGED <<code, inbound, challenges, sessions, got, outside, nonces, sent, clock,
                 handled, gone, alone, twice>>

(* Nothing in memory outlives the process; an open page keeps its token.     *)
Crash ==
  /\ up /\ up' = FALSE
  /\ players' = [n \in Name |-> 0] /\ inbound' = [n \in Name |-> <<>>]
  /\ nodes' = [n \in Name |-> 0] /\ listener' = nodes'
  /\ events' = [n \in Name |-> <<>>]
  /\ challenges' = [n \in Name |-> Nothing] /\ sessions' = {}
  /\ unprinted' = {}
  /\ pc' = [t \in Thread |-> "idle"] /\ who' = [t \in Thread |-> 0]
  /\ got' = [t \in Thread |-> EmptyHand]
  /\ gone' = gone \cup UNION { {inbound[n][i] : i \in 1..Len(inbound[n])} : n \in Name }
  /\ clock' = 0
  /\ alone' = [b \in Browser |-> TRUE]
  /\ UNCHANGED <<disk, outside, boots, nonces, sent, handled, twice>>

-----------------------------------------------------------------------------
(* Roster.node_for_player and claim_code: run by the main thread before a    *)
(* link is printed, and by the request that claims the seat.                *)

(* Where a thread goes on once the player has a Node.                       *)
Onward(t) == IF t = Main THEN "print" ELSE "authorize"

(* Mutant of FindNode: every caller builds a Node of its own.               *)
FindNoNode(t) ==
  /\ pc[t] = "claim_code"
  /\ pc' = [pc EXCEPT ![t] = "build"]
  /\ twice' = IF \E s \in Thread \ {t} : pc[s] \in {"build", "register"} /\ who[s] = who[t]
              THEN twice \cup {who[t]} ELSE twice
  /\ UNCHANGED <<disk, up, memory, unprinted, who, got, outside, counts, handled, gone, alone>>

(* if name in self.nodes                                                    *)
FindNode(t) ==
  /\ pc[t] = "claim_code"
  /\ pc' = [pc EXCEPT ![t] = IF nodes[who[t]] # 0 THEN Onward(t) ELSE "build"]
  /\ twice' = IF /\ nodes[who[t]] = 0
                 /\ \E s \in Thread \ {t} : pc[s] \in {"build", "register"} /\ who[s] = who[t]
              THEN twice \cup {who[t]} ELSE twice
  /\ UNCHANGED <<disk, up, memory, unprinted, who, got, outside, counts, handled, gone, alone>>

(* Node.__init__: the new GamePeer becomes the transport's receive_cb.      *)
BuildNode(t) ==
  LET n == who[t] IN
  /\ pc[t] = "build"
  /\ pc' = [pc EXCEPT ![t] = "register"]
  /\ events' = [events EXCEPT ![n] = Append(@, 0)]
  /\ listener' = [listener EXCEPT ![n] = Len(events[n]) + 1]
  /\ got' = [got EXCEPT ![t].node = Len(events[n]) + 1]
  /\ UNCHANGED <<disk, up, players, inbound, nodes, challenges, sessions, unprinted, who,
                 outside, counts, handled, gone, alone, twice>>

(* self.nodes[name] = the Node this thread built                            *)
RegisterNode(t) ==
  /\ pc[t] = "register"
  /\ pc' = [pc EXCEPT ![t] = Onward(t)]
  /\ nodes' = [nodes EXCEPT ![who[t]] = got[t].node]
  /\ got' = [got EXCEPT ![t] = EmptyHand]
  /\ UNCHANGED <<disk, up, players, inbound, listener, events, challenges, sessions, unprinted,
                 who, outside, counts, handled, gone, alone, twice>>

(* Mutant of claim_code: a new code every time the links are printed.       *)
claim_code_anew(n) == boots

claim_code(n) == IF code[n] # 0 THEN code[n] ELSE boots

(* The main thread mints the code, prints link and address, and goes on to    *)
(* the next player; after the last it pumps. People keep the first link.     *)
PrintLink ==
  LET n == who[Main] IN
  /\ pc[Main] = "print"
  /\ code' = [code EXCEPT ![n] = claim_code(n)]
  /\ link' = IF link[n] # NoLink THEN link
             ELSE [link EXCEPT ![n] = [address |-> players[n], code |-> code'[n]]]
  /\ unprinted' = unprinted \ {n}
  /\ IF unprinted' = {} THEN pc' = [pc EXCEPT ![Main] = "pump"] /\ UNCHANGED who
     ELSE /\ pc' = [pc EXCEPT ![Main] = "claim_code"]
          /\ who' = [who EXCEPT ![Main] = Least(unprinted')]
  /\ UNCHANGED <<identity, up, memory, got, token, cursor, counts, handled, gone, alone,
                 twice>>

-----------------------------------------------------------------------------
(* A browser: signIn spends the link, the poll asks for events.             *)

Free(b) == pc[b] \in {"idle", "refused"}

(* Mutant of OpenLink: lastEvent is kept beside the token.                  *)
OpenLinkKeepsCursor(b, n) ==
  /\ up /\ Free(b) /\ link[n] # NoLink
  /\ players[n] # 0
  /\ pc' = [pc EXCEPT ![b] = "claim_code"]
  /\ who' = [who EXCEPT ![b] = n]
  /\ got' = [got EXCEPT ![b] = EmptyHand]
  /\ alone' = [alone EXCEPT ![b] = TRUE]
  /\ UNCHANGED <<disk, up, memory, unprinted, outside, counts, handled, gone, twice>>

(* The page is loaded from a link: lastEvent starts at 0, and what           *)
(* localStorage holds stays until the claim is granted.                     *)
OpenLink(b, n) ==
  /\ up /\ Free(b) /\ link[n] # NoLink
  /\ players[n] # 0
  /\ pc' = [pc EXCEPT ![b] = "claim_code"]
  /\ who' = [who EXCEPT ![b] = n]
  /\ got' = [got EXCEPT ![b] = EmptyHand]
  /\ cursor' = [cursor EXCEPT ![b] = 0]
  /\ alone' = [alone EXCEPT ![b] = TRUE]
  /\ UNCHANGED <<disk, up, memory, unprinted, link, token, counts, handled, gone, twice>>

Rivals(b) == { c \in Browser \ {b} : pc[c] = "verify" /\ who[c] = who[b] }

(* Mutant of Challenge: one challenge outstanding for the whole hub.        *)
ChallengeOneSlot(n) ==
  [m \in Name |-> IF m = n THEN [nonce |-> nonces + 1, exp |-> clock + ChallengeTTL] ELSE Nothing]

(* Sessions.challenge: replaces any outstanding one of this player.         *)
Challenge(n) ==
  [challenges EXCEPT ![n] = [nonce |-> nonces + 1, exp |-> clock + ChallengeTTL]]

(* Roster.authorize up to the signature: the code is compared, and the hub    *)
(* challenges itself and signs.                                             *)
Authorize(b) ==
  LET n == who[b] IN
  /\ pc[b] = "authorize"
  /\ IF link[n].code # code[n]
     THEN pc' = [pc EXCEPT ![b] = "refused"] /\ UNCHANGED <<challenges, got, nonces, alone>>
     ELSE /\ nonces < MaxClaims /\ nonces' = nonces + 1
          /\ challenges' = Challenge(n)
          /\ pc' = [pc EXCEPT ![b] = "verify"]
          /\ got' = [got EXCEPT ![b].nonce = nonces + 1, ![b].exp = clock + ChallengeTTL]
          /\ alone' = [c \in Browser |-> IF c = b THEN Rivals(b) = {}
                                        ELSE alone[c] /\ c \notin Rivals(b)]
  /\ UNCHANGED <<disk, up, players, inbound, nodes, listener, events, sessions, unprinted, who,
                 outside, boots, sent, clock, handled, gone, twice>>

(* Sessions.verify: the challenge is consumed, whatever becomes of it. Only   *)
(* the signature over the nonce it holds makes a token.                     *)
Verify(b) ==
  LET n == who[b]
      issued == challenges[n]
      token_ == got[b].nonce
  IN
  /\ pc[b] = "verify"
  /\ challenges' = [challenges EXCEPT ![n] = Nothing]
  /\ who' = [who EXCEPT ![b] = 0]
  /\ IF issued.nonce = got[b].nonce /\ clock <= issued.exp
     THEN /\ pc' = [pc EXCEPT ![b] = "idle"]
          /\ sessions' = sessions \cup {[token |-> token_, who |-> n, exp |-> clock + SessionTTL]}
          /\ token' = [token EXCEPT ![b] = token_]
          /\ got' = [got EXCEPT ![b] = EmptyHand]
     ELSE pc' = [pc EXCEPT ![b] = "refused"] /\ UNCHANGED <<sessions, token, got>>
  /\ UNCHANGED <<disk, up, players, inbound, nodes, listener, events, unprinted, link,
                 cursor, counts, handled, gone, alone, twice>>

(* Sessions.player_for reads the session; the expiry is looked at after.    *)
Lookup(b) ==
  /\ up /\ Free(b)
  /\ \E s \in sessions :
       /\ s.token = token[b]
       /\ pc' = [pc EXCEPT ![b] = "serve"]
       /\ who' = [who EXCEPT ![b] = s.who]
       /\ got' = [got EXCEPT ![b] = [EmptyHand EXCEPT !.exp = s.exp]]
  /\ UNCHANGED <<disk, up, memory, unprinted, outside, counts, handled, gone, alone, twice>>

(* An expired session is deleted (404 instead of 401 if it is gone already);  *)
(* otherwise GET /events, and the page moves lastEvent past what it got.    *)
Serve(b) ==
  LET n == who[b] IN
  /\ pc[b] = "serve"
  /\ pc' = [pc EXCEPT ![b] = "idle"]
  /\ got' = [got EXCEPT ![b] = EmptyHand] /\ who' = [who EXCEPT ![b] = 0]
  /\ IF clock > got[b].exp
     THEN sessions' = { s \in sessions : s.token # token[b] } /\ UNCHANGED cursor
     ELSE /\ cursor' = [cursor EXCEPT ![b] = IF events[n][nodes[n]] > @ THEN events[n][nodes[n]] ELSE @]
          /\ UNCHANGED sessions
  /\ UNCHANGED <<disk, up, players, inbound, nodes, listener, events, challenges, unprinted,
                 link, token, counts, handled, gone, alone, twice>>

-----------------------------------------------------------------------------
(* Mail. LXMF delivers on a thread of its own; the main thread pumps.       *)

(* _on_delivery: to the player whose address it is, or nobody.              *)
MailArrives(n) ==
  /\ up /\ link[n] # NoLink /\ sent < MaxMail
  /\ sent' = sent + 1
  /\ inbound' = IF players[n] # link[n].address THEN inbound
              ELSE [inbound EXCEPT ![n] = Append(@, sent + 1)]
  /\ UNCHANGED <<disk, up, players, nodes, listener, events, challenges, sessions, unprinted,
                 pc, who, got, outside, boots, nonces, clock, handled, gone, alone, twice>>

(* Mutant of Pump: pumping has begun before there is a Node for everybody.  *)
PumpAtOnce(n) ==
  /\ up /\ inbound[n] # <<>>
  /\ inbound' = [inbound EXCEPT ![n] = Tail(@)]
  /\ IF listener[n] = 0 THEN UNCHANGED <<events, handled>>
     ELSE /\ events' = [events EXCEPT ![n][listener[n]] = @ + 1]
          /\ handled' = handled \cup {Head(inbound[n])}
  /\ UNCHANGED <<disk, up, players, nodes, listener, challenges, sessions, unprinted,
                 pc, who, got, outside, counts, gone, alone, twice>>

(* PlayerTransport.pump, one message: handed to receive_cb if there is one.  *)
Pump(n) ==
  /\ pc[Main] = "pump" /\ inbound[n] # <<>>
  /\ inbound' = [inbound EXCEPT ![n] = Tail(@)]
  /\ IF listener[n] = 0 THEN UNCHANGED <<events, handled>>
     ELSE /\ events' = [events EXCEPT ![n][listener[n]] = @ + 1]
          /\ handled' = handled \cup {Head(inbound[n])}
  /\ UNCHANGED <<disk, up, players, nodes, listener, challenges, sessions, unprinted,
                 pc, who, got, outside, counts, gone, alone, twice>>

(* Time is only looked at while a challenge or a session runs.              *)
Tick ==
  /\ sessions # {} \/ \E b \in Browser : pc[b] = "verify"
  /\ clock < MaxClock /\ clock' = clock + 1
  /\ UNCHANGED <<disk, up, memory, unprinted, pc, who, got, outside, boots, nonces, sent,
                 handled, gone, alone, twice>>

-----------------------------------------------------------------------------
MainStep == FindNode(Main) \/ BuildNode(Main) \/ RegisterNode(Main) \/ PrintLink

Request(b) ==
  \/ \E n \in Name : OpenLink(b, n)
  \/ FindNode(b) \/ BuildNode(b) \/ RegisterNode(b) \/ Authorize(b) \/ Verify(b)
  \/ Lookup(b) \/ Serve(b)

HubNext ==
  \/ \E args \in SUBSET Name : Boot(args)
  \/ Crash \/ MainStep \/ Tick
  \/ \E b \in Browser : Request(b)
  \/ \E n \in Name : MailArrives(n) \/ Pump(n)

HubSpec == HubInit /\ [][HubNext]_hubVars

-----------------------------------------------------------------------------
HubTypeOK ==
  /\ identity \in [Name -> 0..MaxBoots] /\ code \in [Name -> 0..MaxBoots]
  /\ up \in BOOLEAN /\ players \in [Name -> 0..MaxBoots]
  /\ inbound \in [Name -> Seq(1..MaxMail)]
  /\ nodes \in [Name -> Nat] /\ listener \in [Name -> Nat] /\ events \in [Name -> Seq(Nat)]
  /\ challenges \in [Name -> [nonce : 0..MaxClaims, exp : Nat]]
  /\ sessions \subseteq [token : 1..MaxClaims, who : Name, exp : Nat]
  /\ unprinted \subseteq Name
  /\ pc \in [Thread -> {"idle", "claim_code", "build", "register", "print", "pump",
                        "authorize", "verify", "refused", "serve"}]
  /\ who \in [Thread -> Name \cup {0}]
  /\ got \in [Thread -> [node : Nat, nonce : 0..MaxClaims, exp : Nat]]
  /\ link \in [Name -> [address : 0..MaxBoots, code : 0..MaxBoots]]
  /\ token \in [Browser -> 0..MaxClaims] /\ cursor \in [Browser -> Nat]
  /\ boots \in 0..MaxBoots /\ nonces \in 0..MaxClaims
  /\ sent \in 0..MaxMail /\ clock \in 0..MaxClock
  /\ handled \subseteq 1..MaxMail /\ gone \subseteq 1..MaxMail
  /\ alone \in [Browser -> BOOLEAN] /\ twice \subseteq Name

(* What was handed out goes on working: whatever crashes, and whomever the    *)
(* hub is started with, a player is reachable at the address on their link    *)
(* and the code on it is theirs (resume_players, claim_code).               *)
LinksLast ==
  up => \A n \in Name : link[n] # NoLink =>
          players[n] = link[n].address /\ code[n] = link[n].code

(* A signed-in browser acts on the very Node that takes its player's mail,    *)
(* and has not skipped events of it: a poll asks for those from the cursor    *)
(* on. Not so after two threads built a Node of one player at once, when the  *)
(* hub is back and the link is used before it is printed again              *)
(* (roster.py:65-70 looks, builds and registers without a lock).            *)
SeatIsWhole ==
  \A b \in Browser : \A s \in sessions :
    s.token = token[b] /\ s.who \notin twice /\ pc[b] = "idle" =>
      /\ nodes[s.who] = listener[s.who]
      /\ cursor[b] <= events[s.who][nodes[s.who]]

(* A good link is refused for one of two reasons: another claim of the same   *)
(* player fell between its challenge and its answer (both may then be         *)
(* refused), or the process stood still for the challenge's life.           *)
RefusedOnlyByOverlap ==
  \A b \in Browser : pc[b] = "refused" => ~alone[b] \/ clock > got[b].exp

(* No mail is lost while the process lives: it waits for a Node of its        *)
(* player and is pumped to that one, also where it arrives while the hub is   *)
(* coming back and the player has no Node yet.                              *)
Waiting(m) == \E n \in Name : \E i \in 1..Len(inbound[n]) : inbound[n][i] = m
MailIsKept == \A m \in 1..sent : m \in handled \cup gone \/ Waiting(m)
=============================================================================
