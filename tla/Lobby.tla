------------------------------- MODULE Lobby -------------------------------
(***************************************************************************)
(* The lobby: proto/lobby.py and its binding to Reticulum announces,        *)
(* net/lobby_rns.py. A card says who signed it and when, by the signer's      *)
(* clock; an announce is a card and the destination it comes from. The       *)
(* network repeats and reorders an announce for MaxDelay; anybody may        *)
(* announce again, at any time, a card they have heard.                     *)
(***************************************************************************)
EXTENDS Integers

CONSTANTS Node,       \* those who publish cards; one more listens
          MaxAge,     \* max_age_seconds
          MaxDelay,   \* how long the network may deliver an announce
          MaxTime,    \* bound on the time
          MaxCards    \* bound on the cards of a node

ASSUME LobbyAssumption ==
  /\ {MaxAge, MaxDelay, MaxTime, MaxCards} \subseteq Nat
  /\ MaxDelay <= MaxAge   \* seconds, where 900 are waited

VARIABLES time,       \* the listener's clock
          own,        \* own[n]: published_at of n's last card, 0 before one
          told,       \* told[n]: when n last announced
          air,        \* announces under way: [from, signer, at, since]
          heard,      \* _heard[n]: [at, heard_at], NotHeard where there is none
          newest      \* newest[n]: the latest card of n that came in

lobbyVars == <<time, own, told, air, heard, newest>>

NotHeard == [at |-> 0, heard_at |-> 0]

LobbyInit ==
  /\ time = 1
  /\ own = [n \in Node |-> 0] /\ told = [n \in Node |-> 0]
  /\ air = {} /\ newest = [n \in Node |-> 0]
  /\ heard = [n \in Node |-> NotHeard]

(* LobbyBeacon.publish: the author's clock may be off, and stands still       *)
(* within a second, but does not go back.                                   *)
Publish(n) ==
  /\ \E at \in own[n]..MaxCards :
       /\ at > 0
       /\ own' = [own EXCEPT ![n] = at]
       /\ air' = air \cup {[from |-> n, signer |-> n, at |-> at, since |-> time]}
  /\ told' = [told EXCEPT ![n] = time]
  /\ UNCHANGED <<time, heard, newest>>

(* A card heard is announced again from another's destination.               *)
Republish(n) ==
  /\ \E s \in Node \ {n} :
       /\ heard[s] # NotHeard
       /\ air' = air \cup {[from |-> n, signer |-> s, at |-> heard[s].at, since |-> time]}
  /\ UNCHANGED <<time, own, told, heard, newest>>

(* Mutant of parse_announce: a good signature is enough.                    *)
parse_announce_signed(announce) == TRUE

(* The destination the card's key implies is the one that announced it.      *)
parse_announce(announce) == announce.from = announce.signer

(* Mutant of note: the card that came last is kept.                         *)
note_last(n, at) == [heard EXCEPT ![n] = [at |-> at, heard_at |-> time]]

note(n, at) ==
  IF heard[n] # NotHeard /\ at < heard[n].at THEN heard
  ELSE [heard EXCEPT ![n] = [at |-> at, heard_at |-> time]]

(* received_announce: any announce under way, which may come again.         *)
Receive ==
  /\ \E a \in air :
       /\ parse_announce(a)
       /\ heard' = note(a.signer, a.at)
       /\ newest' = [newest EXCEPT ![a.signer] = IF a.at > @ THEN a.at ELSE @]
  /\ UNCHANGED <<time, own, told, air>>

Fresh(n) == heard[n] # NotHeard /\ time - heard[n].heard_at <= MaxAge

forget_stale ==
  /\ heard' = [n \in Node |-> IF Fresh(n) THEN heard[n] ELSE NotHeard]
  /\ UNCHANGED <<time, own, told, air, newest>>

(* entries: those shown to somebody looking for a game                      *)
entries == { n \in Node : Fresh(n) }

(* Time passes, and what has been under way for MaxDelay is gone.           *)
LobbyTick ==
  /\ time < MaxTime /\ time' = time + 1
  /\ air' = { a \in air : time' - a.since <= MaxDelay }
  /\ UNCHANGED <<own, told, heard, newest>>

LobbyNext ==
  \/ \E n \in Node : Publish(n) \/ Republish(n)
  \/ Receive \/ forget_stale \/ LobbyTick

LobbySpec == LobbyInit /\ [][LobbyNext]_lobbyVars

-----------------------------------------------------------------------------
LobbyTypeOK ==
  /\ time \in Nat
  /\ own \in [Node -> Nat] /\ told \in [Node -> Nat] /\ newest \in [Node -> Nat]
  /\ air \subseteq [from : Node, signer : Node, at : Nat, since : Nat]
  /\ heard \in [Node -> [at : Nat, heard_at : Nat]]

(* Whoever is shown as looking for a game said so themselves within the age   *)
(* limit and the network's delay: a card that others go on announcing does    *)
(* not keep its author on the list (lobby_rns.py:99).                       *)
FreshWasAnnounced == \A n \in entries : time - told[n] <= MaxAge + MaxDelay

(* "Newest wins" (lobby.py:212): whatever order cards arrive in, and whatever *)
(* was forgotten between them, the card listed is the latest that came in.    *)
NewestWins == \A n \in Node : heard[n] # NotHeard => heard[n].at = newest[n]
=============================================================================
