-------------------------------- MODULE Lxmf --------------------------------
(***************************************************************************)
(* A personal seat on net/lxmf.py: one thread that pumps and then plays or   *)
(* nudges, LXMF's thread that queues what comes in, and one opponent. A send  *)
(* to somebody whose identity RNS does not know asks for the path and keeps   *)
(* the loop waiting, for path_timeout at most; then the message is dropped.  *)
(***************************************************************************)
EXTENDS Integers, Sequences

CONSTANTS PathTimeout,    \* path_timeout, in ticks
          MaxInbound      \* bound on messages that come in

ASSUME LxmfAssumption == PathTimeout \in Nat /\ MaxInbound \in Nat

VARIABLES reachable,   \* the opponent's node is on the network
          known,       \* Identity.recall finds the opponent
          asked,       \* a path has been asked for
          phase,       \* the loop: "pump", "act", or "wait" inside send
          waited,      \* ticks since that send began
          queued,      \* _inbound
          arrived, pumped,   \* messages that have come in, and been handed on
          owed         \* a message to the opponent was dropped, not yet made good

lxmfVars == <<reachable, known, asked, phase, waited, queued, arrived, pumped, owed>>

LxmfInit ==
  /\ reachable \in BOOLEAN /\ known = FALSE /\ asked = FALSE
  /\ phase = "pump" /\ waited = 0
  /\ queued = <<>> /\ arrived = 0 /\ pumped = {}
  /\ owed = FALSE

(* _on_delivery, on LXMF's thread                                           *)
on_delivery ==
  /\ arrived < MaxInbound /\ arrived' = arrived + 1
  /\ queued' = Append(queued, arrived')
  /\ UNCHANGED <<reachable, known, asked, phase, waited, pumped, owed>>

(* pump, until the queue is empty                                           *)
PumpOne ==
  /\ phase = "pump" /\ queued # <<>>
  /\ pumped' = pumped \cup {Head(queued)} /\ queued' = Tail(queued)
  /\ UNCHANGED <<reachable, known, asked, phase, waited, arrived, owed>>

NoneLeft ==
  /\ phase = "pump" /\ queued = <<>>
  /\ phase' = "act"
  /\ UNCHANGED <<reachable, known, asked, waited, queued, arrived, pumped, owed>>

(* Nothing to play, and nothing to nudge                                    *)
Idle ==
  /\ phase = "act" /\ ~owed
  /\ phase' = "pump"
  /\ UNCHANGED <<reachable, known, asked, waited, queued, arrived, pumped, owed>>

(* A move, or the nudge that sends one again: send, as far as _recall's      *)
(* first look.                                                              *)
Send ==
  /\ phase = "act"
  /\ IF known THEN phase' = "pump" /\ owed' = FALSE /\ UNCHANGED <<asked, waited>>
     ELSE phase' = "wait" /\ asked' = TRUE /\ waited' = 0 /\ UNCHANGED owed
  /\ UNCHANGED <<reachable, known, queued, arrived, pumped>>

Recalled ==
  /\ phase = "wait" /\ known
  /\ phase' = "pump" /\ owed' = FALSE
  /\ UNCHANGED <<reachable, known, asked, waited, queued, arrived, pumped>>

(* Mutant of GivesUp: _recall waits until it knows the identity.            *)
NeverGivesUp == FALSE /\ UNCHANGED lxmfVars

GivesUp ==
  /\ phase = "wait" /\ ~known /\ waited >= PathTimeout
  /\ phase' = "pump" /\ owed' = TRUE
  /\ UNCHANGED <<reachable, known, asked, waited, queued, arrived, pumped>>

(* The answer to a path request carries the identity.                       *)
PathAnswered ==
  /\ asked /\ reachable /\ known' = TRUE
  /\ UNCHANGED <<reachable, asked, phase, waited, queued, arrived, pumped, owed>>

LxmfTick ==
  /\ phase = "wait" /\ waited < PathTimeout /\ waited' = waited + 1
  /\ UNCHANGED <<reachable, known, asked, phase, queued, arrived, pumped, owed>>

Loop == PumpOne \/ NoneLeft \/ Idle \/ Send \/ Recalled \/ GivesUp

LxmfNext == Loop \/ on_delivery \/ PathAnswered \/ LxmfTick

(* The loop runs on, the clock too, and a path to a node that is there is      *)
(* found sometime.                                                          *)
LxmfFairness == WF_lxmfVars(Loop) /\ WF_lxmfVars(LxmfTick) /\ WF_lxmfVars(PathAnswered)

LxmfSpec == LxmfInit /\ [][LxmfNext]_lxmfVars /\ LxmfFairness

(* "Dropping (nudge heals)" (lxmf.py:191): a dropped message is made good once *)
(* the opponent can be reached; and while it cannot, sends that wait for it    *)
(* never keep what has come in from being handed on.                        *)
NothingStarves ==
  /\ owed ~> (~owed \/ ~reachable)
  /\ \A m \in 1..MaxInbound : (arrived >= m) ~> (m \in pumped)
=============================================================================
