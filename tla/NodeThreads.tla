---------------------------- MODULE NodeThreads ----------------------------
(***************************************************************************)
(* One game of a Node that a person plays through ui/server.py: every       *)
(* request runs on a thread of its own while the main thread pumps, and both  *)
(* work on one GamePeer and one Session without a lock. A thread is a        *)
(* program counter moved by one action per access another thread can come    *)
(* between; the longest of these is append_to, which syncs the file between   *)
(* the log's change and the state's. The peer has one thread. The person has  *)
(* the first seat. A position is the sequence of moves it was made by, and    *)
(* its hash is itself.                                                      *)
(***************************************************************************)
EXTENDS Integers, SequencesExt

CONSTANTS Request,    \* requests that may run at once
          Choice,     \* the moves there are
          LastPly,    \* the game is over after this many plies
          MaxOverlaps \* bound on the overlaps, see below

ASSUME NodeAssumption == LastPly \in Nat /\ MaxOverlaps \in Nat

VARIABLES log, state,       \* session.log and session.state
          status,           \* entry.status
          pc, hand,         \* each thread's step, and the move and position it holds
          net,              \* messages sent; each may arrive any number of times
          theirs, theirStatus,   \* the peer's log and its entry's status
          overlaps          \* times a thread read the session inside another's change of it

nodeVars == <<log, state, status, pc, hand, net, theirs, theirStatus, overlaps>>

Pumping == "pump"
Threads == Request \cup {Pumping}

ASSUME ThreadAssumption == Pumping \notin Request

Over(moves) == Len(moves) = LastPly
OurTurn(moves) == Len(moves) % 2 = 0
NoHand == [move |-> "none", pos |-> <<>>, hash |-> <<>>, ply |-> 0]

MoveOf(to, ply, move, pos) == [t |-> "MOVE", to |-> to, ply |-> ply, move |-> move, pos |-> pos]
Ask(to) == [t |-> "SYNC_REQUEST", to |-> to]
Snapshot(to, moves, pos) == [t |-> "SYNC_STATE", to |-> to, moves |-> moves, pos |-> pos]
Rejection == [t |-> "REJECT", to |-> "node"]

NodeInit ==
  /\ log = <<>> /\ state = <<>> /\ status = "playing"
  /\ pc = [t \in Threads |-> "idle"] /\ hand = [t \in Threads |-> NoHand]
  /\ net = {}
  /\ theirs = <<>> /\ theirStatus = "playing"
  /\ overlaps = 0

Changing(t) == pc[t] \in {"apply", "append", "assign"}

(* Counts how often a thread comes upon a change that another is making.    *)
Noticed(t) ==
  IF \E s \in Threads \ {t} : Changing(s)
  THEN overlaps < MaxOverlaps /\ overlaps' = overlaps + 1
  ELSE UNCHANGED overlaps

-----------------------------------------------------------------------------
(* POST /move and the pump's _h_move, both ending in a Session method.      *)

(* submit_move as far as our_turn; what it refuses is a 400.                *)
PostMove(r) ==
  /\ pc[r] = "idle" /\ status = "playing" /\ OurTurn(log)
  /\ pc' = [pc EXCEPT ![r] = "apply"]
  /\ \E m \in Choice : hand' = [hand EXCEPT ![r] = [NoHand EXCEPT !.move = m]]
  /\ Noticed(r)
  /\ UNCHANGED <<log, state, status, net, theirs, theirStatus>>

(* _h_move as far as the ply: silence for a duplicate, a question for a gap.  *)
PumpMove ==
  \E m \in net :
    /\ m.t = "MOVE" /\ m.to = "node"
    /\ pc[Pumping] = "idle" /\ status = "playing"
    /\ Noticed(Pumping)
    /\ IF m.ply = Len(log)
       THEN /\ pc' = [pc EXCEPT ![Pumping] = "apply"]
            /\ hand' = [hand EXCEPT ![Pumping] =
                          [move |-> m.move, pos |-> <<>>, hash |-> m.pos, ply |-> m.ply]]
            /\ UNCHANGED net
       ELSE /\ net' = net \cup (IF m.ply > Len(log) /\ ~Over(state) THEN {Ask("peer")} ELSE {})
            /\ UNCHANGED <<pc, hand>>
    /\ UNCHANGED <<log, state, status, theirs, theirStatus>>

(* new_state = game.apply(self.state, move), unless the game is over.       *)
Apply(t) ==
  /\ pc[t] = "apply"
  /\ IF Over(state) THEN pc' = [pc EXCEPT ![t] = "idle"] /\ UNCHANGED hand
     ELSE /\ pc' = [pc EXCEPT ![t] = "append"]
          /\ hand' = [hand EXCEPT ![t].pos = Append(state, hand[t].move)]
  /\ UNCHANGED <<log, state, status, net, theirs, theirStatus, overlaps>>

AppendMove(t) ==
  /\ pc[t] = "append" /\ pc' = [pc EXCEPT ![t] = "assign"]
  /\ log' = Append(log, hand[t].move)
  /\ hand' = [hand EXCEPT ![t].ply = Len(log)]
  /\ UNCHANGED <<state, status, net, theirs, theirStatus, overlaps>>

(* self.state = new_state, once the line is on disk.                        *)
Assign(t) ==
  /\ pc[t] = "assign" /\ pc' = [pc EXCEPT ![t] = IF t = Pumping THEN "compare" ELSE "send"]
  /\ state' = hand[t].pos
  /\ UNCHANGED <<log, status, hand, net, theirs, theirStatus, overlaps>>

(* Mutant of SendMove: the hash is taken of the position before the move.   *)
SendMoveStale(r) ==
  /\ pc[r] = "send" /\ pc' = [pc EXCEPT ![r] = "check"]
  /\ net' = net \cup {MoveOf("peer", hand[r].ply, hand[r].move, Front(hand[r].pos))}
  /\ UNCHANGED <<log, state, status, hand, theirs, theirStatus, overlaps>>

SendMove(r) ==
  /\ pc[r] = "send" /\ pc' = [pc EXCEPT ![r] = "check"]
  /\ net' = net \cup {MoveOf("peer", hand[r].ply, hand[r].move, hand[r].pos)}
  /\ UNCHANGED <<log, state, status, hand, theirs, theirStatus, overlaps>>

(* The peer's hash against ours: APPLIED, or DIVERGED and a question.       *)
Compare ==
  /\ pc[Pumping] = "compare"
  /\ IF hand[Pumping].hash = hand[Pumping].pos
     THEN pc' = [pc EXCEPT ![Pumping] = "check"] /\ UNCHANGED net
     ELSE pc' = [pc EXCEPT ![Pumping] = "idle"] /\ net' = net \cup {Ask("peer")}
  /\ UNCHANGED <<log, state, status, hand, theirs, theirStatus, overlaps>>

(* _check_finished                                                          *)
Check(t) ==
  /\ pc[t] = "check" /\ pc' = [pc EXCEPT ![t] = "idle"]
  /\ status' = IF Over(state) THEN "finished" ELSE status
  /\ hand' = [hand EXCEPT ![t] = NoHand]
  /\ UNCHANGED <<log, state, net, theirs, theirStatus, overlaps>>

-----------------------------------------------------------------------------
(* The pump's other handlers                                                *)

(* _h_sync_request: the log's moves and the hash of the state.              *)
PumpSyncRequest ==
  /\ Ask("node") \in net /\ pc[Pumping] = "idle"
  /\ Noticed(Pumping)
  /\ net' = net \cup {Snapshot("peer", log, state)}
  /\ UNCHANGED <<log, state, status, pc, hand, theirs, theirStatus>>

(* _h_sync_state: adopt_log sets the log, then the state.                   *)
PumpSyncState ==
  \E m \in net :
    /\ m.t = "SYNC_STATE" /\ m.to = "node" /\ pc[Pumping] = "idle"
    /\ Noticed(Pumping)
    /\ Len(m.moves) > Len(log)
    /\ IF m.moves # m.pos THEN status' = "broken" /\ UNCHANGED <<log, pc, hand>>
       ELSE /\ log' = m.moves
            /\ pc' = [pc EXCEPT ![Pumping] = "assign"]
            /\ hand' = [hand EXCEPT ![Pumping] = [NoHand EXCEPT !.pos = m.moves, !.hash = m.pos]]
            /\ UNCHANGED status
    /\ UNCHANGED <<state, net, theirs, theirStatus>>

(* _h_reject asks for the peer's log; so does POST /nudge on our turn.      *)
PumpReject ==
  /\ Rejection \in net /\ pc[Pumping] = "idle"
  /\ net' = net \cup {Ask("peer")}
  /\ UNCHANGED <<log, state, status, pc, hand, theirs, theirStatus, overlaps>>

PostNudge ==
  /\ status = "playing" /\ OurTurn(log)
  /\ net' = net \cup {Ask("peer")}
  /\ UNCHANGED <<log, state, status, pc, hand, theirs, theirStatus, overlaps>>

-----------------------------------------------------------------------------
(* The peer: the same handlers, each to its end.                            *)

PeerMoves ==
  /\ theirStatus = "playing" /\ ~OurTurn(theirs)
  /\ \E m \in Choice :
       /\ theirs' = Append(theirs, m)
       /\ net' = net \cup {MoveOf("node", Len(theirs), m, theirs')}
  /\ theirStatus' = IF Over(theirs') THEN "finished" ELSE theirStatus
  /\ UNCHANGED <<log, state, status, pc, hand, overlaps>>

PeerReceivesMove ==
  \E m \in net :
    /\ m.t = "MOVE" /\ m.to = "peer" /\ theirStatus = "playing"
    /\ IF m.ply = Len(theirs) /\ OurTurn(theirs)
       THEN /\ theirs' = Append(theirs, m.move)
            /\ net' = net \cup (IF m.pos = theirs' THEN {} ELSE {Ask("node")})
            /\ theirStatus' = IF m.pos = theirs' /\ Over(theirs') THEN "finished" ELSE theirStatus
       ELSE /\ net' = net \cup (IF m.ply = Len(theirs) THEN {Rejection}
                                ELSE IF m.ply > Len(theirs) THEN {Ask("node")} ELSE {})
            /\ UNCHANGED <<theirs, theirStatus>>
    /\ UNCHANGED <<log, state, status, pc, hand, overlaps>>

PeerAnswers ==
  /\ Ask("peer") \in net
  /\ net' = net \cup {Snapshot("node", theirs, theirs)}
  /\ UNCHANGED <<log, state, status, pc, hand, theirs, theirStatus, overlaps>>

PeerSynced ==
  \E m \in net :
    /\ m.t = "SYNC_STATE" /\ m.to = "peer" /\ Len(m.moves) > Len(theirs)
    /\ IF m.moves # m.pos THEN theirStatus' = "broken" /\ UNCHANGED theirs
       ELSE theirs' = m.moves /\ theirStatus' = IF Over(theirs') THEN "finished" ELSE theirStatus
    /\ UNCHANGED <<log, state, status, pc, hand, net, overlaps>>

(* nudge on its turn                                                        *)
PeerNudges ==
  /\ theirStatus = "playing" /\ ~OurTurn(theirs)
  /\ net' = net \cup {Ask("node")}
  /\ UNCHANGED <<log, state, status, pc, hand, theirs, theirStatus, overlaps>>

-----------------------------------------------------------------------------
RequestStep(r) == PostMove(r) \/ Apply(r) \/ AppendMove(r) \/ Assign(r) \/ SendMove(r) \/ Check(r)

PumpStep ==
  \/ PumpMove \/ Apply(Pumping) \/ AppendMove(Pumping) \/ Assign(Pumping) \/ Compare
  \/ Check(Pumping) \/ PumpSyncRequest \/ PumpSyncState \/ PumpReject

PeerStep == PeerMoves \/ PeerReceivesMove \/ PeerAnswers \/ PeerSynced \/ PeerNudges

NodeNext == (\E r \in Request : RequestStep(r)) \/ PumpStep \/ PostNudge \/ PeerStep

NodeSpec == NodeInit /\ [][NodeNext]_nodeVars

-----------------------------------------------------------------------------
(* "State is a pure function of the move log" (session.py:5), the two sides  *)
(* have one history, what is sent says what it leads to, and no session       *)
(* breaks: as long as no thread looks at the turn or the log while another is *)
(* between its look at the turn and its assignment of the state. Nothing     *)
(* else the threads do in between matters: a lock around that is enough.      *)
OneAtATimeIsWhole ==
  overlaps = 0 =>
    /\ (\A t \in Threads : pc[t] # "assign") => state = log
    /\ IsPrefix(log, theirs) \/ IsPrefix(theirs, log)
    /\ \A m \in net : m.t = "MOVE" => Len(m.pos) = m.ply + 1 /\ m.pos[m.ply + 1] = m.move
    /\ "broken" \notin {status, theirStatus}

(* No session between two correct peers is ever given up as broken: a peer's  *)
(* snapshot lands on the hash it promises (session.py:139-146).              *)
NobodyBreaks == "broken" \notin {status, theirStatus}
=============================================================================
