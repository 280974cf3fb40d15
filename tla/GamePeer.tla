------------------------------ MODULE GamePeer ------------------------------
(***************************************************************************)
(* Two farcade peers playing ONE game (one gid) over a store-and-forward   *)
(* network: proto/peer.py with the session and the log it drives            *)
(* (core/session.py, core/log.py).                                          *)
(*                                                                         *)
(* Entries of other gids share nothing with this one, and a message from an *)
(* address other than the bound one is dropped before any handler runs, so  *)
(* one entry on each side is the whole state. Peers are called by the role  *)
(* they had in the INVITE.                                                  *)
(*                                                                         *)
(* The network is the set of messages in flight. Receiving one leaves it    *)
(* there (the link may deliver it again, in any order); Lose removes it.    *)
(* Every user operation and every handler runs to completion: peer.py is    *)
(* driven by one thread. A crash can fall inside an operation, between the  *)
(* writes it makes; Restart and the CrashIn... actions are a crash followed *)
(* by resume_all on what was on disk.                                       *)
(***************************************************************************)
EXTENDS Naturals, Sequences, SequencesExt

CONSTANTS
  Move,            \* the encoded moves of the game
  Legal(_, _),     \* Legal(h, m): Game.apply accepts m in the state after h
  WinnerOf(_),     \* Game.outcome of the state after h: "first", "second",
                   \* "draw", or "none" while the game is on
  Hash(_),         \* Game.hash of the state after h
  InviterSeat,     \* the seat the inviter took
  PartLen,         \* moves that fit one SYNC_STATE part (BUDGET)
  MayDecline,      \* BOOLEAN: may accept_policy turn the invitation down
  MayResign,       \* BOOLEAN: do the players resign
  MayDraw,         \* BOOLEAN: do the players offer and accept draws
  Lossy,           \* BOOLEAN: may the network lose a message
  MaxRestarts      \* bound on the crashes of the two peers together

Seat == {"first", "second"}
Peer == {"inviter", "invitee"}

ASSUME GamePeerAssumption ==
  /\ InviterSeat \in Seat
  /\ PartLen \in Nat \ {0}
  /\ {MayDecline, MayResign, MayDraw, Lossy} \subseteq BOOLEAN
  /\ MaxRestarts \in Nat

VARIABLES
  status,       \* GameEntry.status; "none" while the peer has no entry
  result,       \* GameEntry.result; "rules" stands for every Outcome.reason
  session,      \* GameEntry.session is not None
  log,          \* the moves of session.log, in memory and on disk
  drawBy,       \* GameEntry.draw_offered_by
  lastOut,      \* GameEntry.last_outbound: {} for None, else the one message
  buf,          \* GameEntry.sync_buffer: the parts of one snapshot
  net,          \* the messages in flight
  restarts      \* crashes so far (of the model, to bound them)

vars == <<status, result, session, log, drawBy, lastOut, buf, net, restarts>>

-----------------------------------------------------------------------------
(* Seats and turns                                                         *)

other_seat(s) == IF s = "first" THEN "second" ELSE "first"
Other(p) == IF p = "inviter" THEN "invitee" ELSE "inviter"
SeatOf(p) == IF p = "inviter" THEN InviterSeat ELSE other_seat(InviterSeat)

(* The seat that moves at ply n.                                           *)
SeatAt(n) == IF n % 2 = 0 THEN "first" ELSE "second"

(* Mutants of our_turn: of whoever plays; of a game that is over.           *)
AnyTurn(p) == session[p] /\ status[p] = "playing"
TurnAfterEnd(p) == session[p] /\ SeatAt(Len(log[p])) = SeatOf(p)

our_turn(p) ==
  /\ session[p] /\ status[p] = "playing"
  /\ SeatAt(Len(log[p])) = SeatOf(p)

Playing(p) == status[p] = "playing" /\ session[p]

(* Replay of a whole log: each move is legal after the moves before it.    *)
Replays(h) ==
  \A i \in 1..Len(h) : Legal(SubSeq(h, 1, i - 1), h[i])

ResignedBy(s) == IF s = "first" THEN "resign:first" ELSE "resign:second"

-----------------------------------------------------------------------------
(* Messages. `to' names the receiver; the sender is the other peer. Fields  *)
(* no handler reads (the ply of an INVITE, a RESIGN, a SYNC_REQUEST, the    *)
(* reason of a REJECT) are left out.                                        *)

Plain(t, p) == [type |-> t, to |-> Other(p)]

(* Mutant of MoveMsg: the ply is read after the move was applied.           *)
MoveMsgLatePly(p, h, m) ==
  [type |-> "MOVE", to |-> Other(p),
   ply |-> Len(h) + 1, move |-> m, hash |-> Hash(Append(h, m))]

(* The MOVE for m played after h: its ply is the length of h, its hash that *)
(* of the state it leads to.                                                *)
MoveMsg(p, h, m) ==
  [type |-> "MOVE", to |-> Other(p),
   ply |-> Len(h), move |-> m, hash |-> Hash(Append(h, m))]

(* chunk_sync_state: position k of the log travels in part PartOf(k). Moves *)
(* of a game have one width, so a part holds PartLen of them; the log       *)
(* without moves is one empty part.                                         *)
PartOf(k) == (k - 1) \div PartLen
PartsOf(n) == {0} \cup {PartOf(k) : k \in 1..n}
Slice(h, i) == [k \in {j \in 1..Len(h) : PartOf(j) = i} |-> h[k]]

SyncPart(p, i) ==
  [type |-> "SYNC_STATE", to |-> Other(p),
   ply |-> Len(log[p]), hash |-> Hash(log[p]), part |-> i,
   moves |-> Slice(log[p], i)]
SyncState(p) == {SyncPart(p, i) : i \in PartsOf(Len(log[p]))}

Send(msgs) == net' = net \cup msgs

Inbox(p, t) == {m \in net : m.type = t /\ m.to = p}

-----------------------------------------------------------------------------
Init ==
  /\ status = [p \in Peer |-> "none"]
  /\ result = [p \in Peer |-> ""]
  /\ session = [p \in Peer |-> FALSE]
  /\ log = [p \in Peer |-> <<>>]
  /\ drawBy = [p \in Peer |-> "none"]
  /\ lastOut = [p \in Peer |-> {}]
  /\ buf = [p \in Peer |-> {}]
  /\ net = {}
  /\ restarts = 0

Finish(p, r) ==
  /\ status' = [status EXCEPT ![p] = "finished"]
  /\ result' = [result EXCEPT ![p] = r]

(* _check_finished with h the log the operation leaves.                     *)
CheckFinished(p, h) ==
  IF WinnerOf(h) # "none" THEN Finish(p, "rules")
                          ELSE UNCHANGED <<status, result>>

-----------------------------------------------------------------------------
(* The user's operations                                                   *)

(* Mutant of Invite: whatever is sent becomes last_outbound.                *)
InviteRemembered(p) ==
  /\ p = "inviter" /\ status[p] = "none"
  /\ status' = [status EXCEPT ![p] = "invited_out"]
  /\ lastOut' = [lastOut EXCEPT ![p] = {Plain("INVITE", p)}]
  /\ Send({Plain("INVITE", p)})
  /\ UNCHANGED <<result, session, log, drawBy, buf, restarts>>

Invite(p) ==
  /\ p = "inviter" /\ status[p] = "none"
  /\ status' = [status EXCEPT ![p] = "invited_out"]
  /\ Send({Plain("INVITE", p)})
  /\ UNCHANGED <<result, session, log, drawBy, lastOut, buf, restarts>>

MayPlay(p, m) ==
  /\ our_turn(p)
  /\ WinnerOf(log[p]) = "none"
  /\ Legal(log[p], m)

SubmitMove(p, m) ==
  /\ MayPlay(p, m)
  /\ log' = [log EXCEPT ![p] = Append(@, m)]
  /\ lastOut' = [lastOut EXCEPT ![p] = {MoveMsg(p, log[p], m)}]
  /\ Send({MoveMsg(p, log[p], m)})
  /\ CheckFinished(p, log'[p])
  /\ UNCHANGED <<session, drawBy, buf, restarts>>

Resign(p) ==
  /\ MayResign /\ Playing(p)
  /\ Finish(p, ResignedBy(SeatOf(p)))
  /\ Send({Plain("RESIGN", p)})
  /\ UNCHANGED <<session, log, drawBy, lastOut, buf, restarts>>

OfferDraw(p) ==
  /\ MayDraw /\ Playing(p)
  /\ drawBy' = [drawBy EXCEPT ![p] = SeatOf(p)]
  /\ Send({Plain("DRAW_OFFER", p)})
  /\ UNCHANGED <<status, result, session, log, lastOut, buf, restarts>>

(* Mutant of AcceptDraw: any offer will do, one's own included.             *)
AcceptAnyDraw(p) ==
  /\ MayDraw /\ Playing(p)
  /\ drawBy[p] # "none"
  /\ Finish(p, "draw:agreed")
  /\ Send({Plain("DRAW_ACCEPT", p)})
  /\ UNCHANGED <<session, log, drawBy, lastOut, buf, restarts>>

AcceptDraw(p) ==
  /\ MayDraw /\ Playing(p)
  /\ drawBy[p] = SeatOf(Other(p))
  /\ Finish(p, "draw:agreed")
  /\ Send({Plain("DRAW_ACCEPT", p)})
  /\ UNCHANGED <<session, log, drawBy, lastOut, buf, restarts>>

(* Mutant of Nudged: a finished game is not nudged.                         *)
NudgedWhilePlaying(p) ==
  CASE status[p] = "invited_out" -> {Plain("INVITE", p)}
    [] our_turn(p)               -> {Plain("SYNC_REQUEST", p)}
    [] status[p] = "playing" /\ ~ our_turn(p) -> lastOut[p]
    [] OTHER                     -> {}

(* What nudge would send now.                                              *)
Nudged(p) ==
  CASE status[p] = "invited_out" -> {Plain("INVITE", p)}
    [] our_turn(p)               -> {Plain("SYNC_REQUEST", p)}
    [] status[p] = "playing" /\ ~ our_turn(p) -> lastOut[p]
    [] status[p] = "finished"    -> lastOut[p]
    [] OTHER                     -> {}

Nudge(p) ==
  /\ Nudged(p) # {}
  /\ Send(Nudged(p))
  /\ UNCHANGED <<status, result, session, log, drawBy, lastOut, buf, restarts>>

-----------------------------------------------------------------------------
(* The handlers                                                            *)

(* _handle_invite: a fresh entry and log, then ACCEPT; or DECLINE, and no   *)
(* entry at all.                                                            *)
ReceiveInvite(p) ==
  /\ Inbox(p, "INVITE") # {} /\ status[p] = "none"
  /\ \/ /\ status' = [status EXCEPT ![p] = "playing"]
        /\ session' = [session EXCEPT ![p] = TRUE]
        /\ Send({Plain("ACCEPT", p)})
     \/ /\ MayDecline
        /\ Send({Plain("DECLINE", p)})
        /\ UNCHANGED <<status, session>>
  /\ UNCHANGED <<result, log, drawBy, lastOut, buf, restarts>>

(* _h_dup_invite                                                           *)
ReceiveDupInvite(p) ==
  /\ Inbox(p, "INVITE") # {} /\ Playing(p)
  /\ Send({Plain("ACCEPT", p)})
  /\ UNCHANGED <<status, result, session, log, drawBy, lastOut, buf, restarts>>

(* Mutant of ReceiveAccept: a repeated ACCEPT begins the game again.        *)
ReceiveAnyAccept(p) ==
  /\ Inbox(p, "ACCEPT") # {} /\ status[p] \in {"invited_out", "playing"}
  /\ session' = [session EXCEPT ![p] = TRUE]
  /\ log' = [log EXCEPT ![p] = <<>>]
  /\ status' = [status EXCEPT ![p] = "playing"]
  /\ UNCHANGED <<result, drawBy, lastOut, buf, net, restarts>>

ReceiveAccept(p) ==
  /\ Inbox(p, "ACCEPT") # {} /\ status[p] = "invited_out"
  /\ session' = [session EXCEPT ![p] = TRUE]
  /\ log' = [log EXCEPT ![p] = <<>>]
  /\ status' = [status EXCEPT ![p] = "playing"]
  /\ UNCHANGED <<result, drawBy, lastOut, buf, net, restarts>>

ReceiveDecline(p) ==
  /\ Inbox(p, "DECLINE") # {} /\ status[p] = "invited_out"
  /\ Finish(p, "declined")
  /\ UNCHANGED <<session, log, drawBy, lastOut, buf, net, restarts>>

(* Mutants of Verdict: a late copy is applied again; legality is not asked. *)
VerdictOnCopies(h, msg) ==
  IF WinnerOf(h) # "none" THEN "FINISHED"
  ELSE IF msg.ply > Len(h) THEN "GAP"
  ELSE IF ~ Legal(h, msg.move) THEN "ILLEGAL"
  ELSE IF Hash(Append(h, msg.move)) # msg.hash THEN "DIVERGED"
  ELSE "APPLIED"

VerdictOnFaith(h, msg) ==
  IF WinnerOf(h) # "none" THEN "FINISHED"
  ELSE IF msg.ply < Len(h) THEN "DUPLICATE"
  ELSE IF msg.ply > Len(h) THEN "GAP"
  ELSE IF Hash(Append(h, msg.move)) # msg.hash THEN "DIVERGED"
  ELSE "APPLIED"

(* Session.apply_wire_move's verdict on a MOVE, for the log h. The moves of *)
(* a peer always decode, so MALFORMED cannot come up.                       *)
Verdict(h, msg) ==
  IF WinnerOf(h) # "none" THEN "FINISHED"
  ELSE IF msg.ply < Len(h) THEN "DUPLICATE"
  ELSE IF msg.ply > Len(h) THEN "GAP"
  ELSE IF ~ Legal(h, msg.move) THEN "ILLEGAL"
  ELSE IF Hash(Append(h, msg.move)) # msg.hash THEN "DIVERGED"
  ELSE "APPLIED"

(* DIVERGED too leaves the move in the log.                                *)
Applies(v) == v \in {"APPLIED", "DIVERGED"}

(* Mutant of OutOfTurn: late copies are judged by whose turn it is now.     *)
NotTheirTurn(p, msg) == our_turn(p)

OutOfTurn(p, msg) == msg.ply = Len(log[p]) /\ our_turn(p)

(* What the verdict makes _h_move answer.                                  *)
Answer(p, v) ==
  CASE v \in {"GAP", "DIVERGED"}           -> {Plain("SYNC_REQUEST", p)}
    [] v \in {"NOT_YOUR_TURN", "ILLEGAL"}  -> {Plain("REJECT", p)}
    [] OTHER                               -> {}

ReceiveMove(p, msg) ==
  LET v == IF OutOfTurn(p, msg) THEN "NOT_YOUR_TURN" ELSE Verdict(log[p], msg)
  IN  /\ Playing(p)
      /\ log' = IF Applies(v) THEN [log EXCEPT ![p] = Append(@, msg.move)]
                              ELSE log
      /\ IF v = "APPLIED" THEN CheckFinished(p, log'[p])
                          ELSE UNCHANGED <<status, result>>
      /\ Send(Answer(p, v))
      /\ UNCHANGED <<session, drawBy, lastOut, buf, restarts>>

(* Mutants of ReceiveResign: the receiver is the one who gave up; a game    *)
(* that is over can still be resigned.                                      *)
ReceiveResignAsOwn(p) ==
  /\ Inbox(p, "RESIGN") # {} /\ status[p] = "playing"
  /\ Finish(p, ResignedBy(SeatOf(p)))
  /\ UNCHANGED <<session, log, drawBy, lastOut, buf, net, restarts>>

ReceiveLateResign(p) ==
  /\ Inbox(p, "RESIGN") # {} /\ status[p] # "none"
  /\ Finish(p, ResignedBy(SeatOf(Other(p))))
  /\ UNCHANGED <<session, log, drawBy, lastOut, buf, net, restarts>>

ReceiveResign(p) ==
  /\ Inbox(p, "RESIGN") # {} /\ status[p] = "playing"
  /\ Finish(p, ResignedBy(SeatOf(Other(p))))
  /\ UNCHANGED <<session, log, drawBy, lastOut, buf, net, restarts>>

ReceiveDrawOffer(p) ==
  /\ Inbox(p, "DRAW_OFFER") # {} /\ status[p] = "playing"
  /\ drawBy' = [drawBy EXCEPT ![p] = SeatOf(Other(p))]
  /\ UNCHANGED <<status, result, session, log, lastOut, buf, net, restarts>>

ReceiveDrawAccept(p) ==
  /\ Inbox(p, "DRAW_ACCEPT") # {} /\ status[p] = "playing"
  /\ drawBy[p] = SeatOf(p)
  /\ Finish(p, "draw:agreed")
  /\ UNCHANGED <<session, log, drawBy, lastOut, buf, net, restarts>>

ReceiveSyncRequest(p) ==
  /\ Inbox(p, "SYNC_REQUEST") # {} /\ session[p]
  /\ Send(SyncState(p))
  /\ UNCHANGED <<status, result, session, log, drawBy, lastOut, buf, restarts>>

(* The buffer once msg is in it: a part of another snapshot (a different    *)
(* hash or ply) starts the buffer afresh.                                   *)
SameSnapshot(m, n) == m.ply = n.ply /\ m.hash = n.hash
Buffered(b, msg) ==
  {m \in b : SameSnapshot(m, msg) /\ m.part # msg.part} \cup {msg}

Complete(b, n) == PartsOf(n) \subseteq {m.part : m \in b}

(* The parts put together, in the order of their numbers.                  *)
Assembled(b, n) ==
  [k \in 1..n |-> (CHOOSE m \in b : m.part = PartOf(k)).moves[k]]

(* Session.adopt_log: only a strictly longer history that replays and lands *)
(* on the promised hash replaces the log; a longer one that does not breaks *)
(* the session.                                                             *)
Adoptable(h, moves, hash) == Replays(moves) /\ Hash(moves) = hash

ReceiveSyncState(p, msg) ==
  LET b == Buffered(buf[p], msg)
      moves == Assembled(b, msg.ply)
  IN  /\ session[p]
      /\ IF ~ Complete(b, msg.ply)
         THEN /\ buf' = [buf EXCEPT ![p] = b]
              /\ UNCHANGED <<status, result, log>>
         ELSE /\ buf' = [buf EXCEPT ![p] = {}]
              /\ IF msg.ply <= Len(log[p])
                 THEN /\ CheckFinished(p, log[p])
                      /\ UNCHANGED log
                 ELSE IF Adoptable(log[p], moves, msg.hash)
                 THEN /\ log' = [log EXCEPT ![p] = moves]
                      /\ CheckFinished(p, moves)
                 ELSE /\ status' = [status EXCEPT ![p] = "broken"]
                      /\ result' = [result EXCEPT ![p] = "broken"]
                      /\ UNCHANGED log
      /\ UNCHANGED <<session, drawBy, lastOut, net, restarts>>

(* _h_reject: whatever the disagreement is, ask for the peer's log. No      *)
(* REJECT is ever sent here (NoFalseAccusation), so it is not part of Next;  *)
(* GamePeerOnDisk, where logs can diverge, has it.                          *)
ReceiveReject(p) ==
  /\ Inbox(p, "REJECT") # {} /\ status[p] # "none"
  /\ Send({Plain("SYNC_REQUEST", p)})
  /\ UNCHANGED <<status, result, session, log, drawBy, lastOut, buf, restarts>>

-----------------------------------------------------------------------------
(* Crashes. The entry's meta file and the log are written inside the        *)
(* operation that changes them, so between operations the disk holds        *)
(* everything but last_outbound and sync_buffer. Inside an operation the    *)
(* log is written before the meta file, and both before anything is sent    *)
(* (submit_move: the MOVE goes out before the meta file is written). A      *)
(* crash after the meta file and before the message is the whole operation, *)
(* its message lost, then Restart.                                          *)

Crash(p) ==
  /\ restarts < MaxRestarts
  /\ restarts' = restarts + 1
  /\ lastOut' = [lastOut EXCEPT ![p] = {}]
  /\ buf' = [buf EXCEPT ![p] = {}]
  /\ UNCHANGED <<status, result, drawBy>>

Restart(p) ==
  /\ status[p] # "none"
  /\ Crash(p)
  /\ UNCHANGED <<session, log, net>>

(* submit_move: the move is in the log; the MOVE may be out; an outcome is  *)
(* not recorded.                                                            *)
CrashInSubmit(p, m) ==
  /\ MayPlay(p, m)
  /\ log' = [log EXCEPT ![p] = Append(@, m)]
  /\ \/ Send({MoveMsg(p, log[p], m)})
     \/ UNCHANGED net
  /\ Crash(p)
  /\ UNCHANGED session

(* _h_move: the move is in the log, an outcome is not recorded and nothing  *)
(* is answered.                                                             *)
CrashInReceiveMove(p, msg) ==
  /\ Playing(p)
  /\ ~ OutOfTurn(p, msg) /\ Applies(Verdict(log[p], msg))
  /\ log' = [log EXCEPT ![p] = Append(@, msg.move)]
  /\ Crash(p)
  /\ UNCHANGED <<session, net>>

(* _h_accept: the empty log is on disk, the meta file still says            *)
(* invited_out.                                                             *)
CrashInAccept(p) ==
  /\ Inbox(p, "ACCEPT") # {} /\ status[p] = "invited_out"
  /\ session' = [session EXCEPT ![p] = TRUE]
  /\ log' = [log EXCEPT ![p] = <<>>]
  /\ Crash(p)
  /\ UNCHANGED net

(* _h_sync_state: the adopted log is on disk, an outcome is not recorded.   *)
CrashInSyncState(p, msg) ==
  LET b == Buffered(buf[p], msg)
      moves == Assembled(b, msg.ply)
  IN  /\ session[p]
      /\ Complete(b, msg.ply) /\ msg.ply > Len(log[p])
      /\ Adoptable(log[p], moves, msg.hash)
      /\ log' = [log EXCEPT ![p] = moves]
      /\ Crash(p)
      /\ UNCHANGED <<session, net>>

Lose(msg) ==
  /\ Lossy
  /\ net' = net \ {msg}
  /\ UNCHANGED <<status, result, session, log, drawBy, lastOut, buf, restarts>>

-----------------------------------------------------------------------------
UserStep(p) ==
  \/ Invite(p)
  \/ \E m \in Move : SubmitMove(p, m)
  \/ Resign(p)
  \/ OfferDraw(p)
  \/ AcceptDraw(p)
  \/ Nudge(p)

(* The handlers that write a whole log: a new game's, or an adopted one.    *)
ReceiveLog(p) ==
  \/ ReceiveInvite(p)
  \/ ReceiveAccept(p)
  \/ \E msg \in Inbox(p, "SYNC_STATE") : ReceiveSyncState(p, msg)

ReceiveStep(p) ==
  \/ ReceiveDupInvite(p)
  \/ ReceiveDecline(p)
  \/ \E msg \in Inbox(p, "MOVE") : ReceiveMove(p, msg)
  \/ ReceiveResign(p)
  \/ ReceiveDrawOffer(p)
  \/ ReceiveDrawAccept(p)
  \/ ReceiveSyncRequest(p)

CrashStep(p) ==
  \/ Restart(p)
  \/ \E m \in Move : CrashInSubmit(p, m)
  \/ \E msg \in Inbox(p, "MOVE") : CrashInReceiveMove(p, msg)
  \/ CrashInAccept(p)
  \/ \E msg \in Inbox(p, "SYNC_STATE") : CrashInSyncState(p, msg)

Next ==
  \/ \E p \in Peer : UserStep(p) \/ ReceiveLog(p) \/ ReceiveStep(p) \/ CrashStep(p)
  \/ \E msg \in net : Lose(msg)

Spec == Init /\ [][Next]_vars

-----------------------------------------------------------------------------
(* Type invariant                                                          *)

StatusSet == {"none", "invited_out", "playing", "finished", "broken"}
ResultSet == {"", "rules", "resign:first", "resign:second", "draw:agreed",
              "declined", "broken"}
MsgTypes == {"INVITE", "ACCEPT", "DECLINE", "MOVE", "RESIGN", "DRAW_OFFER",
             "DRAW_ACCEPT", "SYNC_REQUEST", "SYNC_STATE", "REJECT"}

IsMessage(m) ==
  /\ m.type \in MsgTypes /\ m.to \in Peer
  /\ m.type = "MOVE" => m.ply \in Nat /\ m.move \in Move
  /\ m.type = "SYNC_STATE" => m.ply \in Nat /\ m.part \in PartsOf(m.ply)

(* Every variable has its type; last_outbound only ever holds a MOVE to the *)
(* peer and the buffer only SYNC_STATE parts.                               *)
TypeOK ==
  /\ status \in [Peer -> StatusSet]
  /\ result \in [Peer -> ResultSet]
  /\ session \in [Peer -> BOOLEAN]
  /\ log \in [Peer -> Seq(Move)]
  /\ drawBy \in [Peer -> Seat \cup {"none"}]
  /\ DOMAIN lastOut = Peer /\ DOMAIN buf = Peer
  /\ \A p \in Peer :
       /\ \A m \in lastOut[p] : IsMessage(m) /\ m.type = "MOVE" /\ m.to # p
       /\ \A m \in buf[p] : IsMessage(m) /\ m.type = "SYNC_STATE" /\ m.to = p
  /\ \A m \in net : IsMessage(m)
  /\ restarts \in Nat

-----------------------------------------------------------------------------
(* Safety                                                                  *)

(* The two logs are one history: one is always a prefix of the other,       *)
(* whatever the network duplicated, reordered or lost and wherever a peer   *)
(* crashed (session.py's invariants 1 and 2, adopt_log).                    *)
OneHistory ==
  \A p \in Peer : \/ IsPrefix(log[p], log[Other(p)])
                   \/ IsPrefix(log[Other(p)], log[p])

(* A peer is at most one ply ahead, and that ply is its own: _h_move and    *)
(* our_turn leave no way to play twice, or for the other side.              *)
LeadAtMostOne ==
  \A p \in Peer :
    Len(log[p]) > Len(log[Other(p)]) =>
      /\ Len(log[p]) = Len(log[Other(p)]) + 1
      /\ SeatAt(Len(log[Other(p)])) = SeatOf(p)

(* Between two correct peers no late, repeated or reordered message is ever *)
(* answered with REJECT, and no resync ever breaks a session.               *)
NoFalseAccusation ==
  /\ \A m \in net : m.type # "REJECT"
  /\ \A p \in Peer : status[p] # "broken"

(* However old a MOVE or SYNC_STATE part in flight, in last_outbound or in  *)
(* a sync buffer is, it tells what its sender's log still says.             *)
Truthful(m) ==
  LET h == log[Other(m.to)]
  IN  /\ m.type = "MOVE" =>
           /\ m.ply < Len(h) /\ h[m.ply + 1] = m.move
           /\ SeatAt(m.ply) = SeatOf(Other(m.to))
           /\ m.hash = Hash(SubSeq(h, 1, m.ply + 1))
      /\ m.type = "SYNC_STATE" =>
           /\ m.ply <= Len(h)
           /\ m.hash = Hash(SubSeq(h, 1, m.ply))
           /\ m.moves = Slice(SubSeq(h, 1, m.ply), m.part)

MessagesTruthful ==
  /\ \A m \in net : Truthful(m)
  /\ \A p \in Peer : \A m \in lastOut[p] \cup buf[p] : Truthful(m)

(* A peer's log holds moves only once its game is on, and nobody sends it a *)
(* SYNC_STATE before: a repeated ACCEPT can only reset an empty log.        *)
Waiting(p) == status[p] \in {"none", "invited_out"}
QuietUntilAccepted ==
  \A p \in Peer : Waiting(p) =>
    /\ log[p] = <<>>
    /\ \A m \in net : /\ m.type = "SYNC_REQUEST" => m.to = p
                      /\ m.type = "SYNC_STATE" => m.to # p

(* The inductive invariant: why the safety properties above hold.           *)
IInv ==
  /\ TypeOK
  /\ \A p \in Peer : \A i \in 1..Len(log[p]) :
       i <= Len(log[Other(p)]) => log[p][i] = log[Other(p)][i]
  /\ LeadAtMostOne
  /\ \A p \in Peer : Replays(log[p])
  /\ MessagesTruthful
  /\ NoFalseAccusation
  /\ QuietUntilAccepted

(* A resignation is recorded against a seat only if that seat's own player  *)
(* sent one, at either peer (resign, _h_resign). (Stated, like the next     *)
(* one, for a network that keeps what was sent.)                            *)
ResignIsOwn ==
  ~ Lossy =>
    \A p, q \in Peer :
      result[p] = ResignedBy(SeatOf(q)) => Inbox(Other(q), "RESIGN") # {}

(* A draw is recorded only once one player has offered and the other one    *)
(* has accepted.                                                           *)
DrawByConsent ==
  ~ Lossy =>
    \A p \in Peer :
      result[p] = "draw:agreed" =>
        \E q \in Peer : /\ Inbox(q, "DRAW_OFFER") # {}
                       /\ Inbox(Other(q), "DRAW_ACCEPT") # {}

(* When both peers let the rules decide, they saw the same game to its end. *)
RulesAgree ==
  (\A p \in Peer : result[p] = "rules") =>
    \A p \in Peer : log[p] = log[Other(p)]

(* A log never loses or rewrites a move: not when a SYNC_STATE is adopted,  *)
(* not by a repeated ACCEPT, not over a crash.                              *)
LogOnlyGrows == [][\A p \in Peer : IsPrefix(log[p], log'[p])]_vars

(* A finished game stays finished, and an outcome of the rules is never     *)
(* replaced by a resignation or a draw that was still in flight.            *)
FinishedIsFinal ==
  [][\A p \in Peer :
       /\ status[p] = "finished" => status'[p] = "finished"
       /\ result[p] = "rules" => result'[p] = "rules"]_vars

(* Without a crash, what nudge sends from the peer that is ahead is exactly *)
(* the move the other one lacks (peer.py: everything outbound that matters  *)
(* is retransmittable via nudge).                                           *)
NudgeCarriesTheLead ==
  \A p \in Peer :
    restarts = 0 /\ Len(log[p]) > Len(log[Other(p)]) =>
      \E m \in Nudged(p) : m.type = "MOVE" /\ m.ply = Len(log[Other(p)])

(* The inductive invariant of the endings, on top of IInv: no log goes on   *)
(* past a winner, an outcome of the rules is one, who is believed to offer  *)
(* a draw has offered it, and the peer that is ahead remembers its lead.    *)
NoneWonBefore ==
  \A p \in Peer : \A n \in 0..Len(log[p]) :
    n < Len(log[p]) => WinnerOf(SubSeq(log[p], 1, n)) = "none"

RulesHaveDecided ==
  \A p \in Peer :
    result[p] = "rules" => status[p] = "finished" /\ WinnerOf(log[p]) # "none"

OffersWereMade ==
  ~ Lossy =>
    \A p, q \in Peer :
      drawBy[p] = SeatOf(q) => Inbox(Other(q), "DRAW_OFFER") # {}

LeadRemembered ==
  \A p \in Peer :
    restarts = 0 /\ Len(log[p]) > Len(log[Other(p)]) =>
      \E m \in lastOut[p] : m.type = "MOVE" /\ m.ply = Len(log[Other(p)])

EndInv ==
  /\ IInv
  /\ NoneWonBefore
  /\ RulesHaveDecided
  /\ OffersWereMade
  /\ ResignIsOwn
  /\ DrawByConsent
  /\ LeadRemembered

-----------------------------------------------------------------------------
(* The two peers play one correspondence game: the longer log is the        *)
(* history, each peer knows its own log, and plays while its entry does.    *)

Longest == IF Len(log["inviter"]) >= Len(log["invitee"])
           THEN log["inviter"] ELSE log["invitee"]
PeerAt(s) == CHOOSE p \in Peer : SeatOf(p) = s
PhaseOf(st) == CASE st \in {"none", "invited_out"} -> "waiting"
                 [] st = "playing"                 -> "active"
                 [] OTHER                          -> "done"

Game == INSTANCE CorrespondenceGame WITH
          history <- Longest,
          seen <- [s \in Seat |-> Len(log[PeerAt(s)])],
          phase <- [s \in Seat |-> PhaseOf(status[PeerAt(s)])]

(* Every step of the two peers is a step of the game they agreed to play,   *)
(* or changes nothing of it.                                                *)
PlaysOneGame == Game!GameSpec

-----------------------------------------------------------------------------
(* Liveness. The callers keep pumping the transport, keep choosing moves    *)
(* and keep nudging (test_adversarial's harness, the scripts' loops); what   *)
(* is sent again and again gets through. Fairness is asked only of steps    *)
(* that change something, so a link that delivers a stale copy for ever     *)
(* does not meet it.                                                        *)

ReceiveHandshake(p) ==
  ReceiveInvite(p) \/ ReceiveDupInvite(p) \/ ReceiveAccept(p)

ReceiveSomeMove(p) == \E msg \in Inbox(p, "MOVE") : ReceiveMove(p, msg)

ReceiveEnding(p) == ReceiveResign(p) \/ ReceiveDrawAccept(p)

Fairness ==
  \A p \in Peer :
    /\ WF_vars(Invite(p))
    /\ WF_vars(\E m \in Move : SubmitMove(p, m))
    /\ WF_vars(Nudge(p))
    /\ WF_vars(ReceiveSyncRequest(p))
    /\ SF_vars(ReceiveHandshake(p))
    /\ SF_vars(ReceiveSomeMove(p))

(* A resignation or an accepted draw sent again and again gets through too. *)
EndingFairness == \A p \in Peer : SF_vars(ReceiveEnding(p))

FairSpec == Spec /\ Fairness
FairEndSpec == FairSpec /\ EndingFairness

Finished(p) == status[p] = "finished"

(* Both players see the game to its end with the same moves, over a network *)
(* that may lose any message any number of times.                           *)
GameCompletes == <>[](/\ \A p \in Peer : Finished(p)
                      /\ log["inviter"] = log["invitee"])

(* When one player's game has ended, the other one does not play on for     *)
(* ever (the soak counts a game only when both sides saw it end).           *)
EndReachesBoth ==
  \A p \in Peer :
    Finished(p) /\ Playing(Other(p)) ~> ~ Playing(Other(p))
=============================================================================
