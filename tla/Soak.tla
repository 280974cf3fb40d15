-------------------------------- MODULE Soak --------------------------------
(***************************************************************************)
(* The unattended pair: scripts/soak_initiator.py, whose SoakRunner          *)
(* (soak.py) invites and plays first, and scripts/soak_responder.py, which    *)
(* answers at once. Both loops pump, play and, after a quiet while, nudge.    *)
(* The rules are left open: any move may end the game. What GamePeer proves  *)
(* of the protocol is used: the sides' logs are one game, the one who moved   *)
(* last at most one ply ahead. Messages are of the runner's current game;     *)
(* each is received once, lost, or sent again by a nudge.                    *)
(***************************************************************************)
EXTENDS Integers

CONSTANTS GameCap,        \* game_cap
          PlyCap,         \* ply_cap
          MinInterval,    \* min_interval_s, in ticks
          NudgeAfter,     \* NUDGE_AFTER_S, in ticks
          MaxLosses       \* bound on messages lost

ASSUME SoakAssumption ==
  /\ {GameCap, PlyCap, MinInterval, NudgeAfter, MaxLosses} \subseteq Nat
  /\ MinInterval <= NudgeAfter   \* 60 and 120: on its turn the runner moves, not nudges

VARIABLES entry,      \* the runner's game: its status, "none" where gid is None
          answer,     \* the responder's entry of that game
          plies,      \* plies[side]: length of that side's log of it
          ended,      \* the longer log has come to an end by the rules
          wire,       \* messages in flight
          games,      \* games_started
          results,    \* how many results the runner has noted
          done,       \* SoakRunner.done
          paced,      \* ticks since the last of move_times; MinInterval before one
          quiet,      \* quiet[side]: ticks since that loop's last_traffic
          stray,      \* the responder still has an older game open
          losses      \* messages lost so far

soakVars == <<entry, answer, plies, ended, wire, games, results, done, paced, quiet, stray, losses>>

Party == {"runner", "responder"}

Invite == [t |-> "INVITE", to |-> "responder"]
Accept == [t |-> "ACCEPT", to |-> "runner"]
Resignation == [t |-> "RESIGN", to |-> "responder"]
MoveTo(side, ply) == [t |-> "MOVE", to |-> side, ply |-> ply]
(* A repetition for an older game: it changes nothing but counts as traffic. *)
Stray == [t |-> "STRAY", to |-> "runner"]

SoakInit ==
  /\ entry = "none" /\ answer = "none"
  /\ plies = [p \in Party |-> 0] /\ ended = FALSE
  /\ wire = {}
  /\ games = 0 /\ results = 0 /\ done = FALSE
  /\ paced = MinInterval
  /\ quiet = [p \in Party |-> 0]
  /\ stray = FALSE /\ losses = 0

-----------------------------------------------------------------------------
(* SoakRunner.step                                                         *)

Traffic(p) == quiet' = [quiet EXCEPT ![p] = 0]

(* What becomes of the game left behind: it is still open at the responder    *)
(* if the message that ended it was lost, or is lost now.                   *)
LeaveBehind ==
  LET open == answer = "playing"
      coming == \E m \in wire : m.to = "responder"
  IN  \/ stray' = (stray \/ (open /\ ~coming)) /\ UNCHANGED losses
      \/ /\ open /\ coming /\ losses < MaxLosses
         /\ stray' = TRUE /\ losses' = losses + 1

(* A finished game is noted; then the next invitation, or the end.          *)
StepNextGame ==
  /\ ~done /\ entry \in {"none", "finished"}
  /\ results' = results + (IF entry = "finished" THEN 1 ELSE 0)
  /\ IF games >= GameCap
     THEN /\ done' = TRUE /\ entry' = "none"
          /\ UNCHANGED <<answer, plies, ended, wire, games, quiet, stray, losses>>
     ELSE /\ entry' = "invited_out" /\ answer' = "none"
          /\ plies' = [p \in Party |-> 0] /\ ended' = FALSE
          /\ wire' = {Invite}
          /\ games' = games + 1
          /\ LeaveBehind
          /\ Traffic("runner")
          /\ UNCHANGED done
  /\ UNCHANGED paced

OnTurn == entry = "playing" /\ plies["runner"] % 2 = 0
Paced == paced >= MinInterval

StepResign ==
  /\ ~done /\ OnTurn /\ Paced
  /\ plies["runner"] >= PlyCap
  /\ entry' = "finished"
  /\ wire' = wire \cup {Resignation}
  /\ paced' = 0 /\ Traffic("runner")
  /\ UNCHANGED <<answer, plies, ended, games, results, done, stray, losses>>

(* Mutant of StepMove: the cap is only looked at once it has been passed.   *)
StepMovePastCap ==
  /\ ~done /\ OnTurn /\ Paced
  /\ plies["runner"] <= PlyCap
  /\ plies' = [plies EXCEPT !["runner"] = @ + 1]
  /\ wire' = wire \cup {MoveTo("responder", plies["runner"])}
  /\ ended' \in BOOLEAN
  /\ entry' = IF ended' THEN "finished" ELSE "playing"
  /\ paced' = 0 /\ Traffic("runner")
  /\ UNCHANGED <<answer, games, results, done, stray, losses>>

StepMove ==
  /\ ~done /\ OnTurn /\ Paced
  /\ plies["runner"] < PlyCap
  /\ plies' = [plies EXCEPT !["runner"] = @ + 1]
  /\ wire' = wire \cup {MoveTo("responder", plies["runner"])}
  /\ ended' \in BOOLEAN
  /\ entry' = IF ended' THEN "finished" ELSE "playing"
  /\ paced' = 0 /\ Traffic("runner")
  /\ UNCHANGED <<answer, games, results, done, stray, losses>>

-----------------------------------------------------------------------------
(* pump: one message to the GamePeer of its addressee. Whatever it is, the   *)
(* loop counts it as traffic.                                               *)

Pumped(m) == m \in wire /\ Traffic(m.to)

RunnerAccepted ==
  /\ Pumped(Accept) /\ wire' = wire \ {Accept}
  /\ entry' = IF entry = "invited_out" THEN "playing" ELSE entry
  /\ UNCHANGED <<answer, plies, ended, games, results, done, paced, stray, losses>>

ResponderInvited ==
  /\ Pumped(Invite)
  /\ answer' = IF answer = "none" THEN "playing" ELSE answer
  /\ wire' = (wire \ {Invite}) \cup (IF answer = "finished" THEN {} ELSE {Accept})
  /\ UNCHANGED <<entry, plies, ended, games, results, done, paced, stray, losses>>

ResponderResigned ==
  /\ Pumped(Resignation) /\ wire' = wire \ {Resignation}
  /\ answer' = "finished"
  /\ UNCHANGED <<entry, plies, ended, games, results, done, paced, stray, losses>>

(* _h_move: applied where it is the next ply, silence for a duplicate.      *)
StatusOf(p) == IF p = "runner" THEN entry ELSE answer

MoveReceived(p) ==
  \E m \in wire :
    /\ m.t = "MOVE" /\ m.to = p /\ Pumped(m)
    /\ wire' = wire \ {m}
    /\ LET fresh == StatusOf(p) = "playing" /\ m.ply = plies[p]
           status == IF fresh /\ ended THEN "finished" ELSE StatusOf(p)
       IN  /\ plies' = IF fresh THEN [plies EXCEPT ![p] = @ + 1] ELSE plies
           /\ IF p = "runner" THEN entry' = status /\ UNCHANGED answer
                              ELSE answer' = status /\ UNCHANGED entry
    /\ UNCHANGED <<ended, games, results, done, paced, stray, losses>>

StrayReceived ==
  /\ Pumped(Stray) /\ wire' = wire \ {Stray}
  /\ UNCHANGED <<entry, answer, plies, ended, games, results, done, paced, stray, losses>>

-----------------------------------------------------------------------------
(* The loops of the two scripts                                            *)

ResponderMoves ==
  /\ answer = "playing" /\ plies["responder"] % 2 = 1
  /\ plies' = [plies EXCEPT !["responder"] = @ + 1]
  /\ wire' = wire \cup {MoveTo("runner", plies["responder"])}
  /\ ended' \in BOOLEAN
  /\ answer' = IF ended' THEN "finished" ELSE "playing"
  /\ Traffic("responder")
  /\ UNCHANGED <<entry, games, results, done, paced, stray, losses>>

(* nudge, off turn: the INVITE or the last MOVE again.                      *)
RunnerNudges ==
  /\ ~done /\ quiet["runner"] > NudgeAfter
  /\ \/ entry = "invited_out" /\ wire' = wire \cup {Invite}
     \/ /\ entry = "playing" /\ ~OnTurn
        /\ wire' = wire \cup {MoveTo("responder", plies["runner"] - 1)}
  /\ Traffic("runner")
  /\ UNCHANGED <<entry, answer, plies, ended, games, results, done, paced, stray, losses>>

(* Mutant of ResponderNudges: the loop nudges only where it is to move.     *)
ResponderNudgesOnTurn ==
  /\ quiet["responder"] > NudgeAfter
  /\ Traffic("responder")
  /\ UNCHANGED <<entry, answer, plies, ended, wire, games, results, done, paced, stray, losses>>

(* Every game still playing, the older one included.                        *)
ResponderNudges ==
  /\ quiet["responder"] > NudgeAfter
  /\ wire' = wire
       \cup (IF answer = "playing" /\ plies["responder"] % 2 = 0 /\ plies["responder"] > 0
             THEN {MoveTo("runner", plies["responder"] - 1)} ELSE {})
       \cup (IF stray THEN {Stray} ELSE {})
  /\ Traffic("responder")
  /\ UNCHANGED <<entry, answer, plies, ended, games, results, done, paced, stray, losses>>

-----------------------------------------------------------------------------
(* The network and the clock                                               *)

Lose ==
  /\ losses < MaxLosses
  /\ \E m \in wire : wire' = wire \ {m}
  /\ losses' = losses + 1
  /\ UNCHANGED <<entry, answer, plies, ended, games, results, done, paced, quiet, stray>>

Counted(n, limit) == IF n < limit THEN n + 1 ELSE n

Tick ==
  /\ ~done
  /\ paced' = Counted(paced, MinInterval)
  /\ quiet' = [p \in Party |-> Counted(quiet[p], NudgeAfter + 1)]
  /\ UNCHANGED <<entry, answer, plies, ended, wire, games, results, done, stray, losses>>

Step == StepNextGame \/ StepResign \/ StepMove

Pump == RunnerAccepted \/ ResponderInvited \/ ResponderResigned \/ StrayReceived
        \/ \E p \in Party : MoveReceived(p)

SoakNext == Step \/ Pump \/ ResponderMoves \/ RunnerNudges \/ ResponderNudges \/ Lose \/ Tick

SoakSpec == SoakInit /\ [][SoakNext]_soakVars

(* The loops come round five times a second, and what is in flight arrives   *)
(* or is lost. A nudge is prevented again and again by the other side's       *)
(* arriving first; strong fairness says this does not go on for ever, the     *)
(* two periods and the link's delays not being in step.                      *)
SoakFairness ==
  /\ WF_soakVars(Step) /\ WF_soakVars(ResponderMoves) /\ WF_soakVars(Tick)
  /\ WF_soakVars(RunnerAccepted) /\ WF_soakVars(ResponderInvited)
  /\ WF_soakVars(ResponderResigned) /\ WF_soakVars(StrayReceived)
  /\ \A p \in Party : WF_soakVars(MoveReceived(p))
  /\ SF_soakVars(RunnerNudges) /\ SF_soakVars(ResponderNudges)

FairSoakSpec == SoakSpec /\ SoakFairness

(* No game goes beyond ply_cap by more than the reply to the runner's last    *)
(* move, and by none at all where the cap is even: the cap is looked at on    *)
(* the runner's turn only.                                                  *)
CapHolds == \A p \in Party : plies[p] <= PlyCap + (PlyCap % 2)

(* The responder's winning MOVE was lost: nobody nudges a finished game.     *)
WinLost ==
  /\ entry = "playing" /\ answer = "finished"
  /\ \A m \in wire : m.t = "MOVE" => m.to # "runner"

(* Every game the runner starts is noted once, and the soak ends with as     *)
(* many results as game_cap asks for.                                       *)
SoakEnds == <>(done /\ results = GameCap /\ games = GameCap)

(* A lost INVITE, ACCEPT or MOVE is made good by a nudge of the two loops.    *)
(* The exceptions are the message that ends a game: a winning reply that was  *)
(* lost, and a game left open at the responder, whose repetitions keep the    *)
(* runner from ever being quiet long enough to nudge.                        *)
LossIsMadeGood == SoakEnds \/ <>(WinLost \/ stray)
=============================================================================
