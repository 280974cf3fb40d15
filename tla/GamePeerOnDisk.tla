--------------------------- MODULE GamePeerOnDisk ---------------------------
(***************************************************************************)
(* GamePeer with the log files its sessions write. GamePeer takes an append *)
(* to be all or nothing; here a crash can interrupt it anywhere, and        *)
(* resume_all works from what MoveLog.load makes of the file. A file load   *)
(* refuses (LogCorrupt, which resume_all does not catch) leaves its peer    *)
(* down for good.                                                           *)
(***************************************************************************)
EXTENDS GamePeer

CONSTANT Garbage

(* Garbage is no JSON value, so it is no line that append_to completes.     *)
ASSUME GarbageAssumption == Garbage \notin [ply : Nat, m : Move]

VARIABLES file,   \* file[p]: the log file of p's game (empty before there is one)
          down,   \* the peers that cannot start any more
          lost    \* history: a restart came back without a move whose append
                  \* had completed

diskVars == <<vars, file, down, lost>>

Log == INSTANCE MoveLog

DiskInit ==
  /\ Init
  /\ file = [p \in Peer |-> Log!Dump(<<>>)]
  /\ down = {}
  /\ lost = FALSE

(* Session._append: a move added to the log is added to the file.          *)
FileAppended(p) ==
  file' = IF log'[p] = log[p] THEN file
          ELSE [file EXCEPT ![p] =
                  Log!AppendTo(@, Len(log[p]), Last(log'[p]))]

(* Mutant of FileDumped: only a new game writes the file.                   *)
FileCreated(p) ==
  file' = IF session'[p] = session[p] THEN file
          ELSE [file EXCEPT ![p] = Log!Dump(log'[p])]

(* A log that begins or is adopted is dumped.                              *)
FileDumped(p) ==
  file' = IF log'[p] = log[p] /\ session'[p] = session[p] THEN file
          ELSE [file EXCEPT ![p] = Log!Dump(log'[p])]

(* resume_all on the file f, which n completed appends and dumps made.      *)
Resume(p, f, n) ==
  /\ file' = [file EXCEPT ![p] = f]
  /\ IF Log!Loads(f)
     THEN /\ log' = [log EXCEPT ![p] = Log!Load(f)]
          /\ down' = down
          /\ lost' = (lost \/ Len(log'[p]) < n)
     ELSE /\ down' = down \cup {p}
          /\ lost' = TRUE
          /\ UNCHANGED log

DiskRestart(p) ==
  /\ p \notin down /\ status[p] # "none"
  /\ Crash(p)
  /\ Resume(p, file[p], Len(log[p]))
  /\ UNCHANGED <<session, net>>

(* The crash falls inside append_to: nothing is sent, no outcome recorded.  *)
CrashAppending(p, m) ==
  /\ p \notin down
  /\ \/ MayPlay(p, m)
     \/ \E msg \in Inbox(p, "MOVE") :
          /\ Playing(p) /\ msg.move = m
          /\ ~ OutOfTurn(p, msg) /\ Applies(Verdict(log[p], msg))
  /\ Crash(p)
  /\ \E f \in Log!Interrupted(file[p], Len(log[p]), m) :
       Resume(p, f, Len(log[p]))
  /\ UNCHANGED <<session, net>>

(* Mutant of CrashAfterSend: the MOVE goes out before the append.           *)
CrashAfterEarlySend(p, m) ==
  /\ p \notin down /\ MayPlay(p, m)
  /\ Send({MoveMsg(p, log[p], m)})
  /\ Crash(p)
  /\ Resume(p, file[p], Len(log[p]))
  /\ UNCHANGED session

(* The append completed and the MOVE is out, but the outcome is not         *)
(* recorded.                                                                *)
CrashAfterSend(p, m) ==
  /\ p \notin down /\ MayPlay(p, m)
  /\ Send({MoveMsg(p, log[p], m)})
  /\ Crash(p)
  /\ Resume(p, Log!AppendTo(file[p], Len(log[p]), m), Len(log[p]) + 1)
  /\ UNCHANGED session

Running(p) == p \notin down /\ UNCHANGED <<down, lost>>

DiskUserStep(p) == Running(p) /\ UserStep(p) /\ FileAppended(p)
DiskReceiveStep(p) == Running(p) /\ ReceiveStep(p) /\ FileAppended(p)
DiskReceiveLog(p) == Running(p) /\ ReceiveLog(p) /\ FileDumped(p)
DiskReceiveReject(p) == Running(p) /\ ReceiveReject(p) /\ UNCHANGED file

DiskNext ==
  \E p \in Peer :
    \/ DiskUserStep(p)
    \/ DiskReceiveStep(p)
    \/ DiskReceiveLog(p)
    \/ DiskReceiveReject(p)
    \/ DiskRestart(p)
    \/ \E m \in Move : CrashAppending(p, m) \/ CrashAfterSend(p, m)

DiskSpec == DiskInit /\ [][DiskNext]_diskVars

-----------------------------------------------------------------------------
(* Everything GamePeer promises holds on real files until a file loses a    *)
(* completed move: an interrupted append alone costs the protocol nothing.  *)
SafeUntilLost ==
  ~ lost => /\ OneHistory /\ LeadAtMostOne
            /\ NoFalseAccusation /\ MessagesTruthful

(* Whatever the files lost and however far the logs diverged, a peer's log  *)
(* is a legal game: apply_wire_move and adopt_log let nothing else in, so   *)
(* resume can always replay what it loads.                                  *)
LogsReplay == \A p \in Peer : Replays(log[p])

(* While a peer runs its log never gets shorter: a resync can replace a     *)
(* diverged history only by a strictly longer one. Only a restart loses     *)
(* moves.                                                                   *)
ShrinksOnlyAtRestart ==
  [][restarts' = restarts =>
       \A p \in Peer : Len(log'[p]) >= Len(log[p])]_diskVars

(* An undamaged file reads back as the log in memory.                       *)
CleanFileIsLog ==
  \A p \in Peer \ down :
    (\A i \in 1..Len(file[p].lines) : file[p].lines[i] # Garbage) =>
      Log!Loads(file[p]) /\ Log!Load(file[p]) = log[p]

(* log.py: a crash mid-append corrupts at most the interrupted line. A move *)
(* whose append completed is still there after any restart.                 *)
CompletedMovesSurvive == ~ lost
=============================================================================
