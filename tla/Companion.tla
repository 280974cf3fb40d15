----------------------------- MODULE Companion ------------------------------
(***************************************************************************)
(* The node playing host to a phone that holds nothing: companion/host.py,  *)
(* with what companion/parse.py makes of a text and the kind of reply of    *)
(* companion/reply.py. Games are kept by phone and phones share nothing but *)
(* the directory resume_all reads, so one phone is modelled.                *)
(*                                                                         *)
(* Texts are handled one at a time (pump and the bot run on the main loop). *)
(* What interrupts one is a crash, or a write that raises: on_text catches  *)
(* that, says so, and goes on with what is in memory. Either can fall       *)
(* before any of the writes the text causes. An append writes its line or   *)
(* nothing here; GamePeerOnDisk has the torn ones.                          *)
(***************************************************************************)
EXTENDS Naturals, Sequences, SequencesExt

CONSTANTS
  Text,            \* what the phone can send
  Kind(_),         \* Kind(t): parse_input(t).kind
  Names(_),        \* Names(t): a PLAY that says which game (arg # "")
  MoveOf(_, _),    \* MoveOf(h, t): {parse_move of t after h}, {} if it raises
  Move, Legal(_, _), WinnerOf(_),  \* the game, as in GamePeer
  Garbage,         \* a line that is no move (see MoveLog)
  MaxGames,        \* bound on the games the phone starts
  MaxFaults,       \* bound on crashes and failed writes together
  MayFail          \* BOOLEAN: may a write raise

Cmd == {"HELP", "RULES", "BOARD", "RESIGN", "PLAY", "TEXT"}
Gid == 1..MaxGames   \* in the order resume_all sorts them

Log == INSTANCE MoveLog

MoveLines == [ply : Nat, m : Move]

ASSUME CompanionAssumption ==
  /\ \A t \in Text : Kind(t) \in Cmd /\ Names(t) \in BOOLEAN
  /\ {MaxGames, MaxFaults} \subseteq Nat /\ MayFail \in BOOLEAN
  /\ Garbage \notin MoveLines

(* "" stands for no text at all; no game is over before it begins.          *)
ASSUME TextAssumption == "" \notin Text
ASSUME OpeningAssumption == WinnerOf(<<>>) = "none"

VARIABLES
  live,     \* games[phone]: the CompanionGame of the phone; gid 0 if none
  file,     \* file[g]: the log file of game g (a MoveLog file, or NoFile)
  meta,     \* meta[g]: the meta file of game g, or NoMeta
  answer,   \* the text answered last and the kind of reply it got
  up,       \* the host runs (resume_all did not raise)
  failed,   \* history: a write has raised
  faults    \* crashes and failed writes so far (of the model)

vars == <<live, file, meta, answer, up, failed, faults>>

(* A CompanionGame: log is session.log, state the moves session.state       *)
(* reflects; they differ only after a failed append.                        *)
Game(g, h, fin, res) ==
  [gid |-> g, log |-> h, state |-> h, finished |-> fin, result |-> res]
NoGame == Game(0, <<>>, FALSE, "")

NoFile == [lines |-> <<>>, nl |-> FALSE]
NoMeta == [finished |-> FALSE, result |-> "none"]
MetaOf(g) == [finished |-> g.finished, result |-> g.result]

(* human_turn, the human having the first seat in every game.              *)
human_turn(g) == Len(g.log) % 2 = 0
Over(g) == WinnerOf(g.state) # "none"

is_move(g, t) == human_turn(g) /\ MoveOf(g.state, t) # {}

-----------------------------------------------------------------------------
(* What an operation does is a function of the configuration: memory and    *)
(* the two kinds of files. ...Stops is every configuration in which a write *)
(* of the operation can raise, or fall to a crash.                          *)

Now == [live |-> live, file |-> file, meta |-> meta]
Become(c) == live' = c.live /\ file' = c.file /\ meta' = c.meta

(* append_to: to memory, then to the file; the session's state follows.     *)
InMemory(c, m) == [c EXCEPT !.live.log = Append(@, m)]
OnFileLatePly(c, m) ==   \* mutant of OnFile: the ply after the append
  [c EXCEPT !.file[c.live.gid] = Log!AppendTo(@, Len(c.live.log) + 1, m)]
OnFile(c, m) ==
  [c EXCEPT !.file[c.live.gid] = Log!AppendTo(@, Len(c.live.log), m)]
AppendStops(c, m) == {InMemory(c, m), InMemory(OnFile(c, m), m)}

(* apply_local_move of a legal move.                                        *)
Moved(c, m) ==
  [InMemory(OnFile(c, m), m) EXCEPT !.live.state = Append(@, m)]

Persisted(c) == [c EXCEPT !.meta[c.live.gid] = MetaOf(c.live)]

(* _finish: Ended, then persisted.                                          *)
Ended(c, r) == [c EXCEPT !.live.finished = TRUE, !.live.result = r]

(* Mutant of Finished: nothing is persisted.                                *)
FinishedInMemory(c, r) == Ended(c, r)

Finished(c, r) == Persisted(Ended(c, r))

BotMoves(c) == {b \in Move : Legal(c.live.state, b)}

(* Mutant of Round: the bot is not asked.                                   *)
HumanOnly(c, m) == {Moved(c, m)}

(* _text with the move m: the human's move, then the bot's (any legal one,  *)
(* a failing engine being replaced by RandomPlayer), each of which may end  *)
(* the game. Ply parity hands the turn back after one bot move.             *)
Round(c, m) ==
  LET h == Moved(c, m)
  IN  IF Over(h.live) THEN {h} ELSE {Moved(h, b) : b \in BotMoves(h)}

Settled(c) == IF Over(c.live) THEN Finished(c, "rules") ELSE c

RoundStops(c, m) ==
  LET h == Moved(c, m)
  IN  AppendStops(c, m)
      \cup (IF Over(h.live) THEN {}
            ELSE UNION {AppendStops(h, b) : b \in BotMoves(h)})
      \cup {Ended(d, "rules") : d \in {x \in Round(c, m) : Over(x.live)}}

(* _start of game g: its log is dumped, it becomes the phone's game, its    *)
(* meta file is written.                                                    *)
Created(c, g) ==
  [c EXCEPT !.live = Game(g, <<>>, FALSE, ""), !.file[g] = Log!Dump(<<>>)]
Started(c, g) == Persisted(Created(c, g))

StartStops(c, g) == {c, Created(c, g)}

-----------------------------------------------------------------------------
(* _handle: which texts do what. Each is on_text to its end.                *)

HasGame == live.gid # 0
Playing == HasGame /\ ~ live.finished

Reply(t, says) == answer' = [to |-> t, says |-> says]

(* The branches that only reply.                                            *)
Says(t) ==
  IF Kind(t) = "HELP" THEN "help"
  ELSE IF Kind(t) = "PLAY" /\ ~ (Playing /\ is_move(live, t))
    THEN "no game"    \* a PLAY that does not say which game
  ELSE IF ~ HasGame THEN "no game"
  ELSE IF Kind(t) = "RULES" THEN "rules"
  ELSE IF live.finished THEN "over"
  ELSE IF Kind(t) = "BOARD" /\ human_turn(live) THEN "your move"
  ELSE IF Kind(t) = "BOARD" THEN "thinking"
  ELSE IF ~ human_turn(live) THEN "still my move"
  ELSE IF MoveOf(live.state, t) = {} THEN "not a move"
  ELSE "error"   \* apply_local_move raised

(* Mutant of Starts: PLAY is looked at before the position.                 *)
StartsFirst(t) == Kind(t) = "PLAY" /\ Names(t)

(* What changes the game.                                                   *)
Starts(t) ==
  Kind(t) = "PLAY" /\ Names(t) /\ ~ (Playing /\ is_move(live, t))

Resigns(t) == Kind(t) = "RESIGN" /\ Playing

(* The move apply_local_move takes, if it does not raise. Mutant: a move is *)
(* taken as it is parsed.                                                   *)
AsParsed(t) == MoveOf(live.state, t)

Accepted(t) ==
  {m \in Move : /\ m \in MoveOf(live.state, t)
               /\ ~ Over(live) /\ Legal(live.state, m)}

Moves(t) ==
  /\ Kind(t) \in {"PLAY", "TEXT"}
  /\ Playing /\ human_turn(live) /\ Accepted(t) # {}

Start(t) ==
  /\ up /\ Starts(t)
  /\ \E g \in {x \in Gid : file[x] = NoFile} : Become(Started(Now, g))
  /\ Reply(t, "your move")
  /\ UNCHANGED <<up, failed, faults>>

Resign(t) ==
  /\ up /\ Resigns(t)
  /\ Become(Finished(Now, "resign"))
  /\ Reply(t, "over")
  /\ UNCHANGED <<up, failed, faults>>

Play(t) ==
  /\ up /\ Moves(t)
  /\ \E m \in Accepted(t) : \E c \in Round(Now, m) :
       /\ Become(Settled(c))
       /\ Reply(t, IF Over(c.live) THEN "over" ELSE "your move")
  /\ UNCHANGED <<up, failed, faults>>

JustReply(t) ==
  /\ up /\ ~ Starts(t) /\ ~ Resigns(t) /\ ~ Moves(t)
  /\ Reply(t, Says(t))
  /\ UNCHANGED <<live, file, meta, up, failed, faults>>

(* Where the writes a text causes can stop.                                 *)
Stops(t) ==
  IF Starts(t)
    THEN UNION {StartStops(Now, g) : g \in {x \in Gid : file[x] = NoFile}}
  ELSE IF Resigns(t) THEN {Ended(Now, "resign")}
  ELSE IF Moves(t) THEN UNION {RoundStops(Now, m) : m \in Accepted(t)}
  ELSE {}

(* A write raised: on_text apologises and goes on with what is in memory.   *)
WriteFails(t) ==
  /\ up /\ MayFail /\ faults < MaxFaults
  /\ \E c \in Stops(t) : Become(c)
  /\ Reply(t, "error")
  /\ failed' = TRUE
  /\ faults' = faults + 1
  /\ UNCHANGED up

-----------------------------------------------------------------------------
(* resume_all: games in the order of the sorted meta files, those without a *)
(* log skipped, the last one winning; a log that cannot be read raises.     *)
(* (Mutant: every log is a game to resume.)                                 *)
EveryLog(f, mt) == {g \in Gid : f[g] # NoFile}

Resumable(f, mt) == {g \in Gid : mt[g] # NoMeta /\ f[g] # NoFile}

(* Mutant of Resumed: a meta file's ending is not read.                     *)
ResumedOpen(f, mt) ==
  LET G == Resumable(f, mt)
      Latest == {g \in G : \A x \in G : x <= g}
  IN  IF G = {} THEN {NoGame}
      ELSE {Game(g, Log!Load(f[g]), FALSE, "") : g \in Latest}

(* The one game the phone is left with.                                     *)
Resumed(f, mt) ==
  LET G == Resumable(f, mt)
      Latest == {g \in G : \A x \in G : x <= g}
  IN  IF G = {} THEN {NoGame}
      ELSE {Game(g, Log!Load(f[g]), mt[g].finished, mt[g].result) : g \in Latest}

(* A log must load, and replay move by move.                                *)
Replays(h) == \A i \in 1..Len(h) : Legal(SubSeq(h, 1, i - 1), h[i])
Readable(f) == Log!Loads(f) /\ Replays(Log!Load(f))

Restarted(f, mt) ==
  /\ file' = f /\ meta' = mt
  /\ up' = (\A g \in Resumable(f, mt) : Readable(f[g]))
  /\ live' \in IF up' THEN Resumed(f, mt) ELSE {NoGame}
  /\ answer' = [to |-> "", says |-> ""]
  /\ faults < MaxFaults /\ faults' = faults + 1
  /\ UNCHANGED failed

(* The host is stopped between texts, or dies answering one.                *)
Restart == up /\ Restarted(file, meta)
CrashIn(t) == up /\ \E c \in Stops(t) : Restarted(c.file, c.meta)

Init ==
  /\ live = NoGame
  /\ file = [g \in Gid |-> NoFile]
  /\ meta = [g \in Gid |-> NoMeta]
  /\ answer = [to |-> "", says |-> ""]
  /\ up = TRUE
  /\ failed = FALSE
  /\ faults = 0

Next ==
  \/ Restart
  \/ \E t \in Text :
       \/ Start(t) \/ Resign(t) \/ Play(t) \/ JustReply(t)
       \/ WriteFails(t) \/ CrashIn(t)

Spec == Init /\ [][Next]_vars

-----------------------------------------------------------------------------
(* Types of all variables.                                                  *)
Replies == {"", "help", "no game", "rules", "over", "your move", "thinking",
            "still my move", "not a move", "error"}

Games == [gid : 0..MaxGames, log : Seq(Move), state : Seq(Move),
          finished : BOOLEAN, result : {"", "rules", "resign"}]
Files == [lines : Seq(MoveLines), nl : {TRUE}] \cup {NoFile}
Metas == [finished : BOOLEAN, result : {"", "rules", "resign"}] \cup {NoMeta}

TypeOK ==
  /\ live \in Games /\ file \in [Gid -> Files] /\ meta \in [Gid -> Metas]
  /\ answer \in [to : Text \cup {""}, says : Replies]
  /\ up \in BOOLEAN /\ failed \in BOOLEAN
  /\ faults \in 0..MaxFaults

(* However a text was cut short by crashes, and whatever was brought back   *)
(* after them, the game in memory is what its two files say, and the host   *)
(* can always start again: every log it will read is a legal game. (Only    *)
(* until a write raises: then memory may hold a move no file has.)          *)
MemoryIsDisk ==
  ~ failed =>
    /\ up
    /\ \A g \in Resumable(file, meta) : Readable(file[g])
    /\ HasGame => /\ live.log = live.state
                  /\ Log!Load(file[live.gid]) = live.log
                  /\ meta[live.gid] = MetaOf(live)

(* The inductive invariant: the current game has a file; until a write      *)
(* raises, every file is the dump of a legal game (also one no meta file    *)
(* names yet), and memory is what the files of its game say.                *)
Dumped(f) ==
  LET h == Log!Load(f)
  IN  h \in Seq(Move) /\ Replays(h) /\ f = Log!Dump(h)

Sound ==
  /\ up
  /\ \A g \in Gid : file[g] # NoFile => Dumped(file[g])
  /\ HasGame => /\ live.log = live.state /\ Replays(live.log)
                /\ file[live.gid] = Log!Dump(live.log)
                /\ meta[live.gid] = MetaOf(live)

IInv ==
  /\ TypeOK
  /\ HasGame => file[live.gid] # NoFile
  /\ ~ failed => Sound

(* What is on disk only moves on: a log is only appended to and, once a     *)
(* game is recorded as over, neither of its files ever changes again, also  *)
(* when a restart brings that game back and the phone goes on typing.       *)
DiskOnlyMovesOn ==
  [][\A g \in Gid :
       /\ IsPrefix(file[g].lines, file'[g].lines)
       /\ meta[g].finished => file'[g] = file[g] /\ meta'[g] = meta[g]]_vars

(* The position the phone plays on is always one of the game, even after    *)
(* failed writes made it another one than the log's.                        *)
StateIsLegal == Replays(live.state)

(* As long as nothing goes wrong the bot hands the move back after every    *)
(* text, and a game the rules ended is recorded as ended. (One crash        *)
(* between the two appends of a text, and neither is so for ever.)          *)
TurnComesBack ==
  faults = 0 /\ Playing => human_turn(live) /\ ~ Over(live)

(* The inductive invariant of what happens between host and phone, on top   *)
(* of IInv: a meta file is never ahead of its log, and never says of the    *)
(* current game that it is over while memory says it is not.                *)
MetaBehind ==
  /\ \A g \in Gid : file[g] = NoFile => ~ meta[g].finished
  /\ HasGame /\ meta[live.gid].finished => live.finished

FailuresAreFaults == failed => faults > 0

PhoneInv ==
  /\ IInv
  /\ StateIsLegal
  /\ MetaBehind
  /\ FailuresAreFaults
  /\ TurnComesBack

(* A text the position takes as the human's move never starts another game, *)
(* though it may name one ("c4").                                           *)
LegalSquareIsPlayed ==
  [][Playing /\ answer'.to \in Text /\ live'.gid # live.gid
       => ~ is_move(live, answer'.to)]_vars

(* host.py: "if this node forgets, the game is gone - which is why it       *)
(* writes". After a restart the phone is in the game it was in.             *)
CurrentGameComesBack ==
  [][Restart => live'.gid = live.gid]_vars
=============================================================================
