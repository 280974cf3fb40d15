-------------------------- MODULE Companion_proofs --------------------------
(***************************************************************************)
(* Theorems about Companion, for every game, every set of texts and any     *)
(* number of games, crashes and failed writes.                              *)
(***************************************************************************)
EXTENDS Companion, TLAPS

-----------------------------------------------------------------------------
(* Log files                                                               *)

LEMMA Line ==
  ASSUME NEW n \in Nat, NEW m \in Move
  PROVE  /\ Log!MoveLine(n, m) \in MoveLines
         /\ Log!MoveLine(n, m) # Garbage
         /\ Log!MoveLine(n, m).ply = n /\ Log!MoveLine(n, m).m = m
BY CompanionAssumption DEF Log!MoveLine, MoveLines

LEMMA DumpFile ==
  ASSUME NEW h \in Seq(Move)
  PROVE  /\ Log!Dump(h) \in Files /\ Log!Dump(h) # NoFile
         /\ Log!Dump(h).lines \in Seq(MoveLines)
<1>1. [i \in 1..Len(h) |-> Log!MoveLine(i - 1, h[i])] \in Seq(MoveLines)
  <2>1. \A i \in 1..Len(h) : Log!MoveLine(i - 1, h[i]) \in MoveLines
    BY Line
  <2> QED BY <2>1
<1> QED BY <1>1 DEF Log!Dump, Files, NoFile

(* What load makes of lines that are all moves, in order.                   *)
LEMMA LoadWhole ==
  ASSUME NEW f, NEW l \in Seq(MoveLines), f.lines = l,
         NEW h \in Seq(Move), Len(l) = Len(h),
         \A i \in 1..Len(h) : l[i] = Log!MoveLine(i - 1, h[i])
  PROVE  Log!Loads(f) /\ Log!Load(f) = h
<1>1. \A i \in 1..Len(l) : /\ l[i] # Garbage
                          /\ l[i].ply = i - 1 /\ l[i].m = h[i]
  BY Line
<1>2. Log!Parsed(f) = l
  <2>1. l # <<>> => Len(l) \in 1..Len(l)
    OBVIOUS
  <2>2. l # <<>> => Log!Last(l) # Garbage
    BY <1>1, <2>1 DEF Log!Last
  <2> QED BY <2>2 DEF Log!Parsed
<1>3. Log!Loads(f)
  BY <1>1, <1>2 DEF Log!Loads
<1>4. Log!Load(f) = [i \in 1..Len(h) |-> h[i]]
  BY <1>1, <1>2 DEF Log!Load
<1> QED BY <1>3, <1>4

LEMMA LoadDump ==
  ASSUME NEW h \in Seq(Move)
  PROVE  Log!Loads(Log!Dump(h)) /\ Log!Load(Log!Dump(h)) = h
<1> DEFINE l == Log!Dump(h).lines
<1>1. /\ Len(l) = Len(h)
      /\ \A i \in 1..Len(h) : l[i] = Log!MoveLine(i - 1, h[i])
  BY DEF Log!Dump
<1>2. l \in Seq(MoveLines)
  BY DumpFile
<1> QED BY <1>1, <1>2, LoadWhole

LEMMA AppendDump ==
  ASSUME NEW h \in Seq(Move), NEW m \in Move
  PROVE  Log!AppendTo(Log!Dump(h), Len(h), m) = Log!Dump(Append(h, m))
<1> DEFINE l == Log!Dump(h).lines
           k == Log!Dump(Append(h, m)).lines
<1>1. Append(l, Log!MoveLine(Len(h), m)) = k
  BY DEF Log!Dump
<1> QED BY <1>1 DEF Log!AppendTo, Log!Write, Log!Dump

(* Appending to any log file gives another one.                             *)
LEMMA AppendFile ==
  ASSUME NEW f \in Files, f # NoFile, NEW n \in Nat, NEW m \in Move
  PROVE  Log!AppendTo(f, n, m) \in Files /\ Log!AppendTo(f, n, m) # NoFile
<1>1. f \in [lines : Seq(MoveLines), nl : {TRUE}]
  BY DEF Files
<1>2. Append(f.lines, Log!MoveLine(n, m)) \in Seq(MoveLines)
  BY <1>1, Line
<1>3. Log!AppendTo(f, n, m) =
        [lines |-> Append(f.lines, Log!MoveLine(n, m)), nl |-> TRUE]
  BY <1>1 DEF Log!AppendTo, Log!Write
<1> QED BY <1>2, <1>3 DEF Files, NoFile

(* What loads is a sequence of moves.                                       *)
LEMMA LoadType ==
  ASSUME NEW f \in Files, Log!Loads(f)
  PROVE  Log!Load(f) \in Seq(Move)
<1> DEFINE l == Log!Parsed(f)
<1>1. l \in Seq(MoveLines)
  <2>1. f.lines \in Seq(MoveLines)
    <3>1. CASE f \in [lines : Seq(MoveLines), nl : {TRUE}]
      BY <3>1
    <3>2. CASE f = NoFile
      BY <3>2 DEF NoFile
    <3> QED BY <3>1, <3>2 DEF Files
  <2>2. f.lines # <<>> => Log!Front(f.lines) \in Seq(MoveLines)
    BY <2>1 DEF Log!Front
  <2> QED BY <2>1, <2>2 DEF Log!Parsed
<1>2. \A i \in 1..Len(l) : l[i].m \in Move
  <2>1. \A x \in MoveLines : x.m \in Move
    BY DEF MoveLines
  <2> QED BY <1>1, <2>1
<1> QED BY <1>1, <1>2 DEF Log!Load

LEMMA DumpedIs ==
  ASSUME NEW f
  PROVE  Dumped(f) <=> \E h \in Seq(Move) : Replays(h) /\ f = Log!Dump(h)
BY LoadDump DEF Dumped

LEMMA ReplaysAppend ==
  ASSUME NEW h \in Seq(Move), NEW m \in Move, Replays(h), Legal(h, m)
  PROVE  Replays(Append(h, m))
<1> DEFINE k == Append(h, m)
<1>1. /\ k \in Seq(Move) /\ Len(k) = Len(h) + 1 /\ k[Len(h) + 1] = m
      /\ \A i \in 1..Len(h) : k[i] = h[i]
  OBVIOUS
<1>2. \A i \in 1..Len(h) + 1 : SubSeq(k, 1, i - 1) = SubSeq(h, 1, i - 1)
  BY <1>1
<1>3. SubSeq(h, 1, Len(h)) = h
  OBVIOUS
<1>4. ASSUME NEW i \in 1..Len(k)
      PROVE  Legal(SubSeq(k, 1, i - 1), k[i])
  <2>1. CASE i \in 1..Len(h)
    BY <2>1, <1>1, <1>2 DEF Replays
  <2>2. CASE i = Len(h) + 1
    <3>1. SubSeq(k, 1, i - 1) = h
      BY <2>2, <1>2, <1>3, i \in 1..Len(h) + 1, Len(h) + 1 - 1 = Len(h)
    <3>2. k[i] = m
      BY <2>2, <1>1
    <3> QED BY <3>1, <3>2
  <2> QED BY <1>1, <2>1, <2>2
<1> QED BY <1>4 DEF Replays

-----------------------------------------------------------------------------
(* Configurations                                                          *)

Config == [live : Games, file : [Gid -> Files], meta : [Gid -> Metas]]

(* c is typed and its game has a file. Once it has a game it is InGame.     *)
Typed(c) == c \in Config /\ (c.live.gid # 0 => c.file[c.live.gid] # NoFile)
InGame(c) == Typed(c) /\ c.live.gid # 0

FilesSound(c) == \A g \in Gid : c.file[g] # NoFile => Dumped(c.file[g])

(* The parts of Sound: moves, and the meta file.                            *)
GameSound(c) ==
  c.live.gid # 0 => /\ c.live.log = c.live.state /\ Replays(c.live.log)
                    /\ c.file[c.live.gid] = Log!Dump(c.live.log)
MetaSound(c) == c.live.gid # 0 => c.meta[c.live.gid] = MetaOf(c.live)

LEMMA InGameGid ==
  ASSUME NEW c, InGame(c)
  PROVE  /\ c \in Config /\ c.live \in Games /\ c.live.gid \in Gid
         /\ c.file \in [Gid -> Files] /\ c.meta \in [Gid -> Metas]
         /\ c.file[c.live.gid] \in Files /\ c.file[c.live.gid] # NoFile
         /\ c.live.log \in Seq(Move) /\ c.live.state \in Seq(Move)
<1>1. c \in Config /\ c.live.gid # 0 /\ c.file[c.live.gid] # NoFile
  BY DEF InGame, Typed
<1>2. c.live \in Games /\ c.file \in [Gid -> Files] /\ c.meta \in [Gid -> Metas]
  BY <1>1 DEF Config
<1>3. /\ c.live.gid \in 0..MaxGames
      /\ c.live.log \in Seq(Move) /\ c.live.state \in Seq(Move)
  BY <1>2 DEF Games
<1>4. c.live.gid \in Gid
  <2>1. MaxGames \in Nat
    BY CompanionAssumption
  <2> QED BY <1>1, <1>3, <2>1 DEF Gid
<1> QED BY <1>1, <1>2, <1>3, <1>4

LEMMA InMemoryStep ==
  ASSUME NEW c, InGame(c), NEW m \in Move
  PROVE  /\ InGame(InMemory(c, m))
         /\ InMemory(c, m).file = c.file /\ InMemory(c, m).meta = c.meta
         /\ InMemory(c, m).live = [c.live EXCEPT !.log = Append(@, m)]
<1>1. Append(c.live.log, m) \in Seq(Move)
  BY InGameGid
<1>2. InMemory(c, m) = [c EXCEPT !.live = [c.live EXCEPT !.log = Append(c.live.log, m)]]
  BY InGameGid DEF InMemory, Config
<1>3. [c.live EXCEPT !.log = Append(c.live.log, m)] \in Games
  BY <1>1, InGameGid DEF Games
<1> QED BY <1>2, <1>3, InGameGid DEF InGame, Typed, Config, Games

LEMMA OnFileStep ==
  ASSUME NEW c, InGame(c), NEW m \in Move
  PROVE  /\ InGame(OnFile(c, m))
         /\ OnFile(c, m).live = c.live /\ OnFile(c, m).meta = c.meta
         /\ OnFile(c, m).file = [c.file EXCEPT ![c.live.gid] =
                                   Log!AppendTo(@, Len(c.live.log), m)]
<1> DEFINE f == Log!AppendTo(c.file[c.live.gid], Len(c.live.log), m)
<1>1. f \in Files /\ f # NoFile
  BY InGameGid, AppendFile
<1> HIDE DEF f
<1>2. OnFile(c, m) = [c EXCEPT !.file = [c.file EXCEPT ![c.live.gid] = f]]
  BY InGameGid DEF OnFile, Config, f
<1>3. [c.file EXCEPT ![c.live.gid] = f] \in [Gid -> Files]
  BY <1>1, InGameGid
<1> QED BY <1>1, <1>2, <1>3, InGameGid DEF InGame, Typed, Config, f

LEMMA MovedStep ==
  ASSUME NEW c, InGame(c), NEW m \in Move
  PROVE  /\ InGame(Moved(c, m))
         /\ Moved(c, m).file = OnFile(c, m).file
         /\ Moved(c, m).meta = c.meta
         /\ Moved(c, m).live = [c.live EXCEPT
                                   !.log = Append(c.live.log, m),
                                   !.state = Append(c.live.state, m)]
<1> DEFINE d == InMemory(OnFile(c, m), m)
<1>1. /\ InGame(d) /\ d.file = OnFile(c, m).file /\ d.meta = c.meta
      /\ d.live = [c.live EXCEPT !.log = Append(@, m)]
  <2> DEFINE b == OnFile(c, m)
  <2>1. InGame(b) /\ b.live = c.live /\ b.meta = c.meta
    BY OnFileStep
  <2> HIDE DEF b
  <2>2. /\ InGame(InMemory(b, m)) /\ InMemory(b, m).file = b.file
        /\ InMemory(b, m).meta = b.meta
        /\ InMemory(b, m).live = [b.live EXCEPT !.log = Append(@, m)]
    BY <2>1, InMemoryStep
  <2> QED BY <2>1, <2>2 DEF b
<1> HIDE DEF d
<1>2. Append(d.live.state, m) \in Seq(Move)
  BY <1>1, InGameGid
<1>3. Moved(c, m) = [d EXCEPT !.live = [d.live EXCEPT !.state = Append(d.live.state, m)]]
  BY <1>1, InGameGid DEF Moved, Config, d
<1>4. [d.live EXCEPT !.state = Append(d.live.state, m)] \in Games
  BY <1>1, <1>2, InGameGid DEF Games
<1> QED BY <1>1, <1>3, <1>4, InGameGid DEF InGame, Typed, Config, Games

LEMMA EndedStep ==
  ASSUME NEW c, InGame(c), NEW r \in {"rules", "resign"}
  PROVE  /\ InGame(Ended(c, r)) /\ Ended(c, r).file = c.file
         /\ Ended(c, r).meta = c.meta
         /\ Ended(c, r).live = [c.live EXCEPT !.finished = TRUE, !.result = r]
<1> DEFINE g == [c.live EXCEPT !.finished = TRUE, !.result = r]
<1>1. Ended(c, r) = [c EXCEPT !.live = g]
  BY InGameGid DEF Ended, Config
<1>2. g \in Games /\ g.gid = c.live.gid
  BY InGameGid DEF Games
<1> HIDE DEF g
<1>3. /\ InGame(Ended(c, r)) /\ Ended(c, r).file = c.file
      /\ Ended(c, r).meta = c.meta /\ Ended(c, r).live = g
  BY <1>1, <1>2, InGameGid DEF InGame, Typed, Config
<1> QED BY <1>3 DEF g

LEMMA PersistedStep ==
  ASSUME NEW c, InGame(c)
  PROVE  /\ InGame(Persisted(c)) /\ MetaSound(Persisted(c))
         /\ Persisted(c).live = c.live /\ Persisted(c).file = c.file
<1>1. MetaOf(c.live) \in Metas
  BY InGameGid DEF MetaOf, Games, Metas
<1>2. Persisted(c) = [c EXCEPT !.meta = [c.meta EXCEPT ![c.live.gid] = MetaOf(c.live)]]
  BY InGameGid DEF Persisted, Config
<1>3. [c.meta EXCEPT ![c.live.gid] = MetaOf(c.live)] \in [Gid -> Metas]
  BY <1>1, InGameGid
<1> QED BY <1>2, <1>3, InGameGid DEF InGame, Typed, Config, MetaSound

(* A legal move on a sound game leaves sound files and a sound game, and    *)
(* the meta file behind only if the game ended.                             *)
LEMMA MovedSound ==
  ASSUME NEW c, InGame(c), NEW m \in Move, Legal(c.live.state, m),
         FilesSound(c), GameSound(c)
  PROVE  FilesSound(OnFile(c, m)) /\ GameSound(Moved(c, m))
<1>1. /\ c.live.log = c.live.state /\ Replays(c.live.log)
      /\ c.file[c.live.gid] = Log!Dump(c.live.log)
  BY DEF GameSound, InGame
<1> DEFINE h == Append(c.live.log, m)
<1>2. h \in Seq(Move) /\ Replays(h)
  BY <1>1, InGameGid, ReplaysAppend
<1>3. OnFile(c, m).file = [c.file EXCEPT ![c.live.gid] = Log!Dump(h)]
  BY <1>1, OnFileStep, InGameGid, AppendDump
<1>4. OnFile(c, m).file[c.live.gid] = Log!Dump(h)
  BY <1>3, InGameGid
<1>5. /\ Moved(c, m).live.gid = c.live.gid
      /\ Moved(c, m).live.log = h /\ Moved(c, m).live.state = h
      /\ Moved(c, m).file = OnFile(c, m).file
  <2>1. /\ Moved(c, m).live = [c.live EXCEPT !.log = h, !.state = h]
        /\ Moved(c, m).file = OnFile(c, m).file
    <3>1. /\ Moved(c, m).live = [c.live EXCEPT
                                   !.log = Append(c.live.log, m),
                                   !.state = Append(c.live.state, m)]
          /\ Moved(c, m).file = OnFile(c, m).file
      BY MovedStep
    <3>2. Append(c.live.state, m) = h
      BY <1>1
    <3> QED BY <3>1, <3>2
  <2>2. c.live \in Games
    BY InGameGid
  <2> HIDE DEF h
  <2> QED BY <2>1, <2>2 DEF Games
<1> HIDE DEF h
<1>6. FilesSound(OnFile(c, m))
  <2>1. ASSUME NEW g \in Gid, OnFile(c, m).file[g] # NoFile
        PROVE  Dumped(OnFile(c, m).file[g])
    <3>1. CASE g = c.live.gid
      BY <3>1, <1>2, <1>4, DumpedIs
    <3>2. CASE g # c.live.gid
      BY <3>2, <2>1, <1>3, InGameGid DEF FilesSound
    <3> QED BY <3>1, <3>2
  <2> QED BY <2>1 DEF FilesSound
<1> QED BY <1>2, <1>4, <1>5, <1>6 DEF GameSound

-----------------------------------------------------------------------------
(* What the texts do                                                       *)

(* Every way the human's move and the bot's answer can come out.            *)
LEMMA RoundStep ==
  ASSUME NEW c, InGame(c), NEW m \in Move, NEW d \in Round(c, m)
  PROVE  /\ InGame(d)
         /\ FilesSound(c) /\ GameSound(c) /\ Legal(c.live.state, m)
              => FilesSound(d) /\ GameSound(d)
         /\ d.live.gid = c.live.gid /\ d.meta = c.meta
         /\ d.live.finished = c.live.finished /\ d.live.result = c.live.result
<1> DEFINE h == Moved(c, m)
<1> DEFINE Same(x, y) ==
      /\ InGame(y) /\ y.live.gid = x.live.gid /\ y.meta = x.meta
      /\ y.live.finished = x.live.finished /\ y.live.result = x.live.result
<1> DEFINE Safe(x) == FilesSound(x) /\ GameSound(x)
<1>1. ASSUME NEW x, InGame(x), NEW b \in Move
      PROVE  Same(x, Moved(x, b))
  <2>1. /\ InGame(Moved(x, b)) /\ Moved(x, b).meta = x.meta
        /\ Moved(x, b).live = [x.live EXCEPT
                                  !.log = Append(x.live.log, b),
                                  !.state = Append(x.live.state, b)]
    BY <1>1, MovedStep
  <2>2. x.live \in Games
    BY <1>1, InGameGid
  <2> QED BY <2>1, <2>2 DEF Games
<1>2. ASSUME NEW x, InGame(x), NEW b \in Move, Legal(x.live.state, b), Safe(x)
      PROVE  Safe(Moved(x, b))
  <2>1. FilesSound(OnFile(x, b)) /\ GameSound(Moved(x, b))
    BY <1>2, MovedSound
  <2>2. Moved(x, b).file = OnFile(x, b).file
    BY <1>2, MovedStep
  <2> QED BY <2>1, <2>2 DEF FilesSound
<1>3. Same(c, h)
  BY <1>1
<1>4. Safe(c) /\ Legal(c.live.state, m) => Safe(h)
  BY <1>2
<1> HIDE DEF Safe, h
<1>5. CASE d = h
  BY <1>3, <1>4, <1>5 DEF Safe
<1>6. CASE \E b \in BotMoves(h) : d = Moved(h, b)
  <2>1. PICK b \in BotMoves(h) : d = Moved(h, b)
    BY <1>6
  <2>2. b \in Move /\ Legal(h.live.state, b)
    BY <2>1 DEF BotMoves
  <2>3. Same(h, d)
    BY <1>1, <1>3, <2>1, <2>2
  <2>4. Safe(h) => Safe(d)
    BY <1>2, <1>3, <2>1, <2>2
  <2> QED BY <1>3, <1>4, <2>3, <2>4 DEF Safe
<1> QED BY <1>5, <1>6 DEF Round, h

(* Where an append can stop: the file as it was, or with the move.          *)
LEMMA AppendStopStep ==
  ASSUME NEW c, InGame(c), NEW m \in Move, NEW d \in AppendStops(c, m)
  PROVE  /\ Typed(d)
         /\ FilesSound(c) /\ GameSound(c) /\ Legal(c.live.state, m)
              => FilesSound(d)
<1>1. CASE d = InMemory(c, m)
  BY <1>1, InMemoryStep DEF InGame, FilesSound
<1>2. CASE d = InMemory(OnFile(c, m), m)
  <2> DEFINE b == OnFile(c, m)
  <2>1. InGame(b)
    BY OnFileStep
  <2>2. FilesSound(c) /\ GameSound(c) /\ Legal(c.live.state, m) => FilesSound(b)
    BY MovedSound
  <2> HIDE DEF b
  <2>3. InGame(InMemory(b, m)) /\ InMemory(b, m).file = b.file
    BY <2>1, InMemoryStep
  <2>4. d = InMemory(b, m)
    BY <1>2 DEF b
  <2> QED BY <2>2, <2>3, <2>4 DEF InGame, FilesSound
<1> QED BY <1>1, <1>2 DEF AppendStops

LEMMA RoundStopStep ==
  ASSUME NEW c, InGame(c), NEW m \in Move, NEW d \in RoundStops(c, m)
  PROVE  /\ Typed(d)
         /\ FilesSound(c) /\ GameSound(c) /\ Legal(c.live.state, m)
              => FilesSound(d)
<1> DEFINE h == Moved(c, m)
           Before == FilesSound(c) /\ GameSound(c) /\ Legal(c.live.state, m)
<1>1. CASE d \in AppendStops(c, m)
  BY <1>1, AppendStopStep
<1>2. CASE \E b \in BotMoves(h) : d \in AppendStops(h, b)
  <2>1. PICK b \in BotMoves(h) : d \in AppendStops(h, b)
    BY <1>2
  <2>2. InGame(h) /\ (Before => FilesSound(h) /\ GameSound(h))
    <3>1. InGame(h) /\ h.file = OnFile(c, m).file
      BY MovedStep
    <3>2. Before => FilesSound(OnFile(c, m)) /\ GameSound(h)
      BY MovedSound
    <3> HIDE DEF h
    <3> QED BY <3>1, <3>2 DEF FilesSound
  <2>3. b \in Move /\ Legal(h.live.state, b)
    BY <2>1 DEF BotMoves
  <2> HIDE DEF h, Before
  <2>4. Typed(d) /\ (Before => FilesSound(d))
    BY <2>1, <2>2, <2>3, AppendStopStep
  <2> QED BY <2>4 DEF Before
<1>3. CASE \E x \in Round(c, m) : d = Ended(x, "rules")
  <2>1. PICK x \in Round(c, m) : d = Ended(x, "rules")
    BY <1>3
  <2>2. InGame(x) /\ (Before => FilesSound(x))
    BY RoundStep
  <2>3. InGame(d) /\ d.file = x.file
    BY <2>1, <2>2, EndedStep
  <2> QED BY <2>2, <2>3 DEF FilesSound, InGame
<1>4. \/ d \in AppendStops(c, m)
      \/ \E b \in BotMoves(h) : d \in AppendStops(h, b)
      \/ \E x \in Round(c, m) : d = Ended(x, "rules")
  <2> HIDE DEF h
  <2>1. d \in RoundStops(c, m) /\ h = Moved(c, m)
    BY DEF h
  <2> QED BY <2>1 DEF RoundStops
<1> QED BY <1>1, <1>2, <1>3, <1>4

LEMMA CreatedStep ==
  ASSUME NEW c, Typed(c), NEW g \in Gid
  PROVE  /\ InGame(Created(c, g)) /\ GameSound(Created(c, g))
         /\ FilesSound(c) => FilesSound(Created(c, g))
<1> DEFINE x == Game(g, <<>>, FALSE, "")
           f == Log!Dump(<<>>)
<1>1. /\ x \in Games /\ x.gid = g /\ x.log = <<>> /\ x.state = <<>>
      /\ g # 0
  <2>1. MaxGames \in Nat
    BY CompanionAssumption
  <2> QED BY <2>1 DEF Game, Games, Gid
<1>0. <<>> \in Seq(Move)
  OBVIOUS
<1>2. f \in Files /\ f # NoFile
  BY <1>0, DumpFile
<1>3. Replays(<<>>)
  BY DEF Replays
<1>4. Dumped(f)
  BY <1>0, <1>3, DumpedIs
<1> HIDE DEF x, f
<1>5. /\ Created(c, g) \in Config
      /\ Created(c, g).live = x /\ Created(c, g).file = [c.file EXCEPT ![g] = f]
  <2>1. c \in Config
    BY DEF Typed
  <2>2. Created(c, g) = [c EXCEPT !.live = x, !.file = [c.file EXCEPT ![g] = f]]
    BY <2>1 DEF Created, Config, x, f
  <2>3. [c.file EXCEPT ![g] = f] \in [Gid -> Files]
    BY <2>1, <1>2 DEF Config
  <2> QED BY <2>1, <2>2, <2>3, <1>1 DEF Config
<1>6. Created(c, g).file[g] = f
  BY <1>5 DEF Typed, Config
<1>7. InGame(Created(c, g))
  BY <1>1, <1>2, <1>5, <1>6 DEF InGame, Typed
<1>8. GameSound(Created(c, g))
  BY <1>1, <1>3, <1>5, <1>6 DEF GameSound, f
<1>9. ASSUME FilesSound(c), NEW k \in Gid, Created(c, g).file[k] # NoFile
      PROVE  Dumped(Created(c, g).file[k])
  BY <1>4, <1>5, <1>9 DEF FilesSound, Typed, Config
<1> QED BY <1>7, <1>8, <1>9 DEF FilesSound

-----------------------------------------------------------------------------
(* The invariant                                                           *)

LEMMA NowSound ==
  ASSUME IInv
  PROVE  /\ Typed(Now) /\ (HasGame => InGame(Now))
         /\ ~ failed => FilesSound(Now) /\ GameSound(Now) /\ MetaSound(Now)
<1>1. Now.live = live /\ Now.file = file /\ Now.meta = meta /\ Now \in Config
  BY DEF Now, IInv, TypeOK, Config
<1>2. Typed(Now) /\ (HasGame => InGame(Now))
  BY <1>1 DEF Typed, InGame, IInv, HasGame
<1>3. ~ failed => FilesSound(Now) /\ GameSound(Now) /\ MetaSound(Now)
  BY <1>1 DEF IInv, Sound, HasGame, FilesSound, GameSound, MetaSound
<1> QED BY <1>2, <1>3

(* Becoming a typed configuration, sound unless a write has raised, keeps   *)
(* the invariant.                                                           *)
LEMMA BecomeKeeps ==
  ASSUME NEW c, Typed(c), Become(c),
         answer' \in [to : Text \cup {""}, says : Replies],
         up' \in BOOLEAN, failed' \in BOOLEAN, faults' \in 0..MaxFaults,
         ~ failed' => /\ up'
                      /\ FilesSound(c) /\ GameSound(c) /\ MetaSound(c)
  PROVE  IInv'
<1>1. live' = c.live /\ file' = c.file /\ meta' = c.meta /\ c \in Config
  BY DEF Become, Typed
<1>2. TypeOK'
  BY <1>1 DEF TypeOK, Config
<1>3. (HasGame => file[live.gid] # NoFile)'
  BY <1>1 DEF HasGame, Typed
<1>4. (~ failed => Sound)'
  BY <1>1 DEF Sound, HasGame, FilesSound, GameSound, MetaSound
<1> QED BY <1>2, <1>3, <1>4 DEF IInv

(* Persisting a sound configuration.                                        *)
LEMMA PersistSound ==
  ASSUME NEW c, InGame(c)
  PROVE  /\ Typed(Persisted(c)) /\ MetaSound(Persisted(c))
         /\ FilesSound(c) => FilesSound(Persisted(c))
         /\ GameSound(c) => GameSound(Persisted(c))
<1>1. /\ InGame(Persisted(c)) /\ MetaSound(Persisted(c))
      /\ Persisted(c).live = c.live /\ Persisted(c).file = c.file
  BY PersistedStep
<1> QED BY <1>1 DEF InGame, FilesSound, GameSound

(* Ending a game touches no move and no file.                               *)
LEMMA EndSound ==
  ASSUME NEW c, InGame(c), NEW r \in {"rules", "resign"}
  PROVE  /\ InGame(Ended(c, r))
         /\ FilesSound(c) => FilesSound(Ended(c, r))
         /\ GameSound(c) => GameSound(Ended(c, r))
<1>1. /\ InGame(Ended(c, r)) /\ Ended(c, r).file = c.file
      /\ Ended(c, r).live = [c.live EXCEPT !.finished = TRUE, !.result = r]
  BY EndedStep
<1>2. c.live \in Games
  BY InGameGid
<1>3. /\ Ended(c, r).live.gid = c.live.gid
      /\ Ended(c, r).live.log = c.live.log
      /\ Ended(c, r).live.state = c.live.state
  BY <1>1, <1>2 DEF Games
<1> QED BY <1>1, <1>3 DEF FilesSound, GameSound

LEMMA FinishSound ==
  ASSUME NEW c, InGame(c), NEW r \in {"rules", "resign"}
  PROVE  /\ Typed(Finished(c, r)) /\ MetaSound(Finished(c, r))
         /\ FilesSound(c) => FilesSound(Finished(c, r))
         /\ GameSound(c) => GameSound(Finished(c, r))
<1> DEFINE d == Ended(c, r)
<1>1. /\ InGame(d) /\ (FilesSound(c) => FilesSound(d))
      /\ (GameSound(c) => GameSound(d))
  BY EndSound
<1> HIDE DEF d
<1>2. /\ Typed(Persisted(d)) /\ MetaSound(Persisted(d))
      /\ FilesSound(d) => FilesSound(Persisted(d))
      /\ GameSound(d) => GameSound(Persisted(d))
  BY <1>1, PersistSound
<1> QED BY <1>1, <1>2 DEF Finished, d

LEMMA StartKeeps == ASSUME IInv, NEW t \in Text, Start(t) PROVE IInv'
<1>1. PICK g \in Gid : Become(Started(Now, g))
  BY DEF Start
<1> DEFINE d == Created(Now, g)
<1>2. /\ InGame(d) /\ GameSound(d)
      /\ FilesSound(Now) => FilesSound(d)
  BY NowSound, CreatedStep
<1> HIDE DEF d
<1>3. /\ Typed(Persisted(d)) /\ MetaSound(Persisted(d)) /\ GameSound(Persisted(d))
      /\ FilesSound(d) => FilesSound(Persisted(d))
  BY <1>2, PersistSound
<1>4. Become(Persisted(d))
  BY <1>1 DEF Started, d
<1>5. answer' \in [to : Text \cup {""}, says : Replies]
  BY DEF Start, Reply, Replies
<1>6. up' = up /\ failed' = failed /\ faults' = faults /\ up \in BOOLEAN
      /\ failed \in BOOLEAN /\ faults \in 0..MaxFaults
  BY DEF Start, IInv, TypeOK
<1>7. ~ failed => up /\ FilesSound(Now)
  BY NowSound DEF IInv, Sound
<1> QED BY <1>2, <1>3, <1>4, <1>5, <1>6, <1>7, BecomeKeeps

LEMMA ResignKeeps == ASSUME IInv, NEW t \in Text, Resign(t) PROVE IInv'
<1>1. InGame(Now)
  BY NowSound DEF Resign, Resigns, Playing
<1>2. Become(Finished(Now, "resign"))
  BY DEF Resign
<1>3. /\ Typed(Finished(Now, "resign")) /\ MetaSound(Finished(Now, "resign"))
      /\ FilesSound(Now) => FilesSound(Finished(Now, "resign"))
      /\ GameSound(Now) => GameSound(Finished(Now, "resign"))
  BY <1>1, FinishSound
<1>4. answer' \in [to : Text \cup {""}, says : Replies]
  BY DEF Resign, Reply, Replies
<1>5. up' = up /\ failed' = failed /\ faults' = faults /\ up \in BOOLEAN
      /\ failed \in BOOLEAN /\ faults \in 0..MaxFaults
  BY DEF Resign, IInv, TypeOK
<1>6. ~ failed => up /\ FilesSound(Now) /\ GameSound(Now)
  BY NowSound DEF IInv, Sound
<1> QED BY <1>2, <1>3, <1>4, <1>5, <1>6, BecomeKeeps

(* A move apply_local_move takes is one of the game's, legal where it is    *)
(* played.                                                                  *)
LEMMA AcceptedLegal ==
  ASSUME NEW t \in Text, NEW m \in Accepted(t)
  PROVE  m \in Move /\ Legal(Now.live.state, m)
BY DEF Accepted, Now

LEMMA PlayKeeps == ASSUME IInv, NEW t \in Text, Play(t) PROVE IInv'
<1>1. PICK m \in Accepted(t) : \E c \in Round(Now, m) : Become(Settled(c))
  BY DEF Play
<1>2. PICK c \in Round(Now, m) : Become(Settled(c))
  BY <1>1
<1>3. m \in Move /\ Legal(Now.live.state, m)
  BY AcceptedLegal
<1>4. InGame(Now)
  BY NowSound DEF Play, Moves, Playing
<1>5. /\ InGame(c) /\ c.live.gid = Now.live.gid /\ c.meta = Now.meta
      /\ c.live.finished = Now.live.finished /\ c.live.result = Now.live.result
      /\ FilesSound(Now) /\ GameSound(Now) => FilesSound(c) /\ GameSound(c)
  BY <1>2, <1>3, <1>4, RoundStep
<1>6. MetaSound(Now) => MetaSound(c)
  BY <1>5 DEF MetaSound, MetaOf
<1>7. /\ Typed(Settled(c))
      /\ FilesSound(c) /\ GameSound(c) /\ MetaSound(c)
           => /\ FilesSound(Settled(c)) /\ GameSound(Settled(c))
              /\ MetaSound(Settled(c))
  BY <1>5, FinishSound DEF Settled, InGame
<1>8. answer' \in [to : Text \cup {""}, says : Replies]
  <2>1. PICK x : Reply(t, IF Over(x) THEN "over" ELSE "your move")
    BY DEF Play
  <2> QED BY <2>1 DEF Reply, Replies
<1>9. up' = up /\ failed' = failed /\ faults' = faults /\ up \in BOOLEAN
      /\ failed \in BOOLEAN /\ faults \in 0..MaxFaults
  BY DEF Play, IInv, TypeOK
<1>10. ~ failed => up /\ FilesSound(Now) /\ GameSound(Now) /\ MetaSound(Now)
  BY NowSound DEF IInv, Sound
<1> QED BY <1>2, <1>5, <1>6, <1>7, <1>8, <1>9, <1>10, BecomeKeeps

LEMMA JustReplyKeeps == ASSUME IInv, NEW t \in Text, JustReply(t) PROVE IInv'
<1>1. answer' \in [to : Text \cup {""}, says : Replies]
  BY DEF JustReply, Reply, Replies, Says
<1> QED BY <1>1 DEF JustReply, IInv, TypeOK, Sound, HasGame

(* Wherever the writes a text causes stop, memory and disk are typed and,   *)
(* if they were sound before, every file is still the dump of a legal game. *)
LEMMA StopStep ==
  ASSUME IInv, NEW t \in Text, NEW d \in Stops(t)
  PROVE  /\ Typed(d)
         /\ FilesSound(Now) /\ GameSound(Now) => FilesSound(d)
<1>1. CASE Starts(t)
  <2>1. PICK g \in Gid : d \in StartStops(Now, g)
    BY <1>1 DEF Stops
  <2>2. d = Now \/ d = Created(Now, g)
    BY <2>1 DEF StartStops
  <2> QED BY <2>2, NowSound, CreatedStep DEF InGame
<1>2. CASE ~ Starts(t) /\ Resigns(t)
  <2>1. d = Ended(Now, "resign")
    BY <1>2 DEF Stops
  <2>2. InGame(Now)
    BY <1>2, NowSound DEF Resigns, Playing
  <2> QED BY <2>1, <2>2, EndSound DEF InGame
<1>3. CASE ~ Starts(t) /\ ~ Resigns(t) /\ Moves(t)
  <2>1. PICK m \in Accepted(t) : d \in RoundStops(Now, m)
    BY <1>3 DEF Stops
  <2>2. InGame(Now)
    BY <1>3, NowSound DEF Moves, Playing
  <2>3. m \in Move /\ Legal(Now.live.state, m)
    BY AcceptedLegal
  <2> QED BY <2>1, <2>2, <2>3, RoundStopStep
<1>4. CASE ~ Starts(t) /\ ~ Resigns(t) /\ ~ Moves(t)
  BY <1>4 DEF Stops
<1> QED BY <1>1, <1>2, <1>3, <1>4

LEMMA FaultCounted ==
  ASSUME IInv, faults < MaxFaults, faults' = faults + 1
  PROVE  faults' \in 0..MaxFaults
<1>1. faults \in 0..MaxFaults
  BY DEF IInv, TypeOK
<1>2. MaxFaults \in Nat
  BY CompanionAssumption
<1> QED BY <1>1, <1>2

LEMMA WriteFailsKeeps == ASSUME IInv, NEW t \in Text, WriteFails(t) PROVE IInv'
<1>1. PICK d \in Stops(t) : Become(d)
  BY DEF WriteFails
<1>2. Typed(d)
  BY StopStep
<1>3. answer' \in [to : Text \cup {""}, says : Replies]
  BY DEF WriteFails, Reply, Replies
<1>4. failed' = TRUE /\ up' = up /\ up \in BOOLEAN
  BY DEF WriteFails, IInv, TypeOK
<1>5. faults' \in 0..MaxFaults
  BY FaultCounted DEF WriteFails
<1> QED BY <1>1, <1>2, <1>3, <1>4, <1>5, BecomeKeeps

(* A restart on typed files, all dumps of legal games unless a write has    *)
(* raised, brings the host back with a game that is what its files say.     *)
LEMMA RestartedKeeps ==
  ASSUME IInv, NEW c, Typed(c), ~ failed => FilesSound(c),
         Restarted(c.file, c.meta)
  PROVE  IInv'
<1> DEFINE f == c.file
           mt == c.meta
<1>1. f \in [Gid -> Files] /\ mt \in [Gid -> Metas]
  BY DEF Typed, Config
<1>2. /\ file' = f /\ meta' = mt /\ failed' = failed /\ failed \in BOOLEAN
      /\ up' = (\A g \in Resumable(f, mt) : Readable(f[g]))
      /\ answer' = [to |-> "", says |-> ""]
      /\ live' \in IF up' THEN Resumed(f, mt) ELSE {NoGame}
  BY DEF Restarted, IInv, TypeOK
<1>3. faults' \in 0..MaxFaults
  BY FaultCounted DEF Restarted
<1>4. NoGame \in Games /\ NoGame.gid = 0
  <2>1. MaxGames \in Nat /\ <<>> \in Seq(Move)
    BY CompanionAssumption
  <2> QED BY <2>1 DEF NoGame, Game, Games
<1> HIDE DEF f, mt
<1>5. CASE live' = NoGame
  <2>1. TypeOK'
    BY <1>1, <1>2, <1>3, <1>4, <1>5 DEF TypeOK, Replies
  <2>2. ~ failed => /\ up'
                    /\ \A g \in Gid : f[g] # NoFile => Dumped(f[g])
    <3>1. ASSUME ~ failed, NEW g \in Resumable(f, mt)
          PROVE  Readable(f[g])
      <4>1. g \in Gid /\ f[g] # NoFile
        BY DEF Resumable
      <4>2. PICK h \in Seq(Move) : Replays(h) /\ f[g] = Log!Dump(h)
        BY <3>1, <4>1, DumpedIs DEF FilesSound, f
      <4> QED BY <4>2, LoadDump DEF Readable
    <3> QED BY <1>2, <3>1 DEF FilesSound, f
  <2> QED BY <1>2, <1>4, <1>5, <2>1, <2>2 DEF IInv, Sound, HasGame
<1>6. CASE live' # NoGame
  <2>1. up' /\ live' \in Resumed(f, mt)
    BY <1>2, <1>6
  <2>2. PICK g \in Resumable(f, mt) :
          live' = Game(g, Log!Load(f[g]), mt[g].finished, mt[g].result)
    BY <1>6, <2>1 DEF Resumed
  <2>3. /\ g \in Gid /\ f[g] # NoFile /\ mt[g] # NoMeta
        /\ Readable(f[g])
    BY <1>2, <2>1 DEF Resumable
  <2> DEFINE h == Log!Load(f[g])
  <2>4. h \in Seq(Move) /\ Replays(h)
    BY <1>1, <2>3, LoadType DEF Readable
  <2> HIDE DEF h
  <2>5. mt[g] \in [finished : BOOLEAN, result : {"", "rules", "resign"}]
    BY <1>1, <2>3 DEF Metas
  <2>6. live' = [gid |-> g, log |-> h, state |-> h,
                 finished |-> mt[g].finished, result |-> mt[g].result]
    BY <2>2 DEF Game, h
  <2>7. g \in 0..MaxGames
    BY <2>3, CompanionAssumption DEF Gid
  <2>8. live' \in Games
    BY <2>4, <2>5, <2>6, <2>7 DEF Games
  <2>9. TypeOK'
    BY <1>1, <1>2, <1>3, <2>8 DEF TypeOK, Replies
  <2>10. MetaOf(live') = mt[g]
    BY <2>5, <2>6 DEF MetaOf
  <2>11. ASSUME ~ failed
         PROVE  /\ f[g] = Log!Dump(h)
                /\ \A k \in Gid : f[k] # NoFile => Dumped(f[k])
    <3>1. \A k \in Gid : f[k] # NoFile => Dumped(f[k])
      BY <2>11 DEF FilesSound, f
    <3>2. PICK k \in Seq(Move) : f[g] = Log!Dump(k)
      BY <2>3, <3>1, DumpedIs
    <3> QED BY <3>1, <3>2, LoadDump DEF h
  <2>12. (~ failed => Sound)'
    BY <1>2, <2>1, <2>4, <2>6, <2>10, <2>11 DEF Sound
  <2>13. (HasGame => file[live.gid] # NoFile)'
    BY <1>2, <2>3, <2>6
  <2> QED BY <2>9, <2>12, <2>13 DEF IInv
<1> QED BY <1>5, <1>6

LEMMA RestartKeeps == ASSUME IInv, Restart PROVE IInv'
<1>1. Typed(Now) /\ (~ failed => FilesSound(Now))
  BY NowSound
<1>2. Restarted(Now.file, Now.meta)
  BY DEF Restart, Now
<1> QED BY <1>1, <1>2, RestartedKeeps

LEMMA CrashInKeeps == ASSUME IInv, NEW t \in Text, CrashIn(t) PROVE IInv'
<1>1. PICK d \in Stops(t) : Restarted(d.file, d.meta)
  BY DEF CrashIn
<1>2. Typed(d) /\ (~ failed => FilesSound(d))
  BY StopStep, NowSound
<1> QED BY <1>1, <1>2, RestartedKeeps

LEMMA InitInv == ASSUME Init PROVE IInv
<1>1. MaxGames \in Nat /\ MaxFaults \in Nat /\ <<>> \in Seq(Move)
  BY CompanionAssumption
<1>2. NoGame \in Games /\ NoGame.gid = 0
  BY <1>1 DEF NoGame, Game, Games
<1>3. NoFile \in Files /\ NoMeta \in Metas
  BY DEF Files, Metas
<1>4. /\ live = NoGame /\ file = [g \in Gid |-> NoFile]
      /\ meta = [g \in Gid |-> NoMeta] /\ up /\ faults = 0
      /\ answer = [to |-> "", says |-> ""] /\ failed = FALSE /\ up \in BOOLEAN
  BY DEF Init
<1>5. TypeOK
  <2>1. live \in Games /\ file \in [Gid -> Files] /\ meta \in [Gid -> Metas]
    BY <1>2, <1>3, <1>4
  <2>2. answer \in [to : Text \cup {""}, says : Replies]
    BY <1>4 DEF Replies
  <2>3. faults \in 0..MaxFaults
    <3>1. faults = 0
      BY <1>4
    <3> QED BY <1>1, <3>1
  <2>4. up \in BOOLEAN /\ failed \in BOOLEAN
    BY <1>4
  <2> QED BY <2>1, <2>2, <2>3, <2>4 DEF TypeOK
<1>6. Sound /\ ~ HasGame
  BY <1>2, <1>4 DEF Sound, HasGame
<1> QED BY <1>5, <1>6 DEF IInv

(* The invariant holds in every reachable state.                            *)
THEOREM CompanionInvariance == Spec => []IInv
<1>1. Init => IInv
  BY InitInv
<1>2. IInv /\ [Next]_vars => IInv'
  <2> SUFFICES ASSUME IInv, [Next]_vars PROVE IInv'
    OBVIOUS
  <2>1. CASE Restart
    BY <2>1, RestartKeeps
  <2>2. CASE \E t \in Text : \/ Start(t) \/ Resign(t) \/ Play(t) \/ JustReply(t)
                            \/ WriteFails(t) \/ CrashIn(t)
    BY <2>2, StartKeeps, ResignKeeps, PlayKeeps, JustReplyKeeps,
       WriteFailsKeeps, CrashInKeeps
  <2>3. CASE UNCHANGED vars
    BY <2>3 DEF vars, IInv, TypeOK, Sound, HasGame
  <2> QED BY <2>1, <2>2, <2>3 DEF Next
<1> QED BY <1>1, <1>2, PTL DEF Spec

(* Types of all variables.                                                  *)
THEOREM CompanionTypes == Spec => []TypeOK
<1>1. IInv => TypeOK
  BY DEF IInv
<1> QED BY <1>1, CompanionInvariance, PTL

(* However many crashes cut texts short, the host starts again, every log   *)
(* it reads is a legal game, and memory is what the files say.              *)
THEOREM MemoryMatchesDisk == Spec => []MemoryIsDisk
<1>1. IInv => MemoryIsDisk
  <2> SUFFICES ASSUME IInv, ~ failed PROVE MemoryIsDisk
    BY DEF MemoryIsDisk
  <2>1. ASSUME NEW g \in Resumable(file, meta)
        PROVE  Readable(file[g])
    <3>1. PICK h \in Seq(Move) : Replays(h) /\ file[g] = Log!Dump(h)
      BY DumpedIs DEF IInv, Sound, Resumable
    <3> QED BY <3>1, LoadDump DEF Readable
  <2>2. HasGame => Log!Load(file[live.gid]) = live.log
    <3>1. live.log \in Seq(Move)
      BY DEF IInv, TypeOK, Games
    <3> QED BY <3>1, LoadDump DEF IInv, Sound
  <2> QED BY <2>1, <2>2 DEF IInv, Sound, MemoryIsDisk
<1> QED BY <1>1, CompanionInvariance, PTL

-----------------------------------------------------------------------------
(* How a game goes on: its log file grows, nothing else on disk changes,    *)
(* and the position stays one of the game.                                  *)

LEMMA PrefixFacts ==
  ASSUME NEW S, NEW h \in Seq(S)
  PROVE  /\ IsPrefix(h, h)
         /\ \A x \in S : IsPrefix(h, Append(h, x))
         /\ \A k, l \in Seq(S) : IsPrefix(h, k) /\ IsPrefix(k, l) => IsPrefix(h, l)
<1>1. IsPrefix(h, h)
  BY DEF IsPrefix
<1>2. ASSUME NEW x \in S PROVE IsPrefix(h, Append(h, x))
  BY DEF IsPrefix
<1>3. ASSUME NEW k \in Seq(S), NEW l \in Seq(S), IsPrefix(h, k), IsPrefix(k, l)
      PROVE  IsPrefix(h, l)
  <2>1. /\ Len(h) \in Nat /\ Len(k) \in Nat /\ Len(l) \in Nat
        /\ Len(h) <= Len(k) /\ Len(k) <= Len(l)
    BY <1>3 DEF IsPrefix
  <2>2. SubSeq(h, 1, Len(h)) = SubSeq(k, 1, Len(h))
    BY <1>3 DEF IsPrefix
  <2>3. SubSeq(k, 1, Len(k)) = SubSeq(l, 1, Len(k))
    BY <1>3 DEF IsPrefix
  <2>4. \A i \in 1..Len(k) : k[i] = l[i]
    <3>1. \A i \in 1..Len(k) : SubSeq(k, 1, Len(k))[i] = k[i]
                               /\ SubSeq(l, 1, Len(k))[i] = l[i]
      BY <2>1
    <3> QED BY <2>3, <3>1
  <2>5. SubSeq(k, 1, Len(h)) = SubSeq(l, 1, Len(h))
    BY <2>1, <2>4
  <2> QED BY <2>1, <2>2, <2>5 DEF IsPrefix
<1> QED BY <1>1, <1>2, <1>3

LEMMA FileLines ==
  ASSUME NEW f \in Files
  PROVE  f.lines \in Seq(MoveLines)
<1>1. CASE f \in [lines : Seq(MoveLines), nl : {TRUE}]
  BY <1>1
<1>2. CASE f = NoFile
  <2>1. <<>> \in Seq(MoveLines)
    OBVIOUS
  <2> QED BY <1>2, <2>1 DEF NoFile
<1> QED BY <1>1, <1>2 DEF Files

LEMMA FileGrows ==
  ASSUME NEW f \in Files, f # NoFile, NEW n \in Nat, NEW m \in Move
  PROVE  IsPrefix(f.lines, Log!AppendTo(f, n, m).lines)
<1>1. f \in [lines : Seq(MoveLines), nl : {TRUE}]
  BY DEF Files
<1>2. Log!AppendTo(f, n, m).lines = Append(f.lines, Log!MoveLine(n, m))
  BY <1>1 DEF Log!AppendTo, Log!Write
<1> QED BY <1>1, <1>2, Line, PrefixFacts

GoesOn(c, d) ==
  /\ InGame(d) /\ d.live.gid = c.live.gid /\ d.meta = c.meta
  /\ Replays(c.live.state) => Replays(d.live.state)
  /\ IsPrefix(c.file[c.live.gid].lines, d.file[c.live.gid].lines)
  /\ \A g \in Gid : g # c.live.gid => d.file[g] = c.file[g]

LEMMA GoesOnFrom ==
  ASSUME NEW c, NEW d, InGame(c), GoesOn(c, d)
  PROVE  \A e : GoesOn(d, e) => GoesOn(c, e)
<1> SUFFICES ASSUME NEW e, GoesOn(d, e) PROVE GoesOn(c, e)
  OBVIOUS
<1> DEFINE g == c.live.gid
<1>1. /\ g \in Gid /\ c.file[g] \in Files
      /\ d.live.gid = g /\ d.file[g] \in Files
      /\ e.live.gid = g /\ e.file[g] \in Files
  BY InGameGid DEF GoesOn
<1>2. IsPrefix(c.file[g].lines, e.file[g].lines)
  BY <1>1, FileLines, PrefixFacts DEF GoesOn
<1> QED BY <1>1, <1>2 DEF GoesOn

LEMMA GoesOnItself ==
  ASSUME NEW c, InGame(c)
  PROVE  GoesOn(c, c)
BY InGameGid, FileLines, PrefixFacts DEF GoesOn

LEMMA InMemoryGoesOn ==
  ASSUME NEW c, InGame(c), NEW m \in Move
  PROVE  GoesOn(c, InMemory(c, m))
<1>1. /\ InGame(InMemory(c, m))
      /\ InMemory(c, m).file = c.file /\ InMemory(c, m).meta = c.meta
      /\ InMemory(c, m).live = [c.live EXCEPT !.log = Append(@, m)]
  BY InMemoryStep
<1>2. InMemory(c, m).live.gid = c.live.gid /\ InMemory(c, m).live.state = c.live.state
  BY <1>1, InGameGid DEF Games
<1> QED BY <1>1, <1>2, GoesOnItself DEF GoesOn

LEMMA OnFileGoesOn ==
  ASSUME NEW c, InGame(c), NEW m \in Move
  PROVE  GoesOn(c, OnFile(c, m))
<1> DEFINE g == c.live.gid
           f == Log!AppendTo(c.file[g], Len(c.live.log), m)
<1>1. /\ InGame(OnFile(c, m)) /\ OnFile(c, m).live = c.live
      /\ OnFile(c, m).meta = c.meta /\ OnFile(c, m).file = [c.file EXCEPT ![g] = f]
  BY OnFileStep
<1>2. /\ g \in Gid /\ c.file \in [Gid -> Files] /\ c.file[g] \in Files
      /\ c.file[g] # NoFile /\ Len(c.live.log) \in Nat
  BY InGameGid
<1>3. IsPrefix(c.file[g].lines, f.lines)
  BY <1>2, FileGrows
<1> HIDE DEF f
<1> QED BY <1>1, <1>2, <1>3 DEF GoesOn

LEMMA MovedGoesOn ==
  ASSUME NEW c, InGame(c), NEW m \in Move, Legal(c.live.state, m)
  PROVE  GoesOn(c, Moved(c, m))
<1>1. /\ InGame(Moved(c, m)) /\ Moved(c, m).file = OnFile(c, m).file
      /\ Moved(c, m).meta = c.meta
      /\ Moved(c, m).live = [c.live EXCEPT
                                !.log = Append(c.live.log, m),
                                !.state = Append(c.live.state, m)]
  BY MovedStep
<1>2. /\ Moved(c, m).live.gid = c.live.gid
      /\ Moved(c, m).live.state = Append(c.live.state, m)
  BY <1>1, InGameGid DEF Games
<1>3. Replays(c.live.state) => Replays(Append(c.live.state, m))
  BY InGameGid, ReplaysAppend
<1>4. GoesOn(c, OnFile(c, m)) /\ OnFile(c, m).live = c.live
  BY OnFileGoesOn, OnFileStep
<1> QED BY <1>1, <1>2, <1>3, <1>4 DEF GoesOn

LEMMA EndedGoesOn ==
  ASSUME NEW c, InGame(c), NEW r \in {"rules", "resign"}
  PROVE  GoesOn(c, Ended(c, r)) /\ Ended(c, r).live.finished
<1>1. /\ InGame(Ended(c, r)) /\ Ended(c, r).file = c.file
      /\ Ended(c, r).meta = c.meta
      /\ Ended(c, r).live = [c.live EXCEPT !.finished = TRUE, !.result = r]
  BY EndedStep
<1>2. /\ Ended(c, r).live.gid = c.live.gid
      /\ Ended(c, r).live.state = c.live.state /\ Ended(c, r).live.finished
  BY <1>1, InGameGid DEF Games
<1> QED BY <1>1, <1>2, GoesOnItself DEF GoesOn

LEMMA AppendStopsGoOn ==
  ASSUME NEW c, InGame(c), NEW m \in Move, NEW d \in AppendStops(c, m)
  PROVE  GoesOn(c, d)
<1>1. CASE d = InMemory(c, m)
  BY <1>1, InMemoryGoesOn
<1>2. CASE d = InMemory(OnFile(c, m), m)
  <2> DEFINE b == OnFile(c, m)
  <2>1. InGame(b) /\ GoesOn(c, b)
    BY OnFileStep, OnFileGoesOn
  <2> HIDE DEF b
  <2>2. GoesOn(b, InMemory(b, m))
    BY <2>1, InMemoryGoesOn
  <2>3. GoesOn(c, InMemory(b, m))
    BY <2>1, <2>2, GoesOnFrom
  <2> QED BY <1>2, <2>3 DEF b
<1> QED BY <1>1, <1>2 DEF AppendStops

LEMMA RoundGoesOn ==
  ASSUME NEW c, InGame(c), NEW m \in Move, Legal(c.live.state, m),
         NEW d \in Round(c, m)
  PROVE  GoesOn(c, d)
<1> DEFINE h == Moved(c, m)
<1>1. InGame(h) /\ GoesOn(c, h)
  BY MovedStep, MovedGoesOn
<1> HIDE DEF h
<1>2. CASE d = h
  BY <1>1, <1>2
<1>3. CASE \E b \in BotMoves(h) : d = Moved(h, b)
  <2>1. PICK b \in BotMoves(h) : d = Moved(h, b)
    BY <1>3
  <2>2. GoesOn(h, d)
    BY <1>1, <2>1, MovedGoesOn DEF BotMoves
  <2> QED BY <1>1, <2>2, GoesOnFrom
<1> QED BY <1>2, <1>3 DEF Round, h

LEMMA RoundStopsGoOn ==
  ASSUME NEW c, InGame(c), NEW m \in Move, Legal(c.live.state, m),
         NEW d \in RoundStops(c, m)
  PROVE  GoesOn(c, d)
<1> DEFINE h == Moved(c, m)
<1>1. InGame(h) /\ GoesOn(c, h)
  BY MovedStep, MovedGoesOn
<1>2. \/ d \in AppendStops(c, m)
      \/ \E b \in BotMoves(h) : d \in AppendStops(h, b)
      \/ \E x \in Round(c, m) : d = Ended(x, "rules")
  <2> HIDE DEF h
  <2>1. d \in RoundStops(c, m) /\ h = Moved(c, m)
    BY DEF h
  <2> QED BY <2>1 DEF RoundStops
<1> HIDE DEF h
<1>3. CASE d \in AppendStops(c, m)
  BY <1>3, AppendStopsGoOn
<1>4. CASE \E b \in BotMoves(h) : d \in AppendStops(h, b)
  <2>1. GoesOn(h, d)
    BY <1>1, <1>4, AppendStopsGoOn DEF BotMoves
  <2> QED BY <1>1, <2>1, GoesOnFrom
<1>5. CASE \E x \in Round(c, m) : d = Ended(x, "rules")
  <2>1. PICK x \in Round(c, m) : d = Ended(x, "rules")
    BY <1>5
  <2>2. InGame(x) /\ GoesOn(c, x)
    BY RoundGoesOn DEF GoesOn
  <2>3. GoesOn(x, d)
    BY <2>1, <2>2, EndedGoesOn
  <2> QED BY <2>2, <2>3, GoesOnFrom
<1> QED BY <1>2, <1>3, <1>4, <1>5

-----------------------------------------------------------------------------
(* A step on the disk                                                      *)

Behind(c) ==
  /\ \A g \in Gid : c.file[g] = NoFile => ~ c.meta[g].finished
  /\ c.live.gid # 0 /\ c.meta[c.live.gid].finished => c.live.finished

Good(c) == Behind(c) /\ Replays(c.live.state)

MovesOn(f, mt, k, nt) ==
  \A g \in Gid : /\ IsPrefix(f[g].lines, k[g].lines)
                 /\ mt[g].finished => k[g] = f[g] /\ nt[g] = mt[g]
DiskOn(c, d) == MovesOn(c.file, c.meta, d.file, d.meta)

LEMMA StaysOnDisk ==
  ASSUME NEW c, Typed(c)
  PROVE  DiskOn(c, c)
<1>1. \A g \in Gid : c.file[g] \in Files
  BY DEF Typed, Config
<1> QED BY <1>1, FileLines, PrefixFacts DEF DiskOn, MovesOn

LEMMA GoesOnWell ==
  ASSUME NEW c, InGame(c), Good(c), ~ c.live.finished, NEW d, GoesOn(c, d)
  PROVE  Good(d) /\ DiskOn(c, d)
<1>1. c.live.gid \in Gid /\ ~ c.meta[c.live.gid].finished
  BY InGameGid DEF Good, Behind, InGame
<1>2. d.file[d.live.gid] # NoFile /\ d.live.gid = c.live.gid
  BY InGameGid DEF GoesOn
<1>3. Good(d)
  BY <1>1, <1>2 DEF Good, Behind, GoesOn
<1>4. ASSUME NEW g \in Gid, g # c.live.gid
      PROVE  d.file[g] = c.file[g] /\ IsPrefix(c.file[g].lines, d.file[g].lines)
  <2>1. d.file[g] = c.file[g]
    BY <1>4 DEF GoesOn
  <2>2. c.file[g] \in Files
    BY InGameGid
  <2> QED BY <2>1, <2>2, FileLines, PrefixFacts
<1> QED BY <1>1, <1>3, <1>4 DEF DiskOn, MovesOn, GoesOn

(* Writing the meta file changes what is recorded of the current game only. *)
LEMMA PersistWell ==
  ASSUME NEW c, InGame(c), Good(c), ~ c.live.finished, NEW d, GoesOn(c, d)
  PROVE  Good(Persisted(d)) /\ DiskOn(c, Persisted(d))
<1> DEFINE g == d.live.gid
<1>1. /\ g = c.live.gid /\ g \in Gid /\ ~ c.meta[g].finished
      /\ d \in Config /\ d.meta \in [Gid -> Metas]
      /\ d.file[g] # NoFile /\ InGame(d)
  BY InGameGid DEF GoesOn, Good, Behind, InGame
<1>2. Good(d) /\ DiskOn(c, d)
  BY GoesOnWell
<1>3. /\ Persisted(d).live = d.live /\ Persisted(d).file = d.file
      /\ Persisted(d).meta = [d.meta EXCEPT ![g] = MetaOf(d.live)]
  <2>1. Persisted(d).live = d.live /\ Persisted(d).file = d.file
    BY <1>1, PersistedStep
  <2>2. Persisted(d).meta = [d.meta EXCEPT ![g] = MetaOf(d.live)]
    BY <1>1 DEF Persisted, Config
  <2> QED BY <2>1, <2>2
<1> HIDE DEF g
<1>4. /\ Persisted(d).meta[g] = MetaOf(d.live)
      /\ \A k \in Gid : k # g => Persisted(d).meta[k] = d.meta[k]
  BY <1>1, <1>3
<1>5. Persisted(d).meta[g].finished = d.live.finished
  BY <1>4 DEF MetaOf
<1>6. Good(Persisted(d))
  <2>1. ASSUME NEW k \in Gid, d.file[k] = NoFile
        PROVE  ~ Persisted(d).meta[k].finished
    BY <1>1, <1>2, <1>4, <2>1 DEF Good, Behind
  <2> QED BY <1>2, <1>3, <1>5, <2>1 DEF Good, Behind, g
<1>7. ASSUME NEW k \in Gid, c.meta[k].finished
      PROVE  Persisted(d).meta[k] = c.meta[k]
  BY <1>1, <1>2, <1>4, <1>7 DEF DiskOn, MovesOn
<1>8. DiskOn(c, Persisted(d))
  BY <1>2, <1>3, <1>7 DEF DiskOn, MovesOn
<1> QED BY <1>6, <1>8

(* A new game takes a file no game has, and no meta file said it was over.  *)
LEMMA CreateWell ==
  ASSUME NEW c, Typed(c), Good(c), NEW g \in Gid, c.file[g] = NoFile
  PROVE  /\ Good(Created(c, g)) /\ DiskOn(c, Created(c, g))
         /\ Good(Started(c, g)) /\ DiskOn(c, Started(c, g))
         /\ Started(c, g).live = Game(g, <<>>, FALSE, "")
<1> DEFINE d == Created(c, g)
<1>1. c \in Config /\ c.file \in [Gid -> Files] /\ c.meta \in [Gid -> Metas]
  BY DEF Typed, Config
<1>2. /\ d.live = Game(g, <<>>, FALSE, "") /\ d.meta = c.meta
      /\ d.file = [c.file EXCEPT ![g] = Log!Dump(<<>>)]
  BY <1>1 DEF Created, Config
<1>3. /\ d.live.gid = g /\ d.live.state = <<>> /\ d.live.finished = FALSE
  <2> DEFINE x == Game(g, <<>>, FALSE, "")
  <2>1. x.gid = g /\ x.state = <<>> /\ x.finished = FALSE
    BY DEF Game
  <2>2. d.live = x
    BY <1>2
  <2> HIDE DEF d, x
  <2> QED BY <2>1, <2>2
<1>4. g # 0
  <2>1. MaxGames \in Nat
    BY CompanionAssumption
  <2> QED BY <2>1 DEF Gid
<1>5. ~ c.meta[g].finished
  BY DEF Good, Behind
<1>6. Replays(<<>>)
  BY DEF Replays
<1>7. /\ d.file[g] = Log!Dump(<<>>)
      /\ \A k \in Gid : k # g => d.file[k] = c.file[k]
  BY <1>1, <1>2
<1>8. <<>> \in Seq(Move)
  OBVIOUS
<1>9. Log!Dump(<<>>) # NoFile
  BY <1>8, DumpFile
<1>10. Good(d)
  BY <1>2, <1>3, <1>5, <1>6, <1>7, <1>9 DEF Good, Behind
<1>11. ASSUME NEW k \in Gid
       PROVE  IsPrefix(c.file[k].lines, d.file[k].lines)
  <2>1. c.file[k].lines \in Seq(MoveLines)
    BY <1>1, FileLines
  <2>2. CASE k # g
    BY <2>1, <2>2, <1>7, PrefixFacts
  <2>3. CASE k = g
    <3>1. c.file[k].lines = <<>>
      BY <2>3 DEF NoFile
    <3>2. d.file[k].lines = <<>>
      BY <2>3, <1>7 DEF Log!Dump
    <3> QED BY <2>1, <3>1, <3>2, PrefixFacts
  <2> QED BY <2>2, <2>3
<1>12. DiskOn(c, d)
  BY <1>2, <1>5, <1>7, <1>11 DEF DiskOn, MovesOn
<1>13. InGame(d)
  BY CreatedStep
<1>14. d \in Config /\ Started(c, g) = Persisted(d)
  BY <1>13 DEF Started, InGame, Typed
<1> DEFINE e == Started(c, g)
<1> HIDE DEF d
<1>15. /\ e.live = d.live /\ e.file = d.file
       /\ e.meta = [d.meta EXCEPT ![g] = MetaOf(d.live)]
  BY <1>3, <1>14 DEF Persisted, Config
<1> HIDE DEF e
<1>16. /\ e.meta[g].finished = FALSE
       /\ \A k \in Gid : k # g => e.meta[k] = c.meta[k]
  <2>1. /\ e.meta[g] = MetaOf(d.live)
        /\ \A k \in Gid : k # g => e.meta[k] = c.meta[k]
    BY <1>1, <1>2, <1>15
  <2> QED BY <1>3, <2>1 DEF MetaOf
<1>17. Good(e)
  BY <1>3, <1>10, <1>15, <1>16, <1>2 DEF Good, Behind
<1>18. DiskOn(c, e)
  BY <1>5, <1>12, <1>15, <1>16, <1>2 DEF DiskOn, MovesOn
<1> QED BY <1>2, <1>10, <1>12, <1>15, <1>17, <1>18 DEF d, e

-----------------------------------------------------------------------------
(* The invariant of what happens between host and phone                    *)

LEMMA NowGood ==
  ASSUME PhoneInv
  PROVE  /\ Typed(Now) /\ Good(Now) /\ (HasGame => InGame(Now))
         /\ Now.live = live /\ Now.file = file /\ Now.meta = meta
<1>1. Now.live = live /\ Now.file = file /\ Now.meta = meta
  BY DEF Now
<1>2. Typed(Now) /\ (HasGame => InGame(Now))
  BY NowSound DEF PhoneInv
<1> QED BY <1>1, <1>2 DEF PhoneInv, MetaBehind, StateIsLegal, HasGame, Good, Behind

(* Wherever the writes a text causes stop.                                  *)
LEMMA StopWell ==
  ASSUME PhoneInv, NEW t \in Text, NEW d \in Stops(t)
  PROVE  Good(d) /\ DiskOn(Now, d)
<1>1. CASE Starts(t)
  <2>1. PICK g \in Gid : file[g] = NoFile /\ d \in StartStops(Now, g)
    BY <1>1 DEF Stops
  <2>2. d = Now \/ d = Created(Now, g)
    BY <2>1 DEF StartStops
  <2> QED BY <2>1, <2>2, NowGood, StaysOnDisk, CreateWell
<1>2. CASE ~ Starts(t) /\ Resigns(t)
  <2>1. d = Ended(Now, "resign")
    BY <1>2 DEF Stops
  <2>2. InGame(Now) /\ ~ Now.live.finished
    BY <1>2, NowGood DEF Resigns, Playing
  <2>3. GoesOn(Now, d)
    BY <2>1, <2>2, EndedGoesOn
  <2> QED BY <2>2, <2>3, NowGood, GoesOnWell
<1>3. CASE ~ Starts(t) /\ ~ Resigns(t) /\ Moves(t)
  <2>1. PICK m \in Accepted(t) : d \in RoundStops(Now, m)
    BY <1>3 DEF Stops
  <2>2. InGame(Now) /\ ~ Now.live.finished
    BY <1>3, NowGood DEF Moves, Playing
  <2>3. m \in Move /\ Legal(Now.live.state, m)
    BY AcceptedLegal
  <2>4. GoesOn(Now, d)
    BY <2>1, <2>2, <2>3, RoundStopsGoOn
  <2> QED BY <2>2, <2>4, NowGood, GoesOnWell
<1>4. CASE ~ Starts(t) /\ ~ Resigns(t) /\ ~ Moves(t)
  BY <1>4 DEF Stops
<1> QED BY <1>1, <1>2, <1>3, <1>4

(* Once the human and, unless that ended the game, the bot have moved, the  *)
(* game is over or it is the human's turn again.                            *)
LEMMA RoundTurns ==
  ASSUME NEW c, InGame(c), human_turn(c.live), NEW m \in Move, NEW d \in Round(c, m)
  PROVE  Over(d.live) \/ human_turn(d.live)
<1> DEFINE h == Moved(c, m)
<1>1. ASSUME NEW x, InGame(x), NEW b \in Move
      PROVE  InGame(Moved(x, b)) /\ Len(Moved(x, b).live.log) = Len(x.live.log) + 1
  <2>1. /\ InGame(Moved(x, b))
        /\ Moved(x, b).live = [x.live EXCEPT
                                  !.log = Append(x.live.log, b),
                                  !.state = Append(x.live.state, b)]
    BY <1>1, MovedStep
  <2>2. x.live \in Games /\ x.live.log \in Seq(Move)
    BY <1>1, InGameGid
  <2>3. Moved(x, b).live.log = Append(x.live.log, b)
    BY <2>1, <2>2 DEF Games
  <2> QED BY <2>1, <2>2, <2>3
<1>2. InGame(h) /\ Len(h.live.log) = Len(c.live.log) + 1
  BY <1>1
<1> HIDE DEF h
<1>3. ASSUME ~ Over(h.live)
      PROVE  human_turn(d.live)
  <2>1. PICK b \in BotMoves(h) : d = Moved(h, b)
    BY <1>3 DEF Round, h
  <2>2. Len(d.live.log) = Len(h.live.log) + 1
    BY <1>1, <1>2, <2>1 DEF BotMoves
  <2>3. Len(d.live.log) = Len(c.live.log) + 2 /\ Len(c.live.log) \in Nat
    BY <1>2, <2>2, InGameGid
  <2>4. Len(c.live.log) % 2 = 0
    BY DEF human_turn
  <2> DEFINE n == Len(c.live.log)
             k == Len(d.live.log)
  <2>5. n \in Nat /\ k = n + 2 /\ n % 2 = 0
    BY <2>3, <2>4
  <2> HIDE DEF n, k
  <2>6. k % 2 = 0
    BY <2>5
  <2> QED BY <2>6 DEF human_turn, k
<1>4. ASSUME Over(h.live)
      PROVE  d = h
  BY <1>4 DEF Round, h
<1> QED BY <1>3, <1>4

(* An action takes a good state to a good one, and what is on disk moves    *)
(* on: what the theorems below need of every step.                          *)
DiskStep == MovesOn(file, meta, file', meta')

LEMMA BecomeWell ==
  ASSUME PhoneInv, NEW c, Become(c), Good(c), DiskOn(Now, c)
  PROVE  MetaBehind' /\ StateIsLegal' /\ DiskStep
<1>1. live' = c.live /\ file' = c.file /\ meta' = c.meta
  BY DEF Become
<1>2. DiskStep
  BY <1>1, NowGood DEF DiskOn, DiskStep
<1> QED BY <1>1, <1>2 DEF Good, Behind, MetaBehind, StateIsLegal, HasGame

LEMMA StartWell ==
  ASSUME PhoneInv, NEW t \in Text, Start(t)
  PROVE  PhoneInv' /\ DiskStep
<1>1. PICK g \in Gid : file[g] = NoFile /\ Become(Started(Now, g))
  BY DEF Start
<1>2. /\ Good(Started(Now, g)) /\ DiskOn(Now, Started(Now, g))
      /\ Started(Now, g).live = Game(g, <<>>, FALSE, "")
  BY <1>1, NowGood, CreateWell
<1>3. IInv' /\ MetaBehind' /\ StateIsLegal' /\ DiskStep
  BY <1>1, <1>2, BecomeWell, StartKeeps DEF PhoneInv
<1>4. FailuresAreFaults'
  BY DEF Start, PhoneInv, FailuresAreFaults
<1>5. live'.log = <<>> /\ live'.state = <<>>
  <2> DEFINE x == Game(g, <<>>, FALSE, "")
  <2>1. x.log = <<>> /\ x.state = <<>>
    BY DEF Game
  <2>2. live' = x
    BY <1>1, <1>2 DEF Become
  <2> HIDE DEF x
  <2> QED BY <2>1, <2>2
<1>6. TurnComesBack'
  <2>1. human_turn(live)'
    BY <1>5 DEF human_turn
  <2>2. ~ Over(live)'
    BY <1>5, OpeningAssumption DEF Over
  <2> QED BY <2>1, <2>2 DEF TurnComesBack
<1> QED BY <1>3, <1>4, <1>6 DEF PhoneInv

LEMMA ResignWell ==
  ASSUME PhoneInv, NEW t \in Text, Resign(t)
  PROVE  PhoneInv' /\ DiskStep
<1>1. InGame(Now) /\ ~ Now.live.finished
  BY NowGood DEF Resign, Resigns, Playing
<1> DEFINE d == Ended(Now, "resign")
<1>2. GoesOn(Now, d) /\ d.live.finished /\ InGame(d)
  BY <1>1, EndedGoesOn, EndedStep
<1> HIDE DEF d
<1>3. /\ Good(Persisted(d)) /\ DiskOn(Now, Persisted(d))
      /\ Persisted(d).live = d.live
  BY <1>1, <1>2, NowGood, PersistWell, PersistedStep
<1>4. Become(Persisted(d))
  BY DEF Resign, Finished, d
<1>5. IInv' /\ MetaBehind' /\ StateIsLegal' /\ DiskStep
  BY <1>3, <1>4, BecomeWell, ResignKeeps DEF PhoneInv
<1>6. FailuresAreFaults'
  BY DEF Resign, PhoneInv, FailuresAreFaults
<1>7. TurnComesBack'
  BY <1>2, <1>3, <1>4 DEF Become, TurnComesBack, Playing
<1> QED BY <1>5, <1>6, <1>7 DEF PhoneInv

LEMMA PlayWell ==
  ASSUME PhoneInv, NEW t \in Text, Play(t)
  PROVE  PhoneInv' /\ DiskStep
<1>1. PICK m \in Accepted(t) : \E c \in Round(Now, m) : Become(Settled(c))
  BY DEF Play
<1>2. PICK c \in Round(Now, m) : Become(Settled(c))
  BY <1>1
<1>3. m \in Move /\ Legal(Now.live.state, m)
  BY AcceptedLegal
<1>4. InGame(Now) /\ ~ Now.live.finished /\ human_turn(Now.live)
  BY NowGood DEF Play, Moves, Playing
<1>5. InGame(c) /\ GoesOn(Now, c)
  BY <1>2, <1>3, <1>4, RoundGoesOn DEF GoesOn
<1>6. Over(c.live) \/ human_turn(c.live)
  BY <1>2, <1>3, <1>4, RoundTurns
<1> DEFINE d == Ended(c, "rules")
<1>7. InGame(d) /\ GoesOn(c, d) /\ d.live.finished
  BY <1>5, EndedStep, EndedGoesOn
<1>8. GoesOn(Now, d)
  BY <1>4, <1>5, <1>7, GoesOnFrom
<1> HIDE DEF d
<1>9. /\ Good(Persisted(d)) /\ DiskOn(Now, Persisted(d))
      /\ Persisted(d).live = d.live
  BY <1>4, <1>7, <1>8, NowGood, PersistWell, PersistedStep
<1>10. Good(c) /\ DiskOn(Now, c)
  BY <1>4, <1>5, NowGood, GoesOnWell
<1>11. Settled(c) = IF Over(c.live) THEN Persisted(d) ELSE c
  BY DEF Settled, Finished, d
<1>12. IInv' /\ MetaBehind' /\ StateIsLegal' /\ DiskStep
  BY <1>2, <1>9, <1>10, <1>11, BecomeWell, PlayKeeps DEF PhoneInv
<1>13. FailuresAreFaults'
  BY DEF Play, PhoneInv, FailuresAreFaults
<1>14. TurnComesBack'
  <2>1. CASE Over(c.live)
    <3>1. live'.finished
      BY <1>2, <1>7, <1>9, <1>11, <2>1 DEF Become
    <3> QED BY <3>1 DEF TurnComesBack, Playing
  <2>2. CASE ~ Over(c.live)
    <3>1. live' = c.live
      BY <1>2, <1>11, <2>2 DEF Become
    <3>2. human_turn(live') /\ ~ Over(live')
      BY <3>1, <1>6, <2>2
    <3> QED BY <3>2 DEF TurnComesBack
  <2> QED BY <2>1, <2>2
<1> QED BY <1>12, <1>13, <1>14 DEF PhoneInv

LEMMA JustReplyWell ==
  ASSUME PhoneInv, NEW t \in Text, JustReply(t)
  PROVE  PhoneInv' /\ DiskStep
<1>1. /\ live' = live /\ file' = file /\ meta' = meta
      /\ failed' = failed /\ faults' = faults
  BY DEF JustReply
<1>2. IInv'
  BY JustReplyKeeps DEF PhoneInv
<1>3. DiskStep
  BY <1>1, NowGood, StaysOnDisk DEF DiskStep, DiskOn
<1> QED BY <1>1, <1>2, <1>3 DEF PhoneInv, MetaBehind, StateIsLegal, FailuresAreFaults,
       TurnComesBack, Playing, HasGame

(* Once something has gone wrong nothing is said of turns.                  *)
LEMMA FaultTurns ==
  ASSUME PhoneInv, faults' = faults + 1
  PROVE  FailuresAreFaults' /\ TurnComesBack'
<1>1. faults \in Nat
  <2>1. faults \in 0..MaxFaults
    BY DEF PhoneInv, IInv, TypeOK
  <2> QED BY <2>1
<1>2. faults' > 0 /\ faults' # 0
  BY <1>1
<1> QED BY <1>2 DEF FailuresAreFaults, TurnComesBack

LEMMA WriteFailsWell ==
  ASSUME PhoneInv, NEW t \in Text, WriteFails(t)
  PROVE  PhoneInv' /\ DiskStep
<1>1. PICK d \in Stops(t) : Become(d)
  BY DEF WriteFails
<1>2. Good(d) /\ DiskOn(Now, d)
  BY StopWell
<1>3. IInv' /\ MetaBehind' /\ StateIsLegal' /\ DiskStep
  BY <1>1, <1>2, BecomeWell, WriteFailsKeeps DEF PhoneInv
<1>4. FailuresAreFaults' /\ TurnComesBack'
  BY FaultTurns DEF WriteFails
<1> QED BY <1>3, <1>4 DEF PhoneInv

(* What a restart brings back is legal, the log it loads having been        *)
(* replayed, and is over if its meta file says so.                          *)
LEMMA RestartedWell ==
  ASSUME PhoneInv, NEW c, Good(c), DiskOn(Now, c), IInv',
         Restarted(c.file, c.meta)
  PROVE  PhoneInv' /\ DiskStep
<1> DEFINE f == c.file
           mt == c.meta
<1>1. /\ file' = f /\ meta' = mt
      /\ up' = (\A g \in Resumable(f, mt) : Readable(f[g]))
      /\ live' \in IF up' THEN Resumed(f, mt) ELSE {NoGame}
  BY DEF Restarted
<1>2. FailuresAreFaults' /\ TurnComesBack'
  BY FaultTurns DEF Restarted
<1>3. DiskStep
  BY <1>1, NowGood DEF DiskOn, DiskStep
<1>4. \A g \in Gid : f[g] = NoFile => ~ mt[g].finished
  BY DEF Good, Behind
<1> HIDE DEF f, mt
<1>5. CASE live' = NoGame
  <2>1. live'.gid = 0 /\ live'.state = <<>>
    <3>1. NoGame.gid = 0 /\ NoGame.state = <<>>
      BY DEF NoGame, Game
    <3> QED BY <1>5, <3>1
  <2>2. Replays(<<>>)
    BY DEF Replays
  <2> QED BY <1>1, <1>2, <1>3, <1>4, <2>1, <2>2
         DEF PhoneInv, StateIsLegal, MetaBehind, HasGame
<1>6. CASE live' # NoGame
  <2>1. up' /\ live' \in Resumed(f, mt)
    BY <1>1, <1>6
  <2>2. PICK g \in Resumable(f, mt) :
          live' = Game(g, Log!Load(f[g]), mt[g].finished, mt[g].result)
    BY <1>6, <2>1 DEF Resumed
  <2>3. Replays(Log!Load(f[g]))
    BY <1>1, <2>1, <2>2 DEF Readable
  <2> DEFINE h == Log!Load(f[g])
  <2> HIDE DEF h
  <2>4. /\ live'.gid = g /\ live'.state = h
        /\ live'.finished = mt[g].finished
    BY <2>2 DEF Game, h
  <2>5. Replays(live'.state)
    BY <2>3, <2>4 DEF h
  <2> QED BY <1>1, <1>2, <1>3, <1>4, <2>4, <2>5
         DEF PhoneInv, StateIsLegal, MetaBehind
<1> QED BY <1>5, <1>6

LEMMA RestartWell ==
  ASSUME PhoneInv, Restart
  PROVE  PhoneInv' /\ DiskStep
<1>1. Restarted(Now.file, Now.meta) /\ Good(Now) /\ DiskOn(Now, Now)
  BY NowGood, StaysOnDisk DEF Restart
<1>2. IInv'
  BY RestartKeeps DEF PhoneInv
<1> QED BY <1>1, <1>2, RestartedWell

LEMMA CrashInWell ==
  ASSUME PhoneInv, NEW t \in Text, CrashIn(t)
  PROVE  PhoneInv' /\ DiskStep
<1>1. PICK d \in Stops(t) : Restarted(d.file, d.meta)
  BY DEF CrashIn
<1>2. Good(d) /\ DiskOn(Now, d)
  BY StopWell
<1>3. IInv'
  BY CrashInKeeps DEF PhoneInv
<1> QED BY <1>1, <1>2, <1>3, RestartedWell

LEMMA PhoneStep ==
  ASSUME PhoneInv, [Next]_vars
  PROVE  PhoneInv' /\ DiskStep
<1>1. CASE Restart
  BY <1>1, RestartWell
<1>2. CASE \E t \in Text : \/ Start(t) \/ Resign(t) \/ Play(t) \/ JustReply(t)
                          \/ WriteFails(t) \/ CrashIn(t)
  BY <1>2, StartWell, ResignWell, PlayWell, JustReplyWell, WriteFailsWell,
     CrashInWell
<1>3. CASE UNCHANGED vars
  <2>1. live' = live /\ file' = file /\ meta' = meta /\ up' = up
        /\ answer' = answer /\ failed' = failed /\ faults' = faults
    BY <1>3 DEF vars
  <2>2. IInv'
    BY <2>1 DEF PhoneInv, IInv, TypeOK, Sound, HasGame
  <2>3. DiskStep
    BY <2>1, NowGood, StaysOnDisk DEF DiskStep, DiskOn
  <2> QED BY <2>1, <2>2, <2>3 DEF PhoneInv, MetaBehind, StateIsLegal,
         FailuresAreFaults, TurnComesBack, Playing, HasGame
<1> QED BY <1>1, <1>2, <1>3 DEF Next

(* On top of CompanionInvariance: the position is legal, no meta file is    *)
(* ahead of its log or of memory, and turns come back.                      *)
THEOREM PhoneInvariance == Spec => []PhoneInv
<1>1. Init => PhoneInv
  <2> SUFFICES ASSUME Init PROVE PhoneInv
    OBVIOUS
  <2>1. IInv
    BY InitInv
  <2>2. /\ live = NoGame /\ meta = [g \in Gid |-> NoMeta] /\ failed = FALSE
    BY DEF Init
  <2>3. live.gid = 0 /\ live.state = <<>>
    <3>1. NoGame.gid = 0 /\ NoGame.state = <<>>
      BY DEF NoGame, Game
    <3> QED BY <2>2, <3>1
  <2>4. \A g \in Gid : meta[g].finished = FALSE
    BY <2>2 DEF NoMeta
  <2>5. Replays(<<>>)
    BY DEF Replays
  <2> QED BY <2>1, <2>2, <2>3, <2>4, <2>5 DEF PhoneInv, StateIsLegal, MetaBehind,
         FailuresAreFaults, TurnComesBack, Playing, HasGame
<1>2. PhoneInv /\ [Next]_vars => PhoneInv'
  BY PhoneStep
<1> QED BY <1>1, <1>2, PTL DEF Spec

(* The position the phone plays on is one of the game, whatever failed.     *)
THEOREM PositionIsLegal == Spec => []StateIsLegal
<1>1. PhoneInv => StateIsLegal
  BY DEF PhoneInv
<1> QED BY <1>1, PhoneInvariance, PTL

(* Until something goes wrong the bot hands the move back after every text, *)
(* and a game the rules ended is recorded as ended.                         *)
THEOREM TurnReturns == Spec => []TurnComesBack
<1>1. PhoneInv => TurnComesBack
  BY DEF PhoneInv
<1> QED BY <1>1, PhoneInvariance, PTL

(* Whatever crashes and failed writes do, a log is only appended to, and    *)
(* once a game is recorded as over its files never change.                  *)
THEOREM DiskMovesOn == Spec => DiskOnlyMovesOn
<1>1. PhoneInv /\ [Next]_vars =>
        [\A g \in Gid :
           /\ IsPrefix(file[g].lines, file'[g].lines)
           /\ meta[g].finished => file'[g] = file[g] /\ meta'[g] = meta[g]]_vars
  BY PhoneStep DEF DiskStep, MovesOn
<1> QED BY <1>1, PhoneInvariance, PTL DEF Spec, DiskOnlyMovesOn

(* Only a text that is no move of the position starts another game.         *)
LEMMA SameGame ==
  ASSUME PhoneInv, NEW t \in Text,
         Resign(t) \/ Play(t) \/ JustReply(t) \/ WriteFails(t),
         ~ Starts(t)
  PROVE  live'.gid = live.gid
<1>1. CASE Resign(t)
  <2>1. InGame(Now) /\ Become(Finished(Now, "resign"))
    BY <1>1, NowGood DEF Resign, Resigns, Playing
  <2> DEFINE d == Ended(Now, "resign")
  <2>2. InGame(d) /\ GoesOn(Now, d)
    BY <2>1, EndedStep, EndedGoesOn
  <2> HIDE DEF d
  <2>3. Persisted(d).live = d.live /\ Finished(Now, "resign") = Persisted(d)
    BY <2>2, PersistedStep DEF Finished, d
  <2> QED BY <2>1, <2>2, <2>3, NowGood DEF Become, GoesOn
<1>2. CASE Play(t)
  <2>1. PICK m \in Accepted(t) : \E c \in Round(Now, m) : Become(Settled(c))
    BY <1>2 DEF Play
  <2>2. PICK c \in Round(Now, m) : Become(Settled(c))
    BY <2>1
  <2>3. m \in Move /\ Legal(Now.live.state, m) /\ InGame(Now)
    BY <1>2, AcceptedLegal, NowGood DEF Play, Moves, Playing
  <2>4. GoesOn(Now, c) /\ InGame(c)
    BY <2>2, <2>3, RoundGoesOn DEF GoesOn
  <2> DEFINE d == Ended(c, "rules")
  <2>5. InGame(d) /\ GoesOn(c, d)
    BY <2>4, EndedStep, EndedGoesOn
  <2> HIDE DEF d
  <2>6. Persisted(d).live = d.live
        /\ Settled(c) = IF Over(c.live) THEN Persisted(d) ELSE c
    BY <2>5, PersistedStep DEF Settled, Finished, d
  <2> QED BY <2>2, <2>4, <2>5, <2>6, NowGood DEF Become, GoesOn
<1>3. CASE JustReply(t)
  BY <1>3 DEF JustReply
<1>4. CASE WriteFails(t)
  <2>1. PICK d \in Stops(t) : Become(d)
    BY <1>4 DEF WriteFails
  <2>2. CASE Resigns(t)
    <3>1. d = Ended(Now, "resign") /\ InGame(Now)
      BY <2>1, <2>2, NowGood DEF Stops, Resigns, Playing
    <3>2. GoesOn(Now, d)
      BY <3>1, EndedGoesOn
    <3> QED BY <2>1, <3>2, NowGood DEF Become, GoesOn
  <2>3. CASE ~ Resigns(t)
    <3>1. PICK m \in Accepted(t) : d \in RoundStops(Now, m)
      BY <2>1, <2>3 DEF Stops
    <3>2. Moves(t)
      BY <2>1, <2>3 DEF Stops
    <3>3. m \in Move /\ Legal(Now.live.state, m) /\ InGame(Now)
      BY <3>2, AcceptedLegal, NowGood DEF Moves, Playing
    <3>4. GoesOn(Now, d)
      BY <3>1, <3>3, RoundStopsGoOn
    <3> QED BY <2>1, <3>4, NowGood DEF Become, GoesOn
  <2> QED BY <2>2, <2>3
<1> QED BY <1>1, <1>2, <1>3, <1>4

(* A text the position takes as the human's move never starts another game. *)
THEOREM SquaresArePlayed == Spec => LegalSquareIsPlayed
<1> DEFINE A == Playing /\ answer'.to \in Text /\ live'.gid # live.gid
                 => ~ is_move(live, answer'.to)
<1>1. PhoneInv /\ [Next]_vars => [A]_vars
  <2> SUFFICES ASSUME PhoneInv, Next, Playing, answer'.to \in Text,
                      live'.gid # live.gid, is_move(live, answer'.to)
               PROVE  FALSE
    OBVIOUS
  <2>1. CASE Restart
    <3>1. answer' = [to |-> "", says |-> ""]
      BY <2>1 DEF Restart, Restarted
    <3>2. answer'.to = ""
      BY <3>1
    <3> QED BY <3>2, TextAssumption
  <2>2. CASE \E t \in Text : CrashIn(t)
    <3>1. answer' = [to |-> "", says |-> ""]
      BY <2>2 DEF CrashIn, Restarted
    <3>2. answer'.to = ""
      BY <3>1
    <3> QED BY <3>2, TextAssumption
  <2>3. CASE \E t \in Text : Start(t) \/ Resign(t) \/ Play(t) \/ JustReply(t)
                             \/ WriteFails(t)
    <3>1. PICK t \in Text : Start(t) \/ Resign(t) \/ Play(t) \/ JustReply(t)
                            \/ WriteFails(t)
      BY <2>3
    <3>2. answer'.to = t
      <4>1. PICK says : Reply(t, says)
        BY <3>1 DEF Start, Resign, Play, JustReply, WriteFails
      <4> QED BY <4>1 DEF Reply
    <3>3. ~ Starts(t)
      BY <3>2 DEF Starts
    <3>4. ~ Start(t)
      BY <3>3 DEF Start
    <3> QED BY <3>1, <3>3, <3>4, SameGame
  <2> QED BY <2>1, <2>2, <2>3 DEF Next
<1> QED BY <1>1, PhoneInvariance, PTL DEF Spec, LegalSquareIsPlayed
=============================================================================
