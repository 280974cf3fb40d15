----------------------- MODULE GamePeerOnDisk_proofs ------------------------
(***************************************************************************)
(* What GamePeerOnDisk keeps, proved for every game, every number of crashes *)
(* and every way an append can be interrupted.                              *)
(*                                                                         *)
(* Two arguments meet here. The first is about one file: as far as it parses *)
(* it is the beginning of the log it was written from (Holds), and if all of *)
(* it parses it is all of that log (Whole); append_to, an append cut short,  *)
(* dump and load keep that. The second is about the protocol: a restart from *)
(* a file that lost no completed move leaves a log that Restart,             *)
(* CrashInSubmit or CrashInReceiveMove of GamePeer could have left, so until *)
(* something is lost every step is a step of GamePeer, and IInv carries      *)
(* over. After a loss IInv is gone (that is the run torn_append); what is    *)
(* left, that logs replay and files record them, no longer needs it.         *)
(***************************************************************************)
EXTENDS GamePeerOnDisk, GamePeer_proofs

-----------------------------------------------------------------------------
(* Files                                                                   *)

Line == [ply : Nat, m : Move] \cup {Garbage}

IsFile(f) ==
  /\ f.lines \in Seq(Line) /\ f.nl \in BOOLEAN
  /\ ~ f.nl => f.lines # <<>>

(* The first n lines parse.                                                *)
Clean(f, n) == \A i \in 1..n : f.lines[i] # Garbage

(* As far as the file parses it is the beginning of h.                      *)
Holds(f, h) ==
  \A n \in 1..Len(f.lines) : Clean(f, n) =>
    n <= Len(h) /\ f.lines[n] = Log!MoveLine(n - 1, h[n])

(* If all of it parses it is all of h.                                     *)
Whole(f, h) == Clean(f, Len(f.lines)) => Len(f.lines) = Len(h)

Records(f, h) == IsFile(f) /\ Holds(f, h) /\ Whole(f, h)

LEMMA MoveLines ==
  ASSUME NEW n \in Nat, NEW m \in Move
  PROVE  /\ Log!MoveLine(n, m) \in Line /\ Log!MoveLine(n, m) # Garbage
         /\ Log!MoveLine(n, m).ply = n /\ Log!MoveLine(n, m).m = m
BY GarbageAssumption DEF Line, Log!MoveLine

(* dump *)
LEMMA DumpRecords ==
  ASSUME NEW h \in Seq(Move)
  PROVE  Records(Log!Dump(h), h)
<1> DEFINE f == Log!Dump(h)
<1>1. /\ f.nl = TRUE /\ f.lines = [i \in 1..Len(h) |-> Log!MoveLine(i - 1, h[i])]
      /\ Len(h) \in Nat
  BY DEF Log!Dump
<1>2. \A i \in 1..Len(h) : i - 1 \in Nat /\ h[i] \in Move
  OBVIOUS
<1>3. \A i \in 1..Len(h) : Log!MoveLine(i - 1, h[i]) \in Line
  BY <1>2, MoveLines
<1>4. f.lines \in Seq(Line) /\ Len(f.lines) = Len(h)
  BY <1>1, <1>3
<1> HIDE DEF f
<1>5. IsFile(f)
  BY <1>1, <1>4 DEF IsFile
<1>6. Holds(f, h) /\ Whole(f, h)
  BY <1>1, <1>4 DEF Holds, Whole
<1> QED BY <1>5, <1>6 DEF Records, f

(* Whatever of one line reaches the file behind h, it holds no more than h    *)
(* and that move.                                                          *)
LEMMA WriteRecords ==
  ASSUME NEW h \in Seq(Move), NEW m \in Move, NEW f, Records(f, h), NEW newline \in BOOLEAN,
         NEW line \in {Garbage, Log!MoveLine(Len(h), m)}
  PROVE  Records(Log!Write(f, line, newline), Append(h, m))
<1> DEFINE g == Log!Write(f, line, newline)
           hm == Append(h, m)
           k == Len(f.lines)
<1>1. /\ f.lines \in Seq(Line) /\ k \in Nat /\ Len(h) \in Nat
      /\ hm \in Seq(Move) /\ Len(hm) = Len(h) + 1 /\ hm[Len(h) + 1] = m
      /\ \A i \in 1..Len(h) : hm[i] = h[i]
  BY DEF Records, IsFile
<1>2. line \in Line
  BY <1>1, MoveLines DEF Line
<1>3. CASE f.nl
  <2>1. g = [lines |-> Append(f.lines, line), nl |-> newline]
    BY <1>3 DEF Log!Write
  <2>2. /\ g.lines \in Seq(Line) /\ g.nl = newline /\ Len(g.lines) = k + 1
        /\ g.lines[k + 1] = line /\ \A i \in 1..k : g.lines[i] = f.lines[i]
    BY <1>1, <1>2, <2>1
  <2> HIDE DEF g, hm, k
  <2>3. g.lines # <<>>
    BY <1>1, <2>2
  <2>4. ASSUME NEW n \in 1..k + 1, Clean(g, n)
        PROVE  /\ n <= Len(hm) /\ g.lines[n] = Log!MoveLine(n - 1, hm[n])
               /\ n = k + 1 => Len(hm) = k + 1
    <3>1. CASE n \in 1..k
      <4>1. Clean(f, n)
        BY <1>1, <2>2, <2>4, <3>1 DEF Clean
      <4>2. n <= Len(h) /\ f.lines[n] = Log!MoveLine(n - 1, h[n])
        BY <3>1, <4>1 DEF Records, Holds, k
      <4>3. n \in 1..Len(h) /\ n # k + 1
        BY <1>1, <3>1, <4>2
      <4> QED BY <1>1, <2>2, <3>1, <4>2, <4>3
    <3>2. CASE n = k + 1
      <4>1. \A i \in 1..k + 1 : g.lines[i] # Garbage
        BY <2>4, <3>2 DEF Clean
      <4>2. k + 1 \in 1..k + 1 /\ \A i \in 1..k : i \in 1..k + 1
        BY <1>1
      <4>3. line # Garbage
        BY <2>2, <4>1, <4>2
      <4>4. Clean(f, k)
        BY <2>2, <4>1, <4>2 DEF Clean
      <4>5. k = Len(h) /\ line = Log!MoveLine(Len(h), m)
        BY <4>3, <4>4 DEF Records, Whole, k
      <4>6. n - 1 = Len(h) /\ n = Len(h) + 1
        BY <1>1, <3>2, <4>5
      <4> QED BY <1>1, <2>2, <3>2, <4>5, <4>6
    <3> QED BY <1>1, <2>4, <3>1, <3>2
  <2>5. Holds(g, hm) /\ Whole(g, hm)
    BY <1>1, <2>2, <2>4 DEF Holds, Whole
  <2> QED BY <2>2, <2>3, <2>5 DEF Records, IsFile, g, hm
<1>4. CASE ~ f.nl
  <2>1. g = [lines |-> [f.lines EXCEPT ![k] = Garbage], nl |-> newline]
    BY <1>4 DEF Log!Write, Log!ReplaceAt
  <2>2. k # 0
    BY <1>1, <1>4 DEF Records, IsFile
  <2>3. Garbage \in Line /\ \A i \in 1..k : f.lines[i] \in Line
    BY <1>1 DEF Line
  <2>4. /\ g.lines \in Seq(Line) /\ g.nl = newline /\ Len(g.lines) = k
        /\ g.lines[k] = Garbage /\ \A i \in 1..k : i # k => g.lines[i] = f.lines[i]
    BY <1>1, <2>1, <2>2, <2>3
  <2> HIDE DEF g, hm, k
  <2>5. g.lines # <<>> /\ ~ Clean(g, k)
    BY <1>1, <2>2, <2>4 DEF Clean
  <2>6. ASSUME NEW n \in 1..k, Clean(g, n)
        PROVE  n <= Len(hm) /\ g.lines[n] = Log!MoveLine(n - 1, hm[n])
    <3>1. n # k
      BY <2>5, <2>6
    <3>2. Clean(f, n)
      BY <1>1, <2>4, <2>6, <3>1 DEF Clean
    <3>3. n <= Len(h) /\ f.lines[n] = Log!MoveLine(n - 1, h[n])
      BY <2>6, <3>2 DEF Records, Holds, k
    <3>4. n \in 1..Len(h)
      BY <1>1, <3>3
    <3> QED BY <1>1, <2>4, <3>1, <3>3, <3>4
  <2>7. Holds(g, hm) /\ Whole(g, hm)
    BY <2>4, <2>5, <2>6 DEF Holds, Whole
  <2> QED BY <2>4, <2>5, <2>7 DEF Records, IsFile, g, hm
<1> QED BY <1>3, <1>4

LEMMA InterruptedHolds ==
  ASSUME NEW h \in Seq(Move), NEW m \in Move, NEW f, Records(f, h),
         NEW g \in Log!Interrupted(f, Len(h), m)
  PROVE  IsFile(g) /\ Holds(g, Append(h, m))
<1>1. CASE g = f
  <2>1. /\ Len(h) \in Nat /\ Len(Append(h, m)) = Len(h) + 1
        /\ \A i \in 1..Len(h) : Append(h, m)[i] = h[i]
    OBVIOUS
  <2>2. ASSUME NEW n \in 1..Len(f.lines), Clean(f, n)
        PROVE  n <= Len(Append(h, m)) /\ f.lines[n] = Log!MoveLine(n - 1, Append(h, m)[n])
    <3>1. n <= Len(h) /\ f.lines[n] = Log!MoveLine(n - 1, h[n])
      BY <2>2 DEF Records, Holds
    <3>2. n \in 1..Len(h)
      BY <2>1, <3>1
    <3> QED BY <2>1, <3>1, <3>2
  <2> QED BY <1>1, <2>2 DEF Records, Holds
<1>2. CASE g # f
  <2>1. \E line \in {Garbage, Log!MoveLine(Len(h), m)}, newline \in BOOLEAN :
          g = Log!Write(f, line, newline)
    BY <1>2 DEF Log!Interrupted, Log!AppendTo
  <2> QED BY <2>1, WriteRecords DEF Records
<1> QED BY <1>1, <1>2

LEMMA ParsedLines ==
  ASSUME NEW f, IsFile(f)
  PROVE  /\ Len(f.lines) \in Nat /\ Len(Log!Parsed(f)) \in Nat
         /\ Len(Log!Parsed(f)) <= Len(f.lines)
         /\ Len(Log!Parsed(f)) < Len(f.lines) => ~ Clean(f, Len(f.lines))
         /\ Len(Log!Parsed(f)) = Len(f.lines) =>
              f.lines = <<>> \/ f.lines[Len(f.lines)] # Garbage
         /\ \A i \in 1..Len(Log!Parsed(f)) : Log!Parsed(f)[i] = f.lines[i]
<1> DEFINE seq == f.lines
           k == Len(seq)
<1>1. seq \in Seq(Line) /\ k \in Nat
  BY DEF IsFile
<1>2. CASE seq # <<>> /\ Log!Last(seq) = Garbage
  <2>1. k # 0 /\ seq[k] = Garbage
    BY <1>1, <1>2 DEF Log!Last
  <2>2. Log!Parsed(f) = SubSeq(seq, 1, k - 1)
    BY <1>2 DEF Log!Parsed, Log!Front
  <2>3. /\ Len(SubSeq(seq, 1, k - 1)) = k - 1
        /\ \A i \in 1..k - 1 : SubSeq(seq, 1, k - 1)[i] = seq[i]
    BY <1>1, <2>1
  <2> HIDE DEF k
  <2>4. ~ Clean(f, k)
    BY <1>1, <2>1 DEF Clean
  <2> QED BY <1>1, <2>1, <2>2, <2>3, <2>4 DEF k
<1>3. CASE ~ (seq # <<>> /\ Log!Last(seq) = Garbage)
  <2>1. Log!Parsed(f) = seq
    BY <1>3 DEF Log!Parsed
  <2>2. seq = <<>> \/ seq[k] # Garbage
    BY <1>3 DEF Log!Last
  <2> QED BY <1>1, <2>1, <2>2
<1> QED BY <1>2, <1>3

(* resume_all makes a beginning of h of a file that holds no more.           *)
LEMMA LoadIsBeginning ==
  ASSUME NEW h \in Seq(Move), NEW f, IsFile(f), Holds(f, h), Log!Loads(f)
  PROVE  /\ Len(Log!Load(f)) \in 0..Len(h)
         /\ Log!Load(f) = SubSeq(h, 1, Len(Log!Load(f)))
         /\ Records(f, Log!Load(f))
<1> DEFINE k == Len(Log!Parsed(f))
           g == Log!Load(f)
<1>1. /\ k \in Nat /\ Len(f.lines) \in Nat /\ k <= Len(f.lines)
      /\ k < Len(f.lines) => ~ Clean(f, Len(f.lines))
      /\ \A i \in 1..k : Log!Parsed(f)[i] = f.lines[i]
  BY ParsedLines
<1>2. \A i \in 1..k : Log!Parsed(f)[i] # Garbage
  BY DEF Log!Loads
<1>3. g = [i \in 1..k |-> Log!Parsed(f)[i].m]
  BY DEF Log!Load
<1> HIDE DEF k, g
<1>4. \A n \in 0..k : Clean(f, n)
  BY <1>1, <1>2 DEF Clean
<1>5. ASSUME NEW n \in 1..k
      PROVE  n <= Len(h) /\ f.lines[n] = Log!MoveLine(n - 1, h[n]) /\ g[n] = h[n]
  <2>1. n <= Len(h) /\ f.lines[n] = Log!MoveLine(n - 1, h[n])
    BY <1>1, <1>4 DEF Holds
  <2>2. n \in 1..Len(h) /\ n - 1 \in Nat
    BY <2>1
  <2>3. f.lines[n].m = h[n]
    BY <2>1, <2>2, MoveLines
  <2> QED BY <1>1, <1>3, <2>1, <2>3
<1>6. k <= Len(h)
  <2>1. CASE k = 0
    BY <2>1
  <2>2. CASE k # 0
    <3>1. k \in 1..k
      BY <1>1, <2>2
    <3> QED BY <1>5, <3>1
  <2> QED BY <2>1, <2>2
<1>7. \A n \in 1..k : g[n] \in Move
  <2> SUFFICES ASSUME NEW n \in 1..k PROVE g[n] \in Move
    OBVIOUS
  <2>1. n \in 1..Len(h)
    BY <1>1, <1>6
  <2> QED BY <1>5, <2>1
<1>8. g \in Seq(Move) /\ Len(g) = k
  BY <1>1, <1>3, <1>7
<1>9. g = SubSeq(h, 1, k)
  <2>1. k \in 0..Len(h)
    BY <1>1, <1>6
  <2> QED BY <1>5, <1>8, <2>1, PrefixFacts, SameElements
<1>10. Holds(f, g) /\ Whole(f, g)
  <2>1. ASSUME NEW n \in 1..Len(f.lines), Clean(f, n) PROVE n <= k
    <3>1. CASE n <= k
      BY <3>1
    <3>2. CASE ~ (n <= k)
      <4>1. k + 1 \in 1..n /\ k + 1 \in 1..Len(f.lines) /\ Clean(f, k + 1)
        BY <1>1, <2>1, <3>2 DEF Clean
      <4>2. k + 1 = Len(f.lines)
        <5>1. CASE k = Len(f.lines)
          BY <1>1, <4>1, <5>1
        <5>2. CASE f.lines # <<>> /\ Log!Last(f.lines) = Garbage
          BY <5>2 DEF k, Log!Parsed, Log!Front, IsFile
        <5>3. CASE ~ (f.lines # <<>> /\ Log!Last(f.lines) = Garbage)
          BY <1>1, <4>1, <5>3 DEF k, Log!Parsed
        <5> QED BY <5>1, <5>2, <5>3
      <4> QED BY <1>1, <4>1, <4>2
    <3> QED BY <3>1, <3>2
  <2>2. Holds(f, g)
    BY <1>1, <1>5, <1>8, <2>1 DEF Holds
  <2>3. Whole(f, g)
    BY <1>1, <1>8 DEF Whole
  <2> QED BY <2>2, <2>3
<1> QED BY <1>1, <1>6, <1>8, <1>9, <1>10 DEF Records, g

(* A file without damage reads back as the log behind it.                   *)
LEMMA CleanReadsBack ==
  ASSUME NEW h \in Seq(Move), NEW f, Records(f, h), Clean(f, Len(f.lines))
  PROVE  Log!Loads(f) /\ Log!Load(f) = h
<1> DEFINE k == Len(f.lines)
<1>1. /\ k \in Nat /\ Len(Log!Parsed(f)) = k
      /\ \A i \in 1..k : Log!Parsed(f)[i] = f.lines[i]
  BY ParsedLines DEF Records
<1>2. k = Len(h)
  BY DEF Records, Whole
<1>3. ASSUME NEW i \in 1..k
      PROVE  f.lines[i] # Garbage /\ f.lines[i].ply = i - 1 /\ f.lines[i].m = h[i]
  <2>1. Clean(f, i)
    BY <1>1 DEF Clean
  <2>2. f.lines[i] = Log!MoveLine(i - 1, h[i])
    BY <2>1 DEF Records, Holds
  <2>3. i - 1 \in Nat /\ h[i] \in Move
    BY <1>1, <1>2
  <2> QED BY <2>2, <2>3, MoveLines
<1> HIDE DEF k
<1>4. Log!Loads(f)
  BY <1>1, <1>3 DEF Log!Loads
<1>5. Log!Load(f) = [i \in 1..k |-> h[i]]
  BY <1>1, <1>3 DEF Log!Load
<1>6. h = [i \in 1..Len(h) |-> h[i]]
  OBVIOUS
<1> QED BY <1>2, <1>4, <1>5, <1>6

-----------------------------------------------------------------------------
(* The invariant                                                           *)

(* A message in flight has its type, and a part carries moves.               *)
Typed(m) ==
  /\ IsMessage(m)
  /\ m.type = "SYNC_STATE" =>
       \A k \in 1..m.ply : PartOf(k) = m.part => m.moves[k] \in Move

SpeechTypes ==
  /\ DOMAIN lastOut = Peer /\ DOMAIN buf = Peer
  /\ \A p \in Peer : \A m \in lastOut[p] : Typed(m)
  /\ \A p \in Peer : \A m \in buf[p] : Typed(m) /\ m.type = "SYNC_STATE"
  /\ \A m \in net : Typed(m)

(* A peer whose game is not on has no session and nothing in its log.        *)
WaitingIsIdle ==
  /\ DOMAIN status = Peer /\ DOMAIN session = Peer
  /\ \A p \in Peer : Waiting(p) => log[p] = <<>> /\ ~ session[p]

(* A log replays, and the file of a peer that can start records it.          *)
FilesRecord ==
  /\ log \in [Peer -> Seq(Move)] /\ DOMAIN file = Peer
  /\ LogsReplay
  /\ \A p \in Peer : IsFile(file[p])
  /\ \A p \in Peer \ down : Records(file[p], log[p])

DiskInv ==
  /\ SpeechTypes
  /\ WaitingIsIdle
  /\ FilesRecord
  /\ restarts \in Nat
  /\ ~ lost => IInv

-----------------------------------------------------------------------------
(* What a step does to one peer's log and file                              *)

Stays(p) == log'[p] = log[p] /\ file'[p] = file[p]

Appended(p, m) ==
  /\ Legal(log[p], m) /\ ~ Waiting(p)
  /\ log'[p] = Append(log[p], m)
  /\ file'[p] = Log!AppendTo(file[p], Len(log[p]), m)

Replaced(p) ==
  /\ log'[p] \in Seq(Move) /\ Replays(log'[p])
  /\ Len(log'[p]) >= Len(log[p])
  /\ Waiting(p) => log'[p] = log[p]
  /\ file'[p] = Log!Dump(log'[p])

Resumed(p, h) ==
  /\ h \in Seq(Move) /\ Replays(h)
  /\ Waiting(p) => h = log[p]
  /\ IsFile(file'[p]) /\ Holds(file'[p], h)
  /\ Log!Loads(file'[p]) /\ log'[p] = Log!Load(file'[p])

Broken(p) == IsFile(file'[p]) /\ log'[p] = log[p] /\ p \in down'

Touches(p) ==
  /\ p \notin down /\ log' = [log EXCEPT ![p] = log'[p]] /\ DOMAIN file' = Peer
  /\ \A r \in Peer \ {p} : Stays(r) /\ (r \notin down' => r \notin down)

(* A running peer's step, and a restart.                                    *)
RunStep(p) == Touches(p) /\ (Stays(p) \/ Replaced(p) \/ \E m \in Move : Appended(p, m))
RestartStep(p) == Touches(p) /\ (Broken(p) \/ \E h : Resumed(p, h))

FileStep(p) == RunStep(p) \/ RestartStep(p)

LEMMA FileStepKeeps ==
  ASSUME WaitingIsIdle, FilesRecord, NEW p \in Peer, FileStep(p)
  PROVE  /\ FilesRecord'
         /\ \A r \in Peer : Waiting(r) => log'[r] = <<>>
<1> DEFINE Good(r) == /\ log'[r] \in Seq(Move) /\ Replays(log'[r])
                      /\ IsFile(file'[r])
                      /\ r \notin down' => Records(file'[r], log'[r])
                      /\ Waiting(r) => log'[r] = <<>>
<1>1. \A r \in Peer :
        /\ log[r] \in Seq(Move) /\ Replays(log[r]) /\ IsFile(file[r])
        /\ r \notin down => Records(file[r], log[r])
        /\ Waiting(r) => log[r] = <<>>
  BY DEF WaitingIsIdle, FilesRecord, LogsReplay
<1>2. \A r \in Peer \ {p} : Good(r)
  BY <1>1 DEF FileStep, RunStep, RestartStep, Touches, Stays
<1>3. Good(p)
  <2>1. CASE Stays(p)
    BY <1>1, <2>1 DEF FileStep, RunStep, RestartStep, Touches, Stays
  <2>2. ASSUME NEW m \in Move, Appended(p, m) PROVE Good(p)
    <3>1. log'[p] = Append(log[p], m) /\ Legal(log[p], m) /\ ~ Waiting(p)
      BY <2>2 DEF Appended
    <3>2. log'[p] \in Seq(Move) /\ Replays(log'[p])
      BY <1>1, <3>1, ReplaysAppend, AppendExtends
    <3>3. Records(file'[p], log'[p])
      <4>1. Records(file[p], log[p]) /\ log[p] \in Seq(Move)
        BY <1>1 DEF FileStep, RunStep, RestartStep, Touches
      <4>2. file'[p] = Log!Write(file[p], Log!MoveLine(Len(log[p]), m), TRUE)
        BY <2>2 DEF Appended, Log!AppendTo
      <4> QED BY <3>1, <4>1, <4>2, WriteRecords
    <3> QED BY <3>1, <3>2, <3>3 DEF Records
  <2>3. CASE Replaced(p)
    <3>1. Records(file'[p], log'[p])
      BY <2>3, DumpRecords DEF Replaced
    <3> QED BY <1>1, <2>3, <3>1 DEF Replaced, Records
  <2>4. ASSUME NEW h, Resumed(p, h) PROVE Good(p)
    <3> DEFINE g == log'[p]
    <3>1. /\ Len(g) \in 0..Len(h) /\ g = SubSeq(h, 1, Len(g)) /\ Records(file'[p], g)
          /\ h \in Seq(Move) /\ Replays(h)
      BY <2>4, LoadIsBeginning DEF Resumed
    <3> HIDE DEF g
    <3>2. g \in Seq(Move) /\ Replays(g)
      BY <3>1, ReplaysPrefix, PrefixFacts
    <3>3. Waiting(p) => g = <<>>
      <4>1. SUFFICES ASSUME Waiting(p) PROVE g = <<>>
        OBVIOUS
      <4>2. h = <<>>
        BY <1>1, <2>4, <4>1 DEF Resumed
      <4>3. Len(g) = 0
        BY <3>1, <4>2
      <4> QED BY <3>2, <4>3
    <3> QED BY <3>1, <3>2, <3>3 DEF Records, g
  <2>5. CASE Broken(p)
    BY <1>1, <2>5 DEF Broken
  <2> QED BY <2>1, <2>2, <2>3, <2>4, <2>5 DEF FileStep, RunStep, RestartStep
<1>4. \A r \in Peer : Good(r)
  BY <1>2, <1>3
<1> HIDE DEF Good
<1>5. log' \in [Peer -> Seq(Move)] /\ DOMAIN file' = Peer
  <2>1. log'[p] \in Seq(Move)
    BY <1>4 DEF Good
  <2> QED BY <2>1 DEF FileStep, RunStep, RestartStep, Touches, FilesRecord
<1> QED BY <1>4, <1>5 DEF FilesRecord, LogsReplay, Good

-----------------------------------------------------------------------------
(* Every step is one of these.                                              *)

LEMMA StandsStill ==
  ASSUME FilesRecord, NEW p \in Peer, p \notin down, UNCHANGED <<log, file, down>>
  PROVE  RunStep(p)
BY DEF FilesRecord, RunStep, Touches, Stays

LEMMA OneAppended ==
  ASSUME FilesRecord, NEW p \in Peer, p \notin down, ~ Waiting(p), UNCHANGED down,
         NEW m \in Move, Legal(log[p], m), log' = [log EXCEPT ![p] = Append(@, m)],
         FileAppended(p)
  PROVE  RunStep(p)
<1>1. log[p] \in Seq(Move) /\ log'[p] = Append(log[p], m)
  BY DEF FilesRecord
<1>2. log'[p] # log[p] /\ Last(log'[p]) = m
  <2> DEFINE h == log[p]
             g == Append(h, m)
  <2>1. Len(g) = Len(h) + 1 /\ Len(h) \in Nat /\ g[Len(h) + 1] = m
    BY <1>1, AppendExtends
  <2> HIDE DEF h, g
  <2>2. Last(g) = m /\ g # h
    BY <2>1 DEF Last
  <2> QED BY <1>1, <2>2 DEF g, h
<1>3. file' = [file EXCEPT ![p] = Log!AppendTo(file[p], Len(log[p]), m)]
  BY <1>2 DEF FileAppended
<1> QED BY <1>1, <1>3 DEF FilesRecord, RunStep, Touches, Stays, Appended

LEMMA OneReplaced ==
  ASSUME FilesRecord, NEW p \in Peer, p \notin down, UNCHANGED down,
         NEW h \in Seq(Move), Replays(h), Len(h) >= Len(log[p]), Waiting(p) => h = log[p],
         log' = [log EXCEPT ![p] = h], FileDumped(p)
  PROVE  RunStep(p)
<1>1. log'[p] = h /\ \A r \in Peer \ {p} : log'[r] = log[r]
  BY DEF FilesRecord
<1>2. CASE file' = file /\ h = log[p]
  BY <1>1, <1>2 DEF FilesRecord, RunStep, Touches, Stays
<1>3. CASE file' = [file EXCEPT ![p] = Log!Dump(log'[p])]
  BY <1>1, <1>3 DEF FilesRecord, RunStep, Touches, Stays, Replaced
<1> QED BY <1>1, <1>2, <1>3 DEF FileDumped

LEMMA OneResumed ==
  ASSUME FilesRecord, NEW p \in Peer, p \notin down,
         NEW h \in Seq(Move), Replays(h), Waiting(p) => h = log[p],
         NEW f, NEW n, IsFile(f), Holds(f, h), Resume(p, f, n)
  PROVE  RestartStep(p)
<1>1. file' = [file EXCEPT ![p] = f] /\ file'[p] = f
  BY DEF Resume, FilesRecord
<1>2. CASE Log!Loads(f)
  <2>1. log' = [log EXCEPT ![p] = Log!Load(f)] /\ down' = down
    BY <1>2 DEF Resume
  <2> QED BY <1>1, <1>2, <2>1 DEF FilesRecord, RestartStep, Touches, Stays, Resumed
<1>3. CASE ~ Log!Loads(f)
  <2>1. log' = log /\ down' = down \cup {p}
    BY <1>3 DEF Resume
  <2> QED BY <1>1, <2>1 DEF FilesRecord, RestartStep, Touches, Stays, Broken
<1> QED BY <1>2, <1>3

LEMMA UserRunStep ==
  ASSUME DiskInv, NEW p \in Peer, DiskUserStep(p)
  PROVE  RunStep(p)
<1>1. FilesRecord /\ p \notin down /\ UNCHANGED down /\ FileAppended(p)
  BY DEF DiskInv, DiskUserStep, Running
<1>2. ASSUME NEW m \in Move, SubmitMove(p, m) PROVE RunStep(p)
  <2>1. /\ Legal(log[p], m) /\ ~ Waiting(p)
        /\ log' = [log EXCEPT ![p] = Append(@, m)]
    BY <1>2 DEF SubmitMove, MayPlay, our_turn, Waiting
  <2> QED BY <1>1, <2>1, OneAppended
<1>3. CASE Invite(p) \/ Resign(p) \/ OfferDraw(p) \/ AcceptDraw(p) \/ Nudge(p)
  <2>1. log' = log
    BY <1>3 DEF Invite, Resign, OfferDraw, AcceptDraw, Nudge
  <2>2. file' = file
    BY <1>1, <2>1 DEF FileAppended
  <2> QED BY <1>1, <2>1, <2>2, StandsStill
<1> QED BY <1>2, <1>3 DEF DiskUserStep, UserStep

LEMMA ReceiveRunStep ==
  ASSUME DiskInv, NEW p \in Peer, DiskReceiveStep(p) \/ DiskReceiveReject(p)
  PROVE  RunStep(p)
<1>1. FilesRecord /\ SpeechTypes /\ p \notin down /\ UNCHANGED down
  BY DEF DiskInv, DiskReceiveStep, DiskReceiveReject, Running
<1>2. ASSUME NEW msg \in Inbox(p, "MOVE"), ReceiveMove(p, msg), FileAppended(p)
      PROVE  RunStep(p)
  <2>1. msg.move \in Move
    BY <1>1 DEF SpeechTypes, Typed, IsMessage, Inbox
  <2>2. CASE log' = log
    <3>1. file' = file
      BY <1>2, <2>2 DEF FileAppended
    <3> QED BY <1>1, <2>2, <3>1, StandsStill
  <2>3. CASE log' # log
    <3>1. Legal(log[p], msg.move)
      BY <1>2, <2>3 DEF ReceiveMove, Applies, Verdict
    <3>2. ~ Waiting(p) /\ log' = [log EXCEPT ![p] = Append(@, msg.move)]
      BY <1>2, <2>3 DEF ReceiveMove, Playing, Waiting
    <3> QED BY <1>1, <1>2, <2>1, <3>1, <3>2, OneAppended
  <2> QED BY <2>2, <2>3
<1>3. CASE /\ FileAppended(p)
           /\ \/ ReceiveDupInvite(p) \/ ReceiveDecline(p) \/ ReceiveResign(p)
              \/ ReceiveDrawOffer(p) \/ ReceiveDrawAccept(p) \/ ReceiveSyncRequest(p)
  <2>1. log' = log
    BY <1>3 DEF ReceiveDupInvite, ReceiveDecline, ReceiveResign, ReceiveDrawOffer,
                ReceiveDrawAccept, ReceiveSyncRequest
  <2>2. file' = file
    BY <1>3, <2>1 DEF FileAppended
  <2> QED BY <1>1, <2>1, <2>2, StandsStill
<1>4. CASE DiskReceiveReject(p)
  BY <1>1, <1>4, StandsStill DEF DiskReceiveReject, ReceiveReject
<1> QED BY <1>2, <1>3, <1>4 DEF DiskReceiveStep, ReceiveStep

(* The parts of one snapshot make a sequence of moves.                      *)
LEMMA AssembledMoves ==
  ASSUME NEW b, \A m \in b : Typed(m) /\ m.type = "SYNC_STATE", NEW n \in Nat,
         \A m \in b : m.ply = n, Complete(b, n)
  PROVE  Assembled(b, n) \in Seq(Move) /\ Len(Assembled(b, n)) = n
<1> DEFINE At(k) == (CHOOSE m \in b : m.part = PartOf(k)).moves[k]
<1>1. ASSUME NEW k \in 1..n PROVE At(k) \in Move
  <2>1. PartOf(k) \in PartsOf(n)
    BY DEF PartsOf
  <2>2. \E m \in b : m.part = PartOf(k)
    BY <2>1 DEF Complete
  <2>3. PICK part : part = (CHOOSE m \in b : m.part = PartOf(k))
    OBVIOUS
  <2>4. part \in b /\ part.part = PartOf(k)
    BY <2>2, <2>3
  <2>5. part.moves[k] \in Move
    BY <2>4 DEF Typed
  <2> QED BY <2>3, <2>5
<1>2. Assembled(b, n) = [k \in 1..n |-> At(k)]
  BY DEF Assembled
<1> HIDE DEF At
<1>3. [k \in 1..n |-> At(k)] \in Seq(Move) /\ Len([k \in 1..n |-> At(k)]) = n
  BY <1>1
<1> QED BY <1>2, <1>3

LEMMA SyncBuffer ==
  ASSUME SpeechTypes, NEW p \in Peer, NEW msg \in Inbox(p, "SYNC_STATE")
  PROVE  /\ msg.ply \in Nat
         /\ \A m \in Buffered(buf[p], msg) :
              Typed(m) /\ m.type = "SYNC_STATE" /\ m.ply = msg.ply
<1>1. msg \in net /\ msg.type = "SYNC_STATE" /\ Typed(msg)
  BY DEF SpeechTypes, Inbox
<1> QED BY <1>1 DEF SpeechTypes, Buffered, SameSnapshot, Typed, IsMessage

LEMMA LogRunStep ==
  ASSUME DiskInv, NEW p \in Peer, DiskReceiveLog(p)
  PROVE  RunStep(p)
<1>1. /\ FilesRecord /\ SpeechTypes /\ WaitingIsIdle /\ p \notin down /\ UNCHANGED down
      /\ FileDumped(p)
  BY DEF DiskInv, DiskReceiveLog, Running
<1>2. log[p] \in Seq(Move) /\ Len(log[p]) \in Nat /\ Replays(log[p])
  BY <1>1 DEF FilesRecord, LogsReplay
<1>3. CASE log' = log
  <2> DEFINE h == log[p]
  <2>1. log' = [log EXCEPT ![p] = h]
    BY <1>1, <1>3 DEF FilesRecord
  <2>2. h \in Seq(Move) /\ Replays(h) /\ Len(h) >= Len(log[p]) /\ h = log[p]
    BY <1>2
  <2> HIDE DEF h
  <2> QED BY <1>1, <2>1, <2>2, OneReplaced
<1>4. CASE ReceiveInvite(p)
  BY <1>3, <1>4 DEF ReceiveInvite
<1>5. CASE ReceiveAccept(p)
  <2>1. log[p] = <<>>
    BY <1>1, <1>5 DEF ReceiveAccept, WaitingIsIdle, Waiting
  <2>2. log' = log
    BY <1>1, <1>5, <2>1 DEF ReceiveAccept, FilesRecord
  <2> QED BY <1>3, <2>2
<1>6. ASSUME NEW msg \in Inbox(p, "SYNC_STATE"), ReceiveSyncState(p, msg)
      PROVE  RunStep(p)
  <2> DEFINE b == Buffered(buf[p], msg)
             moves == Assembled(b, msg.ply)
  <2>1. CASE log' # log
    <3>1. /\ session[p] /\ Complete(b, msg.ply) /\ ~ (msg.ply <= Len(log[p]))
          /\ Replays(moves) /\ log' = [log EXCEPT ![p] = moves]
      BY <1>6, <2>1 DEF ReceiveSyncState, Adoptable
    <3>2. msg.ply \in Nat /\ moves \in Seq(Move) /\ Len(moves) = msg.ply
      BY <1>1, <3>1, SyncBuffer, AssembledMoves
    <3> HIDE DEF moves, b
    <3>3. Len(moves) >= Len(log[p])
      BY <1>2, <3>1, <3>2
    <3>4. ~ Waiting(p)
      BY <1>1, <3>1 DEF WaitingIsIdle
    <3> QED BY <1>1, <3>1, <3>2, <3>3, <3>4, OneReplaced
  <2> QED BY <1>3, <2>1
<1> QED BY <1>4, <1>5, <1>6 DEF DiskReceiveLog, ReceiveLog

(* A crash inside an append happens to a peer that plays or is told a move.   *)
LEMMA AppendsLegal ==
  ASSUME NEW p \in Peer, NEW m \in Move, CrashAppending(p, m) \/ CrashAfterSend(p, m)
  PROVE  Legal(log[p], m) /\ ~ Waiting(p)
<1>1. CASE MayPlay(p, m)
  BY <1>1 DEF MayPlay, our_turn, Waiting
<1>2. ASSUME NEW msg \in Inbox(p, "MOVE"), Playing(p), msg.move = m,
             Applies(Verdict(log[p], msg))
      PROVE  Legal(log[p], m) /\ ~ Waiting(p)
  BY <1>2 DEF Playing, Waiting, Applies, Verdict
<1> QED BY <1>1, <1>2 DEF CrashAppending, CrashAfterSend

LEMMA CrashRestartStep ==
  ASSUME DiskInv, NEW p \in Peer,
         DiskRestart(p) \/ \E m \in Move : CrashAppending(p, m) \/ CrashAfterSend(p, m)
  PROVE  RestartStep(p)
<1>1. FilesRecord /\ p \notin down
  BY DEF DiskInv, DiskRestart, CrashAppending, CrashAfterSend
<1>2. log[p] \in Seq(Move) /\ Replays(log[p]) /\ Records(file[p], log[p])
  BY <1>1 DEF FilesRecord, LogsReplay
<1>3. CASE DiskRestart(p)
  BY <1>1, <1>2, <1>3, OneResumed DEF DiskRestart, Records
<1>4. ASSUME NEW m \in Move, CrashAppending(p, m) \/ CrashAfterSend(p, m)
      PROVE  RestartStep(p)
  <2>1. Append(log[p], m) \in Seq(Move) /\ Replays(Append(log[p], m)) /\ ~ Waiting(p)
    BY <1>2, <1>4, AppendsLegal, ReplaysAppend, AppendExtends
  <2>2. CASE CrashAppending(p, m)
    <3>1. PICK f \in Log!Interrupted(file[p], Len(log[p]), m) : Resume(p, f, Len(log[p]))
      BY <2>2 DEF CrashAppending
    <3>2. IsFile(f) /\ Holds(f, Append(log[p], m))
      BY <1>2, <3>1, InterruptedHolds
    <3> QED BY <1>1, <2>1, <3>1, <3>2, OneResumed
  <2>3. CASE CrashAfterSend(p, m)
    <3> DEFINE f == Log!AppendTo(file[p], Len(log[p]), m)
    <3>1. Resume(p, f, Len(log[p]) + 1)
      BY <2>3 DEF CrashAfterSend
    <3>2. f \in Log!Interrupted(file[p], Len(log[p]), m)
      BY DEF Log!Interrupted
    <3> HIDE DEF f
    <3>3. IsFile(f) /\ Holds(f, Append(log[p], m))
      BY <1>2, <3>2, InterruptedHolds
    <3> QED BY <1>1, <2>1, <3>1, <3>3, OneResumed
  <2> QED BY <1>4, <2>2, <2>3
<1> QED BY <1>3, <1>4

LEMMA EveryStepIsAFileStep ==
  ASSUME DiskInv, DiskNext
  PROVE  \E p \in Peer : FileStep(p)
BY UserRunStep, ReceiveRunStep, LogRunStep, CrashRestartStep DEF DiskNext, FileStep

-----------------------------------------------------------------------------
(* What a step says, remembers and buffers is typed, however far the logs     *)
(* have diverged.                                                          *)

Says ==
  /\ DOMAIN lastOut' = Peer /\ DOMAIN buf' = Peer
  /\ \A m \in net' : m \in net \/ Typed(m) \/ \E p \in Peer : m \in lastOut[p]
  /\ \A p \in Peer : \A m \in lastOut'[p] : m \in lastOut[p] \/ Typed(m)
  /\ \A p \in Peer : \A m \in buf'[p] : m \in buf[p] \/ m \in Inbox(p, "SYNC_STATE")

LEMMA SaysTypes ==
  ASSUME SpeechTypes, Says PROVE SpeechTypes'
BY DEF SpeechTypes, Says, Inbox

LEMMA PlainTyped ==
  ASSUME NEW p \in Peer, NEW t \in MsgTypes \ {"MOVE", "SYNC_STATE"}
  PROVE  Typed(Plain(t, p))
BY PeerFacts DEF Typed, IsMessage, Plain

LEMMA MoveTyped ==
  ASSUME NEW p \in Peer, NEW h \in Seq(Move), NEW m \in Move
  PROVE  Typed(MoveMsg(p, h, m))
<1>1. Len(h) \in Nat
  OBVIOUS
<1> QED BY <1>1, PeerFacts DEF Typed, IsMessage, MoveMsg, MsgTypes

LEMMA SyncTyped ==
  ASSUME FilesRecord, NEW p \in Peer, NEW m \in SyncState(p)
  PROVE  Typed(m)
<1>1. log[p] \in Seq(Move) /\ Len(log[p]) \in Nat
  BY DEF FilesRecord
<1>2. PICK i \in PartsOf(Len(log[p])) : m = SyncPart(p, i)
  BY DEF SyncState
<1>3. /\ m.type = "SYNC_STATE" /\ m.to = Other(p) /\ m.ply = Len(log[p]) /\ m.part = i
      /\ m.moves = Slice(log[p], i)
  BY <1>2 DEF SyncPart
<1>4. ASSUME NEW k \in 1..Len(log[p]), PartOf(k) = i PROVE m.moves[k] \in Move
  BY <1>1, <1>3, <1>4 DEF Slice
<1> QED BY <1>1, <1>2, <1>3, <1>4, PeerFacts DEF Typed, IsMessage, MsgTypes

LEMMA PlainSays ==
  ASSUME SpeechTypes, NEW p \in Peer, NEW t \in MsgTypes \ {"MOVE", "SYNC_STATE"},
         net' = net \/ Send({Plain(t, p)}), UNCHANGED <<lastOut, buf>>
  PROVE  Says
BY PlainTyped DEF Send, Says, SpeechTypes

LEMMA UserSays ==
  ASSUME SpeechTypes, FilesRecord, NEW p \in Peer, UserStep(p)
  PROVE  Says
<1>1. CASE Invite(p)
  BY <1>1, PlainSays DEF Invite, MsgTypes
<1>2. ASSUME NEW m \in Move, SubmitMove(p, m) PROVE Says
  <2>1. Typed(MoveMsg(p, log[p], m))
    BY MoveTyped DEF FilesRecord
  <2> QED BY <1>2, <2>1 DEF SubmitMove, Send, Says, SpeechTypes
<1>3. CASE Resign(p)
  BY <1>3, PlainSays DEF Resign, MsgTypes
<1>4. CASE OfferDraw(p)
  BY <1>4, PlainSays DEF OfferDraw, MsgTypes
<1>5. CASE AcceptDraw(p)
  BY <1>5, PlainSays DEF AcceptDraw, MsgTypes
<1>6. CASE Nudge(p)
  <2>1. CASE Nudged(p) = {Plain("INVITE", p)}
    BY <1>6, <2>1, PlainSays DEF Nudge, MsgTypes
  <2>2. CASE Nudged(p) = {Plain("SYNC_REQUEST", p)}
    BY <1>6, <2>2, PlainSays DEF Nudge, MsgTypes
  <2>3. CASE Nudged(p) \subseteq lastOut[p]
    BY <1>6, <2>3 DEF Nudge, Send, Says, SpeechTypes
  <2> QED BY <2>1, <2>2, <2>3 DEF Nudged, our_turn
<1> QED BY <1>1, <1>2, <1>3, <1>4, <1>5, <1>6 DEF UserStep

LEMMA ReceiveSays ==
  ASSUME SpeechTypes, FilesRecord, NEW p \in Peer,
         ReceiveLog(p) \/ ReceiveStep(p) \/ ReceiveReject(p)
  PROVE  Says
<1>1. CASE ReceiveInvite(p)
  BY <1>1, PlainSays DEF ReceiveInvite, MsgTypes
<1>2. CASE ReceiveAccept(p) \/ ReceiveDecline(p) \/ ReceiveResign(p)
           \/ ReceiveDrawOffer(p) \/ ReceiveDrawAccept(p)
  BY <1>2 DEF ReceiveAccept, ReceiveDecline, ReceiveResign, ReceiveDrawOffer,
              ReceiveDrawAccept, Says, SpeechTypes
<1>3. CASE ReceiveDupInvite(p)
  BY <1>3, PlainSays DEF ReceiveDupInvite, MsgTypes
<1>4. ASSUME NEW msg \in Inbox(p, "MOVE"), ReceiveMove(p, msg) PROVE Says
  <2>1. PICK v : Send(Answer(p, v)) /\ UNCHANGED <<lastOut, buf>>
    BY <1>4 DEF ReceiveMove
  <2>2. CASE Answer(p, v) = {}
    BY <2>1, <2>2 DEF Send, Says, SpeechTypes
  <2>3. CASE Answer(p, v) = {Plain("SYNC_REQUEST", p)}
    BY <2>1, <2>3, PlainSays DEF MsgTypes
  <2>4. CASE Answer(p, v) = {Plain("REJECT", p)}
    BY <2>1, <2>4, PlainSays DEF MsgTypes
  <2> QED BY <2>2, <2>3, <2>4 DEF Answer
<1>5. CASE ReceiveSyncRequest(p)
  BY <1>5, SyncTyped DEF ReceiveSyncRequest, Send, Says, SpeechTypes
<1>6. ASSUME NEW msg \in Inbox(p, "SYNC_STATE"), ReceiveSyncState(p, msg) PROVE Says
  <2>1. Buffered(buf[p], msg) \subseteq buf[p] \cup {msg}
    BY DEF Buffered
  <2>2. UNCHANGED <<lastOut, net>>
    BY <1>6 DEF ReceiveSyncState
  <2>3. buf' = [buf EXCEPT ![p] = Buffered(buf[p], msg)] \/ buf' = [buf EXCEPT ![p] = {}]
    BY <1>6 DEF ReceiveSyncState
  <2> QED BY <2>1, <2>2, <2>3 DEF Says, SpeechTypes
<1>7. CASE ReceiveReject(p)
  BY <1>7, PlainSays DEF ReceiveReject, MsgTypes
<1> QED BY <1>1, <1>2, <1>3, <1>4, <1>5, <1>6, <1>7 DEF ReceiveLog, ReceiveStep

LEMMA CrashSays ==
  ASSUME SpeechTypes, FilesRecord, NEW p \in Peer, Crash(p),
         net' = net \/ \E m \in Move : Send({MoveMsg(p, log[p], m)})
  PROVE  Says
<1>1. \A m \in Move : Typed(MoveMsg(p, log[p], m))
  BY MoveTyped DEF FilesRecord
<1> QED BY <1>1 DEF Crash, Send, Says, SpeechTypes

LEMMA EveryStepSays ==
  ASSUME DiskInv, DiskNext
  PROVE  Says
<1>1. SpeechTypes /\ FilesRecord
  BY DEF DiskInv
<1>2. ASSUME NEW p \in Peer,
             DiskUserStep(p) \/ DiskReceiveStep(p) \/ DiskReceiveLog(p) \/ DiskReceiveReject(p)
      PROVE  Says
  BY <1>1, <1>2, UserSays, ReceiveSays
     DEF DiskUserStep, DiskReceiveStep, DiskReceiveLog, DiskReceiveReject
<1>3. ASSUME NEW p \in Peer,
             DiskRestart(p) \/ \E m \in Move : CrashAppending(p, m) \/ CrashAfterSend(p, m)
      PROVE  Says
  BY <1>1, <1>3, CrashSays DEF DiskRestart, CrashAppending, CrashAfterSend
<1> QED BY <1>2, <1>3 DEF DiskNext

-----------------------------------------------------------------------------
(* A game that is on stays on, and only one that is on gets a session.       *)

GoesOn ==
  /\ DOMAIN status' = Peer /\ DOMAIN session' = Peer
  /\ \A p \in Peer : Waiting(p)' => Waiting(p) /\ (session'[p] => session[p])
  /\ restarts' = restarts \/ restarts' = restarts + 1

LEMMA UserGoesOn ==
  ASSUME WaitingIsIdle, NEW p \in Peer, UserStep(p)
  PROVE  GoesOn
<1>1. CASE Invite(p)
  BY <1>1 DEF Invite, GoesOn, WaitingIsIdle, Waiting
<1>2. ASSUME NEW m \in Move, SubmitMove(p, m) PROVE GoesOn
  BY <1>2 DEF SubmitMove, CheckFinished, Finish, GoesOn, WaitingIsIdle, Waiting
<1>3. CASE Resign(p) \/ AcceptDraw(p)
  BY <1>3 DEF Resign, AcceptDraw, Finish, GoesOn, WaitingIsIdle, Waiting
<1>4. CASE OfferDraw(p) \/ Nudge(p)
  BY <1>4 DEF OfferDraw, Nudge, GoesOn, WaitingIsIdle, Waiting
<1> QED BY <1>1, <1>2, <1>3, <1>4 DEF UserStep

LEMMA ReceiveGoesOn ==
  ASSUME WaitingIsIdle, NEW p \in Peer,
         ReceiveLog(p) \/ ReceiveStep(p) \/ ReceiveReject(p)
  PROVE  GoesOn
<1>1. CASE ReceiveInvite(p)
  BY <1>1 DEF ReceiveInvite, GoesOn, WaitingIsIdle, Waiting
<1>2. CASE ReceiveAccept(p)
  BY <1>2 DEF ReceiveAccept, GoesOn, WaitingIsIdle, Waiting
<1>3. CASE ReceiveDecline(p) \/ ReceiveResign(p) \/ ReceiveDrawAccept(p)
  BY <1>3 DEF ReceiveDecline, ReceiveResign, ReceiveDrawAccept, Finish, GoesOn,
              WaitingIsIdle, Waiting
<1>4. CASE UNCHANGED <<status, session, restarts>>
  BY <1>4 DEF GoesOn, WaitingIsIdle, Waiting
<1>5. CASE ReceiveDupInvite(p) \/ ReceiveDrawOffer(p) \/ ReceiveSyncRequest(p)
           \/ ReceiveReject(p)
  BY <1>4, <1>5 DEF ReceiveDupInvite, ReceiveDrawOffer, ReceiveSyncRequest, ReceiveReject
<1>6. ASSUME NEW msg \in Inbox(p, "MOVE"), ReceiveMove(p, msg) PROVE GoesOn
  BY <1>6 DEF ReceiveMove, CheckFinished, Finish, GoesOn, WaitingIsIdle, Waiting
<1>7. ASSUME NEW msg \in Inbox(p, "SYNC_STATE"), ReceiveSyncState(p, msg) PROVE GoesOn
  <2>1. UNCHANGED <<session, restarts>>
    BY <1>7 DEF ReceiveSyncState
  <2>2. \/ status' = status
        \/ \E st \in {"finished", "broken"} : status' = [status EXCEPT ![p] = st]
    BY <1>7 DEF ReceiveSyncState, CheckFinished, Finish
  <2> QED BY <2>1, <2>2 DEF GoesOn, WaitingIsIdle, Waiting
<1> QED BY <1>1, <1>2, <1>3, <1>5, <1>6, <1>7 DEF ReceiveLog, ReceiveStep

LEMMA EveryStepGoesOn ==
  ASSUME DiskInv, DiskNext
  PROVE  GoesOn
<1>1. WaitingIsIdle
  BY DEF DiskInv
<1>2. ASSUME NEW p \in Peer,
             DiskUserStep(p) \/ DiskReceiveStep(p) \/ DiskReceiveLog(p) \/ DiskReceiveReject(p)
      PROVE  GoesOn
  BY <1>1, <1>2, UserGoesOn, ReceiveGoesOn
     DEF DiskUserStep, DiskReceiveStep, DiskReceiveLog, DiskReceiveReject
<1>3. ASSUME NEW p \in Peer,
             DiskRestart(p) \/ \E m \in Move : CrashAppending(p, m) \/ CrashAfterSend(p, m)
      PROVE  GoesOn
  <2>1. UNCHANGED <<status, session>> /\ restarts' = restarts + 1
    BY <1>3 DEF DiskRestart, CrashAppending, CrashAfterSend, Crash
  <2> QED BY <1>1, <2>1 DEF GoesOn, WaitingIsIdle, Waiting
<1> QED BY <1>2, <1>3 DEF DiskNext

-----------------------------------------------------------------------------
(* As long as nothing is lost                                              *)

(* A restart that loses nothing is one GamePeer has.                        *)
LEMMA WholeRestart ==
  ASSUME FilesRecord, NEW p \in Peer, p \notin down, NEW h \in Seq(Move),
         NEW f, IsFile(f), Holds(f, h), NEW n \in Nat, Resume(p, f, n), ~ lost'
  PROVE  /\ Len(log'[p]) \in n..Len(h) /\ log'[p] = SubSeq(h, 1, Len(log'[p]))
         /\ log' = [log EXCEPT ![p] = log'[p]]
<1>1. /\ Log!Loads(f) /\ log' = [log EXCEPT ![p] = Log!Load(f)]
      /\ ~ (Len(log'[p]) < n)
  BY DEF Resume
<1>2. log'[p] = Log!Load(f)
  BY <1>1 DEF FilesRecord
<1>3. Len(log'[p]) \in 0..Len(h) /\ log'[p] = SubSeq(h, 1, Len(log'[p]))
  BY <1>1, <1>2, LoadIsBeginning
<1>4. Len(log'[p]) \in n..Len(h)
  BY <1>1, <1>3
<1> QED BY <1>1, <1>2, <1>3, <1>4

LEMMA SafeStep ==
  ASSUME DiskInv, DiskNext, ~ lost'
  PROVE  IInv'
<1>1. ~ lost
  BY DEF DiskNext, DiskUserStep, DiskReceiveStep, DiskReceiveLog, DiskReceiveReject,
         Running, DiskRestart, CrashAppending, CrashAfterSend, Resume
<1>2. IInv /\ FilesRecord
  BY <1>1 DEF DiskInv
<1>3. ASSUME NEW p \in Peer, DiskUserStep(p) \/ DiskReceiveStep(p) \/ DiskReceiveLog(p)
      PROVE  Next
  BY <1>3 DEF DiskUserStep, DiskReceiveStep, DiskReceiveLog, Next
<1>4. ASSUME NEW p \in Peer, DiskReceiveReject(p) PROVE Next
  BY <1>2, <1>4 DEF DiskReceiveReject, ReceiveReject, Inbox, IInv, NoFalseAccusation
<1>5. ASSUME NEW p \in Peer, p \notin down, ~ Waiting(p)
      PROVE  /\ log[p] \in Seq(Move) /\ Len(log[p]) \in Nat /\ Records(file[p], log[p])
             /\ SubSeq(log[p], 1, Len(log[p])) = log[p]
             /\ log = [log EXCEPT ![p] = log[p]]
  BY <1>2, <1>5 DEF FilesRecord
<1>6. ASSUME NEW p \in Peer, DiskRestart(p) PROVE Next
  <2> DEFINE h == log[p]
  <2>1. /\ h \in Seq(Move) /\ Len(h) \in Nat /\ Records(file[p], h) /\ SubSeq(h, 1, Len(h)) = h
        /\ log = [log EXCEPT ![p] = h]
    BY <1>2, <1>6 DEF FilesRecord, DiskRestart
  <2>2. Resume(p, file[p], Len(h)) /\ p \notin down
    BY <1>6 DEF DiskRestart
  <2> HIDE DEF h
  <2>3. /\ Len(log'[p]) \in Len(h)..Len(h) /\ log'[p] = SubSeq(h, 1, Len(log'[p]))
        /\ log' = [log EXCEPT ![p] = log'[p]]
    BY <1>2, <2>1, <2>2, WholeRestart DEF Records
  <2>4. Len(log'[p]) = Len(h)
    BY <2>1, <2>3
  <2>5. log' = log
    BY <2>1, <2>3, <2>4
  <2> QED BY <1>6, <2>5 DEF DiskRestart, Restart, CrashStep, Next
<1>7. ASSUME NEW p \in Peer, NEW m \in Move, CrashAppending(p, m) PROVE Next
  <2> DEFINE h == log[p]
             hm == Append(h, m)
  <2>1. /\ h \in Seq(Move) /\ Len(h) \in Nat /\ Records(file[p], h) /\ p \notin down
        /\ log = [log EXCEPT ![p] = h]
    BY <1>2, <1>7 DEF FilesRecord, CrashAppending
  <2>2. /\ hm \in Seq(Move) /\ Len(hm) = Len(h) + 1 /\ SubSeq(hm, 1, Len(h)) = h
        /\ SubSeq(hm, 1, Len(hm)) = hm
    BY <2>1, AppendExtends
  <2>3. PICK f \in Log!Interrupted(file[p], Len(h), m) : Resume(p, f, Len(h))
    BY <1>7 DEF CrashAppending
  <2>4. IsFile(f) /\ Holds(f, hm)
    BY <2>1, <2>3, InterruptedHolds
  <2>5. ~ Waiting(p) /\ Crash(p) /\ UNCHANGED <<session, net>>
    BY <1>7, AppendsLegal DEF CrashAppending
  <2> HIDE DEF h, hm
  <2>6. /\ Len(log'[p]) \in Len(h)..Len(hm) /\ log'[p] = SubSeq(hm, 1, Len(log'[p]))
        /\ log' = [log EXCEPT ![p] = log'[p]]
    BY <1>2, <2>1, <2>2, <2>3, <2>4, WholeRestart
  <2>7. Len(log'[p]) = Len(h) \/ Len(log'[p]) = Len(hm)
    BY <2>1, <2>2, <2>6
  <2>8. CASE Len(log'[p]) = Len(h)
    <3>1. log' = log
      BY <2>1, <2>2, <2>6, <2>8
    <3>2. status[p] # "none"
      BY <2>5 DEF Waiting
    <3> QED BY <2>5, <3>1, <3>2 DEF Restart, CrashStep, Next
  <2>9. CASE Len(log'[p]) = Len(hm)
    <3>1. log' = [log EXCEPT ![p] = hm]
      BY <2>2, <2>6, <2>9
    <3>2. log' = [log EXCEPT ![p] = Append(@, m)]
      BY <3>1 DEF hm, h
    <3>3. CASE MayPlay(p, m)
      BY <2>5, <3>2, <3>3 DEF CrashInSubmit, CrashStep, Next
    <3>4. ASSUME NEW msg \in Inbox(p, "MOVE"), Playing(p), msg.move = m,
                 ~ OutOfTurn(p, msg), Applies(Verdict(log[p], msg))
          PROVE  Next
      BY <2>5, <3>2, <3>4 DEF CrashInReceiveMove, CrashStep, Next
    <3> QED BY <1>7, <3>3, <3>4 DEF CrashAppending
  <2> QED BY <2>7, <2>8, <2>9
<1>8. ASSUME NEW p \in Peer, NEW m \in Move, CrashAfterSend(p, m) PROVE Next
  <2> DEFINE h == log[p]
             hm == Append(h, m)
             f == Log!AppendTo(file[p], Len(h), m)
  <2>1. /\ h \in Seq(Move) /\ Len(h) \in Nat /\ Records(file[p], h) /\ p \notin down
    BY <1>2, <1>8 DEF FilesRecord, CrashAfterSend
  <2>2. /\ hm \in Seq(Move) /\ Len(hm) = Len(h) + 1 /\ SubSeq(hm, 1, Len(hm)) = hm
    BY <2>1, AppendExtends
  <2>3. Resume(p, f, Len(h) + 1)
    BY <1>8 DEF CrashAfterSend
  <2>4. f \in Log!Interrupted(file[p], Len(h), m)
    BY DEF Log!Interrupted
  <2> HIDE DEF f
  <2>5. IsFile(f) /\ Holds(f, hm)
    BY <2>1, <2>4, InterruptedHolds
  <2>6. MayPlay(p, m) /\ Send({MoveMsg(p, log[p], m)}) /\ Crash(p) /\ UNCHANGED session
    BY <1>8 DEF CrashAfterSend
  <2> HIDE DEF h, hm
  <2>7. /\ Len(log'[p]) \in Len(h) + 1..Len(hm) /\ log'[p] = SubSeq(hm, 1, Len(log'[p]))
        /\ log' = [log EXCEPT ![p] = log'[p]]
    BY <1>2, <2>1, <2>2, <2>3, <2>5, WholeRestart
  <2>8. Len(log'[p]) = Len(hm)
    BY <2>1, <2>2, <2>7
  <2>9. log' = [log EXCEPT ![p] = hm]
    BY <2>2, <2>7, <2>8
  <2>10. log' = [log EXCEPT ![p] = Append(@, m)]
    BY <2>9 DEF hm, h
  <2> QED BY <2>6, <2>10 DEF CrashInSubmit, CrashStep, Next
<1>9. Next
  BY <1>3, <1>4, <1>6, <1>7, <1>8 DEF DiskNext
<1> QED BY <1>2, <1>9, NextIInv

-----------------------------------------------------------------------------
(* DiskInv is inductive                                                     *)

LEMMA InitDiskInv ==
  ASSUME DiskInit
  PROVE  DiskInv
<1>1. Init /\ IInv /\ TypeOK
  BY InitIInv DEF DiskInit, IInv
<1>2. \A p \in Peer : log[p] = <<>> /\ ~ session[p]
  BY <1>1 DEF Init
<1>3. SpeechTypes /\ WaitingIsIdle /\ restarts \in Nat
  BY <1>1, <1>2 DEF Init, TypeOK, SpeechTypes, WaitingIsIdle
<1>4. \A p \in Peer : Records(file[p], log[p])
  <2> SUFFICES ASSUME NEW p \in Peer PROVE Records(file[p], log[p])
    OBVIOUS
  <2>1. file[p] = Log!Dump(log[p]) /\ log[p] \in Seq(Move)
    BY <1>1, <1>2 DEF DiskInit, TypeOK
  <2> QED BY <2>1, DumpRecords
<1>5. FilesRecord
  BY <1>1, <1>4 DEF DiskInit, TypeOK, IInv, FilesRecord, LogsReplay, Records
<1> QED BY <1>1, <1>3, <1>5 DEF DiskInv

LEMMA NextDiskInv ==
  ASSUME DiskInv, [DiskNext]_diskVars
  PROVE  DiskInv'
<1>1. CASE UNCHANGED diskVars
  BY <1>1 DEF diskVars, vars, DiskInv, SpeechTypes, WaitingIsIdle, Waiting, FilesRecord,
              LogsReplay, IInv, TypeOK, LeadAtMostOne, MessagesTruthful, Truthful,
              NoFalseAccusation, QuietUntilAccepted
<1>2. CASE DiskNext
  <2>1. SpeechTypes'
    BY <1>2, EveryStepSays, SaysTypes DEF DiskInv
  <2>2. FilesRecord' /\ \A p \in Peer : Waiting(p) => log'[p] = <<>>
    BY <1>2, EveryStepIsAFileStep, FileStepKeeps DEF DiskInv
  <2>3. GoesOn
    BY <1>2, EveryStepGoesOn
  <2>4. WaitingIsIdle'
    BY <2>2, <2>3 DEF GoesOn, DiskInv, WaitingIsIdle
  <2>5. (restarts \in Nat)'
    BY <2>3 DEF GoesOn, DiskInv
  <2>6. ~ lost' => IInv'
    BY <1>2, SafeStep
  <2> QED BY <2>1, <2>2, <2>4, <2>5, <2>6 DEF DiskInv
<1> QED BY <1>1, <1>2

-----------------------------------------------------------------------------
(* The theorems                                                            *)

(* However often peers crash, inside an append or outside, everything in    *)
(* flight is well typed, a log replays, the file of a peer that can start   *)
(* records its log, and until something is lost GamePeer's own invariant    *)
(* stands (GamePeer._resume, MoveLog.load, MoveLog.append_to).              *)
THEOREM DiskInvariance == DiskSpec => []DiskInv
<1>1. DiskInit => DiskInv
  BY InitDiskInv
<1>2. DiskInv /\ [DiskNext]_diskVars => DiskInv'
  BY NextDiskInv
<1> QED BY <1>1, <1>2, PTL DEF DiskSpec

(* An interrupted append costs the protocol nothing while the files lose no  *)
(* completed move: a restart from such a file is a restart GamePeer has.     *)
THEOREM SafeTillLost == DiskSpec => []SafeUntilLost
<1>1. IInv => OneHistory
  BY IInvLogs, AlignedIsOneHistory
<1>2. DiskInv => SafeUntilLost
  BY <1>1 DEF DiskInv, IInv, SafeUntilLost
<1> QED BY <1>2, DiskInvariance, PTL

(* Whatever the files lost, every log is a legal game from its first move    *)
(* (apply_wire_move, adopt_log and resume let nothing else in).              *)
THEOREM LogsAlwaysReplay == DiskSpec => []LogsReplay
<1>1. DiskInv => LogsReplay
  BY DEF DiskInv, FilesRecord
<1> QED BY <1>1, DiskInvariance, PTL

(* A file in which every line parses reads back as the log in memory         *)
(* (MoveLog.dump, append_to and load agree).                                *)
THEOREM FilesReadBack == DiskSpec => []CleanFileIsLog
<1>1. ASSUME DiskInv PROVE CleanFileIsLog
  <2> SUFFICES ASSUME NEW p \in Peer \ down, Clean(file[p], Len(file[p].lines))
               PROVE  Log!Loads(file[p]) /\ Log!Load(file[p]) = log[p]
    BY DEF CleanFileIsLog, Clean
  <2>1. log[p] \in Seq(Move) /\ Records(file[p], log[p])
    BY <1>1 DEF DiskInv, FilesRecord
  <2> QED BY <2>1, CleanReadsBack
<1> QED BY <1>1, DiskInvariance, PTL

(* A running peer's log never gets shorter: a move is appended or a longer   *)
(* history adopted. Only a restart loses moves (adopt_log, append_to).       *)
THEOREM OnlyARestartShrinks == DiskSpec => ShrinksOnlyAtRestart
<1> DEFINE Kept == restarts' = restarts => \A p \in Peer : Len(log'[p]) >= Len(log[p])
<1>1. ASSUME DiskInv, [DiskNext]_diskVars PROVE [Kept]_diskVars
  <2> SUFFICES ASSUME DiskNext, restarts' = restarts, NEW r \in Peer
               PROVE  Len(log'[r]) >= Len(log[r])
    BY <1>1
  <2>1. log[r] \in Seq(Move) /\ Len(log[r]) \in Nat
    BY <1>1 DEF DiskInv, FilesRecord
  <2>2. \A p \in Peer : ~ Crash(p)
    BY <1>1 DEF Crash, DiskInv
  <2>3. PICK p \in Peer : RunStep(p)
    BY <1>1, <2>2, UserRunStep, ReceiveRunStep, LogRunStep
       DEF DiskNext, DiskRestart, CrashAppending, CrashAfterSend
  <2>4. CASE log'[r] = log[r]
    BY <2>1, <2>4
  <2>5. CASE \E m \in Move : log'[r] = Append(log[r], m)
    BY <2>1, <2>5, AppendExtends
  <2>6. CASE Len(log'[r]) >= Len(log[r])
    BY <2>6
  <2> QED BY <2>3, <2>4, <2>5, <2>6 DEF RunStep, Touches, Stays, Appended, Replaced
<1> QED BY <1>1, DiskInvariance, PTL DEF DiskSpec, ShrinksOnlyAtRestart
=============================================================================
