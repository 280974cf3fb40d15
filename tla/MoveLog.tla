------------------------------ MODULE MoveLog -------------------------------
(***************************************************************************)
(* The file behind a session's log: core/log.py. After the header (always   *)
(* written whole, by dump) a file is a sequence of lines, the last one with *)
(* or without its newline. A line is the JSON of one move, or Garbage: text *)
(* that is no JSON value.                                                   *)
(***************************************************************************)
EXTENDS Naturals, Sequences, SequencesExt

CONSTANT Garbage   \* a line that does not parse

MoveLine(n, m) == [ply |-> n, m |-> m]

(* dump: the whole log, atomically.                                        *)
Dump(moves) ==
  [lines |-> [i \in 1..Len(moves) |-> MoveLine(i - 1, moves[i])],
   nl |-> TRUE]

(* Text written at the end of the file. When the last line has no newline  *)
(* the text joins that line, and a fragment, or a whole value, followed by  *)
(* more text is no JSON value.                                              *)
Write(f, line, newline) ==
  [lines |-> IF f.nl THEN Append(f.lines, line)
                     ELSE ReplaceAt(f.lines, Len(f.lines), Garbage),
   nl |-> newline]

(* append_to: one line, its newline, fsync.                                *)
AppendTo(f, n, m) == Write(f, MoveLine(n, m), TRUE)

(* What a crash inside append_to can leave: nothing new, a fragment of the  *)
(* line, all of it but the newline, or the finished line.                   *)
Interrupted(f, n, m) ==
  { f,
    Write(f, Garbage, FALSE),
    Write(f, MoveLine(n, m), FALSE),
    AppendTo(f, n, m) }

(* load: a last line that does not parse is dropped, in memory only; any    *)
(* other damage raises LogCorrupt.                                          *)
Parsed(f) == IF f.lines # <<>> /\ Last(f.lines) = Garbage
             THEN Front(f.lines) ELSE f.lines

Loads(f) ==
  \A i \in 1..Len(Parsed(f)) :
    Parsed(f)[i] # Garbage /\ Parsed(f)[i].ply = i - 1

Load(f) == [i \in 1..Len(Parsed(f)) |-> Parsed(f)[i].m]
=============================================================================
