-------------------------------- MODULE Wire --------------------------------
(***************************************************************************)
(* What proto/messages.py makes of a message, as far as its size goes: a    *)
(* move is its length in bytes, a text the widths of its characters, 0 for   *)
(* a blank.                                                                 *)
(***************************************************************************)
EXTENDS Integers, Sequences, FiniteSets

CONSTANTS BUDGET,     \* bytes; the ceiling every message obeys
          HashLen     \* bytes of a state hash

ASSUME WireAssumption == BUDGET \in Nat /\ HashLen \in Nat

Header == 1 + 8 + 2          \* version and type, gid, ply
lp(n) == 1 + n               \* _lp: a length byte and the blob

Total(widths) ==
  LET sum[i \in 0..Len(widths)] == IF i = 0 THEN 0 ELSE sum[i - 1] + widths[i]
  IN  sum[Len(widths)]

(* len(encode_binary(...)) of a SYNC_STATE with these moves, and of a CHAT.  *)
SyncStateSize(moves) ==
  Header + 2 + lp(HashLen) + 2 + Total([i \in 1..Len(moves) |-> lp(moves[i])])
BytesOf(text) == Total([i \in 1..Len(text) |-> IF text[i] = 0 THEN 1 ELSE text[i]])
ChatSize(text) == Header + lp(BytesOf(text))

MAX_NOTE_BYTES == BUDGET - ChatSize(<<>>)

(* Mutant of Grouped: the move that no longer fits is left in its group.    *)
GroupedTwice(groups, mv) ==
  LET last == Append(groups[Len(groups)], mv)
      kept == [groups EXCEPT ![Len(groups)] = last]
  IN  IF SyncStateSize(last) > BUDGET THEN Append(kept, <<mv>>) ELSE kept

(* One move into the last group, or into a new one where it does not fit.    *)
Grouped(groups, mv) ==
  LET last == Append(groups[Len(groups)], mv)
  IN  IF SyncStateSize(last) > BUDGET THEN Append(groups, <<mv>>)
      ELSE [groups EXCEPT ![Len(groups)] = last]

chunk_sync_state(moves) ==
  LET groups[i \in 0..Len(moves)] ==
        IF i = 0 THEN << <<>> >> ELSE Grouped(groups[i - 1], moves[i])
  IN  groups[Len(moves)]

(* decode(errors="ignore") of the first bytes: whole characters only.       *)
Cut(text, limit) ==
  LET n == CHOOSE n \in 0..Len(text) :
             /\ BytesOf(SubSeq(text, 1, n)) <= limit
             /\ n < Len(text) => BytesOf(SubSeq(text, 1, n + 1)) > limit
  IN  SubSeq(text, 1, n)

rstrip(text) ==
  LET n == CHOOSE n \in 0..Len(text) :
             /\ n > 0 => text[n] # 0
             /\ \A i \in n + 1..Len(text) : text[i] = 0
  IN  SubSeq(text, 1, n)

Dots == <<1, 1, 1>>

(* Node.send_chat's clamp: a text that is too long ends in dots.            *)
clamp_note(text) ==
  IF BytesOf(text) <= MAX_NOTE_BYTES THEN text
  ELSE rstrip(Cut(text, MAX_NOTE_BYTES - 3)) \o Dots
=============================================================================
