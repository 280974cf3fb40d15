------------------------------- MODULE Codec -------------------------------
(***************************************************************************)
(* What is put on a link and how it is read: the binary frames and the text  *)
(* lines of proto/messages.py, the cards of proto/lobby.py, and what a person *)
(* types. A byte is a number, and so is a character: texts are ASCII, each    *)
(* character its one byte. A message is its type, gid, ply and the fields its  *)
(* type carries.                                                           *)
(***************************************************************************)
EXTENDS Integers, Sequences

CONSTANTS Message,         \* messages peers send: [t, gid, ply, fields]
          Card,            \* cards nodes publish: [public_key, games, name, published_at]
          Typed,           \* what people type, as bytes
          Catalog,         \* the number of games a card can name
          GID_LEN, PUBLIC_KEY_LEN, SIGNATURE_LEN, MAX_NAME_LEN,
          Sign(_),         \* the signature of these bytes by their author
          Noise            \* bytes a link may add

VARIABLES form,      \* "frame", "line", "card" or "typed"; "none" before anything is sent
          sent_,     \* the message, the card or the text
          payload    \* its bytes, as far as the link has brought them

codecVars == <<form, sent_, payload>>

Byte == 0..255
VERSION == 1
MsgType == <<"INVITE", "ACCEPT", "DECLINE", "MOVE", "CHAT", "RESIGN", "DRAW_OFFER", "DRAW_ACCEPT",
             "SYNC_REQUEST", "SYNC_STATE", "REJECT">>
RejectReasons == 1..5

ValueOf(t) == CHOOSE value \in 1..Len(MsgType) : MsgType[value] = t

(* The fields of each type, in the order both codecs write them.            *)
Layout(t) ==
  CASE t = "INVITE" -> <<"word", "word", "note">>
    [] t \in {"DECLINE", "CHAT"} -> <<"note">>
    [] t = "MOVE" -> <<"blob", "blob">>
    [] t = "SYNC_STATE" -> <<"byte", "byte", "blob", "blobs">>
    [] t = "REJECT" -> <<"byte", "blob">>
    [] OTHER -> <<>>

(* "bad chunking", "unknown reject reason"                                  *)
FieldsSound(t, fields) ==
  /\ t = "SYNC_STATE" => fields[1] < fields[2]
  /\ t = "REJECT" => fields[1] \in RejectReasons

(* The parts of a text in a row, from the last one on.                      *)
Concat(parts) ==
  LET n == Len(parts)
      last[k \in 0..n] == IF k = 0 THEN <<>> ELSE parts[n + 1 - k] \o last[k - 1]
  IN  last[n]

(* The result of reading: a value and what is left, or a WireError.         *)
WireError == [ok |-> FALSE]
Read(value, rest) == [ok |-> TRUE, value |-> value, rest |-> rest]

(* One more value after those read before.                                  *)
Then(before, one) ==
  IF before.ok /\ one.ok THEN Read(Append(before.value, one.value), one.rest) ELSE WireError

-----------------------------------------------------------------------------
(* The binary codec                                                         *)

(* to_bytes(2, "big"), to_bytes(4, "big") and int.from_bytes.                *)
Short(n) == <<n \div 256, n % 256>>
FromShort(bytes) == 256 * bytes[1] + bytes[2]
Long(n) == Short(n \div 65536) \o Short(n % 65536)
FromLong(bytes) == 65536 * FromShort(SubSeq(bytes, 1, 2)) + FromShort(SubSeq(bytes, 3, 4))

Blob(data) == <<Len(data)>> \o data

Put(kind, value) ==
  CASE kind = "byte" -> <<value>>
    [] kind = "blobs" -> Short(Len(value)) \o Concat([i \in 1..Len(value) |-> Blob(value[i])])
    [] OTHER -> Blob(value)

HeaderOf(m) == <<VERSION * 16 + ValueOf(m.t)>> \o m.gid \o Short(m.ply)
encode_binary(m) ==
  HeaderOf(m) \o Concat([i \in 1..Len(m.fields) |-> Put(Layout(m.t)[i], m.fields[i])])

take(n, data) ==
  IF n > Len(data) THEN WireError
  ELSE Read(SubSeq(data, 1, n), SubSeq(data, n + 1, Len(data)))

take_lp(data) == IF data = <<>> THEN WireError ELSE take(data[1], Tail(data))

take_blobs(count, data) ==
  LET read[i \in 0..count] ==
        IF i = 0 THEN Read(<<>>, data) ELSE Then(read[i - 1], take_lp(read[i - 1].rest))
  IN  read[count]

TakeField(kind, data) ==
  CASE kind = "byte" -> IF data = <<>> THEN WireError ELSE Read(data[1], Tail(data))
    [] kind = "blobs" -> LET count == take(2, data)
                         IN  IF count.ok THEN take_blobs(FromShort(count.value), count.rest)
                             ELSE WireError
    [] OTHER -> take_lp(data)

TakeFields(kinds, data) ==
  LET read[i \in 0..Len(kinds)] ==
        IF i = 0 THEN Read(<<>>, data)
        ELSE Then(read[i - 1], TakeField(kinds[i], read[i - 1].rest))
  IN  read[Len(kinds)]

(* Mutant of done: what follows the last field is not looked at.            *)
done_anyway(read) == read.ok

done(read) == read.ok /\ read.rest = <<>>

decode_binary(data) ==
  LET head == take(1 + GID_LEN + 2, data)
      b0 == data[1]
      t == MsgType[b0 % 16]
      body == TakeFields(Layout(t), head.rest)
  IN  IF /\ data # <<>> /\ b0 \div 16 = VERSION /\ b0 % 16 \in DOMAIN MsgType
         /\ head.ok /\ done(body) /\ FieldsSound(t, body.value)
      THEN [t |-> t, gid |-> SubSeq(head.value, 2, 1 + GID_LEN),
            ply |-> FromShort(SubSeq(head.value, 2 + GID_LEN, 3 + GID_LEN)), fields |-> body.value]
      ELSE WireError

-----------------------------------------------------------------------------
(* The text codec. A line is its words; a hex digit, or a number, is written  *)
(* as 256 and the value, other characters as themselves.                    *)

Dash == <<45>>
Comma == 44
Blank == 32
Newline == 10
Percent == 37
Escape == [c \in {Percent, Blank, Newline} |->
             CASE c = Percent -> <<37, 50, 53>> [] c = Blank -> <<37, 50, 48>> [] OTHER -> <<37, 48, 65>>]
White == 9..13 \cup 28..32

Unless(empty, text) == IF text = <<>> THEN empty ELSE text

(* _q: the percent sign is replaced first, so no escape is escaped again.    *)
q(text) ==
  Unless(Dash, Concat([i \in 1..Len(text) |->
                 IF text[i] \in DOMAIN Escape THEN Escape[text[i]] ELSE <<text[i]>>]))

(* text.replace(Escape[c], c): no two occurrences overlap.                  *)
Occurs(c, text, i) == i \in 1..Len(text) - 2 /\ SubSeq(text, i, i + 2) = Escape[c]
Unescaped(c, text) ==
  Concat([i \in 1..Len(text) |->
            IF Occurs(c, text, i) THEN <<c>>
            ELSE IF Occurs(c, text, i - 1) \/ Occurs(c, text, i - 2) THEN <<>>
            ELSE <<text[i]>>])

uq(text) ==
  IF text = Dash THEN <<>>
  ELSE Unescaped(Percent, Unescaped(Blank, Unescaped(Newline, text)))

Hex(data) == [i \in 1..Len(data) |-> 256 + data[i]]
FromHex(word) == [i \in 1..Len(word) |-> word[i] - 256]

(* sep.join, text.split(sep): the pieces between, empty ones included.       *)
Join(sep, words) ==
  Concat([i \in 1..Len(words) |-> IF i = 1 THEN words[i] ELSE <<sep>> \o words[i]])
Pieces(seps, text) ==
  LET n == Len(text)
      last[k \in 0..n] ==
        IF k = 0 THEN << <<>> >>
        ELSE IF text[n + 1 - k] \in seps THEN << <<>> >> \o last[k - 1]
        ELSE [last[k - 1] EXCEPT ![1] = <<text[n + 1 - k]>> \o @]
  IN  last[n]

(* line.strip().split(): the pieces that are not empty.                     *)
Words(seps, text) ==
  LET pieces == Pieces(seps, text)
  IN  Concat([i \in 1..Len(pieces) |-> IF pieces[i] = <<>> THEN <<>> ELSE <<pieces[i]>>])

Written(kind, value) ==
  CASE kind = "byte" -> Hex(<<value>>)
    [] kind = "word" -> value
    [] kind = "note" -> q(value)
    [] kind = "blob" -> Hex(value)
    [] kind = "blobs" -> Unless(Dash, Join(Comma, [i \in 1..Len(value) |-> Hex(value[i])]))

encode_text(m) ==
  Join(Blank, <<Hex(m.gid), Hex(<<ValueOf(m.t)>>), Hex(<<m.ply>>)>>
                \o [i \in 1..Len(m.fields) |-> Written(Layout(m.t)[i], m.fields[i])])

Understood(kind, word) ==
  CASE kind = "byte" -> FromHex(word)[1]
    [] kind = "word" -> word
    [] kind = "note" -> uq(word)
    [] kind = "blob" -> FromHex(word)
    [] kind = "blobs" -> IF word = Dash THEN <<>>
                         ELSE LET each == Pieces({Comma}, word)
                              IN  [i \in 1..Len(each) |-> FromHex(each[i])]

decode_text(line) ==
  LET words == Words(White, line)
      t == MsgType[FromHex(words[2])[1]]
      fields == [i \in 1..Len(Layout(t)) |-> Understood(Layout(t)[i], words[3 + i])]
  IN  IF Len(words) >= 3 /\ Len(words) >= 3 + Len(Layout(t)) /\ FieldsSound(t, fields)
      THEN [t |-> t, gid |-> FromHex(words[1]), ply |-> FromHex(words[3])[1], fields |-> fields]
      ELSE WireError

-----------------------------------------------------------------------------
(* Cards                                                                    *)

(* 1 << index *)
Bit[g \in 0..Catalog] == IF g = 0 THEN 1 ELSE 2 * Bit[g - 1]
games_mask(games) ==
  LET mask[k \in 0..Catalog] ==
        IF k = 0 THEN 0 ELSE mask[k - 1] + (IF k - 1 \in games THEN Bit[k - 1] ELSE 0)
  IN  mask[Catalog]
games_from_mask(mask) == { g \in 0..Catalog - 1 : (mask \div Bit[g]) % 2 = 1 }

CardName(card) ==
  SubSeq(card.name, 1, IF Len(card.name) < MAX_NAME_LEN THEN Len(card.name) ELSE MAX_NAME_LEN)

signed_bytes(card) ==
  <<VERSION>> \o card.public_key \o Long(card.published_at)
    \o <<games_mask(card.games)>> \o Blob(CardName(card))

(* The only signatures there are: those of the cards' authors.              *)
Bodies == { signed_bytes(card) : card \in Card }
Verifies(signature, body) == body \in Bodies /\ signature = Sign(body)

encode_card(card) == signed_bytes(card) \o Sign(signed_bytes(card))

looks_like_card(data) == data # <<>> /\ data[1] = VERSION

(* The key stands for the address it implies.                               *)
decode_card(data) ==
  LET fixed == 1 + PUBLIC_KEY_LEN + 4 + 1 + 1
      body_len == fixed + data[fixed]
      body == SubSeq(data, 1, body_len)
  IN  IF /\ Len(data) >= fixed + SIGNATURE_LEN /\ data[1] = VERSION
         /\ Len(data) = body_len + SIGNATURE_LEN
         /\ Verifies(SubSeq(data, body_len + 1, Len(data)), body)
      THEN [public_key |-> SubSeq(data, 2, 1 + PUBLIC_KEY_LEN),
            games |-> games_from_mask(data[fixed - 1]),
            name |-> SubSeq(body, fixed + 1, body_len),
            published_at |-> FromLong(SubSeq(data, 2 + PUBLIC_KEY_LEN, 5 + PUBLIC_KEY_LEN))]
      ELSE WireError

-----------------------------------------------------------------------------
(* What can be said: every field of its kind, on a line too.                *)

Ascii == 0..127
Text == { text \in Seq(Ascii) : Len(text) <= 255 }
Data == { data \in Seq(Byte) : Len(data) \in 1..255 }
Field(kind) ==
  CASE kind = "byte" -> Byte
    [] kind = "word" -> { word \in Text : word # <<>> /\ \A i \in 1..Len(word) : word[i] \notin White }
    [] kind = "note" -> Text
    [] kind = "blob" -> Data
    [] kind = "blobs" -> { list \in Seq(Data) : Len(list) < 65536 }

ASSUME CodecAssumption ==
  /\ {GID_LEN, PUBLIC_KEY_LEN, SIGNATURE_LEN, MAX_NAME_LEN} \subseteq Nat \ {0}
  /\ MAX_NAME_LEN < 256 /\ Catalog \in 1..8 /\ Noise \subseteq Byte
  /\ \A text \in Typed :
       text \in Seq(Byte) /\ text # <<>> /\ text[1] >= 32   \* ASCII printables, or UTF-8

IsMessage(m) ==
  /\ m = [t |-> m.t, gid |-> m.gid, ply |-> m.ply, fields |-> m.fields]
  /\ \E value \in 1..Len(MsgType) : MsgType[value] = m.t
  /\ m.gid \in Seq(Byte) /\ Len(m.gid) = GID_LEN
  /\ m.ply \in Nat /\ m.ply < 65536
  /\ m.fields = [i \in 1..Len(Layout(m.t)) |-> m.fields[i]]
  /\ \A i \in 1..Len(Layout(m.t)) : m.fields[i] \in Field(Layout(m.t)[i])
  /\ FieldsSound(m.t, m.fields)

IsCard(card) ==
  /\ card = [public_key |-> card.public_key, games |-> card.games, name |-> card.name,
             published_at |-> card.published_at]
  /\ card.public_key \in Seq(Byte) /\ Len(card.public_key) = PUBLIC_KEY_LEN
  /\ card.games \subseteq 0..Catalog - 1
  /\ card.name \in Seq(Ascii)
  /\ card.published_at \in Nat /\ card.published_at \div 65536 < 65536

(* What the link is given was built by the encoders' callers.                *)
ASSUME SentAssumption == (\A m \in Message : IsMessage(m)) /\ (\A card \in Card : IsCard(card))

(* A signature is of the length there is room for, and of one body only.      *)
ASSUME SignatureAssumption ==
  \A body \in Bodies :
    /\ Sign(body) \in Seq(Nat) /\ Len(Sign(body)) = SIGNATURE_LEN
    /\ \A other \in Bodies : Sign(body) = Sign(other) => body = other

-----------------------------------------------------------------------------
(* The link: one payload, cut short or with a byte too many.                *)

CodecInit == form = "none" /\ sent_ = <<>> /\ payload = <<>>

Encoded(f, what) ==
  CASE f = "frame" -> encode_binary(what)
    [] f = "line" -> encode_text(what)
    [] f = "card" -> encode_card(what)
    [] f = "typed" -> what

SendsOne(f, whats) ==
  /\ form = "none" /\ form' = f
  /\ \E what \in whats : sent_' = what /\ payload' = Encoded(f, what)

CutShort ==
  /\ form \in {"frame", "card", "typed"} /\ payload = Encoded(form, sent_)
  /\ \E n \in 0..Len(payload) - 1 : payload' = SubSeq(payload, 1, n)
  /\ UNCHANGED <<form, sent_>>

ByteAdded ==
  /\ form \in {"frame", "card", "typed"} /\ payload = Encoded(form, sent_)
  /\ \E byte \in Noise : payload' = Append(payload, byte)
  /\ UNCHANGED <<form, sent_>>

ByteChanged ==
  /\ form = "card" /\ payload = Encoded(form, sent_)
  /\ \E i \in DOMAIN payload, byte \in Noise : payload' = [payload EXCEPT ![i] = byte]
  /\ UNCHANGED <<form, sent_>>

CodecNext ==
  \/ SendsOne("frame", Message) \/ SendsOne("line", Message)
  \/ SendsOne("card", Card) \/ SendsOne("typed", Typed)
  \/ CutShort \/ ByteAdded \/ ByteChanged

CodecSpec == CodecInit /\ [][CodecNext]_codecVars

-----------------------------------------------------------------------------
(* What a message is after a line: itself, but that a dash alone stands for no *)
(* note, and that white space other than blanks and newlines, which escapes    *)
(* save, parts a note, of which the first part is read; where it is all there  *)
(* is, the line is unreadable ("spaces survive, newlines cannot",             *)
(* messages.py:203).                                                        *)
Parted(note) == Words(White \ {Blank, Newline}, note)

NoteOfLine(note) == IF note = <<>> \/ Parted(note)[1] = Dash THEN <<>> ELSE Parted(note)[1]

OfLine(m) ==
  LET notes == { i \in DOMAIN m.fields : Layout(m.t)[i] = "note" }
  IN  IF \E i \in notes : m.fields[i] # <<>> /\ Parted(m.fields[i]) = <<>> THEN WireError
      ELSE [m EXCEPT !.fields =
              [i \in DOMAIN @ |-> IF i \in notes THEN NoteOfLine(@[i]) ELSE @[i]]]

(* A payload is read as what was sent or not at all. A frame that lost its    *)
(* end or gained a byte is refused, a card also where a byte changed; no kind *)
(* is taken for another, so that a person's words, whole or not, never act on *)
(* a game (lobby.py:81-99, messages.py:9-11).                               *)
ReadAsSent ==
  LET whole == payload = Encoded(form, sent_)
  IN  CASE form = "none" -> TRUE
        [] form = "frame" -> /\ decode_binary(payload) = (IF whole THEN sent_ ELSE WireError)
                             /\ ~looks_like_card(payload)
        [] form = "line" -> decode_text(payload) = OfLine(sent_)
        [] form = "card" -> /\ decode_card(payload) =
                                 (IF whole THEN [sent_ EXCEPT !.name = CardName(sent_)] ELSE WireError)
                            /\ decode_binary(payload) = WireError \/ payload[1] # VERSION
        [] form = "typed" -> ~looks_like_card(payload) /\ decode_binary(payload) = WireError
=============================================================================
