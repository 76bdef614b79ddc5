----------------------------- MODULE TextCodec -----------------------------
(***************************************************************************)
(* Text between clients, screen model and terminal: a client's bytes come  *)
(* in pieces that may end inside a character, and what it reads is cut to  *)
(* its buffer.  A character is a member of Kinds; a byte is the pair of    *)
(* its character and its place in it.                                      *)
(***************************************************************************)
EXTENDS Naturals, Sequences, SequencesExt

CONSTANTS Kinds,       \* of characters, by their encodings: "ascii", "two", "three", "four"
          MaxText,     \* characters of a text
          Rooms        \* sizes of a reader's buffer, in bytes or UTF-16 units

TextCodecAssumption == /\ Kinds \subseteq {"ascii", "two", "three", "four"}
                       /\ MaxText \in Nat /\ Rooms \subseteq Nat

VARIABLES
  code_page,             \* "utf8" or "gbk", for input and output
  replay,                \* ENABLE_VIRTUAL_TERMINAL_PROCESSING and UTF-8: bytes go on as they are
  stream,                \* the client: bytes it has still to write
  sent, split,           \* history: bytes written; a piece ended inside a character
  _utf8_tail,
  model_text,            \* characters given to the parser and the screen model
  to_terminal_text,      \* bytes sent to the terminal
  _raw_output_mid_sequence,
  _cooked_buf, answer    \* a line read, and the answer to its ReadConsole

vars == <<code_page, replay, stream, sent, split, _utf8_tail, model_text, to_terminal_text,
          _raw_output_mid_sequence, _cooked_buf, answer>>

Bad == "bad"             \* U+FFFD

utf8_length(c) == CASE c = "two" -> 2 [] c = "four" -> 4 [] OTHER -> IF c = "ascii" THEN 1 ELSE 3
gbk_length(c) == IF c \in {"ascii", "four", Bad} THEN 1 ELSE 2
wide_length(c) == IF c = "four" THEN 2 ELSE 1
Length(cp, c) == IF cp = "utf8" THEN utf8_length(c) ELSE gbk_length(c)

Encode(cp, text) ==
  FlattenSeq([k \in DOMAIN text |-> [i \in 1..Length(cp, text[k]) |-> <<text[k], i>>]])

\* external (libunicode), and convert_gbk_to_u32: whole characters, U+FFFD for what is not one.
Decode(cp, bytes) ==
  LET Whole(j) == \A i \in 1..Length(cp, bytes[j][1]) :
                    j + i - 1 \in DOMAIN bytes /\ bytes[j + i - 1] = <<bytes[j][1], i>>
      First(j) == j + 1 - bytes[j][2]
  IN FlattenSeq([j \in DOMAIN bytes |->
       IF bytes[j][2] = 1 THEN <<IF Whole(j) THEN bytes[j][1] ELSE Bad>>
       ELSE IF First(j) \in DOMAIN bytes /\ Whole(First(j)) THEN <<>> ELSE <<Bad>>])

Texts(kinds) == UNION {[1..n -> kinds] : n \in 0..MaxText}
Writable(cp) == IF cp = "utf8" THEN Kinds ELSE Kinds \ {"four"}

Start(cp, raw, text, line) ==
  /\ code_page = cp /\ replay = raw /\ stream = Encode(cp, text) /\ _cooked_buf = line
  /\ sent = <<>> /\ split = FALSE /\ _utf8_tail = <<>> /\ model_text = <<>>
  /\ to_terminal_text = <<>> /\ _raw_output_mid_sequence = FALSE
  /\ answer = [text |-> <<>>, ends |-> 0, room |-> 0, unicode |-> TRUE, made |-> FALSE]

\* A text to write or a line to read.
Init ==
  \E cp \in {"utf8", "gbk"}, raw \in BOOLEAN :
    /\ raw => cp = "utf8"
    /\ \/ \E text \in Texts(Writable(cp)) : Start(cp, raw, text, <<>>)
       \/ \E line \in Texts(Kinds) : Start(cp, raw, <<>>, line)

-----------------------------------------------------------------------------
(* Writing                                                                 *)

\* Mutant: leads of four bytes are taken for leads of three.
BugFourIsThree(bytes) ==
  LET continuations == {k \in 0..3 : k <= Len(bytes) /\
                          \A i \in 0..(k - 1) : bytes[Len(bytes) - i][2] > 1}
      k == CHOOSE n \in continuations : \A m \in continuations : m <= n
      lead == bytes[Len(bytes) - k][1]
      length == IF lead = "four" THEN 3 ELSE utf8_length(lead)
  IN IF k = 3 \/ k = Len(bytes) THEN 0 ELSE IF k + 1 < length THEN k + 1 ELSE 0

\* At most three continuation bytes at the end, and the lead before them.
utf8_incomplete_tail_length(bytes) ==
  LET continuations == {k \in 0..3 : k <= Len(bytes) /\
                          \A i \in 0..(k - 1) : bytes[Len(bytes) - i][2] > 1}
      k == CHOOSE n \in continuations : \A m \in continuations : m <= n
      length == utf8_length(bytes[Len(bytes) - k][1])
  IN IF k = 3 \/ k = Len(bytes) THEN 0 ELSE IF k + 1 < length THEN k + 1 ELSE 0

\* join_utf8_writes: what the last write kept, then this one, without its own unfinished end.
join_utf8_writes(bytes) ==
  LET joined == _utf8_tail \o bytes
      whole == Len(joined) - utf8_incomplete_tail_length(joined)
  IN [text |-> SubSeq(joined, 1, whole), tail |-> SubSeq(joined, whole + 1, Len(joined))]

\* write_console_payload of any number of bytes of the stream.
WriteBytes ==
  \E n \in 1..Len(stream) :
    LET piece == SubSeq(stream, 1, n)
        joined == IF code_page = "utf8" THEN join_utf8_writes(piece)
                  ELSE [text |-> piece, tail |-> _utf8_tail]
        u32s == Decode(code_page, joined.text)
    IN /\ stream' = SubSeq(stream, n + 1, Len(stream)) /\ sent' = sent \o piece
       /\ split' = (split \/ piece[n][2] < Length(code_page, piece[n][1]))
       /\ _utf8_tail' = joined.tail
       /\ model_text' = model_text \o u32s
       /\ to_terminal_text' = to_terminal_text \o IF replay THEN piece ELSE Encode("utf8", u32s)
       /\ _raw_output_mid_sequence' =
            IF replay THEN u32s = <<>> \/ joined.tail # <<>>
            ELSE IF u32s = <<>> THEN _raw_output_mid_sequence ELSE FALSE
       /\ UNCHANGED <<code_page, replay, _cooked_buf, answer>>

-----------------------------------------------------------------------------
(* Reading                                                                 *)

Wide(text) == FoldLeft(LAMBDA n, c : n + wide_length(c), 0, text)
Ansi(text) == FoldLeft(LAMBDA n, c : n + Length(code_page, c), 0, text)
Prefix(text, n) == SubSeq(text, 1, n)

\* Up to the first character that does not fit.
u32_prefix_for_wide_units(text, max_units) ==
  LET over == {k \in DOMAIN text : Wide(Prefix(text, k)) > max_units}
  IN IF over = {} THEN Len(text) ELSE (CHOOSE k \in over : \A j \in over : k <= j) - 1

\* A binary search, since only WideCharToMultiByte knows the length of a text.
u32_prefix_for_ansi_bytes(text, max_bytes) ==
  LET search[first \in 0..Len(text), last \in 0..Len(text)] ==
        IF first >= last THEN first
        ELSE LET mid == first + (last - first + 1) \div 2 IN
             IF Ansi(Prefix(text, mid)) <= max_bytes THEN search[mid, last]
             ELSE search[first, mid - 1]
  IN search[0, Len(text)]

\* prepare_console_read_completion: CR and LF behind the text, as far as they fit; the ANSI
\* form keeps room for both.
prepare_console_read_completion ==
  \E room \in Rooms, unicode \in BOOLEAN :
    LET reserved == IF unicode THEN 0 ELSE 2
        room_for_text == IF room >= reserved THEN room - reserved ELSE 0
        text == Prefix(_cooked_buf, IF unicode THEN u32_prefix_for_wide_units(_cooked_buf, room)
                                    ELSE u32_prefix_for_ansi_bytes(_cooked_buf, room_for_text))
        left == room - IF unicode THEN Wide(text) ELSE Ansi(text)
    IN /\ stream = <<>> /\ sent = <<>> /\ ~answer.made
       /\ answer' = [text |-> text, ends |-> IF left < 2 THEN left ELSE 2, room |-> room,
                     unicode |-> unicode, made |-> TRUE]
       /\ UNCHANGED <<code_page, replay, stream, sent, split, _utf8_tail, model_text,
                      to_terminal_text, _raw_output_mid_sequence, _cooked_buf>>

Next == WriteBytes \/ prepare_console_read_completion

Spec == Init /\ [][Next]_vars

-----------------------------------------------------------------------------
(* Properties                                                              *)

\* The characters of sent whose last byte has come, and whether another has begun.
Arrived ==
  LET last == SelectSeq(sent, LAMBDA b : b[2] = Length(code_page, b[1]))
  IN [k \in DOMAIN last |-> last[k][1]]
Unfinished == sent # <<>> /\ Last(sent)[2] < Length(code_page, Last(sent)[1])

Fits(text) == IF answer.unicode THEN Wide(text) + answer.ends <= answer.room
              ELSE Ansi(text) + answer.ends <= answer.room

\* However a client cuts its text into writes, model and terminal get the same characters,
\* whole and once, and no query is sent inside one (join_utf8_writes, write_console_payload);
\* in GBK this takes pieces of whole characters.  What a client reads is as many whole
\* characters of its line as its buffer has room for (u32_prefix_for_wide_units,
\* u32_prefix_for_ansi_bytes).
CharactersWhole ==
  /\ (code_page = "utf8" \/ ~split) =>
       /\ model_text = Arrived
       /\ to_terminal_text = IF replay THEN sent ELSE Encode("utf8", Arrived)
       /\ replay => (_raw_output_mid_sequence <=> Unfinished)
  /\ answer.made =>
       LET n == Len(answer.text) IN
       /\ IsPrefix(answer.text, _cooked_buf) /\ Fits(answer.text)
       /\ n < Len(_cooked_buf) =>
            IF answer.unicode THEN Wide(Prefix(_cooked_buf, n + 1)) > answer.room
            ELSE Ansi(Prefix(_cooked_buf, n + 1)) + 2 > answer.room
=============================================================================
