------------------------------ MODULE VtParser ------------------------------
(***************************************************************************)
(* vt_parser fed one character at a time, by clients' output and by the    *)
(* keys the terminal types, and what its users make of the messages: an    *)
(* output message is carried out, an input message becomes key events.     *)
(* Characters are named; "glyph" is any character above ASCII.             *)
(***************************************************************************)
EXTENDS Integers, Sequences, SequencesExt, TLC

CONSTANTS Alphabet,      \* the characters that come
          MaxSequence    \* bound: characters of one sequence

VARIABLES
  side,         \* "output", or how typed keys are read: "keys", "reply", "passthrough"
  parser,       \* vt_parser's members
  drawing,      \* console_state.dec_line_drawing_mode
  translating,  \* the current write is translated to line drawing
  heard,        \* history: the parser's characters since the last message
  message,      \* the last message, and what was heard for it
  delivered,    \* the characters of the key events it became
  abandoned,    \* history: a control character ended an ESC (
  fresh         \* history: what a parser that heard nothing before makes of what was heard

parser_vars == <<side, parser, drawing, translating, heard, message, delivered,
                 abandoned, fresh>>

Controls == {"NUL", "^A", "BEL", "BS", "TAB", "LF", "CR", "SUB", "ESC", "^_", "DEL"}
DigitNames == <<"0", "1", "2", "3", "4", "5", "6", "7", "8", "9">>
Digits == Range(DigitNames)
DigitValue(d) == (CHOOSE n \in 1..10 : DigitNames[n] = d) - 1
Intermediates == {" ", "!", "("}
NotFinal == {"<", ">", "=", ":", "glyph"}

-----------------------------------------------------------------------------
(* Parameters                                                              *)

ShortOf(n) == LET w == n % 65536 IN IF w < 32768 THEN w ELSE w - 65536
MaxParams == 16

_reset_params(p) == [p EXCEPT !.params = <<>>, !.current = 0, !.private = FALSE,
                              !.intermediate = "", !.overflow = FALSE]

_add_param(p) ==
  IF Len(p.params) < MaxParams THEN [p EXCEPT !.params = Append(@, p.current), !.current = 0]
                               ELSE [p EXCEPT !.overflow = TRUE, !.current = 0]

Param(p, i, d) == IF i <= Len(p.params) THEN p.params[i] ELSE d
Positive(p, i, d) == IF Param(p, i, d) = 0 THEN d ELSE Param(p, i, d)
Count(p) == Positive(p, 1, 1)

-----------------------------------------------------------------------------
(* What a complete sequence says: [id, args]; "continue" when it is unknown *)

Says(id, args) == [id |-> id, args |-> args]
NoSequence == Says("continue", <<>>)
\* A table is a set of pairs of a key and a name.
KeysIn(table) == {entry[1] : entry \in table}
NamesIn(table) == {entry[2] : entry \in table}
Entry(table, key) == (CHOOSE entry \in table : entry[1] = key)[2]
Named(table, key) == IF key \in KeysIn(table) THEN Says(Entry(table, key), <<>>) ELSE NoSequence

EscSequences ==
  {<<"M", "reverse_index">>, <<"7", "save_cursor">>, <<"8", "restore_cursor">>,
   <<"H", "horizontal_tab_set">>, <<"=", "keypad_app_mode">>, <<">", "keypad_numeric_mode">>}
_dispatch_esc(c) == Named(EscSequences, c)

Ss3Keys ==
  {<<"A", "key_up">>, <<"B", "key_down">>, <<"C", "key_right">>, <<"D", "key_left">>,
   <<"H", "key_home">>, <<"F", "key_end">>, <<"P", "key_f1">>, <<"Q", "key_f2">>,
   <<"R", "key_f3">>, <<"S", "key_f4">>}
_dispatch_ss3(c) == Named(Ss3Keys, c)

Charsets == {<<"0", "line_drawing">>, <<"B", "ascii">>}
_dispatch_charset(c) == Named(Charsets, c)

CursorMoves ==
  {<<"A", "cursor_up">>, <<"B", "cursor_down">>, <<"C", "cursor_forward">>,
   <<"D", "cursor_backward">>, <<"E", "cursor_next_line">>, <<"F", "cursor_prev_line">>}
ScreenEdits ==
  {<<"S", "scroll_up">>, <<"T", "scroll_down">>, <<"@", "insert_characters">>,
   <<"P", "delete_characters">>, <<"X", "erase_characters">>, <<"L", "insert_lines">>,
   <<"M", "delete_lines">>, <<"I", "cursor_forward_tab">>, <<"Z", "cursor_backward_tab">>}
SetModes ==
  {<<12, "cursor_enable_blinking">>, <<25, "cursor_show">>, <<1, "cursor_keys_app_mode">>,
   <<3, "set_columns_132">>, <<1049, "use_alternate_buffer">>}
ResetModes ==
  {<<12, "cursor_disable_blinking">>, <<25, "cursor_hide">>, <<1, "cursor_keys_normal_mode">>,
   <<3, "set_columns_80">>, <<1049, "use_main_buffer">>}
TabClears == {<<0, "tab_clear_current">>, <<3, "tab_clear_all">>}
TildeKeys ==
  {<<2, "key_insert">>, <<3, "key_delete">>, <<5, "key_page_up">>, <<6, "key_page_down">>,
   <<15, "key_f5">>, <<17, "key_f6">>, <<18, "key_f7">>, <<19, "key_f8">>, <<20, "key_f9">>,
   <<21, "key_f10">>, <<23, "key_f11">>, <<24, "key_f12">>}

\* One SGR parameter v: an attribute set or cleared, or a colour.  `skip' counts the operands
\* an earlier 38 or 48 took; an extended colour that is neither 5 nor 2 spoils the sequence.
SgrFlags == 0 :> "reset" @@ 1 :> "bold" @@ 2 :> "faint" @@ 3 :> "italic" @@ 4 :> "underline"
    @@ 5 :> "blink" @@ 7 :> "negative" @@ 8 :> "conceal" @@ 9 :> "strikethrough"
SgrCleared == 22 :> {"bold", "faint"} @@ 23 :> {"italic"} @@ 24 :> {"underline"} @@ 25 :> {"blink"}
    @@ 27 :> {"negative"} @@ 28 :> {"conceal"} @@ 29 :> {"strikethrough"}
SgrParam(p, sgr, i) ==
  LET v        == p.params[i]
      n        == Len(p.params)
      Colour(which, c) == [sgr EXCEPT ![which] = c]
      ground   == IF v = 38 THEN "fg" ELSE "bg"
  IN  IF sgr.skip > 0 THEN [sgr EXCEPT !.skip = @ - 1]
      ELSE CASE v \in DOMAIN SgrFlags -> [sgr EXCEPT !.set = @ \union {SgrFlags[v]},
                                                  !.cleared = @ \ {SgrFlags[v]}]
        [] v \in DOMAIN SgrCleared -> [sgr EXCEPT !.cleared = @ \union SgrCleared[v],
                                                  !.set = @ \ SgrCleared[v]]
        [] v \in 30..37            -> Colour("fg", <<v - 30>>)
        [] v \in 40..47            -> Colour("bg", <<v - 40>>)
        [] v \in 90..97            -> Colour("fg", <<v - 82>>)
        [] v \in 100..107          -> Colour("bg", <<v - 92>>)
        [] v = 39                  -> Colour("fg", <<"default">>)
        [] v = 49                  -> Colour("bg", <<"default">>)
        [] v \in {38, 48} /\ i < n ->
             IF p.params[i + 1] = 5 /\ i + 2 <= n
             THEN [Colour(ground, <<p.params[i + 2] % 256>>) EXCEPT !.skip = 2]
             ELSE IF p.params[i + 1] = 2 /\ i + 4 <= n
             THEN [Colour(ground, [k \in 1..3 |-> p.params[i + 1 + k] % 256]) EXCEPT !.skip = 4]
             ELSE [sgr EXCEPT !.spoilt = TRUE]
        [] OTHER                   -> sgr
SgrRead(p) ==
  FoldLeft(LAMBDA s, i : IF s.spoilt THEN s ELSE SgrParam(p, s, i),
           [set |-> {}, cleared |-> {}, fg |-> <<>>, bg |-> <<>>, skip |-> 0, spoilt |-> FALSE],
           [i \in 1..Len(p.params) |-> i])
SgrSequence(p) == IF SgrRead(p).spoilt THEN NoSequence ELSE Says("sgr", <<SgrRead(p)>>)

OtherFinals(p, c) ==
  CASE c = "m"                                  -> SgrSequence(p)
    [] c = "q" /\ p.intermediate = " "          -> Says("set_cursor_shape", <<Param(p, 1, 0)>>)
    [] c = "p" /\ p.intermediate = "!"          -> Says("soft_reset", <<>>)
    [] c = "g"                                  -> Named(TabClears, Param(p, 1, 0))
    [] c = "r"                                  -> Says("set_scrolling_region",
                                                        <<Param(p, 1, 1), Param(p, 2, 0)>>)
    [] c = "n" /\ Param(p, 1, 0) = 6            -> Says("report_cursor_position", <<>>)
    [] c = "c"                                  -> Says("device_attributes", <<>>)
    [] c = "R" /\ ~p.private /\ Param(p, 1, 1) > 0 /\ Param(p, 2, 1) > 0 ->
         Says("cpr_response", <<Param(p, 1, 1), Param(p, 2, 1)>>)
    [] c = "_"                                  -> Says("win32_input_key",
                                                        [i \in 1..5 |-> Param(p, i, 0)] \o
                                                        <<Positive(p, 6, 1)>>)
    [] c = "~"                                  -> Named(TildeKeys, Param(p, 1, 0))
    [] OTHER                                    -> NoSequence

_dispatch_csi(p, c) ==
  IF p.overflow THEN NoSequence
  ELSE
  CASE c \in KeysIn(CursorMoves) /\ ~p.private -> Says(Entry(CursorMoves, c), <<Count(p)>>)
    [] c \in KeysIn(ScreenEdits)               -> Says(Entry(ScreenEdits, c), <<Count(p)>>)
    [] c = "G" /\ ~p.private                    -> Says("cursor_horiz_absolute", <<Positive(p, 1, 1)>>)
    [] c = "d" /\ ~p.private                    -> Says("cursor_vert_absolute", <<Positive(p, 1, 1)>>)
    [] c \in {"H", "f"} /\ ~p.private           -> Says("cursor_position",
                                                        <<Positive(p, 1, 1), Positive(p, 2, 1)>>)
    [] c = "s" /\ ~p.private                    -> Says("ansi_save_cursor", <<>>)
    [] c = "u" /\ ~p.private                    -> Says("ansi_restore_cursor", <<>>)
    [] c = "h" /\ p.private                     -> Named(SetModes, Param(p, 1, 0))
    [] c = "l" /\ p.private                     -> Named(ResetModes, Param(p, 1, 0))
    [] c = "t" /\ Param(p, 1, 0) = 8 /\ Param(p, 2, 0) > 0 /\ Param(p, 3, 0) > 0 ->
         Says("resize_window", <<p.params[2], p.params[3]>>)
    [] c \in {"J", "K"}                         -> Says(IF c = "J" THEN "erase_in_display" ELSE "erase_in_line",
                                                        <<Param(p, 1, 0)>>)
    [] OTHER                                    -> OtherFinals(p, c)

\* An OSC that its terminator ended: the code is read again from the raw sequence.  Palette
\* colours (OSC 4) are left out.
EndOfCode(body) == SelectInSeq(body, LAMBDA c : c \notin Digits)
CodeOf(digits) == FoldLeft(LAMBDA n, d : ShortOf(10 * n + DigitValue(d)), 0, digits)
_dispatch_osc(raw) ==
  LET body == SubSeq(raw, 3, Len(raw))
      end  == EndOfCode(body)
      code == CodeOf(SubSeq(body, 1, end - 1))
  IN  IF end = 0 \/ Len(raw) < 3 \/ raw[1] # "ESC" \/ raw[2] # "]" \/ body[end] # ";"
      THEN NoSequence
      ELSE CASE code = 8        -> Says("osc8_hyperlink", <<>>)
             [] code \in {0, 2} -> Says("set_window_title", SubSeq(body, end + 1,
                                     Len(body) - (IF Last(body) = "BEL" THEN 1 ELSE 2)))
             [] OTHER           -> NoSequence

-----------------------------------------------------------------------------
(* One character                                                           *)

Fresh == [mode |-> "ground", raw |-> <<>>, params |-> <<>>, current |-> 0, private |-> FALSE,
          intermediate |-> "", overflow |-> FALSE]

\* The parser after one character, and the message it gives (id "continue": none yet).
Go(p) == [parser |-> p, id |-> "continue", args |-> <<>>, modifier |-> 1]
Ends(p, says) == [parser |-> [p EXCEPT !.mode = "ground"], args |-> says.args, modifier |-> 1,
                  id |-> IF says.id = "continue" THEN "unknown_sequence" ELSE says.id]

GroundControls ==
  {<<"NUL", "char_nul">>, <<"BS", "char_del">>, <<"DEL", "char_del">>, <<"SUB", "char_sub">>,
   <<"TAB", "cursor_forward_tab">>, <<"CR", "carriage_return">>, <<"LF", "line_feed">>,
   <<"^A", "text">>, <<"^_", "text">>, <<"BEL", "text">>}
_parse_ground_control(p, c) ==
  IF c = "ESC" THEN Go([p EXCEPT !.mode = "esc"])
  ELSE [Ends([p EXCEPT !.raw = <<>>], Named(GroundControls, c))
        EXCEPT !.modifier = IF c = "BS" THEN 5 ELSE 1]

_parse_esc(p, c) ==
  CASE c \in Controls  -> Ends(p, NoSequence)
    [] c = "["         -> Go([_reset_params(p) EXCEPT !.mode = "csi"])
    [] c = "]"         -> Go([p EXCEPT !.mode = "osc"])
    [] c = "O"         -> Go([p EXCEPT !.mode = "ss3"])
    [] c = "("         -> Go([p EXCEPT !.intermediate = "("])
    [] OTHER           -> IF p.intermediate = "" THEN Ends(p, _dispatch_esc(c))
                          ELSE Ends([p EXCEPT !.intermediate = ""],
                                    IF p.intermediate = "(" THEN _dispatch_charset(c) ELSE NoSequence)

_parse_csi(p, c) ==
  CASE c \in Controls \union NotFinal -> Ends(_reset_params(p), NoSequence)
    [] c \in Digits        -> Go([p EXCEPT !.current = ShortOf(10 * @ + DigitValue(c))])
    [] c = ";"             -> Go(_add_param(p))
    [] c = "?"             -> Go([p EXCEPT !.private = TRUE])
    [] c \in Intermediates -> Go([p EXCEPT !.intermediate = c])
    [] OTHER               -> LET q == _add_param(p) IN
                              [Ends(_reset_params(q), _dispatch_csi(q, c))
                                 EXCEPT !.modifier = IF q.overflow THEN 1 ELSE Param(q, 2, 1)]

_parse_ss3(p, c) ==
  Ends(p, IF c \in Controls \union Digits \union Intermediates \union NotFinal \union {";", "?"}
          THEN NoSequence ELSE _dispatch_ss3(c))

_parse_osc(p, c) ==
  CASE c = "BEL"       -> Ends(p, _dispatch_osc(p.raw))
    [] c = "ESC"       -> Go([p EXCEPT !.mode = "osc_st"])
    [] c \in Controls \ {"BEL", "ESC"} -> Ends(p, NoSequence)
    [] OTHER           -> Go(p)

_parse_osc_st(p, c) ==
  IF c = "\\" THEN Ends(p, _dispatch_osc(p.raw)) ELSE _parse_esc([p EXCEPT !.mode = "esc"], c)

_parse_sequence_char(p, c) ==
  LET q == [p EXCEPT !.raw = Append(@, c)] IN
  CASE p.mode = "esc"    -> _parse_esc(q, c)
    [] p.mode = "csi"    -> _parse_csi(q, c)
    [] p.mode = "osc"    -> _parse_osc(q, c)
    [] p.mode = "osc_st" -> _parse_osc_st(q, c)
    [] p.mode = "ss3"    -> _parse_ss3(q, c)

parse(p, c) ==
  IF p.mode # "ground" THEN _parse_sequence_char(p, c)
  ELSE IF c \in Controls THEN _parse_ground_control([p EXCEPT !.raw = <<c>>], c)
  ELSE [parser |-> p, id |-> "continue_text", args |-> <<>>, modifier |-> 1]

\* vt_parser::reset, when a message was used: the raw sequence goes, the rest stays.
reset(p) == [p EXCEPT !.raw = <<>>, !.mode = "ground"]

-----------------------------------------------------------------------------
(* Typed keys: what process_input makes of a message while no line is read *)

DecodedKeys == {"cursor_up", "cursor_down", "cursor_forward", "cursor_backward", "cursor_next_line",
   "cursor_prev_line", "cursor_position", "cursor_backward_tab", "cursor_vert_absolute",
   "cursor_horiz_absolute", "char_del", "char_sub", "char_nul"} \union NamesIn(TildeKeys)
   \union NamesIn(Ss3Keys)
\* Mutant: back-tab is not one of the decoded keys.
BugBackTabForgotten(id) == id \in DecodedKeys \ {"cursor_backward_tab"}
is_decoded_key(id) == id \in DecodedKeys

\* Keys whose message is named after what the same sequence does as output.
OutputNames ==
  {<<"cursor_up", "key_up">>, <<"cursor_down", "key_down">>, <<"cursor_forward", "key_right">>,
   <<"cursor_backward", "key_left">>, <<"cursor_next_line", "key_end">>,
   <<"cursor_prev_line", "key_end">>, <<"cursor_position", "key_home">>}
KeyOf(id) == IF id \in KeysIn(OutputNames) THEN Entry(OutputNames, id) ELSE id

\* Shift+F1 and its like: ESC [ 1 ; digits P..S.
ModifiedKeys == {<<"P", "key_f1">>, <<"Q", "key_f2">>, <<"R", "key_f3">>, <<"S", "key_f4">>}
modified_f1_to_f4(raw) ==
  LET n == Len(raw)
  IN  IF n < 6 \/ SubSeq(raw, 1, 4) # <<"ESC", "[", "1", ";">> \/ raw[n] \notin KeysIn(ModifiedKeys)
           \/ \E k \in 5..(n - 1) : raw[k] \notin Digits
      THEN "continue" ELSE Entry(ModifiedKeys, raw[n])

Bit(n, weight) == (n \div weight) % 2 = 1
ControlState(modifier) ==
  {key \in {"shift", "alt", "ctrl"} :
     /\ modifier > 1
     /\ Bit(modifier - 1, CASE key = "shift" -> 1 [] key = "alt" -> 2 [] key = "ctrl" -> 4)}

\* The key events: their characters, or one key with its modifiers.
Typed(chars) == [chars |-> chars, key |-> "none", held |-> {}]
Pressed(key, held) == [chars |-> <<>>, key |-> key, held |-> held]

process_input_key_event(id, modifier) == Pressed(KeyOf(id), ControlState(modifier))

process_input(r, c, raw) ==
  LET fkey == modified_f1_to_f4(raw)
      id   == IF fkey # "continue" /\ (r.id # "cpr_response" \/ side # "reply") THEN fkey ELSE r.id
  IN  IF is_decoded_key(id) /\ side = "passthrough" THEN Typed(IF raw = <<>> THEN <<c>> ELSE raw)
      ELSE CASE id \in {"continue_text", "carriage_return", "line_feed"} -> Typed(<<c>>)
             [] id = "text"                            -> Typed(IF c = "^_" THEN <<>> ELSE <<c>>)
             [] id = "cursor_forward_tab"              -> Typed(<<"TAB">>)
             [] id = "cursor_backward_tab"             -> Pressed("tab", {"shift"})
             [] id \in {"cursor_vert_absolute", "cursor_horiz_absolute", "resize_window", "char_nul"}
                                                       -> Typed(<<>>)
             [] id = "cpr_response" /\ side = "reply"  -> Typed(<<>>)
             [] id = "win32_input_key"                 -> Pressed("win32", r.args)
             [] OTHER -> IF is_decoded_key(KeyOf(id)) THEN process_input_key_event(id, r.modifier)
                         ELSE Typed(raw)

-----------------------------------------------------------------------------
(* Line drawing: dec_to_unicode over a whole write                          *)

LineDrawn == {"j", "k", "l", "m", "n", "o", "p", "q", "r", "s", "t", "u", "v", "w", "x", "y", "z", "~"}
dec_to_unicode(c) == IF c \in LineDrawn THEN "glyph" ELSE c

NoMessage == [id |-> "none", args |-> <<>>, modifier |-> 1, heard |-> <<>>]

\* The parser and the histories as they are before anything comes.
KeysStart(s) ==
  /\ side = s /\ parser = Fresh /\ drawing = FALSE /\ translating = FALSE
  /\ heard = <<>> /\ message = NoMessage /\ delivered = Typed(<<>>)
  /\ abandoned = FALSE /\ fresh = Go(Fresh)
KeysInit == \E s \in {"output", "keys", "reply", "passthrough"} : KeysStart(s)

\* One character comes: it may be the first of a write, which is translated as a whole by
\* the mode at its start.  A message is used and the parser reset.
Character(c) ==
  /\ Len(heard) < MaxSequence
  /\ \E first \in BOOLEAN : translating' = IF side = "output" /\ first THEN drawing ELSE translating
  /\ LET d == IF translating' THEN dec_to_unicode(c) ELSE c
         r == parse(parser, d)
     IN  /\ fresh' = parse(IF heard = <<>> THEN Fresh ELSE fresh.parser, d)
         /\ IF r.id = "continue"
            THEN /\ parser' = r.parser
                 /\ heard' = Append(heard, d)
                 /\ message' = NoMessage /\ delivered' = Typed(<<>>)
                 /\ UNCHANGED <<drawing, abandoned>>
            ELSE /\ parser' = reset(r.parser)
                 /\ heard' = <<>>
                 /\ message' = [id |-> r.id, args |-> r.args, modifier |-> r.modifier,
                                heard |-> Append(heard, d)]
                 /\ delivered' = IF side = "output" THEN Typed(<<>>) ELSE process_input(r, d, r.parser.raw)
                 /\ drawing' = IF side = "output" /\ r.id \in {"line_drawing", "ascii"}
                               THEN r.id = "line_drawing" ELSE drawing
                 /\ abandoned' = (abandoned \/ r.parser.intermediate # "")
  /\ UNCHANGED side

KeysNext == \E c \in Alphabet : Character(c)
KeysSpec == KeysInit /\ [][KeysNext]_parser_vars

-----------------------------------------------------------------------------
(* Properties                                                              *)

\* A sequence says the same whatever came before it: no parameter, marker or intermediate of
\* an earlier sequence, finished, aborted or unknown, leaks into it (_reset_params, reset).
\* Left to `abandoned': an ESC ( that a control character, ESC ( O or ESC ( ] ends, whose
\* intermediate the next ESC sequence finds.
HistoryFree ==
  message.id # "none" /\ ~abandoned =>
    fresh.id = message.id /\ fresh.args = message.args /\ fresh.modifier = message.modifier

\* An application that reads VT input gets the very characters typed (vt_input_passthrough).
\* The exceptions: sequences for the bridge itself, keys in win32-input-mode, the focus
\* sequence CSI I, which arrives as a tab, and the controls 1C to 1F, which do not arrive.
PassthroughExact ==
  /\ side = "passthrough" /\ message.id \notin {"none", "resize_window", "win32_input_key"}
  /\ ~(message.id = "cursor_forward_tab" /\ Len(message.heard) > 1)
  /\ message.heard # <<"^_">>
  => delivered.chars = message.heard

\* A message depends on its own characters only, and passed-through keys arrive as they
\* were typed.
SequencesExact == HistoryFree /\ PassthroughExact
=============================================================================
