--------------------------- MODULE TerminalState ---------------------------
(***************************************************************************)
(* What a session keeps of the state of its terminal: the attribute the    *)
(* next text gets (default_attributes), the one saved with the cursor      *)
(* (decsc_cursor), whether the cursor is shown, the title.  The terminal   *)
(* has the same state and learns of it only through the VT output, so      *)
(* every handler has two jobs: change the model, and send what makes the   *)
(* terminal follow.  Colours are Win32 ones (bits B, G, R, I) in the model *)
(* and SGR ones (bits R, G, B, I) on the wire; foreground 7 and background *)
(* 0 are sent as the terminal's defaults.  The flags of an attribute       *)
(* (underline, reverse) are left out: the code never sends them.           *)
(*                                                                         *)
(* `apart' names the parts of the state that a call the model cannot       *)
(* follow, or does not forward, has put apart; what re-synchronises a part *)
(* takes it out again.                                                     *)
(***************************************************************************)
EXTENDS Integers, Sequences

CONSTANTS
  CellAttributes, \* the Win32 attributes that calls and cells have
  SgrSequences,   \* the SGR sequences that applications write
  Titles          \* the titles; the empty one is <<>>

VARIABLES
  session,     \* console_state: attributes, decsc_cursor, visible, title
  term,        \* the terminal: pen, slot, visible, title
  apart,       \* the parts that are known to differ
  painted      \* what the last call drew: the cells' attribute and the terminal's pen

terminal_vars == <<session, term, apart, painted>>

Colors == 0..15
Attribute == [fg : Colors, bg : Colors]
Keep == -1          \* an SGR sequence that leaves this colour alone
Default == -2       \* 39 and 49
Extended == 16      \* a colour beyond the sixteen, or an RGB one
Parameters == {Keep, Default, Extended} \cup Colors

\* Where the parameter 0 stands among the colours of an SGR sequence.
Resets == {"none", "first", "last"}
SgrMessage == [id : {"sgr"}, reset : Resets, fg : Parameters, bg : Parameters]
Sgr(reset, fg, bg) == [id |-> "sgr", reset |-> reset, fg |-> fg, bg |-> bg]

ASSUME TerminalStateAssumption ==
  /\ CellAttributes \subseteq Attribute /\ SgrSequences \subseteq SgrMessage /\ <<>> \in Titles

Plain == [fg |-> Default, bg |-> Default]
Initially == [fg |-> 7, bg |-> 0]
----------------------------------------------------------------------------
\* The first and the third bit change places, in either direction.
BitsExchanged(c) == 4 * (c % 2) + 2 * ((c \div 2) % 2) + ((c \div 4) % 2) + 8 * (c \div 8)
win32_attr_color_to_sgr_index(color) == BitsExchanged(color)
set_sgr_index(index) == BitsExchanged(index)

set_sgr_from_win32_attr(a) ==
  Sgr("none", IF a.fg = 7 THEN Default ELSE win32_attr_color_to_sgr_index(a.fg),
              IF a.bg = 0 THEN Default ELSE win32_attr_color_to_sgr_index(a.bg))

Applied(parameter, old, default) ==
  IF parameter = Default THEN default
  ELSE IF parameter \in Colors THEN set_sgr_index(parameter) ELSE old

\* The parameters were collected in any order: a reset counts as the first.
apply_sgr_to_attributes(m, a) ==
  LET base == IF m.reset = "none" THEN a ELSE Initially
  IN [fg |-> Applied(m.fg, base.fg, 7), bg |-> Applied(m.bg, base.bg, 0)]

\* An SGR message is sent with a leading 0, or as 0 alone when it has one.
SgrSent(m) == IF m.reset = "none" THEN [m EXCEPT !.reset = "first"] ELSE Sgr("first", Keep, Keep)

\* Attributes of cells go out as 0 and the colours that are not the default.
fg_map == <<0, 4, 2, 6, 1, 5, 3, 7, 8, 12, 10, 14, 9, 13, 11, 15>>
vt_write_attr(a) ==
  Sgr("first", IF a.fg = 7 THEN Keep ELSE fg_map[a.fg + 1],
               IF a.bg = 0 THEN Keep ELSE fg_map[a.bg + 1])
----------------------------------------------------------------------------
Message(id) == [id |-> id]
TitleMessage(title) == [id |-> "title", title |-> title]
Messages ==
  {Message(id) : id \in {"text", "save", "restore", "show", "hide", "soft_reset",
                         "use_alternate", "use_main"}}
    \cup {TitleMessage(title) : title \in Titles}
    \cup SgrSequences

\* A mutant of the next: SGR is not among the sequences passed on.
BugSgrBuiltAnew(m) == m.id \notin {"text", "sgr"}

\* The sequences passed on as they came; all that carry this state are.
can_passthrough(m) == m.id # "text"

vt_write_window_title(t, title) == IF title = <<>> THEN t ELSE [t EXCEPT !.title = title]

\* The pen after an SGR sequence.
Drawn(m, pen) ==
  LET base == IF m.reset = "first" THEN Plain ELSE pen
  IN IF m.reset = "last" THEN Plain
     ELSE [fg |-> IF m.fg = Keep THEN base.fg ELSE m.fg,
           bg |-> IF m.bg = Keep THEN base.bg ELSE m.bg]

\* What a terminal does with a sequence.  Switching screens saves and
\* restores its cursor as DECSC and DECRC do.
Obey(t, m) ==
  CASE m.id = "sgr" -> [t EXCEPT !.pen = Drawn(m, t.pen)]
    [] m.id \in {"save", "use_alternate"} -> [t EXCEPT !.slot = [set |-> TRUE, pen |-> t.pen]]
    [] m.id \in {"restore", "use_main"} ->
         [t EXCEPT !.pen = IF t.slot.set THEN t.slot.pen ELSE Plain]
    [] m.id \in {"show", "hide"} -> [t EXCEPT !.visible = m.id = "show"]
    [] m.id = "title" -> [t EXCEPT !.title = m.title]
    [] m.id = "soft_reset" ->
         [t EXCEPT !.pen = Plain, !.slot = [set |-> FALSE, pen |-> Plain], !.visible = TRUE]
    [] OTHER -> t

vt_msg_send(t, m) ==
  CASE m.id = "sgr" -> Obey(t, SgrSent(m))
    [] m.id = "title" -> vt_write_window_title(t, m.title)
    [] OTHER -> Obey(t, m)

\* The model's half.  Switching screens keeps the attribute, a soft reset
\* is not followed.
vt_msg_apply_state(s, m) ==
  CASE m.id = "sgr" -> [s EXCEPT !.attributes = apply_sgr_to_attributes(m, s.attributes)]
    [] m.id = "save" ->
         [s EXCEPT !.decsc = [has_state |-> TRUE, attributes |-> s.attributes]]
    [] m.id = "restore" ->
         IF s.decsc.has_state THEN [s EXCEPT !.attributes = s.decsc.attributes] ELSE s
    [] m.id \in {"show", "hide"} -> [s EXCEPT !.visible = m.id = "show"]
    [] m.id = "title" -> [s EXCEPT !.title = m.title]
    [] OTHER -> s

\* A message of an application: passed on, or built anew.
consume_write_console_vt_message(t, m) ==
  IF can_passthrough(m) THEN Obey(t, m) ELSE vt_msg_send(t, m)

----------------------------------------------------------------------------
\* The parts a message puts apart: colours the model has no place for, a
\* reset that was not the first parameter, a restore of nothing, a switch
\* of screens or a soft reset, which only the terminal applies to its state.
Lost(m, s, known) ==
  CASE m.id = "sgr" ->
         IF Extended \in {m.fg, m.bg} \/ (m.reset = "last" /\ {m.fg, m.bg} # {Keep})
         THEN {"pen"} ELSE {}
    [] m.id = "save" -> IF "pen" \in known THEN {"slot"} ELSE {}
    [] m.id = "restore" -> IF "slot" \in known \/ ~s.decsc.has_state THEN {"pen"} ELSE {}
    [] m.id = "use_alternate" -> {"slot"}
    [] m.id = "use_main" -> {"pen"}
    [] m.id = "soft_reset" -> {"pen", "slot", "cursor"}
    [] OTHER -> {}

\* The parts it brings together again.
Joined(m) ==
  CASE m.id = "sgr" -> IF m.reset = "none" THEN {} ELSE {"pen"}
    [] m.id = "save" -> {"slot"}
    [] m.id = "restore" -> {"pen"}
    [] m.id \in {"show", "hide"} -> {"cursor"}
    [] m.id = "title" -> {"title"}
    [] OTHER -> {}

Apart(m, s, known) == (known \ Joined(m)) \cup Lost(m, s, known)

Drew(a, t) == {[attributes |-> a, pen |-> t.pen]}

\* render_visible_viewport: the terminal is left with the attribute of the
\* last cell it was sent.
Rendered(t, s, last) == Obey(Obey(t, vt_write_attr(s.attributes)), vt_write_attr(last))
----------------------------------------------------------------------------
Empty(attributes) == [has_state |-> FALSE, attributes |-> attributes]

Init ==
  /\ session = [attributes |-> Initially, decsc |-> Empty(Initially), visible |-> TRUE,
                title |-> <<>>]
  /\ term = [pen |-> Plain, slot |-> [set |-> FALSE, pen |-> Plain], visible |-> TRUE,
             title |-> <<>>]
  /\ apart = {}
  /\ painted = {}

\* WriteConsole with virtual terminal processing: as one run of bytes
\* (replay), or message by message, perhaps after the window moved to the
\* cursor and was rendered.
write_console_vt ==
  \E m \in Messages, replay \in BOOLEAN, scrolled \in BOOLEAN, last \in CellAttributes :
    LET before == IF scrolled THEN Rendered(term, session, last) ELSE term
        known == IF scrolled THEN apart \cup {"pen"} ELSE apart
    IN /\ replay => ~scrolled
       /\ term' = IF replay THEN Obey(before, m) ELSE consume_write_console_vt_message(before, m)
       /\ session' = vt_msg_apply_state(session, m)
       /\ apart' = Apart(m, session, known)
       /\ painted' = IF m.id = "text" /\ "pen" \notin known
                     THEN Drew(session.attributes, before) ELSE {}

\* Without it the colours are sent before the text, which is parsed all the
\* same.
write_console_plain ==
  \E m \in Messages :
    LET own == set_sgr_from_win32_attr(session.attributes)
        before == vt_msg_send(term, own)
        s == vt_msg_apply_state(session, own)
    IN /\ term' = consume_write_console_vt_message(before, m)
       /\ session' = vt_msg_apply_state(s, m)
       /\ apart' = Apart(m, s, apart \ {"pen"})
       /\ painted' = IF m.id = "text" THEN Drew(s.attributes, before) ELSE {}

api_set_text_attr ==
  \E a \in CellAttributes :
    LET own == set_sgr_from_win32_attr(a)
    IN /\ session' = vt_msg_apply_state([session EXCEPT !.attributes = a], own)
       /\ term' = vt_msg_send(term, own)
       /\ apart' = apart \ {"pen"}
       /\ painted' = {}

\* A call that draws between a saved and a restored cursor, on both sides.
Bracketed(drawn, cells) ==
  LET saved == vt_msg_apply_state(session, Message("save"))
      known == Apart(Message("save"), session, apart)
  IN /\ session' = vt_msg_apply_state(saved, Message("restore"))
     /\ term' = vt_msg_send(drawn, Message("restore"))
     /\ apart' = Apart(Message("restore"), saved, known)
     /\ painted' = cells

Saved == vt_msg_send(term, Message("save"))

\* FillConsoleOutputAttribute writes the cells again in the attribute and
\* goes back to the session's before it restores the cursor.
fill_attribute ==
  \E a \in CellAttributes :
    LET drawn == vt_msg_send(Saved, set_sgr_from_win32_attr(a))
    IN Bracketed(vt_msg_send(drawn, set_sgr_from_win32_attr(session.attributes)), Drew(a, drawn))

\* FillConsoleOutputCharacter writes its text with the pen as it is.
fill_character == Bracketed(Saved, {})

\* A fill of the whole screen with spaces, ScrollConsoleScreenBuffer: rows
\* are erased, or cells repainted, in the attribute they have.
erase_or_scroll ==
  \E a \in CellAttributes :
    LET drawn == Obey(Saved, vt_write_attr(a))
    IN Bracketed(drawn, Drew(a, drawn))

\* WriteConsoleOutput and WriteConsoleOutputCharacter use the terminal's
\* saved cursor and leave the model's as it was.
write_output ==
  \E a \in CellAttributes, whole_cells \in BOOLEAN :
    LET drawn == IF whole_cells THEN Obey(Saved, vt_write_attr(a))
                 ELSE vt_msg_send(Saved, set_sgr_from_win32_attr(session.attributes))
    IN /\ term' = vt_msg_send(drawn, Message("restore"))
       /\ apart' = apart \cup {"slot"}
       /\ painted' = IF whole_cells THEN Drew(a, drawn) ELSE {}
       /\ UNCHANGED session

\* SetConsoleCursorInfo with a size the console allows.
api_set_cursor ==
  \E visible \in BOOLEAN :
    LET m == Message(IF visible THEN "show" ELSE "hide")
    IN /\ session' = vt_msg_apply_state(session, m)
       /\ term' = vt_msg_send(term, m)
       /\ apart' = apart \ {"cursor"}
       /\ painted' = {}

\* SetConsoleTitle: an empty title stays with the session.
api_set_title ==
  \E title \in Titles :
    /\ session' = [session EXCEPT !.title = title]
    /\ term' = vt_msg_send(term, TitleMessage(title))
    /\ apart' = IF title = <<>> THEN apart \cup {"title"} ELSE apart \ {"title"}
    /\ painted' = {}

\* SetConsoleScreenBufferInfoEx stores the attribute without sending it; a
\* window that changed is rendered.
api_set_sb_info ==
  \E a, last \in CellAttributes, changed \in BOOLEAN :
    /\ session' = [session EXCEPT !.attributes = a]
    /\ term' = IF changed THEN Rendered(term, session', last) ELSE term
    /\ apart' = apart \cup {"pen"}
    /\ painted' = IF changed THEN Drew(last, term') ELSE {}

\* The window is moved, resized by the terminal, or shown again.
render_visible_viewport ==
  \E last \in CellAttributes :
    /\ term' = Rendered(term, session, last)
    /\ apart' = apart \cup {"pen"}
    /\ painted' = Drew(last, term')
    /\ UNCHANGED session

Next ==
  \/ write_console_vt \/ write_console_plain \/ api_set_text_attr
  \/ fill_attribute \/ fill_character \/ erase_or_scroll \/ write_output
  \/ api_set_cursor \/ api_set_title \/ api_set_sb_info \/ render_visible_viewport

Spec == Init /\ [][Next]_terminal_vars
----------------------------------------------------------------------------
\* The terminal's colours: black, red, green, yellow, blue, magenta, cyan,
\* white and the bright ones, as the Win32 attribute of the same colour.
Palette == <<0, 4, 2, 6, 1, 5, 3, 7, 8, 12, 10, 14, 9, 13, 11, 15>>

\* The attribute that a pen of the sixteen colours shows.
Shown(pen) ==
  [fg |-> IF pen.fg = Default THEN 7 ELSE Palette[pen.fg + 1],
   bg |-> IF pen.bg = Default THEN 0 ELSE Palette[pen.bg + 1]]

Parts == {"pen", "slot", "cursor", "title"}
TermPen == [fg : Parameters \ {Keep}, bg : Parameters \ {Keep}]
Session == [attributes : Attribute, decsc : [has_state : BOOLEAN, attributes : Attribute],
            visible : BOOLEAN, title : Titles]
Terminal == [pen : TermPen, slot : [set : BOOLEAN, pen : TermPen], visible : BOOLEAN,
             title : Titles]
TypeOK ==
  /\ session \in Session /\ term \in Terminal /\ apart \subseteq Parts
  /\ painted \subseteq [attributes : Attribute, pen : TermPen]

\* What the session believes of its terminal is so: the next text gets the
\* attribute GetConsoleScreenBufferInfo reports, ESC 8 brings back the same
\* attribute on both sides, the cursor and the title are those the calls
\* asked for, unless one of the named calls put that part apart.
Agree(s, t, known) ==
  /\ "pen" \notin known => Shown(t.pen) = s.attributes
  /\ "slot" \notin known =>
       /\ t.slot.set = s.decsc.has_state
       /\ t.slot.set => Shown(t.slot.pen) = s.decsc.attributes
  /\ "cursor" \notin known => t.visible = s.visible
  /\ "title" \notin known => t.title = s.title

\* Whatever a call draws has on the terminal the attribute the model gives
\* the cells.
PaintedAsKept == \A p \in painted : Shown(p.pen) = p.attributes

\* The two together: the colours a client reads back are those on screen.
TerminalKnown == Agree(session, term, apart) /\ PaintedAsKept
=============================================================================
