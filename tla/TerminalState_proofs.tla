------------------------ MODULE TerminalState_proofs ------------------------
(***************************************************************************)
(* TypeOK and TerminalKnown of TerminalState for any set of attributes,    *)
(* SGR sequences and titles.  The two together are inductive: what a       *)
(* message does to the model and to the terminal is compared part by part  *)
(* under the assumption that the parts it reads were not apart.            *)
(***************************************************************************)
EXTENDS TerminalState, TLAPS

\* The colour that goes out for a Win32 colour is the terminal's own of that
\* colour, and what comes in is taken over the same way.
LEMMA ColoursMatch ==
  ASSUME NEW c \in Colors
  PROVE  /\ BitsExchanged(c) \in Colors
         /\ Palette[BitsExchanged(c) + 1] = c
         /\ BitsExchanged(c) = Palette[c + 1]
         /\ BitsExchanged(BitsExchanged(c)) = c
         /\ fg_map[c + 1] \in Colors /\ Palette[fg_map[c + 1] + 1] = c
<1>1. c \in {0, 1, 2, 3, 4, 5, 6, 7, 8, 9, 10, 11, 12, 13, 14, 15}
  BY DEF Colors
<1> QED BY <1>1, SMTT(60) DEF BitsExchanged, Palette, fg_map, Colors

\* The SGR sequence of an attribute gives the pen that attribute and leaves
\* the model's as it was.
LEMMA OwnShows ==
  ASSUME NEW a \in Attribute, NEW pen \in TermPen
  PROVE  /\ Drawn(SgrSent(set_sgr_from_win32_attr(a)), pen) \in TermPen
         /\ Shown(Drawn(SgrSent(set_sgr_from_win32_attr(a)), pen)) = a
         /\ apply_sgr_to_attributes(set_sgr_from_win32_attr(a), a) = a
<1> a.fg \in Colors /\ a.bg \in Colors /\ a = [fg |-> a.fg, bg |-> a.bg]
  BY DEF Attribute
<1> DEFINE f == IF a.fg = 7 THEN Default ELSE BitsExchanged(a.fg)
           b == IF a.bg = 0 THEN Default ELSE BitsExchanged(a.bg)
<1>1. /\ BitsExchanged(a.fg) \in Colors /\ Palette[BitsExchanged(a.fg) + 1] = a.fg
      /\ BitsExchanged(BitsExchanged(a.fg)) = a.fg
      /\ BitsExchanged(a.bg) \in Colors /\ Palette[BitsExchanged(a.bg) + 1] = a.bg
      /\ BitsExchanged(BitsExchanged(a.bg)) = a.bg
  BY ColoursMatch
<1>2. set_sgr_from_win32_attr(a) = Sgr("none", f, b)
  BY DEF set_sgr_from_win32_attr, win32_attr_color_to_sgr_index
<1>3. f \in Parameters \ {Keep} /\ b \in Parameters \ {Keep}
  BY <1>1 DEF Parameters, Keep, Default, Extended, Colors
<1>4. SgrSent(Sgr("none", f, b)) = Sgr("first", f, b)
  BY DEF SgrSent, Sgr
<1>5. Drawn(Sgr("first", f, b), pen) = [fg |-> f, bg |-> b]
  BY <1>3 DEF Drawn, Sgr
<1>6. Shown([fg |-> f, bg |-> b]) = a
  BY <1>1 DEF Shown, Default, Colors
<1>7. apply_sgr_to_attributes(Sgr("none", f, b), a) = a
  BY <1>1 DEF apply_sgr_to_attributes, Applied, Sgr, set_sgr_index, Default, Colors
<1> QED BY <1>2, <1>3, <1>4, <1>5, <1>6, <1>7 DEF TermPen

\* So does the sequence for the cells of a row.
LEMMA CellShows ==
  ASSUME NEW a \in Attribute, NEW pen \in TermPen
  PROVE  /\ Drawn(vt_write_attr(a), pen) \in TermPen
         /\ Shown(Drawn(vt_write_attr(a), pen)) = a
<1> a.fg \in Colors /\ a.bg \in Colors /\ a = [fg |-> a.fg, bg |-> a.bg]
  BY DEF Attribute
<1>1. /\ fg_map[a.fg + 1] \in Colors /\ Palette[fg_map[a.fg + 1] + 1] = a.fg
      /\ fg_map[a.bg + 1] \in Colors /\ Palette[fg_map[a.bg + 1] + 1] = a.bg
  BY ColoursMatch
<1> DEFINE f == IF a.fg = 7 THEN Default ELSE fg_map[a.fg + 1]
           b == IF a.bg = 0 THEN Default ELSE fg_map[a.bg + 1]
<1>2. Drawn(vt_write_attr(a), pen) = [fg |-> f, bg |-> b]
  BY <1>1 DEF Drawn, vt_write_attr, Sgr, Plain, Keep, Default, Colors
<1>3. f \in Parameters \ {Keep} /\ b \in Parameters \ {Keep}
  BY <1>1 DEF Parameters, Keep, Default, Extended, Colors
<1>4. Shown([fg |-> f, bg |-> b]) = a
  BY <1>1 DEF Shown, Default, Colors
<1> QED BY <1>2, <1>3, <1>4 DEF TermPen

LEMMA PlainPen == Plain \in TermPen
BY DEF Plain, TermPen, Parameters, Default, Keep, Colors

\* An application's own sequence, when the model can follow it.
LEMMA SgrFollowed ==
  ASSUME NEW a \in Attribute, NEW pen \in TermPen, NEW m \in SgrMessage
  PROVE  /\ Drawn(m, pen) \in TermPen
         /\ apply_sgr_to_attributes(m, a) \in Attribute
         /\ /\ Extended \notin {m.fg, m.bg}
            /\ ~(m.reset = "last" /\ {m.fg, m.bg} # {Keep})
            /\ m.reset # "none" \/ Shown(pen) = a
            => Shown(Drawn(m, pen)) = apply_sgr_to_attributes(m, a)
<1> /\ m.fg \in Parameters /\ m.bg \in Parameters /\ m.reset \in Resets
    /\ a.fg \in Colors /\ a.bg \in Colors /\ a = [fg |-> a.fg, bg |-> a.bg]
    /\ pen.fg \in Parameters \ {Keep} /\ pen.bg \in Parameters \ {Keep}
  BY DEF SgrMessage, Attribute, TermPen
<1>1. \A c \in Colors : BitsExchanged(c) \in Colors /\ Palette[c + 1] = BitsExchanged(c)
  BY ColoursMatch
<1>2. Drawn(m, pen) \in TermPen
  BY DEF Drawn, Plain, TermPen, Parameters, Keep, Default, Extended, Colors
<1>3. apply_sgr_to_attributes(m, a) \in Attribute
  BY <1>1 DEF apply_sgr_to_attributes, Applied, Attribute, Initially, set_sgr_index, Colors
<1>4. ASSUME Extended \notin {m.fg, m.bg}, ~(m.reset = "last" /\ {m.fg, m.bg} # {Keep}),
             m.reset # "none" \/ Shown(pen) = a
      PROVE  Shown(Drawn(m, pen)) = apply_sgr_to_attributes(m, a)
  <2>1. CASE m.reset = "last"
    <3>1. m.fg = Keep /\ m.bg = Keep
      BY <1>4, <2>1
    <3> QED BY <2>1, <3>1 DEF Drawn, Plain, Shown, apply_sgr_to_attributes, Applied,
                              Initially, Keep, Default, Colors
  <2>2. CASE m.reset = "first"
    BY <2>2, <1>1, <1>4 DEF Drawn, Plain, Shown, apply_sgr_to_attributes, Applied, Initially,
                   set_sgr_index, Parameters, Keep, Default, Extended, Colors
  <2>3. CASE m.reset = "none"
    BY <2>3, <1>1, <1>4 DEF Drawn, Shown, apply_sgr_to_attributes, Applied, Attribute,
                   set_sgr_index, Parameters, Keep, Default, Extended, Colors
  <2> QED BY <2>1, <2>2, <2>3 DEF Resets
<1> QED BY <1>2, <1>3, <1>4

\* The types of the records a saved cursor changes.
LEMMA SavedTypes ==
  /\ \A s \in Session, a \in Attribute, b \in BOOLEAN :
       [s EXCEPT !.decsc = [has_state |-> b, attributes |-> a]] \in Session
  /\ \A t \in Terminal, pen \in TermPen, b \in BOOLEAN :
       [t EXCEPT !.slot = [set |-> b, pen |-> pen]] \in Terminal
<1>1. ASSUME NEW s \in Session, NEW a \in Attribute, NEW b \in BOOLEAN
      PROVE  [s EXCEPT !.decsc = [has_state |-> b, attributes |-> a]] \in Session
  <2> DEFINE r == [has_state |-> b, attributes |-> a]
  <2>1. r \in [has_state : BOOLEAN, attributes : Attribute]
    OBVIOUS
  <2> HIDE DEF r
  <2>2. [s EXCEPT !.decsc = r] \in Session
    BY <2>1 DEF Session
  <2> QED BY <2>2 DEF r
<1>2. ASSUME NEW t \in Terminal, NEW pen \in TermPen, NEW b \in BOOLEAN
      PROVE  [t EXCEPT !.slot = [set |-> b, pen |-> pen]] \in Terminal
  <2> DEFINE r == [set |-> b, pen |-> pen]
  <2>1. r \in [set : BOOLEAN, pen : TermPen]
    OBVIOUS
  <2> HIDE DEF r
  <2>2. [t EXCEPT !.slot = r] \in Terminal
    BY <2>1 DEF Terminal
  <2> QED BY <2>2 DEF r
<1> QED BY <1>1, <1>2

\* What an application's message does to the model, to the terminal and to
\* the parts known to differ keeps the two sides in agreement.
LEMMA MessageKeeps ==
  ASSUME NEW s \in Session, NEW t \in Terminal, NEW x \in SUBSET Parts, NEW m \in Messages
  PROVE  /\ vt_msg_apply_state(s, m) \in Session /\ Obey(t, m) \in Terminal
         /\ Apart(m, s, x) \in SUBSET Parts
         /\ Agree(s, t, x) => Agree(vt_msg_apply_state(s, m), Obey(t, m), Apart(m, s, x))
<1> DEFINE after == vt_msg_apply_state(s, m)
           obeyed == Obey(t, m)
           known == Apart(m, s, x)
           Kept == /\ after \in Session /\ obeyed \in Terminal /\ known \in SUBSET Parts
                   /\ Agree(s, t, x) => Agree(after, obeyed, known)
<1> USE DEF Message
<1>1. CASE m = Message("text")
  <2>1. after = s /\ obeyed = t /\ known = x
    BY <1>1 DEF vt_msg_apply_state, Obey, Apart, Joined, Lost
  <2> QED BY <2>1
<1>2. CASE m = Message("save")
  <2>1. /\ after = [s EXCEPT !.decsc = [has_state |-> TRUE, attributes |-> s.attributes]]
        /\ obeyed = [t EXCEPT !.slot = [set |-> TRUE, pen |-> t.pen]]
        /\ known = (x \ {"slot"}) \cup (IF "pen" \in x THEN {"slot"} ELSE {})
    BY <1>2 DEF vt_msg_apply_state, Obey, Apart, Joined, Lost
  <2>2. after \in Session /\ obeyed \in Terminal /\ known \in SUBSET Parts
    <3>1. s.attributes \in Attribute /\ t.pen \in TermPen
      BY DEF Session, Terminal
    <3>2. after \in Session /\ obeyed \in Terminal
      BY <2>1, <3>1, SavedTypes, ZenonT(60)
    <3> QED BY <2>1, <3>2 DEF Parts
  <2>3. /\ after.attributes = s.attributes /\ after.visible = s.visible /\ after.title = s.title
        /\ after.decsc.has_state = TRUE /\ after.decsc.attributes = s.attributes
        /\ obeyed.pen = t.pen /\ obeyed.visible = t.visible /\ obeyed.title = t.title
        /\ obeyed.slot.set = TRUE /\ obeyed.slot.pen = t.pen
    BY <2>1 DEF Session, Terminal
  <2>4. /\ "slot" \notin known => "pen" \notin x
        /\ \A part \in {"pen", "cursor", "title"} : part \in known <=> part \in x
    BY <2>1
  <2> QED BY <2>2, <2>3, <2>4 DEF Agree
<1>3. CASE m = Message("restore")
  <2>1. /\ after = IF s.decsc.has_state THEN [s EXCEPT !.attributes = s.decsc.attributes] ELSE s
        /\ obeyed = [t EXCEPT !.pen = IF t.slot.set THEN t.slot.pen ELSE Plain]
        /\ known = (x \ {"pen"})
                     \cup (IF "slot" \in x \/ ~s.decsc.has_state THEN {"pen"} ELSE {})
    BY <1>3 DEF vt_msg_apply_state, Obey, Apart, Joined, Lost
  <2>2. Plain \in TermPen
    BY PlainPen
  <2>3. after \in Session /\ obeyed \in Terminal /\ known \in SUBSET Parts
    BY <2>1, <2>2 DEF Session, Terminal, Parts
  <2>4. /\ after.attributes = IF s.decsc.has_state THEN s.decsc.attributes ELSE s.attributes
        /\ after.decsc = s.decsc /\ after.visible = s.visible /\ after.title = s.title
        /\ obeyed.pen = IF t.slot.set THEN t.slot.pen ELSE Plain
        /\ obeyed.slot = t.slot /\ obeyed.visible = t.visible /\ obeyed.title = t.title
    BY <2>1 DEF Session, Terminal
  <2>5. /\ "pen" \notin known => "slot" \notin x /\ s.decsc.has_state
        /\ \A part \in {"slot", "cursor", "title"} : part \in known <=> part \in x
    BY <2>1
  <2> QED BY <2>3, <2>4, <2>5 DEF Agree
<1>4. CASE m \in {Message("show"), Message("hide")}
  <2>1. /\ after = [s EXCEPT !.visible = m.id = "show"]
        /\ obeyed = [t EXCEPT !.visible = m.id = "show"]
        /\ known = x \ {"cursor"}
    BY <1>4 DEF vt_msg_apply_state, Obey, Apart, Joined, Lost
  <2> QED BY <2>1 DEF Session, Terminal, Agree, Parts
<1>5. CASE m = Message("soft_reset")
  <2>1. /\ after = s
        /\ obeyed = [t EXCEPT !.pen = Plain, !.slot = [set |-> FALSE, pen |-> Plain],
                              !.visible = TRUE]
        /\ known = x \cup {"pen", "slot", "cursor"}
    BY <1>5 DEF vt_msg_apply_state, Obey, Apart, Joined, Lost
  <2>2. Plain \in TermPen
    BY PlainPen
  <2>3. obeyed \in Terminal
    <3> DEFINE u == [t EXCEPT !.pen = Plain]
               v == [u EXCEPT !.slot = [set |-> FALSE, pen |-> Plain]]
    <3>1. u \in Terminal
      BY <2>2 DEF Terminal
    <3>2. v \in Terminal
      BY <2>2, <3>1, SavedTypes
    <3>3. [v EXCEPT !.visible = TRUE] \in Terminal
      BY <3>2 DEF Terminal
    <3> QED BY <2>1, <3>3
  <2>4. obeyed.title = t.title
    BY <2>1 DEF Terminal
  <2> QED BY <2>1, <2>3, <2>4 DEF Agree, Parts
<1>6. CASE m = Message("use_alternate")
  <2>1. after = s /\ obeyed = [t EXCEPT !.slot = [set |-> TRUE, pen |-> t.pen]]
        /\ known = x \cup {"slot"}
    BY <1>6 DEF vt_msg_apply_state, Obey, Apart, Joined, Lost
  <2>2. t.pen \in TermPen
    BY DEF Terminal
  <2>3. obeyed \in Terminal
    BY <2>1, <2>2, SavedTypes
  <2>4. obeyed.pen = t.pen /\ obeyed.visible = t.visible /\ obeyed.title = t.title
    BY <2>1 DEF Terminal
  <2> QED BY <2>1, <2>3, <2>4 DEF Agree, Parts
<1>7. CASE m = Message("use_main")
  <2>1. /\ after = s /\ known = x \cup {"pen"}
        /\ obeyed = [t EXCEPT !.pen = IF t.slot.set THEN t.slot.pen ELSE Plain]
    BY <1>7 DEF vt_msg_apply_state, Obey, Apart, Joined, Lost
  <2>2. Plain \in TermPen
    BY PlainPen
  <2> QED BY <2>1, <2>2 DEF Session, Terminal, Agree, Parts
<1>8. ASSUME NEW title \in Titles, m = TitleMessage(title)
      PROVE  Kept
  <2>1. /\ after = [s EXCEPT !.title = title] /\ obeyed = [t EXCEPT !.title = title]
        /\ known = x \ {"title"}
    BY <1>8 DEF TitleMessage, vt_msg_apply_state, Obey, Apart, Joined, Lost
  <2> QED BY <2>1 DEF Session, Terminal, Agree, Parts
<1>9. CASE m \in SgrSequences
  <2>1. m \in SgrMessage /\ m.id = "sgr"
    BY <1>9, TerminalStateAssumption DEF SgrMessage
  <2> DEFINE lost == Extended \in {m.fg, m.bg} \/ (m.reset = "last" /\ {m.fg, m.bg} # {Keep})
  <2>2. /\ after = [s EXCEPT !.attributes = apply_sgr_to_attributes(m, s.attributes)]
        /\ obeyed = [t EXCEPT !.pen = Drawn(m, t.pen)]
        /\ known = (x \ (IF m.reset = "none" THEN {} ELSE {"pen"}))
                     \cup (IF lost THEN {"pen"} ELSE {})
    BY <2>1 DEF vt_msg_apply_state, Obey, Apart, Joined, Lost
  <2>3. s.attributes \in Attribute /\ t.pen \in TermPen
    BY DEF Session, Terminal
  <2>4. /\ Drawn(m, t.pen) \in TermPen /\ apply_sgr_to_attributes(m, s.attributes) \in Attribute
        /\ ~lost /\ (m.reset # "none" \/ Shown(t.pen) = s.attributes)
             => Shown(Drawn(m, t.pen)) = apply_sgr_to_attributes(m, s.attributes)
    BY <2>1, <2>3, SgrFollowed
  <2> HIDE DEF lost
  <2>5. after \in Session /\ obeyed \in Terminal /\ known \in SUBSET Parts
    BY <2>2, <2>4 DEF Session, Terminal, Parts
  <2>6. ASSUME Agree(s, t, x) PROVE Agree(after, obeyed, known)
    <3>1. /\ after.attributes = apply_sgr_to_attributes(m, s.attributes)
          /\ after.decsc = s.decsc /\ after.visible = s.visible /\ after.title = s.title
          /\ obeyed.pen = Drawn(m, t.pen) /\ obeyed.slot = t.slot
          /\ obeyed.visible = t.visible /\ obeyed.title = t.title
      BY <2>2 DEF Session, Terminal
    <3>2. "pen" \notin known => ~lost /\ (m.reset # "none" \/ "pen" \notin x)
      BY <2>2
    <3>3. \A part \in {"slot", "cursor", "title"} : part \in known <=> part \in x
      BY <2>2
    <3> QED BY <2>4, <2>6, <3>1, <3>2, <3>3 DEF Agree
  <2> QED BY <2>5, <2>6
<1> QED BY <1>1, <1>2, <1>3, <1>4, <1>5, <1>6, <1>7, <1>8, <1>9 DEF Messages

\* A terminal that differs from another at most in its pen.
OnlyPen(t, u) == /\ u \in Terminal
                 /\ u.slot = t.slot /\ u.visible = t.visible /\ u.title = t.title

\* The session's own sequences move nothing but the pen, to the attribute.
LEMMA OwnSequences ==
  ASSUME NEW t \in Terminal, NEW a \in Attribute
  PROVE  /\ OnlyPen(t, vt_msg_send(t, set_sgr_from_win32_attr(a)))
         /\ Shown(vt_msg_send(t, set_sgr_from_win32_attr(a)).pen) = a
         /\ OnlyPen(t, Obey(t, vt_write_attr(a)))
         /\ Shown(Obey(t, vt_write_attr(a)).pen) = a
<1>1. t.pen \in TermPen
  BY DEF Terminal
<1>2. vt_msg_send(t, set_sgr_from_win32_attr(a))
        = [t EXCEPT !.pen = Drawn(SgrSent(set_sgr_from_win32_attr(a)), t.pen)]
  <2> DEFINE own == set_sgr_from_win32_attr(a)
             sent == SgrSent(own)
  <2>1. own.id = "sgr"
    BY DEF set_sgr_from_win32_attr, Sgr
  <2>2. sent.id = "sgr"
    BY <2>1 DEF SgrSent, set_sgr_from_win32_attr, Sgr
  <2> HIDE DEF own, sent
  <2>3. vt_msg_send(t, own) = Obey(t, SgrSent(own))
    BY <2>1 DEF vt_msg_send
  <2>4. Obey(t, sent) = [t EXCEPT !.pen = Drawn(sent, t.pen)]
    BY <2>2 DEF Obey
  <2> QED BY <2>3, <2>4 DEF own, sent
<1>3. Obey(t, vt_write_attr(a)) = [t EXCEPT !.pen = Drawn(vt_write_attr(a), t.pen)]
  BY DEF Obey, vt_write_attr, Sgr
<1>4. \A pen \in TermPen : OnlyPen(t, [t EXCEPT !.pen = pen]) /\ [t EXCEPT !.pen = pen].pen = pen
  BY DEF OnlyPen, Terminal
<1> QED BY <1>1, <1>2, <1>3, <1>4, OwnShows, CellShows

\* The session's half of its own sequence for an attribute it has.
LEMMA OwnApplied ==
  ASSUME NEW s \in Session
  PROVE  vt_msg_apply_state(s, set_sgr_from_win32_attr(s.attributes)) = s
<1>1. s.attributes \in Attribute
  BY DEF Session
<1>2. apply_sgr_to_attributes(set_sgr_from_win32_attr(s.attributes), s.attributes) = s.attributes
  BY <1>1, OwnShows, PlainPen
<1>3. vt_msg_apply_state(s, set_sgr_from_win32_attr(s.attributes))
        = [s EXCEPT !.attributes = s.attributes]
  BY <1>2 DEF vt_msg_apply_state, set_sgr_from_win32_attr, Sgr
<1> QED BY <1>3 DEF Session

LEMMA Kinds ==
  /\ Message("text") \in Messages /\ Message("save") \in Messages
  /\ Message("restore") \in Messages /\ Message("show") \in Messages
  /\ Message("hide") \in Messages
BY DEF Messages

LEMMA SentAsObeyed ==
  ASSUME NEW t
  PROVE  /\ vt_msg_send(t, Message("save")) = Obey(t, Message("save"))
         /\ vt_msg_send(t, Message("restore")) = Obey(t, Message("restore"))
         /\ vt_msg_send(t, Message("show")) = Obey(t, Message("show"))
         /\ vt_msg_send(t, Message("hide")) = Obey(t, Message("hide"))
         /\ \A m \in Messages : consume_write_console_vt_message(t, m) = Obey(t, m)
<1>1. ASSUME NEW m \in Messages
      PROVE  consume_write_console_vt_message(t, m) = Obey(t, m)
  BY DEF consume_write_console_vt_message, can_passthrough, vt_msg_send
<1> QED BY <1>1 DEF vt_msg_send, Message

LEMMA SaveAndRestore ==
  ASSUME NEW t
  PROVE  /\ vt_msg_send(t, Message("save"))
              = [t EXCEPT !.slot = [set |-> TRUE, pen |-> t.pen]]
         /\ vt_msg_send(t, Message("restore"))
              = [t EXCEPT !.pen = IF t.slot.set THEN t.slot.pen ELSE Plain]
<1>1. Obey(t, Message("save")) = [t EXCEPT !.slot = [set |-> TRUE, pen |-> t.pen]]
  BY DEF Obey, Message
<1>2. Obey(t, Message("restore"))
        = [t EXCEPT !.pen = IF t.slot.set THEN t.slot.pen ELSE Plain]
  BY DEF Obey, Message
<1> QED BY <1>1, <1>2, SentAsObeyed

\* Whatever is drawn between a saved and a restored cursor.
LEMMA BracketKeeps ==
  ASSUME NEW s \in Session, NEW t \in Terminal, NEW x \in SUBSET Parts, Agree(s, t, x),
         NEW d, OnlyPen(Obey(t, Message("save")), d)
  PROVE  LET saved == vt_msg_apply_state(s, Message("save"))
             known == Apart(Message("save"), s, x)
         IN /\ vt_msg_apply_state(saved, Message("restore")) \in Session
            /\ Obey(d, Message("restore")) \in Terminal
            /\ Apart(Message("restore"), saved, known) \in SUBSET Parts
            /\ Agree(vt_msg_apply_state(saved, Message("restore")),
                     Obey(d, Message("restore")), Apart(Message("restore"), saved, known))
<1> DEFINE saved == vt_msg_apply_state(s, Message("save"))
           known == Apart(Message("save"), s, x)
           more == known \cup {"pen"}
<1>1. saved \in Session /\ known \in SUBSET Parts /\ Agree(saved, Obey(t, Message("save")), known)
  BY MessageKeeps, Kinds
<1>2. d \in Terminal /\ more \in SUBSET Parts /\ Agree(saved, d, more)
  BY <1>1 DEF OnlyPen, Agree, Parts
<1>3. Apart(Message("restore"), saved, more) = Apart(Message("restore"), saved, known)
  BY DEF Apart, Joined, Lost, Message
<1> HIDE DEF saved, known, more
<1>4. /\ vt_msg_apply_state(saved, Message("restore")) \in Session
      /\ Obey(d, Message("restore")) \in Terminal
      /\ Apart(Message("restore"), saved, more) \in SUBSET Parts
      /\ Agree(vt_msg_apply_state(saved, Message("restore")), Obey(d, Message("restore")),
               Apart(Message("restore"), saved, more))
  BY <1>1, <1>2, MessageKeeps, Kinds
<1> QED BY <1>3, <1>4 DEF saved, known
----------------------------------------------------------------------------
Inv == TypeOK /\ TerminalKnown

LEMMA InitInv == Init => Inv
<1> SUFFICES ASSUME Init PROVE Inv
  OBVIOUS
<1>1. Initially \in Attribute
  BY DEF Initially, Attribute, Colors
<1>2. Shown(Plain) = Initially
  BY DEF Shown, Plain, Initially, Default
<1>3. <<>> \in Titles
  BY TerminalStateAssumption
<1>4. session \in Session
  BY <1>1, <1>3 DEF Init, Empty, Session
<1>5. term \in Terminal
  BY <1>3, PlainPen DEF Init, Terminal
<1>6. apart \subseteq Parts /\ painted = {}
  BY DEF Init
<1>7. Agree(session, term, apart)
  BY <1>2 DEF Init, Agree, Empty
<1> QED BY <1>4, <1>5, <1>6, <1>7 DEF Inv, TypeOK, TerminalKnown, PaintedAsKept

\* Pens that were drawn with.
Faithful(cells) ==
  /\ cells \subseteq [attributes : Attribute, pen : TermPen]
  /\ \A p \in cells : Shown(p.pen) = p.attributes

LEMMA DrewFaithful ==
  ASSUME NEW a \in Attribute, NEW t \in Terminal, Shown(t.pen) = a
  PROVE  Faithful(Drew(a, t))
<1>1. t.pen \in TermPen
  BY DEF Terminal
<1> QED BY <1>1 DEF Faithful, Drew

\* The window is rendered: the pen shows the last cell's attribute.
LEMMA RenderedPen ==
  ASSUME NEW s \in Session, NEW t \in Terminal, NEW last \in Attribute
  PROVE  OnlyPen(t, Rendered(t, s, last)) /\ Shown(Rendered(t, s, last).pen) = last
<1>1. s.attributes \in Attribute
  BY DEF Session
<1>2. OnlyPen(t, Obey(t, vt_write_attr(s.attributes)))
  BY <1>1, OwnSequences
<1> DEFINE u == Obey(t, vt_write_attr(s.attributes))
<1>3. u \in Terminal
  BY <1>2 DEF OnlyPen
<1> HIDE DEF u
<1>4. OnlyPen(u, Obey(u, vt_write_attr(last))) /\ Shown(Obey(u, vt_write_attr(last)).pen) = last
  BY <1>3, OwnSequences
<1> QED BY <1>2, <1>4 DEF u, OnlyPen, Rendered

LEMMA NextInv == Inv /\ [Next]_terminal_vars => Inv'
<1> SUFFICES ASSUME Inv, [Next]_terminal_vars PROVE Inv'
  OBVIOUS
<1>t. /\ session \in Session /\ term \in Terminal /\ apart \in SUBSET Parts
      /\ Agree(session, term, apart) /\ session.attributes \in Attribute
  BY DEF Inv, TypeOK, TerminalKnown, Session
<1>a. CellAttributes \subseteq Attribute /\ <<>> \in Titles
  BY TerminalStateAssumption
\* What each action has to show.
<1>g. ASSUME session' \in Session, term' \in Terminal, apart' \in SUBSET Parts,
             Agree(session', term', apart'), Faithful(painted')
      PROVE  Inv'
  BY <1>g DEF Inv, TypeOK, TerminalKnown, PaintedAsKept, Faithful, Agree, Shown
<1>f. Faithful({})
  BY DEF Faithful
<1>1. CASE write_console_vt
  <2> PICK m \in Messages, replay \in BOOLEAN, scrolled \in BOOLEAN, last \in CellAttributes :
        LET before == IF scrolled THEN Rendered(term, session, last) ELSE term
            known == IF scrolled THEN apart \cup {"pen"} ELSE apart
        IN /\ term' = IF replay THEN Obey(before, m)
                      ELSE consume_write_console_vt_message(before, m)
           /\ session' = vt_msg_apply_state(session, m)
           /\ apart' = Apart(m, session, known)
           /\ painted' = IF m.id = "text" /\ "pen" \notin known
                         THEN Drew(session.attributes, before) ELSE {}
    BY <1>1 DEF write_console_vt
  <2> DEFINE before == IF scrolled THEN Rendered(term, session, last) ELSE term
             known == IF scrolled THEN apart \cup {"pen"} ELSE apart
  <2>1. OnlyPen(term, before) /\ known \in SUBSET Parts /\ before \in Terminal
    BY <1>t, <1>a, RenderedPen DEF OnlyPen, Parts
  <2>2. Agree(session, before, known)
    BY <1>t, <2>1 DEF OnlyPen, Agree
  <2>3. /\ term' = Obey(before, m) /\ session' = vt_msg_apply_state(session, m)
        /\ apart' = Apart(m, session, known)
        /\ painted' = IF m.id = "text" /\ "pen" \notin known
                      THEN Drew(session.attributes, before) ELSE {}
    BY SentAsObeyed
  <2> HIDE DEF before, known
  <2>4. /\ session' \in Session /\ term' \in Terminal /\ apart' \in SUBSET Parts
        /\ Agree(session', term', apart')
    BY <1>t, <2>1, <2>2, <2>3, MessageKeeps
  <2>5. Faithful(painted')
    BY <1>t, <1>f, <2>1, <2>2, <2>3, DrewFaithful DEF Agree
  <2> QED BY <1>g, <2>4, <2>5
<1>2. CASE write_console_plain
  <2> PICK m \in Messages :
        LET own == set_sgr_from_win32_attr(session.attributes)
            before == vt_msg_send(term, own)
            s == vt_msg_apply_state(session, own)
        IN /\ term' = consume_write_console_vt_message(before, m)
           /\ session' = vt_msg_apply_state(s, m)
           /\ apart' = Apart(m, s, apart \ {"pen"})
           /\ painted' = IF m.id = "text" THEN Drew(s.attributes, before) ELSE {}
    BY <1>2 DEF write_console_plain
  <2> DEFINE own == set_sgr_from_win32_attr(session.attributes)
             before == vt_msg_send(term, own)
  <2>1. OnlyPen(term, before) /\ before \in Terminal /\ Shown(before.pen) = session.attributes
    BY <1>t, OwnSequences DEF OnlyPen
  <2>2. Agree(session, before, apart \ {"pen"})
    BY <1>t, <2>1 DEF OnlyPen, Agree
  <2>3. /\ term' = Obey(before, m) /\ session' = vt_msg_apply_state(session, m)
        /\ apart' = Apart(m, session, apart \ {"pen"})
        /\ painted' = IF m.id = "text" THEN Drew(session.attributes, before) ELSE {}
    BY <1>t, OwnApplied, SentAsObeyed
  <2> HIDE DEF before
  <2>4. /\ session' \in Session /\ term' \in Terminal /\ apart' \in SUBSET Parts
        /\ Agree(session', term', apart')
    BY <1>t, <2>1, <2>2, <2>3, MessageKeeps
  <2>5. Faithful(painted')
    BY <1>t, <1>f, <2>1, <2>3, DrewFaithful
  <2> QED BY <1>g, <2>4, <2>5
<1>3. CASE api_set_text_attr
  <2> PICK a \in CellAttributes :
        LET own == set_sgr_from_win32_attr(a)
        IN /\ session' = vt_msg_apply_state([session EXCEPT !.attributes = a], own)
           /\ term' = vt_msg_send(term, own)
           /\ apart' = apart \ {"pen"}
           /\ painted' = {}
    BY <1>3 DEF api_set_text_attr
  <2> DEFINE s == [session EXCEPT !.attributes = a]
  <2>1. a \in Attribute
    BY <1>a
  <2>2. s \in Session /\ s.attributes = a
    BY <1>t, <2>1 DEF Session
  <2>3. /\ s.decsc = session.decsc /\ s.visible = session.visible /\ s.title = session.title
    BY <1>t DEF Session
  <2> HIDE DEF s
  <2>4. vt_msg_apply_state(s, set_sgr_from_win32_attr(a)) = s
    BY <2>2, OwnApplied
  <2>5. /\ session' = s /\ term' = vt_msg_send(term, set_sgr_from_win32_attr(a))
        /\ apart' = apart \ {"pen"} /\ painted' = {}
    BY <2>4 DEF s
  <2>6. OnlyPen(term, term') /\ Shown(term'.pen) = a
    BY <1>t, <2>1, <2>5, OwnSequences
  <2>7. Agree(session', term', apart')
    BY <1>t, <2>2, <2>3, <2>5, <2>6 DEF Agree, OnlyPen
  <2> QED BY <1>g, <1>f, <1>t, <2>2, <2>5, <2>6, <2>7 DEF OnlyPen
\* A call in brackets only has to draw with the pen alone.
<1>b. ASSUME NEW drawn, NEW cells, Bracketed(drawn, cells), OnlyPen(Saved, drawn), Faithful(cells)
      PROVE  Inv'
  <2>1. Saved = Obey(term, Message("save"))
    BY SentAsObeyed DEF Saved
  <2>2. vt_msg_send(drawn, Message("restore")) = Obey(drawn, Message("restore"))
    BY SentAsObeyed
  <2>3. /\ session' \in Session /\ term' \in Terminal /\ apart' \in SUBSET Parts
        /\ Agree(session', term', apart')
    BY <1>b, <1>t, <2>1, <2>2, BracketKeeps DEF Bracketed
  <2> QED BY <1>b, <1>g, <2>3 DEF Bracketed
<1>s. Saved \in Terminal /\ OnlyPen(Saved, Saved)
  <2>1. Saved \in Terminal
    BY <1>t, MessageKeeps, Kinds, SentAsObeyed DEF Saved
  <2> QED BY <2>1 DEF OnlyPen
<1>4. CASE fill_attribute
  <2> DEFINE D(a) == vt_msg_send(Saved, set_sgr_from_win32_attr(a))
  <2> PICK a \in CellAttributes :
        Bracketed(vt_msg_send(D(a), set_sgr_from_win32_attr(session.attributes)), Drew(a, D(a)))
    BY <1>4 DEF fill_attribute
  <2>1. OnlyPen(Saved, D(a)) /\ D(a) \in Terminal /\ Shown(D(a).pen) = a /\ a \in Attribute
    BY <1>a, <1>s, OwnSequences DEF OnlyPen
  <2> HIDE DEF D
  <2>2. OnlyPen(D(a), vt_msg_send(D(a), set_sgr_from_win32_attr(session.attributes)))
    BY <1>t, <2>1, OwnSequences
  <2>3. OnlyPen(Saved, vt_msg_send(D(a), set_sgr_from_win32_attr(session.attributes)))
    BY <2>1, <2>2 DEF OnlyPen
  <2> QED BY <1>b, <2>1, <2>3, DrewFaithful
<1>5. CASE fill_character
  BY <1>5, <1>b, <1>s, <1>f DEF fill_character
<1>6. CASE erase_or_scroll
  <2> DEFINE D(a) == Obey(Saved, vt_write_attr(a))
  <2> PICK a \in CellAttributes : Bracketed(D(a), Drew(a, D(a)))
    BY <1>6 DEF erase_or_scroll
  <2>1. OnlyPen(Saved, D(a)) /\ D(a) \in Terminal /\ Shown(D(a).pen) = a /\ a \in Attribute
    BY <1>a, <1>s, OwnSequences DEF OnlyPen
  <2> QED BY <1>b, <2>1, DrewFaithful
<1>7. CASE write_output
  <2> PICK a \in CellAttributes, whole_cells \in BOOLEAN :
        LET drawn == IF whole_cells THEN Obey(Saved, vt_write_attr(a))
                     ELSE vt_msg_send(Saved, set_sgr_from_win32_attr(session.attributes))
        IN /\ term' = vt_msg_send(drawn, Message("restore"))
           /\ apart' = apart \cup {"slot"}
           /\ painted' = IF whole_cells THEN Drew(a, drawn) ELSE {}
           /\ UNCHANGED session
    BY <1>7 DEF write_output
  <2> DEFINE drawn == IF whole_cells THEN Obey(Saved, vt_write_attr(a))
                      ELSE vt_msg_send(Saved, set_sgr_from_win32_attr(session.attributes))
  <2>1. OnlyPen(Saved, drawn) /\ (whole_cells => Shown(drawn.pen) = a) /\ a \in Attribute
    BY <1>a, <1>s, <1>t, OwnSequences
  <2>2. Saved = [term EXCEPT !.slot = [set |-> TRUE, pen |-> term.pen]]
    BY SaveAndRestore DEF Saved
  <2>3. /\ Saved.slot.set = TRUE /\ Saved.slot.pen = term.pen
        /\ Saved.visible = term.visible /\ Saved.title = term.title
    BY <1>t, <2>2 DEF Terminal
  <2> HIDE DEF drawn
  <2>4. drawn \in Terminal /\ drawn.slot.set = TRUE /\ drawn.slot.pen = term.pen
        /\ drawn.visible = term.visible /\ drawn.title = term.title
    BY <2>1, <2>3 DEF OnlyPen
  <2>5. term' = [drawn EXCEPT !.pen = IF drawn.slot.set THEN drawn.slot.pen ELSE Plain]
    BY SaveAndRestore DEF drawn
  <2>6. term'.pen = term.pen /\ term'.visible = term.visible /\ term'.title = term.title
    BY <2>4, <2>5 DEF Terminal
  <2>7. term' \in Terminal
    BY <1>t, <2>4, <2>5 DEF Terminal
  <2>8. Agree(session', term', apart')
    BY <1>t, <2>6 DEF Agree, drawn
  <2>9. Faithful(painted')
    BY <1>f, <2>1, <2>4, DrewFaithful DEF drawn
  <2> QED BY <1>g, <1>t, <2>7, <2>8, <2>9 DEF Parts
<1>8. CASE api_set_cursor
  <2> PICK visible \in BOOLEAN :
        LET m == Message(IF visible THEN "show" ELSE "hide")
        IN /\ session' = vt_msg_apply_state(session, m) /\ term' = vt_msg_send(term, m)
           /\ apart' = apart \ {"cursor"} /\ painted' = {}
    BY <1>8 DEF api_set_cursor
  <2> DEFINE m == Message(IF visible THEN "show" ELSE "hide")
  <2>1. m \in Messages /\ vt_msg_send(term, m) = Obey(term, m)
    BY Kinds, SentAsObeyed
  <2>2. Apart(m, session, apart) = apart \ {"cursor"}
    BY DEF Apart, Joined, Lost, Message
  <2> HIDE DEF m
  <2>3. session' = vt_msg_apply_state(session, m) /\ term' = Obey(term, m)
        /\ apart' = Apart(m, session, apart) /\ painted' = {}
    BY <2>1, <2>2 DEF m
  <2>4. /\ session' \in Session /\ term' \in Terminal /\ apart' \in SUBSET Parts
        /\ Agree(session', term', apart')
    <3>1. /\ vt_msg_apply_state(session, m) \in Session /\ Obey(term, m) \in Terminal
          /\ Apart(m, session, apart) \in SUBSET Parts
          /\ Agree(vt_msg_apply_state(session, m), Obey(term, m), Apart(m, session, apart))
      BY ONLY <1>t, <2>1, MessageKeeps
    <3> QED BY <2>3, <3>1
  <2> QED BY <1>f, <1>g, <2>3, <2>4
<1>9. CASE api_set_title
  <2> PICK title \in Titles :
        /\ session' = [session EXCEPT !.title = title]
        /\ term' = vt_msg_send(term, TitleMessage(title))
        /\ apart' = IF title = <<>> THEN apart \cup {"title"} ELSE apart \ {"title"}
        /\ painted' = {}
    BY <1>9 DEF api_set_title
  <2>1. term' = IF title = <<>> THEN term ELSE [term EXCEPT !.title = title]
    BY DEF vt_msg_send, vt_write_window_title, TitleMessage
  <2>2. session' \in Session /\ term' \in Terminal /\ apart' \in SUBSET Parts
    BY <1>t, <2>1 DEF Session, Terminal, Parts
  <2>3. /\ session'.attributes = session.attributes /\ session'.decsc = session.decsc
        /\ session'.visible = session.visible /\ session'.title = title
    BY <1>t DEF Session
  <2>4. /\ term'.pen = term.pen /\ term'.slot = term.slot /\ term'.visible = term.visible
        /\ title # <<>> => term'.title = title
    BY <1>t, <2>1 DEF Terminal
  <2>5. Agree(session', term', apart')
    BY <1>t, <2>3, <2>4 DEF Agree
  <2> QED BY <1>f, <1>g, <2>2, <2>5
<1>10. CASE api_set_sb_info
  <2> PICK a \in CellAttributes, last \in CellAttributes, changed \in BOOLEAN :
        /\ session' = [session EXCEPT !.attributes = a]
        /\ term' = IF changed THEN Rendered(term, session', last) ELSE term
        /\ apart' = apart \cup {"pen"}
        /\ painted' = IF changed THEN Drew(last, term') ELSE {}
    BY <1>10 DEF api_set_sb_info
  <2>1. /\ session' \in Session /\ session'.decsc = session.decsc
        /\ session'.visible = session.visible /\ session'.title = session.title
    BY <1>t, <1>a DEF Session
  <2>2. OnlyPen(term, term') /\ (changed => Shown(term'.pen) = last) /\ last \in Attribute
    BY <1>t, <1>a, <2>1, RenderedPen DEF OnlyPen
  <2>3. Agree(session', term', apart')
    BY <1>t, <2>1, <2>2 DEF Agree, OnlyPen
  <2>4. Faithful(painted') /\ term' \in Terminal
    BY <1>f, <2>2, DrewFaithful DEF OnlyPen
  <2> QED BY <1>g, <1>t, <2>1, <2>3, <2>4 DEF Parts
<1>11. CASE render_visible_viewport
  <2> PICK last \in CellAttributes :
        /\ term' = Rendered(term, session, last)
        /\ apart' = apart \cup {"pen"}
        /\ painted' = Drew(last, term')
        /\ UNCHANGED session
    BY <1>11 DEF render_visible_viewport
  <2>1. OnlyPen(term, term') /\ Shown(term'.pen) = last /\ last \in Attribute
    BY <1>t, <1>a, RenderedPen
  <2>2. Agree(session', term', apart')
    BY <1>t, <2>1 DEF Agree, OnlyPen
  <2>3. Faithful(painted') /\ term' \in Terminal
    BY <2>1, DrewFaithful DEF OnlyPen
  <2> QED BY <1>g, <1>t, <2>2, <2>3 DEF Parts
<1>12. CASE UNCHANGED terminal_vars
  BY <1>12, <1>g, <1>t DEF terminal_vars, Inv, TypeOK, TerminalKnown, PaintedAsKept, Faithful
<1> QED BY <1>1, <1>2, <1>3, <1>4, <1>5, <1>6, <1>7, <1>8, <1>9, <1>10, <1>11, <1>12 DEF Next

\* What the session keeps of its terminal is so, and what a call draws has
\* on the terminal the attribute the model gives it (default_attributes,
\* decsc_cursor, vt_msg_send and the handlers that draw).
THEOREM TerminalStateKnown == Spec => []TerminalKnown
<1>1. Spec => []Inv
  BY InitInv, NextInv, PTL DEF Spec
<1>2. Inv => TerminalKnown
  BY DEF Inv
<1> QED BY <1>1, <1>2, PTL
=============================================================================
