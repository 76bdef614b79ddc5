------------------------------ MODULE ScreenRow ------------------------------
(***************************************************************************)
(* screen_buffer_row: one row of the screen buffer.  A row is kept in one  *)
(* of three layouts: filled (one character, no text at all), single-width  *)
(* (text by column, the offsets not maintained) and general (each column   *)
(* holds the offset of its glyph, a trailing column that of its leading    *)
(* one).  What a layout does not maintain keeps its old content; the short *)
(* form of a uniform attribute is left out.  `cells' is the row as a       *)
(* reader of the API describes it, changed by the plain meaning of each    *)
(* call.                                                                   *)
(***************************************************************************)
EXTENDS Integers, Sequences, SequencesExt, FiniteSetsExt

CONSTANTS Narrow, Wide,   \* characters of one and of two columns
          Attrs,          \* attributes clients use
          Widths          \* widths the buffer is given

ScreenRowAssumption == /\ Widths \subseteq Nat \ {0, 1} /\ " " \notin Wide
                              /\ Narrow \cap Wide = {}

VARIABLES row,    \* screen_buffer_row
          cells   \* history: function from columns to [ch, lead, attr]

row_vars == <<row, cells>>

DefaultAttr == 7
Columns(r) == 0..(r.w - 1)
char_width(ch) == IF ch \in Wide THEN 2 ELSE 1

-----------------------------------------------------------------------------
(* Reading a row                                                           *)

col_offset(r, c) == IF r.filled \/ r.single THEN c ELSE r.columns[c].off
is_trailing(r, c) == ~r.filled /\ ~r.single /\ c <= r.w /\ r.columns[c].trail

\* The column behind the glyph at c, and the glyph's leading column.
GlyphEnd(r, c) == Min({e \in (c + 1)..r.w : e = r.w \/ ~is_trailing(r, e)})
GlyphLead(r, c) == Max({l \in 0..c : l = 0 \/ ~is_trailing(r, l)})

glyph_at(r, c) == IF r.filled THEN r.fill ELSE r.text[col_offset(r, c) + 1]
glyph_width(r, c) == IF is_trailing(r, c) THEN 0 ELSE GlyphEnd(r, c) - c
attr_at(r, c) == r.attrs[c]

\* dbcs_flags: the flags a column has in CHAR_INFO.
dbcs_flags(r, c) == IF is_trailing(r, c) THEN "trailing"
                    ELSE IF c + 1 < r.w /\ is_trailing(r, c + 1) THEN "leading" ELSE "none"

to_char_info(r) == [c \in Columns(r) |->
  [ch |-> glyph_at(r, c), flag |-> dbcs_flags(r, c), attr |-> attr_at(r, c)]]

-----------------------------------------------------------------------------
(* Writing a row                                                           *)

Straight(w) == [c \in 0..w |-> [off |-> c, trail |-> FALSE]]

\* reset_fill: the old text, and the old offsets and attributes as far as they fit, stay.
reset_fill(r, ch, a) ==
  [r EXCEPT !.filled = TRUE, !.single = TRUE, !.fill = ch, !.attrs = [c \in Columns(r) |-> a]]
NewRow(w) == [w |-> w, filled |-> TRUE, single |-> TRUE, fill |-> " ", text |-> <<>>,
              columns |-> [c \in 0..w |-> [off |-> 0, trail |-> FALSE]],
              attrs |-> [c \in 0..(w - 1) |-> DefaultAttr]]

materialize_filled(r) ==
  IF ~r.filled THEN r
  ELSE [r EXCEPT !.filled = FALSE, !.single = TRUE, !.text = [k \in 1..r.w |-> r.fill]]

materialize_columns(r) ==
  IF r.single THEN [r EXCEPT !.columns = Straight(r.w), !.single = FALSE] ELSE r

\* write_attr_range: columns from..(upto - 1).
write_attr_range(r, from, upto, a) ==
  [r EXCEPT !.attrs = [c \in Columns(r) |-> IF c \in from..(upto - 1) THEN a ELSE @[c]]]
fill_attrs(r, from, upto, a) == write_attr_range(materialize_filled(r), from, upto, a)
set_attr(r, c, a) == fill_attrs(r, c, c + 1, a)

\* The text from offset `from' up to `upto' replaced by t.
Replace(text, from, upto, t) == SubSeq(text, 1, from) \o t \o SubSeq(text, upto + 1, Len(text))

\* _shift_columns_from
Shift(columns, from, delta) ==
  [c \in DOMAIN columns |-> IF c >= from THEN [columns[c] EXCEPT !.off = @ + delta] ELSE columns[c]]

\* _blank_glyph_cut_at: a glyph that column c would cut becomes blanks, one per column.
blank_glyph_cut_at(r, c) ==
  IF c >= r.w \/ ~is_trailing(r, c) THEN r
  ELSE LET lead  == GlyphLead(r, c)
           end   == GlyphEnd(r, c)
           start == col_offset(r, lead)
           stop  == col_offset(r, end)
           moved == Shift(r.columns, end, (end - lead) - (stop - start))
       IN  [r EXCEPT
              !.text = Replace(r.text, start, stop, [k \in 1..(end - lead) |-> " "]),
              !.columns = [k \in DOMAIN moved |-> IF k \in lead..(end - 1)
                             THEN [off |-> start + k - lead, trail |-> FALSE] ELSE moved[k]]]

\* The column of each glyph of run t that starts in column c, and the one behind the last.
Starts(t, c) ==
  [k \in 1..(Len(t) + 1) |-> FoldLeft(LAMBDA s, ch : s + char_width(ch), c, SubSeq(t, 1, k - 1))]

\* The columns of a run get the offsets of its glyphs, the first of them at `from'.
RunOffsets(columns, starts, from) ==
  [c \in DOMAIN columns |->
     IF c < Head(starts) \/ c >= Last(starts) THEN columns[c]
     ELSE LET k == Max({j \in DOMAIN starts : starts[j] <= c}) IN
          [off |-> from + k - 1, trail |-> c # starts[k]]]

\* The text of columns c..(end - 1) replaced by t, the columns behind them moved.
Splice(r, t, starts) ==
  LET end  == Last(starts)
      from == col_offset(r, Head(starts))
      upto == col_offset(r, end)
  IN  [r EXCEPT !.text = Replace(@, from, upto, t),
                !.columns = RunOffsets(Shift(@, end, Len(t) - (upto - from)), starts, from)]

\* The general path of write_glyph and write_measured_run.
PlaceRun(r, t, starts) ==
  Splice(blank_glyph_cut_at(blank_glyph_cut_at(r, Head(starts)), Last(starts)), t, starts)

\* write_glyph: width n, clipped at the row's end.
write_glyph(r, c, ch, n, a) ==
  LET m == materialize_filled(r)
      g == materialize_columns(m)
      width == Min({n, r.w - c})
      one_for_one == /\ width = 1 /\ ~is_trailing(g, c) /\ GlyphEnd(g, c) = c + 1
                     /\ col_offset(g, c + 1) = col_offset(g, c) + 1
  IN  CASE m.single /\ width = 1 -> write_attr_range([m EXCEPT !.text[c + 1] = ch], c, c + 1, a)
        [] ~m.single /\ one_for_one -> set_attr([g EXCEPT !.text[col_offset(g, c) + 1] = ch], c, a)
        [] OTHER -> FoldSet(LAMBDA k, x : set_attr(x, k, a),
                            PlaceRun(g, <<ch>>, <<c, c + width>>), c..(c + width - 1))

\* The layout after write_text_row's run t in row m: a whole row is laid out anew, columns of
\* one glyph each take theirs, a single-width row becomes a general one, a run of the same
\* shape as the old text goes over it, and otherwise the old text is cut.
LaidOut(m, t, starts) ==
  LET from == col_offset(m, Head(starts))
      narrow == \A k \in DOMAIN t : t[k] \notin Wide
      whole == Head(starts) = 0 /\ Last(starts) = m.w
      same_shape == /\ \A k \in DOMAIN t : /\ ~is_trailing(m, starts[k])
                                           /\ GlyphEnd(m, starts[k]) = starts[k + 1]
                                           /\ col_offset(m, starts[k]) = from + k - 1
                    /\ col_offset(m, Last(starts)) = from + Len(t)
  IN  CASE whole /\ narrow -> [m EXCEPT !.text = t, !.single = TRUE]
        [] whole -> [m EXCEPT !.text = t, !.single = FALSE,
                       !.columns = RunOffsets([@ EXCEPT ![m.w] = [off |-> Len(t), trail |-> FALSE]], starts, 0)]
        [] ~whole /\ m.single /\ ~narrow ->
             Splice([m EXCEPT !.columns = Straight(m.w), !.single = FALSE], t, starts)
        [] ~whole /\ (m.single \/ same_shape) -> [m EXCEPT !.text = Replace(@, from, from + Len(t), t)]
        [] OTHER -> PlaceRun(m, t, starts)

write_measured_run(r, c, t, a) ==
  LET starts == Starts(t, c)
  IN  write_attr_range(LaidOut(materialize_filled(r), t, starts), c, Last(starts), a)

\* copy_from: whole glyphs of columns from..(from + n - 1) of another row.
copy_from(r, src, from, to, n) ==
  FoldLeft(LAMBDA x, k : IF is_trailing(src, from + k) THEN x
                         ELSE write_glyph(x, to + k, glyph_at(src, from + k),
                                          glyph_width(src, from + k), attr_at(src, from + k)),
           r, [j \in 1..Min({n, r.w - to, src.w - from}) |-> j - 1])

\* write_char32_linear on one row: the attributes stay, also that of a trailing column.
WriteChar(r, c, ch) ==
  LET put == write_glyph(r, c, ch, char_width(ch), attr_at(r, c)) IN
  IF char_width(ch) = 2 /\ c + 1 < r.w THEN set_attr(put, c + 1, attr_at(r, c + 1)) ELSE put

\* fill_char on one row: clear_cell with the default attribute, then the character.
FillChar(r, c, n, ch) ==
  LET cleared == FoldSet(LAMBDA k, x : write_glyph(x, k, " ", 1, DefaultAttr), r, c..(c + n - 1))
  IN  FoldSet(LAMBDA k, x : write_glyph(x, k, ch, 1, attr_at(x, k)), cleared, c..(c + n - 1))

ClearCells(r, from, n, a) == FoldSet(LAMBDA k, x : write_glyph(x, k, " ", 1, a), r, from..(from + n - 1))

\* Mutant: half a wide character at the left edge is not put back.
BugLeftHalfLost(x, infos, k, c) ==
  LET i == infos[k]
      at == c + k - 1
  IN  CASE i.flag = "leading" /\ at + 1 < x.w ->
             set_attr(write_glyph(x, at, i.ch, 2, i.attr), at + 1, attr_at(x, at + 1))
        [] i.flag = "trailing" /\ k # 1 -> set_attr(x, at, i.attr)
        [] OTHER -> write_glyph(x, at, IF i.flag = "none" THEN i.ch ELSE " ", 1, i.attr)

\* from_char_info, cell k of the infos written from column c.
CellFrom(x, infos, k, c) ==
  LET i == infos[k]
      at == c + k - 1
  IN  CASE i.flag = "leading" /\ at + 1 < x.w ->
             set_attr(write_glyph(x, at, i.ch, 2, i.attr), at + 1, attr_at(x, at + 1))
        [] i.flag = "trailing" /\ k # 1 -> set_attr(x, at, i.attr)
        [] i.flag = "trailing" /\ k = 1 /\ at > 0 ->
             set_attr(write_glyph(x, at - 1, i.ch, 2, attr_at(x, at - 1)), at, i.attr)
        [] OTHER -> write_glyph(x, at, IF i.flag = "none" THEN i.ch ELSE " ", 1, i.attr)

from_char_info(r, infos, c) ==
  FoldLeft(LAMBDA x, k : CellFrom(x, infos, k, c), r,
           [k \in 1..Min({Len(infos), r.w - c}) |-> k])

-----------------------------------------------------------------------------
(* The plain meaning                                                       *)

Shown(r) == [c \in Columns(r) |-> [ch |-> glyph_at(r, c), lead |-> GlyphLead(r, c), attr |-> attr_at(r, c)]]

\* A cut glyph is blank; a glyph put down cuts those it covers in part.
CutAt(cs, c) ==
  IF c \notin DOMAIN cs \/ cs[c].lead = c THEN cs
  ELSE [k \in DOMAIN cs |-> IF cs[k].lead = cs[c].lead
                              THEN [ch |-> " ", lead |-> k, attr |-> cs[k].attr] ELSE cs[k]]
Put(cs, c, ch, n, a) ==
  [k \in DOMAIN cs |-> IF k \in c..(c + n - 1) THEN [ch |-> ch, lead |-> c, attr |-> a]
                       ELSE CutAt(CutAt(cs, c), c + n)[k]]
PutEach(cs, c, n, ch, a) ==
  [k \in DOMAIN cs |-> IF k \in c..(c + n - 1) THEN [ch |-> ch, lead |-> k, attr |-> a]
                       ELSE CutAt(CutAt(cs, c), c + n)[k]]
PutRun(cs, c, t, a) ==
  LET starts == Starts(t, c) IN
  FoldLeft(LAMBDA x, k : Put(x, starts[k], t[k], char_width(t[k]), a), cs, [k \in 1..Len(t) |-> k])
WithAttr(cs, columns, a) ==
  [k \in DOMAIN cs |-> IF k \in columns THEN [cs[k] EXCEPT !.attr = a] ELSE cs[k]]
Copied(cs, src, from, to, n) ==
  FoldLeft(LAMBDA x, k : IF src[from + k].lead # from + k \/ to + k \notin DOMAIN x THEN x
                         ELSE Put(x, to + k, src[from + k].ch,
                                  Cardinality({j \in DOMAIN src : src[j].lead = from + k}),
                                  src[from + k].attr),
           cs, [j \in 1..n |-> j - 1])
Blank(w, ch, a) == [c \in 0..(w - 1) |-> [ch |-> ch, lead |-> c, attr |-> a]]

-----------------------------------------------------------------------------
(* Calls                                                                   *)

Runs(n) == {t \in UNION {[1..k -> Narrow \cup Wide] : k \in 1..n} : Last(Starts(t, 0)) <= n}

Init == \E w \in Widths : row = NewRow(w) /\ cells = Blank(w, " ", DefaultAttr)

\* Text from VT output or WriteConsole.
Text == \E c \in Columns(row), a \in Attrs : \E t \in Runs(row.w - c) :
  row' = write_measured_run(row, c, t, a) /\ cells' = PutRun(cells, c, t, a)

\* WriteConsoleOutputCharacter
Characters == \E c \in Columns(row), ch \in Narrow \cup Wide :
  /\ row' = WriteChar(row, c, ch)
  /\ cells' = LET put == Put(cells, c, ch, char_width(ch), cells[c].attr)
              IN  IF c + 1 < row.w THEN WithAttr(put, {c + 1}, cells[c + 1].attr) ELSE put

\* FillConsoleOutputCharacter, FillConsoleOutputAttribute and WriteConsoleOutputAttribute
Fill == \E c \in Columns(row) : \E n \in 1..(row.w - c) :
  \E ch \in Narrow \cup {" "} : row' = FillChar(row, c, n, ch) /\ cells' = PutEach(cells, c, n, ch, DefaultAttr)
Attributes == \E c \in Columns(row) : \E n \in 1..(row.w - c), a \in Attrs :
  row' = fill_attrs(row, c, c + n, a) /\ cells' = WithAttr(cells, c..(c + n - 1), a)

\* WriteConsoleOutput of one cell: half a wide character is written whole.
CharInfo == \E c \in Columns(row), a \in Attrs :
  \/ /\ row' = from_char_info(row, <<[ch |-> "W", flag |-> "leading", attr |-> a]>>, c)
     /\ cells' = IF c + 1 = row.w THEN Put(cells, c, " ", 1, a)
                 ELSE WithAttr(Put(cells, c, "W", 2, a), {c + 1}, cells[c + 1].attr)
  \/ /\ row' = from_char_info(row, <<[ch |-> "W", flag |-> "trailing", attr |-> a]>>, c)
     /\ cells' = IF c = 0 THEN Put(cells, c, " ", 1, a)
                 ELSE WithAttr(Put(cells, c - 1, "W", 2, cells[c - 1].attr), {c}, a)

\* ICH, DCH and ECH
InsertCharacters == \E c \in Columns(row) : \E n \in 1..(row.w - c) :
  /\ row' = ClearCells(copy_from(row, row, c, c + n, row.w - c - n), c, n, DefaultAttr)
  /\ cells' = PutEach(Copied(cells, cells, c, c + n, row.w - c - n), c, n, " ", DefaultAttr)
DeleteCharacters == \E c \in Columns(row) : \E n \in 1..(row.w - c) :
  /\ row' = ClearCells(copy_from(row, row, c + n, c, row.w - c - n), row.w - n, n, DefaultAttr)
  /\ cells' = PutEach(Copied(cells, cells, c + n, c, row.w - c - n), row.w - n, n, " ", DefaultAttr)

\* A row that scrolled in, and a buffer of another width.
ScrolledIn == \E ch \in Narrow, a \in Attrs :
  row' = reset_fill(row, ch, a) /\ cells' = Blank(row.w, ch, a)
Resized == \E w \in Widths \ {row.w} :
  /\ row' = copy_from(NewRow(w), row, 0, 0, row.w)
  /\ cells' = Copied(Blank(w, " ", DefaultAttr), cells, 0, 0, row.w)

Next == Text \/ Characters \/ Fill \/ Attributes \/ CharInfo \/ InsertCharacters
          \/ DeleteCharacters \/ ScrolledIn \/ Resized

Spec == Init /\ [][Next]_row_vars

-----------------------------------------------------------------------------
(* Properties                                                              *)

\* Whatever layout the row is in and whichever fast path a call took, the row reads as if
\* every call had simply put its glyphs down: glyphs cut in half are blank, no trailing
\* column is left without its leading one, and attributes stay with their columns
\* (write_measured_run and its paths, write_glyph, _blank_glyph_cut_at).
CellsKept == Shown(row) = cells

\* A rectangle saved with ReadConsoleOutput and written back changes nothing, also when its
\* edges cut wide characters (to_char_info, from_char_info).
RoundTrip ==
  \A c \in Columns(row) : \A n \in 1..(row.w - c) :
    Shown(from_char_info(row, [k \in 1..n |-> to_char_info(row)[c + k - 1]], c)) = Shown(row)
=============================================================================
