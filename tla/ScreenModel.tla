----------------------------- MODULE ScreenModel -----------------------------
(***************************************************************************)
(* The console's own copy of the screen and the screen the terminal shows. *)
(* A client's call changes the copy (screen_buffer, console_state) and is  *)
(* translated into VT sequences, which the terminal carries out by its own *)
(* rules.  The buffer is as large as the viewport; a cell is a character;  *)
(* attributes, wide characters and scrolled-out lines are left out, and so *)
(* is the UTF-8 replay, which moves the cursor only.                       *)
(***************************************************************************)
EXTENDS Integers, Sequences, SequencesExt, FiniteSetsExt

CONSTANTS Width, Height,   \* size of the buffer and of the viewport
          Texts,           \* strings clients write
          FillChars,       \* characters clients fill with
          MaxCalls         \* bound: calls of clients

ScreenModelAssumption ==
  Width \in Nat \ {0, 1} /\ Height \in Nat \ {0, 1} /\ MaxCalls \in Nat

VARIABLES
  m,        \* the model: console_state's cursor, margins and DECSC; screen_buffer's rows
  t,        \* external: the terminal
  calls,    \* counted for MaxCalls
  strayed   \* history: a call whose translation the terminal reads otherwise (see Stray)

screen_vars == <<m, t, calls, strayed>>

Xs == 0..(Width - 1)
Ys == 0..(Height - 1)
LastX == Width - 1
LastY == Height - 1
Blank == 0   \* characters are numbers
Blanks == [x \in Xs |-> Blank]
Clamp(v, lo, hi) == IF v < lo THEN lo ELSE IF v > hi THEN hi ELSE v
Rect(left, top, right, bottom) == [left |-> left, top |-> top, right |-> right, bottom |-> bottom]
Whole == Rect(0, 0, LastX, LastY)
Meet(a, b) == Rect(Max({a.left, b.left}), Max({a.top, b.top}),
                   Min({a.right, b.right}), Min({a.bottom, b.bottom}))
Valid(r) == r.left <= r.right /\ r.top <= r.bottom
In(r, x, y) == x \in r.left..r.right /\ y \in r.top..r.bottom

-----------------------------------------------------------------------------
(* The terminal: what a VT terminal does with a sequence                   *)

Scrolled(s, top, bottom, n) ==   \* rows top..bottom move down by n, or up by -n
  [y \in Ys |-> IF y \notin top..bottom THEN s[y]
                ELSE IF y - n \in top..bottom THEN s[y - n] ELSE Blanks]

TermDown(u) == IF u.y = u.bottom THEN [u EXCEPT !.s = Scrolled(@, u.top, u.bottom, -1)]
               ELSE [u EXCEPT !.y = Min({@ + 1, LastY})]

TermPrint(u, c) ==
  LET v == IF u.wrap THEN [TermDown(u) EXCEPT !.x = 0, !.wrap = FALSE] ELSE u IN
  [v EXCEPT !.s[v.y][v.x] = c, !.x = Min({v.x + 1, LastX}), !.wrap = v.x = LastX]

TermErase(u, cells) == [u EXCEPT !.wrap = FALSE,
  !.s = [y \in Ys |-> [x \in Xs |-> IF <<x, y>> \in cells THEN Blank ELSE @[y][x]]]]

Before(u) == {<<x, y>> \in Xs \X Ys : y < u.y \/ (y = u.y /\ x <= u.x)}
Behind(u) == {<<x, y>> \in Xs \X Ys : y > u.y \/ (y = u.y /\ x >= u.x)}
Row(y) == Xs \X {y}
Erased(u, mode) == CASE mode = 0 -> Behind(u) [] mode = 1 -> Before(u) [] mode = 2 -> Xs \X Ys

Terminal(u, o) ==
  CASE o.op = "text"    -> FoldLeft(TermPrint, u, o.s)
    [] o.op = "crlf"    -> [TermDown(u) EXCEPT !.x = 0, !.wrap = FALSE]
    [] o.op = "cr"      -> [u EXCEPT !.x = 0, !.wrap = FALSE]
    [] o.op = "bs"      -> [u EXCEPT !.x = Max({@ - 1, 0}), !.wrap = FALSE]
    [] o.op = "ri"      -> IF u.y = u.top THEN [u EXCEPT !.s = Scrolled(@, u.top, u.bottom, 1), !.wrap = FALSE]
                           ELSE [u EXCEPT !.y = Max({@ - 1, 0}), !.wrap = FALSE]
    [] o.op = "move"    -> [u EXCEPT !.x = Clamp(@ + o.dx, 0, LastX), !.y = Clamp(@ + o.dy, 0, LastY), !.wrap = FALSE]
    [] o.op = "cup"     -> [u EXCEPT !.x = o.x, !.y = o.y, !.wrap = FALSE]
    [] o.op = "margins" -> [u EXCEPT !.top = o.top - 1, !.bottom = (IF o.bottom = 0 THEN Height ELSE o.bottom) - 1,
                                     !.x = 0, !.y = 0, !.wrap = FALSE]
    [] o.op = "scroll"  -> [u EXCEPT !.s = Scrolled(@, u.top, u.bottom, o.n), !.wrap = FALSE]
    [] o.op = "lines"   -> IF u.y \notin u.top..u.bottom THEN [u EXCEPT !.wrap = FALSE]
                           ELSE [u EXCEPT !.s = Scrolled(@, u.y, u.bottom, o.n), !.x = 0, !.wrap = FALSE]
    [] o.op = "ich"     -> [u EXCEPT !.wrap = FALSE, !.s[u.y] = [x \in Xs |->
                              IF x < u.x THEN @[x] ELSE IF x < u.x + o.n THEN Blank ELSE @[x - o.n]]]
    [] o.op = "dch"     -> [u EXCEPT !.wrap = FALSE, !.s[u.y] = [x \in Xs |->
                              IF x < u.x THEN @[x] ELSE IF x + o.n > LastX THEN Blank ELSE @[x + o.n]]]
    [] o.op = "ech"     -> TermErase(u, {c \in Row(u.y) : c[1] \in u.x..(u.x + o.n - 1)})
    [] o.op = "ed"      -> TermErase(u, Erased(u, o.mode))
    [] o.op = "el"      -> TermErase(u, Erased(u, o.mode) \cap Row(u.y))
    [] o.op = "save"    -> [u EXCEPT !.saved = [x |-> u.x, y |-> u.y, wrap |-> u.wrap]]
    [] o.op = "restore" -> [u EXCEPT !.x = u.saved.x, !.y = u.saved.y, !.wrap = u.saved.wrap]

Shows(u, sequence) == FoldLeft(Terminal, u, sequence)

Cup(x, y) == [op |-> "cup", x |-> x, y |-> y]
Save == [op |-> "save"]
Restore == [op |-> "restore"]
Write(s) == [op |-> "text", s |-> s]
Repeat(c, n) == [k \in 1..n |-> c]

-----------------------------------------------------------------------------
(* screen_buffer: the rows are a ring that starts at `origin'              *)

row(n, y) == n.rows[(n.origin + y) % Height]
Logical(n) == [y \in Ys |-> row(n, y)]

WriteCells(n, cells, c) ==
  [n EXCEPT !.rows = [k \in Ys |-> [x \in Xs |->
     IF <<x, (k + Height - n.origin) % Height>> \in cells THEN c ELSE @[k][x]]]]
RectCells(r) == {<<x, y>> \in Xs \X Ys : In(r, x, y)}

\* Mutant: a part is scrolled in a ring whose first row is somewhere else.
BugRingAsItIs(n) == [n EXCEPT !.origin = 0]

\* _linearize_rows
Linearized(n) == [n EXCEPT !.rows = Logical(n), !.origin = 0]

\* screen_buffer::scroll.  The whole buffer turns the ring; any other part is moved within
\* the clip, and what it leaves behind is filled.
scroll(n, source, clip, dx, dy, c) ==
  LET src  == Meet(source, Whole)
      whole == dx = 0 /\ src = Whole /\ clip = Whole /\ dy \in -LastY..LastY
      bare  == {<<x, y>> \in Xs \X Ys : y - dy \notin Ys}
      lin   == Linearized(n)
      moved == {<<x, y>> \in RectCells(clip) : In(src, x - dx, y - dy)}
      filled == RectCells(Meet(src, clip))
  IN  CASE whole -> WriteCells([n EXCEPT !.origin = (@ + Height - dy) % Height], bare, c)
        [] ~whole /\ Valid(src) ->
             [lin EXCEPT !.rows = [y \in Ys |-> [x \in Xs |->
                IF <<x, y>> \in moved THEN lin.rows[y - dy][x - dx]
                ELSE IF <<x, y>> \in filled THEN c ELSE lin.rows[y][x]]]]
        [] OTHER -> n

-----------------------------------------------------------------------------
(* console_state: what the code does with the same sequence                *)

\* terminal_scroll_region
Region(n) == Rect(0, n.top - 1, LastX, (IF n.bottom = 0 THEN Height ELSE n.bottom) - 1)
ScrollRegion(n, region, k) == scroll(n, region, region, 0, k, Blank)

apply_line_feed(n) ==
  LET region == Region(n) IN
  IF n.y = region.bottom THEN [ScrollRegion(n, region, -1) EXCEPT !.x = 0]
  ELSE [n EXCEPT !.y = Min({@ + 1, LastY}), !.x = 0]

\* write_text_row and its row ends: more text continues on the next row, a text that ends
\* at the row's end leaves the wrap pending.
TextChar(n, c) ==
  LET k == IF n.x > LastX THEN apply_line_feed(n) ELSE n
  IN  [WriteCells(k, {<<k.x, k.y>>}, c) EXCEPT !.x = @ + 1]

\* Mutant: text that fills its row goes on to the next one at once.
BugWrapAtOnce(n, s) ==
  LET end == FoldLeft(TextChar, [n EXCEPT !.wrap = FALSE], s)
  IN  IF end.x > LastX THEN apply_line_feed(end) ELSE end

apply_text(n, s) ==
  LET start == [(IF n.wrap /\ n.x = LastX THEN apply_line_feed(n) ELSE n) EXCEPT !.wrap = FALSE]
      end   == FoldLeft(TextChar, start, s)
  IN  IF end.x > LastX THEN [end EXCEPT !.x = LastX, !.wrap = TRUE] ELSE end

apply_reverse_index(n) ==
  IF n.y = Region(n).top THEN ScrollRegion(n, Region(n), 1) ELSE [n EXCEPT !.y = @ - 1]

\* apply_terminal_insert_characters, apply_terminal_delete_characters
ShiftRow(n, k) ==
  LET old == row(n, n.y) IN
  [n EXCEPT !.rows[(n.origin + n.y) % Height] = [x \in Xs |->
     IF x < n.x THEN old[x] ELSE IF x - k \in n.x..LastX THEN old[x - k] ELSE Blank]]

\* apply_terminal_erase_in_display, _in_line, _characters
Erase(n, r) == WriteCells(n, RectCells(r), Blank)

\* decsc_cursor, as a save sets it; a restore without a save leaves the cursor where it is.
Here(n) == [has_state |-> TRUE, x |-> n.x, y |-> n.y]

apply(n, o) ==
  CASE o.op = "text"    -> apply_text(n, o.s)
    [] o.op = "crlf"    -> [apply_line_feed(n) EXCEPT !.wrap = FALSE]
    [] o.op = "cr"      -> [n EXCEPT !.x = 0, !.wrap = FALSE]
    [] o.op = "bs"      -> [n EXCEPT !.x = Max({@ - 1, 0}), !.wrap = FALSE]
    [] o.op = "ri"      -> [apply_reverse_index(n) EXCEPT !.wrap = FALSE]
    [] o.op = "move"    -> [n EXCEPT !.x = Clamp(@ + o.dx, 0, LastX), !.y = Clamp(@ + o.dy, 0, LastY), !.wrap = FALSE]
    [] o.op = "cup"     -> [n EXCEPT !.x = o.x, !.y = o.y, !.wrap = FALSE]
    [] o.op = "margins" -> [n EXCEPT !.top = o.top, !.bottom = IF o.bottom = Height THEN 0 ELSE o.bottom,
                                     !.x = 0, !.y = 0, !.wrap = FALSE]
    [] o.op = "scroll"  -> [ScrollRegion(n, Region(n), o.n) EXCEPT !.wrap = FALSE]
    [] o.op = "lines"   -> IF n.y \notin Region(n).top..Region(n).bottom THEN [n EXCEPT !.wrap = FALSE]
                           ELSE [ScrollRegion(n, [Region(n) EXCEPT !.top = n.y], o.n) EXCEPT !.wrap = FALSE]
    [] o.op = "ich"     -> [ShiftRow(n, o.n) EXCEPT !.wrap = FALSE]
    [] o.op = "dch"     -> [ShiftRow(n, -o.n) EXCEPT !.wrap = FALSE]
    [] o.op = "ech"     -> [Erase(n, Rect(n.x, n.y, Min({n.x + o.n - 1, LastX}), n.y)) EXCEPT !.wrap = FALSE]
    [] o.op = "el"      -> [Erase(n, Rect(IF o.mode = 0 THEN n.x ELSE 0, n.y,
                                          IF o.mode = 1 THEN n.x ELSE LastX, n.y)) EXCEPT !.wrap = FALSE]
    [] o.op = "ed"      -> LET line == Erase(n, Rect(IF o.mode = 0 THEN n.x ELSE 0, n.y,
                                                     IF o.mode = 1 THEN n.x ELSE LastX, n.y))
                           IN  [Erase(line, Rect(0, IF o.mode = 0 THEN n.y + 1 ELSE 0,
                                                 LastX, IF o.mode = 1 THEN n.y - 1 ELSE LastY)) EXCEPT !.wrap = FALSE]
    [] o.op = "save"    -> [n EXCEPT !.saved = Here(n)]
    [] o.op = "restore" -> IF ~n.saved.has_state THEN [n EXCEPT !.wrap = FALSE]
                           ELSE [n EXCEPT !.x = n.saved.x, !.y = n.saved.y, !.wrap = FALSE]

-----------------------------------------------------------------------------
(* Text and sequences of a client                                          *)

Messages ==
  [op : {"text"}, s : Texts] \cup [op : {"crlf", "cr", "bs", "ri", "save", "restore"}]
    \cup {[op |-> "move", dx |-> d[1], dy |-> d[2]] : d \in {<<0, -1>>, <<0, 1>>, <<-1, 0>>, <<1, 0>>}}
    \cup [op : {"cup"}, x : Xs, y : Ys]
    \cup {b \in [op : {"margins"}, top : 1..Height, bottom : 0..Height] : b.bottom = 0 \/ b.top < b.bottom}
    \cup [op : {"scroll", "lines"}, n : {-2, -1, 1, 2}] \cup [op : {"ich", "dch", "ech"}, n : {1, 2}]
    \cup [op : {"ed", "el"}, mode : 0..2]

\* Where model and terminal are known to part: RI above the margins in the first row, CUU
\* and CUD with margins, IL and DL away from the first column, and a cursor restored that
\* was never saved (the terminal's goes home, the model's stays), was saved by a call, or
\* was saved while a wrap was pending.
Stray(o) ==
  \/ o.op = "ri" /\ m.y = 0 /\ Region(m).top # 0
  \/ o.op = "move" /\ o.dy # 0 /\ Region(m) # Whole
  \/ o.op = "lines" /\ m.x # 0
  \/ o.op = "restore" /\ \/ ~m.saved.has_state
                         \/ t.saved # [x |-> m.saved.x, y |-> m.saved.y, wrap |-> FALSE]

Call == calls < MaxCalls /\ calls' = calls + 1

write_console ==
  \E o \in Messages :
    /\ Call
    /\ m' = apply(m, o) /\ t' = Terminal(t, o)
    /\ strayed' = (strayed \/ Stray(o))

-----------------------------------------------------------------------------
(* Calls that change the buffer directly                                   *)

Linear(x, y, n) == {<<a, b>> \in Xs \X Ys : (b * Width + a) - (y * Width + x) \in 0..(n - 1)}

\* Text the terminal wraps by itself goes on in the next row, but not at the lower margin.
WrapsAtMargin(cells) == \E c \in cells, d \in cells : c[2] = t.bottom /\ d[2] = t.bottom + 1

\* FillConsoleOutputCharacter: a blank fill of everything erases the screen.
fill_output_character ==
  \E x \in Xs, y \in Ys, n \in 1..(Width * Height), c \in FillChars :
    LET cells == Linear(x, y, n)
        all   == cells = Xs \X Ys /\ c = Blank
    IN  /\ Call
        /\ m' = [WriteCells(m, cells, c) EXCEPT !.saved = Here(m)]
        /\ t' = Shows(t, IF all THEN <<Save, [op |-> "ed", mode |-> 2], Restore>>
                         ELSE <<Save, Cup(x, y), Write(Repeat(c, Cardinality(cells))), Restore>>)
        /\ strayed' = (strayed \/ (~all /\ WrapsAtMargin(cells)))

\* FillConsoleOutputAttribute: each row's characters are written again, the blanks at the
\* end of it are erased.
Rewritten(y, from, upto) ==
  LET text == [k \in 1..(upto - from + 1) |-> row(m, y)[from + k - 1]]
      used == Max({0} \cup {k \in DOMAIN text : text[k] # Blank})
  IN  <<Cup(from, y), Write(SubSeq(text, 1, used))>>
        \o (IF used = Len(text) THEN <<>>
            ELSE IF upto = LastX THEN <<[op |-> "el", mode |-> 0]>>
            ELSE <<[op |-> "ech", n |-> Len(text) - used]>>)

fill_output_attribute ==
  \E x \in Xs, y \in Ys, n \in 1..(Width * Height) :
    LET cells == Linear(x, y, n)
        Of(b) == {c[1] : c \in {d \in cells : d[2] = b}}
        rows  == [b \in 1..(LastY - y + 1) |->
                    IF Of(y + b - 1) = {} THEN <<>> ELSE Rewritten(y + b - 1, Min(Of(y + b - 1)), Max(Of(y + b - 1)))]
    IN  /\ Call
        /\ m' = [m EXCEPT !.saved = Here(m)]
        /\ t' = Shows(t, <<Save>> \o FlattenSeq(rows) \o <<Restore>>)
        /\ UNCHANGED strayed

\* vt_repaint_cells for the rows of a rectangle, with the model as it is after the call.
Repaint(n, r) ==
  IF ~Valid(r) THEN <<>>
  ELSE FlattenSeq([k \in 1..(r.bottom - r.top + 1) |->
         <<Cup(r.left, r.top + k - 1),
           Write([j \in 1..(r.right - r.left + 1) |-> row(n, r.top + k - 1)[r.left + j - 1]])>>])

\* WriteConsoleOutput: a column on either side is painted again with the rectangle.
write_console_output ==
  \E left \in Xs, top \in Ys, c \in FillChars : \E right \in left..LastX, bottom \in top..LastY :
    /\ Call
    /\ m' = WriteCells(m, RectCells(Rect(left, top, right, bottom)), c)
    /\ t' = Shows(t, <<Save>> \o Repaint(m', Meet(Rect(left - 1, top, right + 1, bottom), Whole)) \o <<Restore>>)
    /\ UNCHANGED strayed

\* WriteConsoleOutputCharacter
write_output_string ==
  \E x \in Xs, y \in Ys, n \in 1..3, c \in FillChars :
    LET cells == Linear(x, y, n) IN
    /\ Call
    /\ m' = WriteCells(m, cells, c)
    /\ t' = Shows(t, <<Save, Cup(x, y), Write(Repeat(c, Cardinality(cells))), Restore>>)
    /\ strayed' = (strayed \/ WrapsAtMargin(cells))

set_cursor_pos ==
  \E x \in Xs, y \in Ys :
    /\ Call
    /\ m' = [m EXCEPT !.x = x, !.y = y, !.wrap = FALSE]
    /\ t' = Terminal(t, Cup(x, y))
    /\ UNCHANGED strayed

\* Whole rows that move inside the clip: IL or DL between margins around them.
MoveRows(src, clip, dy, top, bottom) ==
  <<[op |-> "margins", top |-> top + 1, bottom |-> bottom + 1], Cup(0, top),
    [op |-> "lines", n |-> Clamp(dy, top - bottom - 1, bottom - top + 1)],
    [op |-> "margins", top |-> m.top, bottom |-> m.bottom]>>

\* send_partial_scroll, with the model already scrolled.
send_partial_scroll(n, source, clip, dx, dy, c) ==
  LET src == Meet(source, Whole)
      top == Max({Min({src.top, src.top + dy}), clip.top})
      bottom == Min({Max({src.bottom, src.bottom + dy}), clip.bottom})
      whole_rows == /\ dx = 0 /\ dy # 0 /\ src.left = 0 /\ src.right = LastX
                    /\ clip.left = 0 /\ clip.right = LastX
                    /\ clip.top <= src.top /\ src.bottom <= clip.bottom
                    /\ Max({dy, -dy}) <= src.bottom - src.top + 1 /\ top < bottom /\ c = Blank
      there == Rect(src.left + dx, src.top + dy, src.right + dx, src.bottom + dy)
  IN  <<Save>> \o (IF whole_rows THEN MoveRows(src, clip, dy, top, bottom)
                   ELSE Repaint(n, Meet(src, clip)) \o Repaint(n, Meet(there, clip)))
        \o <<Restore>>

\* ScrollConsoleScreenBuffer: scrolling everything out with blanks clears the screen and
\* puts the cursor home.
scroll_sb ==
  \E source \in {Whole, Rect(0, 0, LastX, 1), Rect(0, 1, LastX, LastY), Rect(0, 0, 0, LastY)},
     clip \in {Whole, Rect(0, 0, LastX, 1), Rect(LastX, 1, LastX, LastY)},
     dx \in {0, 1}, dy \in {-Height, -1, 0, 1, 2}, c \in FillChars :
    LET n == scroll(m, source, clip, dx, dy, c)
        all == source = Whole /\ dx = 0 /\ dy = -Height /\ clip = Whole /\ c = Blank
    IN  /\ Call /\ <<dx, dy>> # <<0, 0>>
        /\ m' = [n EXCEPT !.saved = Here(m), !.x = IF all THEN 0 ELSE @, !.y = IF all THEN 0 ELSE @]
        /\ t' = Shows(t, IF all THEN <<Save, [op |-> "ed", mode |-> 2], Restore, Cup(0, 0)>>
                         ELSE send_partial_scroll(n, source, clip, dx, dy, c))
        /\ UNCHANGED strayed

-----------------------------------------------------------------------------

\* A screen of distinct characters, and the cursor and margins a client left.
Start(x, y, top, bottom) ==
  /\ m = [rows |-> [b \in Ys |-> [a \in Xs |-> b * Width + a + 1]], origin |-> 0, x |-> x, y |-> y, wrap |-> FALSE,
          top |-> top, bottom |-> bottom, saved |-> [has_state |-> FALSE, x |-> 0, y |-> 0]]
  /\ t = [s |-> [b \in Ys |-> [a \in Xs |-> b * Width + a + 1]], x |-> x, y |-> y, wrap |-> FALSE,
          top |-> top - 1, bottom |-> (IF bottom = 0 THEN Height ELSE bottom) - 1,
          saved |-> [x |-> 0, y |-> 0, wrap |-> FALSE]]
  /\ calls = 0 /\ strayed = FALSE

\* In the last row, at the lower margin and at the upper one.
Init == \/ Start(LastX, LastY, 1, 0)
        \/ Start(LastX, 1, 1, 2)
        \/ Start(LastX, 1, 2, 0)

Next == write_console \/ fill_output_character \/ fill_output_attribute \/ write_console_output
          \/ write_output_string \/ set_cursor_pos \/ scroll_sb

Spec == Init /\ [][Next]_screen_vars

-----------------------------------------------------------------------------
(* Properties                                                              *)

\* The terminal shows the model's screen after every call, whichever mixture of text,
\* sequences, scrolled rectangles, fills and cell writes came before: rows that left the
\* ring's order, margins set by a client, clips and overlaps included; its cursor, pending
\* wrap and margins are the model's, so what a call changed on the terminal for its own use
\* it put back (screen_buffer::scroll, send_partial_scroll, api_fill_output,
\* begin_screen_erase).
ScreenAgrees ==
  ~strayed => /\ t.s = Logical(m)
              /\ t.x = m.x /\ t.y = m.y /\ t.wrap = (m.wrap /\ m.x = LastX)
              /\ t.top = Region(m).top /\ t.bottom = Region(m).bottom
=============================================================================
