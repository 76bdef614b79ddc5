------------------------------- MODULE Screens -------------------------------
(***************************************************************************)
(* The two screen buffers, the viewport of each, and the one cursor they   *)
(* share: console calls and the terminal change sizes, windows and the     *)
(* active buffer, and the terminal has to show the part of the active      *)
(* buffer that its viewport names, with the cursor where the model has it. *)
(* Only rows are modelled; columns go the same way.  A terminal answers a  *)
(* cursor query before the next call (CursorSync lets them cross), and an  *)
(* application's own alternate screen and a second screen buffer are not   *)
(* used at the same time.                                                  *)
(***************************************************************************)
EXTENDS Integers, FiniteSetsExt

CONSTANT MaxRows        \* bound: rows of a buffer

ASSUME ScreensAssumption == MaxRows \in Nat \ {0}

NoRow == MaxRows         \* no row

VARIABLES
  buffer_size,            \* state.screen_buffer_size
  buffers,                \* sb_main and sb_alt: size and viewport
  alt_active, main_cursor,
  position,               \* state.cursor.position
  alt_screen_cursor,      \* the cursor saved at ESC[?1049h, or NoRow
  resized_in_alt_screen,
  asked,                  \* _resize_sync_cursor while a query is out, else NoRow
  window,                 \* external: the terminal's rows, cursor, first buffer row shown,
                          \* and the cursor and first row it keeps for its main screen
  unlike                  \* history: window and viewport are known to differ

saved_vars == <<alt_active, main_cursor, alt_screen_cursor, resized_in_alt_screen>>
screens_vars == <<buffer_size, buffers, saved_vars, position, asked, window, unlike>>

Buffer(n) == [size |-> n, top |-> 0, bottom |-> n - 1]

ScreensStart(n) ==
  /\ buffer_size = n /\ buffers = [main |-> Buffer(n), alt |-> Buffer(MaxRows)]
  /\ alt_active = FALSE /\ main_cursor = 0 /\ position = 0
  /\ alt_screen_cursor = NoRow /\ resized_in_alt_screen = FALSE /\ asked = NoRow
  /\ window = [rows |-> n, row |-> 0, shown |-> 0, saved |-> 0, shown_main |-> 0]
  /\ unlike = FALSE

ScreensInit == \E n \in 1..MaxRows : ScreensStart(n)

-----------------------------------------------------------------------------
(* console_viewport and screen_buffer                                      *)

Clamp(x, low, high) == IF x < low THEN low ELSE IF x > high THEN high ELSE x   \* std::clamp
Rows(b) == b.bottom - b.top + 1

\* set_rect; clamp_to_buffer, set_size, set_origin and reset_to_buffer are made of it.
set_rect(b, top, bottom) ==
  LET height == Clamp(bottom - top + 1, 1, b.size)
      first  == Clamp(top, 0, b.size - height)
  IN  [b EXCEPT !.top = first, !.bottom = first + height - 1]
clamp_to_buffer(b) == set_rect(b, b.top, b.bottom)
set_size(b, height) == set_rect(b, b.top, b.top + height - 1)

snap_to_cursor(b, y) ==
  LET top == IF y < b.top THEN y ELSE IF y > b.bottom THEN b.top + y - b.bottom ELSE b.top
  IN  set_rect(b, top, top + Rows(b) - 1)
clamped_relative_position(b, y) == Clamp(y - b.top, 0, Rows(b) - 1)

\* screen_buffer::resize moves the viewport along.
Resized(b, n) == IF n = b.size THEN b ELSE clamp_to_buffer([b EXCEPT !.size = n])

clamp_cursor(y, n) == Clamp(y, 0, n - 1)

Active == IF alt_active THEN "alt" ELSE "main"
Sb == buffers[Active]

-----------------------------------------------------------------------------
(* What the terminal is sent                                               *)

\* vt_write_cup_buffer: the terminal keeps the cursor on its screen.
Cup(w, b, y) == [w EXCEPT !.row = Clamp(clamped_relative_position(b, y), 0, w.rows - 1)]
\* render_visible_viewport; it puts the cursor back into the buffer as well.
Repainted(w, b, y) == [Cup(w, b, y) EXCEPT !.shown = b.top]
\* ESC[8;rows;cols t: the terminal takes the size it is told.
Told(w, rows) == [w EXCEPT !.rows = rows, !.row = Clamp(@, 0, rows - 1)]

\* Where they part for good: the terminal shows other rows than the viewport names, or was
\* told another size while it keeps a cursor for its main screen.
Away == alt_active \/ alt_screen_cursor # NoRow
Differ(b, w) == \/ Rows(b) # w.rows \/ b.top # w.shown
                \/ Away /\ w.rows # window.rows

\* request_cursor_sync
AskCursor(b, y) == asked' = y - b.top

-----------------------------------------------------------------------------
(* Console calls                                                           *)

Quiet == asked = NoRow
Keeps == UNCHANGED <<saved_vars, asked>>

\* WriteConsole without VT processing: the viewport follows the cursor, then text goes down.
api_write_console ==
  /\ Quiet
  /\ LET b == snap_to_cursor(Sb, position)
         y == IF b # Sb THEN clamp_cursor(position, buffer_size) ELSE position
         w == IF b # Sb THEN Repainted(window, b, y) ELSE Cup(window, b, y)
     IN  /\ buffers' = [buffers EXCEPT ![Active] = b]
         /\ \/ position' = y /\ window' = w
            \/ /\ y < b.bottom /\ position' = y + 1
               /\ window' = [w EXCEPT !.row = Clamp(@ + 1, 0, w.rows - 1)]
  /\ UNCHANGED <<buffer_size, unlike>> /\ Keeps

api_set_cursor_pos ==
  \E y \in 0..(buffer_size - 1) :
    /\ Quiet
    /\ LET b == snap_to_cursor(Sb, y)
           w == IF b # Sb THEN Repainted(window, b, y) ELSE window
       IN  /\ buffers' = [buffers EXCEPT ![Active] = b]
           /\ window' = Cup(w, b, y)
    /\ position' = y
    /\ UNCHANGED <<buffer_size, unlike>> /\ Keeps

\* The tail of both calls that change the size: painted when the viewport changed in the call's
\* own eyes or does not cover the buffer.
Paint(b, changed, w) ==
  /\ window' = IF changed \/ Rows(b) # b.size THEN Repainted(w, b, position') ELSE w
  /\ unlike' = (unlike \/ Differ(b, window'))

\* The clamping of the resize has already moved the viewport, so that no change is seen here.
api_set_sb_size ==
  \E n \in Rows(Sb)..MaxRows :
    /\ Quiet
    /\ LET r == Resized(Sb, n)
           b == clamp_to_buffer(r)
       IN  /\ buffer_size' = n /\ buffers' = [buffers EXCEPT ![Active] = b]
           /\ position' = clamp_cursor(position, n)
           /\ Paint(b, b # r, window)
    /\ Keeps

\* api_set_sb_info
set_sb_info ==
  \E n \in 1..MaxRows : \E height \in 1..n :
    /\ Quiet
    /\ LET r == Resized(Sb, n)
           b == set_size(r, height)
           w == IF Rows(b) # Rows(Sb) THEN Told(window, Rows(b)) ELSE window
       IN  /\ buffer_size' = n /\ buffers' = [buffers EXCEPT ![Active] = b]
           /\ position' = clamp_cursor(position, n)
           /\ Paint(b, b # r, w)
    /\ Keeps

\* SetConsoleWindowInfo, absolute or relative; a window larger than the buffer enlarges it.
api_set_window_info ==
  \E top \in -1..MaxRows, height \in 1..MaxRows :
    /\ Quiet
    /\ LET n == Max({buffer_size, height})
           b == set_rect(Resized(Sb, n), top, top + height - 1)
           w == IF Rows(b) # Rows(Sb) THEN Told(window, Rows(b)) ELSE window
       IN  /\ buffer_size' = n /\ buffers' = [buffers EXCEPT ![Active] = b]
           /\ position' = clamp_cursor(position, n)
           /\ window' = Repainted(w, b, position')
           /\ unlike' = (unlike \/ Differ(b, window'))
    /\ Keeps

-----------------------------------------------------------------------------
(* Alternate screens                                                       *)

\* The terminal enters its alternate screen and keeps its cursor for the main one.
Kept == [window EXCEPT !.saved = window.row, !.shown_main = window.shown]
Returned == [window EXCEPT !.row = Clamp(window.saved, 0, window.rows - 1), !.shown = window.shown_main]

\* Mutant: the buffer that comes up keeps the size it had.
BugOldSize(alt) == buffers[IF alt THEN "alt" ELSE "main"]

\* The buffer that comes up, with the current size.
Next_up(alt) ==
  LET b == buffers[IF alt THEN "alt" ELSE "main"] IN
  IF b.size = buffer_size THEN b ELSE Buffer(buffer_size)

switch_to_alt ==
  /\ Quiet /\ ~alt_active /\ alt_screen_cursor = NoRow
  /\ alt_active' = TRUE /\ resized_in_alt_screen' = FALSE
  /\ main_cursor' = IF buffers.alt.size = buffer_size THEN position
                                                       ELSE clamp_cursor(position, buffer_size)
  /\ LET b == Next_up(TRUE) IN
     /\ buffers' = [buffers EXCEPT !.alt = b]
     /\ position' = clamp_cursor(position, buffer_size)
     /\ window' = Repainted(Kept, b, position')
     /\ unlike' = (unlike \/ Differ(b, window'))
  /\ UNCHANGED <<buffer_size, alt_screen_cursor, asked>>

\* Back to the main buffer: not painted, the terminal brings its own screen back; if it was
\* resized meanwhile it is asked for its cursor.
switch_to_main ==
  /\ Quiet /\ alt_active /\ alt_active' = FALSE
  /\ LET b == Next_up(FALSE) IN
     /\ buffers' = [buffers EXCEPT !.main = b]
     /\ position' = clamp_cursor(main_cursor, buffer_size)
     /\ window' = Returned
     /\ unlike' = (unlike \/ Differ(b, window') \/ b # buffers.main)
     /\ IF resized_in_alt_screen THEN AskCursor(b, position') ELSE UNCHANGED asked
  /\ resized_in_alt_screen' = FALSE
  /\ UNCHANGED <<buffer_size, main_cursor, alt_screen_cursor>>

\* An application's own ESC[?1049h and ESC[?1049l in a WriteConsole.
use_alternate_buffer ==
  /\ Quiet /\ ~alt_active /\ alt_screen_cursor = NoRow
  /\ alt_screen_cursor' = position /\ resized_in_alt_screen' = FALSE
  /\ window' = Kept
  /\ UNCHANGED <<buffer_size, buffers, alt_active, main_cursor, position, asked, unlike>>

use_main_buffer ==
  /\ Quiet /\ alt_screen_cursor # NoRow
  /\ position' = alt_screen_cursor /\ alt_screen_cursor' = NoRow
  /\ window' = Returned
  /\ unlike' = (unlike \/ Differ(Sb, window'))
  /\ IF resized_in_alt_screen THEN AskCursor(Sb, position') ELSE UNCHANGED asked
  /\ resized_in_alt_screen' = FALSE
  /\ UNCHANGED <<buffer_size, buffers, alt_active, main_cursor>>

-----------------------------------------------------------------------------
(* The terminal                                                            *)

\* apply_terminal_resize: the model keeps the text in use (the cursor's row or one below it);
\* the terminal has reflowed in its own way, its main screen too.
apply_terminal_resize ==
  \E n \in 1..MaxRows, used \in 1..MaxRows : \E row \in 0..(n - 1), saved \in 0..(n - 1) :
    /\ Quiet /\ used \in (position + 1)..Max({Sb.size, position + 1})
    /\ buffer_size' = n
    /\ buffers' = [b \in {"main", "alt"} |->
                     IF b = "alt" /\ ~alt_active THEN buffers[b] ELSE Buffer(n)]
    /\ position' = clamp_cursor(position - Max({used - n, 0}), n)
    /\ resized_in_alt_screen' = (resized_in_alt_screen \/ alt_active \/ alt_screen_cursor # NoRow)
    /\ AskCursor(Buffer(n), position')
    /\ window' = [rows |-> n, row |-> row, shown |-> 0, saved |-> saved, shown_main |-> 0]
    /\ unlike' = FALSE
    /\ UNCHANGED <<alt_active, main_cursor, alt_screen_cursor>>

\* The terminal's size, sent as ESC[8;rows;cols t: the buffer becomes the window and is
\* painted; the cursor is not put back into it.
process_input_resize_window ==
  /\ Quiet
  /\ buffer_size' = window.rows
  /\ LET b == Resized([Sb EXCEPT !.top = 0, !.bottom = window.rows - 1], window.rows) IN
     /\ buffers' = [buffers EXCEPT ![Active] = b]
     /\ window' = [Cup(window, b, position) EXCEPT !.shown = 0]
  /\ UNCHANGED <<position, unlike>> /\ Keeps

\* The same sequence written by an application: the model follows, the terminal resizes itself.
resize_window ==
  \E n \in 1..MaxRows :
    /\ Quiet
    /\ buffer_size' = n
    /\ buffers' = [buffers EXCEPT ![Active] = Resized([Sb EXCEPT !.top = 0, !.bottom = n - 1], n)]
    /\ position' = Min({position, n - 1})
    /\ window' = Told(window, n)
    /\ unlike' = (unlike \/ position > Sb.bottom \/ Differ(Buffer(n), window'))
    /\ Keeps

\* finish_resize_sync: the reply moves the model by what the terminal reports.
finish_resize_sync ==
  /\ ~Quiet /\ asked' = NoRow
  /\ position' = clamp_cursor(position + window.row - asked, buffer_size)
  /\ UNCHANGED <<buffer_size, buffers, saved_vars, window, unlike>>

ScreensNext == api_write_console \/ api_set_cursor_pos \/ api_set_sb_size \/ set_sb_info
          \/ api_set_window_info \/ switch_to_alt \/ switch_to_main \/ use_alternate_buffer
          \/ use_main_buffer \/ apply_terminal_resize \/ process_input_resize_window
          \/ resize_window \/ finish_resize_sync

ScreensSpec == ScreensInit /\ [][ScreensNext]_screens_vars

-----------------------------------------------------------------------------
(* Properties                                                              *)

\* The active buffer has the size clients are told, and no viewport leaves its buffer, in
\* whatever order buffers are switched and resized: a buffer resized behind the other one
\* takes the size when it comes up (switch_active_screen_buffer).
BuffersFit ==
  /\ Sb.size = buffer_size
  /\ \A b \in DOMAIN buffers : 0 <= buffers[b].top /\ buffers[b].top <= buffers[b].bottom
                                 /\ buffers[b].bottom < buffers[b].size

\* The terminal's cursor is where the model's is in the viewport, also after an alternate
\* screen during which the terminal was resized and moved the cursor it kept
\* (switch_active_screen_buffer, use_main_buffer).  Where window and viewport are known to
\* differ, it need not be.
CursorPlaced ==
  Quiet /\ ~unlike => window.row = clamped_relative_position(Sb, position)

\* Sizes and cursor in step, whatever the order of the calls and of the terminal's resizes.
ScreensInStep == BuffersFit /\ CursorPlaced
=============================================================================
