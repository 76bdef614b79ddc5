--------------------------- MODULE Screens_proofs ---------------------------
(***************************************************************************)
(* The two screen buffers and the terminal's window on them, for any       *)
(* largest size: the viewports stay in their buffers, and the terminal's   *)
(* cursor is where the model has it.  And what the terminal sends: for any *)
(* alphabet and bound on a sequence, a message depends on its own          *)
(* characters only, and an application that reads VT input gets them; and  *)
(* readers of input records get what was queued.                           *)
(***************************************************************************)
EXTENDS Screens, VtParser, InputRecords, SequenceTheorems, FiniteSetTheorems,
        WellFoundedInduction, TLAPS

-----------------------------------------------------------------------------
(* The inductive invariant *)

Sizes == 1..MaxRows
RowNumbers == 0..(MaxRows - 1)

\* A viewport inside its buffer.
Viewports ==
  {b \in [size : Sizes, top : RowNumbers, bottom : RowNumbers] :
     b.top <= b.bottom /\ b.bottom < b.size}

\* A terminal with its cursor on its screen.
Windows ==
  {w \in [rows : Sizes, row : RowNumbers, shown : RowNumbers, saved : RowNumbers,
          shown_main : RowNumbers] : w.row < w.rows}

TypeOK ==
  /\ buffer_size \in Sizes /\ buffers \in [{"main", "alt"} -> Viewports]
  /\ alt_active \in BOOLEAN /\ main_cursor \in RowNumbers /\ position \in RowNumbers
  /\ alt_screen_cursor \in 0..MaxRows /\ resized_in_alt_screen \in BOOLEAN
  /\ asked \in Int /\ window \in Windows /\ unlike \in BOOLEAN

\* Model and terminal show the same rows; with a query out, it was asked for the cursor the
\* model has, otherwise the cursors agree.
InStep(b, w, y, query) ==
  /\ Rows(b) = w.rows /\ w.shown = b.top
  /\ IF query = NoRow THEN w.row = clamped_relative_position(b, y) ELSE query = y - b.top

\* What the terminal keeps for its main screen, while that is away and was not resized, is
\* what the model will have there: the main buffer's cursor, or the one saved at ESC[?1049h.
MainKept(main, w, y) ==
  /\ Rows(main) = w.rows /\ w.shown_main = main.top
  /\ w.saved = clamped_relative_position(main, y)
AppKept(w, y) == w.saved = Clamp(y - w.shown_main, 0, w.rows - 1)

ScreensInv ==
  /\ TypeOK
  /\ Sb.size = buffer_size
  /\ asked # NoRow => asked = position - Sb.top
  /\ ~alt_active \/ alt_screen_cursor = NoRow
  /\ ~unlike => InStep(Sb, window, position, asked)
  /\ ~unlike /\ ~resized_in_alt_screen =>
       /\ alt_active => MainKept(buffers["main"], window, main_cursor)
       /\ alt_screen_cursor # NoRow => AppKept(window, alt_screen_cursor)

-----------------------------------------------------------------------------
(* Lemmas about the operators *)

\* set_rect: whatever it is asked for, the viewport is inside its buffer; a rectangle inside
\* the buffer is taken as it is.
LEMMA SetRect ==
  ASSUME NEW b \in [size : Sizes, top : Int, bottom : Int], NEW top \in Int, NEW bottom \in Int
  PROVE  /\ set_rect(b, top, bottom) \in Viewports
         /\ set_rect(b, top, bottom).size = b.size
         /\ 1 <= bottom - top + 1 /\ bottom - top + 1 <= b.size =>
              Rows(set_rect(b, top, bottom)) = bottom - top + 1
         /\ 1 <= bottom - top + 1 => Rows(set_rect(b, top, bottom)) <= bottom - top + 1
         /\ 0 <= top => set_rect(b, top, bottom).top <= top
         /\ 0 <= top /\ top <= bottom /\ bottom < b.size =>
              set_rect(b, top, bottom) = [b EXCEPT !.top = top, !.bottom = bottom]
<1>1. PICK size \in Int : size = b.size /\ 1 <= size /\ size <= MaxRows /\ MaxRows \in Int
  BY ScreensAssumption DEF Sizes
<1>2. PICK height \in Int :
        /\ height = Clamp(bottom - top + 1, 1, size) /\ 1 <= height /\ height <= size
        /\ 1 <= bottom - top + 1 /\ bottom - top + 1 <= size => height = bottom - top + 1
        /\ 1 <= bottom - top + 1 => height <= bottom - top + 1
  BY <1>1 DEF Clamp
<1>3. PICK first \in Int :
        /\ first = Clamp(top, 0, size - height) /\ 0 <= first /\ first <= size - height
        /\ 0 <= top /\ top <= size - height => first = top
        /\ 0 <= top => first <= top
  BY <1>1, <1>2 DEF Clamp
<1>4. PICK last \in Int : last = first + height - 1
  OBVIOUS
<1>5. set_rect(b, top, bottom) = [b EXCEPT !.top = first, !.bottom = last]
  BY <1>1, <1>2, <1>3, <1>4 DEF set_rect
<1>6. size \in Sizes /\ first \in RowNumbers /\ last \in RowNumbers /\ first <= last /\ last < size
  BY <1>1, <1>2, <1>3, <1>4 DEF Sizes, RowNumbers
<1>7. set_rect(b, top, bottom) \in Viewports /\ set_rect(b, top, bottom).size = b.size
  BY <1>1, <1>5, <1>6 DEF Viewports
<1>8. 0 <= top /\ top <= bottom /\ bottom < size => first = top /\ last = bottom
  BY <1>2, <1>3, <1>4, SMTT(30)
<1>9. set_rect(b, top, bottom).top = first /\ set_rect(b, top, bottom).bottom = last
  BY <1>5
<1>10. Rows(set_rect(b, top, bottom)) = height
  BY <1>4, <1>9 DEF Rows
<1>11. QED
  BY <1>1, <1>2, <1>3, <1>5, <1>7, <1>8, <1>9, <1>10

\* What the type of a viewport says of its rows.
LEMMA ViewportIs ==
  ASSUME NEW b \in Viewports
  PROVE  /\ b \in [size : Sizes, top : Int, bottom : Int]
         /\ b.size \in Sizes /\ b.top \in RowNumbers /\ b.bottom \in RowNumbers
         /\ b.top <= b.bottom /\ b.bottom < b.size
         /\ Rows(b) \in 1..b.size /\ Rows(b) \in Sizes
BY ScreensAssumption DEF Viewports, Sizes, RowNumbers, Rows

LEMMA RelativeIs ==
  ASSUME NEW b \in Viewports, NEW y \in Int
  PROVE  clamped_relative_position(b, y) \in 0..(Rows(b) - 1)
<1>1. PICK top \in Int, height \in Int : top = b.top /\ height = Rows(b) /\ 1 <= height
  BY ViewportIs, ScreensAssumption DEF Sizes, RowNumbers
<1>2. Clamp(y - top, 0, height - 1) \in 0..(height - 1)
  BY <1>1 DEF Clamp
<1>3. QED
  BY <1>1, <1>2 DEF clamped_relative_position

LEMMA BufferIs ==
  ASSUME NEW n \in Sizes
  PROVE  Buffer(n) \in Viewports /\ Buffer(n).size = n /\ Buffer(n).top = 0 /\ Rows(Buffer(n)) = n
BY ScreensAssumption DEF Buffer, Viewports, Sizes, RowNumbers, Rows

\* vt_write_cup_buffer: on a terminal as high as the viewport the cursor goes where it should.
LEMMA CupIs ==
  ASSUME NEW w \in Windows, NEW b \in Viewports, NEW y \in Int
  PROVE  /\ Cup(w, b, y) \in Windows
         /\ Cup(w, b, y).rows = w.rows /\ Cup(w, b, y).shown = w.shown
         /\ Cup(w, b, y).saved = w.saved /\ Cup(w, b, y).shown_main = w.shown_main
         /\ Rows(b) = w.rows => Cup(w, b, y).row = clamped_relative_position(b, y)
<1>1. PICK c \in Int : c = clamped_relative_position(b, y) /\ 0 <= c /\ c <= Rows(b) - 1
  BY RelativeIs, ViewportIs, ScreensAssumption DEF Sizes
<1>2. PICK rows \in Int : rows = w.rows /\ 1 <= rows /\ rows <= MaxRows /\ MaxRows \in Int
  BY ScreensAssumption DEF Windows, Sizes
<1>3. PICK row \in Int :
        /\ row = Clamp(c, 0, rows - 1) /\ 0 <= row /\ row < rows
        /\ c < rows => row = c
  BY <1>1, <1>2 DEF Clamp
<1>4. Cup(w, b, y) = [w EXCEPT !.row = row]
  BY <1>1, <1>2, <1>3 DEF Cup
<1>5. row \in RowNumbers /\ row < w.rows
  BY <1>2, <1>3 DEF RowNumbers
<1>6. [w EXCEPT !.row = row] \in Windows
  BY <1>5 DEF Windows
<1>7. Rows(b) = w.rows => row = c
  BY <1>1, <1>2, <1>3
<1>8. w \in [rows : Sizes, row : RowNumbers, shown : RowNumbers, saved : RowNumbers,
             shown_main : RowNumbers]
  BY DEF Windows
<1>9. QED
  BY <1>1, <1>4, <1>6, <1>7, <1>8

\* A viewport that follows the cursor keeps its height and does not start below the cursor.
LEMMA SnapIs ==
  ASSUME NEW b \in Viewports, NEW y \in Nat
  PROVE  /\ snap_to_cursor(b, y) \in Viewports /\ snap_to_cursor(b, y).size = b.size
         /\ Rows(snap_to_cursor(b, y)) = Rows(b) /\ snap_to_cursor(b, y).top <= y
<1>1. PICK t \in Int, e \in Int, h \in Int, size \in Int :
        /\ t = b.top /\ e = b.bottom /\ h = Rows(b) /\ size = b.size
        /\ 0 <= t /\ t <= e /\ e < size /\ h = e - t + 1
  BY ViewportIs, ScreensAssumption DEF Rows, Sizes, RowNumbers
<1>2. PICK top \in Int :
        /\ top = IF y < t THEN y ELSE IF y > e THEN t + y - e ELSE t
        /\ 0 <= top /\ top <= y
  BY <1>1
<1>3. PICK bottom \in Int : bottom = top + h - 1
  OBVIOUS
<1>4. snap_to_cursor(b, y) = set_rect(b, top, bottom)
  BY <1>1, <1>2, <1>3 DEF snap_to_cursor
<1>5. b \in [size : Sizes, top : Int, bottom : Int]
  BY ViewportIs
<1>6. 1 <= bottom - top + 1 /\ bottom - top + 1 <= b.size /\ bottom - top + 1 = Rows(b)
  BY <1>1, <1>3
<1>7. /\ set_rect(b, top, bottom) \in Viewports /\ set_rect(b, top, bottom).size = b.size
      /\ 1 <= bottom - top + 1 /\ bottom - top + 1 <= b.size =>
           Rows(set_rect(b, top, bottom)) = bottom - top + 1
      /\ 0 <= top => set_rect(b, top, bottom).top <= top
  BY <1>5, SetRect
<1>8. PICK first \in Int : first = snap_to_cursor(b, y).top /\ first <= top
  BY <1>2, <1>4, <1>7, ViewportIs, ScreensAssumption DEF RowNumbers
<1>9. QED
  BY <1>2, <1>4, <1>6, <1>7, <1>8

\* ESC[8;rows;cols t cuts the terminal's cursor off at the last row.
LEMMA ToldIs ==
  ASSUME NEW w \in Windows, NEW n \in Sizes
  PROVE  /\ Told(w, n) \in Windows /\ Told(w, n).rows = n /\ Told(w, n).shown = w.shown
         /\ Told(w, n).saved = w.saved /\ Told(w, n).shown_main = w.shown_main
         /\ Told(w, n).row = Clamp(w.row, 0, n - 1)
<1>1. PICK y \in Int : y = w.row
  BY ScreensAssumption DEF Windows, RowNumbers
<1>2. Clamp(y, 0, n - 1) \in RowNumbers /\ Clamp(y, 0, n - 1) < n
  BY <1>1, ScreensAssumption DEF Clamp, RowNumbers, Sizes
<1>3. Told(w, n) = [w EXCEPT !.rows = n, !.row = Clamp(y, 0, n - 1)]
  BY <1>1 DEF Told
<1>4. w \in [rows : Sizes, row : RowNumbers, shown : RowNumbers, saved : RowNumbers,
             shown_main : RowNumbers]
  BY DEF Windows
<1>5. QED
  BY <1>1, <1>2, <1>3, <1>4 DEF Windows

\* render_visible_viewport: the terminal shows the viewport, with the cursor in it.
LEMMA RepaintedIs ==
  ASSUME NEW w \in Windows, NEW b \in Viewports, NEW y \in Int
  PROVE  /\ Repainted(w, b, y) \in Windows
         /\ Repainted(w, b, y).rows = w.rows /\ Repainted(w, b, y).shown = b.top
         /\ Repainted(w, b, y).saved = w.saved
         /\ Repainted(w, b, y).shown_main = w.shown_main
         /\ Rows(b) = w.rows => Repainted(w, b, y).row = clamped_relative_position(b, y)
<1>1. PICK v \in Windows : v = Cup(w, b, y)
  BY CupIs
<1>2. Repainted(w, b, y) = [v EXCEPT !.shown = b.top]
  BY <1>1 DEF Repainted
<1>3. b.top \in RowNumbers
  BY ViewportIs
<1>4. v \in [rows : Sizes, row : RowNumbers, shown : RowNumbers, saved : RowNumbers,
             shown_main : RowNumbers] /\ v.row < v.rows
  BY DEF Windows
<1>5. /\ Repainted(w, b, y) \in Windows /\ Repainted(w, b, y).shown = b.top
      /\ Repainted(w, b, y).rows = v.rows /\ Repainted(w, b, y).row = v.row
      /\ Repainted(w, b, y).saved = v.saved /\ Repainted(w, b, y).shown_main = v.shown_main
  BY <1>2, <1>3, <1>4 DEF Windows
<1>6. QED
  BY <1>1, <1>5, CupIs

-----------------------------------------------------------------------------
(* The steps *)

LEMMA SbIs ==
  ASSUME TypeOK
  PROVE  /\ Active \in {"main", "alt"} /\ Sb \in Viewports
         /\ buffers["main"] \in Viewports /\ buffers["alt"] \in Viewports
BY DEF TypeOK, Active, Sb

\* A call that changes the active buffer, its size, the cursor and what the terminal shows.
LEMMA CallStep ==
  ASSUME ScreensInv, Quiet, Keeps, NEW b \in Viewports,
         buffers' = [buffers EXCEPT ![Active] = b], buffer_size' = b.size,
         position' \in RowNumbers, window' \in Windows, unlike' \in BOOLEAN,
         window'.saved = window.saved, window'.shown_main = window.shown_main,
         ~unlike' => /\ ~unlike /\ Rows(b) = window'.rows /\ window'.shown = b.top
                     /\ window'.row = clamped_relative_position(b, position')
                     /\ Away => window'.rows = window.rows
  PROVE  ScreensInv'
<1>1. TypeOK /\ Active' = Active
  BY DEF ScreensInv, Keeps, saved_vars, Active
<1>2. /\ alt_active' = alt_active /\ main_cursor' = main_cursor
      /\ alt_screen_cursor' = alt_screen_cursor /\ asked' = asked
      /\ resized_in_alt_screen' = resized_in_alt_screen /\ asked = NoRow
  BY DEF Keeps, saved_vars, Quiet
<1>3. Sb' = b /\ (alt_active => buffers'["main"] = buffers["main"])
  BY <1>1, <1>2, SbIs DEF Sb, Active, TypeOK
<1>4. TypeOK'
  <2>1. b.size \in Sizes
    BY ViewportIs
  <2>2. QED
    BY <1>1, <1>2, <2>1 DEF TypeOK, Active
<1>5. ~unlike' => InStep(b, window', position', asked')
  BY <1>2 DEF InStep
<1>6. ASSUME ~unlike', ~resized_in_alt_screen'
      PROVE  /\ alt_active' => MainKept(buffers'["main"], window', main_cursor')
             /\ alt_screen_cursor' # NoRow => AppKept(window', alt_screen_cursor')
  <2>1. Away => window'.rows = window.rows /\ ~unlike
    BY <1>6
  <2>2. /\ alt_active => MainKept(buffers["main"], window, main_cursor)
        /\ alt_screen_cursor # NoRow => AppKept(window, alt_screen_cursor)
    BY <1>2, <1>6 DEF ScreensInv
  <2>3. QED
    BY <1>2, <1>3, <2>1, <2>2 DEF Away, MainKept, AppKept
<1>7. QED
  BY <1>2, <1>3, <1>4, <1>5, <1>6 DEF ScreensInv

LEMMA ClampCursorIs ==
  ASSUME NEW y \in Int, NEW n \in Sizes
  PROVE  clamp_cursor(y, n) \in RowNumbers /\ clamp_cursor(y, n) < n
BY ScreensAssumption DEF clamp_cursor, Clamp, Sizes, RowNumbers

\* The viewport has followed the cursor, so that a line feed moves both cursors by one row.
LEMMA WriteConsole == ScreensInv /\ api_write_console => ScreensInv'
<1> SUFFICES ASSUME ScreensInv, api_write_console PROVE ScreensInv'
  OBVIOUS
<1> DEFINE b == snap_to_cursor(Sb, position)
           y == IF b # Sb THEN clamp_cursor(position, buffer_size) ELSE position
           w == IF b # Sb THEN Repainted(window, b, y) ELSE Cup(window, b, y)
<1>1. TypeOK /\ Sb \in Viewports /\ Sb.size = buffer_size /\ position \in Nat
  BY SbIs, ScreensAssumption DEF ScreensInv, TypeOK, RowNumbers
<1>2. b \in Viewports /\ b.size = buffer_size /\ Rows(b) = Rows(Sb) /\ b.top <= position
  BY <1>1, SnapIs
<1>3. /\ Quiet /\ Keeps /\ buffer_size' = b.size /\ unlike' = unlike
      /\ buffers' = [buffers EXCEPT ![Active] = b]
      /\ \/ position' = y /\ window' = w
         \/ /\ y < b.bottom /\ position' = y + 1
            /\ window' = [w EXCEPT !.row = Clamp(w.row + 1, 0, w.rows - 1)]
  BY <1>2 DEF api_write_console
<1>4. y \in RowNumbers /\ b.top <= y
  <2>1. CASE b = Sb
    BY <1>1, <1>2, <2>1 DEF TypeOK
  <2>2. CASE b # Sb
    <3>1. PICK t \in Int, n \in Sizes : t = b.top /\ n = buffer_size /\ t < n
      BY <1>1, <1>2, ViewportIs, ScreensAssumption DEF TypeOK, Sizes, RowNumbers
    <3>2. y = Clamp(position, 0, n - 1)
      BY <2>2, <3>1 DEF clamp_cursor
    <3>3. QED
      BY <1>1, <1>2, <3>1, <3>2, ScreensAssumption DEF Clamp, Sizes, RowNumbers
  <2>3. QED
    BY <2>1, <2>2
<1> HIDE DEF y, b
<1>5. window \in Windows /\ y \in Int
  BY <1>1, <1>4, ScreensAssumption DEF TypeOK, RowNumbers
<1>6. /\ w \in Windows /\ w.rows = window.rows /\ w.saved = window.saved
      /\ w.shown_main = window.shown_main
      /\ Rows(b) = w.rows => w.row = clamped_relative_position(b, y)
      /\ w.shown = IF b # Sb THEN b.top ELSE window.shown
  BY <1>2, <1>5, CupIs, RepaintedIs
<1> HIDE DEF w
<1>7. ASSUME ~unlike
      PROVE  /\ Rows(b) = w.rows /\ w.shown = b.top /\ w.rows = window.rows
             /\ w.row = clamped_relative_position(b, y)
  BY <1>2, <1>6, <1>7 DEF ScreensInv, InStep
<1>8. CASE position' = y /\ window' = w
  <2>1. unlike' \in BOOLEAN
    BY <1>1, <1>3 DEF TypeOK
  <2>2. QED
    BY <1>2, <1>3, <1>4, <1>6, <1>7, <1>8, <2>1, CallStep
<1>9. CASE /\ y < b.bottom /\ position' = y + 1
           /\ window' = [w EXCEPT !.row = Clamp(w.row + 1, 0, w.rows - 1)]
  <2>1. PICK r \in Int, n \in Int : /\ r = w.row /\ n = w.rows /\ 0 <= r /\ r < n
                                  /\ n <= MaxRows /\ MaxRows \in Int
    BY <1>6, ScreensAssumption DEF Windows, Sizes, RowNumbers
  <2>2. PICK t \in Int, e \in Int : /\ t = b.top /\ e = b.bottom /\ Rows(b) = e - t + 1
                                  /\ e < MaxRows /\ t <= y /\ y < e /\ 0 <= y
    BY <1>2, <1>4, <1>9, ViewportIs, ScreensAssumption DEF RowNumbers, Rows
  <2>3. PICK k \in Int : /\ k = Clamp(r + 1, 0, n - 1) /\ 0 <= k /\ k < n
                         /\ k = IF r + 1 < n THEN r + 1 ELSE n - 1
    BY <2>1 DEF Clamp
  <2>4. window' = [w EXCEPT !.row = k]
    BY <1>9, <2>1, <2>3
  <2>5. k \in RowNumbers /\ k < w.rows /\ position' \in RowNumbers
    BY <1>5, <1>9, <2>1, <2>2, <2>3 DEF RowNumbers
  <2>6. w \in [rows : Sizes, row : RowNumbers, shown : RowNumbers, saved : RowNumbers,
               shown_main : RowNumbers]
    BY <1>6 DEF Windows
  <2>7. /\ window' \in Windows /\ window'.row = k /\ window'.rows = w.rows
        /\ window'.shown = w.shown /\ window'.saved = w.saved
        /\ window'.shown_main = w.shown_main
    BY <2>4, <2>5, <2>6 DEF Windows
  <2>8. ASSUME ~unlike PROVE k = clamped_relative_position(b, position')
    <3>1. n = e - t + 1 /\ r = Clamp(y - t, 0, e - t)
      BY <1>7, <2>1, <2>2, <2>8 DEF clamped_relative_position
    <3>2. k = Clamp(y + 1 - t, 0, n - 1)
      BY <1>5, <2>1, <2>2, <2>3, <3>1 DEF Clamp
    <3>3. QED
      BY <1>5, <1>9, <2>2, <3>1, <3>2 DEF clamped_relative_position, Clamp
  <2>9. unlike' \in BOOLEAN
    BY <1>1, <1>3 DEF TypeOK
  <2>10. QED
    BY <1>2, <1>3, <1>6, <1>7, <2>5, <2>7, <2>8, <2>9, CallStep
<1>10. QED
  BY <1>3, <1>8, <1>9

LEMMA SetCursor == ScreensInv /\ api_set_cursor_pos => ScreensInv'
<1> SUFFICES ASSUME ScreensInv, NEW y \in 0..(buffer_size - 1),
                    Quiet /\ position' = y /\ UNCHANGED <<buffer_size, unlike>> /\ Keeps,
                    LET b == snap_to_cursor(Sb, y)
                        w == IF b # Sb THEN Repainted(window, b, y) ELSE window
                    IN  /\ buffers' = [buffers EXCEPT ![Active] = b]
                        /\ window' = Cup(w, b, y)
             PROVE  ScreensInv'
  BY DEF api_set_cursor_pos
<1> DEFINE b == snap_to_cursor(Sb, y)
           w == IF b # Sb THEN Repainted(window, b, y) ELSE window
<1>1. TypeOK /\ Sb \in Viewports /\ Sb.size = buffer_size /\ window \in Windows
  BY SbIs DEF ScreensInv, TypeOK
<1>2. y \in Nat /\ y \in RowNumbers
  BY <1>1, ScreensAssumption DEF TypeOK, RowNumbers, Sizes
<1>3. b \in Viewports /\ b.size = buffer_size /\ Rows(b) = Rows(Sb)
  BY <1>1, <1>2, SnapIs
<1>4. buffers' = [buffers EXCEPT ![Active] = b] /\ window' = Cup(w, b, y) /\ buffer_size' = b.size
  BY <1>3
<1>5. b = Sb \/ b # Sb
  OBVIOUS
<1> HIDE DEF b
<1>6. /\ w \in Windows /\ w.rows = window.rows /\ w.saved = window.saved
      /\ w.shown_main = window.shown_main
      /\ w.shown = IF b # Sb THEN b.top ELSE window.shown
  BY <1>1, <1>2, <1>3, RepaintedIs
<1> HIDE DEF w
<1>7. /\ window' \in Windows /\ window'.rows = w.rows /\ window'.saved = w.saved
      /\ window'.shown_main = w.shown_main /\ window'.shown = w.shown
      /\ Rows(b) = w.rows => window'.row = clamped_relative_position(b, y)
  BY <1>2, <1>3, <1>4, <1>6, CupIs
<1>8. unlike' \in BOOLEAN
  BY <1>1 DEF TypeOK
<1>9. ASSUME ~unlike
      PROVE  /\ Rows(b) = window'.rows /\ window'.shown = b.top /\ window'.rows = window.rows
             /\ window'.row = clamped_relative_position(b, position')
  BY <1>3, <1>6, <1>7, <1>9 DEF ScreensInv, InStep
<1>10. QED
  BY <1>2, <1>3, <1>4, <1>6, <1>7, <1>8, <1>9, CallStep

\* Resizing a buffer keeps its viewport inside and does not make it higher.
LEMMA ResizedRows ==
  ASSUME NEW b \in Viewports, NEW n \in Sizes
  PROVE  /\ Resized(b, n) \in Viewports /\ Resized(b, n).size = n
         /\ Rows(Resized(b, n)) <= Rows(b)
<1>1. b \in [size : Sizes, top : Int, bottom : Int]
  BY ViewportIs
<1>2. PICK height \in Int : height = Rows(b)
  BY ViewportIs, ScreensAssumption DEF Sizes
<1>3. CASE b.size = n
  BY <1>2, <1>3 DEF Resized
<1>4. CASE b.size # n
  <2> DEFINE c == [b EXCEPT !.size = n]
  <2>1. /\ c \in [size : Sizes, top : Int, bottom : Int] /\ c.size = n
        /\ c.top = b.top /\ c.bottom = b.bottom
    BY <1>1
  <2>2. Resized(b, n) = set_rect(c, b.top, b.bottom)
    BY <1>4, <2>1 DEF Resized, clamp_to_buffer
  <2> HIDE DEF c
  <2>3. b.top \in Int /\ b.bottom \in Int /\ 1 <= b.bottom - b.top + 1
    BY ViewportIs, ScreensAssumption DEF RowNumbers
  <2>4. /\ set_rect(c, b.top, b.bottom) \in Viewports /\ set_rect(c, b.top, b.bottom).size = n
        /\ Rows(set_rect(c, b.top, b.bottom)) <= b.bottom - b.top + 1
    BY <2>1, <2>3, SetRect, ZenonT(60)
  <2>5. QED
    BY <2>2, <2>4 DEF Rows
<1>5. QED
  BY <1>3, <1>4

\* A rectangle inside the buffer stays as it is.
LEMMA Inside ==
  ASSUME NEW b \in Viewports
  PROVE  clamp_to_buffer(b) = b
<1>1. /\ b \in [size : Sizes, top : Int, bottom : Int]
      /\ 0 <= b.top /\ b.top <= b.bottom /\ b.bottom < b.size
      /\ b.top \in Int /\ b.bottom \in Int
  BY ViewportIs, ScreensAssumption DEF RowNumbers
<1>2. set_rect(b, b.top, b.bottom) = [b EXCEPT !.top = b.top, !.bottom = b.bottom]
  BY <1>1, SetRect
<1>3. QED
  BY <1>1, <1>2 DEF clamp_to_buffer

\* The tail of the calls that change the size: where nothing is painted, the viewport covers
\* the buffer and is not higher than it was, so that the cursor is cut off alike on both sides.
LEMMA PaintStep ==
  ASSUME ScreensInv, Quiet, Keeps, NEW n \in Sizes, NEW b \in Viewports, NEW changed \in BOOLEAN,
         NEW w \in Windows, b.size = n, ~changed => Rows(b) <= Rows(Sb),
         w.shown = window.shown, w.saved = window.saved, w.shown_main = window.shown_main,
         w.row = Clamp(window.row, 0, w.rows - 1),
         buffer_size' = n, buffers' = [buffers EXCEPT ![Active] = b],
         position' = clamp_cursor(position, n), Paint(b, changed, w)
  PROVE  ScreensInv'
<1>1. TypeOK /\ Sb \in Viewports /\ window \in Windows /\ position \in Int
  BY SbIs, ScreensAssumption DEF ScreensInv, TypeOK, RowNumbers
<1>2. position' \in RowNumbers /\ position' \in Int
  BY <1>1, ClampCursorIs, ScreensAssumption DEF RowNumbers
<1>3. /\ window' = IF changed \/ Rows(b) # b.size THEN Repainted(w, b, position') ELSE w
      /\ unlike' = (unlike \/ Differ(b, window')) /\ unlike' \in BOOLEAN
  BY <1>1 DEF Paint, TypeOK
<1>4. /\ window' \in Windows /\ window'.saved = window.saved
      /\ window'.shown_main = window.shown_main
  BY <1>2, <1>3, RepaintedIs
<1>5. ASSUME ~unlike'
      PROVE  /\ ~unlike /\ Rows(b) = window'.rows /\ window'.shown = b.top
             /\ Away => window'.rows = window.rows
  BY <1>3, <1>5 DEF Differ
<1>6. ASSUME ~unlike' PROVE window'.row = clamped_relative_position(b, position')
  <2>1. CASE changed \/ Rows(b) # b.size
    BY <1>2, <1>3, <1>5, <1>6, <2>1, RepaintedIs
  <2>2. CASE ~changed /\ Rows(b) = b.size
    <3>1. window' = w /\ w.shown = b.top /\ w.rows = n
      BY <1>3, <1>5, <1>6, <2>2
    <3>2. b.top = 0
      BY <2>2, ViewportIs, ScreensAssumption DEF Rows, Sizes, RowNumbers
    <3>3. Sb.top = 0 /\ window.row = clamped_relative_position(Sb, position)
      BY <1>5, <1>6, <3>1, <3>2 DEF ScreensInv, InStep, Quiet
    <3>4. PICK h \in Int, y \in Int, v \in Int :
            /\ h = Rows(Sb) /\ 1 <= h /\ y = position /\ 0 <= y /\ v = window.row
            /\ v = Clamp(y, 0, h - 1)
      BY <1>1, <3>3, ViewportIs, ScreensAssumption
        DEF TypeOK, RowNumbers, Sizes, clamped_relative_position, Windows
    <3>5. n <= h /\ n \in Int /\ 1 <= n
      BY <2>2, <3>4, ScreensAssumption DEF Sizes
    <3>6. w.row = Clamp(v, 0, n - 1)
      BY <3>1, <3>4
    <3>7. Clamp(v, 0, n - 1) = Clamp(Clamp(y, 0, n - 1), 0, n - 1)
      BY <3>4, <3>5 DEF Clamp
    <3>8. position' = Clamp(y, 0, n - 1) /\ Clamp(y, 0, n - 1) - 0 = Clamp(y, 0, n - 1)
      BY <3>4, <3>5 DEF clamp_cursor, Clamp
    <3>9. clamped_relative_position(b, position') = Clamp(position', 0, n - 1)
      BY <1>2, <2>2, <3>2 DEF clamped_relative_position
    <3>10. QED
      BY <3>1, <3>6, <3>7, <3>8, <3>9
  <2>3. QED
    BY <2>1, <2>2
<1>7. QED
  BY <1>2, <1>3, <1>4, <1>5, <1>6, CallStep

LEMMA SetSize == ScreensInv /\ api_set_sb_size => ScreensInv'
<1> SUFFICES ASSUME ScreensInv, NEW n \in Rows(Sb)..MaxRows, Quiet, Keeps,
                    LET r == Resized(Sb, n)
                        b == clamp_to_buffer(r)
                    IN  /\ buffer_size' = n /\ buffers' = [buffers EXCEPT ![Active] = b]
                        /\ position' = clamp_cursor(position, n)
                        /\ Paint(b, b # r, window)
             PROVE  ScreensInv'
  BY DEF api_set_sb_size
<1>1. Sb \in Viewports /\ window \in Windows
  BY SbIs DEF ScreensInv, TypeOK
<1>2. n \in Sizes
  BY <1>1, ViewportIs, ScreensAssumption DEF Sizes
<1>3. PICK r \in Viewports : r = Resized(Sb, n) /\ r.size = n /\ Rows(r) <= Rows(Sb)
  BY <1>1, <1>2, ResizedRows
<1>4. clamp_to_buffer(r) = r
  BY Inside
<1>5. window.row = Clamp(window.row, 0, window.rows - 1)
  BY <1>1, ScreensAssumption DEF Windows, RowNumbers, Sizes, Clamp
<1>6. /\ buffer_size' = n /\ buffers' = [buffers EXCEPT ![Active] = r]
      /\ position' = clamp_cursor(position, n) /\ Paint(r, FALSE, window)
  <2>1. (clamp_to_buffer(Resized(Sb, n)) # Resized(Sb, n)) = FALSE
    BY <1>3, <1>4
  <2>2. QED
    BY <1>3, <1>4, <2>1
<1>7. QED
  BY <1>1, <1>2, <1>3, <1>5, <1>6, PaintStep

LEMMA SetInfo == ScreensInv /\ set_sb_info => ScreensInv'
<1> SUFFICES ASSUME ScreensInv, NEW n \in Sizes, NEW height \in 1..n, Quiet, Keeps,
                    LET r == Resized(Sb, n)
                        b == set_size(r, height)
                        w == IF Rows(b) # Rows(Sb) THEN Told(window, Rows(b)) ELSE window
                    IN  /\ buffer_size' = n /\ buffers' = [buffers EXCEPT ![Active] = b]
                        /\ position' = clamp_cursor(position, n)
                        /\ Paint(b, b # r, w)
             PROVE  ScreensInv'
  BY DEF set_sb_info, Sizes
<1>1. Sb \in Viewports /\ window \in Windows
  BY SbIs DEF ScreensInv, TypeOK
<1>2. PICK r \in Viewports : r = Resized(Sb, n) /\ r.size = n /\ Rows(r) <= Rows(Sb)
  BY <1>1, ResizedRows
<1>3. PICK b \in Viewports : b = set_size(r, height) /\ b.size = n
  <2>1. /\ r \in [size : Sizes, top : Int, bottom : Int]
        /\ r.top \in Int /\ r.top + height - 1 \in Int
    BY ViewportIs, ScreensAssumption DEF RowNumbers, Sizes
  <2>2. /\ set_rect(r, r.top, r.top + height - 1) \in Viewports
        /\ set_rect(r, r.top, r.top + height - 1).size = r.size
    BY <2>1, SetRect
  <2>3. QED
    BY <1>2, <2>2 DEF set_size
<1>4. PICK changed \in BOOLEAN : changed = (b # r)
  OBVIOUS
<1>5. Rows(b) \in Sizes
  BY ViewportIs
<1>6. PICK w \in Windows :
        /\ w = IF Rows(b) # Rows(Sb) THEN Told(window, Rows(b)) ELSE window
        /\ w.shown = window.shown /\ w.saved = window.saved /\ w.shown_main = window.shown_main
        /\ w.row = Clamp(window.row, 0, w.rows - 1)
  <2>1. window.row = Clamp(window.row, 0, window.rows - 1)
    BY <1>1, ScreensAssumption DEF Windows, RowNumbers, Sizes, Clamp
  <2>2. QED
    BY <1>1, <1>5, <2>1, ToldIs
<1>7. ~changed => Rows(b) <= Rows(Sb)
  BY <1>2, <1>4
<1>8. /\ buffer_size' = n /\ buffers' = [buffers EXCEPT ![Active] = b]
      /\ position' = clamp_cursor(position, n) /\ Paint(b, changed, w)
  BY <1>2, <1>3, <1>4, <1>6
<1>9. QED
  BY <1>3, <1>6, <1>7, <1>8, PaintStep, ZenonT(60)

LEMMA SetWindow == ScreensInv /\ api_set_window_info => ScreensInv'
<1> SUFFICES ASSUME ScreensInv, NEW top \in -1..MaxRows, NEW height \in Sizes, Quiet, Keeps,
                    LET n == Max({buffer_size, height})
                        b == set_rect(Resized(Sb, n), top, top + height - 1)
                        w == IF Rows(b) # Rows(Sb) THEN Told(window, Rows(b)) ELSE window
                    IN  /\ buffer_size' = n /\ buffers' = [buffers EXCEPT ![Active] = b]
                        /\ position' = clamp_cursor(position, n)
                        /\ window' = Repainted(w, b, position')
                        /\ unlike' = (unlike \/ Differ(b, window'))
             PROVE  ScreensInv'
  BY DEF api_set_window_info, Sizes
<1>1. /\ Sb \in Viewports /\ window \in Windows /\ buffer_size \in Sizes
      /\ position \in Int /\ unlike \in BOOLEAN
  BY SbIs, ScreensAssumption DEF ScreensInv, TypeOK, RowNumbers
<1>2. PICK n \in Sizes : n = Max({buffer_size, height})
  BY <1>1, ScreensAssumption DEF Max, Sizes
<1>3. PICK r \in Viewports : r = Resized(Sb, n) /\ r.size = n
  BY <1>1, ResizedRows
<1>4. PICK b \in Viewports : b = set_rect(r, top, top + height - 1) /\ b.size = n
  <2>1. /\ r \in [size : Sizes, top : Int, bottom : Int]
        /\ top \in Int /\ top + height - 1 \in Int
    BY ViewportIs, ScreensAssumption DEF Sizes
  <2>2. /\ set_rect(r, top, top + height - 1) \in Viewports
        /\ set_rect(r, top, top + height - 1).size = r.size
    BY <2>1, SetRect
  <2>3. QED
    BY <1>3, <2>2
<1>5. Rows(b) \in Sizes
  BY ViewportIs
<1>6. PICK w \in Windows :
        /\ w = IF Rows(b) # Rows(Sb) THEN Told(window, Rows(b)) ELSE window
        /\ w.saved = window.saved /\ w.shown_main = window.shown_main
  BY <1>1, <1>5, ToldIs
<1>7. /\ buffer_size' = b.size /\ buffers' = [buffers EXCEPT ![Active] = b]
      /\ position' = clamp_cursor(position, n) /\ window' = Repainted(w, b, position')
      /\ unlike' = (unlike \/ Differ(b, window')) /\ unlike' \in BOOLEAN
  BY <1>1, <1>2, <1>3, <1>4, <1>6
<1>8. position' \in RowNumbers /\ position' \in Int
  BY <1>1, <1>7, ClampCursorIs, ScreensAssumption DEF RowNumbers
<1>9. /\ window' \in Windows /\ window'.saved = window.saved
      /\ window'.shown_main = window.shown_main /\ window'.rows = w.rows
      /\ Rows(b) = w.rows => window'.row = clamped_relative_position(b, position')
  <2>1. PICK y \in Int : y = position'
    BY <1>8
  <2>2. /\ Repainted(w, b, y) \in Windows /\ Repainted(w, b, y).saved = w.saved
        /\ Repainted(w, b, y).shown_main = w.shown_main /\ Repainted(w, b, y).rows = w.rows
        /\ Rows(b) = w.rows => Repainted(w, b, y).row = clamped_relative_position(b, y)
    BY RepaintedIs
  <2>3. window' = Repainted(w, b, y)
    BY <1>7, <2>1
  <2>4. QED
    BY <1>6, <2>1, <2>2, <2>3
<1>10. ~unlike' => /\ ~unlike /\ Rows(b) = window'.rows /\ window'.shown = b.top
                   /\ window'.row = clamped_relative_position(b, position')
                   /\ Away => window'.rows = window.rows
  BY <1>7, <1>9 DEF Differ
<1>11. QED
  BY <1>7, <1>8, <1>9, <1>10, CallStep

\* ESC[8;rows;cols t: the viewport is the whole buffer of the new size.
LEMMA WindowBuffer ==
  ASSUME NEW b \in Viewports, NEW n \in Sizes
  PROVE  Resized([b EXCEPT !.top = 0, !.bottom = n - 1], n) = Buffer(n)
<1>1. PICK first \in Int, last \in Int : first = 0 /\ last = n - 1
  BY ScreensAssumption DEF Sizes
<1>2. PICK c : c = [b EXCEPT !.top = first, !.bottom = last]
  OBVIOUS
<1>3. PICK size \in Sizes : size = b.size
  BY ViewportIs
<1>4. c = [size |-> size, top |-> first, bottom |-> last]
  <2>1. b \in [size : Sizes, top : Int, bottom : Int]
    BY ViewportIs
  <2>2. c \in [size : Sizes, top : Int, bottom : Int]
    BY <1>2, <2>1
  <2>3. c.size = b.size /\ c.top = first /\ c.bottom = last
    BY <1>2, <2>1
  <2>4. c = [size |-> c.size, top |-> c.top, bottom |-> c.bottom]
    BY <2>2
  <2>5. QED
    BY <1>3, <2>3, <2>4
<1>5. [c EXCEPT !.size = n] = Buffer(n) /\ (size = n => c = Buffer(n))
  BY <1>1, <1>4 DEF Buffer
<1>6. clamp_to_buffer(Buffer(n)) = Buffer(n)
  BY BufferIs, Inside
<1>7. c.size = size
  BY <1>4
<1>8. Resized(c, n) = IF n = c.size THEN c ELSE clamp_to_buffer([c EXCEPT !.size = n])
  BY DEF Resized
<1>9. QED
  BY <1>1, <1>2, <1>5, <1>6, <1>7, <1>8

LEMMA ProcessResize == ScreensInv /\ process_input_resize_window => ScreensInv'
<1> SUFFICES ASSUME ScreensInv, process_input_resize_window PROVE ScreensInv'
  OBVIOUS
<1>1. /\ Sb \in Viewports /\ window \in Windows /\ position \in RowNumbers
      /\ unlike \in BOOLEAN /\ position \in Int
  BY SbIs, ScreensAssumption DEF ScreensInv, TypeOK, RowNumbers
<1>2. PICK n \in Sizes : n = window.rows
  BY <1>1 DEF Windows
<1> DEFINE c == [Sb EXCEPT !.top = 0, !.bottom = n - 1]
<1>3. Resized(c, n) = Buffer(n)
  BY <1>1, <1>2, WindowBuffer
<1>4. Buffer(n) \in Viewports /\ Buffer(n).size = n /\ Buffer(n).top = 0 /\ Rows(Buffer(n)) = n
  BY BufferIs
<1>5. /\ Quiet /\ Keeps /\ buffer_size' = Buffer(n).size /\ position' = position /\ unlike' = unlike
      /\ buffers' = [buffers EXCEPT ![Active] = Buffer(n)]
      /\ window' = [Cup(window, Resized(c, n), position) EXCEPT !.shown = 0]
  BY <1>2, <1>3, <1>4 DEF process_input_resize_window
<1>6. window' = Repainted(window, Buffer(n), position)
  BY <1>3, <1>4, <1>5 DEF Repainted
<1>7. /\ window' \in Windows /\ window'.rows = n /\ window'.shown = Buffer(n).top
      /\ window'.saved = window.saved /\ window'.shown_main = window.shown_main
      /\ window'.row = clamped_relative_position(Buffer(n), position')
  <2>1. PICK b \in Viewports : b = Buffer(n)
    BY <1>4
  <2>2. /\ Repainted(window, b, position) \in Windows
        /\ Repainted(window, b, position).saved = window.saved
        /\ Repainted(window, b, position).shown_main = window.shown_main
        /\ Repainted(window, b, position).rows = window.rows
        /\ Repainted(window, b, position).shown = b.top
        /\ Rows(b) = window.rows =>
             Repainted(window, b, position).row = clamped_relative_position(b, position)
    BY <1>1, RepaintedIs
  <2>3. window' = Repainted(window, b, position) /\ position' = position
    BY <1>5, <1>6, <2>1
  <2>4. QED
    BY <1>2, <1>4, <2>1, <2>2, <2>3
<1>8. QED
  BY <1>1, <1>2, <1>4, <1>5, <1>7, CallStep

LEMMA ResizeWindow == ScreensInv /\ resize_window => ScreensInv'
<1> SUFFICES ASSUME ScreensInv, NEW n \in Sizes, Quiet, Keeps, buffer_size' = n,
                    buffers' = [buffers EXCEPT
                      ![Active] = Resized([Sb EXCEPT !.top = 0, !.bottom = n - 1], n)],
                    position' = Min({position, n - 1}), window' = Told(window, n),
                    unlike' = (unlike \/ position > Sb.bottom \/ Differ(Buffer(n), window'))
             PROVE  ScreensInv'
  BY DEF resize_window, Sizes
<1>1. /\ Sb \in Viewports /\ window \in Windows /\ unlike \in BOOLEAN
      /\ position \in Int /\ 0 <= position /\ position < MaxRows
  BY SbIs, ScreensAssumption DEF ScreensInv, TypeOK, RowNumbers
<1>2. PICK b \in Viewports : b = Buffer(n) /\ b.size = n /\ b.top = 0 /\ Rows(b) = n
  BY BufferIs
<1>3. buffers' = [buffers EXCEPT ![Active] = b] /\ buffer_size' = b.size
  BY <1>1, <1>2, WindowBuffer
<1>4. PICK y \in Int, v \in Int, m \in Int :
        y = position /\ v = window.row /\ m = n /\ 0 <= y /\ y < MaxRows /\ 1 <= m
  BY <1>1, ScreensAssumption DEF Windows, RowNumbers, Sizes
<1>5. position' = IF y < m THEN y ELSE m - 1
  BY <1>4 DEF Min
<1>6. position' \in RowNumbers /\ position' \in Int
  BY <1>4, <1>5, ScreensAssumption DEF Sizes, RowNumbers
<1>7. /\ window' \in Windows /\ window'.rows = n /\ window'.shown = window.shown
      /\ window'.saved = window.saved /\ window'.shown_main = window.shown_main
      /\ window'.row = Clamp(v, 0, m - 1)
  BY <1>1, <1>4, ToldIs
<1>8. ASSUME ~unlike'
      PROVE  /\ ~unlike /\ Rows(b) = window'.rows /\ window'.shown = b.top
             /\ Away => window'.rows = window.rows
  BY <1>2, <1>8 DEF Differ
<1>9. ASSUME ~unlike' PROVE window'.row = clamped_relative_position(b, position')
  <2>1. Sb.top = 0 /\ v = clamped_relative_position(Sb, position)
    BY <1>2, <1>4, <1>7, <1>8, <1>9 DEF ScreensInv, InStep, Quiet
  <2>2. PICK e \in Int : e = Sb.bottom /\ ~(y > e) /\ Rows(Sb) = e - 0 + 1
    BY <1>1, <1>4, <1>9, <2>1, ViewportIs, ScreensAssumption DEF RowNumbers, Rows
  <2>3. v = y
    BY <1>4, <2>1, <2>2 DEF clamped_relative_position, Clamp
  <2>4. clamped_relative_position(b, position') = Clamp(position' - 0, 0, m - 1)
    BY <1>2, <1>4 DEF clamped_relative_position
  <2>5. QED
    BY <1>4, <1>5, <1>7, <2>3, <2>4 DEF Clamp
<1>10. unlike' \in BOOLEAN
  BY <1>1
<1>11. QED
  BY <1>3, <1>6, <1>7, <1>8, <1>9, <1>10, CallStep

LEMMA UpIs ==
  ASSUME TypeOK, NEW alt \in BOOLEAN
  PROVE  Next_up(alt) \in Viewports /\ Next_up(alt).size = buffer_size
BY SbIs, BufferIs DEF Next_up, TypeOK

LEMMA KeptIs ==
  ASSUME NEW w \in Windows, w = window
  PROVE  /\ Kept \in Windows /\ Kept.rows = w.rows /\ Kept.row = w.row /\ Kept.shown = w.shown
         /\ Kept.saved = w.row /\ Kept.shown_main = w.shown
BY DEF Kept, Windows

LEMMA ReturnedIs ==
  ASSUME NEW w \in Windows, w = window
  PROVE  /\ Returned \in Windows /\ Returned.rows = w.rows /\ Returned.shown = w.shown_main
         /\ Returned.row = Clamp(w.saved, 0, w.rows - 1)
         /\ Returned.saved = w.saved /\ Returned.shown_main = w.shown_main
<1>1. PICK y \in Int, n \in Sizes : y = w.saved /\ n = w.rows
  BY ScreensAssumption DEF Windows, RowNumbers
<1>2. PICK row \in RowNumbers : row = Clamp(y, 0, n - 1) /\ row < n
  BY <1>1, ScreensAssumption DEF Clamp, RowNumbers, Sizes
<1>3. PICK top \in RowNumbers : top = w.shown_main
  BY DEF Windows
<1>4. Returned = [w EXCEPT !.row = row, !.shown = top]
  BY <1>1, <1>2, <1>3 DEF Returned
<1>5. w \in [rows : Sizes, row : RowNumbers, shown : RowNumbers, saved : RowNumbers,
             shown_main : RowNumbers]
  BY DEF Windows
<1>6. QED
  BY <1>1, <1>2, <1>3, <1>4, <1>5 DEF Windows

\* A cursor clamped to the buffer is shown at the same place of the viewport.
LEMMA ClampedAlike ==
  ASSUME NEW b \in Viewports, NEW y \in Nat
  PROVE  clamped_relative_position(b, clamp_cursor(y, b.size)) = clamped_relative_position(b, y)
<1>1. PICK top \in Int, bottom \in Int, size \in Int :
        /\ top = b.top /\ bottom = b.bottom /\ size = b.size
        /\ 0 <= top /\ top <= bottom /\ bottom < size
  BY ScreensAssumption DEF Viewports, Sizes, RowNumbers
<1>2. Clamp(Clamp(y, 0, size - 1) - top, 0, bottom - top + 1 - 1) = Clamp(y - top, 0, bottom - top + 1 - 1)
  BY <1>1 DEF Clamp
<1>3. QED
  BY <1>1, <1>2 DEF clamped_relative_position, clamp_cursor, Rows

LEMMA SwitchToAlt == ScreensInv /\ switch_to_alt => ScreensInv'
<1> SUFFICES ASSUME ScreensInv, switch_to_alt PROVE ScreensInv'
  OBVIOUS
<1>1. /\ TypeOK /\ window \in Windows /\ buffers["main"] \in Viewports /\ unlike \in BOOLEAN
      /\ buffers["alt"] \in Viewports /\ position \in RowNumbers /\ position \in Int
  BY SbIs, ScreensAssumption DEF ScreensInv, TypeOK, RowNumbers
<1>2. PICK b \in Viewports : b = Next_up(TRUE) /\ b.size = buffer_size
  BY <1>1, UpIs
<1>3. PICK k \in Windows :
        /\ k = Kept /\ k.rows = window.rows /\ k.saved = window.row
        /\ k.shown_main = window.shown
  BY <1>1, KeptIs
<1>4. /\ Quiet /\ ~alt_active /\ alt_screen_cursor = NoRow
      /\ alt_active' = TRUE /\ resized_in_alt_screen' = FALSE
      /\ main_cursor' \in {position, clamp_cursor(position, buffer_size)}
      /\ buffers' = [buffers EXCEPT !["alt"] = b]
      /\ position' = clamp_cursor(position, buffer_size)
      /\ window' = Repainted(k, b, position')
      /\ unlike' = (unlike \/ Differ(b, window')) /\ unlike' \in BOOLEAN
      /\ buffer_size' = buffer_size /\ alt_screen_cursor' = NoRow /\ asked' = asked
  BY <1>1, <1>2, <1>3 DEF switch_to_alt
<1>5. position' \in RowNumbers /\ position' \in Int
  BY <1>1, <1>4, ClampCursorIs, ScreensAssumption DEF TypeOK, RowNumbers
<1>6. /\ window' \in Windows /\ window'.saved = window.row /\ window'.shown_main = window.shown
      /\ window'.rows = window.rows
      /\ Rows(b) = window.rows => window'.row = clamped_relative_position(b, position')
  <2>1. PICK y \in Int : y = position'
    BY <1>5
  <2>2. /\ Repainted(k, b, y) \in Windows /\ Repainted(k, b, y).saved = k.saved
        /\ Repainted(k, b, y).shown_main = k.shown_main /\ Repainted(k, b, y).rows = k.rows
        /\ Rows(b) = k.rows => Repainted(k, b, y).row = clamped_relative_position(b, y)
    BY RepaintedIs
  <2>3. window' = Repainted(k, b, y)
    BY <1>4, <2>1
  <2>4. QED
    BY <1>3, <2>1, <2>2, <2>3
<1>7. Sb = buffers["main"] /\ Sb' = b /\ buffers'["main"] = buffers["main"] /\ Sb'.size = buffer_size'
  BY <1>1, <1>2, <1>4 DEF Sb, Active, TypeOK
<1>8. TypeOK'
  BY <1>1, <1>4, <1>5, <1>6, ClampCursorIs, ScreensAssumption DEF TypeOK, RowNumbers
<1>9. ~unlike' => InStep(b, window', position', asked')
  BY <1>4, <1>6 DEF InStep, Differ, Quiet
<1>10. clamped_relative_position(buffers["main"], main_cursor') =
         clamped_relative_position(buffers["main"], position)
  BY <1>1, <1>4, <1>7, ClampedAlike DEF TypeOK, RowNumbers, ScreensInv
<1>11. ~unlike' => MainKept(buffers'["main"], window', main_cursor')
  BY <1>4, <1>6, <1>7, <1>10 DEF ScreensInv, InStep, MainKept, Quiet
<1>12. QED
  BY <1>4, <1>7, <1>8, <1>9, <1>11 DEF ScreensInv, Quiet

\* Not resized, the terminal comes back to the cursor that MainKept names; resized, it is asked.
LEMMA SwitchToMain == ScreensInv /\ switch_to_main => ScreensInv'
<1> SUFFICES ASSUME ScreensInv, switch_to_main PROVE ScreensInv'
  OBVIOUS
<1>1. /\ TypeOK /\ window \in Windows /\ buffers["main"] \in Viewports /\ unlike \in BOOLEAN
      /\ buffers["alt"] \in Viewports /\ main_cursor \in RowNumbers /\ main_cursor \in Nat
      /\ buffer_size \in Sizes
  BY SbIs, ScreensAssumption DEF ScreensInv, TypeOK, RowNumbers
<1>2. PICK b \in Viewports : b = Next_up(FALSE) /\ b.size = buffer_size
  BY <1>1, UpIs
<1>3. /\ Quiet /\ alt_active /\ alt_active' = FALSE
      /\ buffers' = [buffers EXCEPT !["main"] = b]
      /\ position' = clamp_cursor(main_cursor, buffer_size)
      /\ window' = Returned
      /\ unlike' = (unlike \/ Differ(b, window') \/ b # buffers["main"]) /\ unlike' \in BOOLEAN
      /\ asked' = IF resized_in_alt_screen THEN position' - b.top ELSE asked
      /\ resized_in_alt_screen' = FALSE
      /\ buffer_size' = buffer_size /\ main_cursor' = main_cursor
      /\ alt_screen_cursor' = alt_screen_cursor
  BY <1>1, <1>2 DEF switch_to_main, AskCursor
<1>4. alt_screen_cursor = NoRow /\ asked = NoRow
  BY <1>3 DEF ScreensInv, Quiet
<1>5. position' \in RowNumbers /\ position' \in Int
  BY <1>1, <1>3, ClampCursorIs, ScreensAssumption DEF RowNumbers
<1>6. b.top \in Nat /\ position' - b.top \in Int /\ position' - b.top # NoRow
  BY <1>5, ViewportIs, ScreensAssumption DEF RowNumbers, NoRow
<1>7. /\ window' \in Windows /\ window'.rows = window.rows /\ window'.shown = window.shown_main
      /\ window'.row = Clamp(window.saved, 0, window.rows - 1)
  BY <1>1, <1>3, ReturnedIs
<1>8. Sb' = b /\ Sb'.size = buffer_size'
  BY <1>1, <1>2, <1>3 DEF Sb, Active, TypeOK
<1>9. TypeOK'
  BY <1>1, <1>3, <1>5, <1>6, <1>7 DEF TypeOK
<1>10. asked' # NoRow => asked' = position' - b.top
  BY <1>3, <1>4
<1>11. ASSUME ~unlike' PROVE InStep(b, window', position', asked')
  <2>1. Rows(b) = window'.rows /\ window'.shown = b.top /\ b = buffers["main"] /\ ~unlike
    BY <1>3, <1>11 DEF Differ
  <2>2. CASE resized_in_alt_screen
    BY <1>3, <1>6, <2>1, <2>2 DEF InStep
  <2>3. CASE ~resized_in_alt_screen
    <3>1. window.saved = clamped_relative_position(b, main_cursor)
      BY <1>3, <2>1, <2>3 DEF ScreensInv, MainKept
    <3>2. PICK t \in Int, e \in Int, n \in Int :
            /\ t = b.top /\ e = b.bottom /\ n = buffer_size /\ Rows(b) = e - t + 1
            /\ 0 <= t /\ t <= e /\ e < n
      <4>1. PICK t \in Int, e \in Int, n \in Int :
              /\ t = b.top /\ e = b.bottom /\ n = b.size /\ 0 <= t /\ t <= e /\ e < n
        BY ViewportIs, ScreensAssumption DEF RowNumbers, Sizes
      <4>2. QED
        BY <1>2, <4>1 DEF Rows
    <3>3. window.rows = e - t + 1
      BY <1>7, <2>1, <3>2
    <3>4. window.saved = Clamp(main_cursor - t, 0, e - t)
      BY <3>1, <3>2 DEF clamped_relative_position, Clamp
    <3>5. window'.row = Clamp(main_cursor - t, 0, e - t)
      BY <1>1, <1>7, <3>2, <3>3, <3>4 DEF Clamp
    <3>6. clamped_relative_position(b, position') = Clamp(main_cursor - t, 0, e - t)
      BY <1>1, <1>3, <3>2 DEF clamped_relative_position, clamp_cursor, Clamp
    <3>7. QED
      BY <1>3, <1>4, <2>1, <2>3, <3>5, <3>6 DEF InStep
  <2>4. QED
    BY <2>2, <2>3
<1>12. QED
  BY <1>3, <1>4, <1>8, <1>9, <1>10, <1>11 DEF ScreensInv

LEMMA UseAlternate == ScreensInv /\ use_alternate_buffer => ScreensInv'
<1> SUFFICES ASSUME ScreensInv, use_alternate_buffer PROVE ScreensInv'
  OBVIOUS
<1>1. TypeOK /\ window \in Windows /\ Sb \in Viewports /\ position \in RowNumbers
  BY SbIs DEF ScreensInv, TypeOK
<1>2. /\ Quiet /\ ~alt_active /\ alt_screen_cursor = NoRow
      /\ alt_screen_cursor' = position /\ resized_in_alt_screen' = FALSE /\ window' = Kept
      /\ buffer_size' = buffer_size /\ buffers' = buffers /\ alt_active' = alt_active
      /\ main_cursor' = main_cursor /\ position' = position /\ asked' = asked /\ unlike' = unlike
  BY DEF use_alternate_buffer
<1>3. /\ window' \in Windows /\ window'.rows = window.rows /\ window'.row = window.row
      /\ window'.shown = window.shown /\ window'.saved = window.row
      /\ window'.shown_main = window.shown
  BY <1>1, <1>2, KeptIs
<1>4. TypeOK'
  <2>1. position \in 0..MaxRows
    BY <1>1, ScreensAssumption DEF RowNumbers
  <2>2. QED
    BY <1>1, <1>2, <1>3, <2>1 DEF TypeOK
<1>5. Sb' = Sb
  BY <1>2 DEF Sb, Active
<1>6. ~unlike => AppKept(window', position)
  BY <1>2, <1>3 DEF ScreensInv, InStep, AppKept, Quiet, clamped_relative_position
<1>7. ~unlike => InStep(Sb, window', position, asked)
  BY <1>2, <1>3 DEF ScreensInv, InStep
<1>8. QED
  BY <1>2, <1>4, <1>5, <1>6, <1>7 DEF ScreensInv, Quiet

LEMMA UseMain == ScreensInv /\ use_main_buffer => ScreensInv'
<1> SUFFICES ASSUME ScreensInv, use_main_buffer PROVE ScreensInv'
  OBVIOUS
<1>1. /\ TypeOK /\ window \in Windows /\ Sb \in Viewports /\ unlike \in BOOLEAN
      /\ alt_screen_cursor \in 0..MaxRows
  BY SbIs DEF ScreensInv, TypeOK
<1>2. /\ Quiet /\ alt_screen_cursor # NoRow
      /\ position' = alt_screen_cursor /\ alt_screen_cursor' = NoRow /\ window' = Returned
      /\ unlike' = (unlike \/ Differ(Sb, window')) /\ unlike' \in BOOLEAN
      /\ asked' = IF resized_in_alt_screen THEN position' - Sb.top ELSE asked
      /\ resized_in_alt_screen' = FALSE
      /\ buffer_size' = buffer_size /\ buffers' = buffers /\ alt_active' = alt_active
      /\ main_cursor' = main_cursor
  BY <1>1 DEF use_main_buffer, AskCursor
<1>3. ~alt_active /\ asked = NoRow
  BY <1>2 DEF ScreensInv, Quiet
<1>4. position' \in RowNumbers /\ position' \in Int
  BY <1>1, <1>2, ScreensAssumption DEF RowNumbers, NoRow
<1>5. Sb.top \in Nat /\ position' - Sb.top \in Int /\ position' - Sb.top # NoRow
  BY <1>1, <1>4, ViewportIs, ScreensAssumption DEF RowNumbers, NoRow
<1>6. /\ window' \in Windows /\ window'.rows = window.rows /\ window'.shown = window.shown_main
      /\ window'.row = Clamp(window.saved, 0, window.rows - 1)
  BY <1>1, <1>2, ReturnedIs
<1>7. Sb' = Sb
  BY <1>2 DEF Sb, Active
<1>8. TypeOK'
  <2>1. NoRow \in 0..MaxRows
    BY ScreensAssumption DEF NoRow
  <2>2. asked' \in Int
    BY <1>1, <1>2, <1>5 DEF TypeOK
  <2>3. QED
    BY <1>1, <1>2, <1>4, <1>6, <2>1, <2>2 DEF TypeOK
<1>9. asked' # NoRow => asked' = position' - Sb.top
  BY <1>2, <1>3
<1>10. ASSUME ~unlike' PROVE InStep(Sb, window', position', asked')
  <2>1. Rows(Sb) = window'.rows /\ window'.shown = Sb.top /\ ~unlike
    BY <1>2, <1>10 DEF Differ
  <2>2. CASE resized_in_alt_screen
    BY <1>2, <1>5, <2>1, <2>2 DEF InStep
  <2>3. CASE ~resized_in_alt_screen
    <3>1. window.saved = Clamp(alt_screen_cursor - window.shown_main, 0, window.rows - 1)
      BY <1>2, <2>1, <2>3 DEF ScreensInv, AppKept
    <3>2. PICK t \in Int, n \in Int, y \in Int :
            /\ t = Sb.top /\ n = Rows(Sb) /\ 1 <= n /\ y = alt_screen_cursor
      BY <1>1, ViewportIs, ScreensAssumption DEF RowNumbers, Sizes
    <3>3. window.saved = Clamp(y - t, 0, n - 1) /\ window.rows = n
      BY <1>6, <2>1, <3>1, <3>2
    <3>4. window'.row = Clamp(y - t, 0, n - 1)
      BY <1>6, <3>2, <3>3 DEF Clamp
    <3>5. clamped_relative_position(Sb, position') = Clamp(y - t, 0, n - 1)
      BY <1>2, <3>2 DEF clamped_relative_position
    <3>6. QED
      BY <1>2, <1>3, <2>1, <2>3, <3>4, <3>5 DEF InStep
  <2>4. QED
    BY <2>2, <2>3
<1>11. QED
  BY <1>2, <1>3, <1>7, <1>8, <1>9, <1>10 DEF ScreensInv

LEMMA TerminalResize == ScreensInv /\ apply_terminal_resize => ScreensInv'
<1> SUFFICES ASSUME ScreensInv, NEW n \in Sizes, NEW used \in Sizes, NEW row \in 0..(n - 1),
                    NEW kept \in 0..(n - 1), buffer_size' = n,
                    buffers' = [b \in {"main", "alt"} |->
                                  IF b = "alt" /\ ~alt_active THEN buffers[b] ELSE Buffer(n)],
                    position' = clamp_cursor(position - Max({used - n, 0}), n),
                    resized_in_alt_screen' =
                      (resized_in_alt_screen \/ alt_active \/ alt_screen_cursor # NoRow),
                    asked' = position' - Buffer(n).top,
                    window' = [rows |-> n, row |-> row, shown |-> 0, saved |-> kept, shown_main |-> 0],
                    unlike' = FALSE,
                    UNCHANGED <<alt_active, main_cursor, alt_screen_cursor>>
             PROVE  ScreensInv'
  BY DEF apply_terminal_resize, Sizes, AskCursor
<1>1. TypeOK /\ position \in Int /\ buffers["alt"] \in Viewports
  BY SbIs, ScreensAssumption DEF ScreensInv, TypeOK, RowNumbers
<1>2. PICK b \in Viewports : b = Buffer(n) /\ b.size = n /\ b.top = 0 /\ Rows(b) = n
  BY BufferIs
<1>3. Max({used - n, 0}) \in Int
  <2>1. PICK a \in Int : a = used - n
    BY ScreensAssumption DEF Sizes
  <2>2. Max({a, 0}) = IF a < 0 THEN 0 ELSE a
    BY DEF Max
  <2>3. QED
    BY <2>1, <2>2
<1>4. position' \in RowNumbers /\ position' \in Int
  BY <1>1, <1>3, ClampCursorIs, ScreensAssumption DEF RowNumbers
<1>5. asked' = position' - b.top /\ asked' \in Int /\ asked' # NoRow
  BY <1>2, <1>4, ScreensAssumption DEF RowNumbers, NoRow
<1>6. window' \in Windows /\ window'.rows = n /\ window'.shown = 0
  BY ScreensAssumption DEF Windows, Sizes, RowNumbers
<1>7. Sb' = b /\ buffers' \in [{"main", "alt"} -> Viewports]
  BY <1>1, <1>2 DEF Sb, Active, TypeOK
<1>8. TypeOK'
  BY <1>1, <1>4, <1>5, <1>6, <1>7 DEF TypeOK
<1>9. InStep(b, window', position', asked')
  BY <1>2, <1>5, <1>6 DEF InStep
<1>10. QED
  BY <1>2, <1>5, <1>7, <1>8, <1>9 DEF ScreensInv

\* The reply moves the model from the row it was asked for to the row the terminal is on.
LEMMA Finish == ScreensInv /\ finish_resize_sync => ScreensInv'
<1> SUFFICES ASSUME ScreensInv, finish_resize_sync PROVE ScreensInv'
  OBVIOUS
<1>1. /\ TypeOK /\ window \in Windows /\ Sb \in Viewports /\ buffer_size \in Sizes
      /\ Sb.size = buffer_size /\ position \in Int /\ asked \in Int
  BY SbIs, ScreensAssumption DEF ScreensInv, TypeOK, RowNumbers
<1>2. /\ asked # NoRow /\ asked' = NoRow
      /\ position' = clamp_cursor(position + window.row - asked, buffer_size)
      /\ buffer_size' = buffer_size /\ buffers' = buffers /\ alt_active' = alt_active
      /\ main_cursor' = main_cursor /\ alt_screen_cursor' = alt_screen_cursor
      /\ resized_in_alt_screen' = resized_in_alt_screen /\ window' = window /\ unlike' = unlike
  BY DEF finish_resize_sync, Quiet, saved_vars
<1>3. PICK r \in Int, t \in Int, e \in Int, n \in Sizes, y \in Int :
        /\ r = window.row /\ t = Sb.top /\ e = Sb.bottom /\ n = buffer_size /\ y = position
        /\ 0 <= r /\ 0 <= t /\ t <= e /\ e < n /\ Rows(Sb) = e - t + 1
        /\ r < window.rows
  BY <1>1, ViewportIs, ScreensAssumption DEF Rows, RowNumbers, Windows
<1>4. asked = y - t
  BY <1>2, <1>3 DEF ScreensInv
<1>5. y + r - (y - t) = r + t
  BY <1>3
<1>6. position' = clamp_cursor(r + t, n)
  BY <1>2, <1>3, <1>4, <1>5
<1>7. position' \in RowNumbers
  BY <1>6, ClampCursorIs
<1>8. Sb' = Sb
  BY <1>2 DEF Sb, Active
<1>9. TypeOK'
  BY <1>1, <1>2, <1>7, ScreensAssumption DEF TypeOK, NoRow
<1>10. ASSUME ~unlike PROVE InStep(Sb, window, position', asked')
  <2>1. Rows(Sb) = window.rows /\ window.shown = Sb.top
    BY <1>10 DEF ScreensInv, InStep
  <2>2. r <= e - t /\ n \in Int
    BY <1>3, <2>1, ScreensAssumption DEF Sizes
  <2>3. position' = r + t
    BY <1>3, <1>6, <2>2 DEF clamp_cursor, Clamp
  <2>4. clamped_relative_position(Sb, position') = r
    BY <1>3, <2>2, <2>3 DEF clamped_relative_position, Clamp
  <2>5. QED
    BY <1>2, <1>3, <2>1, <2>4 DEF InStep
<1>11. QED
  BY <1>2, <1>8, <1>9, <1>10 DEF ScreensInv

LEMMA ScreensStep == ScreensInv /\ [ScreensNext]_screens_vars => ScreensInv'
<1>1. ScreensInv /\ UNCHANGED screens_vars => ScreensInv'
  BY DEF screens_vars, saved_vars, ScreensInv, TypeOK, Sb, Active, InStep, MainKept, AppKept,
         clamped_relative_position, Rows
<1>2. QED
  BY <1>1, WriteConsole, SetCursor, SetSize, SetInfo, SetWindow, SwitchToAlt, SwitchToMain,
     UseAlternate, UseMain, TerminalResize, ProcessResize, ResizeWindow, Finish DEF ScreensNext

LEMMA ScreensStarts == ScreensInit => ScreensInv
<1> SUFFICES ASSUME NEW n \in Sizes, ScreensStart(n) PROVE ScreensInv
  BY DEF ScreensInit, Sizes
<1>1. /\ buffer_size = n /\ buffers = [main |-> Buffer(n), alt |-> Buffer(MaxRows)]
      /\ alt_active = FALSE /\ main_cursor = 0 /\ position = 0
      /\ alt_screen_cursor = NoRow /\ resized_in_alt_screen = FALSE /\ asked = NoRow
      /\ window = [rows |-> n, row |-> 0, shown |-> 0, saved |-> 0, shown_main |-> 0]
      /\ unlike = FALSE
  BY DEF ScreensStart
<1>2. PICK b \in Viewports, c \in Viewports :
        /\ b = Buffer(n) /\ c = Buffer(MaxRows) /\ b.size = n /\ b.top = 0 /\ Rows(b) = n
  <2>1. MaxRows \in Sizes
    BY ScreensAssumption DEF Sizes
  <2>2. QED
    BY <2>1, BufferIs
<1>3. 0 \in RowNumbers /\ NoRow \in 0..MaxRows /\ NoRow \in Int
  BY ScreensAssumption DEF RowNumbers, NoRow
<1>4. window \in Windows /\ window.rows = n /\ window.row = 0 /\ window.shown = 0
  BY <1>1, <1>3, ScreensAssumption DEF Windows, Sizes
<1>5. buffers \in [{"main", "alt"} -> Viewports] /\ Sb = b
  BY <1>1, <1>2 DEF Sb, Active
<1>6. TypeOK
  BY <1>1, <1>3, <1>4, <1>5 DEF TypeOK
<1>7. clamped_relative_position(b, position) = 0
  BY <1>1, <1>2, ScreensAssumption DEF clamped_relative_position, Clamp, Sizes
<1>8. InStep(b, window, position, asked)
  BY <1>1, <1>2, <1>4, <1>7 DEF InStep
<1>9. QED
  BY <1>1, <1>2, <1>5, <1>6, <1>8 DEF ScreensInv

\* switch_active_screen_buffer, use_main_buffer and the calls that size buffers and windows, in
\* any order and with terminal resizes between them: viewports stay inside buffers of the size
\* clients are told, and the terminal's cursor is the model's.
THEOREM ScreensStayInStep == ScreensSpec => []ScreensInStep
<1>1. ScreensInv => ScreensInStep
  <2> SUFFICES ASSUME ScreensInv PROVE ScreensInStep
    OBVIOUS
  <2>1. TypeOK
    BY DEF ScreensInv
  <2>2. \A b \in DOMAIN buffers : 0 <= buffers[b].top /\ buffers[b].top <= buffers[b].bottom
                                    /\ buffers[b].bottom < buffers[b].size
    <3> SUFFICES ASSUME NEW b \in DOMAIN buffers
                 PROVE  0 <= buffers[b].top /\ buffers[b].top <= buffers[b].bottom
                          /\ buffers[b].bottom < buffers[b].size
      OBVIOUS
    <3>1. PICK v \in Viewports : v = buffers[b]
      BY <2>1 DEF TypeOK
    <3>2. QED
      BY <3>1, ViewportIs, ScreensAssumption DEF RowNumbers
  <2>3. BuffersFit
    BY <2>2 DEF BuffersFit, ScreensInv
  <2>4. CursorPlaced
    BY DEF CursorPlaced, ScreensInv, InStep, Quiet
  <2>5. QED
    BY <2>3, <2>4 DEF ScreensInStep
<1>2. QED
  BY <1>1, ScreensStarts, ScreensStep, PTL DEF ScreensSpec

-----------------------------------------------------------------------------
(* VtParser: the inductive invariant *)

Modes == {"ground", "esc", "csi", "osc", "osc_st", "ss3"}

IsParser(p) ==
  /\ p = [mode |-> p.mode, raw |-> p.raw, params |-> p.params, current |-> p.current,
          private |-> p.private, intermediate |-> p.intermediate, overflow |-> p.overflow]
  /\ p.mode \in Modes

\* Outside a CSI sequence there are no parameters.
NoParams(p) == p.params = <<>> /\ p.current = 0 /\ p.private = FALSE /\ p.overflow = FALSE
Clean(p) == p.mode # "csi" => NoParams(p)

\* Messages of a single character, which stand for the character itself.
Plain == {"continue_text", "text", "carriage_return", "line_feed"}

\* The parser and the message after a character of a sequence, which is now raw.
Advances(r, raw) ==
  /\ IsParser(r.parser) /\ Clean(r.parser) /\ r.parser.raw = raw
  /\ r.id = "continue" <=> r.parser.mode # "ground"
  /\ r.id \notin Plain

-----------------------------------------------------------------------------
(* Tables *)

Silent(table) == \A name \in NamesIn(table) : name \notin Plain

LEMMA EntryIs ==
  ASSUME NEW table, NEW key \in KeysIn(table)
  PROVE  Entry(table, key) \in NamesIn(table)
BY DEF KeysIn, NamesIn, Entry

LEMMA NamedIs ==
  ASSUME NEW table, Silent(table), NEW key
  PROVE  Named(table, key).id \notin Plain
BY EntryIs DEF Silent, Named, NoSequence, Says, Plain

LEMMA TablesSilent ==
  /\ Silent(EscSequences) /\ Silent(Ss3Keys) /\ Silent(Charsets) /\ Silent(CursorMoves)
  /\ Silent(ScreenEdits) /\ Silent(SetModes) /\ Silent(ResetModes) /\ Silent(TabClears)
  /\ Silent(TildeKeys) /\ Silent(ModifiedKeys)
BY DEF Silent, NamesIn, Plain, EscSequences, Ss3Keys, Charsets, CursorMoves, ScreenEdits, SetModes,
  ResetModes, TabClears, TildeKeys, ModifiedKeys

LEMMA SaysIs ==
  ASSUME NEW id, NEW args, id \notin Plain
  PROVE  Says(id, args).id \notin Plain
BY DEF Says

LEMMA OtherFinalsSpeak ==
  ASSUME NEW p, NEW c
  PROVE  OtherFinals(p, c).id \notin Plain
<1>1. SgrSequence(p).id \notin Plain
  BY DEF SgrSequence, NoSequence, Says, Plain
<1>2. /\ Named(TabClears, Param(p, 1, 0)).id \notin Plain
      /\ Named(TildeKeys, Param(p, 1, 0)).id \notin Plain
  BY NamedIs, TablesSilent
<1>3. QED
  BY <1>1, <1>2 DEF OtherFinals, NoSequence, Says, Plain

LEMMA CsiSpeaks ==
  ASSUME NEW p, NEW c
  PROVE  _dispatch_csi(p, c).id \notin Plain
<1>1. OtherFinals(p, c).id \notin Plain
  BY OtherFinalsSpeak
<1>2. /\ c \in KeysIn(CursorMoves) => Entry(CursorMoves, c) \notin Plain
      /\ c \in KeysIn(ScreenEdits) => Entry(ScreenEdits, c) \notin Plain
  BY EntryIs, TablesSilent DEF Silent
<1>3. /\ Named(SetModes, Param(p, 1, 0)).id \notin Plain
      /\ Named(ResetModes, Param(p, 1, 0)).id \notin Plain
  BY NamedIs, TablesSilent
<1>4. QED
  BY <1>1, <1>2, <1>3 DEF _dispatch_csi, NoSequence, Says, Plain

LEMMA OscSpeaks ==
  ASSUME NEW raw
  PROVE  _dispatch_osc(raw).id \notin Plain
BY DEF _dispatch_osc, NoSequence, Says, Plain

-----------------------------------------------------------------------------
(* One character *)

LEMMA DigitsAre == Digits = {"0", "1", "2", "3", "4", "5", "6", "7", "8", "9"}
<1>1. DOMAIN DigitNames = 1..10
  BY DEF DigitNames
<1>2. Digits = {DigitNames[i] : i \in 1..10}
  BY <1>1, Zenon DEF Digits, Range
<1>3. 1..10 = {1, 2, 3, 4, 5, 6, 7, 8, 9, 10}
  OBVIOUS
<1>4. QED
  BY <1>2, <1>3 DEF DigitNames

LEMMA GoAdvances ==
  ASSUME NEW p, IsParser(p), p.mode # "ground", Clean(p)
  PROVE  Advances(Go(p), p.raw)
BY DEF Advances, Go, Plain

LEMMA ModeIs ==
  ASSUME NEW p, IsParser(p), NEW m \in Modes
  PROVE  LET q == [p EXCEPT !.mode = m] IN
         /\ IsParser(q) /\ q.mode = m /\ q.raw = p.raw /\ (NoParams(p) => NoParams(q))
         /\ q.intermediate = p.intermediate
BY DEF IsParser, NoParams

LEMMA RawIs ==
  ASSUME NEW p, IsParser(p), NEW raw
  PROVE  LET q == [p EXCEPT !.raw = raw] IN
         /\ IsParser(q) /\ q.mode = p.mode /\ q.raw = raw /\ (NoParams(p) <=> NoParams(q))
         /\ q.intermediate = p.intermediate
BY DEF IsParser, NoParams

LEMMA IntermediateIs ==
  ASSUME NEW p, IsParser(p), NEW i
  PROVE  LET q == [p EXCEPT !.intermediate = i] IN
         IsParser(q) /\ q.mode = p.mode /\ q.raw = p.raw /\ (NoParams(p) <=> NoParams(q))
BY DEF IsParser, NoParams

LEMMA ParamsReset ==
  ASSUME NEW p, IsParser(p)
  PROVE  LET q == _reset_params(p) IN
         IsParser(q) /\ q.mode = p.mode /\ q.raw = p.raw /\ NoParams(q) /\ q.intermediate = ""
<1> DEFINE q == _reset_params(p)
           fields == {"mode", "raw", "params", "current", "private", "intermediate", "overflow"}
<1>1. DOMAIN p = fields
  BY DEF IsParser
<1>2. /\ q.mode = p.mode /\ q.raw = p.raw /\ q.params = <<>> /\ q.current = 0
      /\ q.private = FALSE /\ q.intermediate = "" /\ q.overflow = FALSE
  BY <1>1 DEF _reset_params
<1>3. q = [x \in DOMAIN q |-> q[x]] /\ DOMAIN q = fields
  BY <1>1 DEF _reset_params
<1> HIDE DEF q
<1>4. q = [mode |-> q.mode, raw |-> q.raw, params |-> q.params, current |-> q.current,
           private |-> q.private, intermediate |-> q.intermediate, overflow |-> q.overflow]
  BY <1>3
<1>5. IsParser(q) /\ NoParams(q)
  BY <1>2, <1>4, Zenon DEF IsParser, NoParams
<1>6. QED
  BY <1>2, <1>5 DEF q

LEMMA ParamAdded ==
  ASSUME NEW p, IsParser(p)
  PROVE  LET q == _add_param(p) IN IsParser(q) /\ q.mode = p.mode /\ q.raw = p.raw
BY DEF IsParser, _add_param

LEMMA EndsAdvances ==
  ASSUME NEW p, IsParser(p), NoParams(p), NEW says, says.id \notin Plain
  PROVE  Advances(Ends(p, says), p.raw)
<1>1. "ground" \in Modes
  BY DEF Modes
<1>2. Ends(p, says).parser = [p EXCEPT !.mode = "ground"]
  BY DEF Ends
<1>3. Ends(p, says).id = IF says.id = "continue" THEN "unknown_sequence" ELSE says.id
  BY DEF Ends
<1>4. QED
  BY <1>1, <1>2, <1>3, ModeIs DEF Advances, Clean, Plain

LEMMA EscAdvances ==
  ASSUME NEW p, IsParser(p), p.mode = "esc", NoParams(p), NEW c
  PROVE  Advances(_parse_esc(p, c), p.raw)
<1>1. NoSequence.id \notin Plain /\ _dispatch_esc(c).id \notin Plain /\ _dispatch_charset(c).id \notin Plain
  BY NamedIs, TablesSilent DEF _dispatch_esc, _dispatch_charset, NoSequence, Says, Plain
<1>2. CASE c \in Controls
  <2>1. _parse_esc(p, c) = Ends(p, NoSequence)
    BY <1>2 DEF _parse_esc, Controls
  <2>2. QED
    BY <1>1, <2>1, EndsAdvances
<1>3. CASE c = "["
  <2>1. Advances(Go([_reset_params(p) EXCEPT !.mode = "csi"]), p.raw)
    <3>1. "csi" \in Modes
      BY DEF Modes
    <3> DEFINE q == _reset_params(p)
    <3>2. IsParser(q) /\ q.mode = p.mode /\ q.raw = p.raw /\ NoParams(q)
      BY ParamsReset
    <3> HIDE DEF q
    <3>3. IsParser([q EXCEPT !.mode = "csi"]) /\ [q EXCEPT !.mode = "csi"].mode = "csi"
          /\ [q EXCEPT !.mode = "csi"].raw = p.raw
      BY <3>1, <3>2, ModeIs
    <3>4. Advances(Go([q EXCEPT !.mode = "csi"]), p.raw)
      BY <3>3, GoAdvances DEF Clean
    <3>5. QED
      BY <3>4 DEF q
  <2>2. c \notin Controls
    BY <1>3 DEF Controls
  <2>3. QED
    BY <1>3, <2>1, <2>2 DEF _parse_esc
<1>4. ASSUME NEW m \in {"osc", "ss3"} PROVE Advances(Go([p EXCEPT !.mode = m]), p.raw)
  <2>1. m \in Modes /\ m # "ground"
    BY DEF Modes
  <2>2. LET q == [p EXCEPT !.mode = m] IN
        IsParser(q) /\ q.mode = m /\ q.raw = p.raw /\ NoParams(q)
    BY <2>1, ModeIs
  <2>3. \A q : /\ IsParser(q) /\ q.mode = m /\ q.raw = p.raw /\ NoParams(q)
              => Advances(Go(q), p.raw)
    BY <2>1, GoAdvances DEF Clean
  <2>4. QED
    BY <2>2, <2>3, Zenon
<1>5. CASE c = "]" \/ c = "O"
  BY <1>4, <1>5 DEF _parse_esc, Controls
<1>6. CASE c = "("
  <2>1. Advances(Go([p EXCEPT !.intermediate = "("]), p.raw)
    BY IntermediateIs, GoAdvances DEF Clean
  <2>2. QED
    BY <1>6, <2>1 DEF _parse_esc, Controls
<1>7. CASE c \notin Controls \cup {"[", "]", "O", "("}
  <2>1. CASE p.intermediate = ""
    BY <1>1, <1>7, <2>1, EndsAdvances DEF _parse_esc
  <2>2. CASE p.intermediate # ""
    <3>1. \A says : says.id \notin Plain =>
            Advances(Ends([p EXCEPT !.intermediate = ""], says), p.raw)
      BY IntermediateIs, EndsAdvances
    <3>2. QED
      BY <1>1, <1>7, <2>2, <3>1 DEF _parse_esc
  <2>3. QED
    BY <2>1, <2>2
<1>8. QED
  BY <1>2, <1>3, <1>5, <1>6, <1>7

LEMMA CsiAdvances ==
  ASSUME NEW p, IsParser(p), p.mode = "csi", NEW c
  PROVE  Advances(_parse_csi(p, c), p.raw)
<1>1. ASSUME NEW q, IsParser(q), q.raw = p.raw, NEW says, says.id \notin Plain, NEW m
      PROVE  Advances([Ends(_reset_params(q), says) EXCEPT !.modifier = m], p.raw)
  <2>1. Advances(Ends(_reset_params(q), says), p.raw)
    BY <1>1, ParamsReset, EndsAdvances
  <2>2. LET r == Ends(_reset_params(q), says)
            s == [r EXCEPT !.modifier = m] IN s.parser = r.parser /\ s.id = r.id
    BY DEF Ends
  <2>3. QED
    BY <2>1, <2>2 DEF Advances
<1>2. CASE c \in Controls \union NotFinal
  <2>1. _parse_csi(p, c) = Ends(_reset_params(p), NoSequence)
    BY <1>2, DigitsAre DEF _parse_csi, Controls, NotFinal, Intermediates
  <2>2. NoSequence.id \notin Plain
    BY DEF NoSequence, Says, Plain
  <2>3. QED
    BY <2>1, <2>2, ParamsReset, EndsAdvances
<1>3. ASSUME NEW q, IsParser(q), q.mode = "csi", q.raw = p.raw
      PROVE  Advances(Go(q), p.raw)
  BY <1>3, GoAdvances DEF Clean
<1>4. IsParser(_add_param(p)) /\ _add_param(p).mode = "csi" /\ _add_param(p).raw = p.raw
  BY ParamAdded
<1>5. \A v : LET q == [p EXCEPT !.current = v] IN IsParser(q) /\ q.mode = "csi" /\ q.raw = p.raw
  BY DEF IsParser
<1>6. \A v : LET q == [p EXCEPT !.private = v] IN IsParser(q) /\ q.mode = "csi" /\ q.raw = p.raw
  BY DEF IsParser
<1>7. \A v : LET q == [p EXCEPT !.intermediate = v] IN IsParser(q) /\ q.mode = "csi" /\ q.raw = p.raw
  BY DEF IsParser
<1>8. /\ Advances(Go(_add_param(p)), p.raw)
      /\ \A v : Advances(Go([p EXCEPT !.current = v]), p.raw)
      /\ \A v : Advances(Go([p EXCEPT !.private = v]), p.raw)
      /\ \A v : Advances(Go([p EXCEPT !.intermediate = v]), p.raw)
  BY <1>3, <1>4, <1>5, <1>6, <1>7
<1>9. ASSUME c \notin Controls \union NotFinal
      PROVE  \/ \E v : _parse_csi(p, c) = Go([p EXCEPT !.current = v])
             \/ _parse_csi(p, c) = Go(_add_param(p))
             \/ \E v : _parse_csi(p, c) = Go([p EXCEPT !.private = v])
             \/ \E v : _parse_csi(p, c) = Go([p EXCEPT !.intermediate = v])
             \/ \E m : _parse_csi(p, c) =
                  [Ends(_reset_params(_add_param(p)), _dispatch_csi(_add_param(p), c))
                    EXCEPT !.modifier = m]
  <2>1. CASE c \in Digits
    <3>1. _parse_csi(p, c) = Go([p EXCEPT !.current = ShortOf(10 * @ + DigitValue(c))])
      BY <1>9, <2>1, DigitsAre DEF _parse_csi, Intermediates
    <3>2. QED
      BY <3>1, Zenon
  <2>2. CASE c \notin Digits
    <3>1. \/ _parse_csi(p, c) = Go(_add_param(p))
          \/ _parse_csi(p, c) = Go([p EXCEPT !.private = TRUE])
          \/ _parse_csi(p, c) = Go([p EXCEPT !.intermediate = c])
          \/ _parse_csi(p, c) =
                  [Ends(_reset_params(_add_param(p)), _dispatch_csi(_add_param(p), c))
                    EXCEPT !.modifier = IF _add_param(p).overflow THEN 1
                                        ELSE Param(_add_param(p), 2, 1)]
      BY <1>9, <2>2 DEF _parse_csi
    <3>2. QED
      BY <3>1, Zenon
  <2>3. QED
    BY <2>1, <2>2
<1>10. \A m : Advances([Ends(_reset_params(_add_param(p)), _dispatch_csi(_add_param(p), c))
                          EXCEPT !.modifier = m], p.raw)
  BY <1>1, <1>4, CsiSpeaks
<1>11. CASE c \notin Controls \union NotFinal
  BY <1>8, <1>9, <1>10, <1>11, Zenon
<1>12. QED
  BY <1>2, <1>11

LEMMA Ss3Advances ==
  ASSUME NEW p, IsParser(p), NoParams(p), NEW c
  PROVE  Advances(_parse_ss3(p, c), p.raw)
<1>1. NoSequence.id \notin Plain /\ _dispatch_ss3(c).id \notin Plain
  BY NamedIs, TablesSilent DEF _dispatch_ss3, NoSequence, Says, Plain
<1>2. _parse_ss3(p, c) = Ends(p, NoSequence) \/ _parse_ss3(p, c) = Ends(p, _dispatch_ss3(c))
  BY Zenon DEF _parse_ss3
<1>3. QED
  BY <1>1, <1>2, EndsAdvances

LEMMA OscAdvances ==
  ASSUME NEW p, IsParser(p), NoParams(p), NEW c
  PROVE  /\ p.mode = "osc" => Advances(_parse_osc(p, c), p.raw)
         /\ p.mode = "osc_st" => Advances(_parse_osc_st(p, c), p.raw)
<1>1. NoSequence.id \notin Plain /\ _dispatch_osc(p.raw).id \notin Plain
  BY OscSpeaks DEF NoSequence, Says, Plain
<1>2. Advances(Ends(p, NoSequence), p.raw) /\ Advances(Ends(p, _dispatch_osc(p.raw)), p.raw)
  BY <1>1, EndsAdvances
<1>3. ASSUME NEW m \in {"osc_st", "esc"}
      PROVE  LET q == [p EXCEPT !.mode = m] IN
             IsParser(q) /\ q.mode = m /\ q.raw = p.raw /\ NoParams(q)
  <2>1. m \in Modes
    BY DEF Modes
  <2>2. QED
    BY <2>1, ModeIs
<1>4. ASSUME p.mode = "osc" PROVE Advances(_parse_osc(p, c), p.raw)
  <2>1. Advances(Go(p), p.raw)
    BY <1>4, GoAdvances DEF Clean
  <2>2. Advances(Go([p EXCEPT !.mode = "osc_st"]), p.raw)
    BY <1>3, GoAdvances DEF Clean
  <2>3. \/ _parse_osc(p, c) = Ends(p, _dispatch_osc(p.raw))
        \/ _parse_osc(p, c) = Go([p EXCEPT !.mode = "osc_st"])
        \/ _parse_osc(p, c) = Ends(p, NoSequence)
        \/ _parse_osc(p, c) = Go(p)
    BY DEF _parse_osc
  <2>4. QED
    BY <1>2, <2>1, <2>2, <2>3, Zenon
<1>5. Advances(_parse_osc_st(p, c), p.raw)
  <2>1. Advances(_parse_esc([p EXCEPT !.mode = "esc"], c), p.raw)
    BY <1>3, EscAdvances
  <2>2. QED
    BY <1>2, <2>1, Zenon DEF _parse_osc_st
<1>6. QED
  BY <1>4, <1>5

LEMMA SequenceAdvances ==
  ASSUME NEW p, IsParser(p), Clean(p), p.mode # "ground", NEW c
  PROVE  Advances(_parse_sequence_char(p, c), Append(p.raw, c))
<1> DEFINE q == [p EXCEPT !.raw = Append(p.raw, c)]
<1>1. /\ IsParser(q) /\ q.mode = p.mode /\ q.raw = Append(p.raw, c)
      /\ p.mode # "csi" => NoParams(q)
  BY RawIs DEF Clean
<1>2. _parse_sequence_char(p, c) =
        CASE p.mode = "esc"    -> _parse_esc(q, c)
          [] p.mode = "csi"    -> _parse_csi(q, c)
          [] p.mode = "osc"    -> _parse_osc(q, c)
          [] p.mode = "osc_st" -> _parse_osc_st(q, c)
          [] p.mode = "ss3"    -> _parse_ss3(q, c)
  BY DEF _parse_sequence_char
<1> HIDE DEF q
<1>3. CASE p.mode = "esc"
  BY <1>1, <1>2, <1>3, EscAdvances
<1>4. CASE p.mode = "csi"
  BY <1>1, <1>2, <1>4, CsiAdvances
<1>5. CASE p.mode = "osc"
  BY <1>1, <1>2, <1>5, OscAdvances
<1>6. CASE p.mode = "osc_st"
  BY <1>1, <1>2, <1>6, OscAdvances
<1>7. CASE p.mode = "ss3"
  BY <1>1, <1>2, <1>7, Ss3Advances
<1>8. QED
  BY <1>3, <1>4, <1>5, <1>6, <1>7 DEF IsParser, Modes

LEMMA ResetIs ==
  ASSUME NEW p, IsParser(p), NoParams(p)
  PROVE  LET q == reset(p) IN
         /\ IsParser(q) /\ NoParams(q) /\ q.mode = "ground" /\ q.raw = <<>>
         /\ p.intermediate = "" => q = Fresh
<1> DEFINE q == reset(p)
           fields == {"mode", "raw", "params", "current", "private", "intermediate", "overflow"}
<1>1. DOMAIN p = fields
  BY DEF IsParser
<1>2. /\ q.mode = "ground" /\ q.raw = <<>> /\ q.params = p.params /\ q.current = p.current
      /\ q.private = p.private /\ q.intermediate = p.intermediate /\ q.overflow = p.overflow
  BY <1>1 DEF reset
<1>3. q = [x \in DOMAIN q |-> q[x]] /\ DOMAIN q = fields
  BY <1>1 DEF reset
<1> HIDE DEF q
<1>4. q = [mode |-> q.mode, raw |-> q.raw, params |-> q.params, current |-> q.current,
           private |-> q.private, intermediate |-> q.intermediate, overflow |-> q.overflow]
  BY <1>3
<1>5. "ground" \in Modes
  BY DEF Modes
<1>6. IsParser(q) /\ NoParams(q)
  BY <1>2, <1>4, <1>5, Zenon DEF IsParser, NoParams
<1>7. p.intermediate = "" => q = Fresh
  BY <1>2, <1>4, Zenon DEF NoParams, Fresh
<1>8. QED
  BY <1>2, <1>6, <1>7 DEF q

\* Between sequences every control character but ESC stands for itself.
GroundIds == {"char_nul", "char_del", "char_sub", "text", "carriage_return", "line_feed"}

LEMMA GroundIs ==
  ASSUME NEW p, IsParser(p), p.mode = "ground", NoParams(p), p.raw = <<>>, NEW c
  PROVE  LET r == parse(p, c) IN
         /\ IsParser(r.parser) /\ Clean(r.parser)
         /\ r.id = "continue" => r.parser.mode # "ground" /\ r.parser.raw = <<c>>
         /\ r.id # "continue" => /\ r.parser.mode = "ground" /\ r.parser.raw = <<>>
                                 /\ \/ r.id \in GroundIds \cup {"continue_text"}
                                    \/ r.id = "cursor_forward_tab" /\ c = "TAB"
<1> DEFINE r == parse(p, c)
<1>1. CASE c \notin Controls
  <2>1. r = [parser |-> p, id |-> "continue_text", args |-> <<>>, modifier |-> 1]
    BY <1>1 DEF parse
  <2>2. r.parser = p /\ r.id = "continue_text"
    BY <2>1
  <2>3. QED
    BY <2>2 DEF Clean
<1>2. CASE c = "ESC"
  <2> DEFINE w == [p EXCEPT !.raw = <<c>>]
  <2>1. r = Go([w EXCEPT !.mode = "esc"])
    BY <1>2 DEF parse, _parse_ground_control, Controls
  <2>2. IsParser(w) /\ w.raw = <<c>> /\ NoParams(w)
    BY RawIs
  <2>3. "esc" \in Modes
    BY DEF Modes
  <2> HIDE DEF w
  <2>4. LET q == [w EXCEPT !.mode = "esc"] IN
        IsParser(q) /\ q.mode = "esc" /\ q.raw = <<c>> /\ NoParams(q)
    BY <2>2, <2>3, ModeIs
  <2>5. r.parser = [w EXCEPT !.mode = "esc"] /\ r.id = "continue"
    BY <2>1 DEF Go
  <2>6. QED
    BY <2>4, <2>5 DEF Clean
<1>3. CASE c \in Controls \ {"ESC"}
  <2> DEFINE w == [p EXCEPT !.raw = <<c>>]
             v == [w EXCEPT !.raw = <<>>]
             e == Ends(v, Named(GroundControls, c))
  <2>1. r = [e EXCEPT !.modifier = IF c = "BS" THEN 5 ELSE 1]
    BY <1>3 DEF parse, _parse_ground_control
  <2>2. IsParser(w) /\ NoParams(w) /\ w.mode = "ground"
    BY RawIs
  <2> HIDE DEF w
  <2>3. IsParser(v) /\ NoParams(v) /\ v.raw = <<>>
    BY <2>2, RawIs
  <2> HIDE DEF v
  <2>4. r.parser = e.parser /\ r.id = e.id
    BY <2>1 DEF Ends
  <2>5. e.parser = [v EXCEPT !.mode = "ground"]
    BY DEF Ends
  <2>6. "ground" \in Modes
    BY DEF Modes
  <2>7. IsParser(r.parser) /\ r.parser.mode = "ground" /\ r.parser.raw = <<>> /\ NoParams(r.parser)
    BY <2>3, <2>4, <2>5, <2>6, ModeIs
  <2>8. \/ Named(GroundControls, c).id \in GroundIds
        \/ Named(GroundControls, c).id = "cursor_forward_tab" /\ c = "TAB"
    <3>1. c \in KeysIn(GroundControls)
      BY <1>3 DEF Controls, GroundControls, KeysIn
    <3>2. Named(GroundControls, c).id = Entry(GroundControls, c)
      BY <3>1 DEF Named, Says
    <3>3. \E entry \in GroundControls : entry[1] = c /\ entry[2] = Entry(GroundControls, c)
      BY <3>1 DEF KeysIn, Entry
    <3>4. \A entry \in GroundControls : \/ entry[2] \in GroundIds
                                        \/ entry[2] = "cursor_forward_tab" /\ entry[1] = "TAB"
      BY DEF GroundControls, GroundIds
    <3>5. QED
      BY <3>2, <3>3, <3>4
  <2>9. Named(GroundControls, c).id # "continue"
    BY <2>8 DEF GroundIds
  <2>10. r.id = Named(GroundControls, c).id
    BY <2>4, <2>9 DEF Ends
  <2>11. QED
    BY <2>7, <2>8, <2>9, <2>10 DEF Clean
<1>4. QED
  BY <1>1, <1>2, <1>3

-----------------------------------------------------------------------------
(* Typed keys *)

\* A key that is decoded by its name as a key is decoded by its own name.
LEMMA KeysDecoded ==
  ASSUME NEW id, is_decoded_key(KeyOf(id))
  PROVE  is_decoded_key(id)
<1>1. KeysIn(OutputNames) \subseteq DecodedKeys
  BY DEF KeysIn, OutputNames, DecodedKeys
<1>2. QED
  BY <1>1 DEF KeyOf, is_decoded_key

LEMMA ModifiedDecoded ==
  ASSUME NEW raw, modified_f1_to_f4(raw) # "continue"
  PROVE  is_decoded_key(modified_f1_to_f4(raw)) /\ modified_f1_to_f4(raw) \notin Plain
<1>1. modified_f1_to_f4(raw) \in NamesIn(ModifiedKeys)
  BY EntryIs DEF modified_f1_to_f4
<1>2. NamesIn(ModifiedKeys) \subseteq NamesIn(Ss3Keys)
  BY DEF NamesIn, ModifiedKeys, Ss3Keys
<1>3. QED
  BY <1>1, <1>2, TablesSilent DEF is_decoded_key, DecodedKeys, Silent

\* A message of a sequence becomes the sequence.
LEMMA SequenceTyped ==
  ASSUME side = "passthrough", NEW r, NEW c, NEW raw, raw # <<>>, r.id \notin Plain,
         r.id \notin {"resize_window", "win32_input_key", "cursor_forward_tab"}
  PROVE  process_input(r, c, raw) = Typed(raw)
<1> DEFINE fkey == modified_f1_to_f4(raw)
           id   == IF fkey # "continue" THEN fkey ELSE r.id
<1>1. /\ fkey # "continue" => is_decoded_key(fkey) /\ fkey \notin Plain
  BY ModifiedDecoded
<1>2. id \notin Plain
  BY <1>1
<1>3. ~is_decoded_key(id) => id = r.id
  BY <1>1
<1>4. is_decoded_key(KeyOf(id)) => is_decoded_key(id)
  BY KeysDecoded
<1>5. /\ "cursor_backward_tab" \in DecodedKeys /\ "cursor_vert_absolute" \in DecodedKeys
      /\ "cursor_horiz_absolute" \in DecodedKeys /\ "char_nul" \in DecodedKeys
  BY DEF DecodedKeys
<1>6. process_input(r, c, raw) =
        IF is_decoded_key(id) /\ side = "passthrough" THEN Typed(IF raw = <<>> THEN <<c>> ELSE raw)
        ELSE CASE id \in {"continue_text", "carriage_return", "line_feed"} -> Typed(<<c>>)
               [] id = "text"                            -> Typed(IF c = "^_" THEN <<>> ELSE <<c>>)
               [] id = "cursor_forward_tab"              -> Typed(<<"TAB">>)
               [] id = "cursor_backward_tab"             -> Pressed("tab", {"shift"})
               [] id \in {"cursor_vert_absolute", "cursor_horiz_absolute", "resize_window", "char_nul"}
                                                         -> Typed(<<>>)
               [] id = "cpr_response" /\ side = "reply"  -> Typed(<<>>)
               [] id = "win32_input_key"                 -> Pressed("win32", r.args)
               [] OTHER -> IF is_decoded_key(KeyOf(id)) THEN process_input_key_event(id, r.modifier)
                           ELSE Typed(raw)
  BY DEF process_input
<1> HIDE DEF id, fkey
<1>7. CASE is_decoded_key(id)
  BY <1>6, <1>7
<1>8. CASE ~is_decoded_key(id)
  BY <1>2, <1>3, <1>4, <1>5, <1>6, <1>8 DEF Plain, is_decoded_key
<1>9. QED
  BY <1>7, <1>8

\* So does a character that is not part of one.
LEMMA CharacterTyped ==
  ASSUME side = "passthrough", NEW r, NEW c, c # "^_",
         \/ r.id \in GroundIds \cup {"continue_text"}
         \/ r.id = "cursor_forward_tab" /\ c = "TAB"
  PROVE  process_input(r, c, <<>>) = Typed(<<c>>)
<1>1. modified_f1_to_f4(<<>>) = "continue"
  BY DEF modified_f1_to_f4
<1>2. process_input(r, c, <<>>) =
        IF is_decoded_key(r.id) /\ side = "passthrough" THEN Typed(<<c>>)
        ELSE CASE r.id \in {"continue_text", "carriage_return", "line_feed"} -> Typed(<<c>>)
               [] r.id = "text"                            -> Typed(IF c = "^_" THEN <<>> ELSE <<c>>)
               [] r.id = "cursor_forward_tab"              -> Typed(<<"TAB">>)
               [] r.id = "cursor_backward_tab"             -> Pressed("tab", {"shift"})
               [] r.id \in {"cursor_vert_absolute", "cursor_horiz_absolute", "resize_window", "char_nul"}
                                                         -> Typed(<<>>)
               [] r.id = "cpr_response" /\ side = "reply"  -> Typed(<<>>)
               [] r.id = "win32_input_key"                 -> Pressed("win32", r.args)
               [] OTHER -> IF is_decoded_key(KeyOf(r.id)) THEN process_input_key_event(r.id, r.modifier)
                           ELSE Typed(<<>>)
  BY <1>1 DEF process_input
<1>3. {"char_nul", "char_del", "char_sub"} \subseteq DecodedKeys
  BY DEF DecodedKeys
<1>4. CASE r.id \in {"char_nul", "char_del", "char_sub"}
  BY <1>2, <1>3, <1>4 DEF is_decoded_key
<1>5. CASE r.id \in {"continue_text", "text", "carriage_return", "line_feed"}
  BY <1>2, <1>5
<1>6. CASE r.id = "cursor_forward_tab" /\ c = "TAB"
  BY <1>2, <1>6
<1>7. QED
  BY <1>4, <1>5, <1>6 DEF GroundIds

-----------------------------------------------------------------------------
(* The invariant.  Between sequences the parser is as it was made, up to an *)
(* intermediate a control character left behind; within one it holds what  *)
(* it heard, as a parser that heard nothing before would.                  *)

HeardChars == Alphabet \cup {"glyph"}

KeysInv ==
  /\ IsParser(parser) /\ Clean(parser)
  /\ heard \in Seq(HeardChars) /\ parser.raw = heard
  /\ parser.mode = "ground" <=> heard = <<>>
  /\ ~abandoned => parser = IF heard = <<>> THEN Fresh ELSE fresh.parser
  /\ HistoryFree /\ PassthroughExact

LEMMA AppendOne == \A d : Append(<<>>, d) = <<d>>
OBVIOUS

LEMMA EmptySeqIs == \A S : <<>> \in Seq(S)
OBVIOUS

LEMMA AppendMore ==
  ASSUME NEW S, NEW s \in Seq(S), s # <<>>, NEW d \in S
  PROVE  Append(s, d) # <<>> /\ Len(Append(s, d)) > 1
<1>1. Len(s) \in Nat /\ Len(s) # 0
  BY EmptySeq
<1>2. Len(Append(s, d)) = Len(s) + 1 /\ Append(s, d) # <<>>
  BY AppendProperties
<1>3. QED
  BY <1>1, <1>2

LEMMA KeysStartInv ==
  ASSUME KeysInit
  PROVE  KeysInv
<1>1. /\ parser = Fresh /\ heard = <<>> /\ message = NoMessage
  BY DEF KeysInit, KeysStart
<1>2. IsParser(Fresh) /\ Clean(Fresh) /\ Fresh.raw = <<>> /\ Fresh.mode = "ground"
  BY DEF IsParser, Clean, NoParams, Fresh, Modes
<1>3. message.id = "none"
  BY <1>1 DEF NoMessage
<1>4. HistoryFree /\ PassthroughExact
  BY <1>3 DEF HistoryFree, PassthroughExact
<1>5. heard \in Seq(HeardChars)
  BY <1>1
<1>6. QED
  BY <1>1, <1>2, <1>4, <1>5, Zenon DEF KeysInv

\* What the parser makes of one more character, in a sequence or between them.
LEMMA ParsedIs ==
  ASSUME KeysInv, NEW d
  PROVE  LET r == parse(parser, d) IN
         /\ IsParser(r.parser) /\ Clean(r.parser)
         /\ r.id = "continue" => r.parser.mode # "ground" /\ r.parser.raw = Append(heard, d)
         /\ r.id # "continue" =>
              /\ r.parser.mode = "ground"
              /\ heard = <<>> => /\ r.parser.raw = <<>>
                                 /\ \/ r.id \in GroundIds \cup {"continue_text"}
                                    \/ r.id = "cursor_forward_tab" /\ d = "TAB"
              /\ heard # <<>> => r.parser.raw = Append(heard, d) /\ r.id \notin Plain
<1>1. CASE heard = <<>>
  <2>1. IsParser(parser) /\ parser.mode = "ground" /\ NoParams(parser) /\ parser.raw = <<>>
    BY <1>1 DEF KeysInv, Clean
  <2>2. Append(heard, d) = <<d>>
    BY <1>1
  <2>3. QED
    BY <1>1, <2>1, <2>2, GroundIs
<1>2. CASE heard # <<>>
  <2>1. IsParser(parser) /\ parser.mode # "ground" /\ Clean(parser) /\ parser.raw = heard
    BY <1>2 DEF KeysInv
  <2>2. parse(parser, d) = _parse_sequence_char(parser, d)
    BY <2>1 DEF parse
  <2>3. Advances(parse(parser, d), Append(heard, d))
    BY <2>1, <2>2, SequenceAdvances
  <2>4. QED
    BY <1>2, <2>3, Zenon DEF Advances
<1>3. QED
  BY <1>1, <1>2

\* A message: the parser starts over, and says what a fresh one would have said.
LEMMA MessageKeeps ==
  ASSUME KeysInv, NEW d \in HeardChars,
         fresh' = parse(IF heard = <<>> THEN Fresh ELSE fresh.parser, d),
         parse(parser, d).id # "continue",
         parser' = reset(parse(parser, d).parser), heard' = <<>>,
         message'.id = parse(parser, d).id, message'.args = parse(parser, d).args,
         message'.modifier = parse(parser, d).modifier, message'.heard = Append(heard, d),
         delivered' = IF side = "output" THEN Typed(<<>>)
                      ELSE process_input(parse(parser, d), d, parse(parser, d).parser.raw),
         abandoned' = (abandoned \/ parse(parser, d).parser.intermediate # ""), side' = side
  PROVE  KeysInv'
<1> DEFINE r == parse(parser, d)
<1>1. /\ IsParser(r.parser) /\ NoParams(r.parser)
      /\ heard = <<>> => /\ r.parser.raw = <<>>
                         /\ \/ r.id \in GroundIds \cup {"continue_text"}
                            \/ r.id = "cursor_forward_tab" /\ d = "TAB"
      /\ heard # <<>> => r.parser.raw = Append(heard, d) /\ r.id \notin Plain
  BY ParsedIs DEF Clean
<1>2. /\ IsParser(parser') /\ NoParams(parser') /\ parser'.mode = "ground" /\ parser'.raw = <<>>
      /\ r.parser.intermediate = "" => parser' = Fresh
  BY <1>1, ResetIs
<1>3. ~abandoned => fresh' = r
  BY Zenon DEF KeysInv
<1>4. HistoryFree'
  BY <1>3, Zenon DEF HistoryFree
<1>5. PassthroughExact'
  <2> SUFFICES ASSUME side = "passthrough",
                      r.id \notin {"none", "resize_window", "win32_input_key"},
                      ~(r.id = "cursor_forward_tab" /\ Len(Append(heard, d)) > 1),
                      Append(heard, d) # <<"^_">>
               PROVE  delivered'.chars = Append(heard, d)
    BY DEF PassthroughExact
  <2>1. \A t : Typed(t).chars = t
    BY DEF Typed
  <2>2. delivered' = process_input(r, d, r.parser.raw)
    BY Zenon
  <2>3. CASE heard = <<>>
    <3>1. Append(heard, d) = <<d>> /\ d # "^_"
      BY <2>3, AppendOne, Zenon
    <3>2. process_input(r, d, <<>>) = Typed(<<d>>)
      BY <1>1, <2>3, <3>1, CharacterTyped
    <3>3. QED
      <4>1. r.parser.raw = <<>>
        BY <1>1, <2>3
      <4>2. delivered' = Typed(<<d>>)
        BY <2>2, <3>2, <4>1
      <4>3. QED
        BY <2>1, <3>1, <4>2
  <2>4. CASE heard # <<>>
    <3>1. heard \in Seq(HeardChars)
      BY DEF KeysInv
    <3>2. Append(heard, d) # <<>> /\ Len(Append(heard, d)) > 1
      BY <2>4, <3>1, AppendMore
    <3>3. r.id # "cursor_forward_tab"
      BY <3>2
    <3>4. process_input(r, d, Append(heard, d)) = Typed(Append(heard, d))
      BY <1>1, <2>4, <3>2, <3>3, SequenceTyped
    <3>5. QED
      <4>1. r.parser.raw = Append(heard, d)
        BY <1>1, <2>4
      <4>2. delivered' = Typed(Append(heard, d))
        BY <2>2, <3>4, <4>1
      <4>3. QED
        BY <2>1, <4>2
  <2>5. QED
    BY <2>3, <2>4
<1>6. heard' \in Seq(HeardChars)
  BY EmptySeqIs, Zenon
<1>7. ~abandoned' => parser' = Fresh
  BY <1>2
<1>8. QED
  BY <1>2, <1>4, <1>5, <1>6, <1>7, Zenon DEF KeysInv, Clean

\* A character of a sequence that goes on.
LEMMA SequenceKeeps ==
  ASSUME KeysInv, NEW d \in HeardChars,
         fresh' = parse(IF heard = <<>> THEN Fresh ELSE fresh.parser, d),
         parse(parser, d).id = "continue",
         parser' = parse(parser, d).parser, heard' = Append(heard, d),
         message' = NoMessage, abandoned' = abandoned
  PROVE  KeysInv'
<1>1. /\ IsParser(parser') /\ Clean(parser') /\ parser'.mode # "ground" /\ parser'.raw = heard'
  BY ParsedIs
<1>2. ~abandoned => fresh' = parse(parser, d)
  BY Zenon DEF KeysInv
<1>3. message'.id = "none"
  BY DEF NoMessage
<1>4. HistoryFree' /\ PassthroughExact'
  BY <1>3 DEF HistoryFree, PassthroughExact
<1>5. heard' \in Seq(HeardChars) /\ heard' # <<>>
  BY DEF KeysInv
<1>6. ~abandoned' => parser' = fresh'.parser
  BY <1>2, Zenon
<1>7. QED
  BY <1>1, <1>4, <1>5, <1>6, Zenon DEF KeysInv

LEMMA CharacterKeeps ==
  ASSUME KeysInv, NEW c \in Alphabet, Character(c)
  PROVE  KeysInv'
<1> DEFINE d == IF translating' THEN dec_to_unicode(c) ELSE c
           r == parse(parser, d)
<1>1. d \in HeardChars
  BY DEF dec_to_unicode, HeardChars
<1>2. fresh' = parse(IF heard = <<>> THEN Fresh ELSE fresh.parser, d) /\ side' = side
  BY DEF Character
<1>3. CASE r.id = "continue"
  <2>1. /\ parser' = r.parser /\ heard' = Append(heard, d) /\ message' = NoMessage
        /\ abandoned' = abandoned
    BY <1>3 DEF Character
  <2> HIDE DEF d
  <2>2. QED
    BY <1>1, <1>2, <1>3, <2>1, SequenceKeeps
<1>4. CASE r.id # "continue"
  <2>1. /\ parser' = reset(r.parser) /\ heard' = <<>>
        /\ message' = [id |-> r.id, args |-> r.args, modifier |-> r.modifier,
                       heard |-> Append(heard, d)]
        /\ delivered' = IF side = "output" THEN Typed(<<>>) ELSE process_input(r, d, r.parser.raw)
        /\ abandoned' = (abandoned \/ r.parser.intermediate # "")
    BY <1>4 DEF Character
  <2> HIDE DEF d
  <2>2. /\ message'.id = r.id /\ message'.args = r.args /\ message'.modifier = r.modifier
        /\ message'.heard = Append(heard, d)
    BY <2>1
  <2>3. QED
    BY <1>1, <1>2, <1>4, <2>1, <2>2, MessageKeeps
<1>5. QED
  BY <1>3, <1>4

\* Whatever was written or typed before, a sequence says the same (vt_parser::reset,
\* _reset_params), and an application that reads VT input gets the characters typed, for
\* any alphabet and any bound on the length of a sequence.
THEOREM SequencesSpeakForThemselves == KeysSpec => []SequencesExact
<1>1. KeysInit => KeysInv
  BY KeysStartInv
<1>2. KeysInv /\ [KeysNext]_parser_vars => KeysInv'
  <2> SUFFICES ASSUME KeysInv, [KeysNext]_parser_vars PROVE KeysInv'
    OBVIOUS
  <2>1. CASE KeysNext
    BY <2>1, CharacterKeeps DEF KeysNext
  <2>2. CASE UNCHANGED parser_vars
    BY <2>2 DEF parser_vars, KeysInv, HistoryFree, PassthroughExact
  <2>3. QED
    BY <2>1, <2>2
<1>3. KeysInv => SequencesExact
  BY DEF KeysInv, SequencesExact
<1>4. QED
  BY <1>1, <1>2, <1>3, PTL DEF KeysSpec

-----------------------------------------------------------------------------
(* InputRecords: the queue and what clients were told of it                *)

InputInv ==
  /\ events \in Seq(Records) /\ due = events
  /\ event_set \in BOOLEAN /\ (event_set <=> events # <<>>)
  /\ Len(events) <= MaxEvents
  /\ waiting \in {NoRead, LineRead} \cup Reader
  /\ waiting \in Reader => events = <<>>
  /\ last_read.records = FirstOf(last_read.before, last_read.told)

LEMMA InputInvTells ==
  ASSUME InputInv
  PROVE  InputAsTold
<1>1. \A w \in {NoRead, LineRead} : w.for # "records"
  BY DEF NoRead, LineRead
<1>2. QED
  BY <1>1 DEF InputInv, InputAsTold

-----------------------------------------------------------------------------
(* Parts of a queue *)

LEMMA FirstOfIs ==
  ASSUME NEW S, NEW s \in Seq(S), NEW n \in Nat
  PROVE  /\ FirstOf(s, n) \in Seq(S) /\ Len(FirstOf(s, n)) = Fewest(n, Len(s))
         /\ Len(FirstOf(s, n)) <= n /\ Len(FirstOf(s, n)) <= Len(s)
         /\ FirstOf(s, Len(FirstOf(s, n))) = FirstOf(s, n)
<1>1. Len(s) \in Nat
  BY LenProperties
<1>2. Fewest(n, Len(s)) \in 0..Len(s) /\ Fewest(n, Len(s)) <= n
  BY <1>1 DEF Fewest
<1>3. \A k \in 0..Len(s) : SubSeq(s, 1, k) \in Seq(S) /\ Len(SubSeq(s, 1, k)) = k
  <2> SUFFICES ASSUME NEW k \in 0..Len(s)
               PROVE  SubSeq(s, 1, k) \in Seq(S) /\ Len(SubSeq(s, 1, k)) = k
    OBVIOUS
  <2>1. \A i \in 1..k : i \in 1..Len(s)
    BY <1>1
  <2>2. QED
    BY <1>1, <2>1, SubSeqProperties
<1>4. FirstOf(s, n) \in Seq(S) /\ Len(FirstOf(s, n)) = Fewest(n, Len(s))
  BY <1>2, <1>3, Zenon DEF FirstOf
<1>5. Fewest(Fewest(n, Len(s)), Len(s)) = Fewest(n, Len(s))
  BY <1>1 DEF Fewest
<1>6. FirstOf(s, Len(FirstOf(s, n))) = FirstOf(s, n)
  BY <1>4, <1>5, Zenon DEF FirstOf
<1>7. QED
  BY <1>1, <1>2, <1>4, <1>6

LEMMA BehindIs ==
  ASSUME NEW S, NEW s \in Seq(S), NEW n \in 0..Len(s)
  PROVE  Behind(s, n) \in Seq(S) /\ Len(Behind(s, n)) = Len(s) - n
<1>1. Len(s) \in Nat
  BY LenProperties
<1>2. \A i \in (n + 1)..Len(s) : i \in 1..Len(s)
  BY <1>1
<1>3. QED
  BY <1>1, <1>2, SubSeqProperties DEF Behind

LEMMA EmptyIs ==
  ASSUME NEW S, NEW s \in Seq(S)
  PROVE  Len(s) \in Nat /\ (s = <<>> <=> Len(s) = 0)
BY LenProperties, EmptySeq

LEMMA JoinedIs ==
  ASSUME NEW S, NEW s \in Seq(S), NEW t \in Seq(S)
  PROVE  /\ s \o t \in Seq(S) /\ Len(s \o t) = Len(s) + Len(t)
         /\ s \o t = <<>> <=> s = <<>> /\ t = <<>>
<1>1. s \o t \in Seq(S) /\ Len(s \o t) = Len(s) + Len(t)
  BY ConcatProperties
<1>2. QED
  BY <1>1, EmptyIs

LEMMA StoredIs ==
  ASSUME InputRecordsAssumption, InputInv, NEW records \in Seq(Records)
  PROVE  /\ Fits(records) \in Seq(Records) /\ Len(Fits(records)) + Len(events) <= MaxEvents
         /\ FirstOf(records, Len(Fits(records))) = Fits(records)
<1>1. events \in Seq(Records) /\ Len(events) <= MaxEvents /\ MaxEvents \in Nat
  BY DEF InputInv, InputRecordsAssumption
<1>2. Len(events) \in Nat
  BY <1>1, EmptyIs
<1>3. MaxEvents - Len(events) \in Nat
  BY <1>1, <1>2
<1>4. /\ Fits(records) \in Seq(Records) /\ Len(Fits(records)) <= MaxEvents - Len(events)
      /\ FirstOf(records, Len(Fits(records))) = Fits(records)
  BY <1>3, FirstOfIs DEF Fits
<1>5. Len(Fits(records)) \in Nat
  BY <1>4, EmptyIs
<1>6. QED
  BY <1>1, <1>2, <1>4, <1>5

\* A set of numbers has a least one.
LEMMA LeastNumber ==
  ASSUME NEW I, I \subseteq Nat, I # {}
  PROVE  \E n \in I : \A i \in I : n <= i
<1> DEFINE R == OpToRel(<, Nat)
<1>1. IsWellFoundedOn(R, Nat)
  BY NatLessThanWellFounded, Zenon
<1>2. \A m, n \in Nat : m < n => <<m, n>> \in R
  BY Zenon DEF OpToRel
<1> HIDE DEF R
<1>3. PICK n \in I : \A i \in I : <<i, n>> \notin R
  BY <1>1, WFMin
<1>4. \A i \in I : ~(i < n)
  BY <1>2, <1>3, Zenon
<1>5. \A i \in I : n <= i
  BY <1>4
<1>6. QED
  BY <1>5

LEMMA TakenIs ==
  ASSUME NEW queue \in Seq(Records)
  PROVE  TakenByLine(queue) \in 0..Len(queue)
<1> DEFINE enters == {k \in 1..Len(queue) : queue[k] = "Enter"}
<1>1. Len(queue) \in Nat /\ DOMAIN queue = 1..Len(queue)
  BY LenProperties
<1>2. CASE enters = {}
  BY <1>1, <1>2 DEF TakenByLine
<1>3. CASE enters # {}
  <2>1. enters \subseteq Nat
    BY <1>1
  <2>2. PICK k \in enters : \A j \in enters : k <= j
    BY <1>3, <2>1, LeastNumber
  <2>3. \A a, b \in enters : (\A j \in enters : a <= j) /\ (\A j \in enters : b <= j) => a = b
    BY <2>1
  <2>4. Min(enters) \in enters
    BY <2>2, Zenon DEF Min
  <2>5. SelectInSeq(queue, LAMBDA r : r = "Enter") = Min(enters)
    BY <1>3 DEF SelectInSeq
  <2>6. TakenByLine(queue) = Min(enters)
    BY <1>1, <1>3, <2>5 DEF TakenByLine
  <2>7. QED
    BY <1>1, <2>4, <2>6
<1>4. QED
  BY <1>2, <1>3

\* A WriteConsoleInputA queues keys and windows.
LEMMA UnicodeIs ==
  ASSUME NEW n \in Nat, NEW records \in [1..n -> AnsiRecords]
  PROVE  Unicode(records) \in Seq(Records)
<1> DEFINE kept == {k \in DOMAIN records : ~TakenByLead(records, k)}
           e(i) == IF records[NthOf(kept, i)] = "window" THEN "window" ELSE "key"
<1>1. IsFiniteSet(1..n) /\ kept \subseteq 1..n
  BY FS_Interval
<1>2. IsFiniteSet(kept)
  BY <1>1, FS_Subset
<1>3. Cardinality(kept) \in Nat
  BY <1>2, FS_CardinalityType
<1>4. Unicode(records) = [i \in 1..Cardinality(kept) |-> e(i)]
  BY Zenon DEF Unicode
<1>5. \A i : e(i) \in Records
  BY DEF Records
<1> HIDE DEF e, kept
<1>6. QED
  BY <1>3, <1>4, <1>5

-----------------------------------------------------------------------------
(* What readers get *)

LEMMA ReadersApart ==
  /\ NoRead \notin Reader /\ LineRead \notin Reader
  /\ \A r \in Reader : r.for = "records" /\ r.peek \in BOOLEAN /\ r.max \in MaxRecords
  /\ NoRead.for # "records" /\ LineRead.for # "records"
<1>1. \A r \in Reader : r.for = "records" /\ r.peek \in BOOLEAN /\ r.max \in MaxRecords
  BY DEF Reader
<1>2. NoRead.for # "records" /\ LineRead.for # "records"
  BY DEF NoRead, LineRead
<1>3. QED
  BY <1>1, <1>2, Zenon

LEMMA NoAnswerIs == NoAnswer.records = FirstOf(NoAnswer.before, NoAnswer.told)
<1>1. FirstOf(<<>>, 0) = <<>>
  BY DEF FirstOf, Fewest
<1>2. QED
  BY <1>1 DEF NoAnswer

LEMMA AnsweredKeeps ==
  ASSUME NEW reader, reader.max \in Nat, reader.peek \in BOOLEAN,
         NEW queue \in Seq(Records), Len(queue) <= MaxEvents, MaxEvents \in Nat,
         NEW set \in BOOLEAN, set <=> queue # <<>>,
         Answered(reader, queue, set, queue)
  PROVE  /\ events' \in Seq(Records) /\ due' = events'
         /\ event_set' \in BOOLEAN /\ (event_set' <=> events' # <<>>)
         /\ Len(events') <= MaxEvents /\ (queue = <<>> => events' = <<>>)
         /\ last_read'.records = FirstOf(last_read'.before, last_read'.told)
<1> DEFINE records == FirstOf(queue, reader.max)
           left == IF reader.peek THEN queue ELSE Behind(queue, Len(records))
<1>1. /\ records \in Seq(Records) /\ Len(records) <= Len(queue)
      /\ FirstOf(queue, Len(records)) = records
  BY FirstOfIs
<1>2. Len(records) \in Nat /\ Len(queue) \in Nat
  BY <1>1, EmptyIs
<1>3. Behind(queue, Len(records)) \in Seq(Records)
      /\ Len(Behind(queue, Len(records))) = Len(queue) - Len(records)
  BY <1>1, <1>2, BehindIs
<1>4. left \in Seq(Records) /\ Len(left) <= Len(queue)
  BY <1>1, <1>2, <1>3
<1>5. Len(left) \in Nat /\ (left = <<>> <=> Len(left) = 0) /\ (queue = <<>> <=> Len(queue) = 0)
  BY <1>4, EmptyIs
<1>6. /\ last_read' = [records |-> records, told |-> Len(records), before |-> queue]
      /\ events' = left
      /\ event_set' = IF reader.peek THEN set ELSE ResetIfEmpty(left, set)
      /\ due' = IF reader.peek THEN queue ELSE Behind(queue, Len(records))
  BY DEF Answered
<1> HIDE DEF records
<1>7. last_read'.records = FirstOf(last_read'.before, last_read'.told)
  BY <1>1, <1>6
<1>8. due' = events'
  BY <1>6
<1>9. left # <<>> => queue # <<>>
  BY <1>2, <1>4, <1>5
<1>10. Len(left) <= MaxEvents
  BY <1>2, <1>4, <1>5
<1>11. event_set' \in BOOLEAN /\ (event_set' <=> left # <<>>)
  BY <1>6, <1>9 DEF ResetIfEmpty
<1> HIDE DEF left
<1>12. QED
  BY <1>4, <1>6, <1>7, <1>8, <1>9, <1>10, <1>11

LEMMA LineKeeps ==
  ASSUME NEW queue \in Seq(Records), Len(queue) <= MaxEvents, MaxEvents \in Nat,
         NEW set \in BOOLEAN, set <=> queue # <<>>,
         LineConsumes(queue, set, queue), last_read' = NoAnswer
  PROVE  InputInv'
<1> DEFINE n == TakenByLine(queue)
           left == Behind(queue, n)
<1>1. n \in 0..Len(queue)
  BY TakenIs
<1>2. left \in Seq(Records) /\ Len(left) = Len(queue) - n
  BY <1>1, BehindIs
<1>3. Len(left) \in Nat /\ (left = <<>> <=> Len(left) = 0)
      /\ Len(queue) \in Nat /\ (queue = <<>> <=> Len(queue) = 0)
  BY <1>2, EmptyIs
<1>4. /\ events' = left /\ event_set' = ResetIfEmpty(left, set) /\ due' = left
      /\ waiting' \in {NoRead, LineRead}
  BY DEF LineConsumes
<1> HIDE DEF n, left
<1>5. Len(left) <= Len(queue) /\ Len(left) <= MaxEvents
  BY <1>1, <1>2, <1>3
<1>6. left # <<>> => queue # <<>>
  BY <1>3, <1>5
<1>7. event_set' \in BOOLEAN /\ (event_set' <=> left # <<>>)
  BY <1>4, <1>6 DEF ResetIfEmpty
<1>9. last_read'.records = FirstOf(last_read'.before, last_read'.told)
  BY NoAnswerIs
<1>10. waiting' \notin Reader
  BY <1>4, ReadersApart
<1>11. QED
  BY <1>2, <1>4, <1>5, <1>7, <1>9, <1>10 DEF InputInv

\* The read that waits gets what comes into an empty queue.
LEMMA WaitingGets ==
  ASSUME InputRecordsAssumption, InputInv, waiting.for = "records",
         NEW queue \in Seq(Records), Len(queue) <= MaxEvents,
         NEW set \in BOOLEAN, set <=> queue # <<>>,
         Answered(waiting, queue, set, queue), waiting' = NoRead
  PROVE  InputInv'
<1>1. waiting \in Reader
  BY ReadersApart DEF InputInv
<1>2. waiting.max \in Nat /\ waiting.peek \in BOOLEAN /\ MaxEvents \in Nat
  BY <1>1, ReadersApart DEF InputRecordsAssumption
<1>3. /\ events' \in Seq(Records) /\ due' = events'
      /\ event_set' \in BOOLEAN /\ (event_set' <=> events' # <<>>)
      /\ Len(events') <= MaxEvents
      /\ last_read'.records = FirstOf(last_read'.before, last_read'.told)
  BY <1>2, AnsweredKeeps
<1>4. waiting' \in {NoRead, LineRead} \cup Reader /\ waiting' \notin Reader
  BY ReadersApart
<1>5. QED
  BY <1>3, <1>4 DEF InputInv

\* Records come and no GetConsoleInput waits.
LEMMA QueuedKeeps ==
  ASSUME InputInv, waiting.for # "records", NEW queue \in Seq(Records), Len(queue) <= MaxEvents,
         NEW set \in BOOLEAN, set <=> queue # <<>>,
         events' = queue, event_set' = set, due' = queue, last_read' = NoAnswer,
         waiting' = waiting
  PROVE  InputInv'
<1>1. waiting \notin Reader /\ waiting \in {NoRead, LineRead} \cup Reader
  BY ReadersApart DEF InputInv
<1>2. last_read'.records = FirstOf(last_read'.before, last_read'.told)
  BY NoAnswerIs
<1>3. QED
  BY <1>1, <1>2 DEF InputInv

\* Stored behind or in front of the queued records.
LEMMA QueueIs ==
  ASSUME InputRecordsAssumption, InputInv, NEW records \in Seq(Records)
  PROVE  LET stored == Fits(records)
             set    == Signalled(stored, event_set)
         IN  /\ set \in BOOLEAN
             /\ \A queue \in {events \o stored, prepend_range(events, stored)} :
                  /\ queue \in Seq(Records) /\ Len(queue) <= MaxEvents
                  /\ set <=> queue # <<>>
<1> DEFINE stored == Fits(records)
           set    == Signalled(stored, event_set)
<1>1. stored \in Seq(Records) /\ Len(stored) + Len(events) <= MaxEvents
  BY StoredIs
<1>2. events \in Seq(Records) /\ event_set \in BOOLEAN /\ (event_set <=> events # <<>>)
  BY DEF InputInv
<1>3. Len(stored) \in Nat /\ Len(events) \in Nat
  BY <1>1, <1>2, EmptyIs
<1> HIDE DEF stored
<1>4. set \in BOOLEAN /\ (set <=> stored # <<>> \/ events # <<>>)
  BY <1>2 DEF Signalled
<1> HIDE DEF set
<1>5. /\ events \o stored \in Seq(Records) /\ Len(events \o stored) = Len(events) + Len(stored)
      /\ events \o stored = <<>> <=> events = <<>> /\ stored = <<>>
  BY <1>1, <1>2, JoinedIs
<1>6. /\ stored \o events \in Seq(Records) /\ Len(stored \o events) = Len(stored) + Len(events)
      /\ stored \o events = <<>> <=> stored = <<>> /\ events = <<>>
  BY <1>1, <1>2, JoinedIs
<1>7. prepend_range(events, stored) = stored \o events
  BY DEF prepend_range
<1>8. Len(events \o stored) <= MaxEvents /\ Len(stored \o events) <= MaxEvents
  BY <1>1, <1>3, <1>5, <1>6
<1>9. QED
  BY <1>4, <1>5, <1>6, <1>7, <1>8, Zenon DEF stored, set

LEMMA KeyKeeps ==
  ASSUME InputRecordsAssumption, InputInv, emit_key
  PROVE  InputInv'
<1> PICK record \in Records :
      LET stored == Fits(<<record>>)
          queue == events \o stored
          set == Signalled(stored, event_set)
          owed == due \o stored
      IN IF waiting.for = "records"
         THEN Answered(waiting, queue, set, owed) /\ waiting' = NoRead
         ELSE /\ events' = queue /\ event_set' = set /\ due' = owed
              /\ last_read' = NoAnswer /\ UNCHANGED waiting
  BY DEF emit_key
<1> DEFINE stored == Fits(<<record>>)
           queue == events \o stored
           set == Signalled(stored, event_set)
<1>1. <<record>> \in Seq(Records)
  OBVIOUS
<1>2. set \in BOOLEAN /\ queue \in Seq(Records) /\ Len(queue) <= MaxEvents /\ (set <=> queue # <<>>)
  BY <1>1, QueueIs
<1>3. due \o stored = queue
  BY DEF InputInv
<1> HIDE DEF set, queue, stored
<1>4. CASE waiting.for = "records"
  <2>1. Answered(waiting, queue, set, queue) /\ waiting' = NoRead
    BY <1>3, <1>4 DEF set, queue, stored
  <2>2. QED
    BY <1>2, <1>4, <2>1, WaitingGets
<1>5. CASE waiting.for # "records"
  <2>1. events' = queue /\ event_set' = set /\ due' = queue /\ last_read' = NoAnswer
        /\ waiting' = waiting
    BY <1>3, <1>5 DEF set, queue, stored
  <2>2. QED
    BY <1>2, <1>5, <2>1, QueuedKeeps
<1>6. QED
  BY <1>4, <1>5

LEMMA WriteKeeps ==
  ASSUME InputRecordsAssumption, InputInv, api_write_console_input
  PROVE  InputInv'
<1> PICK append \in BOOLEAN, unicode \in BOOLEAN :
      \E given \in UNION {[1..n -> IF unicode THEN Records ELSE AnsiRecords] : n \in 0..MaxWritten} :
        LET records == IF unicode THEN given ELSE Unicode(given)
            stored == Fits(records)
            told == Len(stored)
            queue == IF append THEN events \o stored ELSE prepend_range(events, stored)
            owed == IF append THEN due \o FirstOf(records, told) ELSE FirstOf(records, told) \o due
            set == Signalled(stored, event_set)
        IN CASE told > 0 /\ waiting.for = "records" ->
                  Answered(waiting, queue, set, owed) /\ waiting' = NoRead
             [] told > 0 /\ waiting = LineRead ->
                  LineConsumes(queue, set, owed) /\ last_read' = NoAnswer
             [] OTHER -> /\ events' = queue /\ event_set' = set /\ due' = owed
                         /\ last_read' = NoAnswer /\ UNCHANGED waiting
  BY DEF api_write_console_input
<1>1. PICK given \in UNION {[1..n -> IF unicode THEN Records ELSE AnsiRecords] : n \in 0..MaxWritten} :
        LET records == IF unicode THEN given ELSE Unicode(given)
            stored == Fits(records)
            told == Len(stored)
            queue == IF append THEN events \o stored ELSE prepend_range(events, stored)
            owed == IF append THEN due \o FirstOf(records, told) ELSE FirstOf(records, told) \o due
            set == Signalled(stored, event_set)
        IN CASE told > 0 /\ waiting.for = "records" ->
                  Answered(waiting, queue, set, owed) /\ waiting' = NoRead
             [] told > 0 /\ waiting = LineRead ->
                  LineConsumes(queue, set, owed) /\ last_read' = NoAnswer
             [] OTHER -> /\ events' = queue /\ event_set' = set /\ due' = owed
                         /\ last_read' = NoAnswer /\ UNCHANGED waiting
  OBVIOUS
<1> DEFINE records == IF unicode THEN given ELSE Unicode(given)
           stored == Fits(records)
           told == Len(stored)
           queue == IF append THEN events \o stored ELSE prepend_range(events, stored)
           set == Signalled(stored, event_set)
           owed == IF append THEN due \o FirstOf(records, told) ELSE FirstOf(records, told) \o due
<1>2. records \in Seq(Records)
  <2>1. PICK n \in 0..MaxWritten : given \in [1..n -> IF unicode THEN Records ELSE AnsiRecords]
    OBVIOUS
  <2>2. n \in Nat
    BY DEF InputRecordsAssumption
  <2>3. CASE unicode
    BY <2>1, <2>2, <2>3
  <2>4. CASE ~unicode
    BY <2>1, <2>2, <2>4, UnicodeIs
  <2>5. QED
    BY <2>3, <2>4
<1> HIDE DEF records
<1>3. set \in BOOLEAN /\ queue \in Seq(Records) /\ Len(queue) <= MaxEvents /\ (set <=> queue # <<>>)
  BY <1>2, QueueIs, Zenon
<1>4. owed = queue
  <2>1. FirstOf(records, told) = stored /\ due = events
    BY <1>2, StoredIs DEF InputInv
  <2>2. QED
    BY <2>1 DEF prepend_range
<1>5. told \in Nat
  BY <1>2, StoredIs, EmptyIs
<1>6. CASE told > 0 /\ waiting.for = "records"
  <2>1. waiting # LineRead
    BY <1>6, ReadersApart
  <2>2. Answered(waiting, queue, set, owed) /\ waiting' = NoRead
    BY <1>1, <1>6, <2>1 DEF records
  <2> HIDE DEF set, queue, stored, owed, told
  <2>3. QED
    BY <1>3, <1>4, <1>6, <2>2, WaitingGets
<1>7. CASE told > 0 /\ waiting = LineRead
  <2>1. waiting.for # "records"
    BY <1>7, ReadersApart
  <2>2. LineConsumes(queue, set, owed) /\ last_read' = NoAnswer
    BY <1>1, <1>7, <2>1 DEF records
  <2>3. MaxEvents \in Nat
    BY DEF InputRecordsAssumption
  <2> HIDE DEF set, queue, stored, owed, told
  <2>4. QED
    BY <1>3, <1>4, <2>2, <2>3, LineKeeps
<1>8. CASE ~(told > 0 /\ waiting.for = "records") /\ ~(told > 0 /\ waiting = LineRead)
  <2>1. /\ events' = queue /\ event_set' = set /\ due' = owed
        /\ last_read' = NoAnswer /\ waiting' = waiting
    BY <1>1, <1>8 DEF records
  <2>2. CASE waiting.for # "records"
    <3> HIDE DEF set, queue, stored, owed, told
    <3>1. QED
      BY <1>3, <1>4, <2>1, <2>2, QueuedKeeps
  \* Nothing was stored, and nothing was queued for the one that waits.
  <2>3. CASE waiting.for = "records"
    <3>1. stored = <<>> /\ stored \in Seq(Records)
      BY <1>2, <1>5, <1>8, <2>3, StoredIs, EmptyIs
    <3>2. events = <<>>
      BY <2>3, ReadersApart DEF InputInv
    <3>3. queue = <<>>
      BY <3>1, <3>2 DEF prepend_range
    <3> HIDE DEF set, queue, stored, owed, told
    <3>4. last_read'.records = FirstOf(last_read'.before, last_read'.told)
      BY <2>1, NoAnswerIs
    <3>5. QED
      BY <1>3, <1>4, <2>1, <3>3, <3>4 DEF InputInv
  <2>4. QED
    BY <2>2, <2>3
<1>9. QED
  BY <1>6, <1>7, <1>8

LEMMA InputKeeps ==
  ASSUME InputRecordsAssumption, InputInv, handle_console_input
  PROVE  InputInv'
<1>1. PICK peek \in BOOLEAN, wait \in BOOLEAN, max \in MaxRecords :
        /\ wait => waiting = NoRead
        /\ IF max # 0 /\ events = <<>> /\ wait
           THEN /\ waiting' = [for |-> "records", peek |-> peek, max |-> max]
                /\ last_read' = NoAnswer /\ UNCHANGED <<events, event_set, due>>
           ELSE /\ Answered([for |-> "records", peek |-> peek \/ max = 0, max |-> max],
                            events, event_set, due)
                /\ UNCHANGED waiting
  BY DEF handle_console_input
<1>2. CASE max # 0 /\ events = <<>> /\ wait
  <2>1. waiting' \in Reader
    BY <1>1, <1>2 DEF Reader
  <2>2. events' = <<>> /\ event_set' = event_set /\ due' = due /\ events = <<>>
        /\ last_read' = NoAnswer
    BY <1>1, <1>2
  <2>3. last_read'.records = FirstOf(last_read'.before, last_read'.told)
    BY <2>2, NoAnswerIs
  <2>4. QED
    BY <2>1, <2>2, <2>3 DEF InputInv
<1>3. CASE ~(max # 0 /\ events = <<>> /\ wait)
  <2> DEFINE reader == [for |-> "records", peek |-> peek \/ max = 0, max |-> max]
  <2>1. reader.max \in Nat /\ reader.peek \in BOOLEAN /\ MaxEvents \in Nat
    BY DEF InputRecordsAssumption
  <2>2. Answered(reader, events, event_set, due) /\ waiting' = waiting
    BY <1>1, <1>3
  <2> HIDE DEF reader
  <2>3. /\ events \in Seq(Records) /\ Len(events) <= MaxEvents /\ event_set \in BOOLEAN
        /\ (event_set <=> events # <<>>) /\ due = events
    BY DEF InputInv
  <2>4. Answered(reader, events, event_set, events)
    BY <2>2, <2>3
  <2>5. /\ events' \in Seq(Records) /\ due' = events'
        /\ event_set' \in BOOLEAN /\ (event_set' <=> events' # <<>>)
        /\ Len(events') <= MaxEvents /\ (events = <<>> => events' = <<>>)
        /\ last_read'.records = FirstOf(last_read'.before, last_read'.told)
    BY <2>1, <2>3, <2>4, AnsweredKeeps
  <2>6. QED
    BY <2>2, <2>5 DEF InputInv
<1>4. QED
  BY <1>2, <1>3

\* The queue stays, and the read that waits, if any, is a line's.
LEMMA OthersKeep ==
  ASSUME InputRecordsAssumption, InputInv, api_get_num_input \/ LineDone \/ flush
  PROVE  InputInv'
<1>1. CASE api_get_num_input
  <2>1. /\ last_read' = [records |-> events, told |-> Len(events), before |-> due]
        /\ events' = events /\ event_set' = event_set /\ waiting' = waiting /\ due' = due
    BY <1>1 DEF api_get_num_input
  <2>2. events \in Seq(Records) /\ due = events
    BY DEF InputInv
  <2>3. Len(events) \in Nat /\ Fewest(Len(events), Len(events)) = Len(events)
    BY <2>2, EmptyIs DEF Fewest
  <2>4. SubSeq(events, 1, Len(events)) = events
    BY <2>2
  <2>5. FirstOf(events, Len(events)) = events
    BY <2>3, <2>4 DEF FirstOf
  <2>6. last_read'.records = FirstOf(last_read'.before, last_read'.told)
    BY <2>1, <2>2, <2>5
  <2>7. QED
    BY <2>1, <2>6 DEF InputInv
<1>2. CASE LineDone
  <2>1. waiting' = NoRead /\ last_read' = NoAnswer /\ UNCHANGED <<events, event_set, due>>
    BY <1>2 DEF LineDone
  <2>2. last_read'.records = FirstOf(last_read'.before, last_read'.told)
    BY <2>1, NoAnswerIs
  <2>3. QED
    BY <2>1, <2>2, ReadersApart DEF InputInv
<1>3. CASE flush
  <2>1. /\ events' = <<>> /\ event_set' = FALSE /\ due' = <<>>
        /\ waiting' \in {NoRead, waiting} /\ last_read' = NoAnswer
    BY <1>3 DEF flush
  <2>2. last_read'.records = FirstOf(last_read'.before, last_read'.told)
    BY <2>1, NoAnswerIs
  <2>3. <<>> \in Seq(Records) /\ Len(<<>>) = 0 /\ MaxEvents \in Nat
    BY DEF InputRecordsAssumption
  <2>4. Len(events') <= MaxEvents
    BY <2>1, <2>3
  <2>5. waiting' \in {NoRead, LineRead} \cup Reader
    BY <2>1 DEF InputInv
  <2>6. QED
    BY <2>1, <2>2, <2>3, <2>4, <2>5 DEF InputInv
<1>4. QED
  BY <1>1, <1>2, <1>3

\* However keys, WriteConsoleInputs, reads, peeks and flushes follow each other, the event
\* is set exactly while a read would return something, and readers get what was queued in
\* its order, for any size of the queue and of the readers' buffers (input_buffer,
\* handle_console_input, api_write_console_input, consume_input_buffer_for_console_read).
THEOREM ReadersGetWhatWasQueued == InputRecordsAssumption => (InputSpec => []InputAsTold)
<1> SUFFICES ASSUME InputRecordsAssumption PROVE InputSpec => []InputAsTold
  OBVIOUS
<1>1. InputInit => InputInv
  <2> SUFFICES ASSUME InputInit PROVE InputInv
    OBVIOUS
  <2>1. events = <<>> /\ event_set = FALSE /\ waiting = NoRead /\ due = <<>> /\ last_read = NoAnswer
    BY DEF InputInit
  <2>2. <<>> \in Seq(Records) /\ Len(<<>>) = 0 /\ MaxEvents \in Nat
    BY DEF InputRecordsAssumption
  <2>3. Len(events) <= MaxEvents
    BY <2>1, <2>2
  <2>4. last_read.records = FirstOf(last_read.before, last_read.told)
    BY <2>1, NoAnswerIs
  <2>5. QED
    BY <2>1, <2>2, <2>3, <2>4, ReadersApart DEF InputInv
<1>2. InputInv /\ [InputNext]_input_vars => InputInv'
  <2> SUFFICES ASSUME InputInv, [InputNext]_input_vars PROVE InputInv'
    OBVIOUS
  <2>1. CASE handle_console_read
    <3>1. LineConsumes(events, event_set, due) /\ last_read' = NoAnswer
      BY <2>1 DEF handle_console_read
    <3>2. /\ events \in Seq(Records) /\ Len(events) <= MaxEvents /\ event_set \in BOOLEAN
          /\ (event_set <=> events # <<>>) /\ due = events /\ MaxEvents \in Nat
      BY DEF InputInv, InputRecordsAssumption
    <3>3. LineConsumes(events, event_set, events)
      BY <3>1, <3>2
    <3>4. QED
      BY <3>1, <3>2, <3>3, LineKeeps
  <2>2. CASE UNCHANGED input_vars
    BY <2>2 DEF input_vars, InputInv
  <2>3. QED
    BY <2>1, <2>2, KeyKeeps, InputKeeps, WriteKeeps, OthersKeep DEF InputNext
<1>3. InputInv => InputAsTold
  BY InputInvTells
<1>4. QED
  BY <1>1, <1>2, <1>3, PTL DEF InputSpec
=============================================================================
