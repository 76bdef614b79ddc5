----------------------------- MODULE LineEditor -----------------------------
(***************************************************************************)
(* The line a ReadConsole edits: the text and its edit position, the       *)
(* command history, what pipe_bridge believes of the terminal's cursor,    *)
(* and the row the terminal really shows.  One action is one key or call.  *)
(* Every character is one column wide and the line fits its row.           *)
(***************************************************************************)
EXTENDS Naturals, Sequences, SequencesExt

CONSTANTS Chars,        \* characters typed
          RowColumns,   \* columns of the terminal row
          MaxLine,      \* bound: length of an edited or remembered line
          Prompts,      \* columns where output ends
          Capacities,   \* history capacities a client sets
          Aliases       \* function from first words to their expansion

ASSUME LineEditorAssumption ==
  /\ RowColumns \in Nat /\ MaxLine \in Nat
  /\ Prompts \subseteq Nat /\ \A x \in Prompts : x + MaxLine < RowColumns
  /\ Capacities \subseteq Nat /\ Capacities # {}
  /\ \A word \in DOMAIN Aliases : Aliases[word] \in Seq(Chars \cup {" "})

NoSelection == 0

VARIABLES
  reading,       \* a ReadConsole waits
  cooked, at,    \* _cooked_buf, _cooked_cursor
  from, upto,    \* _input_column_start, _input_column_end
  column, valid, \* _cursor.X, _cursor_valid
  commands, capacity, browse, saved,  \* command_history_state; browse counts from 1
  terminal,      \* external: the row shown and the column of the cursor
  draft,         \* history: the line as the user left it before browsing
  clean          \* history: output ended where the line began, and none since

editor_vars == <<reading, cooked, at, from, upto, column, valid, commands, capacity, browse,
                 saved, terminal, draft, clean>>

Blank == [c \in 0..(RowColumns - 1) |-> " "]

EditorInit ==
  /\ reading = FALSE /\ cooked = <<>> /\ at = 0
  /\ from = 0 /\ upto = 0 /\ column = 0 /\ valid = FALSE
  /\ commands = <<>> /\ capacity \in Capacities /\ browse = NoSelection /\ saved = <<>>
  /\ terminal = [row |-> Blank, x |-> 0]
  /\ draft = <<>> /\ clean = FALSE

-----------------------------------------------------------------------------
(* What VT output does to the row                                          *)

Put(t, s) == [row |-> [c \in 0..(RowColumns - 1) |->
                         IF c \in t.x..(t.x + Len(s) - 1) THEN s[c - t.x + 1] ELSE t.row[c]],
              x   |-> t.x + Len(s)]
ToColumn(t, x) == [t EXCEPT !.x = x]
Left(t) == [t EXCEPT !.x = IF @ = 0 THEN 0 ELSE @ - 1]
DeleteChar(t) == [t EXCEPT !.row = [c \in 0..(RowColumns - 1) |->
                    IF c < t.x THEN t.row[c] ELSE IF c = RowColumns - 1 THEN " " ELSE t.row[c + 1]]]
EraseRight(t) == [t EXCEPT !.row = [c \in 0..(RowColumns - 1) |->
                    IF c < t.x THEN t.row[c] ELSE " "]]
NewRow(x) == [row |-> Blank, x |-> x]

\* terminal_cursor_state: advance and retract_bounds.
Widest(a, b) == IF a > b THEN a ELSE b
retract_bounds == upto' = IF upto > from THEN upto - 1 ELSE upto
column_for_offset(offset) == from + offset

-----------------------------------------------------------------------------
(* History                                                                 *)

reset_browse == browse' = NoSelection /\ saved' = <<>>
break_browse == IF browse # NoSelection THEN reset_browse ELSE UNCHANGED <<browse, saved>>

Newest(s, n) == IF Len(s) > n THEN SubSeq(s, Len(s) - n + 1, Len(s)) ELSE s

\* command_history_state::push for the text of a finished line.
Pushed(text) ==
  IF text = <<>> \/ (commands # <<>> /\ Last(commands) = text) THEN commands
  ELSE Newest(Append(commands, text), capacity)

\* expand_alias: the first word replaced, the rest kept.
expand_alias(text) ==
  LET space == SelectInSeq(text, LAMBDA c : c = " ")
      end   == IF space = 0 THEN Len(text) ELSE space - 1
      word  == SubSeq(text, 1, end)
  IN  IF word \in DOMAIN Aliases THEN Aliases[word] \o SubSeq(text, end + 1, Len(text)) ELSE text

\* repaint_full_line of `text', with the bounds already set to its length.
LineRepainted(text) ==
  IF valid THEN /\ terminal' = Put(EraseRight(ToColumn(terminal, from)), text)
                /\ column' = from + Len(text)
           ELSE UNCHANGED <<terminal, column>>

\* load_history_line
Load(text) == /\ cooked' = text /\ at' = Len(text)
              /\ upto' = from + Len(text)
              /\ LineRepainted(text)

\* Mutant: the line typed so far is not kept when browsing begins.
BugDraftForgotten ==
  /\ reading /\ commands # <<>>
  /\ browse' = IF browse = NoSelection THEN Len(commands) ELSE Widest(browse - 1, 1)
  /\ Load(commands[browse'])
  /\ UNCHANGED <<reading, from, valid, commands, capacity, saved, draft, clean>>

history_up ==
  /\ reading /\ commands # <<>>
  /\ browse' = IF browse = NoSelection THEN Len(commands) ELSE Widest(browse - 1, 1)
  /\ saved' = IF browse = NoSelection THEN cooked ELSE saved
  /\ Load(commands[browse'])
  /\ UNCHANGED <<reading, from, valid, commands, capacity, draft, clean>>

history_down ==
  /\ reading /\ browse # NoSelection
  /\ IF browse < Len(commands)
     THEN browse' = browse + 1 /\ Load(commands[browse']) /\ UNCHANGED saved
     ELSE Load(saved) /\ reset_browse
  /\ UNCHANGED <<reading, from, valid, commands, capacity, draft, clean>>

-----------------------------------------------------------------------------
(* Editing                                                                 *)

Suffix(text, pos) == SubSeq(text, pos + 1, Len(text))
EditFrame == UNCHANGED <<reading, from, valid, commands, capacity, clean>>

\* Mutant: the text behind the insertion is not painted again.
BugSuffixNotRepainted(c) ==
  /\ reading /\ Len(cooked) < MaxLine /\ from + Len(cooked) + 1 < RowColumns
  /\ break_browse
  /\ cooked' = InsertAt(cooked, at + 1, c) /\ at' = at + 1
  /\ upto' = IF valid THEN Widest(upto + 1, column + 1) ELSE upto + 1
  /\ IF valid THEN terminal' = Put(terminal, <<c>>) /\ column' = column + 1
              ELSE UNCHANGED <<terminal, column>>
  /\ draft' = cooked'
  /\ EditFrame

\* edit_insert_char and edit_insert_codepoint; the line is kept within the row (MaxLine).
edit_insert(c) ==
  /\ reading /\ Len(cooked) < MaxLine /\ from + Len(cooked) + 1 < RowColumns
  /\ break_browse
  /\ cooked' = InsertAt(cooked, at + 1, c) /\ at' = at + 1
  /\ upto' = IF valid THEN Widest(upto + 1, column + 1) ELSE upto + 1
  /\ IF ~valid THEN UNCHANGED <<terminal, column>>
     ELSE /\ column' = column + 1
          /\ terminal' = IF at = Len(cooked) THEN Put(terminal, <<c>>)
                         ELSE ToColumn(Put(Put(terminal, <<c>>), Suffix(cooked', at')), column + 1)
  /\ draft' = cooked'
  /\ EditFrame

\* Backspace and Delete at an end of the line only stop the browsing.
NothingToErase(empty) ==
  /\ reading /\ empty /\ break_browse
  /\ draft' = cooked
  /\ UNCHANGED <<cooked, at, upto, terminal, column>> /\ EditFrame

edit_backspace ==
  \/ NothingToErase(at = 0)
  \/ /\ reading /\ at > 0 /\ break_browse
     /\ cooked' = RemoveAt(cooked, at) /\ at' = at - 1
     /\ retract_bounds
     /\ IF ~valid THEN UNCHANGED <<terminal, column>>
        ELSE LET t == DeleteChar(Left(terminal)) IN
             /\ column' = IF column > from THEN column - 1 ELSE column
             /\ terminal' = IF at = Len(cooked) THEN t
                            ELSE ToColumn(Put(t, Suffix(cooked', at')), column')
     /\ draft' = cooked'
     /\ EditFrame

edit_delete ==
  \/ NothingToErase(at = Len(cooked))
  \/ /\ reading /\ at < Len(cooked) /\ break_browse
     /\ cooked' = RemoveAt(cooked, at + 1)
     /\ retract_bounds
     /\ terminal' = DeleteChar(terminal)
     /\ draft' = cooked'
     /\ UNCHANGED <<at, column>> /\ EditFrame

\* edit_move_left, edit_move_right, edit_home, edit_end: the position, and the terminal's
\* cursor with it (edit_end goes to the column where the input ends).
MoveTo(pos, col) ==
  /\ reading /\ at' = pos
  /\ IF valid THEN terminal' = ToColumn(terminal, col) /\ column' = col
              ELSE UNCHANGED <<terminal, column>>
  /\ UNCHANGED <<cooked, upto, browse, saved, draft>> /\ EditFrame

edit_move_left  == at > 0 /\ MoveTo(at - 1, column_for_offset(at - 1))
edit_move_right == at < Len(cooked) /\ MoveTo(at + 1, column_for_offset(at + 1))
edit_home       == MoveTo(0, from)
edit_end        == MoveTo(Len(cooked), upto)

-----------------------------------------------------------------------------
(* Reads and output                                                        *)

\* A ReadConsole starts behind a prompt: handle_console_read clears the line and the
\* browsing, and leaves the bounds where the last output put them.
Begin ==
  /\ clean /\ ~reading /\ reading' = TRUE
  /\ cooked' = <<>> /\ at' = 0 /\ draft' = <<>>
  /\ reset_browse
  /\ UNCHANGED <<from, upto, column, valid, commands, capacity, terminal, clean>>

\* edit_submit_line or a line end in the bytes: CR LF to the terminal, the line with its
\* alias expanded into the history, the editor cleared (complete_pending).
Submit ==
  /\ reading /\ reading' = FALSE
  /\ Len(expand_alias(cooked)) <= MaxLine
  /\ commands' = Pushed(expand_alias(cooked))
  /\ IF valid THEN terminal' = NewRow(0) /\ column' = 0 ELSE UNCHANGED <<terminal, column>>
  /\ cooked' = <<>> /\ at' = 0 /\ draft' = <<>> /\ clean' = FALSE
  /\ reset_browse
  /\ UNCHANGED <<from, upto, valid, capacity>>

\* Ctrl+C: the line is dropped and not remembered.
Abort ==
  /\ reading /\ reading' = FALSE
  /\ cooked' = <<>> /\ at' = 0 /\ draft' = <<>> /\ clean' = FALSE
  /\ reset_browse
  /\ UNCHANGED <<from, upto, column, valid, commands, capacity, terminal>>

\* Output on a row of its own that ends in column x: sync_cursor_after_write, or
\* mark_terminal_cursor_lost when it leaves the cursor unknown.
Output ==
  /\ \E x \in Prompts, known \in BOOLEAN :
       /\ terminal' = NewRow(x) /\ from' = x /\ upto' = x
       /\ valid' = known
       /\ column' = IF known THEN x ELSE column
  /\ clean' = ~reading
  /\ UNCHANGED <<reading, cooked, at, commands, capacity, browse, saved, draft>>

-----------------------------------------------------------------------------
(* Calls about the history                                                 *)

api_set_history_capacity ==
  /\ capacity' \in Capacities
  /\ commands' = Newest(commands, capacity')
  /\ IF browse > Len(commands') THEN reset_browse /\ draft' = cooked
                                ELSE UNCHANGED <<browse, saved, draft>>
  /\ UNCHANGED <<reading, cooked, at, from, upto, column, valid, terminal, clean>>

api_clear_history ==
  /\ commands' = <<>> /\ reset_browse
  /\ draft' = cooked
  /\ UNCHANGED <<reading, cooked, at, from, upto, column, valid, capacity, terminal, clean>>

EditorNext ==
  \/ \E c \in Chars : edit_insert(c)
  \/ edit_backspace \/ edit_delete \/ edit_move_left \/ edit_move_right \/ edit_home \/ edit_end
  \/ history_up \/ history_down
  \/ Begin \/ Submit \/ Abort \/ Output
  \/ api_set_history_capacity \/ api_clear_history

EditorSpec == EditorInit /\ [][EditorNext]_editor_vars

-----------------------------------------------------------------------------
(* Properties                                                              *)

\* While the bridge knows the terminal's cursor, the row shows the line behind the
\* prompt and the cursor stands at the edit position, whatever was inserted, erased,
\* recalled or moved over (edit_*, repaint_full_line, terminal_cursor_state).
LineShown ==
  reading /\ valid /\ clean =>
    /\ \A k \in 1..Len(cooked) : terminal.row[from + k - 1] = cooked[k]
    /\ \A c \in (from + Len(cooked))..(RowColumns - 1) : terminal.row[c] = " "
    /\ terminal.x = column /\ column = from + at /\ upto = from + Len(cooked)

\* Browsing gives the line back: outside the history the line is the one the user left,
\* however far up and down he went; the browse index always names a command, also when a
\* client trims the history meanwhile, which never holds more than its capacity or a command
\* twice in a row (browse_up, browse_down, break_browse, trim_to_capacity).
DraftKept ==
  /\ reading /\ browse = NoSelection => cooked = draft
  /\ browse \in 0..Len(commands) /\ Len(commands) <= capacity
  /\ \A i \in 2..Len(commands) : commands[i] # commands[i - 1]
=============================================================================
