------------------------------ MODULE Settings ------------------------------
(***************************************************************************)
(* What clients set and read of the console itself: the way of a           *)
(* USER_DEFINED request through the router, and the calls that are         *)
(* answered from console_state: modes, code pages, cursor shape, titles,   *)
(* font, display mode, history size.  Text, input, screen, alias and       *)
(* process calls have modules of their own.                                *)
(***************************************************************************)
EXTENDS Naturals, Sequences, FiniteSets, SequencesExt

CONSTANTS CodePages,     \* the valid ones
          EastAsian,     \* those of them with a language of their own
          AnsiPage,      \* GetACP()
          OemPage,       \* GetOEMCP()
          InputModes,    \* that a client may ask for: sets of flags
          Lengths,       \* history sizes that a client may ask for
          ShrtMax,       \* SHRT_MAX
          WindowTitles,  \* sequences of "t" and of "e", a character of two UTF-16 units
          TitleRooms,    \* sizes of a reader's buffer, in bytes
          MaxChanges     \* bound: calls that set something

SettingsAssumption ==
  /\ EastAsian \subseteq CodePages /\ {AnsiPage, OemPage} \subseteq CodePages
  /\ InputModes \subseteq SUBSET {"line", "echo", "insert", "undefined"}
  /\ Lengths \subseteq Nat /\ ShrtMax \in Nat
  /\ WindowTitles \subseteq Seq({"t", "e"}) /\ TitleRooms \subseteq Nat /\ MaxChanges \in Nat

VARIABLES
  state,     \* console_state
  history_capacity, \* of the command history
  told,      \* history: by setting, what clients were last told or may count on
  answered,  \* history: what the latest call answered
  changes    \* calls that set something so far

settings_vars == <<state, history_capacity, told, answered, changes>>

One(setting, value) == [s \in {setting} |-> value]
Ok(setting, value) == [status |-> "ok", reads |-> One(setting, value)]
Done == [status |-> "ok", reads |-> <<>>]
Failed(status) == [status |-> status, reads |-> <<>>]
----------------------------------------------------------------------------
(* api_router.  Calls that take the same way and keep no state here stand  *)
(* for one another: "ReadInput" for the three calls that read input.       *)

Layer1 == {"GetCP", "GetMode", "SetMode", "ReadInput", "GetLangId", "MapBitmap"}
Layer2 == {"SetActive", "SetCP", "GetCursor", "SetCursor", "GetTitle", "SetTitle"}
Layer3 ==
  {"FontSize", "CurrentFont", "SetFont", "SetDisplayMode", "GetDisplayMode",
   "SetNumberOfCommands", "GetHistoryInfo", "SetHistoryInfo", "Icon", "Palette"}
Unknown == "an API number of no layer"

HasDescriptor(call) == call \in Layer1 \cup Layer2 \cup Layer3

\* What is not known to be an output is an input.
IsInput(object) == object \notin {"output", "alternate_output"}

dispatch_L1(call, object) ==
  CASE call = "ReadInput" /\ ~IsInput(object) -> "invalid_handle"
    [] call = "MapBitmap" -> "not_implemented"
    [] OTHER -> "handler"
dispatch_L2(call, object) ==
  IF call = "SetActive" /\ object \notin {"output", "alternate_output"} THEN "invalid_parameter"
  ELSE "handler"
dispatch_L3(call) == IF call \in {"Icon", "Palette"} THEN "not_implemented" ELSE "handler"

\* descriptor: the request holds as much as the call needs.
handle_user_defined(call, object, descriptor) ==
  IF ~HasDescriptor(call) \/ ~descriptor THEN "illegal_function"
  ELSE IF call \in Layer1 THEN dispatch_L1(call, object)
  ELSE IF call \in Layer2 THEN dispatch_L2(call, object)
  ELSE dispatch_L3(call)

\* A request that reaches no handler.
Refused ==
  \E call \in Layer1 \cup Layer2 \cup Layer3 \cup {Unknown}, descriptor \in BOOLEAN,
     object \in {"input", "output", "unknown"} :
    LET status == handle_user_defined(call, object, descriptor)
    IN /\ status # "handler" /\ answered' = Failed(status)
       /\ UNCHANGED <<state, history_capacity, told, changes>>
----------------------------------------------------------------------------
Answers(setting, value) ==
  /\ answered' = Ok(setting, value)
  /\ UNCHANGED <<state, history_capacity, told, changes>>

\* A call that was refused, or that set some settings to what was asked.
Fails ==
  /\ answered' = Failed("invalid_parameter")
  /\ UNCHANGED <<state, history_capacity, told, changes>>
Sets(asked, new) ==
  /\ changes < MaxChanges /\ changes' = changes + 1
  /\ state' = new
  /\ told' = [s \in DOMAIN told |-> IF s \in DOMAIN asked THEN asked[s] ELSE told[s]]

private_input_modes == {"insert"}
OutputModes == {{}, {"vt"}}

\* An invalid combination is refused, but it is stored before: line editors
\* count on it.
api_set_input_mode ==
  \E mode \in InputModes :
    /\ Sets([input_mode |-> mode \ {"insert"}],
            [state EXCEPT !.input_mode = mode \ private_input_modes])
    /\ answered' = IF "undefined" \in mode \/ ("echo" \in mode /\ "line" \notin mode)
                 THEN Failed("invalid_parameter") ELSE Done
    /\ UNCHANGED history_capacity

api_set_output_mode ==
  \E mode \in OutputModes \cup {{"undefined"}} :
    IF "undefined" \in mode THEN Fails
    ELSE /\ Sets([output_mode |-> mode], [state EXCEPT !.output_mode = mode])
         /\ answered' = Done /\ UNCHANGED history_capacity

\* Through a handle of an unknown object, the input mode as well.
api_get_mode ==
  \E object \in {"input", "output", "alternate_output", "unknown"} :
    IF IsInput(object) THEN Answers("input_mode", state.input_mode)
    ELSE Answers("output_mode", state.output_mode)

Page(output) == IF output THEN "output_code_page" ELSE "input_code_page"

api_set_cp ==
  \E output \in BOOLEAN, page \in CodePages \cup {"invalid"} :
    IF page = "invalid" THEN Fails
    ELSE /\ Sets(One(Page(output), page), [state EXCEPT ![Page(output)] = page])
         /\ answered' = Done /\ UNCHANGED history_capacity

api_get_cp == \E output \in BOOLEAN : Answers(Page(output), state[Page(output)])

Language(page) == IF page \in EastAsian THEN page ELSE "english"

\* Only a machine whose own code page is East Asian tells.
api_get_langid ==
  IF AnsiPage \notin EastAsian
  THEN answered' = Failed("not_supported") /\ UNCHANGED <<state, history_capacity, told, changes>>
  ELSE Answers("language", Language(state.output_code_page))
----------------------------------------------------------------------------
(* Cursor, titles.  A program's own sequences change them as well.         *)

CursorSizes == {0, 100, 101}

SetCursorInfo ==
  \E size \in CursorSizes, visible \in BOOLEAN :
    IF size = 0 \/ size > 100 THEN Fails
    ELSE LET cursor == [size |-> size, visible |-> visible]
         IN /\ Sets([cursor |-> cursor], [state EXCEPT !.cursor = cursor])
            /\ answered' = Done /\ UNCHANGED history_capacity

api_get_cursor == Answers("cursor", state.cursor)

\* The first title, and one that is set while there is none, is the
\* original title too.
Retitled(title) ==
  [state EXCEPT !.title = title, !.original_title = IF state.title = <<>> THEN title ELSE @]

SetTitle ==
  \E title \in WindowTitles :
    /\ Sets(IF told.title = <<>> THEN [title |-> title, original_title |-> title]
            ELSE [title |-> title], Retitled(title))
    /\ answered' = Done /\ UNCHANGED history_capacity

ProgramSets ==
  /\ "vt" \in state.output_mode /\ UNCHANGED history_capacity /\ answered' = Done
  /\ \/ \E title \in WindowTitles :
          Sets([title |-> title], [state EXCEPT !.title = title])
     \/ \E visible \in BOOLEAN :
          Sets([cursor |-> [told.cursor EXCEPT !.visible = visible]],
               [state EXCEPT !.cursor.visible = visible])

\* Sizes of a text: in UTF-16 units, and encoded.
Pairs(text) == {i \in DOMAIN text : text[i] = "e"}
WideUnits(text) == Len(text) + Cardinality(Pairs(text))
EncodedBytes(text, page) ==
  Len(text) + (IF page = "utf8" THEN 3 ELSE 1) * Cardinality(Pairs(text))

Prefix(text, units) ==
  LET fits == {n \in 0..Len(text) : WideUnits(SubSeq(text, 1, n)) <= units}
  IN SubSeq(text, 1, CHOOSE n \in fits : \A k \in fits : k <= n)

\* As much as there is room for with the length of it all, or, encoded,
\* all or nothing.
api_get_title ==
  \E of \in {"title", "original_title"}, unicode \in BOOLEAN, room \in TitleRooms :
    LET text == state[of]
        encoded == EncodedBytes(text, state.input_code_page)
        copied == IF unicode THEN Prefix(text, room \div 2)
                  ELSE IF room >= encoded THEN text ELSE <<>>
        length == IF unicode THEN 2 * WideUnits(text)
                  ELSE IF room >= encoded THEN encoded ELSE 0
        used == IF unicode THEN 2 * WideUnits(copied)
                ELSE EncodedBytes(copied, state.input_code_page)
    IN Answers("a title", [of |-> of, text |-> copied, length |-> length, used |-> used,
                           room |-> room])
----------------------------------------------------------------------------
(* Font, display mode, history.                                            *)

Fonts == {[index |-> 0, size |-> 16], [index |-> 1, size |-> 12]}

\* Only index 0 has a size, that of the font in use, whatever its index.
api_l3_get_font_size ==
  \E index \in {0, 1} : IF index # 0 THEN Fails ELSE Answers("font_size", state.font.size)

api_l3_get_current_font == Answers("font", state.font)

api_l3_set_current_font ==
  \E font \in Fonts :
    /\ Sets([font |-> font, font_size |-> font.size], [state EXCEPT !.font = font])
    /\ answered' = Done /\ UNCHANGED history_capacity

DisplayFlags == SUBSET {"fullscreen", "windowed"}

api_l3_set_display_mode ==
  \E flags \in DisplayFlags :
    IF flags = {} THEN Fails
    ELSE LET mode == IF "fullscreen" \in flags THEN "fullscreen" ELSE "windowed"
         IN /\ Sets([display_mode |-> mode], [state EXCEPT !.display_mode = mode])
            /\ answered' = Done /\ UNCHANGED history_capacity

api_l3_get_display_mode == Answers("display_mode", state.display_mode)

\* A mutant of the next: the size is kept, the history is not resized.
BugCapacityKept(commands) == UNCHANGED history_capacity

resize_history(commands) == history_capacity' = commands

api_l3_set_num_commands ==
  \E commands \in Lengths :
    /\ Sets([history |-> [told.history EXCEPT !.size = commands]],
            [state EXCEPT !.history.size = commands])
    /\ resize_history(commands)
    /\ answered' = Done

api_l3_set_history_info ==
  \E history \in [size : Lengths, no_dup : BOOLEAN] :
    IF history.size > ShrtMax THEN Fails
    ELSE /\ Sets([history |-> history], [state EXCEPT !.history = history])
         /\ resize_history(history.size)
         /\ answered' = Done

api_l3_get_history_info == Answers("history", state.history)

Defaults ==
  [input_mode |-> {"line", "echo"}, output_mode |-> {}, input_code_page |-> AnsiPage,
   output_code_page |-> OemPage, cursor |-> [size |-> 25, visible |-> TRUE],
   title |-> <<>>, original_title |-> <<>>, font |-> [index |-> 0, size |-> 12],
   display_mode |-> "windowed", history |-> [size |-> 50, no_dup |-> FALSE]]

SettingsInit ==
  /\ state = Defaults /\ history_capacity = state.history.size
  /\ told = [s \in DOMAIN state \cup {"font_size"} |->
              IF s = "font_size" THEN state.font.size ELSE state[s]]
  /\ answered = Done /\ changes = 0

SettingsNext ==
  \/ Refused \/ api_set_input_mode \/ api_set_output_mode \/ api_get_mode
  \/ api_set_cp \/ api_get_cp \/ api_get_langid
  \/ SetCursorInfo \/ api_get_cursor \/ SetTitle \/ ProgramSets \/ api_get_title
  \/ api_l3_get_font_size \/ api_l3_get_current_font \/ api_l3_set_current_font
  \/ api_l3_set_display_mode \/ api_l3_get_display_mode
  \/ api_l3_set_num_commands \/ api_l3_set_history_info \/ api_l3_get_history_info

SettingsSpec == SettingsInit /\ [][SettingsNext]_settings_vars
----------------------------------------------------------------------------
\* What a client reads is what was last set, by whichever call, handle or
\* sequence set it, and a call that failed set nothing (but an input mode);
\* a title fills no more than its reader's buffer and is whole when its
\* length says that it fits; the history keeps as many commands as clients
\* are told.
ReadsBack ==
  /\ \A setting \in DOMAIN answered.reads \cap DOMAIN told :
       answered.reads[setting] = told[setting]
  /\ "language" \in DOMAIN answered.reads =>
       answered.reads.language = Language(told.output_code_page)
  /\ "a title" \in DOMAIN answered.reads =>
       LET title == answered.reads["a title"]
       IN /\ title.used <= title.room /\ IsPrefix(title.text, told[title.of])
          /\ title.length \in 1..title.room => title.text = told[title.of]
  /\ history_capacity = told.history.size
=============================================================================
