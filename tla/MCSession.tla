----------------------------- MODULE MCSession -----------------------------
(***************************************************************************)
(* The parts of a session that share no state in the models, checked in    *)
(* one run: a behaviour exercises the part that `focus' names, the others  *)
(* stay as they started.  The definitions up to VARIABLES are the values   *)
(* of the parts' constants.                                                *)
(***************************************************************************)
EXTENDS TerminalState, Handoff, Objects, Screens, LineEditor, Aliases, Settings, Launch,
        SignalPipe, VtParser, InputRecords

\* LineEditor
Echo == [w \in {<<"x">>} |-> <<"y">>]

\* Objects
FourHandles == 11..14

\* ScreenRow
Narrow == {"a"}
Wide == {"W"}
Attrs == {7, 1}
Widths == {2, 3}

\* ScreenModel
Width == 2
ScreenHeight == 3
FillChars == {0, 9}
MaxCalls == 2
Texts == {<<7>>, <<7, 8, 7>>}

\* VtParser
KeyAlphabet == {"a", "ESC", "BEL", "^_", "[", "(", "]", "?", ";", "0", "1", "R", "I", "Z", "h", "m"}

\* Aliases
LowerCase(name) == IF name = "LS" THEN "ls" ELSE name
SortedKeys == <<"cmd", "ls", "pwsh">>
NameUnits(name) == IF name = "cmd" THEN 2 ELSE 1
NameBytes(name) == IF name \in {"cmd", "wide"} THEN 2 ELSE 1

\* Launch
LaunchSizes == {-1, 2, 3}
Piece(t, n) == [t |-> t, n |-> n]
ProgramLines ==
  {<<>>, <<Piece("cmd", 0)>>, <<Piece("cmd", 0), Piece("--headless", 0)>>,
   <<Piece("0x", 4), Piece("cmd", 0)>>, <<Piece("-Embedding", 0), Piece("--", 0)>>,
   <<Piece("--", 0), Piece("cmd", 0)>>}

\* TextCodec
Kinds == {"ascii", "two", "three", "four"}
MaxText == 2
Rooms == {0, 1, 3, 4, 7}

\* TerminalState
Colours(f, b) == [fg |-> f, bg |-> b]
TwoAttributes == {Colours(7, 0), Colours(4, 1)}
FourSgrSequences ==
  {Sgr("none", Default, 4), Sgr("first", 1, Keep), Sgr("last", 1, Keep),
   Sgr("none", Extended, Keep)}
ShortTitles == {<<>>, <<"t">>}

\* InputRecords
ReaderSizes == {0, 2}

\* Settings
AskedModes == {{"line", "echo", "insert"}, {"echo"}, {"line", "undefined"}}
ThreeTitles == {<<>>, <<"t">>, <<"t", "e">>}

VARIABLES
  focus,
  row, cells,
  m, t, calls, strayed,
  code_page, replay, stream, sent, split, _utf8_tail, model_text, to_terminal_text,
  _raw_output_mid_sequence, _cooked_buf, answer

row_vars == <<row, cells>>
screen_vars == <<m, t, calls, strayed>>
text_vars == <<code_page, replay, stream, sent, split, _utf8_tail, model_text,
  to_terminal_text, _raw_output_mid_sequence, _cooked_buf, answer>>

Row == INSTANCE ScreenRow
Screen == INSTANCE ScreenModel WITH Height <- ScreenHeight
Codec == INSTANCE TextCodec

ASSUME /\ Row!ScreenRowAssumption /\ Screen!ScreenModelAssumption
       /\ HandoffAssumption /\ ObjectsAssumption
       /\ SignalPipeAssumption /\ LaunchAssumption
       /\ Codec!TextCodecAssumption
       /\ InputRecordsAssumption /\ SettingsAssumption

Components ==
  {"editor", "processes", "objects", "row", "screen", "buffers", "keys", "names", "handoff",
   "signals", "launch", "text", "term", "titles", "input", "settings"}

vars == <<focus, editor_vars, objects_vars, row_vars, screen_vars, screens_vars,
          parser_vars, aliases_vars, handoff_vars, signal_vars, launch_vars, text_vars,
          terminal_vars, input_vars, settings_vars>>

\* A part without the focus starts in one of its initial states.
SessionInit ==
  /\ focus \in Components
  /\ EditorInit /\ (focus # "editor" => capacity = 1)
  /\ ObjectsInit /\ (focus \notin {"processes", "objects"} => NoClientYet)
  /\ Row!Init /\ (focus # "row" => DOMAIN cells = 0..1)
  /\ IF focus = "screen" THEN Screen!Init ELSE Screen!Start(0, 0, 1, 0)
  /\ IF focus = "buffers" THEN ScreensInit ELSE ScreensStart(1)
  /\ IF focus = "keys" THEN KeysInit ELSE KeysStart("output")
  /\ AliasesInit
  /\ IF focus = "handoff" THEN HandoffInit
     ELSE StartHandoff("p", {}, [k \in Candidates |-> "absent"], FALSE)
  /\ SignalInit
  /\ IF focus = "launch" THEN LaunchInit ELSE ComStarts
  /\ IF focus = "text" THEN Codec!Init ELSE Codec!Start("utf8", FALSE, <<>>, <<>>)
  /\ Init
  /\ InputInit
  /\ SettingsInit

\* What a step of part p leaves alone.
Others(p) ==
  /\ focus = p /\ UNCHANGED focus
  /\ p # "editor" => UNCHANGED editor_vars
  /\ p \notin {"processes", "objects"} => UNCHANGED objects_vars
  /\ p # "row" => UNCHANGED row_vars
  /\ p # "screen" => UNCHANGED screen_vars
  /\ p # "buffers" => UNCHANGED screens_vars
  /\ p # "keys" => UNCHANGED parser_vars
  /\ p # "names" => UNCHANGED aliases_vars
  /\ p # "handoff" => UNCHANGED handoff_vars
  /\ p # "signals" => UNCHANGED signal_vars
  /\ p # "launch" => UNCHANGED launch_vars
  /\ p # "text" => UNCHANGED text_vars
  /\ p \notin {"term", "titles"} => UNCHANGED terminal_vars
  /\ p # "input" => UNCHANGED input_vars
  /\ p # "settings" => UNCHANGED settings_vars

EditorStep == Others("editor") /\ EditorNext
\* Only the first CONNECT relates processes and objects: a behaviour has several processes
\* or objects.
ProcessesStep == Others("processes") /\ ObjectsNext /\ open_objects' = {}
ObjectsStep == Others("objects") /\ ObjectsNext /\ Cardinality(DOMAIN attached') < 2
                 /\ signalled' = {}
RowStep == Others("row") /\ Row!Next
ScreenStep == Others("screen") /\ Screen!Next
BuffersStep == Others("buffers") /\ ScreensNext
KeysStep == Others("keys") /\ KeysNext
NamesStep == Others("names") /\ AliasesNext
HandoffStep == Others("handoff") /\ HandoffNext
SignalsStep == Others("signals") /\ SignalNext
LaunchStep == Others("launch") /\ LaunchNext
TextStep == Others("text") /\ Codec!Next
\* No action relates titles and colours: a behaviour has one of them change.
TermStep == Others("term") /\ Next /\ session'.title = <<>> /\ "title" \notin apart'
TitleStep == Others("titles") /\ Next /\ session'.attributes = session.attributes
               /\ term'.pen = term.pen /\ term'.slot = term.slot
InputStep == Others("input") /\ InputNext
SettingsStep == Others("settings") /\ SettingsNext

SessionNext ==
  \/ EditorStep \/ ProcessesStep \/ ObjectsStep \/ RowStep \/ ScreenStep \/ BuffersStep
  \/ KeysStep \/ NamesStep \/ HandoffStep \/ SignalsStep \/ LaunchStep \/ TextStep
  \/ TermStep \/ TitleStep \/ InputStep \/ SettingsStep

SessionSpec == SessionInit /\ [][SessionNext]_vars

-----------------------------------------------------------------------------
(* The parts' properties.  Those of the parts that this module extends are *)
(* the modules' own; the others are stated and explained there, and a part *)
(* without the focus is in a state that it also starts from with it.       *)

\* The packed row holds what was written to its cells, and CHAR_INFOs read from it and
\* written back change nothing (ScreenRow).
RowKept == focus = "row" => Row!CellsKept /\ Row!RoundTrip
\* Model and terminal show the same text and have the same cursor (ScreenModel).
ScreenAgrees == focus = "screen" => Screen!ScreenAgrees
\* Characters stay whole across writes and reads (TextCodec).
CharactersWhole == focus = "text" => Codec!CharactersWhole
=============================================================================
