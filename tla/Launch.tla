------------------------------ MODULE Launch ------------------------------
(***************************************************************************)
(* How corehost is started: by libconpty with the options of a             *)
(* pseudoconsole, by Windows with the handle of a console, by COM, or by a *)
(* user with options and a command of his own; console_arguments reads the *)
(* command line token by token and wWinMain chooses what to run.           *)
(***************************************************************************)
EXTENDS Integers, Sequences, SequencesExt

CONSTANTS AskedSizes,       \* numbers for --width and --height, with ones that are refused
          HandleNumbers, \* of handles (positive)
          ClientCommands     \* command lines of a user, sequences of tokens

LaunchAssumption ==
  /\ AskedSizes \subseteq Int /\ \A h \in HandleNumbers : h \in Nat \ {0}
  /\ ClientCommands \subseteq Seq([t : STRING, n : Int])

VARIABLES
  started_by, asked_for,  \* history: who starts it, and with what
  options, command,       \* console_arguments: what has been set, _client_command_line
  tokens,                 \* what command_line_view has left
  parsing                 \* "parsing", "parsed", "refused" or "started"

launch_vars == <<started_by, asked_for, options, command, tokens, parsing>>

Word(t) == [t |-> t, n |-> 0]
Number(n) == [t |-> "number", n |-> n]
Handle(h) == [t |-> "0x", n |-> h]

Flags == {"--headless", "--vtmode", "--inheritcursor", "--ambiguousIsWide", "-Embedding",
          "-ForceV1", "-ForceNoHandoff"}
Known == Flags \cup {"0x", "--server", "--signal", "--width", "--height", "--textMeasurement",
                     "path", "--feature"}
Measures == {"graphemes", "wcswidth", "console"}
Unset == [o \in Known \ {"path", "--feature"} |-> IF o = "--textMeasurement" THEN "console" ELSE 0]

-----------------------------------------------------------------------------
(* Who starts it                                                           *)

When(cond, s) == IF cond THEN s ELSE <<>>

\* Mutant: the bits of the glyph width in another order.
BugGlyphWidth(bits) ==
  CASE bits = 8  -> <<Word("--textMeasurement"), Word("wcswidth")>>
    [] bits = 16 -> <<Word("--textMeasurement"), Word("graphemes")>>
    [] bits = 24 -> <<Word("--textMeasurement"), Word("console")>>
    [] OTHER     -> <<>>

GlyphWidth(bits) ==
  CASE bits = 8  -> <<Word("--textMeasurement"), Word("graphemes")>>
    [] bits = 16 -> <<Word("--textMeasurement"), Word("wcswidth")>>
    [] bits = 24 -> <<Word("--textMeasurement"), Word("console")>>
    [] OTHER     -> <<>>

BuildConhostCommandLine(a) ==
  <<Word("--headless")>> \o When(a.inherit, <<Word("--inheritcursor")>>)
    \o When(a.wide, <<Word("--ambiguousIsWide")>>) \o GlyphWidth(a.glyphs)
    \o <<Word("--width"), Number(a.width), Word("--height"), Number(a.height),
         Word("--signal"), Handle(a.signal), Word("--server"), Handle(a.server)>>

Start(by, what, line) ==
  /\ started_by = by /\ asked_for = what /\ tokens = line
  /\ options = Unset /\ command = <<>> /\ parsing = "parsing"

\* CreatePseudoConsoleImpl refuses a size of 0 only.
ConptyCreatePseudoConsole ==
  \E w, h \in AskedSizes \ {0}, sig, srv \in HandleNumbers, inh, wide \in BOOLEAN,
     g \in {0, 8, 16, 24} :
    LET a == [width |-> w, height |-> h, signal |-> sig, server |-> srv, inherit |-> inh,
              wide |-> wide, glyphs |-> g]
    IN sig # srv /\ Start("libconpty", a, BuildConhostCommandLine(a))

\* external: Windows starts the host of a new console, COM its server.
WindowsStarts ==
  \E h \in HandleNumbers, legacy \in BOOLEAN :
    Start("windows", h, <<Word("path"), Handle(h)>> \o When(legacy, <<Word("-ForceV1")>>))
ComStarts == Start("com", 0, <<Word("-Embedding")>>)

\* A user: options, then a command, which is his program's own.
UserStarts ==
  \E o \in {<<>>, <<Word("--vtmode")>>, <<Word("--width"), Number(2)>>,
            <<Word("--feature"), Word("pty")>>},
     c \in ClientCommands, dashes \in BOOLEAN :
    /\ c # <<>> /\ Head(c).t \in Known \cup {"--"} => dashes
    /\ Start("user", c, o \o When(dashes, <<Word("--")>>) \o c)

LaunchInit == ConptyCreatePseudoConsole \/ WindowsStarts \/ ComStarts \/ UserStarts

-----------------------------------------------------------------------------
(* console_arguments: one turn of its loop                                 *)

Token == Head(tokens)
Value == IF Len(tokens) > 1 THEN tokens[2] ELSE Word("nothing")
At(t) == parsing = "parsing" /\ tokens # <<>> /\ Token.t \in t

Set(o, v, n) ==
  /\ options' = [options EXCEPT ![o] = v] /\ tokens' = SubSeq(tokens, n + 1, Len(tokens))
  /\ UNCHANGED <<started_by, asked_for, command, parsing>>
Refuse == parsing' = "refused" /\ UNCHANGED <<started_by, asked_for, options, command, tokens>>

FlagOption == At(Flags) /\ Set(Token.t, 1, 1)

\* The bare handle of the console; a second one is refused, unless the first was 0.
CondrvHandle == At({"0x"}) /\ IF options["0x"] # 0 THEN Refuse ELSE Set("0x", Token.n, 1)

HandleOption ==
  /\ At({"--server", "--signal"})
  /\ IF options[Token.t] # 0 \/ Value.t # "0x" THEN Refuse ELSE Set(Token.t, Value.n, 2)

\* parse_size_value: a short that is not negative.
SizeValues == 0..32767
SizeOption ==
  /\ At({"--width", "--height"})
  /\ IF Value.t = "number" /\ Value.n \in SizeValues THEN Set(Token.t, Value.n, 2) ELSE Refuse

MeasurementOption ==
  /\ At({"--textMeasurement"})
  /\ IF Value.t \in Measures THEN Set("--textMeasurement", Value.t, 2) ELSE Refuse

\* Accepted and of no effect: the path Windows puts in front, --feature pty.
IgnoredOption ==
  /\ At({"path", "--feature"})
  /\ LET n == IF Token.t = "path" THEN 1 ELSE 2 IN
     IF n = 2 /\ Value.t # "pty" THEN Refuse
     ELSE /\ tokens' = SubSeq(tokens, n + 1, Len(tokens))
          /\ UNCHANGED <<started_by, asked_for, options, command, parsing>>

\* What is not an option begins the client's command, which is taken as it is.
ClientCommand ==
  /\ parsing = "parsing" /\ tokens # <<>> /\ Token.t \notin Known
  /\ command' = IF Token.t = "--" THEN Tail(tokens) ELSE tokens
  /\ parsing' = "parsed"
  /\ UNCHANGED <<started_by, asked_for, options, tokens>>

NoMoreTokens ==
  /\ parsing = "parsing" /\ tokens = <<>> /\ parsing' = "parsed"
  /\ UNCHANGED <<started_by, asked_for, options, command, tokens>>

LaunchNext == FlagOption \/ CondrvHandle \/ HandleOption \/ SizeOption \/ MeasurementOption
          \/ IgnoredOption \/ ClientCommand \/ NoMoreTokens

LaunchSpec == LaunchInit /\ [][LaunchNext]_launch_vars

\* wWinMain: COM server first, then a console's handle, then a headless session.
Runs ==
  IF options["-Embedding"] = 1 THEN "com_server_entry"
  ELSE IF options["0x"] # 0 THEN "defterm_entry"
  ELSE IF options["--headless"] = 1 THEN "conpty_entry"
  ELSE "client_entry"

-----------------------------------------------------------------------------
(* Properties                                                              *)

Measured(bits) == CASE bits = 8 -> "graphemes" [] bits = 16 -> "wcswidth" [] OTHER -> "console"

\* The host runs what its creator asked for, option by option, and a user's command reaches
\* the client untouched although it has words that are options too; a host is refused only
\* for a size that libconpty let through (BuildConhostCommandLine, console_arguments,
\* wWinMain).
LaunchedAsAsked ==
  LET a == asked_for IN
  /\ parsing = "refused" => started_by = "libconpty" /\ ~({a.width, a.height} \subseteq SizeValues)
  /\ parsing = "parsed" =>
       /\ started_by = "windows" => Runs = "defterm_entry" /\ options["0x"] = a
       /\ started_by = "com" => Runs = "com_server_entry"
       /\ started_by = "user" => Runs = "client_entry" /\ command = a
       /\ started_by = "libconpty" =>
              /\ Runs = "conpty_entry" /\ command = <<>>
              /\ options["--width"] = a.width /\ options["--height"] = a.height
              /\ options["--signal"] = a.signal /\ options["--server"] = a.server
              /\ a.inherit <=> options["--inheritcursor"] = 1
              /\ a.wide <=> options["--ambiguousIsWide"] = 1
              /\ options["--textMeasurement"] = Measured(a.glyphs)
=============================================================================
