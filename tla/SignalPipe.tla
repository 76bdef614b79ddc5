---------------------------- MODULE SignalPipe ----------------------------
(***************************************************************************)
(* The two signal pipes, byte by byte.  The terminal side of a             *)
(* pseudoconsole (libconpty) writes PtySignals, each by one WriteFile; the *)
(* session reads id and payload of each and leaves the newest resize and   *)
(* clear to the bridge.  A terminal that took a console over writes        *)
(* control messages, which defterm passes on to the system.                *)
(***************************************************************************)
EXTENDS Naturals, Sequences

CONSTANTS Coordinates,   \* of a ResizeWindow: one number for rows and columns, 0 for an empty size
          Windows,       \* for SetParent
          Extras,        \* bytes a control message has behind the fields read
          MaxSignals     \* messages written in a behaviour

SignalPipeAssumption == /\ \A s \in Coordinates \cup Extras : s \in Nat
                        /\ MaxSignals \in Nat

NoValue == "none"
NoResize == 0

VARIABLES
  messages_written,      \* history: written in either pipe
  hSignal,               \* the terminal's handle of the pipe is open
  signal_pipe,           \* bytes: [m, i] is the i-th byte of message m
  polling, _resize, _clear, parent,      \* pty_signal_reader; parent of the pseudo window
  asked_resize, asked_clear, asked_parent, \* history: the newest of each not yet taken
  reader,                \* "running", "closed" or, after an exception, "failed"
  control_pipe, control_calls, \* control messages: pipe, passed on
  control_sent,          \* history: those written that are to be passed on
  forwarder

pty_vars == <<hSignal, signal_pipe, polling, _resize, _clear, parent, asked_resize,
              asked_clear, asked_parent, reader>>
control_vars == <<control_pipe, control_sent, control_calls, forwarder>>
signal_vars == <<messages_written, pty_vars, control_vars>>

SignalInit ==
  /\ messages_written = 0 /\ hSignal = TRUE /\ signal_pipe = <<>>
  /\ polling = FALSE /\ _resize = NoResize /\ _clear = NoValue /\ parent = NoValue
  /\ asked_resize = NoResize /\ asked_clear = NoValue /\ asked_parent = NoValue
  /\ reader = "running"
  /\ control_pipe = <<>> /\ control_sent = <<>> /\ control_calls = <<>> /\ forwarder = "running"

MessageBytes(m, n) == [i \in 1..n |-> [m |-> m, i |-> i]]
Drop(pipe, n) == SubSeq(pipe, n + 1, Len(pipe))
\* A reader that begins in the middle of a message takes its bytes for an id.
AtStart(pipe) == Head(pipe).i = 1

-----------------------------------------------------------------------------
(* libconpty: every call is one write                                      *)

Write(m, n) ==
  /\ hSignal /\ messages_written < MaxSignals /\ messages_written' = messages_written + 1
  /\ signal_pipe' = signal_pipe \o MessageBytes(m, n)
  /\ UNCHANGED <<hSignal, polling, _resize, _clear, parent, reader, control_vars>>

ConptyResizePseudoConsole ==
  \E s \in Coordinates :
    /\ Write([id |-> "ResizeWindow", v |-> s], 6)
    /\ asked_resize' = IF s > 0 THEN s ELSE asked_resize
    /\ UNCHANGED <<asked_clear, asked_parent>>

ConptyClearPseudoConsole ==
  \E keep_cursor_row \in {"row", "all"} :
    /\ Write([id |-> "ClearBuffer", v |-> keep_cursor_row], 4)
    /\ asked_clear' = keep_cursor_row
    /\ UNCHANGED <<asked_resize, asked_parent>>

ConptyShowHidePseudoConsole ==
  /\ Write([id |-> "ShowHideWindow", v |-> NoValue], 4)
  /\ UNCHANGED <<asked_resize, asked_clear, asked_parent>>

\* The window always goes as 8 bytes.
ConptyReparentPseudoConsole ==
  \E w \in Windows :
    /\ Write([id |-> "SetParent", v |-> w], 10)
    /\ asked_parent' = w
    /\ UNCHANGED <<asked_resize, asked_clear>>

ConptyClosePseudoConsole ==
  /\ hSignal /\ hSignal' = FALSE
  /\ UNCHANGED <<messages_written, signal_pipe, polling, _resize, _clear, parent, asked_resize,
                 asked_clear, asked_parent, reader, control_vars>>

-----------------------------------------------------------------------------
(* pty_signal_reader                                                       *)

\* Mutant: the window handle of a 32-bit terminal.
BugHandleOf4Bytes(id) ==
  CASE id \in {"ShowHideWindow", "ClearBuffer"} -> 2
    [] id \in {"SetParent", "ResizeWindow"}     -> 4

payload_size_for(id) ==
  CASE id \in {"ShowHideWindow", "ClearBuffer"} -> 2
    [] id = "SetParent"                         -> 8
    [] id = "ResizeWindow"                      -> 4

handle_message(m) ==
  /\ _clear'  = IF m.id = "ClearBuffer" THEN m.v ELSE _clear
  /\ parent'  = IF m.id = "SetParent" THEN m.v ELSE parent
  /\ _resize' = IF m.id = "ResizeWindow" /\ m.v > 0 THEN m.v ELSE _resize

PollBegins ==
  /\ ~polling /\ reader = "running" /\ polling' = TRUE
  /\ UNCHANGED <<messages_written, hSignal, signal_pipe, _resize, _clear, parent, asked_resize,
                 asked_clear, asked_parent, reader, control_vars>>

\* One turn of poll: id and payload of a message.
PollMessage ==
  /\ polling /\ signal_pipe # <<>>
  /\ LET m == Head(signal_pipe).m
         n == 2 + payload_size_for(m.id)
     IN IF AtStart(signal_pipe) /\ Len(signal_pipe) >= n
        THEN /\ handle_message(m) /\ signal_pipe' = Drop(signal_pipe, n)
             /\ UNCHANGED <<polling, reader>>
        ELSE /\ reader' = "failed" /\ polling' = FALSE
             /\ UNCHANGED <<signal_pipe, _resize, _clear, parent>>
  /\ UNCHANGED <<messages_written, hSignal, asked_resize, asked_clear, asked_parent, control_vars>>

\* poll_signal_closed: the pipe is empty, or closed; the bridge takes resize and clear.
PollEnds ==
  /\ polling /\ signal_pipe = <<>>
  /\ polling' = FALSE /\ reader' = IF hSignal THEN reader ELSE "closed"
  /\ _resize' = NoResize /\ _clear' = NoValue /\ asked_resize' = NoResize /\ asked_clear' = NoValue
  /\ UNCHANGED <<messages_written, hSignal, signal_pipe, parent, asked_parent, control_vars>>

-----------------------------------------------------------------------------
(* console_control_forwarder                                               *)

min_payload_for(code) ==
  CASE code = "NotifyConsoleApplication" -> 8
    [] code = "SetForeground"            -> 12
    [] code = "EndTask"                  -> 16

\* external: the terminal writes code and data; the size counts itself.  nth: history, how many
\* messages to pass on were written with it.
SendControl ==
  \E code \in {"NotifyConsoleApplication", "SetForeground", "EndTask"}, x \in Extras :
    LET passed == code # "SetForeground"
        m == [code |-> code, dw_size |-> min_payload_for(code) + x,
              nth |-> IF passed THEN Len(control_sent) + 1 ELSE Len(control_sent)] IN
    /\ messages_written < MaxSignals /\ messages_written' = messages_written + 1
    /\ control_pipe' = control_pipe \o MessageBytes(m, 1 + m.dw_size)
    /\ control_sent' = IF passed THEN Append(control_sent, m) ELSE control_sent
    /\ UNCHANGED <<control_calls, forwarder, pty_vars>>

\* Code, size, body, and whatever is behind it; SetForeground is not passed on.
Forward ==
  /\ forwarder = "running" /\ control_pipe # <<>>
  /\ LET m == Head(control_pipe).m
         body_len == min_payload_for(m.code) - 4
         extra == m.dw_size - min_payload_for(m.code)
         n == 1 + 4 + body_len + extra
     IN IF AtStart(control_pipe) /\ Len(control_pipe) >= n
        THEN /\ control_pipe' = Drop(control_pipe, n)
             /\ control_calls' = IF m.code = "SetForeground" THEN control_calls
                                 ELSE Append(control_calls, m)
             /\ UNCHANGED forwarder
        ELSE forwarder' = "failed" /\ UNCHANGED <<control_pipe, control_calls>>
  /\ UNCHANGED <<messages_written, control_sent, pty_vars>>

SignalNext ==
  \/ ConptyResizePseudoConsole \/ ConptyClearPseudoConsole \/ ConptyShowHidePseudoConsole
  \/ ConptyReparentPseudoConsole \/ ConptyClosePseudoConsole
  \/ PollBegins \/ PollMessage \/ PollEnds \/ SendControl \/ Forward

SignalSpec == SignalInit /\ [][SignalNext]_signal_vars

-----------------------------------------------------------------------------
(* Properties                                                              *)

\* Reader and writer stay in step whatever messages follow each other: when a poll has emptied
\* the pipe, the newest resize and clear since the last poll and the newest parent have
\* arrived, a resize to nothing changes none of it, and control messages are passed on once
\* and in order (pty_signal_reader::poll, console_control_forwarder::poll).
SignalsInStep ==
  /\ reader # "failed" /\ forwarder # "failed"
  /\ signal_pipe = <<>> => /\ _resize = asked_resize /\ _clear = asked_clear
                           /\ parent = asked_parent
  /\ control_pipe = <<>> => control_calls = control_sent
=============================================================================
