----------------------------- MODULE IdleWaker -----------------------------
(***************************************************************************)
(* How terminal input and signals wake a loop that sleeps in READ_IO: the  *)
(* loop thread, the 10 ms ticker (idle_input_waker), the vt_in reader      *)
(* thread (pipe_bridge_io) and the order in which they are started and     *)
(* stopped (vt_input_reader_scope).                                        *)
(*                                                                         *)
(* A step is one critical section or one call into Windows.  CancelIoEx    *)
(* hits what the loop has in flight on the server handle, if anything.     *)
(* Only the ticker keeps _lock across steps of others: it asks the reader  *)
(* for its queue while it holds it.                                        *)
(***************************************************************************)
EXTENDS Naturals

CONSTANTS
  MaxBytes,     \* bound: bytes typed in a behaviour
  MaxMessages,  \* bound: requests the driver delivers in a behaviour
  MaxQueue      \* max_queued_bytes of the reader

ASSUME BoundsAssumption ==
  MaxBytes \in Nat /\ MaxMessages \in Nat /\ MaxQueue \in Nat \ {0}

VARIABLES
  pipe,      \* bytes in vt_in
  hungup,    \* the terminal closed vt_in
  signal,    \* a PtySignal message waits in its pipe
  typed, messages,   \* the counters the bounds are about
  loop,      \* where the loop thread is
  io,        \* what it has in flight on the server handle
  in_read,   \* idle_input_waker::_in_read
  use_reader,\* idle_input_waker::_reader
  lock,      \* the ticker holds _lock
  tick,      \* where the ticker is
  sampled,   \* what it saw on the signal pipe before it took _lock
  quit,      \* idle_input_waker::_stop is set
  reader,    \* where the reader thread is
  chunk,     \* bytes it has read and not stored yet
  queue,     \* reader_state::bytes from head on
  eof, stop, \* reader_state
  stray      \* a cancel hit something else than READ_IO (history)

ttyVars    == <<pipe, hungup, signal, typed>>
loopVars   == <<loop, messages>>
wakerVars  == <<in_read, use_reader>>
tickVars   == <<lock, tick, sampled, quit>>
readerVars == <<reader, chunk, queue, eof, stop>>
vars == <<ttyVars, loopVars, io, stray, wakerVars, tickVars, readerVars>>

-----------------------------------------------------------------------------
(* The terminal *)

Type ==
  /\ ~hungup /\ typed < MaxBytes /\ typed' = typed + 1 /\ pipe' = pipe + 1
  /\ UNCHANGED <<hungup, signal, loopVars, io, stray, wakerVars, tickVars, readerVars>>

HangUp ==
  /\ ~hungup /\ hungup' = TRUE
  /\ UNCHANGED <<pipe, signal, typed, loopVars, io, stray, wakerVars, tickVars, readerVars>>

SendSignal ==
  /\ ~signal /\ signal' = TRUE
  /\ UNCHANGED <<pipe, hungup, typed, loopVars, io, stray, wakerVars, tickVars, readerVars>>

-----------------------------------------------------------------------------
(* The loop thread *)

\* vt_input_reader_scope: the thread may fail to start; then ticks peek the pipe.
StartReader ==
  /\ loop = "start" /\ loop' = "started"
  /\ reader' \in {"none", "space"}
  /\ UNCHANGED <<messages, ttyVars, io, stray, wakerVars, tickVars, chunk, queue, eof, stop>>

UseReader ==
  /\ loop = "started" /\ ~lock /\ loop' = "idle"
  /\ use_reader' = (reader # "none")
  /\ UNCHANGED <<messages, ttyVars, io, stray, in_read, tickVars, readerVars>>

\* on_idle: signals first, then what peek_vt_input sees; at EOF the loop ends.
OnIdle ==
  /\ loop = "idle"
  /\ signal' = FALSE
  /\ IF reader = "none" THEN pipe' = 0 /\ UNCHANGED queue
                        ELSE queue' = 0 /\ UNCHANGED pipe
  /\ loop' = IF IF reader = "none" THEN pipe = 0 /\ hungup ELSE queue = 0 /\ eof
             THEN "leave" ELSE "ready"
  /\ UNCHANGED <<messages, hungup, typed, io, stray, wakerVars, tickVars,
                 reader, chunk, eof, stop>>

enter_read ==
  /\ loop = "ready" /\ ~lock /\ loop' = "entered" /\ in_read' = TRUE
  /\ UNCHANGED <<messages, ttyVars, io, stray, use_reader, tickVars, readerVars>>

StartReadIo ==
  /\ loop = "entered" /\ loop' = "reading" /\ io' = "READ_IO"
  /\ UNCHANGED <<messages, ttyVars, stray, wakerVars, tickVars, readerVars>>

\* The driver delivers a request, or reports that the last client is gone.
Message ==
  /\ loop = "reading" /\ io = "READ_IO" /\ messages < MaxMessages
  /\ messages' = messages + 1 /\ io' = "none"
  /\ loop' \in {"got_message", "disconnected"}
  /\ UNCHANGED <<ttyVars, stray, wakerVars, tickVars, readerVars>>

Cancelled ==
  /\ loop = "reading" /\ io = "cancelled" /\ io' = "none" /\ loop' = "no_message"
  /\ UNCHANGED <<messages, ttyVars, stray, wakerVars, tickVars, readerVars>>

BugFlagStays == TRUE
AfterRead == FALSE

leave_read ==
  /\ loop \in {"got_message", "no_message", "disconnected"} /\ ~lock
  /\ in_read' = AfterRead
  /\ loop' = CASE loop = "got_message" -> "serve"
               [] loop = "no_message" -> "idle"
               [] loop = "disconnected" -> "leave"
  /\ UNCHANGED <<messages, ttyVars, io, stray, use_reader, tickVars, readerVars>>

\* The request is answered by the next READ_IO, or by a COMPLETE_IO after which
\* the loop looks at the terminal.
Serve ==
  /\ loop = "serve"
  /\ \/ loop' = "ready" /\ UNCHANGED io
     \/ loop' = "completing" /\ io' = "COMPLETE_IO"
  /\ UNCHANGED <<messages, ttyVars, stray, wakerVars, tickVars, readerVars>>

Complete ==
  /\ loop = "completing" /\ loop' = "idle" /\ io' = "none"
  /\ UNCHANGED <<messages, ttyVars, stray, wakerVars, tickVars, readerVars>>

\* The destructors, in reverse order: the ticker forgets the reader, the reader
\* is stopped and freed, the ticker is stopped.
ForgetReader ==
  /\ loop = "leave"
  /\ IF reader = "none" THEN loop' = "stop_ticker" /\ UNCHANGED use_reader
     ELSE ~lock /\ use_reader' = FALSE /\ loop' = "stop_reader"
  /\ UNCHANGED <<messages, ttyVars, io, stray, in_read, tickVars, readerVars>>

StopReader ==
  /\ loop = "stop_reader" /\ loop' = "join_reader" /\ stop' = TRUE
  /\ UNCHANGED <<messages, ttyVars, io, stray, wakerVars, tickVars, reader, chunk, queue, eof>>

BugJoinWithoutCancel == FALSE

\* CancelSynchronousIo, again and again: it misses while the reader is not in
\* ReadFile.
CancelReader ==
  /\ loop = "join_reader" /\ reader = "reading" /\ reader' = "store"
  /\ UNCHANGED <<loopVars, ttyVars, io, stray, wakerVars, tickVars, chunk, queue, eof, stop>>

FreeReader ==
  /\ loop = "join_reader" /\ reader = "ended"
  /\ reader' = "freed" /\ loop' = "stop_ticker"
  /\ UNCHANGED <<messages, ttyVars, io, stray, wakerVars, tickVars, chunk, queue, eof, stop>>

StopTicker ==
  /\ loop = "stop_ticker" /\ loop' = "join_ticker" /\ quit' = TRUE
  /\ UNCHANGED <<messages, ttyVars, io, stray, wakerVars, lock, tick, sampled, readerVars>>

JoinTicker ==
  /\ loop = "join_ticker" /\ tick = "ended" /\ loop' = "stopped"
  /\ UNCHANGED <<messages, ttyVars, io, stray, wakerVars, tickVars, readerVars>>

-----------------------------------------------------------------------------
(* CancelIoEx on the server handle *)

Cancel ==
  /\ io' = IF io = "READ_IO" THEN "cancelled" ELSE io
  /\ stray' = (stray \/ io = "COMPLETE_IO")

NoCancel == UNCHANGED <<io, stray>>

-----------------------------------------------------------------------------
(* The reader thread *)

\* A full queue holds the reader back.
ReaderSpace ==
  /\ reader = "space"
  /\ \/ stop /\ reader' = "ended"
     \/ ~stop /\ queue < MaxQueue /\ reader' = "reading"
  /\ UNCHANGED <<ttyVars, loopVars, io, stray, wakerVars, tickVars, chunk, queue, eof, stop>>

BugBytesLeftInPipe == chunk' = pipe /\ UNCHANGED pipe
TakePipe == chunk' = pipe /\ pipe' = 0

\* ReadFile returns with all the bytes there are, or because the pipe closed.
ReaderReads ==
  /\ reader = "reading" /\ (pipe > 0 \/ hungup)
  /\ TakePipe /\ reader' = "store"
  /\ UNCHANGED <<hungup, signal, typed, loopVars, io, stray, wakerVars, tickVars,
                 queue, eof, stop>>

ReaderStores ==
  /\ reader = "store"
  /\ chunk' = 0
  /\ IF stop THEN reader' = "ended" /\ UNCHANGED <<queue, eof>>
     ELSE /\ queue' = queue + chunk /\ eof' = (chunk = 0)
          /\ reader' = "notify"
  /\ UNCHANGED <<ttyVars, loopVars, io, stray, wakerVars, tickVars, stop>>

BugNudgeAlways == Cancel
Nudged == IF in_read THEN Cancel ELSE NoCancel

\* notify: the reader's own wake-up.
nudge ==
  /\ reader = "notify" /\ ~lock
  /\ Nudged
  /\ reader' = IF eof THEN "ended" ELSE "space"
  /\ UNCHANGED <<ttyVars, loopVars, wakerVars, tickVars, chunk, queue, eof, stop>>

-----------------------------------------------------------------------------
(* The ticker *)

TickBegins ==
  /\ tick = "wait"
  /\ IF quit THEN tick' = "ended" /\ UNCHANGED sampled
     ELSE tick' = "sampled" /\ sampled' = signal
  /\ UNCHANGED <<ttyVars, loopVars, io, stray, wakerVars, lock, quit, readerVars>>

TickLocks ==
  /\ tick = "sampled" /\ ~lock
  /\ IF in_read THEN lock' = TRUE /\ tick' = "locked"
     ELSE tick' = "wait" /\ UNCHANGED lock
  /\ UNCHANGED <<ttyVars, loopVars, io, stray, wakerVars, sampled, quit, readerVars>>

\* input_waiting: the reader's queue, or the pipe when no reader owns it.
BugPeekPipeOnly == pipe > 0
input_waiting == IF use_reader THEN queue > 0 ELSE pipe > 0

BugInputOnly(seen) == input_waiting
Wakes(seen) == seen \/ input_waiting

TickActs ==
  /\ tick = "locked"
  /\ IF Wakes(sampled) THEN Cancel ELSE NoCancel
  /\ lock' = FALSE /\ tick' = "wait"
  /\ UNCHANGED <<ttyVars, loopVars, wakerVars, sampled, quit, readerVars>>

-----------------------------------------------------------------------------
(* Specification *)

Init ==
  /\ pipe = 0 /\ hungup = FALSE /\ signal = FALSE /\ typed = 0 /\ messages = 0
  /\ loop = "start" /\ io = "none" /\ stray = FALSE
  /\ in_read = FALSE /\ use_reader = FALSE
  /\ lock = FALSE /\ tick = "wait" /\ sampled = FALSE /\ quit = FALSE
  /\ reader = "none" /\ chunk = 0 /\ queue = 0 /\ eof = FALSE /\ stop = FALSE

Terminal == Type \/ HangUp \/ SendSignal

Server ==
  \/ StartReader \/ UseReader \/ OnIdle \/ enter_read \/ StartReadIo \/ Cancelled
  \/ leave_read \/ Serve \/ Complete \/ ForgetReader \/ StopReader \/ CancelReader
  \/ FreeReader \/ StopTicker \/ JoinTicker

Reader == ReaderSpace \/ ReaderReads \/ ReaderStores \/ nudge
Ticker == TickBegins \/ TickLocks \/ TickActs

\* The server has ended.
Ended == loop = "stopped" /\ UNCHANGED vars

Next == Terminal \/ Message \/ Server \/ Reader \/ Ticker \/ Ended

Spec == Init /\ [][Next]_vars

\* Every thread runs; the terminal and the clients owe nothing.  The ticker
\* sleeps between its turns, so the others get _lock in the end.
FairSpec == Spec /\ SF_vars(Server) /\ SF_vars(Reader) /\ WF_vars(Ticker)

-----------------------------------------------------------------------------
(* Properties *)

Unread == pipe + chunk + queue
Ending == loop \in {"leave", "stop_reader", "join_reader", "stop_ticker", "join_ticker",
                    "stopped"}

Flags ==
  /\ hungup \in BOOLEAN /\ signal \in BOOLEAN /\ stray \in BOOLEAN
  /\ in_read \in BOOLEAN /\ use_reader \in BOOLEAN /\ lock \in BOOLEAN
  /\ sampled \in BOOLEAN /\ quit \in BOOLEAN /\ eof \in BOOLEAN /\ stop \in BOOLEAN

Places ==
  /\ loop \in {"start", "started", "idle", "ready", "entered", "reading", "got_message",
               "no_message", "disconnected", "serve", "completing", "leave",
               "stop_reader", "join_reader", "stop_ticker", "join_ticker", "stopped"}
  /\ io \in {"none", "READ_IO", "cancelled", "COMPLETE_IO"}
  /\ tick \in {"wait", "sampled", "locked", "ended"}
  /\ reader \in {"none", "space", "reading", "store", "notify", "ended", "freed"}

Counts ==
  /\ pipe \in Nat /\ chunk \in Nat /\ queue \in Nat
  /\ typed \in 0..MaxBytes /\ messages \in 0..MaxMessages
  /\ Unread <= typed

\* Types; and no byte is in two places.
TypeOK == Flags /\ Places /\ Counts

\* A cancel only ever hits READ_IO, never the loop's COMPLETE_IO (enter_read and
\* leave_read flip the flag under the lock the cancels are made under).
CancelHitsReadIo == ~stray

\* A tick asks the reader only while there is one, and touches the pipe only
\* while no reader is in ReadFile on it, at start-up and shutdown too.
OneUserOfPipe ==
  tick = "locked" =>
    IF use_reader THEN reader \notin {"none", "freed"} ELSE reader # "reading"

\* Bytes reach the loop, whenever they come: a nudge that misses READ_IO is made
\* up for by a tick, and a full queue is drained.
InputTaken == Unread > 0 ~> (Unread = 0 \/ Ending)

\* A PtySignal is served, with or without input.
SignalServed == signal ~> (~signal \/ Ending)

\* The loop can always leave: the reader and the ticker end.
ShutdownEnds == loop = "leave" ~> loop = "stopped"

\* The reader's wake-up for end of file is as good as the one for bytes: once it has told the
\* loop, the loop leaves (nudge, input_waiting).
EofNoticed == eof ~> Ending

=============================================================================
