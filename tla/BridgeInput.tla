---------------------------- MODULE BridgeInput ----------------------------
(***************************************************************************)
(* pipe_bridge between the bytes of vt_in and the reads they answer:       *)
(* _readbuf and _read_total, the put-back queue _queued_vt_input, batches, *)
(* the line and the event queue.  One action is one batch taken or one     *)
(* byte processed, in the order of the code.  One read is served at a time *)
(* (IoLoop models who comes when).  An "Enter" byte stands for an Enter    *)
(* key in win32-input-mode form, "Tab" for a Tab, "^C" for one typed under *)
(* ENABLE_PROCESSED_INPUT; a "^Z" that ends no read stands for the keys    *)
(* without a character as well (Insert, the F keys).                       *)
(***************************************************************************)
EXTENDS Naturals, Sequences

CONSTANTS Bytes,          \* the bytes the terminal types
          MaxBytes,       \* bound: how many it types, initial texts included
          ReadBufSize,    \* _readbuf.size()
          Capacities,     \* capacities of raw reads, all <= ReadBufSize
          InitialData     \* initial texts of ReadConsole

AllBytes == {"a", "b", "CR", "LF", "^C", "^Z", "Tab", "Enter"}

ASSUME BytesAssumption == Bytes \subseteq AllBytes
ASSUME SizesAssumption ==
  /\ MaxBytes \in Nat /\ ReadBufSize \in Nat \ {0}
  /\ Capacities \subseteq 1..ReadBufSize
  /\ \A t \in InitialData : t \in Seq(AllBytes) /\ Len(t) <= ReadBufSize

VARIABLES
  pipe,       \* vt_in, or the reader's queue: bytes not read yet
  typed,      \* how many bytes were typed or came as initial text
  closed,     \* vt_in is at its end once pipe is empty
  queued,     \* _queued_vt_input
  buf,        \* _readbuf up to _read_total
  batch,      \* the bytes of the current batch not processed yet
  kind,       \* _pending.kind(): None, RawRead, ConsoleRead, ConsoleInput
  cap,        \* raw_read_capacity of the raw read
  proc_z,     \* process_control_z of the waiting line read
  line,       \* _cooked_buf of the ConsoleRead
  events,     \* input_buffer: key events in order
  line_found, \* _line_found
  vt_eof,
  pc, mode,   \* where the bridge is, and on whose behalf it reads batches
  request,    \* what becomes of the current request
  answer      \* the last completion

vars == <<pipe, typed, closed, queued, buf, batch, kind, cap, proc_z, line, events, line_found,
          vt_eof, pc, mode, request, answer>>

Kinds == {"None", "RawRead", "ConsoleRead", "ConsoleInput"}
LineKinds == {"RawRead", "ConsoleRead"}

IsEnd(b) == b \in {"CR", "LF", "Enter"}
\* What process_input queues as key events even while a line read waits.
SpecialKeys == {"Tab", "^Z"}
First(s, n) == SubSeq(s, 1, n)
After(s, n) == SubSeq(s, n + 1, Len(s))
Least(m, n) == IF m < n THEN m ELSE n

Init ==
  /\ pipe = <<>> /\ typed = 0 /\ closed = FALSE
  /\ queued = <<>> /\ buf = <<>> /\ batch = <<>>
  /\ kind = "None" /\ cap = 1 /\ proc_z = FALSE /\ line = <<>> /\ events = <<>>
  /\ line_found = FALSE /\ vt_eof = FALSE
  /\ pc = "rest" /\ mode = "none" /\ request = "none"
  /\ answer = [how |-> "none", text |-> <<>>]

-----------------------------------------------------------------------------
(* Completions.  A request completed while its handler serves it is left   *)
(* prepared for the loop; one that waits is answered by COMPLETE_IO.       *)

Completed == IF request = "serving" THEN "prepared" ELSE "none"

\* prepare_raw_read_completion: what the client gets for the first bytes of _readbuf.
RawData(bytes) ==
  LET d == First(bytes, Least(Len(bytes), cap))
      n == Len(d)
  IN  CASE n = 0 \/ n = cap -> d
        [] n > 0 /\ n < cap /\ d[n] = "CR" -> Append(d, "LF")
        [] n > 0 /\ n < cap /\ d[n] = "LF" /\ (n < 2 \/ d[n - 1] # "CR") ->
             First(d, n - 1) \o <<"CR", "LF">>
        [] OTHER -> d

\* complete_pending for a read of `k' with _readbuf `bytes'; `how' names why.
CompletePending(bytes, how) ==
  IF kind = "None" THEN UNCHANGED <<kind, proc_z, line, request, answer>> /\ buf' = bytes
  ELSE IF kind = "ConsoleInput"
  THEN /\ kind' = "None" /\ request' = Completed /\ buf' = bytes
       /\ answer' = [how |-> "keys", text |-> events]
       /\ UNCHANGED <<proc_z, line>>
  ELSE /\ kind' = "None" /\ request' = Completed /\ buf' = <<>> /\ line' = <<>> /\ proc_z' = FALSE
       /\ answer' = IF how = "aborted" THEN [how |-> "aborted", text |-> <<>>]
                    ELSE IF kind = "RawRead" THEN [how |-> "raw", text |-> RawData(bytes)]
                    ELSE [how |-> how, text |-> line]

\* complete_pending_console_input after one key event was queued: a peek leaves it there.
QueueKey(b) ==
  IF kind = "ConsoleInput"
  THEN /\ kind' = "None" /\ request' = Completed
       /\ answer' = [how |-> "keys", text |-> <<b>>]
       /\ events' \in {events, Append(events, b)}
  ELSE events' = Append(events, b) /\ UNCHANGED <<kind, request, answer>>

\* The handler returns: TRUE submits its completion, FALSE keeps the request.
Returns(done) ==
  /\ pc' = "rest" /\ mode' = "none"
  /\ request' = IF request \notin {"serving", "prepared"} THEN request
                ELSE IF done THEN (IF request = "prepared" THEN "none" ELSE "empty_reply")
                ELSE IF request = "serving" THEN "waiting" ELSE "lost"

-----------------------------------------------------------------------------
(* Requests                                                                *)

\* The client of a lost request waits for ever; the bridge serves the others.
Idle == pc = "rest" /\ request \in {"none", "lost"}
Serve == Idle /\ request' = "serving"

AtEof == /\ vt_eof /\ Idle
         /\ answer' = [how |-> "eof", text |-> <<>>]
         /\ UNCHANGED <<pipe, typed, closed, queued, buf, batch, kind, cap, proc_z, line, events,
                        line_found, vt_eof, pc, mode, request>>

handle_raw_read ==
  /\ Serve /\ ~vt_eof
  /\ cap' \in Capacities /\ proc_z' \in BOOLEAN
  /\ kind' = "RawRead" /\ buf' = <<>> /\ line_found' = FALSE
  /\ pc' = "take" /\ mode' = "accumulate"
  /\ UNCHANGED <<pipe, typed, closed, queued, batch, line, events, vt_eof, answer>>

handle_console_read ==
  /\ Serve /\ ~vt_eof
  /\ kind' = "ConsoleRead" /\ proc_z' \in BOOLEAN /\ line' = <<>> /\ line_found' = FALSE
  /\ \E t \in InitialData :
       /\ typed + Len(t) <= MaxBytes /\ typed' = typed + Len(t)
       /\ buf' = t /\ batch' = t
       /\ IF t = <<>> THEN pc' = "consume" /\ mode' = "accumulate"
                      ELSE pc' = "process" /\ mode' = "initial"
  /\ UNCHANGED <<pipe, closed, queued, cap, events, vt_eof, answer>>

\* Mutant: a ReadConsole does not look at the keys typed ahead.
BugTypeAheadUnread ==
  /\ pc = "consume" /\ pc' = "take"
  /\ UNCHANGED <<pipe, typed, closed, queued, buf, batch, kind, cap, proc_z, line, events, line_found,
                 vt_eof, mode, request, answer>>

\* consume_input_buffer_for_console_read, one key event: Enter submits the line, a key
\* without a character leaves it, any other is inserted.
consume_input_buffer_for_console_read ==
  /\ pc = "consume"
  /\ \/ /\ kind # "ConsoleRead" \/ events = <<>>
        /\ pc' = "take"
        /\ UNCHANGED <<kind, proc_z, buf, line, events, line_found, answer, request, mode>>
     \/ /\ kind = "ConsoleRead" /\ events # <<>> /\ IsEnd(Head(events))
        /\ events' = Tail(events)
        /\ line_found' = TRUE
        /\ kind' = "None" /\ proc_z' = FALSE /\ line' = <<>> /\ buf' = <<>>
        /\ answer' = [how |-> "line", text |-> line]
        /\ request' = "none" /\ pc' = "rest" /\ mode' = "none"
     \/ /\ kind = "ConsoleRead" /\ events # <<>> /\ ~IsEnd(Head(events))
        /\ events' = Tail(events)
        /\ line' = IF Head(events) = "^Z" THEN line ELSE Append(line, Head(events))
        /\ UNCHANGED <<kind, proc_z, buf, line_found, answer, request, pc, mode>>
  /\ UNCHANGED <<pipe, typed, closed, queued, batch, cap, vt_eof>>

\* handle_console_input first turns everything typed into events.
handle_console_input ==
  /\ Serve
  /\ IF vt_eof THEN pc' = "reply" /\ mode' = "none" ELSE pc' = "prepare" /\ mode' = "prepare"
  /\ UNCHANGED <<pipe, typed, closed, queued, buf, batch, kind, cap, proc_z, line, events, line_found,
                 vt_eof, answer>>

\* prepare_console_input_events: one turn of its loop.
prepare_console_input_events ==
  /\ pc = "prepare" /\ buf' = <<>>
  /\ IF queued # <<>>
     THEN pc' = "take" /\ UNCHANGED <<pipe, queued, vt_eof, mode>>
     ELSE IF pipe # <<>>
     THEN /\ LET n == Least(Len(pipe), ReadBufSize) IN
             queued' = First(pipe, n) /\ pipe' = After(pipe, n)
          /\ UNCHANGED <<vt_eof, pc, mode>>
     ELSE pc' = "reply" /\ vt_eof' = closed /\ mode' = "none" /\ UNCHANGED <<pipe, queued>>
  /\ UNCHANGED <<typed, closed, batch, kind, cap, proc_z, line, events, line_found, request, answer>>

\* The rest of handle_console_input: reply, with or without removal, or wait.
ReplyConsoleInput ==
  /\ pc = "reply" /\ pc' = "rest"
  /\ \/ /\ events = <<>> /\ kind' = "ConsoleInput" /\ request' = "waiting"
        /\ UNCHANGED <<events, answer>>
     \/ /\ request' = "none" /\ UNCHANGED kind
        /\ \E max \in {1, MaxBytes} : LET n == Least(Len(events), max) IN
             /\ answer' = [how |-> "keys", text |-> First(events, n)]
             /\ events' \in {events, After(events, n)}
  /\ UNCHANGED <<pipe, typed, closed, queued, buf, batch, cap, proc_z, line, line_found, vt_eof, mode>>

-----------------------------------------------------------------------------
(* Batches: read_available_vt_input and its callers                        *)

\* Mutant: the room for a batch forgets what _readbuf holds already.
BugRoomUncounted == IF kind = "RawRead" THEN cap ELSE ReadBufSize

Room == (IF kind = "RawRead" THEN cap ELSE ReadBufSize) - Len(buf)

\* The put-back queue comes before the pipe.
TakeBytes ==
  LET n == Least(Room, Len(queued))
      m == Least(Room, Len(pipe))
  IN  /\ pc = "take" /\ Room > 0 /\ (queued # <<>> \/ pipe # <<>>)
      /\ IF queued # <<>>
         THEN /\ batch' = First(queued, n) /\ queued' = After(queued, n) /\ UNCHANGED pipe
         ELSE /\ batch' = First(pipe, m) /\ pipe' = After(pipe, m) /\ UNCHANGED queued
      /\ buf' = buf \o batch'
      /\ line_found' = FALSE /\ pc' = "process"
      /\ UNCHANGED <<typed, closed, kind, cap, proc_z, line, events, vt_eof, mode, request, answer>>

\* The buffer is full: the read ends with what it has.
BufferFull ==
  /\ pc = "take" /\ Room = 0
  /\ CompletePending(buf, "early")
  /\ pc' = "done"
  /\ UNCHANGED <<pipe, typed, closed, queued, batch, cap, events, line_found, vt_eof, mode>>

NothingTyped ==
  /\ pc = "take" /\ Room > 0 /\ queued = <<>> /\ pipe = <<>> /\ ~closed
  /\ Returns(FALSE)
  /\ UNCHANGED <<pipe, typed, closed, queued, buf, batch, kind, cap, proc_z, line, events, line_found,
                 vt_eof, answer>>

InputEnded ==
  /\ pc = "take" /\ Room > 0 /\ queued = <<>> /\ pipe = <<>> /\ closed
  /\ vt_eof' = TRUE
  /\ CompletePending(buf, "early")
  /\ pc' = "done"
  /\ UNCHANGED <<pipe, typed, closed, queued, batch, cap, events, line_found, mode>>

\* After a batch: accumulate_from_pipe goes on until a line was found, also when the
\* initial text had ended the read ("own"); the preparation of events goes on until all
\* is prepared, the others made one batch only.
BatchDone ==
  /\ pc = "process" /\ batch = <<>>
  /\ pc' = CASE mode \in {"accumulate", "own"} -> IF line_found THEN "done" ELSE "take"
             [] mode = "initial"    -> "consume"
             [] mode = "prepare"    -> "prepare"
             [] mode = "one"        -> "done"
  /\ mode' = IF mode # "initial" THEN mode ELSE IF kind = "None" THEN "own" ELSE "accumulate"
  /\ UNCHANGED <<pipe, typed, closed, queued, buf, batch, kind, cap, proc_z, line, events, line_found,
                 vt_eof, request, answer>>

\* Mutant: the handler says it keeps a request whose completion is prepared.
BugHandlerDoneWaits ==
  /\ pc = "done"
  /\ Returns(FALSE)
  /\ UNCHANGED <<pipe, typed, closed, queued, buf, batch, kind, cap, proc_z, line, events, line_found,
                 vt_eof, answer>>

\* The caller of accumulate_from_pipe returns true.
HandlerDone ==
  /\ pc = "done"
  /\ Returns(TRUE)
  /\ UNCHANGED <<pipe, typed, closed, queued, buf, batch, kind, cap, proc_z, line, events, line_found,
                 vt_eof, answer>>

\* Mutant: on_idle drains the pipe only when nobody waits.
BugIdleOnlyDrains ==
  /\ pc = "rest" /\ ~vt_eof /\ pipe # <<>> /\ kind = "None"
  /\ pc' = "take" /\ mode' = "one"
  /\ UNCHANGED <<pipe, typed, closed, queued, buf, batch, kind, cap, proc_z, line, events, line_found,
                 vt_eof, request, answer>>

\* Mutant: on_idle takes input only for a read that waits.
BugIdleNeedsRead ==
  /\ pc = "rest" /\ ~vt_eof /\ pipe # <<>> /\ kind # "None"
  /\ pc' = "take" /\ mode' = "accumulate"
  /\ UNCHANGED <<pipe, typed, closed, queued, buf, batch, kind, cap, proc_z, line, events, line_found,
                 vt_eof, request, answer>>

\* on_idle: with a read waiting all there is, without one a single batch.
on_idle ==
  /\ pc = "rest" /\ ~vt_eof /\ pipe # <<>>
  /\ pc' = "take"
  /\ mode' = IF kind = "None" THEN "one" ELSE "accumulate"
  /\ UNCHANGED <<pipe, typed, closed, queued, buf, batch, kind, cap, proc_z, line, events, line_found,
                 vt_eof, request, answer>>

\* on_idle finds the pipe broken.
IdleFindsEof ==
  /\ pc = "rest" /\ ~vt_eof /\ pipe = <<>> /\ closed
  /\ vt_eof' = TRUE
  /\ CompletePending(buf, "early")
  /\ UNCHANGED <<pipe, typed, closed, queued, batch, cap, events, line_found, pc, mode>>

wait_for_pending_vt_input ==
  /\ pc = "rest" /\ ~vt_eof /\ kind # "None"
  /\ pc' = "take" /\ mode' = "one"
  /\ UNCHANGED <<pipe, typed, closed, queued, buf, batch, kind, cap, proc_z, line, events, line_found,
                 vt_eof, request, answer>>

-----------------------------------------------------------------------------
(* process_input, byte by byte                                             *)

Byte(b) == pc = "process" /\ batch # <<>> /\ Head(batch) = b

\* Mutant: _read_total does not go back over the bytes put back.
BugAllConsumed(rest) == buf

\* queue_unprocessed_vt_input: the rest of the batch goes in front of the queue, and
\* _read_total back to what was consumed.
PutBack(rest) == queued' = rest \o queued
Consumed(rest) == First(buf, Len(buf) - Least(Len(rest), Len(buf)))

CtrlC ==
  /\ Byte("^C")
  /\ IF kind \in LineKinds
     THEN /\ CompletePending(<<>>, "aborted")
          /\ PutBack(Tail(batch)) /\ batch' = <<>>
          /\ line_found' = TRUE
     ELSE /\ batch' = Tail(batch)
          /\ UNCHANGED <<queued, buf, kind, proc_z, line, line_found, request, answer>>
  /\ UNCHANGED <<pipe, typed, closed, cap, events, vt_eof, pc, mode>>

CtrlZ ==
  /\ Byte("^Z") /\ proc_z
  /\ line_found' = TRUE
  /\ PutBack(Tail(batch)) /\ batch' = <<>>
  /\ CompletePending(Consumed(Tail(batch)), "early")
  /\ UNCHANGED <<pipe, typed, closed, cap, events, vt_eof, pc, mode>>

\* Text: into the line, into the event queue, or left in _readbuf.
Text ==
  /\ \E b \in {"a", "b"} :
       /\ Byte(b)
       /\ \/ /\ kind = "ConsoleRead" /\ line' = Append(line, b)
             /\ UNCHANGED <<events, kind, request, answer>>
          \/ kind = "RawRead" /\ UNCHANGED <<line, events, kind, request, answer>>
          \/ kind \notin LineKinds /\ QueueKey(b) /\ UNCHANGED line
  /\ batch' = Tail(batch)
  /\ UNCHANGED <<pipe, typed, closed, queued, buf, cap, proc_z, line_found, vt_eof, pc, mode>>

\* process_input_tab, process_input_key_event: an event whoever reads.  A ConsoleRead's
\* line goes without it; a raw read keeps the byte in _readbuf as well.
SpecialKey ==
  /\ \E b \in SpecialKeys :
       /\ Byte(b)
       /\ b = "^Z" => ~proc_z
       /\ QueueKey(b)
  /\ batch' = Tail(batch)
  /\ UNCHANGED <<pipe, typed, closed, queued, buf, cap, proc_z, line, line_found, vt_eof, pc, mode>>

\* CR or LF for a line read: _on_line_terminator and _finish_line_terminator.  An LF behind
\* the CR belongs to it, in the batch or, when the batch ends here, still in the pipe.
WithLf(b) == b = "CR" /\ Len(batch) > 1 /\ batch[2] = "LF"
LfInPipe(b) == b = "CR" /\ Len(batch) = 1 /\ pipe # <<>> /\ Head(pipe) = "LF"
ConsumedEnd(b) == IF WithLf(b) THEN 2 ELSE 1

LineEnd ==
  \E b \in {"CR", "LF"} :
    LET rest == After(batch, ConsumedEnd(b)) IN
    /\ Byte(b) /\ kind \in LineKinds
    /\ line_found' = TRUE
    /\ pipe' = IF LfInPipe(b) THEN Tail(pipe) ELSE pipe
    /\ PutBack(rest) /\ batch' = <<>>
    /\ CompletePending(IF LfInPipe(b) /\ Len(buf) < ReadBufSize THEN Append(buf, "LF")
                                                               ELSE Consumed(rest), "line")
    /\ UNCHANGED <<typed, closed, cap, events, vt_eof, pc, mode>>

\* CR or LF with nobody reading a line: an Enter key, the rest of the batch put back.
EnterKey ==
  \E b \in {"CR", "LF"} :
    LET rest == After(batch, ConsumedEnd(b)) IN
    /\ Byte(b) /\ kind \notin LineKinds
    /\ QueueKey(b)
    /\ line_found' = TRUE
    /\ pipe' = IF LfInPipe(b) THEN Tail(pipe) ELSE pipe
    /\ PutBack(rest) /\ batch' = <<>>
    /\ buf' = IF LfInPipe(b) /\ Len(buf) < ReadBufSize THEN Append(buf, "LF") ELSE Consumed(rest)
    /\ UNCHANGED <<typed, closed, cap, proc_z, line, vt_eof, pc, mode>>

\* An Enter key in win32-input-mode: edit_submit_line for a ConsoleRead; otherwise
\* only _line_found is set, and unless a raw read waits the key is queued.
Win32Enter ==
  /\ Byte("Enter")
  /\ line_found' = TRUE
  /\ IF kind = "ConsoleRead"
     THEN /\ CompletePending(<<>>, "line")
          /\ PutBack(Tail(batch)) /\ batch' = <<>>
          /\ UNCHANGED events
     ELSE /\ batch' = Tail(batch)
          /\ IF kind = "RawRead" THEN UNCHANGED <<events, kind, request, answer>> ELSE QueueKey("Enter")
          /\ UNCHANGED <<queued, buf, proc_z, line>>
  /\ UNCHANGED <<pipe, typed, closed, cap, vt_eof, pc, mode>>

-----------------------------------------------------------------------------
(* The terminal                                                            *)

Type ==
  /\ typed < MaxBytes /\ ~closed
  /\ \E b \in Bytes : pipe' = Append(pipe, b)
  /\ typed' = typed + 1
  /\ UNCHANGED <<closed, queued, buf, batch, kind, cap, proc_z, line, events, line_found, vt_eof,
                 pc, mode, request, answer>>

CloseVt ==
  /\ ~closed /\ closed' = TRUE
  /\ UNCHANGED <<pipe, typed, queued, buf, batch, kind, cap, proc_z, line, events, line_found, vt_eof,
                 pc, mode, request, answer>>

Request == handle_raw_read \/ handle_console_read \/ handle_console_input \/ AtEof

\* What the loop thread does without a new request.
Progress ==
  \/ consume_input_buffer_for_console_read \/ prepare_console_input_events \/ ReplyConsoleInput
  \/ TakeBytes \/ BufferFull \/ NothingTyped \/ InputEnded \/ BatchDone \/ HandlerDone
  \/ on_idle \/ IdleFindsEof
  \/ CtrlC \/ CtrlZ \/ Text \/ SpecialKey \/ LineEnd \/ EnterKey \/ Win32Enter

Next == Request \/ Progress \/ wait_for_pending_vt_input \/ Type \/ CloseVt

Spec == Init /\ [][Next]_vars
\* The loop thread never stops for ever: its waits end when there is input.
FairSpec == Spec /\ WF_vars(Progress)

-----------------------------------------------------------------------------
(* Properties                                                              *)

\* Types, and the batches together never overrun _readbuf, however the room left by
\* initial text, earlier batches and the raw read's capacity combine
\* (read_available_vt_input).
TypeOK ==
  /\ {pipe, queued, buf, batch, events, line} \subseteq Seq(AllBytes)
  /\ Len(buf) <= ReadBufSize
  /\ typed \in 0..MaxBytes
  /\ {closed, line_found, vt_eof} \subseteq BOOLEAN
  /\ kind \in Kinds /\ cap \in 1..ReadBufSize /\ proc_z \in BOOLEAN
  /\ pc \in {"rest", "take", "process", "consume", "prepare", "reply", "done"}
  /\ mode \in {"none", "accumulate", "initial", "own", "prepare", "one"}
  /\ request \in {"none", "serving", "prepared", "waiting", "empty_reply", "lost"}

\* bytes: what is typed or still to come of the initial text; own: how much of it is that
\* text; seen: how many bytes a waiting raw read has looked at.
Stream == INSTANCE InputStream WITH
  keys   <- events,
  bytes  <- (IF kind = "RawRead" THEN buf ELSE batch) \o queued \o pipe,
  own    <- IF mode = "initial" THEN Len(batch) ELSE 0,
  seen   <- IF kind = "RawRead" THEN Len(buf) - Len(batch) ELSE 0

\* A CR ends its batch while queued bytes come behind it: only the pipe is searched for
\* its LF, so that one stays behind, or a later one is taken.
LfOverlooked == batch = <<"CR">> /\ queued # <<>> /\ batch' = <<>>

\* Whatever the batches, put-backs, initial texts and reads that alternate, nothing typed
\* is lost, given twice or given out of order, except as InputStream says of the keys that
\* are no text and of an initial text that ends its own read.  LF goes with its CR but for
\* LfOverlooked, and Ctrl+C never becomes a key (process_input, queue_unprocessed_vt_input,
\* consume_input_buffer_for_console_read).
StreamSpec == Stream!Init /\ [][Stream!Next \/ LfOverlooked]_(Stream!vars)

\* A handler's result agrees with its request (message_router::on_message).  FALSE loses
\* the answer of one request only, a ReadConsole that its own initial text had ended
\* (initial_line_lost); TRUE answers a read that goes on waiting only if it is a raw read
\* (reply_without_answer); otherwise a read waits exactly as long as its client does.
RequestKept ==
  [][ /\ request' = "lost" => request = "lost" \/ mode = "own"
      /\ request' = "empty_reply" => kind' = "RawRead"
      /\ pc' = "rest" => (request' \in {"waiting", "empty_reply"} <=> kind' # "None") ]_vars

\* While a client waits, nothing typed is left where on_idle does not look: it peeks the
\* pipe only, so queued bytes, or text and Enter keys among the events, would never answer
\* the read.  Keys that are no text stay there behind a line read.
WaitingMeansDrained ==
  pc = "rest" /\ request = "waiting" /\ ~vt_eof =>
    /\ queued = <<>>
    /\ kind = "ConsoleInput" => events = <<>>
    /\ kind = "ConsoleRead" => events \in Seq(SpecialKeys)

\* A line read whose line end is typed is answered, also when its buffer was full, when
\* the bytes came in several batches or the terminal hung up behind them.
LineAnswered ==
  (kind \in LineKinds /\ pc = "rest" /\ \E k \in DOMAIN pipe : pipe[k] \in {"CR", "LF"}) ~> kind = "None"

\* What is typed is taken out of the pipe, whoever reads or nobody, unless _readbuf is full
\* and stays so because no read comes (on_idle does not reset _read_total: idle_input_stalls).
BytesTaken == pipe # <<>> ~> (pipe = <<>> \/ [](kind = "None" /\ Len(buf) = ReadBufSize))

\* message_router::on_message: TRUE means that msg.complete can be submitted.
RepliesAreAnswers == request # "empty_reply"

\* message_router::on_message: FALSE means that the bridge holds the request until input
\* answers it.
HeldOrAnswered == request # "lost"

\* pipe_bridge::on_idle: keys and a hang-up must not starve because no ReadConsole waits.
IdleTakesInput == pipe # <<>> ~> pipe = <<>>
=============================================================================
