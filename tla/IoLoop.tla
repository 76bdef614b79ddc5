------------------------------- MODULE IoLoop -------------------------------
(***************************************************************************)
(* The console server's only loop, run_io_loop_no_setup, with the message  *)
(* router it dispatches through and the part of pipe_bridge that holds the *)
(* one waiting read, against its three neighbours: the client threads, the *)
(* ConDrv driver that carries their requests and their answers, and the    *)
(* terminal that types keys and closes its pipes.                          *)
(*                                                                         *)
(* One action is what the loop thread does between two points where the    *)
(* outside can be seen to have moved: a READ_IO, a COMPLETE_IO, one look   *)
(* at the terminal.  Clients and the terminal step in between.             *)
(*                                                                         *)
(* Abstractions.  A key is its number in typing order, and has a class; it *)
(* comes as plain bytes, with ENABLE_PROCESSED_INPUT on.  BridgeInput has  *)
(* the capacity of _readbuf (behind which typed bytes can stay in the pipe *)
(* for good), initial data, and keys like Tab that become events although  *)
(* a line read waits; echo and editing are in LineEditor.                  *)
(***************************************************************************)
EXTENDS Naturals, Sequences, FiniteSets

CONSTANTS
  Threads,     \* client threads; each has one request out at a time
  Processes,   \* client processes
  ProcOf,      \* the process of each thread
  Uses,        \* the calls each thread makes
  Leavers,     \* the processes that may exit
  KeyClasses,  \* the classes of key the user types
  MaxKeys,     \* bound: keys typed in a behaviour
  MaxEvents,   \* input_buffer::max_events
  SignalPipe   \* the session has a signal pipe

LineReads  == {"RAW_READ", "ReadConsole"}
Waiting    == LineReads \cup {"GetConsoleInput"}
Calls      == Waiting \cup {"PollInput", "WriteConsole", "WriteConsoleInput"}
Requesters == Threads \cup Processes
Buffers    == 1..4
Slots      == 0..4                 \* 0 is nullptr
Injected   == 0                    \* an Enter key put in by WriteConsoleInput

ASSUME ThreadsAssumption ==
  /\ Threads \cap Processes = {}
  /\ ProcOf \in [Threads -> Processes]
  /\ Uses \in [Threads -> SUBSET Calls]
  /\ Leavers \subseteq Processes
ASSUME BoundsAssumption ==
  /\ KeyClasses \subseteq {"char", "enter", "ctrlc"}
  /\ MaxKeys \in Nat
  /\ MaxEvents \in Nat
  /\ SignalPipe \in BOOLEAN

NoMsg  == [kind |-> "none", from |-> "nobody"]
NoComp == [keys |-> << >>, src |-> "none"]

VARIABLES
  \* clients and driver
  stage,        \* a requester's request: idle, sent, held by the server, dead
  attached,     \* a process: no, yes, left
  inbox,        \* requests the driver has not handed to READ_IO yet
  got,          \* keys handed to each thread so far (history)
  wrong,        \* "twice": a completion came for a request nobody waits for;
                \* "order": a thread got a key after a later one, or a key came
                \* again (history)
  \* terminal
  typed,        \* the class of every key typed so far
  vtClosed, sigClosed,
  \* pipe_bridge
  kind, held,   \* pending_io_state: what waits, and in which message buffer
  vt_eof,
  fetched,      \* keys taken out of the pipe; those after taken are queued
  taken,        \* keys processed
  line,         \* keys of the line being read
  events,       \* input_buffer
  outbuf,       \* _console_input_output_buffer
  \* run_io_loop_no_setup
  pc, ret,      \* where the loop is, and on whose behalf
  work,         \* the message being dispatched
  done,         \* what on_message returned
  cur, prev_done, pending_msg, deferred_msg,
  msgs,         \* the four message buffers: the request read into each
  comp,         \* and its msg.complete, from its preparation to its submission
  vtout,        \* threads with written text still in the VT output buffer
  connected,    \* condrv_input.valid(): the first CONNECT was accepted
  closed        \* processes whose DISCONNECT was dispatched

clientVars == <<stage, attached, inbox>>
history    == <<got, wrong>>
ttyVars    == <<typed, vtClosed, sigClosed>>
readVars   == <<kind, held, line>>
keyVars    == <<fetched, taken, events, outbuf>>
slotVars   == <<cur, prev_done, pending_msg, deferred_msg>>
callVars   == <<ret, work, done>>
procVars   == <<connected, closed>>
vars == <<clientVars, history, ttyVars, readVars, vt_eof, keyVars, slotVars,
          pc, callVars, msgs, comp, vtout, procVars>>

-----------------------------------------------------------------------------
(* Helpers *)

Proc(r)    == IF r \in Threads THEN ProcOf[r] ELSE r
has_pending == kind # "None"
should_exit == vt_eof /\ kind = "None"
PipeBytes  == fetched < Len(typed)       \* what peek_vt_input sees
StreamKeys == taken < Len(typed)         \* what read_available_vt_input finds
Class(k)   == IF k = Injected THEN "enter" ELSE typed[k]

\* The caller of the handler: the deferred read dispatched at the top of the
\* loop, the current message, or the deferred read of the third-read loop.
Dispatching == ret \in {"deferred", "current", "third"}

\* serving_guard: the handler runs for the very request that waits.
BugNoServingGuard == FALSE
Serving == Dispatching /\ held = work

\* The first buffer that is none of the three.
BugFreeButDeferred(prev, pend, defer) ==
  CHOOSE b \in Buffers \ {prev, pend} : \A c \in Buffers \ {prev, pend} : b <= c
next_free(prev, pend, defer) ==
  CHOOSE b \in Buffers \ {prev, pend, defer} :
    \A c \in Buffers \ {prev, pend, defer} : b <= c

\* The request still stands: its thread did not exit.
Asked(i) == stage[inbox[i].from] = "sent"

\* The keys a completion hands over: a GetConsoleInput reply only points at the
\* shared output buffer, which ConDrv reads when the completion is submitted.
Handed(c) == IF c.src = "shared" THEN outbuf ELSE c.keys

TypedIn(keys) == {i \in DOMAIN keys : keys[i] # Injected}

\* These keys do not all come later than those thread t has, or one was handed
\* out before.
OutOfOrder(t, keys) ==
  \E i \in TypedIn(keys) :
    \/ \E u \in Threads : keys[i] \in got[u]
    \/ \E k \in got[t] : keys[i] <= k
    \/ \E j \in TypedIn(keys) : j < i /\ keys[i] <= keys[j]

\* ConDrv gets the completion of the request in buffer b.  The buffer is then
\* free, and what it held is forgotten here.
Complete(b, keys) ==
  LET r == msgs[b].from
      waits == r \in Requesters /\ stage[r] \in {"held", "dead"} IN
  /\ stage' = IF waits THEN [stage EXCEPT ![r] = "idle"] ELSE stage
  /\ wrong' = wrong \cup {w \in {"twice", "order"} :
                \/ w = "twice" /\ ~waits
                \/ w = "order" /\ r \in Threads /\ OutOfOrder(r, keys)}
  /\ got' = IF r \in Threads
            THEN [got EXCEPT ![r] = @ \cup {keys[i] : i \in TypedIn(keys)}] ELSE got
  /\ attached' = IF r \in Processes /\ attached[r] = "no"
                 THEN [attached EXCEPT ![r] = "yes"] ELSE attached
  /\ msgs' = [msgs EXCEPT ![b] = NoMsg]

answerVars == <<stage, attached, history, msgs>>
NotComplete == UNCHANGED answerVars

Prepare(b, keys, src) == comp' = [comp EXCEPT ![b] = [keys |-> keys, src |-> src]]

\* The prepared completion of buffer b is submitted.
Submit(b) ==
  /\ Complete(b, Handed(comp[b]))
  /\ comp' = [comp EXCEPT ![b] = NoComp]

\* complete_pending: the waiting read ends with these keys.  A request a
\* handler is serving is left to the loop, any other is completed at once.
Finish(keys, src) ==
  /\ kind' = "None" /\ held' = 0 /\ line' = << >>
  /\ IF Serving
     THEN NotComplete /\ Prepare(held, keys, src)
     ELSE Complete(held, keys) /\ UNCHANGED comp

StillWaiting == UNCHANGED readVars /\ NotComplete /\ UNCHANGED comp

\* The end of the bridge's work: back to whoever called it.
Return(b) ==
  /\ done' = (b /\ Dispatching)
  /\ pc' = CASE Dispatching -> "returned"
             [] ret = "wait" -> "third"
             [] OTHER -> "idled"
  /\ UNCHANGED <<ret, work>>

CallOnIdle(r) == pc' = "onidle" /\ ret' = r /\ work' = 0 /\ done' = FALSE
Dispatch(b, r) == pc' = "handle" /\ ret' = r /\ work' = b /\ done' = FALSE
Goto(p) == pc' = p /\ ret' = "none" /\ work' = 0 /\ done' = FALSE

-----------------------------------------------------------------------------
(* Clients, driver and terminal *)

loopVars == <<vt_eof, readVars, keyVars, slotVars, pc, callVars, msgs, comp,
              vtout, procVars>>

Request(r, k) ==
  /\ stage[r] = "idle"
  /\ stage' = [stage EXCEPT ![r] = "sent"]
  /\ inbox' = Append(inbox, [kind |-> k, from |-> r])

\* A process opens the console: ConDrv queues its CONNECT.
Attach(p) ==
  /\ pc # "exit" /\ attached[p] = "no" /\ Request(p, "CONNECT")
  /\ UNCHANGED <<attached, history, ttyVars, loopVars>>

\* A thread makes a console call and waits for its answer.
Call(t, k) ==
  /\ pc # "exit" /\ attached[ProcOf[t]] = "yes" /\ k \in Uses[t] /\ Request(t, k)
  /\ UNCHANGED <<attached, history, ttyVars, loopVars>>

\* A process ends: ConDrv forgets what its threads asked for (their entries in
\* inbox are void from now on) and queues a DISCONNECT.
Exit(p) ==
  /\ pc # "exit" /\ p \in Leavers /\ attached[p] = "yes"
  /\ attached' = [attached EXCEPT ![p] = "left"]
  /\ stage' = [r \in Requesters |->
                 IF r = p THEN "sent"
                 ELSE IF Proc(r) = p
                      THEN CASE stage[r] = "sent" -> "idle"
                             [] stage[r] = "held" -> "dead"
                             [] OTHER -> stage[r]
                      ELSE stage[r]]
  /\ inbox' = Append(inbox, [kind |-> "DISCONNECT", from |-> p])
  /\ UNCHANGED <<history, ttyVars, loopVars>>

Type(c) ==
  /\ ~vtClosed /\ Len(typed) < MaxKeys
  /\ typed' = Append(typed, c)
  /\ UNCHANGED <<vtClosed, sigClosed, clientVars, history, loopVars>>

\* The terminal goes: it closes vt_in, the signal pipe, or one after the other.
Pipes == IF SignalPipe THEN {"vt_in", "signal"} ELSE {"vt_in"}
Close(pipe) ==
  /\ IF pipe = "signal" THEN ~sigClosed /\ sigClosed' = TRUE /\ UNCHANGED vtClosed
                        ELSE ~vtClosed /\ vtClosed' = TRUE /\ UNCHANGED sigClosed
  /\ UNCHANGED <<typed, clientVars, history, loopVars>>

Environment ==
  \/ \E p \in Processes : Attach(p) \/ Exit(p)
  \/ \E t \in Threads, k \in Calls : Call(t, k)
  \/ \E c \in KeyClasses : Type(c)
  \/ \E p \in Pipes : Close(p)

-----------------------------------------------------------------------------
(* run_io_loop_no_setup up to its READ_IO *)

\* The bridge is free: the deferred read is dispatched.
TopDeferred ==
  /\ pc = "top" /\ deferred_msg # 0 /\ ~has_pending
  /\ pending_msg' = 0 /\ deferred_msg' = 0
  /\ Dispatch(deferred_msg, "deferred")
  /\ UNCHANGED <<cur, prev_done, clientVars, history, ttyVars, readVars, vt_eof,
                 keyVars, msgs, comp, vtout, procVars>>

Top ==
  /\ pc = "top" /\ (deferred_msg = 0 \/ has_pending)
  /\ pending_msg' = IF has_pending THEN pending_msg ELSE 0
  /\ Goto("idle")
  /\ UNCHANGED <<cur, prev_done, deferred_msg, clientVars, history, ttyVars, readVars,
                 vt_eof, keyVars, msgs, comp, vtout, procVars>>

\* Before the READ_IO the loop looks at the terminal, unless nothing waits for
\* it and there is a completion to submit.
Idle ==
  /\ pc = "idle"
  /\ IF has_pending THEN CallOnIdle("pending")
     ELSE IF prev_done = 0 THEN CallOnIdle("free") ELSE Goto("read")
  /\ UNCHANGED <<clientVars, history, ttyVars, readVars, vt_eof, keyVars, slotVars,
                 msgs, comp, vtout, procVars>>

\* on_idle came back: leave, or go on where it was called.
Idled ==
  /\ pc = "idled"
  /\ Goto(IF should_exit THEN "exit"
          ELSE IF ret \in {"free", "pending"} THEN "read" ELSE "top")
  /\ pending_msg' = IF ret = "pending" /\ ~has_pending /\ ~should_exit
                    THEN 0 ELSE pending_msg
  /\ cur' = IF ret = "answered" /\ ~should_exit
            THEN next_free(prev_done, pending_msg, deferred_msg) ELSE cur
  /\ UNCHANGED <<prev_done, deferred_msg, clientVars, history, ttyVars, readVars,
                 vt_eof, keyVars, msgs, comp, vtout, procVars>>

\* READ_IO begins; the driver takes the previous completion with it.  Text is
\* flushed first, unless the client's input event is set.
EnterRead ==
  /\ pc = "read" /\ Goto("inread")
  /\ vtout' = IF prev_done # 0 /\ events = << >> THEN {} ELSE vtout
  /\ IF prev_done = 0 THEN NotComplete /\ UNCHANGED comp ELSE Submit(prev_done)
  /\ UNCHANGED <<inbox, ttyVars, readVars, vt_eof, keyVars, slotVars, procVars>>

-----------------------------------------------------------------------------
(* READ_IO and what it brings *)

\* The waker cancelled READ_IO: no message.
NoMessage ==
  /\ pc = "inread" /\ prev_done' = 0 /\ vtout' = {} /\ CallOnIdle("no_message")
  /\ UNCHANGED <<cur, pending_msg, deferred_msg, clientVars, history, ttyVars, readVars,
                 vt_eof, keyVars, msgs, comp, procVars>>

\* Bytes are queued, or the signal pipe is closed: each tick tries again.
BugTickSeesInputOnly == PipeBytes
TickSees == PipeBytes \/ sigClosed

Woken == TickSees /\ NoMessage

\* The reader nudges once at end of file; that one cancel may hit.
NudgedByEof == vtClosed /\ ~TickSees /\ NoMessage

\* Every client is gone, and the driver says so.
Disconnected ==
  /\ pc = "inread" /\ ~(\E i \in DOMAIN inbox : Asked(i)) /\ closed # {}
  /\ \A p \in Processes : p \in closed \/ attached[p] = "no"
  /\ vtout' = {} /\ Goto("exit")
  /\ UNCHANGED <<clientVars, history, ttyVars, readVars, vt_eof, keyVars, slotVars,
                 msgs, comp, procVars>>

\* The driver hands over the oldest request; the last completion is consumed.
Receive(i) ==
  /\ pc = "inread" /\ Asked(i) /\ \A j \in 1..(i - 1) : ~Asked(j)
  /\ inbox' = SubSeq(inbox, i + 1, Len(inbox))

\* The first CONNECT is completed by accept_connection, a later one by the
\* next READ_IO.
ReadConnect(i) ==
  /\ Receive(i) /\ inbox[i].kind = "CONNECT" /\ Goto("top")
  /\ connected' = TRUE
  /\ LET p == inbox[i].from IN
       IF connected
       THEN /\ msgs' = [msgs EXCEPT ![cur] = inbox[i]]
            /\ stage' = [stage EXCEPT ![p] = "held"] /\ UNCHANGED <<attached, history>>
            /\ Prepare(cur, << >>, "own")
            /\ prev_done' = cur
       ELSE /\ stage' = [stage EXCEPT ![p] = "idle"]
            /\ attached' = [attached EXCEPT ![p] = "yes"]
            /\ prev_done' = 0 /\ UNCHANGED <<history, msgs, comp>>
  /\ cur' = next_free(prev_done', pending_msg, deferred_msg)
  /\ UNCHANGED <<pending_msg, deferred_msg, ttyVars, readVars, vt_eof, keyVars,
                 vtout, closed>>

\* may_wait_for_input: the bridge is not handed a second waiting read.
BugInputReadNotDeferred(m) == has_pending /\ m.kind \in LineReads
BugPendingReadBlocksAll(m) == has_pending
MustWait(m) == has_pending /\ m.kind \in Waiting

\* Any other request: a second waiting read is deferred, a third one makes the
\* loop serve input only, everything else is dispatched.
ReadRequest(i) ==
  /\ Receive(i) /\ inbox[i].kind # "CONNECT"
  /\ msgs' = [msgs EXCEPT ![cur] = inbox[i]]
  /\ stage' = [stage EXCEPT ![inbox[i].from] = "held"]
  /\ prev_done' = 0
  /\ IF ~MustWait(inbox[i])
     THEN Dispatch(cur, "current") /\ UNCHANGED <<deferred_msg, cur>>
     ELSE IF deferred_msg = 0
     THEN /\ Goto("top") /\ deferred_msg' = cur
          /\ cur' = next_free(0, pending_msg, cur)
     ELSE Goto("third") /\ UNCHANGED <<deferred_msg, cur>>
  /\ UNCHANGED <<pending_msg, attached, history, ttyVars, readVars, vt_eof, keyVars,
                 comp, vtout, procVars>>

-----------------------------------------------------------------------------
(* pipe_bridge: keys into the waiting read or into the event queue *)

ReadsLine == kind \in LineReads

\* The next key leaves the stream.  A read of the pipe takes all it holds.
BugBatchNotCounted ==
  /\ StreamKeys
  /\ taken' = taken + 1
  /\ fetched' = fetched
TakeKey ==
  /\ StreamKeys
  /\ taken' = taken + 1
  /\ fetched' = IF taken < fetched THEN fetched ELSE Len(typed)

\* input_buffer::write: nothing is added to a full queue.
Queued(k) == IF Len(events) < MaxEvents THEN Append(events, k) ELSE events

\* complete_pending at the end of the input: the read returns what it has.
EndOfInput ==
  CASE ReadsLine -> Finish(line, "own") /\ UNCHANGED <<events, outbuf>>
    [] kind = "GetConsoleInput" ->
         Finish(events, "shared") /\ outbuf' = events /\ events' = << >>
    [] OTHER -> StillWaiting /\ UNCHANGED <<events, outbuf>>

\* process_input on one key.  Ctrl+C ends a line read without data and is never
\* a key; a line read collects characters and ends with Enter; without one a
\* key becomes an event, and a waiting GetConsoleInput takes all events.
ProcessKey(k) ==
  IF typed[k] = "ctrlc" THEN
     /\ IF ReadsLine THEN Finish(<< >>, "own") ELSE StillWaiting
     /\ UNCHANGED <<events, outbuf>>
  ELSE IF ReadsLine THEN
     /\ IF typed[k] = "enter" THEN Finish(Append(line, k), "own")
        ELSE /\ line' = Append(line, k) /\ UNCHANGED <<kind, held>>
             /\ NotComplete /\ UNCHANGED comp
     /\ UNCHANGED <<events, outbuf>>
  ELSE IF kind = "GetConsoleInput" THEN
     /\ Finish(Queued(k), "shared")
     /\ outbuf' = Queued(k) /\ events' = << >>
  ELSE
     /\ events' = Queued(k)
     /\ StillWaiting /\ UNCHANGED outbuf

\* The batch stops at this key: it set _line_found and the rest is put back.
EndsBatch(k) == typed[k] = "enter" \/ (typed[k] = "ctrlc" /\ ReadsLine)

bridgeFrame == <<inbox, ttyVars, slotVars, procVars>>

\* accumulate_from_pipe: everything there is, up to the end of a line.
AccumulateKey ==
  /\ pc = "accumulate" /\ TakeKey /\ ProcessKey(taken + 1) /\ vtout' = {}
  /\ IF EndsBatch(taken + 1) THEN Return(TRUE) ELSE UNCHANGED <<pc, callVars>>
  /\ UNCHANGED <<bridgeFrame, vt_eof>>

AccumulateEnd ==
  /\ pc = "accumulate" /\ ~StreamKeys
  /\ IF vtClosed THEN vt_eof' = TRUE /\ EndOfInput /\ Return(TRUE)
     ELSE /\ StillWaiting /\ Return(FALSE)
          /\ UNCHANGED <<vt_eof, events, outbuf>>
  /\ UNCHANGED <<bridgeFrame, fetched, taken, vtout>>

\* drain_available_vt_input: one batch, or what is left of it.
Drain ==
  /\ pc = "drain" /\ TakeKey /\ ProcessKey(taken + 1) /\ vtout' = {}
  /\ IF EndsBatch(taken + 1) \/ taken' = fetched' THEN Return(TRUE)
     ELSE UNCHANGED <<pc, callVars>>
  /\ UNCHANGED <<bridgeFrame, vt_eof>>

\* on_idle.
OnIdle ==
  /\ pc = "onidle"
  /\ LET ended == sigClosed \/ (vtClosed /\ ~PipeBytes) IN
       IF ~vt_eof /\ ended
       THEN vt_eof' = TRUE /\ EndOfInput /\ Return(FALSE)
       ELSE /\ IF vt_eof \/ ~PipeBytes THEN Return(FALSE)
               ELSE /\ pc' = IF has_pending THEN "accumulate" ELSE "drain"
                    /\ UNCHANGED callVars
            /\ StillWaiting /\ UNCHANGED <<vt_eof, events, outbuf>>
  /\ UNCHANGED <<bridgeFrame, fetched, taken, vtout>>

-----------------------------------------------------------------------------
(* Handlers: message_router::dispatch, api_router and pipe_bridge *)

Kind == msgs[work].kind
Handles(k) == pc = "handle" /\ Kind = k
Returned(b) == pc' = "returned" /\ done' = b /\ UNCHANGED <<ret, work>>
handleFrame == <<inbox, ttyVars, fetched, taken, slotVars>>

HandleWriteConsole ==
  /\ Handles("WriteConsole")
  /\ vtout' = vtout \cup {msgs[work].from}
  /\ Prepare(work, << >>, "own") /\ Returned(TRUE)
  /\ UNCHANGED <<handleFrame, answerVars, readVars, vt_eof, events,
                 outbuf, procVars>>

\* A ReadConsole first takes the events already queued.
BugTypeAheadSkipped(k) == "accumulate"
FirstSource(k) == IF k = "ReadConsole" THEN "consume" ELSE "accumulate"

\* handle_raw_read and handle_console_read: after EOF the read returns nothing.
HandleLineRead ==
  /\ pc = "handle" /\ Kind \in LineReads
  /\ IF vt_eof THEN Prepare(work, << >>, "own") /\ Returned(TRUE) /\ UNCHANGED readVars
     ELSE /\ kind' = Kind /\ held' = work /\ line' = << >>
          /\ pc' = FirstSource(Kind)
          /\ UNCHANGED <<callVars, comp>>
  /\ UNCHANGED <<handleFrame, answerVars, vt_eof, events, outbuf,
                 vtout, procVars>>

\* consume_input_buffer_for_console_read, one event at a time; then the read
\* goes on with the pipe, and a WriteConsoleInput is done.
Consume ==
  /\ pc = "consume" /\ kind = "ReadConsole" /\ events # << >>
  /\ events' = Tail(events)
  /\ LET k == Head(events) IN
       IF Class(k) = "enter"
       THEN Finish(IF k = Injected THEN line ELSE Append(line, k), "own") /\ Returned(TRUE)
       ELSE /\ line' = Append(line, k) /\ UNCHANGED <<kind, held, comp, pc, callVars>>
            /\ NotComplete
  /\ UNCHANGED <<handleFrame, vt_eof, outbuf, vtout, procVars>>

ConsumeEnd ==
  /\ pc = "consume" /\ (events = << >> \/ kind # "ReadConsole")
  /\ IF Kind = "ReadConsole" THEN pc' = "accumulate" /\ UNCHANGED callVars
     ELSE Returned(TRUE)
  /\ UNCHANGED <<handleFrame, answerVars, readVars, vt_eof, events,
                 outbuf, comp, vtout, procVars>>

\* WriteConsoleInput, with on_console_input_written: a waiting GetConsoleInput
\* gets the events, a waiting ReadConsole edits its line with them.
HandleWriteConsoleInput ==
  /\ Handles("WriteConsoleInput")
  /\ LET room == Len(events) < MaxEvents
         answer == [keys |-> << >>, src |-> "own"] IN
     /\ IF room /\ kind = "GetConsoleInput"
        THEN /\ kind' = "None" /\ held' = 0 /\ line' = << >>
             /\ Complete(held, Queued(Injected))
             /\ outbuf' = Queued(Injected) /\ events' = << >>
        ELSE /\ events' = Queued(Injected)
             /\ UNCHANGED <<readVars, answerVars, outbuf>>
     /\ comp' = [comp EXCEPT ![work] = answer]
     /\ IF room /\ kind = "ReadConsole" THEN pc' = "consume" /\ UNCHANGED callVars
        ELSE Returned(TRUE)
  /\ UNCHANGED <<handleFrame, vt_eof, vtout, procVars>>

\* GetConsoleInput, with CONSOLE_READ_NOWAIT (PollInput) or without: first
\* prepare_console_input_events turns every key there is into events, unless a
\* read waits for them.
HandleConsoleInput ==
  /\ pc = "handle" /\ Kind \in {"PollInput", "GetConsoleInput"}
  /\ pc' = "prepare"
  /\ UNCHANGED <<handleFrame, callVars, answerVars, readVars, vt_eof,
                 events, outbuf, comp, vtout, procVars>>

PrepareKey ==
  /\ pc = "prepare" /\ ~has_pending /\ ~vt_eof /\ TakeKey
  /\ ProcessKey(taken + 1) /\ vtout' = {}
  /\ UNCHANGED <<bridgeFrame, pc, callVars, vt_eof>>

PrepareEnd ==
  /\ pc = "prepare" /\ (has_pending \/ vt_eof \/ ~StreamKeys)
  /\ vt_eof' = (vt_eof \/ (~has_pending /\ vtClosed))
  /\ IF events = << >> /\ Kind = "GetConsoleInput"
     THEN /\ kind' = "GetConsoleInput" /\ held' = work /\ line' = << >>
          /\ Returned(FALSE) /\ UNCHANGED <<events, outbuf, comp>>
     ELSE /\ outbuf' = events /\ events' = << >>
          /\ Prepare(work, events, "shared") /\ Returned(TRUE) /\ UNCHANGED readVars
  /\ UNCHANGED <<handleFrame, answerVars, vtout, procVars>>

\* DISCONNECT: text is flushed, and the read the leaver waits for is dropped.
HandleDisconnect ==
  /\ Handles("DISCONNECT")
  /\ vtout' = {}
  /\ closed' = closed \cup {msgs[work].from}
  /\ IF has_pending /\ Proc(msgs[held].from) = msgs[work].from
     THEN /\ kind' = "None" /\ held' = 0 /\ line' = << >>
          /\ msgs' = [msgs EXCEPT ![held] = NoMsg]
     ELSE UNCHANGED <<readVars, msgs>>
  /\ Prepare(work, << >>, "own") /\ Returned(TRUE)
  /\ UNCHANGED <<handleFrame, stage, attached, history, vt_eof, events, outbuf, connected>>

-----------------------------------------------------------------------------
(* The third read: the loop serves input until the bridge is free *)

ThirdFree ==
  /\ pc = "third" /\ ~has_pending
  /\ pending_msg' = 0
  /\ IF should_exit THEN Goto("exit") /\ UNCHANGED deferred_msg
     ELSE IF deferred_msg = 0 THEN Dispatch(cur, "current") /\ UNCHANGED deferred_msg
     ELSE Dispatch(deferred_msg, "third") /\ deferred_msg' = 0
  /\ UNCHANGED <<cur, prev_done, clientVars, history, ttyVars, readVars, vt_eof,
                 keyVars, msgs, comp, vtout, procVars>>

\* wait_for_pending_vt_input: one batch of input, or the end of it.  It blocks
\* while there is neither, and returns at once after EOF.
ThirdWait ==
  /\ pc = "third" /\ has_pending /\ ~vt_eof
  /\ vtout' = {}
  /\ \/ /\ StreamKeys
        /\ pc' = "drain" /\ ret' = "wait" /\ UNCHANGED <<work, done>>
        /\ StillWaiting /\ UNCHANGED <<vt_eof, events, outbuf>>
     \/ /\ ~StreamKeys /\ (sigClosed \/ vtClosed)
        /\ vt_eof' = TRUE /\ EndOfInput
        /\ UNCHANGED <<pc, callVars>>
  /\ UNCHANGED <<bridgeFrame, fetched, taken>>

-----------------------------------------------------------------------------
(* on_message returned to the loop *)

loopFrame == <<inbox, ttyVars, readVars, vt_eof, keyVars, procVars>>

\* A deferred read was dispatched: its completion is sent on its own.
AfterDeferred ==
  /\ pc = "returned" /\ ret \in {"deferred", "third"}
  /\ IF done THEN Submit(work) /\ vtout' = {} /\ UNCHANGED pending_msg
     ELSE pending_msg' = work /\ NotComplete /\ UNCHANGED <<comp, vtout>>
  /\ Goto(IF ret = "third" THEN "third" ELSE IF should_exit THEN "exit" ELSE "idle")
  /\ UNCHANGED <<loopFrame, cur, prev_done, deferred_msg>>

BugReplyBeforeText == should_exit
CompletesNow == vtout # {} \/ should_exit

\* The current message is done: completed at once when there is text to show
\* first or the session ends, else by the next READ_IO.
AfterCurrentDone ==
  /\ pc = "returned" /\ ret = "current" /\ done
  /\ IF CompletesNow
     THEN /\ Submit(work) /\ vtout' = {}
          /\ UNCHANGED <<cur, prev_done>>
          /\ IF vtout # {} THEN CallOnIdle("answered") ELSE Goto("exit")
     ELSE /\ prev_done' = cur /\ cur' = next_free(cur, pending_msg, deferred_msg)
          /\ NotComplete /\ Goto("top") /\ UNCHANGED <<comp, vtout>>
  /\ UNCHANGED <<loopFrame, pending_msg, deferred_msg>>

\* The current message waits in the bridge.
AfterCurrentWaits ==
  /\ pc = "returned" /\ ret = "current" /\ ~done
  /\ pending_msg' = cur
  /\ IF should_exit THEN Goto("exit") /\ UNCHANGED cur
     ELSE Goto("top") /\ cur' = next_free(prev_done, cur, deferred_msg)
  /\ NotComplete
  /\ UNCHANGED <<loopFrame, prev_done, deferred_msg, comp, vtout>>

\* The loop has ended, or the third read's loop turns without any effect.
Ended ==
  /\ \/ pc = "exit"
     \/ pc = "third" /\ has_pending /\ vt_eof
  /\ UNCHANGED vars

-----------------------------------------------------------------------------
(* Specification *)

Init ==
  /\ stage = [r \in Requesters |-> "idle"] /\ attached = [p \in Processes |-> "no"]
  /\ inbox = << >> /\ got = [t \in Threads |-> {}] /\ wrong = {}
  /\ typed = << >> /\ vtClosed = FALSE /\ sigClosed = FALSE
  /\ kind = "None" /\ held = 0 /\ vt_eof = FALSE /\ line = << >>
  /\ fetched = 0 /\ taken = 0 /\ events = << >> /\ outbuf = << >>
  /\ pc = "top" /\ ret = "none" /\ work = 0 /\ done = FALSE
  /\ cur = 1 /\ prev_done = 0 /\ pending_msg = 0 /\ deferred_msg = 0
  /\ msgs = [b \in Buffers |-> NoMsg] /\ comp = [b \in Buffers |-> NoComp]
  /\ vtout = {} /\ connected = FALSE /\ closed = {}

Loop ==
  \/ TopDeferred \/ Top \/ Idle \/ Idled \/ EnterRead
  \/ Woken \/ Disconnected
  \/ \E i \in DOMAIN inbox : ReadConnect(i) \/ ReadRequest(i)
  \/ AccumulateKey \/ AccumulateEnd \/ Drain \/ OnIdle
  \/ HandleWriteConsole \/ HandleLineRead \/ Consume \/ ConsumeEnd
  \/ HandleWriteConsoleInput \/ HandleConsoleInput \/ PrepareKey \/ PrepareEnd
  \/ HandleDisconnect \/ ThirdFree \/ ThirdWait
  \/ AfterDeferred \/ AfterCurrentDone \/ AfterCurrentWaits

Next == Loop \/ NudgedByEof \/ Environment \/ Ended

Spec == Init /\ [][Next]_vars

\* The server thread and the driver keep going; users and clients need not, and
\* the one cancel at end of file may miss.  A client that calls without pause
\* leaves READ_IO something to read nearly always: the 10 ms tick meets a
\* blocked READ_IO in the end because it tries again and again.  Nor do the ticks keep
\* requests out: READ_IO has what the driver holds long before the next one.
Delivered == \E i \in DOMAIN inbox : ReadConnect(i) \/ ReadRequest(i)
FairSpec == Spec /\ WF_vars(Loop) /\ SF_vars(Woken) /\ SF_vars(Delivered)

-----------------------------------------------------------------------------
(* Properties *)

Message ==
  [kind : Calls, from : Threads] \cup [kind : {"CONNECT", "DISCONNECT"}, from : Processes]
Completion == [keys : Seq(Nat), src : {"none", "own", "shared"}]

AnswerTypes ==
  /\ stage \in [Requesters -> {"idle", "sent", "held", "dead"}]
  /\ attached \in [Processes -> {"no", "yes", "left"}]
  /\ got \in [Threads -> SUBSET Nat] /\ wrong \subseteq {"twice", "order"}
  /\ msgs \in [Buffers -> {NoMsg} \cup Message]

ReadTypes ==
  /\ kind \in Waiting \cup {"None"} /\ held \in Slots
  /\ line \in Seq(Nat) /\ events \in Seq(Nat) /\ outbuf \in Seq(Nat)
  /\ comp \in [Buffers -> Completion]

StreamTypes ==
  /\ typed \in Seq(KeyClasses)
  /\ taken \in Nat /\ fetched \in taken..Len(typed)

SlotTypes ==
  /\ work \in Slots /\ cur \in Buffers /\ prev_done \in Slots
  /\ pending_msg \in Slots /\ deferred_msg \in Slots

ControlTypes ==
  /\ inbox \in Seq(Message)
  /\ pc \in {"top", "idle", "onidle", "idled", "read", "inread", "handle", "consume",
             "accumulate", "prepare", "drain", "returned", "third", "exit"}
  /\ ret \in {"none", "free", "pending", "no_message", "answered", "wait",
              "deferred", "current", "third"}
  /\ vtout \subseteq Threads /\ closed \subseteq Processes

FlagTypes ==
  /\ vtClosed \in BOOLEAN /\ sigClosed \in BOOLEAN /\ vt_eof \in BOOLEAN
  /\ done \in BOOLEAN /\ connected \in BOOLEAN

\* Types: every variable has the shape its C++ counterpart has; in particular no
\* more keys are processed than were fetched, and no more fetched than typed.
TypeOK ==
  AnswerTypes /\ ReadTypes /\ StreamTypes /\ SlotTypes /\ ControlTypes /\ FlagTypes

\* READ_IO never reads over a message that is still needed: one whose completion
\* it carries, the waiting read or the deferred read.
BuffersDisjoint ==
  pc = "inread" =>
    /\ cur \notin {prev_done, held, deferred_msg}
    /\ msgs[cur] = NoMsg /\ comp[cur] = NoComp

\* A request in the server's hands is never forgotten: while the loop blocks in
\* READ_IO the only ones open are the waiting read and the deferred one.
NothingForgotten ==
  pc = "inread" =>
    \A r \in Requesters : stage[r] = "held" =>
      \E b \in {held, deferred_msg} \ {0} : msgs[b].from = r

\* No request is completed twice: a handler's own completion is submitted by the
\* loop only, an explicit one is not submitted again.
AnsweredOnce == "twice" \notin wrong

AnswersAfterText ==
  \A t \in Threads : stage[t] = "held" /\ stage'[t] = "idle" => t \notin vtout'

\* A WriteConsole is answered only when the terminal has its text.
OutputBeforeReply == [][AnswersAfterText]_vars

\* A reply that points into the shared GetConsoleInput buffer still finds its
\* records there when READ_IO submits it.
ReplyBufferStable ==
  prev_done # 0 /\ comp[prev_done].src = "shared" => outbuf = comp[prev_done].keys

\* Once the DISCONNECT of a process was served, neither the waiting nor the
\* deferred read is one of its threads'.
LeaverReadsDropped ==
  \A b \in {held, deferred_msg} \ {0} :
    Proc(msgs[b].from) \notin closed

\* After EOF no read waits: pending and later reads complete at once.
EofEndsReads == pc = "inread" => ~(vt_eof /\ has_pending)

\* Once the waiting read is completed the deferred one is dispatched, the more so
\* when there are keys for it.
DeferredDispatched ==
  (deferred_msg # 0 /\ ~has_pending /\ StreamKeys) ~> (deferred_msg = 0 \/ pc = "exit")

\* A WriteConsole is answered although reads of two other threads wait for input; with a
\* third one the loop serves input only, until somebody types (ThirdWait).
Asks(t, k) == \E i \in DOMAIN inbox : inbox[i] = [kind |-> k, from |-> t] /\ stage[t] = "sent"
Writers == {t \in Threads : "WriteConsole" \in Uses[t]}
WritesServed ==
  \A t \in Writers :
    Asks(t, "WriteConsole") ~>
      (stage[t] = "idle" \/ pc = "exit" \/ [](pc = "third" /\ has_pending))

\* When the terminal closes the signal pipe the server ends, whatever line reads wait and in
\* whichever loop; only a GetConsoleInput that began to wait behind the end of the input
\* keeps it for good (the finding of EofEndsReads).
SessionEnds == sigClosed ~> (pc = "exit" \/ [](vt_eof /\ kind = "GetConsoleInput"))

\* Line readers get the keys in the order they were typed, none twice and none
\* skipped: those typed ahead, those a finished line left behind, and those that
\* come while a read waits.  (Ctrl+C drops keys, and so does a full event queue.)
KeysInOrder ==
  /\ "order" \notin wrong
  /\ \A t \in Threads : \A k \in got[t] : \A j \in 1..k :
       \/ \E u \in Threads : j \in got[u]
       \/ \E b \in Buffers : \E i \in DOMAIN comp[b].keys : comp[b].keys[i] = j

=============================================================================
