# corehost in TLA+

corehost is a replacement for the Windows console host: it serves console
clients that reach it through the ConDrv driver, and it shows them on a
terminal it talks to through two pipes of VT text (`vt_in`, `vt_out`) and a pipe
of signals.  This directory models how the server behaves, checks the models
with TLC on small instances, and proves with TLAPS what it can prove for every
instance.  `PROJECT.json` lists the components, the runs, the source lines each
definition stands for, the mutants each property rejects, the hazards, and the
findings.

## 1. Inventory

Paths are under `src/`; `libcorehost/` is the server library.

| Component | State | Operations | Hard part | What makes it correct |
|---|---|---|---|---|
| I/O loop (`io_loop.hpp`), router (`message_router.hpp`) | four message buffers; current request, completion to submit, waiting read, deferred read | READ_IO, COMPLETE_IO, on_idle, third-read loop | requests of several threads in flight; a read may wait while others are served | no buffer reused while needed; every request answered once; text shown before the answer |
| waiting read (`pipe_bridge.hpp`, `pending_io_state.hpp`) | the one waiting read, `vt_eof`, the request being served, the shared reply buffer | begin, complete, EOF, drop at DISCONNECT | completion from inside a handler, from on_idle, from another client's WriteConsoleInput | keys in order, none twice; EOF ends reads |
| byte stream (`pipe_bridge.hpp`) | `_readbuf`, `_read_total`, `_queued_vt_input`, line, events | accumulate, drain, put back | line ends split over batches, a full buffer, initial data | a FIFO: every byte to one read, in order |
| input records (`input_buffer.hpp`) | queue of INPUT_RECORDs, the event clients wait on | keys, GetConsoleInput, WriteConsoleInput, flush | a full queue, records put in front, a waiting reader | event set exactly while there is something; readers get what was queued, in order |
| waker and vt_in reader (`io_loop.hpp`, `pipe_bridge_io.hpp`) | `_in_read`, `_reader`, the reader's queue, stop and EOF flags; two helper threads | nudge, tick, enter/leave_read, start, stop | cancels race with the loop; lost wake-ups; shutdown order | cancels hit READ_IO only; input and signals reach the loop; threads end |
| signal pipes (`signal.cpp`, `defterm/signal.cpp`, `libconpty.hpp`) | newest resize, newest clear; both ends | poll, forward | framing over two reads | reader and writer agree on every message |
| line editor, history (`pipe_bridge.hpp`, `command_history_state.hpp`) | cooked line, edit position, commands, browse index, believed cursor | editing keys, browsing, output | what the terminal's row really shows | the row shows the line; browsing gives the draft back |
| cursor synchronisation (`pipe_bridge.hpp`, `terminal_cursor_state.hpp`) | queries outstanding, wanted, inherited cursor | DSR, CPR, resize, clear | replies, output and resizes cross | positions agree once resizes settle |
| processes and objects (`io_state.hpp`, `process_list_snapshot.hpp`) | process list with groups, object ids, a snapshot | CONNECT, DISCONNECT, CREATE/CLOSE_OBJECT, Ctrl+C | copies that go stale, reused ids, 64 entries | snapshot equals list; an id keeps its kind |
| API router and settings (`api_router.hpp`, `console_state.hpp`) | modes, code pages, titles, font, history size | some 80 console calls | refused calls, several calls for one setting | what was set is read back |
| aliases (`api_handlers.hpp`) | two tables, command history | add, erase, find, list | two tables, lengths in units or bytes | an exe finds what it set; announced lengths suffice |
| text on the terminal (`api_handlers.hpp`, `vt_msg_dispatch.hpp`) | default attribute, saved cursor, visibility, title; cells | WriteConsole, fills, scroll, WriteConsoleOutput | every call has to change model and terminal alike | both have the same state and show the same |
| screen buffers (`api_router.hpp`, `console_viewport.hpp`) | two buffers, viewport of each, saved cursors | sizes, windows, switching, terminal resize | resizing behind the active buffer | buffers fit the size told; cursor placed |
| screen rows (`screen_buffer_row.hpp`) | text, offsets, attributes in three layouts | write, fill, insert, delete, convert | wide characters cut in half, fast paths | the row reads as it was written |
| VT parser (`vt_parser.hpp`, `input_engine.hpp`) | parser state, parameters | feed | sequences split over reads, leftovers | a message depends on its own characters |
| conversion (`char_convert.hpp`) | tail of an unfinished character | encode, decode | characters cut by writes and buffers | characters stay whole |
| start (`corehost/defterm`, `corehost/comserver`, `corehost/cli`, `libconpty`) | first CONNECT, handoff result, command line | accept, offer, EstablishHandoff, parse | wake-up on every path; who serves | one server; the host does what its creator asked |
| VT output (`output_buffer.hpp`), session entry, common, proxy, bench, tests | bytes not written yet | append, flush | order with completions | flushed before the answer (in `IoLoop`); the rest is not modelled |

**How they interact.**  A client thread makes a console call and blocks; ConDrv
queues the request.  The loop takes one request per READ_IO, and the same call
carries the completion of the previous one (`prev_done`).  The router hands the
request to pipe_bridge or an API handler, which prepares the completion, or
keeps the request as the bridge's *waiting read*.  Terminal bytes come through a
reader thread's queue; since they do not wake the driver handle, the reader
(`nudge`) and a 10 ms ticker cancel READ_IO so that the loop runs `on_idle`,
which turns bytes into events, completes the waiting read with an explicit
COMPLETE_IO, or finds the end of the input.  Handlers change the console's own
state and append VT text for the terminal.  All console state stays on the loop
thread; only the queue and the flags of the waker are shared.

## 2. Plan and state

| # | Modules | State |
|---|---|---|
| 1 | `IoLoop`, `IdleWaker`, with `IoLoop_proofs`, `IdleWaker_proofs` | done, proved |
| 2 | `BridgeInput` implements `InputStream`; `BridgeInput_proofs` | done, proved |
| 3 | `CursorSync`, `CursorSync_proofs` | done, proved |
| | `Objects`, `LineEditor`, in `Session_proofs` | done, proved |
| | `InputRecords`, in `Screens_proofs` | done, proved |
| 4 | `Screens`, `Screens_proofs` | done, proved |
| | `VtParser`, in `Screens_proofs` | done, proved |
| | `ScreenRow`, `ScreenModel`, `TextCodec` | done, checked |
| 5 | `TerminalState`, `TerminalState_proofs` | done, proved |
| 6 | `Aliases`, `Settings`, in `Session_proofs` | done, proved (not the listings) |
| 7 | `Handoff`, `Handoff_proofs` | done, proved |
| | `SignalPipe`, `Launch`, in `Session_proofs` | done, proved |
| 8 | what section 5 leaves to TLC; inline images, DCS payloads, the canceller | open |

## 3. Modules

### IoLoop

One action is what the loop thread does between two points at which the outside
can be seen to have moved (READ_IO, COMPLETE_IO, a look at the terminal).
`pc` names the place in `run_io_loop_no_setup`, `ret` on whose behalf the bridge
is working, so that a bridge operation such as `OnIdle` or `Drain` is one action
with several callers, as one function is in the code.

| Model | Code |
|---|---|
| `cur`, `prev_done`, `pending_msg`, `deferred_msg`, `msgs` | the pointers of `run_io_loop_no_setup` and the four messages they point to; 0 is `nullptr` |
| `comp` | `msg.complete`; `src = "shared"` when `Write.Data` points into `_console_input_output_buffer` (`outbuf`) |
| `kind`, `held`, `vt_eof` | `pending_io_state` |
| `Serving` | `serving_guard`: the completion is left to the loop |
| `line`, `events`, `taken`, `fetched` | cooked line / read buffer, `input_buffer`, keys processed, keys out of the pipe |
| `vtout` | the threads whose text is in the VT output buffer |
| `TopDeferred` .. `EnterRead` | the loop down to READ_IO |
| `ReadConnect`, `ReadRequest`, `NoMessage`, `Disconnected` | what READ_IO brings |
| `Handle...`, `Consume`, `Prepare...`, `Accumulate...`, `Drain`, `OnIdle` | router, handlers, bridge |
| `ThirdFree`, `ThirdWait` | the third-read loop |
| `AfterDeferred`, `AfterCurrent...` | what the loop does with the result of `on_message` |
| `Attach`, `Call`, `Exit`, `Type`, `Close` | clients and terminal, external |

`stage`, `got` and `wrong` record what the driver and the clients see: `wrong`
holds "twice" once a completion came for a request nobody waits for, and "order"
once a thread got a key out of order or a second time.  When a process exits the
driver forgets its queued requests (their `inbox` entries are void: `Asked`) and
queues a DISCONNECT.  `Woken` and `NudgedByEof` stand for the helper threads, which `IdleWaker` details.

Left out of the model: the empty descriptor (`Function == 0`); READ_IO returning
`io_pending` with nothing waiting; the early flush above the VT buffer's
threshold (it only flushes earlier); a waker thread that could not be created;
what `BridgeInput` and `InputRecords` have (`_readbuf` with its size and its stall
when no read comes, win32-input-mode keys, keys without text such as Tab, initial
data, ^Z, the peek flag and record limits); the three loop exits on an abandoned
wait.  A key is one number with a class, not bytes.  That bytes leave the pipe is
therefore said by `BridgeInput` (`BytesTaken`), not here.

### IdleWaker

One step is one critical section or one Windows call.  `io` is what the loop has
in flight on the server handle, so `Cancel` turns a READ_IO into a cancelled one
and records in `stray` that it hit anything else.  `lock` is only ever held
across steps by the ticker (it asks the reader's queue with `_lock` held); the
other critical sections are one step guarded by `~lock`.  `enter_read` and the
start of READ_IO are two steps: that is the window in which a cancel misses.

| Model | Code |
|---|---|
| `in_read`, `use_reader`, `lock`, `quit` | `_in_read`, `_reader`, `_lock`, `_stop` of `idle_input_waker` |
| `reader`, `chunk`, `queue`, `eof`, `stop` | `reader_main` and `reader_state` |
| `StartReader`, `UseReader`, `ForgetReader`, `StopReader` | `vt_input_reader_scope`, `start_reader`, `stop_reader` |
| `CancelReader` | the `CancelSynchronousIo` loop of `stop_reader` |
| `TickBegins`, `TickLocks`, `TickActs` | `idle_input_waker::run` |
| `nudge`, `enter_read`, `leave_read` | the functions of these names |

`StartReader` may fail to make a reader, and then ticks peek the pipe.

### InputStream and BridgeInput

`InputStream` is the promise: what is typed passes through two stages, bytes not
looked at and keys, and every answer takes a prefix.  `BridgeInput` is the code:
a batch is taken from the queue or the pipe into `_readbuf`, processed byte by
byte, and what stands behind a line end goes back to the queue.  The refinement
mapping (`Stream == INSTANCE InputStream WITH ...`) puts `batch`, `queued` and
`pipe`, in this order, for the bytes (for a raw read `buf` in place of `batch`: it
answers with bytes, `seen` of which were looked at), and the events for the keys.
`StreamSpec` is the abstract specification as a property of the run, but for the step
in which the code overlooks a line feed (`LfOverlooked`, section 7).

A few bytes stand for many.  `Tab` and a `^Z` that ends no read are the keys that
become events whoever reads (`SpecialKeys`: Tab, Insert, page and function keys, ^Z
without `process_control_z`): while a ReadConsole waits they stay in the event queue,
which is why `InputStream` has a rule of its own for them and `WaitingMeansDrained`
allows them there.  `Enter` is an Enter key in win32-input-mode, `^C` one typed under
ENABLE_PROCESSED_INPUT.

| Model | Code |
|---|---|
| `buf`, `Room`, `TakeBytes` | `_readbuf`, `_read_total`, `read_available_vt_input` |
| `queued`, `PutBack` | `_queued_vt_input`, `queue_unprocessed_vt_input` |
| `proc_z` | `process_control_z` of the waiting read |
| `mode` | which of `accumulate_from_pipe`, the initial data, `prepare_console_input_events` or one look of `on_idle` is running; "own" is `accumulate_from_pipe` after the initial data ended the read |
| `request` | what the client's request has come to; "empty_reply" is finding 6, "lost" is finding 8 |

`BridgeInput` serves one read at a time; who comes when is `IoLoop`'s.

### CursorSync

The other half of the bridge that waits for the terminal: where its cursor is.
`to_terminal` and `replies` are the two pipes, `wanted` and `outstanding` the
queries, `crossed` remembers output the synchronisation cannot account for.

| Model | Code |
|---|---|
| `poll_signal` | `poll_signal_closed`, `apply_terminal_resize`, `apply_terminal_clear` |
| `send_wanted_cursor_sync`, `Write` | `want_cursor_sync`, `send_wanted_cursor_sync`, `set_raw_output_mid_sequence` |
| `process_input_cpr_response`, `take_resize_sync_replies`, `finish_resize_sync` | the functions of these names |

### The parts in MCSession

Each of these modules is the state of one component with one action per
operation.  They share no variable, so `MCSession` checks them in one run: `focus`
names the part that moves in a behaviour, the others stay in an initial state.
The product of their states would add nothing, and a property of the run says
what the module's own property says of the part in focus.

| Module | Model | Code |
|---|---|---|
| `LineEditor` | `cooked`, `at`, `browse`, `saved`; `column` and `valid` are the believed cursor, `terminal` the row of the terminal | `edit_*`, `_history_*`, `command_history_state`, `terminal_cursor_state` |
| `Objects` | `process_list`, `snapshot`, object ids; `opened` is the history of handles; the session starts without a client, with defterm's (`ClientBefore`: listed with group 0) or with the COM server's (attached, not listed); `groupless`, `unlisted` name the exceptions | `io_state`, `process_list_snapshot`, `send_ctrl_event` |
| `InputRecords` | `events`, `event_set`, `waiting`; `due` is what clients have coming by what they were told | `input_buffer`, `handle_console_input`, `api_write_console_input`, `consume_input_buffer_for_console_read` |
| `ScreenRow` | the row record in its three layouts; `cells` is the plain meaning | `screen_buffer_row` |
| `ScreenModel` | `m` the console's screen, `t` the terminal's | `screen_buffer`, `vt_msg_apply_state`, the drawing handlers; the terminal is external |
| `Screens` | both buffers, viewports and saved cursors; `window` is the terminal's | `switch_active_screen_buffer`, `console_viewport`, `apply_terminal_resize`, size and window calls |
| `VtParser` | `parser`; `fresh` is what a parser that heard nothing before makes of the same characters, for `HistoryFree`'s comparison | `vt_parser`, `process_input`, `input_engine` |
| `TextCodec` | bytes as (character, place) | `write_console_payload`'s decoding, `prepare_console_read_completion` |
| `TerminalState` | `session` and `term`: attribute, saved attribute, visibility, title on both sides; `apart` names what a call put apart | the handlers that draw, `vt_msg_send`, `vt_write_attr`, `vt_msg_apply_state` |
| `Aliases` | `aliases`, `aliases_by_exe`, `announced` | the alias and history calls |
| `Settings` | `state` is `console_state`, `told` what clients set | `api_router`, the settings calls |
| `Handoff` | defterm's loop with two message buffers, terminal candidates, COM servers | `defterm.cpp`, `com_server.cpp` |
| `SignalPipe` | two pipes byte by byte | `signal.cpp`, `defterm/signal.cpp`, `libconpty.hpp` |
| `Launch` | a command line as tokens | `console_arguments.hpp`, `main.cpp`, `BuildConhostCommandLine` |

What they leave out, where it is not said in their headers:

* `LineEditor`: wide characters, lines longer than a row, F keys, the raw echo of a Tab
  (`pipe_bridge.hpp:3181`), which moves the terminal's cursor and not the line.
* `ScreenModel`: attributes (in `TerminalState`), wide characters (in `ScreenRow`).
* `TerminalState`: the flags of an attribute, which never reach the terminal, line
  drawing, tab stops, cursor positions.  `apart` is set only by the calls its
  comments name: extended colours, an SGR whose reset is not first, a restore
  without a save, a screen switch, a soft reset, WriteConsoleOutput on the
  terminal's saved cursor, an empty title, SetConsoleScreenBufferInfo and a
  repaint.  In these the code parts from the terminal (section 7).
* `InputRecords`: which character a lead and a trail byte make.
* `Handoff`: `duplicate_self` does not fail; a terminal with the marker is passed over.
* `SignalPipe`: a message is written whole (one WriteFile of a few bytes).
* `Settings`: mouse buttons, selection and window handle, which no call sets.

### MCIoLoop, MCServer, MCBridgeInput, MCBridge, MCSession

Values of the constants.  `MCServer` puts `IoLoop` beside `IdleWaker`: `part` names what
moves, the loop with line readers ("lines"), the loop with three reads or two and a
writer in a session that ends ("reads"), or the helper threads ("waker").  `MCBridge` puts `CursorSync` beside `BridgeInput`: `half`
names the one that moves.  `MCSession` composes its parts likewise.  `MCBridge` extends
`CursorSync`, and `MCSession` extends the modules of its parts that have theorems
(`TerminalState`, `Handoff`, `Objects`, `Screens`, `LineEditor`, `Aliases`, `Settings`,
`Launch`, `SignalPipe`, `VtParser`, `InputRecords`), so that TLC evaluates the assumptions their proofs use and
checks the very properties the theorems are about; it takes its other parts by
INSTANCE.  `TerminalState` has two focuses: a behaviour moves the title ("titles") or
the rest ("term"), because no call touches both.

## 4. Runs

| Run | Instance | Shows |
|---|---|---|
| `server_loop` | 3 threads, 2 processes of which one leaves, every kind of call, one key of any class, event queue of 1; 4.4 million states | `TypeOK`; `BuffersDisjoint`, `NothingForgotten`, `AnsweredOnce`, `OutputBeforeReply` |
| `server_live` | `MCServer`: two ReadConsole threads with 2 keys; or a ReadConsole, a GetConsoleInput and a thread that reads or writes, 1 key, signal pipe; or the waker with 2 bytes, 2 requests, queue of 1, with and without reader; 0.1 million states | `TypeOK`, `CancelHitsReadIo`, `OneUserOfPipe`, `KeysInOrder`; under fairness `InputTaken`, `SignalServed`, `ShutdownEnds`, `WritesServed`, `SessionEnds` |
| `bridge_input` | 3 bytes of 6 kinds, buffer of 2, capacities 1 and 2, raw, line and record reads, no initial text, `a`, or Tab CR (its bytes are counted with the others); two writes, two resizes or clears; 0.9 million states | `TypeOK`, `RequestKept`, `WaitingMeansDrained`, the refinement `StreamSpec`, `CursorsAgree`, `QueryBetweenSequences`; under fairness `LineAnswered`, `BytesTaken`, `ResizeSettles` |
| `session_parts` | the parts of section 3, sizes in `MCSession`; 0.3 million states | a property or two of each part |
| `shared_reply_buffer`, `departed_deferred_read`, `input_read_at_eof`, `stranded_deferred_read`, `eof_wakeup`, `reply_without_answer`, `idle_input_stalls`, `initial_line_lost` | as above | the findings of section 6 |

**Bounds.**  Calls, attaches and DISCONNECTs are not counted where repeating them
adds no state.  Three threads are the fewest that reach the third-read loop (one
read waits, one is deferred, one comes on top), and they use all four buffers.
One key is enough for `server_loop`: buffers and answers are disturbed by *who
completes which request when*.  Order needs a second key (`server_live`).  A queue
of one event is full at once.  In `bridge_input` three bytes hold a CR LF pair
with a character before or behind it, and they overfill a buffer of two, which a raw
read of one byte never fills; two writes and two resizes cross each other in every order.
`server_live` reaches the third-read loop with a GetConsoleInput in any of the three
places; a session that ends needs no second key.
In `session_parts`: rows of 2 and 3 columns have a wide character at both edges and
in the middle, a screen of 2 x 3 scrolls with a line above and below (it starts with the
cursor in the last row, at a lower and at an upper margin),
three processes exceed
a list of two, sequences of 5 characters hold every transition with two
parameters, three input records fill the queue and two are written at once,
two calls set a setting in every order.

**Deadlock** is checked in the `IoLoop` and `IdleWaker` runs, whose only end is the
loop's (`Ended`).  The other models stop where their bounds do.

**Fairness.**  `IoLoop!FairSpec`: weak fairness of the loop (one thread that is
never blocked for ever by the model's steps: READ_IO is an action of `Loop` only
while there is something to read) and strong fairness of `Woken`, because a busy
client can interrupt READ_IO between any two ticks, while the ticker tries every
10 ms, and of `Delivered`, because READ_IO takes a request the driver holds long
before the next tick, so that ticks do not keep requests out.  Clients, the user and
the terminal owe nothing, and neither does the single wake-up at EOF
(`NudgedByEof`).  `IdleWaker!FairSpec`: weak fairness of the ticker; strong fairness
of the loop and the reader, whose steps the ticker's lock disables only for the
moment of a tick: between ticks it sleeps 10 ms.  `MCServer!ServerSpec` is the two
together, `MCBridge!BridgeSpec` weak fairness of the loop thread's steps in both
halves (`BridgeInput!FairSpec`, `CursorSync!FairSyncSpec`) and of a terminal that
reads its pipe and answers queries.  `MCSession` has only safety properties and no
fairness.

## 5. Proofs

All theorems hold for every value of the constants that satisfies the named
assumptions (`ThreadsAssumption`, `BoundsAssumption`, `BytesAssumption`, `SizesAssumption`,
`TerminalStateAssumption`, `HandoffAssumption`, `ObjectsAssumption`, `ScreensAssumption`,
`CursorSyncAssumption`, `LineEditorAssumption`, `SettingsAssumption`,
`LaunchAssumption`, `SignalPipeAssumption`).  Every inductive invariant below
was checked by TLC on the instances of section 4, or larger ones, before it was
proved.  Proofs are laid out alike: one lemma per action or group of actions, one
for the initial states, and a theorem that puts them together.

**The loop** (`IoLoop_proofs`).

* `TypeCorrect`: `TypeOK` is not inductive: what a handler prepares, and what a
  deferred read becomes, is stored at index `work`, which may be 0 between
  dispatches.  `RoleInv` says that a handler runs on behalf of a dispatch and that a
  dispatch works on a buffer.
* `TextBeforeAnswer`: `OutputBeforeReply`.  `TextInv` says where text can be: only
  between the handler of the current message and the loop's reaction to its
  result.  Hence no completion submitted at READ_IO, at on_idle or after a deferred
  read can overtake text, and the loop's reaction flushes first.
* `ReadsIntoFreeBuffer`, `RequestsRemembered`, `OneAnswerEach`: `BuffersDisjoint`,
  `NothingForgotten` and `AnsweredOnce` are three views of one invariant,
  `AnswerInv`, which says who owns what at each place of the loop.  `PlaceInv` gives
  the roles that are possible at a place, `DistinctInv` that buffers in different
  roles differ (the third-read loop, which uses the buffer of the deferred read
  while the waiting one is completed, is where this is subtle), `OwnerInv` that a
  message is held in one buffer and by a requester the driver waits on,
  `ServingInv` what a handler may complete itself, `RequestInv` and `ClientInv` that
  the driver, the clients and the buffers agree on which requests are open, across
  departures.
* `LinesInOrder`, `NoKeySkipped`: the two halves of `KeysInOrder`, for clients that
  only write and read lines with ReadConsole (`LineReadersOnly`: a RAW_READ passes
  queued events by, and GetConsoleInput replies share a buffer, section 6).  No
  thread gets a key after a later one, and none gets a key twice, also with Ctrl+C,
  a full event queue and readers that leave.  When none of these drops keys
  (`KeepsAll`; a queue with room for every key typed) none is skipped.  `KeyInv`
  orders the keys taken so far over the places they can be in: those handed over or
  in a prepared answer come before those in the line, these before the queued
  events (`InLine`), and a prepared answer comes after all its thread has
  (`Prepared`).  That completions are prepared before, but submitted after, others
  overtake them is what makes `Prepared` necessary; `AnswerInv` is used throughout.

**Helper threads** (`IdleWaker_proofs`).

* `TypeCorrect`: types and that no byte is in two places.
* `CancelsOnlyReadIo`: `CancelHitsReadIo` from `LockInv`, which ties the loop's place
  to `in_read` and `io`: while a COMPLETE_IO is in flight the flag is down, and a
  ticker that holds the lock saw it up.
* `PipeHasOneUser`: `OneUserOfPipe` from `LockInv` and `ReaderInv`, which says in
  which places of the loop a reader exists and is in use.

**The byte stream** (`BridgeInput_proofs`).

* `BufferNeverOverrun`: `TypeOK`, with its bound on `_readbuf`, from `TypeInv`: how
  much of the buffer a batch may take, and which read can be there at all, depends on
  who asked for the batch (`ModeInv`).
* `HandlersTellTheTruth`, `NoReadIsStranded`: `RequestKept` from `HoldsInv` (what the
  request has come to fits the kind of read, at each place of the bridge),
  `WaitingMeansDrained` from it and `DrainedInv` (what each operation has emptied
  before it leaves a read waiting; behind a line read keys without text may stay).
* `AnswersFollowTheStream`: the refinement `StreamSpec`.  The initial states map to
  initial states, and each action to a step of `InputStream`, to nothing, or to the
  overlooked line feed; `StreamInv` says where the unread bytes are in each mode, so
  that moving them between buffers leaves their concatenation as it was.

All four hold for any initial texts.  One that ends its own read leaves the handler
in the mode "own", in which nothing waits and nothing is prepared any more for the
bytes still to be read: this is the case the invariants distinguish throughout, and
the one in which `RequestKept` lets the answer be lost (section 6).

**The cursor** (`CursorSync_proofs`).

* `NoQueryInsideASequence`: `QueryBetweenSequences` from `HalvesInv`: behind the
  first half of a sequence comes its rest, or `mid` is set.
* `ModelFindsTheCursor`: `CursorsAgree`.  The invariant looks ahead: it holds what
  the terminal is going to do with the output on its way.  This would be a recursive
  function and an induction over the output; instead `SyncInv` says that a course of
  the cursor through the output exists (`Course`), with the places of the queries in
  it (`QueriesAt`), such that the queries outstanding are those and the replies on
  their way, and the model moved by the newest one's answer is where the course
  ends.  Each step makes a new course from the old one.

**Handing over** (`Handoff_proofs`).

* `ConsoleHasOneServer`: `OneServer`.  `CallInv`: candidates are called one after the
  other, each once.  `ServerInv`: a server has a result only when its call succeeds,
  and only the current candidate can.  `RequestInv`, `ClientInv`: the requests queued
  and the one in defterm's hands are from different clients that wait for just
  that, and a client that waits has one, or the console was given up.

**Processes and handles** (`Session_proofs`, as the five that follow).

* `ControlEventsFindTheirGroup`: `SnapshotCurrent`, for any processes, groups, capacity
  of the list and start of the session.  `ListInv`: the list names each attached
  process once, but for those in `unlisted`, with its group at the same place, or 0
  for those in `groupless` (`ListedGroup`), and the API's copy is that list.  With
  these the search by group in the copy finds the members of the group whose group is
  known and no others, after any removals from the middle.  The exceptions are named:
  a full list, the COM server's client, defterm's client, a group that was not read.
* `HandlesKeepTheirKind`: `KindKept`, for any handle values except 0.  `HandleInv`:
  an open handle is one of the connection's own or has an entry, an entry tells the
  kind the handle was opened with, and a remembered latest id is 0 or open.

**The line editor.**

* `LineStaysShown`, `DraftComesBack`: `LineShown` and `DraftKept`, for any characters,
  prompts, aliases and history size; the row holds the prompt and the longest line
  (`LineEditorAssumption`).  `EditorInv`: the row shows the line from the column where
  it starts and is blank behind it, also between two reads, when the line is empty
  (`RowInv`: a read begins on a row the last one left); the history has no entry twice
  in a row and keeps its limit; while browsing, the draft is the saved line
  (`DraftHeld`).  Each editing key is a lemma on what it does to line and row.

**Aliases.**

* `ExesKeepTheirAliases`: `AliasKept`, for any names.  `OwnInv`: what an exe set last
  stands in the exe's own table, which is looked at first, whatever other exes do to
  the global one.

**Settings.**

* `ClientsReadBack`: `ReadsBack`, for any code pages, modes, titles and sizes.
  `ToldInv` ties each field of `console_state` to the call that set it last,
  `AnswerInv` the last answer to what was told.  A title that does not fit its reader's
  room is cut to the longest prefix that does (`PrefixFits`); that there is a longest
  one is a least-number argument (`LargestNumber`).

**The command line.**

* `HostsRunAsAsked`: `LaunchedAsAsked`, for any sizes, handles and commands of a user.
  Four kinds of creator (`ConptyInv`, `WindowsInv`, `ComInv`, `UserInv`) write different
  lines; each part says what is left of the line at each turn of the parser and which
  options have been set so far.  For libconpty these are the eight prefixes of the
  options it writes (`HasRead`, `LineRead`), and a size it should not have passed ends
  in a refusal.

**The signal pipes.**

* `SignalsArriveInStep`: `SignalsInStep`, for any sizes, windows and number of
  messages.  `Whole`: a pipe holds whole messages, one behind the other, so that a
  reader that takes one is at the start of the next; writing and taking keep this by
  two lemmas on bytes that both pipes use.  `LastAsked`: what was asked last is the
  last such message in the pipe, or has arrived.  `ControlInv`: a control message in
  the pipe knows its number among those to be passed on (`nth`, a history), and they
  come in that order (`InTurn`), so that what was passed on is always a prefix.

**Two screens, one cursor** (`Screens_proofs`).

* `ScreensStayInStep`: `ScreensInStep`, for any largest size.  `ScreensInv` adds what
  is true while nobody can see it: what the terminal keeps for its main screen is
  what the main buffer's saved cursor comes to in that buffer's viewport
  (`MainKept`, `AppKept`), until the terminal is resized; from then on the model owes
  a query, and the row it was asked for is the one the model has (`InStep`).
  `CallStep` is shared by the calls that change the active buffer; lemmas on
  `set_rect` and the operations made of it say which rows a viewport gets.

**Sequences and records** (`Screens_proofs`, its second half).

* `SequencesSpeakForThemselves`: `SequencesExact`, for any characters and any bound
  on a sequence.  `KeysInv` has the parser's shape: outside a CSI sequence it holds no
  parameters (`Clean`), its raw sequence is what was heard, and unless an abandoned
  ESC ( left an intermediate it is the parser that heard nothing before.
  `SequenceAdvances` says that of every character within a sequence, mode by mode;
  `GroundIs` of those between.  For passthrough the names matter: no sequence has a
  message of plain text (`Plain`), and a key that is decoded under another name is
  decoded under its own.
* `ReadersGetWhatWasQueued`: `InputAsTold`, for any size of the queue and of readers'
  buffers.  `InputInv` adds types, and that a waiting GetConsoleInput finds an empty
  queue.  One lemma says what an answer leaves (`AnsweredKeeps`), one what a line read
  leaves (`LineKeeps`), and one how much of what is written is stored (`StoredIs`).
  `Unicode` is written without recursion for it: a key goes with a lead byte when an
  odd number of leads stand before it.

**Attributes** (`TerminalState_proofs`).

* `TerminalStateKnown`: `TerminalKnown`, for any attributes, titles and SGR
  sequences.  `TerminalKnown` compares the session with the terminal; alone it is
  not inductive, because what the terminal does with an SGR depends on which form
  the code sends.  Lemmas say what `Obey` makes of each message the code sends
  (`vt_write_attr` gives exactly the attribute, a passed-through sequence and the
  model's reading of it give the same pen unless it is named in `apart`).

**Model-checked only.**  All liveness (the provers do not reason about fairness and
ENABLED).  Of the parts of `MCSession`, `ScreenRow`, `ScreenModel`, `TextCodec` and the
listings of `Aliases` (`LengthSuffices`): they compute with folds over text, which are
defined by recursion, and the provers cannot use the theorems that say what such a
definition computes.  No module of the project declares a RECURSIVE operator.

## 6. What the checks found

Statements of the source's comments that the code does not keep; each is a run
that TLC refutes, with the trace to read.

1. **Reply buffer** (`shared_reply_buffer`).  A poll's reply points into
   `_console_input_output_buffer`; before READ_IO submits it, `on_idle` may complete
   a waiting GetConsoleInput from the same buffer, which is overwritten.
2. **Departed deferred read** (`departed_deferred_read`).  DISCONNECT drops the
   waiting read of the process, not the deferred one.
3. **EOF wake-up** (`eof_wakeup`).  The reader's one nudge for EOF misses READ_IO when
   the loop has passed `enter_read` and not issued it yet; the reader ends, and ticks
   look for queued bytes only.
4. **Read at EOF** (`input_read_at_eof`).  A GetConsoleInput that itself finds EOF
   is left waiting.
5. **Stranded deferred read** (`stranded_deferred_read`).  A waiting read completed
   just before READ_IO leaves the deferred one undispatched, its keys queued.
6. **Reply without answer** (`reply_without_answer`).  An Enter in win32-input-mode
   ends the handler of a raw read that it does not complete: the request is
   answered with nothing while the bridge holds it.
7. **Idle input stalls** (`idle_input_stalls`).  Without a waiting read `on_idle`
   drains into `_readbuf` and never resets `_read_total`; when the buffer is full
   keys stay in the pipe and a hang-up behind them is not noticed, against the
   comment at `pipe_bridge.hpp:1505`.  `BytesTaken` is what holds.
8. **Lost line** (`initial_line_lost`).  Initial text that ends the line completes the
   ReadConsole inside its handler, which then finds nothing typed and reports that
   the request waits: nobody submits the answer.

The properties of the passing runs name the same exceptions: `SessionEnds` a
GetConsoleInput that waits after the end of the input (4), `WritesServed` a writer
whose session is in the third-read loop, which serves input only until the bridge is
free (`io_loop.hpp:406`), `RequestKept` findings 6 and 8.

## 7. Other observations

Seen in reading and in smaller checks; the models follow the code, and the
properties are stated so that they hold in spite of them.

* Input: bytes in `_queued_vt_input` are dropped at hang-up; RAW_READ does not see
  typed-ahead events; a lone ESC is held until the next character; `ESC[I` becomes
  a Tab key and controls 1C-1F are dropped even with VT input; answers to DSR and
  DA are also appended to the cooked line; the terminal's keys are dropped
  silently when the queue of records is full; WriteConsoleInputA lets a lead byte
  take any key event behind it, its own release included.
* Line editor: wide characters advance one column; consecutive ReadConsole calls
  without output keep the old start column; after a trim the browse index names
  another command; line expansion looks at the global alias table only, and
  erasing an alias through one exe drops the global entry another exe set.
* Byte stream: a CR that ends its batch is followed by a look into the pipe for its
  LF, not into `_queued_vt_input` (`pipe_bridge.hpp:3510`): with bytes queued, the
  LF stays behind or a later one is taken.
* Cursor: CUP while a query is outstanding, or output around a clear, makes model
  and terminal disagree; the first reply after a resize may answer the inherited
  cursor's query; a swallowed line feed (3529, against the comment at 3525).
* Attributes: `ESC[31;0m` leaves the model red; WriteConsoleOutputAttribute is not
  sent; WriteConsoleOutputCharacter draws with the default attribute on the
  terminal and keeps the cells' in the model (`screen_buffer.hpp:410`,
  `api_handlers.hpp:2852`); a repaint leaves the terminal's pen at the last cell's
  attribute (`viewport_render.hpp:19`); setting an empty title sends nothing;
  attribute flags are masked out (`api_handlers.hpp:191`).
* Screens: nothing is repainted after SetConsoleScreenBufferSize shrinks the buffer
  (`api_handlers.hpp:2197`); switching to a buffer of another size resets its
  viewport; scrolling regions are unknown to the cursor-only paths; RI in row 0
  gives row -1.
* Processes: the COM server passes no process id (`corehost/cli/main.cpp:38`,
  `conpty.hpp:30`), so that its first client never gets onto the process list:
  GetConsoleProcessList does not name it and Ctrl+C does not reach it.  defterm's first
  client is listed with group 0 (`conpty.cpp:166`), so that only events for all reach
  it, as with a process whose group could not be read (`io_state.hpp:133`).
* Line drawing: a write made with `ESC ( 0` on is translated before it is parsed
  (`api_handlers.hpp:1510`), the lower-case final characters of its sequences included
  (an SGR loses its m), although the comment there speaks of text; `ESC ( B` has none
  and ends it unharmed.
* Parser: an abandoned `ESC (` leaves its intermediate; a CSI parameter wraps in 16
  bits although `vt_parser.hpp:921` calls such a sequence unknown.
* Text: halves of a GBK character or of a surrogate pair are not joined over two
  writes; a line longer than its reader's buffer is cut and the rest is lost;
  ReadConsoleOutputCharacterA answers no records when the text encodes to more
  bytes than there is room for (`api_handlers.hpp:2549`).
* Settings: an invalid input mode is stored before it is refused (deliberate,
  1395); the original title is overwritten when the title was set empty;
  SetNumberOfCommands does not know SetHistoryInfo's limit; the size of a font
  other than index 0 is refused whatever font was set.
* Aliases, start: GetConsoleAlias transfers `TargetLength` bytes although the
  target stands behind the exe name; lists are cut silently; defterm's second
  CONNECT closes the first client's handles; libconpty passes negative sizes,
  which the host then refuses.

## 8. Not modelled

Inline images and the string sequences that carry them (DCS, APC): a row keeps a
marker, no other state depends on it.  The GBK tables: data.  The vectorised
conversions: meant to equal the plain ones, a matter for tests.  Window creation,
perf counters, logging, RAII and COM wrappers, generated proxy code, benchmarks,
tests.  `signal_read_canceller`: IdleWaker's discipline with one thread less.
Starting the client process: Windows calls in a line.

## 9. Running

`tlc -config server_loop.cfg MCIoLoop.tla`, and likewise for the other
configurations: `server_live` with `MCServer`, `bridge_input` with `MCBridge`,
`session_parts` with `MCSession`, `eof_wakeup` with `IdleWaker`, `reply_without_answer`,
`idle_input_stalls` and `initial_line_lost` with `MCBridgeInput`, the rest with
`MCIoLoop`.  `tlapm
IoLoop_proofs.tla` checks the theorems of that module, and likewise for
`IdleWaker_proofs`, `BridgeInput_proofs`, `CursorSync_proofs`, `Handoff_proofs`,
`Screens_proofs`, `TerminalState_proofs` and `Session_proofs`.
The `Bug...` operators in the modules are the seeded faults that
`PROJECT.json` pairs with the properties; no specification uses them.
