-------------------------- MODULE IdleWaker_proofs --------------------------
(***************************************************************************)
(* The safety invariants of IdleWaker, for any number of bytes, messages   *)
(* and any queue limit.                                                    *)
(***************************************************************************)
EXTENDS IdleWaker, TLAPS

\* enter_read was called and leave_read was not.
InRead == loop \in {"entered", "reading", "got_message", "no_message", "disconnected"}

\* vt_input_reader_scope was built and its destructor has not begun.
ReaderInUse ==
  InRead \/ loop \in {"idle", "ready", "serve", "completing", "leave"}

ReaderGone == loop \in {"stop_ticker", "join_ticker", "stopped"}

-----------------------------------------------------------------------------
(* Types *)

\* Every flag stays a Boolean.
LEMMA FlagsStep == Flags /\ [Next]_vars => Flags'
<1> SUFFICES ASSUME Flags, [Next]_vars PROVE Flags'
  OBVIOUS
<1> USE DEF Flags, ttyVars, loopVars, wakerVars, tickVars, readerVars
<1>1. CASE Terminal \/ Message
  BY <1>1, ZenonT(60) DEF Terminal, Type, HangUp, SendSignal, Message
<1>2. CASE Server
  <2>1. CASE StartReader \/ UseReader \/ OnIdle
    BY <2>1, ZenonT(60) DEF StartReader, UseReader, OnIdle
  <2>2. CASE enter_read \/ StartReadIo \/ Cancelled \/ leave_read
    BY <2>2, ZenonT(60) DEF enter_read, StartReadIo, Cancelled, leave_read, AfterRead
  <2>3. CASE Serve \/ Complete \/ ForgetReader \/ StopReader
    BY <2>3, ZenonT(60) DEF Serve, Complete, ForgetReader, StopReader
  <2>4. CASE CancelReader \/ FreeReader \/ StopTicker \/ JoinTicker
    BY <2>4, ZenonT(60) DEF CancelReader, FreeReader, StopTicker, JoinTicker
  <2>5. QED
    BY <1>2, <2>1, <2>2, <2>3, <2>4 DEF Server
<1>3. CASE Reader
  BY <1>3, ZenonT(60) DEF Reader, ReaderSpace, ReaderReads, ReaderStores, nudge,
                          Nudged, Cancel, NoCancel
<1>4. CASE Ticker
  BY <1>4, ZenonT(60) DEF Ticker, TickBegins, TickLocks, TickActs, Cancel, NoCancel
<1>5. CASE Ended \/ UNCHANGED vars
  BY <1>5 DEF Ended, vars
<1>6. QED
  BY <1>1, <1>2, <1>3, <1>4, <1>5 DEF Next

\* The three threads and the handle stay at points the code has.
LEMMA PlacesStep == Places /\ [Next]_vars => Places'
<1> SUFFICES ASSUME Places, [Next]_vars PROVE Places'
  OBVIOUS
<1> USE DEF Places, ttyVars, loopVars, wakerVars, tickVars, readerVars
<1>1. CASE Terminal \/ Message
  BY <1>1 DEF Terminal, Type, HangUp, SendSignal, Message
<1>2. CASE Server
  <2>1. CASE StartReader \/ UseReader \/ OnIdle
    BY <2>1 DEF StartReader, UseReader, OnIdle
  <2>2. CASE enter_read \/ StartReadIo \/ Cancelled \/ leave_read
    BY <2>2 DEF enter_read, StartReadIo, Cancelled, leave_read
  <2>3. CASE Serve \/ Complete \/ ForgetReader \/ StopReader
    BY <2>3 DEF Serve, Complete, ForgetReader, StopReader
  <2>4. CASE CancelReader \/ FreeReader \/ StopTicker \/ JoinTicker
    BY <2>4 DEF CancelReader, FreeReader, StopTicker, JoinTicker
  <2>5. QED
    BY <1>2, <2>1, <2>2, <2>3, <2>4 DEF Server
<1>3. CASE Reader
  BY <1>3 DEF Reader, ReaderSpace, ReaderReads, ReaderStores, nudge,
              Nudged, Cancel, NoCancel
<1>4. CASE Ticker
  BY <1>4 DEF Ticker, TickBegins, TickLocks, TickActs, Cancel, NoCancel
<1>5. CASE Ended \/ UNCHANGED vars
  BY <1>5 DEF Ended, vars
<1>6. QED
  BY <1>1, <1>2, <1>3, <1>4, <1>5 DEF Next

\* Only the terminal adds bytes; every other step moves or drops them.
LEMMA CountsStep == Counts /\ [Next]_vars => Counts'
<1> SUFFICES ASSUME Counts, [Next]_vars PROVE Counts'
  OBVIOUS
<1> USE BoundsAssumption
    DEF Counts, Unread, ttyVars, loopVars, wakerVars, tickVars, readerVars
<1>1. CASE Terminal \/ Message
  BY <1>1 DEF Terminal, Type, HangUp, SendSignal, Message
<1>2. CASE Server
  <2>1. CASE StartReader \/ UseReader
    BY <2>1 DEF StartReader, UseReader
  <2>2. CASE OnIdle
    <3>1. CASE reader = "none"
      BY <2>2, <3>1 DEF OnIdle
    <3>2. CASE reader # "none"
      BY <2>2, <3>2 DEF OnIdle
    <3>3. QED
      BY <3>1, <3>2
  <2>3. CASE enter_read \/ StartReadIo \/ Cancelled \/ leave_read
    BY <2>3 DEF enter_read, StartReadIo, Cancelled, leave_read
  <2>4. CASE Serve \/ Complete \/ ForgetReader \/ StopReader
    BY <2>4 DEF Serve, Complete, ForgetReader, StopReader
  <2>5. CASE CancelReader \/ FreeReader \/ StopTicker \/ JoinTicker
    BY <2>5 DEF CancelReader, FreeReader, StopTicker, JoinTicker
  <2>6. QED
    BY <1>2, <2>1, <2>2, <2>3, <2>4, <2>5 DEF Server
<1>3. CASE Reader
  <2>1. CASE ReaderSpace \/ nudge
    BY <2>1 DEF ReaderSpace, nudge
  <2>2. CASE ReaderReads
    BY <2>2 DEF ReaderReads, TakePipe
  <2>3. CASE ReaderStores
    <3>1. CASE stop
      BY <2>3, <3>1 DEF ReaderStores
    <3>2. CASE ~stop
      BY <2>3, <3>2 DEF ReaderStores
    <3>3. QED
      BY <3>1, <3>2
  <2>4. QED
    BY <1>3, <2>1, <2>2, <2>3 DEF Reader
<1>4. CASE Ticker
  BY <1>4 DEF Ticker, TickBegins, TickLocks, TickActs
<1>5. CASE Ended \/ UNCHANGED vars
  BY <1>5 DEF Ended, vars
<1>6. QED
  BY <1>1, <1>2, <1>3, <1>4, <1>5 DEF Next

\* Every behaviour keeps the types, and no byte of vt_in is counted twice on its
\* way from the pipe through the reader's chunk into its queue.
THEOREM TypeCorrect == Spec => []TypeOK
<1>1. Init => TypeOK
  <2>1. Init => Flags
    BY Zenon DEF Init, Flags
  <2>2. Init => Places
    BY DEF Init, Places
  <2>3. Init => Counts
    BY BoundsAssumption DEF Init, Counts, Unread
  <2>4. QED
    BY <2>1, <2>2, <2>3 DEF TypeOK
<1>2. TypeOK /\ [Next]_vars => TypeOK'
  BY FlagsStep, PlacesStep, CountsStep DEF TypeOK
<1>3. QED
  BY <1>1, <1>2, PTL DEF Spec

-----------------------------------------------------------------------------
(* The locking discipline *)

\* enter_read and leave_read bracket the READ_IO, the ticker holds _lock only
\* while the flag is up, and a COMPLETE_IO is outside the bracket.
LockInv ==
  /\ in_read => InRead
  /\ lock <=> tick = "locked"
  /\ lock => in_read
  /\ io = "COMPLETE_IO" => loop = "completing"
  /\ ~stray

\* The waker knows of the reader exactly while the scope object holds it.
ReaderInv ==
  /\ loop = "start" => reader = "none"
  /\ ReaderInUse => (use_reader <=> reader # "none")
  /\ ~ReaderInUse => ~use_reader
  /\ reader = "freed" => ReaderGone

\* Nobody but the ticker takes _lock, and the flag changes only when it is free.
LEMMA LockStep == TypeOK /\ LockInv /\ [Next]_vars => LockInv'
<1> SUFFICES ASSUME TypeOK, LockInv, [Next]_vars PROVE LockInv'
  OBVIOUS
<1> USE DEF TypeOK, Flags, Places, LockInv, InRead
<1>1. CASE Terminal
  BY <1>1 DEF Terminal, Type, HangUp, SendSignal, loopVars, wakerVars, tickVars
<1>2. CASE Message
  BY <1>2 DEF Message, wakerVars, tickVars
<1>3. CASE Server
  <2> USE DEF wakerVars, tickVars, loopVars
  <2>1. CASE StartReader \/ UseReader \/ OnIdle
    BY <2>1 DEF StartReader, UseReader, OnIdle
  <2>2. CASE enter_read \/ StartReadIo \/ Cancelled
    BY <2>2 DEF enter_read, StartReadIo, Cancelled
  <2>3. CASE leave_read
    BY <2>3 DEF leave_read, AfterRead
  <2>4. CASE Serve \/ Complete
    BY <2>4 DEF Serve, Complete
  <2>5. CASE ForgetReader \/ StopReader \/ CancelReader \/ FreeReader
    BY <2>5 DEF ForgetReader, StopReader, CancelReader, FreeReader
  <2>6. CASE StopTicker \/ JoinTicker
    BY <2>6 DEF StopTicker, JoinTicker
  <2>7. QED
    BY <1>3, <2>1, <2>2, <2>3, <2>4, <2>5, <2>6 DEF Server
<1>4. CASE Reader
  <2> USE DEF wakerVars, tickVars, loopVars
  <2>1. CASE ReaderSpace \/ ReaderReads \/ ReaderStores
    BY <2>1 DEF ReaderSpace, ReaderReads, ReaderStores
  <2>2. CASE nudge
    BY <2>2 DEF nudge, Nudged, Cancel, NoCancel
  <2>3. QED
    BY <1>4, <2>1, <2>2 DEF Reader
<1>5. CASE Ticker
  <2> USE DEF wakerVars, loopVars
  <2>1. CASE TickBegins \/ TickLocks
    BY <2>1 DEF TickBegins, TickLocks
  <2>2. CASE TickActs
    BY <2>2 DEF TickActs, Cancel, NoCancel
  <2>3. QED
    BY <1>5, <2>1, <2>2 DEF Ticker
<1>6. CASE Ended \/ UNCHANGED vars
  BY <1>6 DEF Ended, vars, loopVars, wakerVars, tickVars
<1>7. QED
  BY <1>1, <1>2, <1>3, <1>4, <1>5, <1>6 DEF Next

\* The reader is registered after it started and forgotten before it is freed.
LEMMA ReaderStep == TypeOK /\ ReaderInv /\ [Next]_vars => ReaderInv'
<1> SUFFICES ASSUME TypeOK, ReaderInv, [Next]_vars PROVE ReaderInv'
  OBVIOUS
<1> USE DEF TypeOK, Flags, Places, ReaderInv, ReaderInUse, ReaderGone, InRead
<1>1. CASE Terminal \/ Message
  BY <1>1 DEF Terminal, Type, HangUp, SendSignal, Message,
              loopVars, wakerVars, readerVars
<1>2. CASE Server
  <2> USE DEF wakerVars, loopVars, readerVars
  <2>1. CASE StartReader
    BY <2>1 DEF StartReader
  <2>2. CASE UseReader
    BY <2>2 DEF UseReader
  <2>3. CASE OnIdle
    BY <2>3 DEF OnIdle
  <2>4. CASE enter_read \/ StartReadIo \/ Cancelled \/ leave_read
    BY <2>4 DEF enter_read, StartReadIo, Cancelled, leave_read
  <2>5. CASE Serve \/ Complete
    BY <2>5 DEF Serve, Complete
  <2>6. CASE ForgetReader \/ StopReader
    BY <2>6 DEF ForgetReader, StopReader
  <2>7. CASE CancelReader \/ FreeReader
    BY <2>7 DEF CancelReader, FreeReader
  <2>8. CASE StopTicker \/ JoinTicker
    BY <2>8 DEF StopTicker, JoinTicker
  <2>9. QED
    BY <1>2, <2>1, <2>2, <2>3, <2>4, <2>5, <2>6, <2>7, <2>8 DEF Server
<1>3. CASE Reader
  BY <1>3 DEF Reader, ReaderSpace, ReaderReads, ReaderStores, nudge, loopVars, wakerVars
<1>4. CASE Ticker
  BY <1>4 DEF Ticker, TickBegins, TickLocks, TickActs, loopVars, wakerVars, readerVars
<1>5. CASE Ended \/ UNCHANGED vars
  BY <1>5 DEF Ended, vars, loopVars, wakerVars, readerVars
<1>6. QED
  BY <1>1, <1>2, <1>3, <1>4, <1>5 DEF Next

\* The waker's lock keeps CancelIoEx away from the loop's COMPLETE_IO.
THEOREM CancelsOnlyReadIo == Spec => []CancelHitsReadIo
<1>1. Init => LockInv
  BY DEF Init, LockInv
<1>2. LockInv => CancelHitsReadIo
  BY DEF LockInv, CancelHitsReadIo
<1>3. QED
  BY <1>1, <1>2, LockStep, TypeCorrect, PTL DEF Spec

\* A tick inside the lock never asks a freed reader and never peeks the pipe
\* under a reader that sits in ReadFile.
THEOREM PipeHasOneUser == Spec => []OneUserOfPipe
<1>1. Init => LockInv /\ ReaderInv
  BY DEF Init, LockInv, ReaderInv, ReaderInUse, InRead
<1>2. LockInv /\ ReaderInv => OneUserOfPipe
  BY DEF LockInv, ReaderInv, ReaderInUse, ReaderGone, InRead, OneUserOfPipe
<1>3. QED
  BY <1>1, <1>2, LockStep, ReaderStep, TypeCorrect, PTL DEF Spec

=============================================================================
