--------------------------- MODULE IoLoop_proofs ---------------------------
(***************************************************************************)
(* Type correctness of IoLoop, that text reaches the terminal before the   *)
(* call that wrote it returns, that requests are answered once, and that   *)
(* line readers get the keys in order, for any clients, calls and bounds.  *)
(***************************************************************************)
EXTENDS IoLoop, SequenceTheorems, TLAPS

-----------------------------------------------------------------------------
(* The operators the actions are built from *)

\* Four buffers are enough: one is always free besides the three in use.
LEMMA NextFree ==
  ASSUME NEW p \in Slots, NEW q \in Slots, NEW r \in Slots
  PROVE  next_free(p, q, r) \in Buffers \ {p, q, r}
<1>1. \E b \in Buffers \ {p, q, r} : \A c \in Buffers \ {p, q, r} : b <= c
  <2> DEFINE Free == Buffers \ {p, q, r}
  <2>1. Free \subseteq 1..4 /\ (1 \in Free \/ 2 \in Free \/ 3 \in Free \/ 4 \in Free)
    BY DEF Buffers, Slots
  <2> HIDE DEF Free
  <2>2. \E b \in Free : \A c \in Free : b <= c
    <3>1. CASE 1 \in Free
      BY <2>1, <3>1
    <3>2. CASE 1 \notin Free /\ 2 \in Free
      BY <2>1, <3>2
    <3>3. CASE 1 \notin Free /\ 2 \notin Free /\ 3 \in Free
      BY <2>1, <3>3
    <3>4. CASE 1 \notin Free /\ 2 \notin Free /\ 3 \notin Free /\ 4 \in Free
      BY <2>1, <3>4
    <3>5. QED
      BY <2>1, <3>1, <3>2, <3>3, <3>4
  <2>3. QED
    BY <2>2 DEF Free
<1>2. QED
  BY <1>1 DEF next_free

\* A completion, of whatever buffer, keeps the types of what it touches.
LEMMA CompleteTypes ==
  ASSUME AnswerTypes, NEW b, NEW keys \in Seq(Nat), Complete(b, keys)
  PROVE  AnswerTypes'
<1> DEFINE r == msgs[b].from
<1>1. stage' \in [Requesters -> {"idle", "sent", "held", "dead"}]
  BY DEF AnswerTypes, Complete
<1>2. attached' \in [Processes -> {"no", "yes", "left"}]
  BY DEF AnswerTypes, Complete
<1>3. {keys[i] : i \in TypedIn(keys)} \subseteq Nat
  BY DEF TypedIn
<1>4. got' \in [Threads -> SUBSET Nat]
  <2>1. CASE r \in Threads
    BY <1>3, <2>1 DEF AnswerTypes, Complete
  <2>2. CASE r \notin Threads
    BY <2>2 DEF AnswerTypes, Complete
  <2>3. QED
    BY <2>1, <2>2
<1>5. wrong' \subseteq {"twice", "order"}
  BY DEF AnswerTypes, Complete
<1>6. msgs' \in [Buffers -> {NoMsg} \cup Message]
  BY DEF AnswerTypes, Complete
<1>7. QED
  BY <1>1, <1>2, <1>4, <1>5, <1>6 DEF AnswerTypes

\* So does the end of the waiting read, completed now or left to the loop.
LEMMA FinishTypes ==
  ASSUME AnswerTypes, comp \in [Buffers -> Completion],
         NEW keys \in Seq(Nat), NEW src \in {"own", "shared"}, Finish(keys, src)
  PROVE  /\ AnswerTypes' /\ comp' \in [Buffers -> Completion]
         /\ kind' = "None" /\ held' = 0 /\ line' = << >>
<1>1. CASE Serving
  <2>1. NotComplete /\ Prepare(held, keys, src)
    BY <1>1 DEF Finish
  <2>2. AnswerTypes'
    BY <2>1 DEF NotComplete, answerVars, history, AnswerTypes
  <2>3. [keys |-> keys, src |-> src] \in Completion
    BY DEF Completion
  <2>4. comp' \in [Buffers -> Completion]
    BY <2>1, <2>3 DEF Prepare
  <2>5. QED
    BY <2>2, <2>4 DEF Finish
<1>2. CASE ~Serving
  <2>1. Complete(held, keys) /\ UNCHANGED comp
    BY <1>2 DEF Finish
  <2>2. QED
    BY <2>1, CompleteTypes DEF Finish
<1>3. QED
  BY <1>1, <1>2


\* And so does the whole state of the bridge's reads.
LEMMA FinishReads ==
  ASSUME AnswerTypes, ReadTypes, NEW keys \in Seq(Nat), NEW src \in {"own", "shared"},
         Finish(keys, src), events' \in Seq(Nat), outbuf' \in Seq(Nat)
  PROVE  AnswerTypes' /\ ReadTypes'
<1>1. comp \in [Buffers -> Completion]
  BY DEF ReadTypes
<1>2. /\ AnswerTypes' /\ comp' \in [Buffers -> Completion]
      /\ kind' = "None" /\ held' = 0 /\ line' = << >>
  BY <1>1, FinishTypes
<1>3. line' \in Seq(Nat) /\ held' \in Slots
  BY <1>2 DEF Slots
<1>4. QED
  BY <1>2, <1>3 DEF ReadTypes

\* An event queue stays a sequence of keys.
LEMMA QueuedTypes ==
  ASSUME events \in Seq(Nat), NEW k \in Nat
  PROVE  Queued(k) \in Seq(Nat)
BY DEF Queued

\* What a key does to the waiting read or to the queue.
LEMMA ProcessKeyTypes ==
  ASSUME AnswerTypes, ReadTypes, NEW k \in Nat, ProcessKey(k)
  PROVE  AnswerTypes' /\ ReadTypes'
<1> USE QueuedTypes
<1>1. << >> \in Seq(Nat) /\ Append(line, k) \in Seq(Nat)
  BY DEF ReadTypes
<1>2. ASSUME NEW keys \in Seq(Nat), NEW src \in {"own", "shared"}, Finish(keys, src),
             events' \in Seq(Nat), outbuf' \in Seq(Nat)
      PROVE  AnswerTypes' /\ ReadTypes'
  BY <1>2, FinishReads
<1>3. CASE /\ NotComplete /\ UNCHANGED <<kind, held, comp>>
           /\ line' \in Seq(Nat) /\ events' \in Seq(Nat) /\ outbuf' \in Seq(Nat)
  BY <1>3 DEF NotComplete, answerVars, history, AnswerTypes, ReadTypes
<1>4. CASE typed[k] = "ctrlc" /\ ReadsLine
  BY <1>1, <1>2, <1>4 DEF ProcessKey, ReadTypes
<1>5. CASE typed[k] = "ctrlc" /\ ~ReadsLine
  BY <1>3, <1>5 DEF ProcessKey, StillWaiting, readVars, ReadTypes
<1>6. CASE typed[k] = "enter" /\ ReadsLine
  BY <1>1, <1>2, <1>6 DEF ProcessKey, ReadTypes
<1>7. CASE typed[k] \notin {"ctrlc", "enter"} /\ ReadsLine
  BY <1>1, <1>3, <1>7 DEF ProcessKey, ReadTypes
<1>8. CASE typed[k] # "ctrlc" /\ ~ReadsLine /\ kind = "GetConsoleInput"
  BY <1>1, <1>2, <1>8 DEF ProcessKey, ReadTypes
<1>9. CASE typed[k] # "ctrlc" /\ ~ReadsLine /\ kind # "GetConsoleInput"
  BY <1>3, <1>9 DEF ProcessKey, StillWaiting, readVars, ReadTypes
<1>10. QED
  BY <1>4, <1>5, <1>6, <1>7, <1>8, <1>9

\* What the end of the input does to the waiting read.
LEMMA EndOfInputTypes ==
  ASSUME AnswerTypes, ReadTypes, EndOfInput
  PROVE  AnswerTypes' /\ ReadTypes'
<1> << >> \in Seq(Nat)
  OBVIOUS
<1>1. CASE ReadsLine
  <2>1. Finish(line, "own") /\ UNCHANGED <<events, outbuf>>
    BY <1>1 DEF EndOfInput, ReadsLine, LineReads
  <2>2. QED
    BY <2>1, FinishReads DEF ReadTypes
<1>2. CASE ~ReadsLine /\ kind = "GetConsoleInput"
  <2>1. Finish(events, "shared") /\ outbuf' = events /\ events' = << >>
    BY <1>2 DEF EndOfInput
  <2>2. QED
    BY <2>1, FinishReads DEF ReadTypes
<1>3. CASE ~ReadsLine /\ kind # "GetConsoleInput"
  BY <1>3 DEF EndOfInput, StillWaiting, readVars, NotComplete, answerVars, history,
              AnswerTypes, ReadTypes
<1>4. QED
  BY <1>1, <1>2, <1>3

\* A prepared completion hands over a sequence of keys.
LEMMA PrepareTypes ==
  ASSUME comp \in [Buffers -> Completion], NEW b,
         NEW keys \in Seq(Nat), NEW src \in {"own", "shared"}, Prepare(b, keys, src)
  PROVE  comp' \in [Buffers -> Completion]
<1>1. [keys |-> keys, src |-> src] \in Completion
  BY DEF Completion
<1>2. QED
  BY <1>1 DEF Prepare

\* Submitting a prepared completion keeps the types.
LEMMA SubmitTypes ==
  ASSUME AnswerTypes, ReadTypes, NEW b \in Buffers, Submit(b)
  PROVE  AnswerTypes' /\ comp' \in [Buffers -> Completion]
<1>1. Handed(comp[b]) \in Seq(Nat)
  BY DEF ReadTypes, Handed, Completion
<1>2. AnswerTypes'
  BY <1>1, CompleteTypes DEF Submit
<1>3. NoComp \in Completion
  BY DEF NoComp, Completion
<1>4. comp' \in [Buffers -> Completion]
  BY <1>3 DEF Submit, ReadTypes
<1>5. QED
  BY <1>2, <1>4

-----------------------------------------------------------------------------
(* Type correctness *)

\* A handler always runs on behalf of a message, which is in a buffer.
RoleInv ==
  /\ pc \in {"handle", "consume", "prepare", "returned"} => Dispatching
  /\ Dispatching => work \in Buffers

\* What clients and the terminal do keeps the types of answers and reads.
LEMMA EnvironmentReads ==
  ASSUME TypeOK, Environment
  PROVE  AnswerTypes' /\ ReadTypes'
<1> USE ThreadsAssumption
    DEF TypeOK, AnswerTypes, ReadTypes, clientVars, history, ttyVars, loopVars,
        readVars, keyVars
<1>1. ASSUME NEW p \in Processes, Attach(p) PROVE AnswerTypes' /\ ReadTypes'
  BY <1>1 DEF Attach, Request, Requesters
<1>2. ASSUME NEW p \in Processes, Exit(p) PROVE AnswerTypes' /\ ReadTypes'
  <2>1. stage' \in [Requesters -> {"idle", "sent", "held", "dead"}]
    BY <1>2 DEF Exit
  <2>2. attached' \in [Processes -> {"no", "yes", "left"}]
    BY <1>2 DEF Exit
  <2>3. QED
    BY <1>2, <2>1, <2>2 DEF Exit
<1>3. ASSUME NEW t \in Threads, NEW k \in Calls, Call(t, k) PROVE AnswerTypes' /\ ReadTypes'
  BY <1>3 DEF Call, Request, Requesters
<1>4. ASSUME NEW c \in KeyClasses, Type(c) PROVE AnswerTypes' /\ ReadTypes'
  BY <1>4 DEF Type
<1>5. CASE \E p \in Pipes : Close(p)
  BY <1>5 DEF Close, Pipes
<1>6. QED
  BY <1>1, <1>2, <1>3, <1>4, <1>5 DEF Environment

\* The loop's own steps that neither read a message nor call the bridge.
LEMMA LoopReads ==
  ASSUME TypeOK, RoleInv,
         \/ TopDeferred \/ Top \/ Idle \/ Idled \/ EnterRead \/ NoMessage \/ Disconnected
         \/ ThirdFree \/ AfterDeferred \/ AfterCurrentDone \/ AfterCurrentWaits \/ Ended
         \/ UNCHANGED vars
  PROVE  AnswerTypes' /\ ReadTypes'
<1> USE DEF TypeOK
<1>0. ASSUME UNCHANGED <<answerVars, readVars, events, outbuf, comp>>
      PROVE  AnswerTypes' /\ ReadTypes'
  BY <1>0 DEF AnswerTypes, ReadTypes, answerVars, history, readVars
<1>1. CASE TopDeferred \/ Top \/ Idle \/ Idled \/ NoMessage \/ Disconnected \/ ThirdFree
  BY <1>1, <1>0 DEF TopDeferred, Top, Idle, Idled, NoMessage, Disconnected, ThirdFree,
                    clientVars, history, keyVars, answerVars
<1>2. CASE AfterCurrentWaits \/ Ended \/ UNCHANGED vars
  BY <1>2, <1>0 DEF AfterCurrentWaits, Ended, vars, loopFrame, clientVars, history,
                    keyVars, NotComplete, answerVars
<1>3. ASSUME NEW b \in Buffers, Submit(b), UNCHANGED <<readVars, events, outbuf>>
      PROVE  AnswerTypes' /\ ReadTypes'
  BY <1>3, SubmitTypes DEF ReadTypes, readVars
<1>4. CASE EnterRead
  <2>1. CASE prev_done = 0
    BY <1>4, <2>1, <1>0 DEF EnterRead, NotComplete, keyVars
  <2>2. CASE prev_done # 0
    <3>1. prev_done \in Buffers
      BY <2>2 DEF SlotTypes, Slots, Buffers
    <3>2. QED
      BY <1>4, <2>2, <3>1, <1>3 DEF EnterRead, keyVars
  <2>3. QED
    BY <2>1, <2>2
<1>5. CASE AfterDeferred
  <2>1. work \in Buffers
    BY <1>5 DEF AfterDeferred, RoleInv
  <2>2. CASE done
    BY <1>5, <2>1, <2>2, <1>3 DEF AfterDeferred, loopFrame, keyVars
  <2>3. CASE ~done
    BY <1>5, <2>3, <1>0 DEF AfterDeferred, NotComplete, loopFrame, keyVars
  <2>4. QED
    BY <2>2, <2>3
<1>6. CASE AfterCurrentDone
  <2>1. work \in Buffers
    BY <1>6 DEF AfterCurrentDone, RoleInv
  <2>2. CASE CompletesNow
    BY <1>6, <2>1, <2>2, <1>3 DEF AfterCurrentDone, loopFrame, keyVars
  <2>3. CASE ~CompletesNow
    BY <1>6, <2>3, <1>0 DEF AfterCurrentDone, NotComplete, loopFrame, keyVars
  <2>4. QED
    BY <2>2, <2>3
<1>7. QED
  BY <1>1, <1>2, <1>4, <1>5, <1>6

\* A message that READ_IO brings goes into the current buffer.
LEMMA ReceiveReads ==
  ASSUME TypeOK, NEW i \in DOMAIN inbox, ReadConnect(i) \/ ReadRequest(i)
  PROVE  AnswerTypes' /\ ReadTypes'
<1> USE DEF TypeOK
<1>1. inbox[i] \in Message /\ cur \in Buffers
  BY DEF ControlTypes, SlotTypes
<1>2. CASE ReadRequest(i)
  BY <1>1, <1>2 DEF ReadRequest, AnswerTypes, ReadTypes, readVars, keyVars, history
<1>3. CASE ReadConnect(i) /\ connected
  <2>1. comp' \in [Buffers -> Completion]
    <3>1. Prepare(cur, << >>, "own")
      BY <1>3 DEF ReadConnect
    <3>2. << >> \in Seq(Nat)
      OBVIOUS
    <3>3. QED
      BY <3>1, <3>2, PrepareTypes DEF ReadTypes
  <2>2. AnswerTypes'
    <3>1. /\ msgs' = [msgs EXCEPT ![cur] = inbox[i]]
          /\ stage' = [stage EXCEPT ![inbox[i].from] = "held"]
          /\ UNCHANGED <<attached, history>>
      BY <1>3 DEF ReadConnect
    <3>2. QED
      BY <1>1, <3>1 DEF AnswerTypes, history
  <2>3. ReadTypes'
    BY <1>3, <2>1 DEF ReadConnect, ReadTypes, readVars, keyVars
  <2>4. QED
    BY <2>2, <2>3
<1>4. CASE ReadConnect(i) /\ ~connected
  BY <1>1, <1>4 DEF ReadConnect, AnswerTypes, ReadTypes, readVars, keyVars, history
<1>5. QED
  BY <1>2, <1>3, <1>4

\* The next key is one that was typed.
LEMMA NextKey ==
  ASSUME StreamTypes, StreamKeys
  PROVE  taken + 1 \in Nat /\ taken + 1 \in 1..Len(typed)
BY DEF StreamTypes, StreamKeys

\* The bridge's work on the terminal's input.
LEMMA BridgeReads ==
  ASSUME TypeOK, AccumulateKey \/ AccumulateEnd \/ Drain \/ OnIdle \/ PrepareKey \/ ThirdWait
  PROVE  AnswerTypes' /\ ReadTypes'
<1> USE DEF TypeOK
<1>1. CASE AccumulateKey \/ Drain \/ PrepareKey
  BY <1>1, NextKey, ProcessKeyTypes DEF AccumulateKey, Drain, PrepareKey, TakeKey
<1>2. ASSUME StillWaiting, UNCHANGED <<events, outbuf>> PROVE AnswerTypes' /\ ReadTypes'
  BY <1>2 DEF StillWaiting, readVars, NotComplete, answerVars, history, AnswerTypes, ReadTypes
<1>3. CASE AccumulateEnd
  BY <1>3, <1>2, EndOfInputTypes DEF AccumulateEnd
<1>4. CASE OnIdle
  BY <1>4, <1>2, EndOfInputTypes DEF OnIdle
<1>5. CASE ThirdWait
  BY <1>5, <1>2, EndOfInputTypes DEF ThirdWait
<1>6. QED
  BY <1>1, <1>3, <1>4, <1>5

\* The handlers.
LEMMA HandlerReads ==
  ASSUME TypeOK, RoleInv,
         \/ HandleWriteConsole \/ HandleLineRead \/ Consume \/ ConsumeEnd
         \/ HandleWriteConsoleInput \/ HandleConsoleInput \/ PrepareEnd \/ HandleDisconnect
  PROVE  AnswerTypes' /\ ReadTypes'
<1> USE DEF TypeOK
<1>0. ASSUME NotComplete PROVE AnswerTypes'
  BY <1>0 DEF NotComplete, answerVars, history, AnswerTypes
<1>a. << >> \in Seq(Nat)
  OBVIOUS
<1>1. CASE HandleWriteConsole
  BY <1>1, <1>0, <1>a, PrepareTypes DEF HandleWriteConsole, NotComplete, ReadTypes, readVars
<1>2. CASE HandleLineRead
  <2>1. CASE vt_eof
    BY <1>2, <2>1, <1>0, <1>a, PrepareTypes
       DEF HandleLineRead, NotComplete, ReadTypes, readVars
  <2>2. CASE ~vt_eof
    BY <1>2, <2>2, <1>0, <1>a
       DEF HandleLineRead, NotComplete, ReadTypes, LineReads, Waiting, SlotTypes
  <2>3. QED
    BY <2>1, <2>2
<1>3. CASE Consume
  <2>1. Head(events) \in Nat /\ Tail(events) \in Seq(Nat)
    BY <1>3 DEF Consume, ReadTypes
  <2>2. Append(line, Head(events)) \in Seq(Nat) /\ line \in Seq(Nat)
    BY <2>1 DEF ReadTypes
  <2>3. CASE Class(Head(events)) = "enter" /\ Head(events) = Injected
    BY <1>3, <2>1, <2>2, <2>3, FinishReads DEF Consume, ReadTypes
  <2>4. CASE Class(Head(events)) = "enter" /\ Head(events) # Injected
    BY <1>3, <2>1, <2>2, <2>4, FinishReads DEF Consume, ReadTypes
  <2>5. CASE Class(Head(events)) # "enter"
    BY <1>3, <2>1, <2>2, <2>5, <1>0 DEF Consume, ReadTypes
  <2>6. QED
    BY <2>3, <2>4, <2>5
<1>4. CASE ConsumeEnd \/ HandleConsoleInput
  BY <1>4, <1>0 DEF ConsumeEnd, HandleConsoleInput, NotComplete, ReadTypes, readVars
<1>5. CASE HandleWriteConsoleInput
  <2>1. Queued(Injected) \in Seq(Nat)
    BY QueuedTypes DEF ReadTypes, Injected
  <2>2. [keys |-> << >>, src |-> "own"] \in Completion
    BY <1>a DEF Completion
  <2>3. comp' \in [Buffers -> Completion]
    BY <1>5, <2>2 DEF HandleWriteConsoleInput, ReadTypes
  <2>4. CASE Len(events) < MaxEvents /\ kind = "GetConsoleInput"
    BY <1>5, <2>1, <2>3, <2>4, <1>a, CompleteTypes
       DEF HandleWriteConsoleInput, ReadTypes, Slots
  <2>5. CASE ~(Len(events) < MaxEvents /\ kind = "GetConsoleInput")
    BY <1>5, <2>1, <2>3, <2>5, <1>0
       DEF HandleWriteConsoleInput, NotComplete, ReadTypes, readVars
  <2>6. QED
    BY <2>4, <2>5
<1>6. CASE PrepareEnd
  <2>1. CASE events = << >> /\ Kind = "GetConsoleInput"
    BY <1>6, <2>1, <1>0, <1>a
       DEF PrepareEnd, NotComplete, ReadTypes, Waiting, SlotTypes
  <2>2. CASE ~(events = << >> /\ Kind = "GetConsoleInput")
    BY <1>6, <2>2, <1>0, <1>a, PrepareTypes
       DEF PrepareEnd, NotComplete, ReadTypes, readVars
  <2>3. QED
    BY <2>1, <2>2
<1>7. CASE HandleDisconnect
  <2>1. comp' \in [Buffers -> Completion]
    BY <1>7, <1>a, PrepareTypes DEF HandleDisconnect, ReadTypes
  <2>2. AnswerTypes'
    BY <1>7 DEF HandleDisconnect, AnswerTypes, history
  <2>3. /\ kind' \in Waiting \cup {"None"} /\ held' \in Slots /\ line' \in Seq(Nat)
        /\ UNCHANGED <<events, outbuf>>
    <3>1. CASE has_pending /\ Proc(msgs[held].from) = msgs[work].from
      BY <1>7, <1>a, <3>1 DEF HandleDisconnect, ReadTypes, Slots
    <3>2. CASE ~(has_pending /\ Proc(msgs[held].from) = msgs[work].from)
      BY <1>7, <3>2 DEF HandleDisconnect, ReadTypes, readVars
    <3>3. QED
      BY <3>1, <3>2
  <2>4. QED
    BY <2>1, <2>2, <2>3 DEF ReadTypes
<1>8. QED
  BY <1>1, <1>2, <1>3, <1>4, <1>5, <1>6, <1>7

\* Answers and reads keep their types in every step.
LEMMA ReadsStep == TypeOK /\ RoleInv /\ [Next]_vars => AnswerTypes' /\ ReadTypes'
BY EnvironmentReads, LoopReads, ReceiveReads, BridgeReads, HandlerReads
   DEF Next, Loop, Woken, NudgedByEof

\* Keys are only ever added at the end, and taken in order.
LEMMA StreamStep == StreamTypes /\ [Next]_vars => StreamTypes'
<1> SUFFICES ASSUME StreamTypes, [Next]_vars PROVE StreamTypes'
  OBVIOUS
<1> USE DEF StreamTypes
<1>0. ASSUME UNCHANGED <<typed, taken, fetched>> PROVE StreamTypes'
  BY <1>0
<1>1. CASE AccumulateKey \/ Drain \/ PrepareKey
  <2>1. TakeKey /\ UNCHANGED typed
    BY <1>1 DEF AccumulateKey, Drain, PrepareKey, bridgeFrame, ttyVars
  <2>2. CASE taken < fetched
    BY <2>1, <2>2 DEF TakeKey, StreamKeys
  <2>3. CASE ~(taken < fetched)
    BY <2>1, <2>3 DEF TakeKey, StreamKeys
  <2>4. QED
    BY <2>2, <2>3
<1>2. CASE Environment
  <2>1. ASSUME NEW c \in KeyClasses, Type(c) PROVE StreamTypes'
    BY <2>1 DEF Type, loopVars, keyVars
  <2>2. CASE ~(\E c \in KeyClasses : Type(c))
    BY <1>2, <2>2, <1>0 DEF Environment, Attach, Exit, Call, Close, Pipes,
                            ttyVars, loopVars, keyVars
  <2>3. QED
    BY <2>1, <2>2
<1>3. CASE \/ TopDeferred \/ Top \/ Idle \/ Idled \/ EnterRead \/ NoMessage \/ Disconnected
          \/ ThirdFree \/ AfterDeferred \/ AfterCurrentDone \/ AfterCurrentWaits
  BY <1>3, <1>0 DEF TopDeferred, Top, Idle, Idled, EnterRead, NoMessage, Disconnected,
     ThirdFree, AfterDeferred, AfterCurrentDone, AfterCurrentWaits, loopFrame, ttyVars, keyVars
<1>4. CASE AccumulateEnd \/ OnIdle \/ ThirdWait
  BY <1>4, <1>0 DEF AccumulateEnd, OnIdle, ThirdWait, bridgeFrame, ttyVars
<1>5. CASE \/ HandleWriteConsole \/ HandleLineRead \/ Consume \/ ConsumeEnd
          \/ HandleWriteConsoleInput \/ HandleConsoleInput \/ PrepareEnd \/ HandleDisconnect
  BY <1>5, <1>0 DEF HandleWriteConsole, HandleLineRead, Consume, ConsumeEnd,
     HandleWriteConsoleInput, HandleConsoleInput, PrepareEnd, HandleDisconnect,
     handleFrame, ttyVars
<1>6. CASE \E i \in DOMAIN inbox : ReadConnect(i) \/ ReadRequest(i)
  BY <1>6, <1>0 DEF ReadConnect, ReadRequest, ttyVars, keyVars
<1>7. CASE Ended \/ UNCHANGED vars
  BY <1>7, <1>0 DEF Ended, vars, ttyVars, keyVars
<1>8. QED
  BY <1>1, <1>2, <1>3, <1>4, <1>5, <1>6, <1>7 DEF Next, Loop, Woken, NudgedByEof

\* Every slot names a message buffer or none.
LEMMA SlotStep == TypeOK /\ [Next]_vars => SlotTypes'
<1> SUFFICES ASSUME TypeOK, [Next]_vars PROVE SlotTypes'
  OBVIOUS
<1> USE NextFree DEF TypeOK, SlotTypes
<1>a. 0 \in Slots /\ Buffers \subseteq Slots
  BY DEF Slots, Buffers
<1>0. ASSUME UNCHANGED slotVars, work' = work \/ work' = 0 PROVE SlotTypes'
  BY <1>0, <1>a DEF slotVars
<1>1. CASE TopDeferred \/ Top \/ Idle \/ Idled
  BY <1>1, <1>a, ZenonT(60)
  DEF TopDeferred, Top, Idle, Idled, Dispatch, Goto, CallOnIdle, slotVars
<1>2. CASE EnterRead \/ NoMessage \/ Disconnected
  BY <1>2, <1>a DEF EnterRead, NoMessage, Disconnected, Goto, CallOnIdle, slotVars
<1>3. CASE \E i \in DOMAIN inbox : ReadConnect(i) \/ ReadRequest(i)
  <2>1. ASSUME NEW i \in DOMAIN inbox, ReadConnect(i) PROVE SlotTypes'
    <3>1. prev_done' \in Slots
      BY <2>1, <1>a DEF ReadConnect
    <3>2. QED
      BY <2>1, <3>1, <1>a DEF ReadConnect, Goto
  <2>2. ASSUME NEW i \in DOMAIN inbox, ReadRequest(i) PROVE SlotTypes'
    BY <2>2, <1>a DEF ReadRequest, Dispatch, Goto
  <2>3. QED
    BY <1>3, <2>1, <2>2
<1>4. CASE AccumulateKey \/ AccumulateEnd \/ Drain \/ OnIdle \/ PrepareKey \/ ThirdWait
  BY <1>4, <1>0 DEF AccumulateKey, AccumulateEnd, Drain, OnIdle, PrepareKey, ThirdWait,
     bridgeFrame, Return, callVars
<1>5. CASE \/ HandleWriteConsole \/ HandleLineRead \/ Consume \/ ConsumeEnd
          \/ HandleWriteConsoleInput \/ HandleConsoleInput \/ PrepareEnd \/ HandleDisconnect
  BY <1>5, <1>0 DEF HandleWriteConsole, HandleLineRead, Consume, ConsumeEnd,
     HandleWriteConsoleInput, HandleConsoleInput, PrepareEnd, HandleDisconnect,
     handleFrame, Returned, callVars
<1>6. CASE ThirdFree
  BY <1>6, <1>a DEF ThirdFree, Goto, Dispatch
<1>7. CASE AfterDeferred \/ AfterCurrentDone \/ AfterCurrentWaits
  BY <1>7, <1>a, ZenonT(60)
  DEF AfterDeferred, AfterCurrentDone, AfterCurrentWaits, Goto, CallOnIdle
<1>8. CASE Environment
  BY <1>8, <1>0 DEF Environment, Attach, Exit, Call, Type, Close, Pipes,
     loopVars, callVars
<1>9. CASE Ended \/ UNCHANGED vars
  BY <1>9, <1>0 DEF Ended, vars, callVars
<1>10. QED
  BY <1>1, <1>2, <1>3, <1>4, <1>5, <1>6, <1>7, <1>8, <1>9
  DEF Next, Loop, Woken, NudgedByEof

\* A request enters the driver's queue with the shape READ_IO reports.
LEMMA RequestTypes ==
  ASSUME TypeOK, NEW r, NEW k, Request(r, k), [kind |-> k, from |-> r] \in Message
  PROVE  inbox' \in Seq(Message)
BY DEF Request, TypeOK, ControlTypes

\* The handlers leave the driver's queue alone and add only known threads.
LEMMA HandlerControl ==
  ASSUME TypeOK, RoleInv,
         \/ HandleWriteConsole \/ HandleLineRead \/ Consume \/ ConsumeEnd
         \/ HandleWriteConsoleInput \/ HandleConsoleInput \/ PrepareEnd \/ HandleDisconnect
  PROVE  ControlTypes'
<1> USE DEF TypeOK, ControlTypes, handleFrame, Returned, callVars, procVars
<1>1. msgs[work] \in {NoMsg} \cup Message
  BY DEF RoleInv, HandleWriteConsole, HandleLineRead, Consume, ConsumeEnd,
     HandleWriteConsoleInput, HandleConsoleInput, PrepareEnd, HandleDisconnect,
     Handles, AnswerTypes
<1>2. CASE HandleWriteConsole
  <2>1. msgs[work].from \in Threads
    BY <1>1, <1>2 DEF HandleWriteConsole, Handles, Kind, NoMsg, Message
  <2>2. QED
    BY <1>2, <2>1 DEF HandleWriteConsole
<1>3. CASE HandleDisconnect
  <2>1. msgs[work].from \in Processes
    BY <1>1, <1>3 DEF HandleDisconnect, Handles, Kind, NoMsg, Message, Calls, Waiting, LineReads
  <2>2. QED
    BY <1>3, <2>1 DEF HandleDisconnect
<1>4. CASE HandleLineRead
  BY <1>4 DEF HandleLineRead, FirstSource
<1>5. CASE Consume \/ ConsumeEnd
  BY <1>5 DEF Consume, ConsumeEnd
<1>6. CASE HandleWriteConsoleInput
  BY <1>6 DEF HandleWriteConsoleInput
<1>7. CASE HandleConsoleInput \/ PrepareEnd
  BY <1>7 DEF HandleConsoleInput, PrepareEnd
<1>8. QED
  BY <1>2, <1>3, <1>4, <1>5, <1>6, <1>7

\* The loop stays at points the code has, and the driver's queue well formed.
LEMMA ControlStep == TypeOK /\ RoleInv /\ [Next]_vars => ControlTypes'
<1> SUFFICES ASSUME TypeOK, RoleInv, [Next]_vars PROVE ControlTypes'
  OBVIOUS
<1> USE DEF TypeOK, ControlTypes
<1>0. ASSUME UNCHANGED <<inbox, pc, ret, vtout, closed>> PROVE ControlTypes'
  BY <1>0
<1>1. CASE TopDeferred \/ Top \/ Idle \/ Idled
  BY <1>1 DEF TopDeferred, Top, Idle, Idled, Dispatch, Goto, CallOnIdle, clientVars, procVars
<1>2. CASE EnterRead \/ NoMessage \/ Disconnected
  BY <1>2 DEF EnterRead, NoMessage, Disconnected, Goto, CallOnIdle, clientVars, procVars
<1>3. CASE \E i \in DOMAIN inbox : ReadConnect(i) \/ ReadRequest(i)
  <2>1. ASSUME NEW i \in DOMAIN inbox, Receive(i) PROVE inbox' \in Seq(Message)
    <3>1. i \in 1..Len(inbox)
      OBVIOUS
    <3>2. SubSeq(inbox, i + 1, Len(inbox)) \in Seq(Message)
      BY <3>1, SubSeqProperties
    <3>3. QED
      BY <2>1, <3>2 DEF Receive
  <2>2. ASSUME NEW i \in DOMAIN inbox, ReadConnect(i) PROVE ControlTypes'
    BY <2>1, <2>2 DEF ReadConnect, Goto
  <2>3. ASSUME NEW i \in DOMAIN inbox, ReadRequest(i) PROVE ControlTypes'
    BY <2>1, <2>3 DEF ReadRequest, Goto, Dispatch, procVars
  <2>4. QED
    BY <1>3, <2>2, <2>3
<1>4. CASE AccumulateKey \/ AccumulateEnd \/ Drain \/ OnIdle \/ ThirdWait
  BY <1>4 DEF AccumulateKey, AccumulateEnd, Drain, OnIdle, ThirdWait,
     bridgeFrame, procVars, Return, callVars
<1>5. CASE PrepareKey
  BY <1>5 DEF PrepareKey, bridgeFrame, procVars, callVars
<1>6. CASE ThirdFree
  BY <1>6 DEF ThirdFree, Goto, Dispatch, clientVars, procVars
<1>7. CASE AfterDeferred \/ AfterCurrentDone \/ AfterCurrentWaits
  BY <1>7 DEF AfterDeferred, AfterCurrentDone, AfterCurrentWaits, Goto, CallOnIdle,
     loopFrame, procVars
<1>8. CASE Environment
  <2>1. UNCHANGED <<pc, ret, vtout, closed>>
    BY <1>8 DEF Environment, Attach, Exit, Call, Type, Close, Pipes,
       loopVars, callVars, procVars
  <2>2. ASSUME NEW p \in Processes, Attach(p) PROVE inbox' \in Seq(Message)
    <3>1. [kind |-> "CONNECT", from |-> p] \in Message
      BY DEF Message
    <3>2. QED
      BY <2>2, <3>1, RequestTypes DEF Attach
  <2>3. ASSUME NEW p \in Processes, Exit(p) PROVE inbox' \in Seq(Message)
    <3>1. [kind |-> "DISCONNECT", from |-> p] \in Message
      BY DEF Message
    <3>2. QED
      BY <2>3, <3>1 DEF Exit
  <2>4. ASSUME NEW t \in Threads, NEW k \in Calls, Call(t, k) PROVE inbox' \in Seq(Message)
    <3>1. [kind |-> k, from |-> t] \in Message
      BY DEF Message
    <3>2. QED
      BY <2>4, <3>1, RequestTypes DEF Call
  <2>5. CASE (\E c \in KeyClasses : Type(c)) \/ \E p \in Pipes : Close(p)
    BY <2>1, <2>5 DEF Type, Close, Pipes, clientVars
  <2>6. QED
    BY <1>8, <2>1, <2>2, <2>3, <2>4, <2>5 DEF Environment
<1>9. CASE Ended \/ UNCHANGED vars
  BY <1>9, <1>0 DEF Ended, vars, clientVars, callVars, procVars
<1>10. QED
  BY <1>1, <1>2, <1>3, <1>4, <1>5, <1>6, <1>7, <1>8, <1>9, HandlerControl
  DEF Next, Loop, Woken, NudgedByEof

\* The flags are Booleans.
LEMMA FlagStep == FlagTypes /\ [Next]_vars => FlagTypes'
<1> SUFFICES ASSUME FlagTypes, [Next]_vars PROVE FlagTypes'
  OBVIOUS
<1> USE DEF FlagTypes
<1>0. ASSUME UNCHANGED <<vtClosed, sigClosed, vt_eof, done, connected>> PROVE FlagTypes'
  BY <1>0
<1>1. CASE TopDeferred \/ Top \/ Idle \/ Idled
  BY <1>1, Zenon DEF TopDeferred, Top, Idle, Idled, Dispatch, Goto, CallOnIdle,
     ttyVars, procVars
<1>2. CASE EnterRead \/ NoMessage \/ Disconnected
  BY <1>2, Zenon DEF EnterRead, NoMessage, Disconnected, Goto, CallOnIdle, ttyVars, procVars
<1>3. CASE \E i \in DOMAIN inbox : ReadConnect(i) \/ ReadRequest(i)
  BY <1>3, Zenon DEF ReadConnect, ReadRequest, Goto, Dispatch, ttyVars, procVars
<1>4. CASE AccumulateKey \/ AccumulateEnd \/ Drain \/ OnIdle \/ PrepareKey \/ ThirdWait
  <2>1. vtClosed' \in BOOLEAN /\ sigClosed' \in BOOLEAN /\ connected' \in BOOLEAN
    BY <1>4, Zenon DEF AccumulateKey, AccumulateEnd, Drain, OnIdle, PrepareKey, ThirdWait,
       bridgeFrame, ttyVars, procVars
  <2>2. vt_eof' \in BOOLEAN
    BY <1>4, Zenon DEF AccumulateKey, AccumulateEnd, Drain, OnIdle, PrepareKey, ThirdWait
  <2>3. done' \in BOOLEAN
    BY <1>4, Zenon DEF AccumulateKey, AccumulateEnd, Drain, OnIdle, PrepareKey, ThirdWait,
       Return, callVars
  <2>4. QED
    BY <2>1, <2>2, <2>3
<1>5. CASE \/ HandleWriteConsole \/ HandleLineRead \/ Consume \/ ConsumeEnd
          \/ HandleWriteConsoleInput \/ HandleConsoleInput \/ PrepareEnd \/ HandleDisconnect
  BY <1>5, Zenon DEF HandleWriteConsole, HandleLineRead, Consume, ConsumeEnd,
     HandleWriteConsoleInput, HandleConsoleInput, PrepareEnd, HandleDisconnect,
     handleFrame, Returned, callVars, ttyVars, procVars
<1>6. CASE ThirdFree \/ AfterDeferred \/ AfterCurrentDone \/ AfterCurrentWaits
  BY <1>6, Zenon DEF ThirdFree, AfterDeferred, AfterCurrentDone, AfterCurrentWaits,
     Goto, Dispatch, CallOnIdle, loopFrame, ttyVars, procVars
<1>7. CASE Environment
  BY <1>7, ZenonT(60) DEF Environment, Attach, Exit, Call, Type, Close, Pipes,
     ttyVars, loopVars, callVars, procVars
<1>8. CASE Ended \/ UNCHANGED vars
  BY <1>8, <1>0, Zenon DEF Ended, vars, ttyVars, callVars, procVars
<1>9. QED
  BY <1>1, <1>2, <1>3, <1>4, <1>5, <1>6, <1>7, <1>8 DEF Next, Loop, Woken, NudgedByEof

\* Only a dispatch enters the handlers, and they return to the loop.
LEMMA RoleStep == TypeOK /\ RoleInv /\ [Next]_vars => RoleInv'
<1> SUFFICES ASSUME TypeOK, RoleInv, [Next]_vars PROVE RoleInv'
  OBVIOUS
<1> USE DEF RoleInv, Dispatching
<1>0. ASSUME UNCHANGED <<pc, callVars>> PROVE RoleInv'
  BY <1>0 DEF callVars
<1>a. 0 \in Slots /\ Buffers = Slots \ {0}
  BY DEF Slots, Buffers
<1>1. CASE TopDeferred \/ Top \/ Idle \/ Idled
  BY <1>1, <1>a DEF TopDeferred, Top, Idle, Idled, Dispatch, Goto, CallOnIdle,
     TypeOK, SlotTypes
<1>2. CASE EnterRead \/ NoMessage \/ Disconnected
  BY <1>2 DEF EnterRead, NoMessage, Disconnected, Goto, CallOnIdle
<1>3. CASE \E i \in DOMAIN inbox : ReadConnect(i) \/ ReadRequest(i)
  BY <1>3 DEF ReadConnect, ReadRequest, Goto, Dispatch, TypeOK, SlotTypes
<1>4. CASE AccumulateKey \/ AccumulateEnd \/ Drain \/ OnIdle
  BY <1>4 DEF AccumulateKey, AccumulateEnd, Drain, OnIdle, Return, callVars
<1>5. CASE PrepareKey \/ ThirdWait
  BY <1>5 DEF PrepareKey, ThirdWait, callVars
<1>6. CASE \/ HandleWriteConsole \/ HandleLineRead \/ Consume \/ ConsumeEnd
          \/ HandleWriteConsoleInput \/ HandleConsoleInput \/ PrepareEnd \/ HandleDisconnect
  <2>1. Dispatching /\ UNCHANGED <<ret, work>>
    BY <1>6 DEF HandleWriteConsole, HandleLineRead, Consume, ConsumeEnd,
       HandleWriteConsoleInput, HandleConsoleInput, PrepareEnd, HandleDisconnect,
       Handles, Returned, callVars
  <2>2. QED
    BY <2>1
<1>7. CASE ThirdFree
  BY <1>7, <1>a DEF ThirdFree, Goto, Dispatch, TypeOK, SlotTypes
<1>8. CASE AfterDeferred \/ AfterCurrentDone \/ AfterCurrentWaits
  BY <1>8 DEF AfterDeferred, AfterCurrentDone, AfterCurrentWaits, Goto, CallOnIdle
<1>9. CASE Environment
  BY <1>9, <1>0 DEF Environment, Attach, Exit, Call, Type, Close, Pipes, loopVars
<1>10. CASE Ended \/ UNCHANGED vars
  BY <1>10, <1>0 DEF Ended, vars
<1>11. QED
  BY <1>1, <1>2, <1>3, <1>4, <1>5, <1>6, <1>7, <1>8, <1>9, <1>10
  DEF Next, Loop, Woken, NudgedByEof

\* The type invariant with what makes it inductive.
LEMMA TypedRoles == Spec => [](TypeOK /\ RoleInv)
<1>1. Init => TypeOK /\ RoleInv
  <2>1. Init => AnswerTypes
    BY DEF Init, AnswerTypes
  <2>2. Init => ReadTypes
    BY DEF Init, ReadTypes, Slots, NoComp, Completion
  <2>3. Init => StreamTypes /\ SlotTypes
    BY DEF Init, StreamTypes, SlotTypes, Slots, Buffers
  <2>4. Init => ControlTypes
    BY DEF Init, ControlTypes
  <2>5. Init => FlagTypes
    BY Zenon DEF Init, FlagTypes
  <2>6. Init => RoleInv
    BY DEF Init, RoleInv, Dispatching
  <2>7. QED
    BY <2>1, <2>2, <2>3, <2>4, <2>5, <2>6 DEF TypeOK
<1>2. TypeOK /\ RoleInv /\ [Next]_vars => (TypeOK /\ RoleInv)'
  BY ReadsStep, StreamStep, SlotStep, ControlStep, FlagStep, RoleStep DEF TypeOK
<1>3. QED
  BY <1>1, <1>2, PTL DEF Spec

\* The loop, the router and the bridge never leave the types of their state, and
\* never process more keys than they took from the terminal (accumulate_from_pipe
\* and drain_available_vt_input over queued and fresh bytes).
THEOREM TypeCorrect == Spec => []TypeOK
BY TypedRoles, PTL

-----------------------------------------------------------------------------
(* Text before the answer *)

\* Text waits in the VT output buffer only between the handler of the
\* WriteConsole that wrote it and the loop's decision on its answer: a deferred
\* message is never a WriteConsole, and READ_IO never reads over it.
TextInv ==
  /\ vtout # {} => pc = "returned" /\ ret = "current" /\ done
  /\ ret \in {"deferred", "third"} => msgs[work].kind # "WriteConsole"
  /\ deferred_msg # 0 => msgs[deferred_msg].kind # "WriteConsole"
  /\ cur # deferred_msg

\* No step turns a stored message into a WriteConsole, except READ_IO in cur.
LEMMA KindsKept ==
  ASSUME TypeOK, RoleInv, [Next]_vars,
         ~(\E i \in DOMAIN inbox : ReadConnect(i) \/ ReadRequest(i)), NEW b \in Buffers,
         msgs[b].kind # "WriteConsole"
  PROVE  msgs'[b].kind # "WriteConsole"
<1> DEFINE Erased == \E c : msgs' = [msgs EXCEPT ![c] = NoMsg]
<1>0. msgs \in [Buffers -> {NoMsg} \cup Message]
  BY DEF TypeOK, AnswerTypes
<1>1. msgs' = msgs \/ Erased
  <2>1. ASSUME NEW c, NEW keys, Complete(c, keys) PROVE Erased
    BY <2>1 DEF Complete
  <2>2. ASSUME NotComplete PROVE msgs' = msgs
    BY <2>2 DEF NotComplete, answerVars
  <2>3. ASSUME NEW keys, NEW src, Finish(keys, src) PROVE msgs' = msgs \/ Erased
    BY <2>1, <2>2, <2>3 DEF Finish
  <2>4. ASSUME NEW k, ProcessKey(k) PROVE msgs' = msgs \/ Erased
    BY <2>2, <2>3, <2>4 DEF ProcessKey, StillWaiting
  <2>5. ASSUME EndOfInput PROVE msgs' = msgs \/ Erased
    BY <2>2, <2>3, <2>5 DEF EndOfInput, StillWaiting
  <2>6. CASE AccumulateKey \/ AccumulateEnd \/ Drain \/ OnIdle \/ PrepareKey \/ ThirdWait
    BY <2>2, <2>4, <2>5, <2>6 DEF AccumulateKey, AccumulateEnd, Drain, OnIdle, PrepareKey,
       ThirdWait, StillWaiting
  <2>7. CASE \/ HandleWriteConsole \/ HandleLineRead \/ ConsumeEnd
            \/ HandleConsoleInput \/ PrepareEnd
    BY <2>2, <2>7 DEF HandleWriteConsole, HandleLineRead, ConsumeEnd, HandleConsoleInput,
       PrepareEnd, NotComplete
  <2>8. CASE Consume
    BY <2>2, <2>3, <2>8 DEF Consume
  <2>9. CASE HandleWriteConsoleInput
    BY <2>1, <2>9 DEF HandleWriteConsoleInput, answerVars
  <2>10. CASE HandleDisconnect
    BY <2>10 DEF HandleDisconnect
  <2>11. CASE TopDeferred \/ Top \/ Idle \/ Idled \/ NoMessage \/ Disconnected \/ ThirdFree
    BY <2>11 DEF TopDeferred, Top, Idle, Idled, NoMessage, Disconnected, ThirdFree
  <2>12. CASE EnterRead \/ AfterDeferred \/ AfterCurrentDone \/ AfterCurrentWaits
    BY <2>1, <2>2, <2>12 DEF EnterRead, AfterDeferred, AfterCurrentDone, AfterCurrentWaits,
       Submit
  <2>13. CASE Environment
    BY <2>13 DEF Environment, Attach, Exit, Call, Type, Close, Pipes, loopVars
  <2>14. CASE Ended \/ UNCHANGED vars
    BY <2>14 DEF Ended, vars
  <2>15. QED
    BY <2>6, <2>7, <2>8, <2>9, <2>10, <2>11, <2>12, <2>13, <2>14
    DEF Next, Loop, Woken, NudgedByEof
<1>2. NoMsg.kind # "WriteConsole"
  BY DEF NoMsg
<1>3. QED
  BY <1>0, <1>1, <1>2

\* The loop's slots: the deferred read is kept out of the current buffer.
LEMMA DeferredStep ==
  ASSUME TypeOK, RoleInv, TextInv, [Next]_vars
  PROVE  /\ cur' # deferred_msg'
         /\ deferred_msg' # 0 => msgs'[deferred_msg'].kind # "WriteConsole"
<1> DEFINE Kept == /\ cur' # deferred_msg'
                   /\ deferred_msg' # 0 => msgs'[deferred_msg'].kind # "WriteConsole"
<1> USE DEF TypeOK, SlotTypes, TextInv
<1>a. 0 \in Slots /\ Buffers = Slots \ {0}
  BY DEF Buffers, Slots
<1>1. ASSUME NEW i \in DOMAIN inbox, ReadRequest(i) PROVE Kept
  <2>1. inbox[i] \in Message /\ msgs \in [Buffers -> {NoMsg} \cup Message]
    BY DEF ControlTypes, AnswerTypes
  <2>2. msgs' = [msgs EXCEPT ![cur] = inbox[i]]
    BY <1>1 DEF ReadRequest
  <2>3. CASE ~MustWait(inbox[i]) \/ deferred_msg # 0
    <3>1. cur' = cur /\ deferred_msg' = deferred_msg
      BY <1>1, <2>3 DEF ReadRequest
    <3>2. QED
      BY <2>1, <2>2, <3>1, <1>a
  <2>4. CASE MustWait(inbox[i]) /\ deferred_msg = 0
    <3>1. deferred_msg' = cur /\ cur' = next_free(0, pending_msg, cur)
      BY <1>1, <2>4 DEF ReadRequest
    <3>2. cur' # cur
      BY <3>1, <1>a, NextFree
    <3>3. inbox[i].kind # "WriteConsole"
      BY <2>4 DEF MustWait, Waiting, LineReads
    <3>4. QED
      BY <2>1, <2>2, <3>1, <3>2, <3>3
  <2>5. QED
    BY <2>3, <2>4
<1>2. ASSUME NEW i \in DOMAIN inbox, ReadConnect(i) PROVE Kept
  <2>1. deferred_msg' = deferred_msg /\ cur' = next_free(prev_done', pending_msg, deferred_msg)
    BY <1>2 DEF ReadConnect
  <2>2. prev_done' \in Slots
    BY <1>2, <1>a DEF ReadConnect
  <2>3. cur' # deferred_msg'
    BY <2>1, <2>2, NextFree
  <2>4. msgs' = msgs \/ msgs' = [msgs EXCEPT ![cur] = inbox[i]]
    BY <1>2 DEF ReadConnect
  <2>5. QED
    BY <2>1, <2>3, <2>4, <1>a DEF AnswerTypes
<1>3. CASE ~(\E i \in DOMAIN inbox : ReadConnect(i) \/ ReadRequest(i))
  <2>1. deferred_msg' = deferred_msg \/ deferred_msg' = 0
    BY <1>3 DEF Next, Loop, Woken, NudgedByEof, TopDeferred, Top, Idle, Idled, EnterRead,
       NoMessage, Disconnected, AccumulateKey, AccumulateEnd, Drain, OnIdle,
       HandleWriteConsole, HandleLineRead, Consume, ConsumeEnd, HandleWriteConsoleInput,
       HandleConsoleInput, PrepareKey, PrepareEnd, HandleDisconnect, ThirdFree, ThirdWait,
       AfterDeferred, AfterCurrentDone, AfterCurrentWaits, Environment, Attach, Exit, Call,
       Type, Close, Pipes, Ended, vars, loopVars, slotVars, bridgeFrame, handleFrame
  <2>2. deferred_msg' # 0 => msgs'[deferred_msg'].kind # "WriteConsole"
    BY <1>3, <2>1, <1>a, KindsKept
  <2>3. CASE AfterCurrentDone \/ AfterCurrentWaits \/ Idled
    BY <2>2, <2>3, <1>a, NextFree DEF AfterCurrentDone, AfterCurrentWaits, Idled
  <2>4. CASE ~(AfterCurrentDone \/ AfterCurrentWaits \/ Idled)
    <3>1. cur' = cur
      BY <1>3, <2>4 DEF Next, Loop, Woken, NudgedByEof, TopDeferred, Top, Idle, EnterRead,
         NoMessage, Disconnected, AccumulateKey, AccumulateEnd, Drain, OnIdle,
         HandleWriteConsole, HandleLineRead, Consume, ConsumeEnd, HandleWriteConsoleInput,
         HandleConsoleInput, PrepareKey, PrepareEnd, HandleDisconnect, ThirdFree, ThirdWait,
         AfterDeferred, Environment, Attach, Exit, Call, Type, Close, Pipes, Ended,
         vars, loopVars, slotVars, bridgeFrame, handleFrame
    <3>2. QED
      BY <2>1, <2>2, <3>1, <1>a
  <2>5. QED
    BY <2>3, <2>4
<1>4. CASE \E i \in DOMAIN inbox : ReadConnect(i) \/ ReadRequest(i)
  BY <1>1, <1>2, <1>4
<1>5. QED
  BY <1>3, <1>4

\* No step but a WriteConsole's handler leaves text in the buffer.
LEMMA TextStep ==
  ASSUME TypeOK, RoleInv, TextInv, [Next]_vars
  PROVE  \/ vtout' = {}
         \/ HandleWriteConsole
         \/ Environment \/ UNCHANGED vars
<1> USE DEF TextInv
<1>1. CASE TopDeferred \/ Top \/ Idle \/ Idled \/ EnterRead \/ NoMessage \/ Disconnected
  BY <1>1 DEF TopDeferred, Top, Idle, Idled, EnterRead, NoMessage, Disconnected
<1>2. CASE \E i \in DOMAIN inbox : ReadConnect(i) \/ ReadRequest(i)
  BY <1>2 DEF ReadConnect, ReadRequest, Receive
<1>3. CASE AccumulateKey \/ AccumulateEnd \/ Drain \/ OnIdle \/ PrepareKey \/ ThirdWait
  BY <1>3 DEF AccumulateKey, AccumulateEnd, Drain, OnIdle, PrepareKey, ThirdWait
<1>4. CASE \/ HandleLineRead \/ Consume \/ ConsumeEnd
          \/ HandleWriteConsoleInput \/ HandleConsoleInput \/ PrepareEnd \/ HandleDisconnect
  BY <1>4 DEF HandleLineRead, Consume, ConsumeEnd, HandleWriteConsoleInput, Handles,
     HandleConsoleInput, PrepareEnd, HandleDisconnect
<1>5. CASE ThirdFree \/ AfterDeferred \/ AfterCurrentDone \/ AfterCurrentWaits
  BY <1>5 DEF ThirdFree, AfterDeferred, AfterCurrentDone, AfterCurrentWaits, CompletesNow
<1>6. CASE Ended
  BY <1>6 DEF Ended
<1>7. QED
  BY <1>1, <1>2, <1>3, <1>4, <1>5, <1>6 DEF Next, Loop, Woken, NudgedByEof

\* TextInv is inductive, given the types.
LEMMA TextInvStep == TypeOK /\ RoleInv /\ TextInv /\ [Next]_vars => TextInv'
<1> SUFFICES ASSUME TypeOK, RoleInv, TextInv, [Next]_vars PROVE TextInv'
  OBVIOUS
<1>1. vtout' # {} => pc' = "returned" /\ ret' = "current" /\ done'
  <2>1. CASE vtout' = {}
    BY <2>1
  <2>2. CASE HandleWriteConsole
    <3>1. ret = "current"
      BY <2>2 DEF HandleWriteConsole, Handles, Kind, TextInv, RoleInv, Dispatching
    <3>2. QED
      BY <2>2, <3>1 DEF HandleWriteConsole, Returned
  <2>3. CASE Environment \/ UNCHANGED vars
    <3>1. UNCHANGED <<vtout, pc, ret, done>>
      BY <2>3 DEF Environment, Attach, Exit, Call, Type, Close, Pipes,
         loopVars, vars, callVars
    <3>2. QED
      BY <3>1 DEF TextInv
  <2>4. QED
    BY <2>1, <2>2, <2>3, TextStep
<1>2. ret' \in {"deferred", "third"} => msgs'[work'].kind # "WriteConsole"
  <2>1. CASE TopDeferred \/ (ThirdFree /\ deferred_msg # 0)
    BY <2>1 DEF TopDeferred, ThirdFree, Dispatch, Goto, TextInv
  <2>2. CASE \E i \in DOMAIN inbox : ReadConnect(i) \/ ReadRequest(i)
    BY <2>2 DEF ReadConnect, ReadRequest, Goto, Dispatch
  <2>3. CASE /\ ~TopDeferred /\ ~(ThirdFree /\ deferred_msg # 0)
             /\ ~(\E i \in DOMAIN inbox : ReadConnect(i) \/ ReadRequest(i))
    <3>1. ret' \in {"deferred", "third"} => ret' = ret /\ work' = work
      BY <2>3, ZenonT(60)
      DEF Next, Loop, Woken, NudgedByEof, Top, Idle, Idled, EnterRead, NoMessage,
         Disconnected, AccumulateKey, AccumulateEnd, Drain, OnIdle, HandleWriteConsole,
         HandleLineRead, Consume, ConsumeEnd, HandleWriteConsoleInput, HandleConsoleInput,
         PrepareKey, PrepareEnd, HandleDisconnect, ThirdFree, ThirdWait, AfterDeferred,
         AfterCurrentDone, AfterCurrentWaits, Environment, Attach, Exit, Call, Type,
         Close, Pipes, Ended, vars, loopVars, callVars, Return, Returned, Goto,
         CallOnIdle, Dispatch
    <3>2. ASSUME ret' \in {"deferred", "third"} PROVE msgs'[work'].kind # "WriteConsole"
      <4>1. ret' = ret /\ work' = work
        BY <3>1, <3>2
      <4>2. work \in Buffers /\ msgs[work].kind # "WriteConsole"
        BY <3>2, <4>1 DEF RoleInv, Dispatching, TextInv
      <4>3. QED
        BY <2>3, <4>1, <4>2, KindsKept
    <3>3. QED
      BY <3>2
  <2>4. QED
    BY <2>1, <2>2, <2>3
<1>3. QED
  BY <1>1, <1>2, DeferredStep DEF TextInv

\* A step that answers a request flushes the text first.
LEMMA AnswerStep == TypeOK /\ RoleInv /\ TextInv /\ [Next]_vars => [AnswersAfterText]_vars
<1> SUFFICES ASSUME TypeOK, RoleInv, TextInv, [Next]_vars, NEW t \in Threads,
                    stage[t] = "held", stage'[t] = "idle"
             PROVE  t \notin vtout'
  BY DEF AnswersAfterText
<1>1. CASE vtout' = {}
  BY <1>1
<1>2. CASE HandleWriteConsole \/ UNCHANGED vars
  BY <1>2 DEF HandleWriteConsole, answerVars, vars, clientVars
<1>3. CASE Environment
  <2>1. ASSUME NEW r, NEW k, Request(r, k) PROVE FALSE
    BY <2>1 DEF Request, TypeOK, AnswerTypes, Requesters
  <2>2. ASSUME NEW p \in Processes, Exit(p) PROVE FALSE
    BY <2>2, ThreadsAssumption DEF Exit, TypeOK, AnswerTypes, Requesters
  <2>3. CASE (\E c \in KeyClasses : Type(c)) \/ \E p \in Pipes : Close(p)
    BY <2>3 DEF Type, Close, Pipes, clientVars
  <2>4. QED
    BY <1>3, <2>1, <2>2, <2>3 DEF Environment, Attach, Call
<1>4. QED
  BY <1>1, <1>2, <1>3, TextStep

\* A WriteConsole returns only after its text has gone to the terminal: neither
\* the reply of the next READ_IO, nor the completion of a deferred or waiting
\* read in between, overtakes the VT output buffer (should_flush before the
\* completion in run_io_loop_no_setup).
THEOREM TextBeforeAnswer == Spec => OutputBeforeReply
<1>1. Init => TextInv
  BY DEF Init, TextInv
<1>2. Spec => []TextInv
  BY <1>1, TextInvStep, TypedRoles, PTL DEF Spec
<1>3. QED
  BY <1>2, AnswerStep, TypedRoles, PTL DEF Spec, OutputBeforeReply

-----------------------------------------------------------------------------
(***************************************************************************)
(* Every request of IoLoop is answered once and none is forgotten, and     *)
(* READ_IO never reads over a message that is still needed, for any        *)
(* clients, calls and bounds.                                              *)
(*                                                                         *)
(* The four message buffers have no owner in the code: three pointers and  *)
(* the bridge's pending_io_state name those in use, and next_free takes    *)
(* another.  The invariant below says who owns a buffer at every point of  *)
(* the loop; that the pointers agree, that a handler which returns TRUE    *)
(* has not left its request waiting, and what a client may ask meanwhile   *)
(* are parts of it, because each of them is needed to keep the others.     *)
(***************************************************************************)

-----------------------------------------------------------------------------
(* The inductive invariant *)

\* On whose behalf the loop can be where it is; outside the handlers no message
\* is being dispatched.
Idling == {"free", "pending", "no_message", "answered"}
PlaceInv ==
  /\ pc \in {"top", "idle", "read", "inread", "exit"} => ret = "none"
  /\ pc = "third" => ret \in {"none", "wait"}
  /\ pc \in {"onidle", "idled"} => ret \in Idling
  /\ pc = "drain" => ret \in Idling \cup {"wait"}
  /\ pc = "accumulate" => ret \in Idling \/ Dispatching
  /\ ~Dispatching => work = 0

\* The current buffer holds a message: it is dispatched, or the third read.
CurrentFull == ret \in {"current", "third", "wait"} \/ pc = "third"

\* The slots name different buffers, except that a message may begin to wait
\* while its handler runs; pending_msg is the waiting read's buffer, and keeps
\* it from next_free.
DistinctInv ==
  /\ held = 0 <=> kind = "None"
  /\ held # 0 => held = pending_msg \/ held = work
  /\ held # 0 /\ held = cur => held = work
  /\ work # 0 => (work = cur <=> ret = "current")
  /\ deferred_msg # 0 => deferred_msg \notin {prev_done, held, work, cur}
  /\ prev_done # 0 => prev_done \notin {held, work, cur}
  /\ CurrentFull => prev_done = 0

\* The buffers whose message is still to be answered.  prev_done keeps its
\* value while READ_IO carries the completion away.
Owned(b) ==
  \/ b = held \/ b = deferred_msg \/ b = work
  \/ b = prev_done /\ pc # "inread"
  \/ b = cur /\ CurrentFull

\* A buffer holds a message exactly when a slot owns it, and a prepared
\* completion only where it will be submitted.
OwnerInv ==
  /\ pc # "exit" => \A b \in Buffers : msgs[b] # NoMsg <=> Owned(b)
  /\ \A b \in Buffers : comp[b] # NoComp =>
       \/ b = prev_done /\ pc # "inread"
       \/ b = work /\ b # held /\ pc \in {"consume", "returned"}
       \/ pc = "exit"

\* The bridge holds the request it says it does; only reads wait or are
\* deferred; a read's handler meets a bridge without one; and on_message
\* returns TRUE exactly when the request does not wait.
ServingInv ==
  /\ held # 0 => msgs[held].kind = kind
  /\ deferred_msg # 0 => msgs[deferred_msg].kind \in Waiting
  /\ pc = "third" \/ ret \in {"third", "wait"} => msgs[cur].kind \in Waiting
  /\ ret \in {"deferred", "third"} => msgs[work].kind \in Waiting
  /\ pc \in {"handle", "prepare"} /\ msgs[work].kind \in Waiting => held = 0
  /\ pc = "consume" => /\ msgs[work].kind \in {"ReadConsole", "WriteConsoleInput"}
                       /\ msgs[work].kind = "ReadConsole" => held = work
  /\ pc = "accumulate" /\ Dispatching => held = work /\ kind \in LineReads
  /\ pc = "returned" => (done <=> held # work)

\* Messages are of requesters that wait for their answer, or of threads that
\* died waiting; each has one, and one that waits has it.
RequestInv ==
  /\ \A b \in Buffers : msgs[b] # NoMsg => stage[msgs[b].from] \in {"held", "dead"}
  /\ \A b, c \in Buffers :
       msgs[b] # NoMsg /\ msgs[c] # NoMsg /\ msgs[b].from = msgs[c].from => b = c
  /\ \A r \in Requesters : stage[r] = "held" =>
       \E b \in Buffers : msgs[b] # NoMsg /\ msgs[b].from = r
  /\ \A b \in Buffers : msgs[b].kind = "DISCONNECT" => attached[msgs[b].from] = "left"

\* A process between CONNECT and DISCONNECT asks nothing itself, the threads of
\* one that left ask nothing more, and the driver queues one request of each.
ClientInv ==
  /\ \A p \in Processes : attached[p] = "yes" => stage[p] = "idle"
  /\ \A t \in Threads : attached[ProcOf[t]] = "left" => stage[t] \in {"idle", "dead"}
  /\ \A i \in DOMAIN inbox :
       /\ \/ stage[inbox[i].from] = "sent"
          \/ inbox[i].from \in Threads /\ attached[ProcOf[inbox[i].from]] = "left"
       /\ inbox[i].kind = "CONNECT" => attached[inbox[i].from] = "no"
       /\ inbox[i].kind = "DISCONNECT" => attached[inbox[i].from] = "left"
  /\ \A i, j \in DOMAIN inbox : inbox[i].from = inbox[j].from => i = j

AnswerInv == /\ PlaceInv /\ DistinctInv /\ OwnerInv /\ ServingInv
             /\ RequestInv /\ ClientInv

-----------------------------------------------------------------------------
(* What the bridge can do to the waiting read *)

\* It goes on waiting.
Waits == UNCHANGED <<kind, held>> /\ NotComplete /\ UNCHANGED comp

\* It ends in its own handler, which leaves the completion to the loop.
EndsServed ==
  /\ held # 0 /\ Serving /\ kind' = "None" /\ held' = 0 /\ NotComplete
  /\ \E c : comp' = [comp EXCEPT ![held] = c]

\* It ends while the loop does something else, and is completed at once.
EndsWaiting ==
  /\ held # 0 /\ ~Serving /\ kind' = "None" /\ held' = 0 /\ UNCHANGED comp
  /\ \E keys : Complete(held, keys)

LEMMA FinishEnds ==
  ASSUME held # 0, NEW keys, NEW src, Finish(keys, src)
  PROVE  EndsServed \/ EndsWaiting
BY DEF Finish, EndsServed, EndsWaiting, Prepare

\* A key ends a line read or leaves it; it ends a GetConsoleInput.
LEMMA KeyEnds ==
  ASSUME DistinctInv, NEW k, ProcessKey(k)
  PROVE  /\ Waits \/ EndsServed \/ EndsWaiting
         /\ Waits => kind # "GetConsoleInput" \/ typed[k] = "ctrlc"
         /\ ReadsLine => (EndsBatch(k) <=> ~Waits)
<1> USE DEF Waits, StillWaiting, readVars
<1>a. kind \in LineReads \cup {"GetConsoleInput"} => held # 0
  BY DEF DistinctInv, LineReads
<1>b. EndsServed \/ EndsWaiting => kind' = "None"
  BY DEF EndsServed, EndsWaiting
<1>c. ReadsLine => kind # "None" /\ kind # "GetConsoleInput"
  BY DEF ReadsLine, LineReads
<1>1. CASE typed[k] = "ctrlc"
  BY <1>1, <1>a, <1>b, <1>c, FinishEnds DEF ProcessKey, ReadsLine, EndsBatch
<1>2. CASE typed[k] # "ctrlc" /\ ReadsLine
  BY <1>2, <1>a, <1>b, <1>c, FinishEnds DEF ProcessKey, ReadsLine, EndsBatch
<1>3. CASE typed[k] # "ctrlc" /\ ~ReadsLine
  BY <1>3, <1>a, <1>b, FinishEnds DEF ProcessKey
<1>4. QED
  BY <1>1, <1>2, <1>3

\* The end of the input ends every read.
LEMMA InputEnds ==
  ASSUME DistinctInv, EndOfInput
  PROVE  /\ Waits \/ EndsServed \/ EndsWaiting
         /\ Waits => ~ReadsLine
<1>a. kind \in LineReads \cup {"GetConsoleInput"} => held # 0
  BY DEF DistinctInv, LineReads
<1>1. CASE ReadsLine
  <2>1. Finish(line, "own") /\ kind # "None"
    BY <1>1 DEF EndOfInput, ReadsLine, LineReads
  <2>2. QED
    BY <2>1, <1>1, <1>a, FinishEnds DEF ReadsLine, Waits, EndsServed, EndsWaiting
<1>2. CASE ~ReadsLine /\ kind = "GetConsoleInput"
  BY <1>2, <1>a, FinishEnds DEF EndOfInput
<1>3. CASE ~ReadsLine /\ kind # "GetConsoleInput"
  BY <1>3 DEF EndOfInput, StillWaiting, readVars, Waits
<1>4. QED
  BY <1>1, <1>2, <1>3

-----------------------------------------------------------------------------
(* Where the loop is *)

\* The loop's own steps, the bridge's and the handlers', and what happens
\* outside the loop.
LoopStep ==
  \/ TopDeferred \/ Top \/ Idle \/ Idled \/ EnterRead \/ NoMessage \/ Disconnected
  \/ ThirdFree \/ AfterDeferred \/ AfterCurrentDone \/ AfterCurrentWaits
ReadStep == \E i \in DOMAIN inbox : ReadConnect(i) \/ ReadRequest(i)
BridgeStep == AccumulateKey \/ AccumulateEnd \/ Drain \/ OnIdle \/ PrepareKey \/ ThirdWait
HandlerStep ==
  \/ HandleWriteConsole \/ HandleLineRead \/ Consume \/ ConsumeEnd
  \/ HandleWriteConsoleInput \/ HandleConsoleInput \/ PrepareEnd \/ HandleDisconnect
OutsideStep == Environment \/ Ended \/ UNCHANGED vars

LEMMA Steps == [Next]_vars => LoopStep \/ ReadStep \/ BridgeStep \/ HandlerStep \/ OutsideStep
BY DEF Next, Loop, Woken, NudgedByEof, LoopStep, ReadStep, BridgeStep, HandlerStep, OutsideStep

\* Nothing outside the loop moves it.
LEMMA OutsideLoop == OutsideStep => UNCHANGED loopVars
BY DEF OutsideStep, Environment, Attach, Exit, Call, Type, Close, Pipes, Ended,
   vars, loopVars

\* A handler's step leaves the slots of the loop and its caller alone.
LEMMA HandlerFrame == HandlerStep => UNCHANGED <<inbox, slotVars, ret, work>>
BY DEF HandlerStep, HandleWriteConsole, HandleLineRead, Consume, ConsumeEnd,
   HandleWriteConsoleInput, HandleConsoleInput, PrepareEnd, HandleDisconnect,
   handleFrame, Returned, callVars

\* So does the bridge, but for ThirdWait, which is the caller itself.
LEMMA BridgeFrame ==
  BridgeStep => /\ UNCHANGED <<inbox, slotVars, work>>
                /\ UNCHANGED ret \/ (ThirdWait /\ ret' = "wait" /\ pc' = "drain")
BY DEF BridgeStep, AccumulateKey, AccumulateEnd, Drain, OnIdle, PrepareKey, ThirdWait,
   bridgeFrame, Return, callVars

LEMMA PlaceStep ==
  ASSUME RoleInv, PlaceInv, [Next]_vars
  PROVE  PlaceInv'
<1> USE DEF PlaceInv, RoleInv, Dispatching, Idling
<1>1. CASE LoopStep
  BY <1>1 DEF LoopStep, TopDeferred, Top, Idle, Idled, EnterRead, NoMessage, Disconnected,
     ThirdFree, AfterDeferred, AfterCurrentDone, AfterCurrentWaits, Goto, Dispatch, CallOnIdle
<1>2. CASE ReadStep
  BY <1>2 DEF ReadStep, ReadConnect, ReadRequest, Goto, Dispatch
<1>3. CASE BridgeStep
  BY <1>3, BridgeFrame DEF BridgeStep, AccumulateKey, AccumulateEnd, Drain, OnIdle,
     PrepareKey, ThirdWait, Return, callVars
<1>4. CASE HandlerStep
  BY <1>4, HandlerFrame DEF HandlerStep, HandleWriteConsole, HandleLineRead, Consume,
     ConsumeEnd, HandleWriteConsoleInput, HandleConsoleInput, PrepareEnd, HandleDisconnect,
     Handles, Returned, callVars, FirstSource
<1>5. CASE OutsideStep
  BY <1>5, OutsideLoop DEF loopVars, callVars
<1>6. QED
  BY <1>1, <1>2, <1>3, <1>4, <1>5, Steps

-----------------------------------------------------------------------------
(* The slots stay apart *)

\* A buffer that next_free returns is none of the three; the bridge's is one
\* of them unless a handler runs.
LEMMA DistinctStep ==
  ASSUME TypeOK, RoleInv, AnswerInv, [Next]_vars
  PROVE  DistinctInv'
<1> USE DEF AnswerInv, DistinctInv, CurrentFull, TypeOK, SlotTypes
<1>a. 0 \in Slots /\ Buffers = Slots \ {0} /\ held \in Slots
  BY DEF Buffers, Slots, ReadTypes
<1>b. kind \in LineReads \cup {"GetConsoleInput", "None"}
  BY DEF ReadTypes, Waiting
<1>c. /\ pc \in {"handle", "consume", "prepare", "returned"} => Dispatching
      /\ Dispatching <=> work # 0
  BY <1>a DEF RoleInv, PlaceInv
<1>1. CASE LoopStep
  <2>1. UNCHANGED <<kind, held>>
    BY <1>1 DEF LoopStep, TopDeferred, Top, Idle, Idled, EnterRead, NoMessage, Disconnected,
       ThirdFree, AfterDeferred, AfterCurrentDone, AfterCurrentWaits, readVars, loopFrame
  <2>2. CASE TopDeferred \/ ThirdFree
    BY <1>a, <1>c, <2>1, <2>2 DEF TopDeferred, ThirdFree, Dispatch, Goto, has_pending, PlaceInv,
       Dispatching
  <2>3. CASE Top \/ Idle \/ EnterRead \/ NoMessage \/ Disconnected
    BY <1>a, <1>c, <2>1, <2>3 DEF Top, Idle, EnterRead, NoMessage, Disconnected, Goto, CallOnIdle,
       slotVars, has_pending, PlaceInv, Dispatching
  <2>4. CASE Idled
    BY <1>a, <1>c, <2>1, <2>4, NextFree DEF Idled, Goto, has_pending, PlaceInv, Dispatching, Idling
  <2>5. CASE AfterDeferred
    BY <1>a, <1>c, <2>1, <2>5 DEF AfterDeferred, Goto, ServingInv, Dispatching
  <2>6. CASE AfterCurrentDone
    BY <1>a, <1>c, <2>1, <2>6, NextFree DEF AfterCurrentDone, Goto, CallOnIdle, ServingInv, Dispatching
  <2>7. CASE AfterCurrentWaits
    BY <1>a, <1>c, <2>1, <2>7, NextFree
       DEF AfterCurrentWaits, Goto, ServingInv, Dispatching, should_exit
  <2>8. QED
    BY <1>1, <2>2, <2>3, <2>4, <2>5, <2>6, <2>7 DEF LoopStep
<1>2. CASE ReadStep
  <2>1. UNCHANGED <<kind, held>>
    BY <1>2 DEF ReadStep, ReadConnect, ReadRequest, readVars
  <2>2. pc = "inread" /\ ret = "none" /\ work = 0
    BY <1>2, <1>c DEF ReadStep, ReadConnect, ReadRequest, Receive, PlaceInv, Dispatching
  <2>3. CASE \E i \in DOMAIN inbox : ReadConnect(i)
    BY <1>a, <2>1, <2>2, <2>3, NextFree DEF ReadConnect, Goto
  <2>4. CASE \E i \in DOMAIN inbox : ReadRequest(i)
    BY <1>a, <2>1, <2>2, <2>4, NextFree, ZenonT(60) DEF ReadRequest, Goto, Dispatch
  <2>5. QED
    BY <1>2, <2>3, <2>4 DEF ReadStep
<1>3. CASE BridgeStep
  <2>1. \/ UNCHANGED <<kind, held>>
        \/ kind' = "None" /\ held' = 0
    <3>1. CASE AccumulateKey \/ Drain \/ PrepareKey
      <4>1. PICK k : ProcessKey(k)
        BY <3>1 DEF AccumulateKey, Drain, PrepareKey
      <4>2. Waits \/ EndsServed \/ EndsWaiting
        BY <4>1, KeyEnds
      <4>3. QED
        BY <4>2 DEF Waits, EndsServed, EndsWaiting
    <3>2. CASE (AccumulateEnd \/ OnIdle \/ ThirdWait) /\ EndOfInput
      BY <3>2, InputEnds DEF Waits, EndsServed, EndsWaiting
    <3>3. CASE (AccumulateEnd \/ OnIdle \/ ThirdWait) /\ ~EndOfInput
      BY <3>3 DEF AccumulateEnd, OnIdle, ThirdWait, StillWaiting, readVars
    <3>4. QED
      BY <1>3, <3>1, <3>2, <3>3 DEF BridgeStep
  <2>2. UNCHANGED <<slotVars, work>>
    BY <1>3, BridgeFrame
  <2>3. ret' = ret \/ (pc = "third" /\ ret' = "wait")
    BY <1>3, BridgeFrame DEF ThirdWait
  <2>4. pc' = "third" => pc = "third" \/ ret = "wait"
    BY <1>3, BridgeFrame DEF BridgeStep, AccumulateKey, AccumulateEnd, Drain, OnIdle, PrepareKey,
       ThirdWait, Return, callVars
  <2>5. pc = "third" => work = 0
    BY <1>c DEF PlaceInv, Dispatching
  <2>6. QED
    BY <1>a, <1>b, <1>c, <2>1, <2>2, <2>3, <2>4, <2>5 DEF slotVars
<1>4. CASE HandlerStep
  <2>1. \/ UNCHANGED <<kind, held>>
        \/ kind' = "None" /\ held' = 0
        \/ kind' # "None" /\ held' = work
    BY <1>4, <1>b, FinishEnds DEF HandlerStep, HandleWriteConsole, HandleLineRead, Consume, ConsumeEnd,
       HandleWriteConsoleInput, HandleConsoleInput, PrepareEnd, HandleDisconnect, readVars,
       LineReads, Finish
  <2>2. UNCHANGED <<slotVars, ret, work>> /\ pc # "third" /\ pc' # "third"
    BY <1>4, HandlerFrame DEF HandlerStep, HandleWriteConsole, HandleLineRead, Consume, ConsumeEnd,
       HandleWriteConsoleInput, HandleConsoleInput, PrepareEnd, HandleDisconnect, Handles, Returned,
       callVars, FirstSource
  <2>3. Dispatching
    BY <1>4, <1>c DEF HandlerStep, HandleWriteConsole, HandleLineRead, Consume, ConsumeEnd,
       HandleWriteConsoleInput, HandleConsoleInput, PrepareEnd, HandleDisconnect, Handles
  <2>4. QED
    BY <1>a, <1>b, <1>c, <2>1, <2>2, <2>3 DEF slotVars
<1>5. CASE OutsideStep
  BY <1>5, OutsideLoop DEF loopVars, callVars, slotVars, readVars
<1>6. QED
  BY <1>1, <1>2, <1>3, <1>4, <1>5, Steps

-----------------------------------------------------------------------------
(* A message stays with the slot that owns it *)

\* What is always at hand about the slots.
LEMMA SlotFacts ==
  ASSUME TypeOK, RoleInv, AnswerInv
  PROVE  /\ 0 \in Slots /\ Buffers = Slots \ {0} /\ held \in Slots /\ work \in Slots
         /\ cur \in Buffers /\ prev_done \in Slots /\ deferred_msg \in Slots
         /\ pc \in {"handle", "consume", "prepare", "returned"} => Dispatching
         /\ Dispatching <=> work # 0
         /\ kind \in LineReads \cup {"GetConsoleInput", "None"}
<1>1. 0 \in Slots /\ Buffers = Slots \ {0} /\ held \in Slots
  BY DEF TypeOK, Buffers, Slots, ReadTypes
<1>2. /\ work \in Slots /\ cur \in Buffers /\ prev_done \in Slots /\ deferred_msg \in Slots
      /\ pc \in {"handle", "consume", "prepare", "returned"} => Dispatching
      /\ Dispatching <=> work # 0
  BY <1>1 DEF TypeOK, SlotTypes, RoleInv, AnswerInv, PlaceInv
<1>3. kind \in LineReads \cup {"GetConsoleInput", "None"}
  BY DEF TypeOK, ReadTypes, Waiting
<1>4. QED
  BY <1>1, <1>2, <1>3

\* A completion empties its buffer and no other.
LEMMA CompleteEmpties ==
  ASSUME TypeOK, NEW b \in Buffers, NEW keys, Complete(b, keys)
  PROVE  \A c \in Buffers : msgs'[c] = IF c = b THEN NoMsg ELSE msgs[c]
BY DEF TypeOK, AnswerTypes, Complete

\* So does a submission, which withdraws what was prepared there.
LEMMA SubmitEmpties ==
  ASSUME TypeOK, NEW b \in Buffers, Submit(b)
  PROVE  \A c \in Buffers : /\ msgs'[c] = IF c = b THEN NoMsg ELSE msgs[c]
                            /\ comp'[c] = IF c = b THEN NoComp ELSE comp[c]
<1>1. comp \in [Buffers -> Completion]
  BY DEF TypeOK, ReadTypes
<1>2. Complete(b, Handed(comp[b])) /\ comp' = [comp EXCEPT ![b] = NoComp]
  BY DEF Submit
<1>3. QED
  BY <1>1, <1>2, CompleteEmpties

LEMMA OwnerLoopStep ==
  ASSUME TypeOK, RoleInv, AnswerInv, LoopStep
  PROVE  OwnerInv'
<1> USE DEF OwnerInv, Owned, CurrentFull
<1>a. OwnerInv /\ DistinctInv /\ PlaceInv /\ ServingInv
  BY DEF AnswerInv
<1>b. /\ 0 \in Slots /\ Buffers = Slots \ {0} /\ held \in Slots /\ work \in Slots
      /\ cur \in Buffers /\ prev_done \in Slots /\ deferred_msg \in Slots
      /\ pc = "returned" => Dispatching
      /\ Dispatching <=> work # 0
  BY SlotFacts
<1>c. UNCHANGED <<kind, held>>
  BY DEF LoopStep, TopDeferred, Top, Idle, Idled, EnterRead, NoMessage, Disconnected,
     ThirdFree, AfterDeferred, AfterCurrentDone, AfterCurrentWaits, readVars, loopFrame
<1>1. CASE TopDeferred \/ ThirdFree
  BY <1>1, <1>a, <1>b, <1>c
     DEF TopDeferred, ThirdFree, Dispatch, Goto, PlaceInv, DistinctInv, Dispatching, has_pending
<1>2. CASE Top \/ Idle \/ Idled \/ NoMessage \/ Disconnected
  BY <1>2, <1>a, <1>b, <1>c
     DEF Top, Idle, Idled, NoMessage, Disconnected, Goto, CallOnIdle, slotVars, PlaceInv, Idling,
     Dispatching
<1>3. CASE EnterRead
  <2>1. CASE prev_done = 0
    BY <1>3, <2>1, <1>a, <1>b, <1>c
       DEF EnterRead, Goto, slotVars, PlaceInv, NotComplete, answerVars, Dispatching
  <2>2. CASE prev_done # 0
    <3>1. \A c \in Buffers : /\ msgs'[c] = IF c = prev_done THEN NoMsg ELSE msgs[c]
                             /\ comp'[c] = IF c = prev_done THEN NoComp ELSE comp[c]
      BY <1>3, <2>2, <1>b, SubmitEmpties DEF EnterRead
    <3>2. QED
      BY <1>3, <2>2, <3>1, <1>a, <1>b, <1>c
         DEF EnterRead, Goto, slotVars, PlaceInv, Dispatching, DistinctInv
  <2>3. QED
    BY <2>1, <2>2
<1>4. CASE (AfterDeferred /\ done) \/ (AfterCurrentDone /\ CompletesNow)
  <2>1. \A c \in Buffers : /\ msgs'[c] = IF c = work THEN NoMsg ELSE msgs[c]
                           /\ comp'[c] = IF c = work THEN NoComp ELSE comp[c]
    BY <1>4, <1>b, SubmitEmpties DEF AfterDeferred, AfterCurrentDone
  <2>2. held # work
    BY <1>4, <1>a DEF AfterDeferred, AfterCurrentDone, ServingInv
  <2>3. CASE AfterDeferred
    BY <2>1, <2>2, <2>3, <1>a, <1>b, <1>c DEF AfterDeferred, Goto, PlaceInv, Dispatching, DistinctInv
  <2>4. CASE AfterCurrentDone /\ CompletesNow
    BY <2>1, <2>2, <2>4, <1>a, <1>b, <1>c DEF AfterCurrentDone, Goto, CallOnIdle,
       PlaceInv, Dispatching, DistinctInv
  <2>5. QED
    BY <1>4, <2>3, <2>4
<1>5. CASE (AfterDeferred /\ ~done) \/ (AfterCurrentDone /\ ~CompletesNow)
  BY <1>5, <1>a, <1>b, <1>c DEF AfterDeferred, AfterCurrentDone, Goto, CallOnIdle,
     PlaceInv, Dispatching, DistinctInv, ServingInv, NotComplete, answerVars
<1>6. CASE AfterCurrentWaits
  BY <1>6, <1>a, <1>b, <1>c DEF AfterCurrentWaits, Goto, PlaceInv, Dispatching, DistinctInv,
     ServingInv, NotComplete, answerVars, should_exit
<1>7. QED
  BY <1>1, <1>2, <1>3, <1>4, <1>5, <1>6 DEF LoopStep

\* The bridge's step in one line: a read it ends is completed where it stands,
\* or was being served, and then on_message returns TRUE.
LEMMA BridgeEnds ==
  ASSUME TypeOK, RoleInv, AnswerInv, BridgeStep
  PROVE  /\ Waits \/ EndsServed \/ EndsWaiting
         /\ EndsServed => pc' = "returned"
         /\ pc' = "returned" => (done' <=> held' # work)
         /\ pc \in {"accumulate", "drain", "onidle", "prepare", "third"}
         /\ pc' \in {pc, "returned", "third", "idled", "accumulate", "drain"}
         /\ pc = "prepare" => pc' = pc /\ held = 0
<1>a. DistinctInv /\ PlaceInv /\ ServingInv
  BY DEF AnswerInv
<1>b. Dispatching <=> work # 0
  BY SlotFacts
<1>c. EndsServed => Dispatching /\ held = work
  BY DEF EndsServed, Serving
<1>1. CASE AccumulateKey
  <2>1. ProcessKey(taken + 1) /\ pc = "accumulate"
    BY <1>1 DEF AccumulateKey
  <2>2. /\ Waits \/ EndsServed \/ EndsWaiting
        /\ ReadsLine => (EndsBatch(taken + 1) <=> ~Waits)
    BY <2>1, <1>a, KeyEnds
  <2>3. Dispatching => ReadsLine /\ held = work
    BY <2>1, <1>a DEF ServingInv, ReadsLine
  <2>4. EndsServed \/ EndsWaiting => ~Waits
    BY <1>a DEF EndsServed, EndsWaiting, Waits
  <2>5. CASE Dispatching /\ EndsBatch(taken + 1)
    <3>1. pc' = "returned" /\ done'
      <4>1. Return(TRUE)
        BY <1>1, <2>5 DEF AccumulateKey
      <4>2. done'
        BY <4>1, <2>5 DEF Return, Dispatching
      <4>3. QED
        BY <4>1, <4>2, <2>5 DEF Return, Dispatching
    <3>2. EndsServed \/ EndsWaiting
      BY <2>2, <2>3, <2>5
    <3>3. held' # work
      BY <3>2, <2>5, <1>b DEF EndsServed, EndsWaiting
    <3>4. QED
      BY <2>1, <2>2, <3>1, <3>3
  <2>6. CASE Dispatching /\ ~EndsBatch(taken + 1)
    BY <1>1, <2>1, <2>2, <2>3, <2>4, <2>6 DEF AccumulateKey
  <2>7. CASE ~Dispatching
    BY <1>1, <2>1, <2>2, <2>7, <1>c DEF AccumulateKey, Return, Dispatching
  <2>8. QED
    BY <2>5, <2>6, <2>7
<1>2. CASE AccumulateEnd
  <2>1. Dispatching => ReadsLine /\ held = work
    BY <1>2, <1>a DEF AccumulateEnd, ServingInv, ReadsLine
  <2>2. CASE vtClosed
    <3>1. EndOfInput /\ Return(TRUE) /\ pc = "accumulate"
      BY <1>2, <2>2 DEF AccumulateEnd
    <3>2. (Waits \/ EndsServed \/ EndsWaiting) /\ (Waits => ~ReadsLine)
      BY <3>1, <1>a, InputEnds
    <3>3. Dispatching => held' = 0
      BY <2>1, <3>2 DEF EndsServed, EndsWaiting
    <3>4. Dispatching => done'
      BY <3>1 DEF Return, Dispatching
    <3>5. pc' = IF Dispatching THEN "returned" ELSE IF ret = "wait" THEN "third" ELSE "idled"
      BY <3>1 DEF Return, Dispatching
    <3>6. QED
      BY <3>1, <3>2, <3>3, <3>4, <3>5, <1>b, <1>c
  <2>3. CASE ~vtClosed
    BY <1>2, <2>1, <2>3 DEF AccumulateEnd, Return, StillWaiting, readVars, Waits, EndsServed
  <2>4. QED
    BY <2>2, <2>3
<1>3. CASE PrepareKey
  <2>1. ProcessKey(taken + 1) /\ UNCHANGED pc /\ pc = "prepare" /\ held = 0
    BY <1>3, <1>a DEF PrepareKey, has_pending, DistinctInv
  <2>2. Waits /\ ~EndsServed
    BY <2>1, <1>a, KeyEnds DEF EndsServed, EndsWaiting
  <2>3. QED
    BY <2>1, <2>2
<1>4. CASE Drain \/ OnIdle \/ ThirdWait
  <2>1. ~Dispatching /\ ~EndsServed
    BY <1>4, <1>a, <1>c DEF Drain, OnIdle, ThirdWait, PlaceInv, Dispatching, Idling
  <2>2. Waits \/ EndsServed \/ EndsWaiting
    <3>1. CASE ProcessKey(taken + 1)
      BY <3>1, <1>a, KeyEnds
    <3>2. CASE EndOfInput
      BY <3>2, <1>a, InputEnds
    <3>3. CASE ~ProcessKey(taken + 1) /\ ~EndOfInput
      BY <1>4, <3>3 DEF Drain, OnIdle, ThirdWait, StillWaiting, readVars, Waits
    <3>4. QED
      BY <3>1, <3>2, <3>3
  <2>3. pc \in {"drain", "onidle", "third"} /\ pc' \in {pc, "third", "idled", "accumulate", "drain"}
    BY <1>4, <2>1 DEF Drain, OnIdle, ThirdWait, Return, callVars
  <2>4. QED
    BY <2>1, <2>2, <2>3
<1>5. QED
  BY <1>1, <1>2, <1>3, <1>4 DEF BridgeStep

LEMMA OwnerBridgeStep ==
  ASSUME TypeOK, RoleInv, AnswerInv, BridgeStep
  PROVE  OwnerInv'
<1> USE DEF OwnerInv, Owned, CurrentFull
<1>a. OwnerInv /\ DistinctInv /\ PlaceInv
  BY DEF AnswerInv
<1>b. /\ 0 \in Slots /\ Buffers = Slots \ {0} /\ held \in Slots
      /\ Dispatching <=> work # 0
  BY SlotFacts
<1>c. UNCHANGED <<prev_done, cur, deferred_msg, work>>
  BY BridgeFrame DEF slotVars
<1>d. CurrentFull' <=> CurrentFull
  <2>1. pc' = "third" => pc = "third" \/ ret = "wait"
    BY BridgeFrame DEF BridgeStep, AccumulateKey, AccumulateEnd, Drain, OnIdle, PrepareKey,
       ThirdWait, Return, callVars
  <2>2. ret' = ret \/ (pc = "third" /\ ret' = "wait" /\ pc' = "drain")
    BY BridgeFrame DEF ThirdWait
  <2>3. pc = "third" => ThirdWait
    BY DEF BridgeStep, AccumulateKey, AccumulateEnd, Drain, OnIdle, PrepareKey
  <2>4. ThirdWait => pc' = "third" \/ ret' = "wait"
    BY DEF ThirdWait, callVars
  <2>5. QED
    BY <2>1, <2>2, <2>3, <2>4
<1>e. pc \notin {"inread", "exit", "consume", "returned"} /\ pc' \notin {"inread", "exit"}
  BY BridgeEnds
<1>1. CASE Waits
  BY <1>1, <1>a, <1>c, <1>d, <1>e DEF Waits, NotComplete, answerVars
<1>2. CASE EndsServed
  <2>1. held = work /\ held' = 0 /\ UNCHANGED msgs /\ pc' = "returned"
    BY <1>2, BridgeEnds DEF EndsServed, Serving, NotComplete, answerVars
  <2>2. \A b \in Buffers : b # held => comp'[b] = comp[b]
    BY <1>2 DEF EndsServed, TypeOK, ReadTypes
  <2>3. QED
    BY <1>2, <2>1, <2>2, <1>a, <1>b, <1>c, <1>d, <1>e DEF EndsServed
<1>3. CASE EndsWaiting
  <2>1. held \in Buffers /\ held # work /\ held' = 0 /\ UNCHANGED comp
    BY <1>3, <1>b DEF EndsWaiting, Serving
  <2>2. \A c \in Buffers : msgs'[c] = IF c = held THEN NoMsg ELSE msgs[c]
    BY <1>3, <2>1, CompleteEmpties DEF EndsWaiting
  <2>3. QED
    BY <2>1, <2>2, <1>a, <1>b, <1>c, <1>d, <1>e DEF DistinctInv
<1>4. QED
  BY <1>1, <1>2, <1>3, BridgeEnds

\* A handler's step in one line: a read begins to wait, or the waiting one is
\* left, ends or is dropped; the message's own completion is prepared when
\* on_message returns TRUE.
LEMMA HandlerEnds ==
  ASSUME TypeOK, RoleInv, AnswerInv, HandlerStep
  PROVE  /\ Dispatching /\ pc \in {"handle", "consume", "prepare"}
         /\ pc \in {"handle", "prepare"} => held # work
         /\ \/ UNCHANGED <<kind, held>> /\ NotComplete
            \/ held = 0 /\ held' = work /\ kind' = msgs[work].kind /\ NotComplete
            \/ EndsServed
            \/ held # 0 /\ held # work /\ held' = 0 /\ \E keys : Complete(held, keys)
            \/ HandleDisconnect
         /\ \A b \in Buffers \ {work} : comp'[b] = comp[b]
         /\ comp'[work] # NoComp => pc' \in {"consume", "returned"} /\ held' # work
         /\ pc' = "returned" => (done' <=> held' # work)
         /\ pc' \in {"consume", "accumulate", "prepare", "returned"}
         /\ pc' = "consume" => /\ msgs[work].kind \in {"ReadConsole", "WriteConsoleInput"}
                               /\ msgs[work].kind = "ReadConsole" => held' = work
         /\ pc' = "accumulate" => held' = work /\ kind' \in LineReads
         /\ pc' = "prepare" => held' # work /\ (msgs[work].kind \in Waiting => held' = 0)
<1>a. DistinctInv /\ PlaceInv /\ ServingInv /\ OwnerInv
  BY DEF AnswerInv
<1>b. /\ 0 \in Slots /\ Buffers = Slots \ {0} /\ held \in Slots /\ work \in Slots
      /\ Dispatching <=> work # 0
      /\ pc \in {"handle", "consume", "prepare"} => Dispatching
  BY SlotFacts
<1>c. kind \in Waiting \cup {"None"} /\ (held = 0 <=> kind = "None")
  BY <1>a DEF TypeOK, ReadTypes, DistinctInv
<1>d. Dispatching /\ pc \in {"handle", "consume", "prepare"} /\ work \in Buffers
  BY <1>b DEF HandlerStep, HandleWriteConsole, HandleLineRead, Consume, ConsumeEnd,
     HandleWriteConsoleInput, HandleConsoleInput, PrepareEnd, HandleDisconnect, Handles
<1>e. pc \in {"handle", "prepare"} => held # work
  BY <1>a, <1>c, <1>d, <1>b DEF ServingInv
<1>f. comp \in [Buffers -> Completion]
  BY DEF TypeOK, ReadTypes
<1>g. comp[work] # NoComp => pc = "consume" /\ held # work
  BY <1>a, <1>b, <1>d DEF OwnerInv, DistinctInv
<1> USE DEF NotComplete, Returned, Prepare, Kind
<1>1. CASE HandleWriteConsole
  BY <1>1, <1>d, <1>e, <1>f DEF HandleWriteConsole, Handles, readVars
<1>2. CASE HandleLineRead
  BY <1>2, <1>a, <1>b, <1>d, <1>e, <1>f, <1>g
     DEF HandleLineRead, readVars, FirstSource, callVars, ServingInv, LineReads, Waiting
<1>3. CASE Consume
  <2>1. held # 0
    BY <1>3, <1>c DEF Consume
  <2>2. CASE Class(Head(events)) = "enter"
    <3>1. PICK keys : Finish(keys, "own")
      BY <1>3, <2>2 DEF Consume
    <3>2. pc' = "returned" /\ done' /\ held' = 0
      BY <1>3, <2>2 DEF Consume, Finish
    <3>3. CASE Serving
      <4>1. held = work /\ EndsServed /\ comp' = [comp EXCEPT ![held] = [keys |-> keys, src |-> "own"]]
        BY <2>1, <3>1, <3>3 DEF Finish, Serving, EndsServed
      <4>2. QED
        BY <4>1, <3>2, <1>b, <1>d, <1>e, <1>f
    <3>4. CASE ~Serving
      <4>1. held # work /\ UNCHANGED comp /\ Complete(held, keys)
        BY <3>1, <3>4, <1>d DEF Finish, Serving
      <4>2. QED
        BY <4>1, <2>1, <3>2, <1>b, <1>d, <1>e
    <3>5. QED
      BY <3>3, <3>4
  <2>3. CASE Class(Head(events)) # "enter"
    <3>1. UNCHANGED <<kind, held, comp, pc, callVars, answerVars>> /\ pc = "consume"
      BY <1>3, <2>3 DEF Consume
    <3>2. QED
      BY <3>1, <1>a, <1>d, <1>g DEF ServingInv
  <2>4. QED
    BY <2>2, <2>3
<1>4. CASE ConsumeEnd
  <2>1. UNCHANGED <<kind, held, comp, answerVars>> /\ pc = "consume"
    BY <1>4 DEF ConsumeEnd, readVars
  <2>2. CASE msgs[work].kind = "ReadConsole"
    <3>1. held = work /\ kind = "ReadConsole" /\ pc' = "accumulate"
      BY <1>4, <2>2, <1>a, <1>b, <1>d DEF ConsumeEnd, ServingInv
    <3>2. QED
      BY <2>1, <3>1, <1>d, <1>g DEF LineReads
  <2>3. CASE msgs[work].kind # "ReadConsole"
    <3>1. msgs[work].kind \notin Waiting
      BY <2>1, <2>3, <1>a DEF ServingInv, Waiting, LineReads
    <3>2. held # work /\ pc' = "returned" /\ done'
      BY <1>4, <2>3, <3>1, <1>a, <1>b, <1>c, <1>d DEF ConsumeEnd, ServingInv
    <3>3. QED
      BY <2>1, <3>2, <1>d
  <2>4. QED
    BY <2>2, <2>3
<1>5. CASE HandleWriteConsoleInput
  <2>1. msgs[work].kind = "WriteConsoleInput" /\ pc = "handle"
    BY <1>5 DEF HandleWriteConsoleInput, Handles
  <2>2. \A b \in Buffers \ {work} : comp'[b] = comp[b]
    BY <1>5, <1>f DEF HandleWriteConsoleInput
  <2>3. /\ pc' \in {"consume", "returned"} /\ (pc' = "returned" => done') /\ held' # work
        /\ \/ UNCHANGED <<kind, held>> /\ NotComplete
           \/ held # 0 /\ held # work /\ held' = 0 /\ \E keys : Complete(held, keys)
    BY <1>5, <1>b, <1>c, <1>d, <1>e, <2>1 DEF HandleWriteConsoleInput, readVars
  <2>4. QED
    BY <1>d, <1>e, <2>1, <2>2, <2>3
<1>6. CASE HandleConsoleInput
  BY <1>6, <1>a, <1>d, <1>e, <1>g DEF HandleConsoleInput, readVars, ServingInv
<1>7. CASE PrepareEnd
  <2>1. pc = "prepare" /\ pc' = "returned" /\ held # work
    BY <1>7, <1>e DEF PrepareEnd
  <2>2. CASE events = << >> /\ msgs[work].kind = "GetConsoleInput"
    BY <1>7, <2>1, <2>2, <1>a, <1>d, <1>g DEF PrepareEnd, ServingInv, Waiting
  <2>3. CASE ~(events = << >> /\ msgs[work].kind = "GetConsoleInput")
    BY <1>7, <2>1, <2>3, <1>d, <1>f DEF PrepareEnd, readVars
  <2>4. QED
    BY <2>2, <2>3
<1>8. CASE HandleDisconnect
  <2>1. pc = "handle" /\ pc' = "returned" /\ done' /\ held' # work
    BY <1>8, <1>b, <1>d, <1>e DEF HandleDisconnect, Handles, readVars
  <2>2. QED
    BY <1>8, <2>1, <1>d, <1>e, <1>f DEF HandleDisconnect
<1>9. QED
  BY <1>1, <1>2, <1>3, <1>4, <1>5, <1>6, <1>7, <1>8 DEF HandlerStep

\* The buffers' messages after a handler's step: at most the waiting read's is
\* gone, and then nothing waits.
LEMMA HandlerMessages ==
  ASSUME TypeOK, RoleInv, AnswerInv, HandlerStep
  PROVE  /\ \/ UNCHANGED msgs /\ (held' = held \/ held' = work \/ (held' = 0 /\ held = work))
            \/ /\ held # 0 /\ held # work /\ held' = 0
               /\ \A c \in Buffers : msgs'[c] = IF c = held THEN NoMsg ELSE msgs[c]
         /\ held' # 0 /\ held' = held => kind' = kind
         /\ held' # 0 /\ held' # held => kind' = msgs[work].kind /\ held = 0
<1>1. CASE HandleDisconnect
  <2>1. msgs \in [Buffers -> {NoMsg} \cup Message] /\ held \in Slots
    BY DEF TypeOK, AnswerTypes, ReadTypes
  <2>2. pc = "handle"
    BY <1>1 DEF HandleDisconnect, Handles
  <2>3. QED
    BY <1>1, <2>1, <2>2, HandlerEnds DEF HandleDisconnect, readVars, has_pending, AnswerInv,
       DistinctInv
<1>2. CASE ~HandleDisconnect
  <2>1. CASE UNCHANGED <<kind, held>> /\ NotComplete
    BY <2>1 DEF NotComplete, answerVars
  <2>2. CASE held = 0 /\ held' = work /\ kind' = msgs[work].kind /\ NotComplete
    BY <2>2 DEF NotComplete, answerVars
  <2>3. CASE EndsServed
    BY <2>3 DEF EndsServed, Serving, NotComplete, answerVars
  <2>4. CASE held # 0 /\ held # work /\ held' = 0 /\ \E keys : Complete(held, keys)
    <3>1. held \in Buffers
      BY <2>4, SlotFacts
    <3>2. QED
      BY <2>4, <3>1, CompleteEmpties
  <2>5. QED
    BY <1>2, <2>1, <2>2, <2>3, <2>4, HandlerEnds
<1>3. QED
  BY <1>1, <1>2

LEMMA OwnerHandlerStep ==
  ASSUME TypeOK, RoleInv, AnswerInv, HandlerStep
  PROVE  OwnerInv'
<1> USE DEF OwnerInv, Owned, CurrentFull
<1>a. OwnerInv /\ DistinctInv /\ PlaceInv
  BY DEF AnswerInv
<1>b. /\ 0 \in Slots /\ Buffers = Slots \ {0} /\ held \in Slots /\ work \in Slots /\ work # 0
      /\ pc \in {"handle", "consume", "prepare"}
  BY SlotFacts, HandlerEnds
<1>c. UNCHANGED <<prev_done, cur, deferred_msg, work, ret>>
  BY HandlerFrame DEF slotVars
<1>d. pc' \in {"consume", "accumulate", "prepare", "returned"}
  BY HandlerEnds
<1>1. \A b \in Buffers : msgs'[b] # NoMsg <=> Owned(b)'
  BY <1>a, <1>b, <1>c, <1>d, HandlerMessages DEF DistinctInv
<1>2. ASSUME NEW b \in Buffers, comp'[b] # NoComp
      PROVE  \/ b = prev_done' /\ pc' # "inread"
             \/ b = work' /\ b # held' /\ pc' \in {"consume", "returned"}
  <2>1. CASE b = work
    BY <1>2, <2>1, <1>c, HandlerEnds
  <2>2. CASE b # work
    BY <1>2, <2>2, <1>a, <1>b, <1>c, <1>d, HandlerEnds
  <2>3. QED
    BY <2>1, <2>2
<1>3. QED
  BY <1>1, <1>2

\* A request read takes the current buffer, which nobody owned.
LEMMA OwnerReadStep ==
  ASSUME TypeOK, RoleInv, AnswerInv, ReadStep
  PROVE  OwnerInv'
<1> USE DEF OwnerInv, Owned, CurrentFull
<1>a. OwnerInv /\ DistinctInv /\ PlaceInv
  BY DEF AnswerInv
<1>b. /\ 0 \in Slots /\ Buffers = Slots \ {0} /\ held \in Slots /\ cur \in Buffers
      /\ prev_done \in Slots /\ deferred_msg \in Slots /\ (Dispatching <=> work # 0)
  BY SlotFacts
<1>c. /\ msgs \in [Buffers -> {NoMsg} \cup Message] /\ comp \in [Buffers -> Completion]
      /\ inbox \in Seq(Message)
  BY DEF TypeOK, AnswerTypes, ReadTypes, ControlTypes
<1>d. pc = "inread" /\ ret = "none" /\ work = 0 /\ UNCHANGED <<held, kind>>
  BY <1>a, <1>b DEF ReadStep, ReadConnect, ReadRequest, Receive, PlaceInv, Dispatching, readVars
<1>e. \A i \in DOMAIN inbox : inbox[i] # NoMsg
  BY <1>c DEF Message, Calls, Waiting, LineReads, NoMsg
<1>1. CASE \E i \in DOMAIN inbox : ReadConnect(i)
  BY <1>1, <1>a, <1>b, <1>c, <1>d, <1>e DEF ReadConnect, Goto, Prepare, DistinctInv
<1>2. CASE \E i \in DOMAIN inbox : ReadRequest(i)
  BY <1>2, <1>a, <1>b, <1>c, <1>d, <1>e DEF ReadRequest, Goto, Dispatch, DistinctInv
<1>3. QED
  BY <1>1, <1>2 DEF ReadStep

LEMMA OwnerStep ==
  ASSUME TypeOK, RoleInv, AnswerInv, [Next]_vars
  PROVE  OwnerInv'
<1>1. CASE OutsideStep
  <2>1. UNCHANGED <<pc, ret, work, held, prev_done, deferred_msg, cur, msgs, comp>>
    BY <1>1, OutsideLoop DEF loopVars, readVars, slotVars, callVars
  <2>2. QED
    BY <2>1 DEF AnswerInv, OwnerInv, Owned, CurrentFull
<1>2. QED
  BY <1>1, Steps, OwnerLoopStep, OwnerBridgeStep, OwnerHandlerStep, OwnerReadStep

-----------------------------------------------------------------------------
(* The bridge serves the request it says it does *)

LEMMA ServingLoopStep ==
  ASSUME TypeOK, RoleInv, AnswerInv, LoopStep
  PROVE  ServingInv'
<1> USE DEF ServingInv, Dispatching
<1>a. ServingInv /\ DistinctInv /\ PlaceInv
  BY DEF AnswerInv
<1>b. /\ 0 \in Slots /\ Buffers = Slots \ {0} /\ held \in Slots /\ work \in Slots
      /\ cur \in Buffers /\ prev_done \in Slots /\ deferred_msg \in Slots
      /\ pc = "returned" => Dispatching
      /\ Dispatching <=> work # 0
  BY SlotFacts
<1>c. UNCHANGED <<kind, held>>
  BY DEF LoopStep, TopDeferred, Top, Idle, Idled, EnterRead, NoMessage, Disconnected,
     ThirdFree, AfterDeferred, AfterCurrentDone, AfterCurrentWaits, readVars, loopFrame
<1>1. CASE TopDeferred \/ ThirdFree
  BY <1>1, <1>a, <1>b, <1>c
     DEF TopDeferred, ThirdFree, Dispatch, Goto, PlaceInv, DistinctInv, has_pending
<1>2. CASE Top \/ Idle \/ Idled \/ NoMessage \/ Disconnected
  BY <1>2, <1>a, <1>b, <1>c
     DEF Top, Idle, Idled, NoMessage, Disconnected, Goto, CallOnIdle, slotVars, PlaceInv, Idling
<1>3. CASE EnterRead
  <2>1. CASE prev_done = 0
    BY <1>3, <2>1, <1>a, <1>b, <1>c
       DEF EnterRead, Goto, slotVars, PlaceInv, NotComplete, answerVars
  <2>2. CASE prev_done # 0
    <3>1. \A c \in Buffers : msgs'[c] = IF c = prev_done THEN NoMsg ELSE msgs[c]
      BY <1>3, <2>2, <1>b, SubmitEmpties DEF EnterRead
    <3>2. QED
      BY <1>3, <2>2, <3>1, <1>a, <1>b, <1>c DEF EnterRead, Goto, slotVars, PlaceInv, DistinctInv
  <2>3. QED
    BY <2>1, <2>2
<1>4. CASE (AfterDeferred /\ done) \/ (AfterCurrentDone /\ CompletesNow)
  <2>1. \A c \in Buffers : msgs'[c] = IF c = work THEN NoMsg ELSE msgs[c]
    BY <1>4, <1>b, SubmitEmpties DEF AfterDeferred, AfterCurrentDone
  <2>2. held # work
    BY <1>4, <1>a DEF AfterDeferred, AfterCurrentDone
  <2>3. CASE AfterDeferred
    BY <2>1, <2>2, <2>3, <1>a, <1>b, <1>c DEF AfterDeferred, Goto, PlaceInv, DistinctInv
  <2>4. CASE AfterCurrentDone /\ CompletesNow
    BY <2>1, <2>2, <2>4, <1>a, <1>b, <1>c DEF AfterCurrentDone, Goto, CallOnIdle,
       PlaceInv, DistinctInv
  <2>5. QED
    BY <1>4, <2>3, <2>4
<1>5. CASE (AfterDeferred /\ ~done) \/ (AfterCurrentDone /\ ~CompletesNow) \/ AfterCurrentWaits
  BY <1>5, <1>a, <1>b, <1>c DEF AfterDeferred, AfterCurrentDone, AfterCurrentWaits, Goto,
     PlaceInv, DistinctInv, NotComplete, answerVars
<1>6. QED
  BY <1>1, <1>2, <1>3, <1>4, <1>5 DEF LoopStep

\* A read comes to a free bridge, or is deferred: may_wait_for_input.
LEMMA ServingReadStep ==
  ASSUME TypeOK, RoleInv, AnswerInv, ReadStep
  PROVE  ServingInv'
<1> USE DEF ServingInv, Dispatching
<1>a. ServingInv /\ DistinctInv /\ PlaceInv
  BY DEF AnswerInv
<1>b. /\ 0 \in Slots /\ Buffers = Slots \ {0} /\ held \in Slots /\ cur \in Buffers
      /\ deferred_msg \in Slots /\ (Dispatching <=> work # 0)
  BY SlotFacts
<1>c. msgs \in [Buffers -> {NoMsg} \cup Message]
  BY DEF TypeOK, AnswerTypes
<1>d. pc = "inread" /\ ret = "none" /\ work = 0 /\ UNCHANGED <<held, kind>>
  BY <1>a, <1>b DEF ReadStep, ReadConnect, ReadRequest, Receive, PlaceInv, readVars
<1>1. CASE \E i \in DOMAIN inbox : ReadConnect(i)
  BY <1>1, <1>a, <1>b, <1>c, <1>d DEF ReadConnect, Goto, DistinctInv
<1>2. CASE \E i \in DOMAIN inbox : ReadRequest(i)
  BY <1>2, <1>a, <1>b, <1>c, <1>d
     DEF ReadRequest, Goto, Dispatch, DistinctInv, MustWait, has_pending
<1>3. QED
  BY <1>1, <1>2 DEF ReadStep

LEMMA ServingBridgeStep ==
  ASSUME TypeOK, RoleInv, AnswerInv, BridgeStep
  PROVE  ServingInv'
<1> USE DEF ServingInv
<1>a. ServingInv /\ DistinctInv /\ PlaceInv
  BY DEF AnswerInv
<1>b. /\ 0 \in Slots /\ Buffers = Slots \ {0} /\ held \in Slots /\ work \in Slots
      /\ cur \in Buffers /\ deferred_msg \in Slots /\ (Dispatching <=> work # 0)
  BY SlotFacts
<1>c. UNCHANGED <<prev_done, cur, deferred_msg, work>>
  BY BridgeFrame DEF slotVars
<1>d. /\ ret' = ret \/ (pc = "third" /\ ret' = "wait" /\ pc' = "drain")
      /\ pc' = "third" => pc = "third" \/ ret = "wait"
      /\ pc' = "accumulate" /\ Dispatching => pc = "accumulate"
  <2>1. ret' = ret \/ (pc = "third" /\ ret' = "wait" /\ pc' = "drain")
    BY BridgeFrame DEF ThirdWait
  <2>2. pc' = "third" => pc = "third" \/ ret = "wait"
    BY BridgeFrame DEF BridgeStep, AccumulateKey, AccumulateEnd, Drain, OnIdle, PrepareKey,
       ThirdWait, Return, callVars
  <2>3. ASSUME pc' = "accumulate", Dispatching
        PROVE  pc = "accumulate"
    BY <2>3, <1>a DEF BridgeStep, AccumulateKey, AccumulateEnd, Drain, OnIdle, PrepareKey,
       ThirdWait, Return, callVars, PlaceInv, Dispatching, Idling
  <2>4. QED
    BY <2>1, <2>2, <2>3
<1>e. Waits \/ EndsServed \/ EndsWaiting
  BY BridgeEnds
<1>f. /\ pc \in {"accumulate", "drain", "onidle", "prepare", "third"}
      /\ pc' \in {pc, "returned", "third", "idled", "accumulate", "drain"}
      /\ pc' = "returned" => (done' <=> held' # work)
      /\ pc = "prepare" => pc' = pc /\ held = 0
  BY BridgeEnds
<1>g. pc' = "accumulate" /\ Dispatching' => held' = work /\ kind' \in LineReads
  <2>1. SUFFICES ASSUME pc' = "accumulate", Dispatching'
                 PROVE  held' = work /\ kind' \in LineReads
    OBVIOUS
  <2>2. pc = "accumulate" /\ Dispatching
    BY <2>1, <1>d DEF Dispatching
  <2>3. held = work /\ kind \in LineReads
    BY <2>2, <1>a
  <2>4. Waits
    BY <2>1, <2>2, <2>3, <1>e, BridgeEnds DEF EndsWaiting, Serving
  <2>5. QED
    BY <2>3, <2>4 DEF Waits
<1>h. \/ UNCHANGED msgs /\ ((held' = held /\ kind' = kind) \/ held' = 0)
      \/ /\ held # 0 /\ held # work /\ held' = 0
         /\ \A c \in Buffers : msgs'[c] = IF c = held THEN NoMsg ELSE msgs[c]
  <2>1. CASE Waits \/ EndsServed
    BY <2>1 DEF Waits, EndsServed, NotComplete, answerVars
  <2>2. CASE EndsWaiting
    <3>1. held \in Buffers /\ held # work /\ held' = 0
      BY <2>2, <1>b DEF EndsWaiting, Serving
    <3>2. QED
      BY <2>2, <3>1, <1>b, CompleteEmpties DEF EndsWaiting
  <2>3. QED
    BY <2>1, <2>2, <1>e
<1>i. held = 0 => held' = 0
  BY <1>e DEF Waits, EndsServed, EndsWaiting
<1>j. held \notin {deferred_msg, 0} /\ held # work => held # cur
  BY <1>a DEF DistinctInv
<1>1. QED
  BY <1>a, <1>b, <1>c, <1>d, <1>f, <1>g, <1>h, <1>i, <1>j DEF DistinctInv, Dispatching

LEMMA ServingHandlerStep ==
  ASSUME TypeOK, RoleInv, AnswerInv, HandlerStep
  PROVE  ServingInv'
<1> USE DEF ServingInv
<1>a. ServingInv /\ DistinctInv /\ PlaceInv
  BY DEF AnswerInv
<1>b. /\ 0 \in Slots /\ Buffers = Slots \ {0} /\ held \in Slots /\ work \in Slots
      /\ cur \in Buffers /\ deferred_msg \in Slots /\ (Dispatching <=> work # 0)
  BY SlotFacts
<1>c. UNCHANGED <<cur, deferred_msg, work, ret>> /\ Dispatching
  BY HandlerFrame, HandlerEnds DEF slotVars
<1>d. /\ pc' = "returned" => (done' <=> held' # work)
      /\ pc' \in {"consume", "accumulate", "prepare", "returned"}
      /\ pc' = "consume" => /\ msgs[work].kind \in {"ReadConsole", "WriteConsoleInput"}
                            /\ msgs[work].kind = "ReadConsole" => held' = work
      /\ pc' = "accumulate" => held' = work /\ kind' \in LineReads
      /\ pc' = "prepare" => held' # work /\ (msgs[work].kind \in Waiting => held' = 0)
  BY HandlerEnds
<1>1. QED
  BY <1>a, <1>b, <1>c, <1>d, HandlerMessages DEF DistinctInv, Dispatching

LEMMA ServingStep ==
  ASSUME TypeOK, RoleInv, AnswerInv, [Next]_vars
  PROVE  ServingInv'
<1>1. CASE OutsideStep
  <2>1. UNCHANGED <<pc, ret, work, done, held, kind, deferred_msg, cur, msgs>>
    BY <1>1, OutsideLoop DEF loopVars, readVars, slotVars, callVars
  <2>2. QED
    BY <2>1 DEF AnswerInv, ServingInv, Dispatching
<1>2. QED
  BY <1>1, Steps, ServingLoopStep, ServingBridgeStep, ServingHandlerStep, ServingReadStep

-----------------------------------------------------------------------------
(* One answer for each request *)

\* A completion is only ever submitted for a buffer that holds a message.
Answers == UNCHANGED inbox /\ \E b \in Buffers : \E keys : msgs[b] # NoMsg /\ Complete(b, keys)

\* All that a step can do to requests, messages and answers.
LEMMA AnswerEffects ==
  ASSUME TypeOK, RoleInv, AnswerInv, [Next]_vars
  PROVE  \/ UNCHANGED <<answerVars, inbox>> \/ Answers \/ ReadStep \/ HandleDisconnect
         \/ Environment
<1> USE DEF NotComplete
<1>a. /\ pc # "exit" => \A b \in Buffers : msgs[b] # NoMsg <=> Owned(b)
      /\ ServingInv
  BY DEF AnswerInv, OwnerInv
<1>b. /\ Buffers = Slots \ {0} /\ held \in Slots /\ work \in Slots /\ prev_done \in Slots
      /\ pc \in {"handle", "consume", "prepare", "returned"} => Dispatching
      /\ Dispatching <=> work # 0
  BY SlotFacts
<1>1. CASE LoopStep
  <2>1. CASE TopDeferred \/ Top \/ Idle \/ Idled \/ NoMessage \/ Disconnected \/ ThirdFree
    BY <2>1 DEF TopDeferred, Top, Idle, Idled, NoMessage, Disconnected, ThirdFree, clientVars,
       answerVars
  <2>2. CASE EnterRead
    <3>1. pc = "read" /\ UNCHANGED inbox
      BY <2>2 DEF EnterRead
    <3>2. CASE prev_done = 0
      BY <2>2, <3>1, <3>2 DEF EnterRead
    <3>3. CASE prev_done # 0
      BY <2>2, <3>1, <3>3, <1>a, <1>b DEF EnterRead, Submit, Answers, Owned
    <3>4. QED
      BY <3>2, <3>3
  <2>3. CASE AfterDeferred \/ AfterCurrentDone
    <3>1. pc = "returned" /\ UNCHANGED inbox /\ (NotComplete \/ Submit(work))
      BY <2>3 DEF AfterDeferred, AfterCurrentDone, loopFrame
    <3>2. work \in Buffers /\ msgs[work] # NoMsg
      BY <3>1, <1>a, <1>b DEF Owned
    <3>3. QED
      BY <3>1, <3>2 DEF Submit, Answers
  <2>4. CASE AfterCurrentWaits
    BY <2>4 DEF AfterCurrentWaits, loopFrame
  <2>5. QED
    BY <1>1, <2>1, <2>2, <2>3, <2>4 DEF LoopStep
<1>2. CASE BridgeStep
  <2>1. UNCHANGED inbox /\ pc # "exit" /\ (NotComplete \/ EndsWaiting)
    BY <1>2, BridgeFrame, BridgeEnds DEF Waits, EndsServed
  <2>2. EndsWaiting => Answers
    BY <2>1, <1>a, <1>b DEF EndsWaiting, Answers, Owned
  <2>3. QED
    BY <2>1, <2>2
<1>3. CASE HandlerStep
  <2>1. UNCHANGED inbox /\ pc # "exit"
    BY <1>3, HandlerFrame, HandlerEnds
  <2>2. NotComplete \/ HandleDisconnect \/ (held # 0 /\ \E keys : Complete(held, keys))
    BY <1>3, HandlerEnds DEF EndsServed
  <2>3. QED
    BY <2>1, <2>2, <1>a, <1>b DEF Answers, Owned
<1>4. CASE OutsideStep
  BY <1>4 DEF OutsideStep, Ended, vars, clientVars, answerVars
<1>5. QED
  BY <1>1, <1>2, <1>3, <1>4, Steps

\* Who asks, and what of.
LEMMA MessageTypes ==
  /\ \A m \in Message : /\ m # NoMsg /\ m.from \in Requesters
                        /\ \/ m.kind \in Calls /\ m.from \in Threads
                           \/ m.kind \in {"CONNECT", "DISCONNECT"} /\ m.from \in Processes
  /\ {"CONNECT", "DISCONNECT"} \cap Calls = {}
  /\ \A t \in Threads : t \notin Processes /\ Proc(t) = ProcOf[t] /\ ProcOf[t] \in Processes
  /\ \A p \in Processes : p \notin Threads /\ Proc(p) = p
BY ThreadsAssumption DEF Message, Calls, Waiting, LineReads, NoMsg, Requesters, Proc

\* The requester of a completed message was waiting, and asks nothing else.
LEMMA AnswersKeep ==
  ASSUME TypeOK, RequestInv, ClientInv, Answers
  PROVE  RequestInv' /\ ClientInv' /\ (AnsweredOnce => AnsweredOnce')
<1>a. /\ stage \in [Requesters -> {"idle", "sent", "held", "dead"}]
      /\ attached \in [Processes -> {"no", "yes", "left"}]
      /\ msgs \in [Buffers -> {NoMsg} \cup Message] /\ inbox \in Seq(Message)
  BY DEF TypeOK, AnswerTypes, ControlTypes
<1>b. PICK b \in Buffers : \E keys : msgs[b] # NoMsg /\ Complete(b, keys)
  BY DEF Answers
<1> DEFINE r == msgs[b].from
<1>c. r \in Requesters /\ stage[r] \in {"held", "dead"} /\ msgs[b] \in Message
  BY <1>a, <1>b, MessageTypes DEF RequestInv
<1>d. /\ stage' = [stage EXCEPT ![r] = "idle"]
      /\ msgs' = [msgs EXCEPT ![b] = NoMsg]
      /\ attached' = IF r \in Processes /\ attached[r] = "no"
                     THEN [attached EXCEPT ![r] = "yes"] ELSE attached
  BY <1>b, <1>c DEF Complete
<1>e. \A c \in Buffers : msgs'[c] # NoMsg => c # b /\ msgs'[c] = msgs[c] /\ msgs[c].from # r
  BY <1>a, <1>b, <1>c, <1>d DEF RequestInv
<1>f. \A q \in Requesters : /\ q # r => stage'[q] = stage[q]
                            /\ q = r => stage'[q] = "idle"
  BY <1>a, <1>c, <1>d
<1>g. \A p \in Processes : /\ p # r => attached'[p] = attached[p]
                           /\ p = r => attached'[p] \in {"yes", attached[p]}
                           /\ attached'[p] = "left" <=> attached[p] = "left"
  BY <1>a, <1>c, <1>d
<1>h. \A q \in Requesters : q \in Threads \/ q \in Processes
  BY DEF Requesters
<1>1. RequestInv'
  <2>1. \A c \in Buffers : msgs'[c] # NoMsg => stage'[msgs'[c].from] \in {"held", "dead"}
    BY <1>a, <1>e, <1>f, MessageTypes DEF RequestInv
  <2>2. \A c, d \in Buffers :
          msgs'[c] # NoMsg /\ msgs'[d] # NoMsg /\ msgs'[c].from = msgs'[d].from => c = d
    BY <1>e DEF RequestInv
  <2>3. \A q \in Requesters : stage'[q] = "held" =>
          \E c \in Buffers : msgs'[c] # NoMsg /\ msgs'[c].from = q
    BY <1>a, <1>d, <1>f DEF RequestInv
  <2>4. \A c \in Buffers : msgs'[c].kind = "DISCONNECT" => attached'[msgs'[c].from] = "left"
    BY <1>a, <1>d, <1>e, <1>g, MessageTypes DEF RequestInv, NoMsg
  <2>5. QED
    BY <2>1, <2>2, <2>3, <2>4 DEF RequestInv
<1>2. ClientInv'
  <2>1. \A i \in DOMAIN inbox : inbox[i] \in Message
    BY <1>a
  <2>2. \A i \in DOMAIN inbox : inbox[i].from = r => r \in Threads
    BY <2>1, <1>c, <1>h, MessageTypes DEF ClientInv
  <2>3. UNCHANGED inbox
    BY DEF Answers
  <2>4. \A p \in Processes : attached'[p] = "yes" => stage'[p] = "idle"
    BY <1>f, <1>g DEF ClientInv, Requesters
  <2>5. \A t \in Threads : attached'[ProcOf[t]] = "left" => stage'[t] \in {"idle", "dead"}
    BY <1>f, <1>g, MessageTypes DEF ClientInv, Requesters
  <2>6. ASSUME NEW i \in DOMAIN inbox
        PROVE  /\ \/ stage'[inbox[i].from] = "sent"
                  \/ inbox[i].from \in Threads /\ attached'[ProcOf[inbox[i].from]] = "left"
               /\ inbox[i].kind = "CONNECT" => attached'[inbox[i].from] = "no"
               /\ inbox[i].kind = "DISCONNECT" => attached'[inbox[i].from] = "left"
    <3> DEFINE f == inbox[i].from
    <3>1. f \in Requesters /\ (f \in Threads => ProcOf[f] \in Processes)
      BY <2>1, MessageTypes
    <3>2. \/ stage'[f] = "sent"
          \/ f \in Threads /\ attached'[ProcOf[f]] = "left"
      BY <3>1, <1>c, <1>f, <1>g DEF ClientInv
    <3>3. ASSUME inbox[i].kind \in {"CONNECT", "DISCONNECT"}
          PROVE  f \in Processes /\ f # r
      BY <2>1, <2>2, <3>3, MessageTypes
    <3>4. QED
      BY <3>2, <3>3, <1>g DEF ClientInv
  <2>7. QED
    BY <2>3, <2>4, <2>5, <2>6 DEF ClientInv
<1>3. AnsweredOnce => AnsweredOnce'
  BY <1>b, <1>c DEF AnsweredOnce, Complete
<1>4. QED
  BY <1>1, <1>2, <1>3

\* A request leaves the driver's queue for the current buffer, which was free.
LEMMA ReadKeeps ==
  ASSUME TypeOK, RoleInv, AnswerInv, ReadStep
  PROVE  RequestInv' /\ ClientInv' /\ UNCHANGED wrong
<1>a. /\ stage \in [Requesters -> {"idle", "sent", "held", "dead"}]
      /\ attached \in [Processes -> {"no", "yes", "left"}]
      /\ msgs \in [Buffers -> {NoMsg} \cup Message] /\ inbox \in Seq(Message)
      /\ RequestInv /\ ClientInv /\ cur \in Buffers
  BY SlotFacts DEF TypeOK, AnswerTypes, ControlTypes, SlotTypes, AnswerInv
<1>b. PICK i \in DOMAIN inbox : ReadConnect(i) \/ ReadRequest(i)
  BY DEF ReadStep
<1> DEFINE m == inbox[i]
           r == m.from
<1>c. /\ m \in Message /\ r \in Requesters /\ stage[r] = "sent"
      /\ inbox' = SubSeq(inbox, i + 1, Len(inbox))
  BY <1>a, <1>b, MessageTypes DEF ReadConnect, ReadRequest, Receive, Asked
<1>d. /\ \A k \in DOMAIN inbox' : i + k \in DOMAIN inbox /\ i + k # i /\ inbox'[k] = inbox[i + k]
      /\ i \in Nat /\ DOMAIN inbox' \subseteq Nat
  BY <1>a, <1>c
<1>e. \A k \in DOMAIN inbox' : inbox'[k].from # r
  BY <1>a, <1>d DEF ClientInv
<1>f. msgs[cur] = NoMsg
  <2>1. pc = "inread" /\ work = 0 /\ ret = "none"
    BY <1>b, SlotFacts DEF ReadConnect, ReadRequest, Receive, AnswerInv, PlaceInv, Dispatching
  <2>2. QED
    BY <1>a, <2>1, SlotFacts DEF AnswerInv, OwnerInv, Owned, CurrentFull, DistinctInv, Slots, Buffers
<1>g. \A b \in Buffers : msgs[b] # NoMsg => msgs[b].from # r
  BY <1>a, <1>c DEF RequestInv
<1>h. r \in Processes => attached[r] # "yes"
  BY <1>c, <1>a DEF ClientInv
<1>i. r \in Threads => attached[ProcOf[r]] # "left"
  BY <1>c, <1>a DEF ClientInv
<1>j. \A k \in DOMAIN inbox' : inbox'[k] \in Message /\ inbox'[k].from \in Requesters
  BY <1>a, <1>d, MessageTypes
<1>k. \A k, l \in DOMAIN inbox' : inbox'[k].from = inbox'[l].from => k = l
  <2>1. SUFFICES ASSUME NEW k \in DOMAIN inbox', NEW l \in DOMAIN inbox',
                        inbox'[k].from = inbox'[l].from
                 PROVE  k = l
    OBVIOUS
  <2>2. /\ i + k \in DOMAIN inbox /\ i + l \in DOMAIN inbox
        /\ inbox[i + k].from = inbox[i + l].from
    BY <1>d, <2>1
  <2>3. i + k = i + l
    BY <1>a, <2>2 DEF ClientInv
  <2>4. QED
    BY <1>d, <2>3
<1>1. CASE /\ msgs' = [msgs EXCEPT ![cur] = m] /\ stage' = [stage EXCEPT ![r] = "held"]
           /\ UNCHANGED <<attached, wrong>>
  <2>1. RequestInv'
    <3>1. \A b \in Buffers : msgs'[b] = IF b = cur THEN m ELSE msgs[b]
      BY <1>1, <1>a
    <3>2. \A q \in Requesters : stage'[q] = IF q = r THEN "held" ELSE stage[q]
      BY <1>1, <1>a
    <3>3. m.kind = "DISCONNECT" => attached'[r] = "left"
      BY <1>1, <1>a DEF ClientInv
    <3>4. \A b \in Buffers : msgs'[b] # NoMsg => stage'[msgs'[b].from] \in {"held", "dead"}
      BY <1>a, <1>c, <3>1, <3>2, MessageTypes DEF RequestInv
    <3>5. \A b, c \in Buffers :
            msgs'[b] # NoMsg /\ msgs'[c] # NoMsg /\ msgs'[b].from = msgs'[c].from => b = c
      BY <1>a, <1>g, <3>1 DEF RequestInv
    <3>6. \A q \in Requesters : stage'[q] = "held" =>
            \E b \in Buffers : msgs'[b] # NoMsg /\ msgs'[b].from = q
      <4>1. m # NoMsg
        BY <1>c, MessageTypes
      <4>2. QED
        BY <4>1, <1>a, <1>f, <3>1, <3>2 DEF RequestInv
    <3>7. \A b \in Buffers : msgs'[b].kind = "DISCONNECT" => attached'[msgs'[b].from] = "left"
      BY <1>1, <1>a, <3>1, <3>3 DEF RequestInv
    <3>8. QED
      BY <3>4, <3>5, <3>6, <3>7 DEF RequestInv
  <2>2. ClientInv'
    <3>1. \A p \in Processes : attached'[p] = "yes" => stage'[p] = "idle"
      BY <1>1, <1>a, <1>h DEF ClientInv, Requesters
    <3>2. \A t \in Threads : attached'[ProcOf[t]] = "left" => stage'[t] \in {"idle", "dead"}
      BY <1>1, <1>a, <1>i DEF ClientInv, Requesters
    <3>3. \A k \in DOMAIN inbox' :
            /\ \/ stage'[inbox'[k].from] = "sent"
               \/ inbox'[k].from \in Threads /\ attached'[ProcOf[inbox'[k].from]] = "left"
            /\ inbox'[k].kind = "CONNECT" => attached'[inbox'[k].from] = "no"
            /\ inbox'[k].kind = "DISCONNECT" => attached'[inbox'[k].from] = "left"
      BY <1>1, <1>a, <1>d, <1>e, <1>j DEF ClientInv
    <3>4. QED
      BY <3>1, <3>2, <3>3, <1>k DEF ClientInv
  <2>3. QED
    BY <1>1, <2>1, <2>2
<1>2. CASE /\ m.kind = "CONNECT" /\ stage' = [stage EXCEPT ![r] = "idle"]
           /\ attached' = [attached EXCEPT ![r] = "yes"] /\ UNCHANGED <<msgs, wrong>>
  <2>a. r \in Processes /\ attached[r] = "no"
    BY <1>2, <1>a, <1>c, MessageTypes DEF ClientInv
  <2>b. \A q \in Requesters : stage'[q] = IF q = r THEN "idle" ELSE stage[q]
    BY <1>2, <1>a
  <2>c. \A p \in Processes : attached'[p] = IF p = r THEN "yes" ELSE attached[p]
    BY <1>2, <1>a
  <2>1. RequestInv'
    <3>1. \A b \in Buffers : msgs[b] # NoMsg => stage'[msgs[b].from] \in {"held", "dead"}
      BY <1>a, <1>g, <2>b, MessageTypes DEF RequestInv
    <3>2. \A q \in Requesters : stage'[q] = "held" =>
            \E b \in Buffers : msgs[b] # NoMsg /\ msgs[b].from = q
      BY <1>a, <2>b DEF RequestInv
    <3>3. \A b \in Buffers : msgs[b].kind = "DISCONNECT" => attached'[msgs[b].from] = "left"
      BY <1>2, <1>a, <2>a DEF RequestInv
    <3>4. QED
      BY <1>2, <1>a, <3>1, <3>2, <3>3 DEF RequestInv
  <2>2. ClientInv'
    <3>1. \A p \in Processes : attached'[p] = "yes" => stage'[p] = "idle"
      BY <1>a, <2>b, <2>c DEF ClientInv, Requesters
    <3>2. \A t \in Threads : attached'[ProcOf[t]] = "left" => stage'[t] \in {"idle", "dead"}
      BY <1>a, <2>a, <2>b, <2>c, MessageTypes DEF ClientInv, Requesters
    <3>3. ASSUME NEW k \in DOMAIN inbox'
          PROVE  /\ \/ stage'[inbox'[k].from] = "sent"
                    \/ inbox'[k].from \in Threads /\ attached'[ProcOf[inbox'[k].from]] = "left"
                 /\ inbox'[k].kind = "CONNECT" => attached'[inbox'[k].from] = "no"
                 /\ inbox'[k].kind = "DISCONNECT" => attached'[inbox'[k].from] = "left"
      <4> DEFINE f == inbox'[k].from
      <4>1. f \in Requesters /\ f # r /\ (f \in Threads => ProcOf[f] \in Processes)
        BY <1>e, <1>j, MessageTypes
      <4>2. inbox'[k].kind \in {"CONNECT", "DISCONNECT"} => f \in Processes
        BY <1>j, MessageTypes
      <4>3. \/ stage[f] = "sent"
            \/ f \in Threads /\ attached[ProcOf[f]] = "left"
        BY <1>a, <1>d DEF ClientInv
      <4>4. /\ inbox'[k].kind = "CONNECT" => attached[f] = "no"
            /\ inbox'[k].kind = "DISCONNECT" => attached[f] = "left"
        BY <1>a, <1>d DEF ClientInv
      <4>5. QED
        BY <2>a, <2>b, <2>c, <4>1, <4>2, <4>3, <4>4
    <3>4. QED
      BY <3>1, <3>2, <3>3, <1>k DEF ClientInv
  <2>3. QED
    BY <1>2, <2>1, <2>2
<1>3. QED
  BY <1>b, <1>1, <1>2 DEF ReadConnect, ReadRequest, history

\* The read that goes with its process was of a thread that died with it.
LEMMA DisconnectKeeps ==
  ASSUME TypeOK, RoleInv, AnswerInv, HandleDisconnect
  PROVE  RequestInv' /\ ClientInv' /\ UNCHANGED wrong
<1>a. /\ msgs \in [Buffers -> {NoMsg} \cup Message] /\ kind \in Waiting \cup {"None"}
      /\ RequestInv /\ ClientInv /\ ServingInv /\ DistinctInv
  BY DEF TypeOK, AnswerTypes, ReadTypes, AnswerInv
<1>b. /\ msgs[work].kind = "DISCONNECT" /\ UNCHANGED <<stage, attached, wrong, inbox>>
      /\ work \in Buffers /\ held \in Slots /\ Buffers = Slots \ {0}
  BY SlotFacts DEF HandleDisconnect, Handles, Kind, handleFrame, history
<1>1. ClientInv'
  BY <1>a, <1>b DEF ClientInv
<1>2. CASE has_pending /\ Proc(msgs[held].from) = msgs[work].from
  <2>1. held \in Buffers /\ msgs[held].kind \in Waiting
    BY <1>a, <1>b, <1>2 DEF has_pending, DistinctInv, ServingInv
  <2>2. msgs[held] \in Message /\ msgs[held].from \in Threads
    BY <1>a, <2>1, MessageTypes DEF NoMsg, Waiting, LineReads, Calls
  <2>3. stage[msgs[held].from] \in {"idle", "dead"}
    BY <1>a, <1>b, <1>2, <2>2, MessageTypes DEF RequestInv, ClientInv
  <2>4. \A b \in Buffers : msgs'[b] = IF b = held THEN NoMsg ELSE msgs[b]
    BY <1>a, <1>2 DEF HandleDisconnect
  <2>5. NoMsg.kind # "DISCONNECT"
    BY DEF NoMsg
  <2>6. QED
    BY <1>a, <1>b, <1>1, <2>3, <2>4, <2>5 DEF RequestInv
<1>3. CASE ~(has_pending /\ Proc(msgs[held].from) = msgs[work].from)
  BY <1>a, <1>b, <1>1, <1>3 DEF HandleDisconnect, RequestInv
<1>4. QED
  BY <1>2, <1>3

\* A requester that is idle has nothing queued and nothing in the server.
LEMMA IdleAsksNothing ==
  ASSUME TypeOK, RequestInv, ClientInv, NEW r \in Requesters, stage[r] = "idle",
         r \in Threads => attached[ProcOf[r]] # "left"
  PROVE  /\ \A b \in Buffers : msgs[b] # NoMsg => msgs[b].from # r
         /\ \A i \in DOMAIN inbox : inbox[i].from # r
BY DEF RequestInv, ClientInv

\* A request is queued only by a requester that waits for nothing else.
LEMMA QueueKeeps ==
  ASSUME TypeOK, RequestInv, ClientInv,
         NEW r \in Requesters, NEW k, stage[r] = "idle",
         [kind |-> k, from |-> r] \in Message,
         stage' = [stage EXCEPT ![r] = "sent"],
         inbox' = Append(inbox, [kind |-> k, from |-> r]),
         UNCHANGED <<attached, msgs>>,
         r \in Threads => attached[ProcOf[r]] = "yes",
         r \in Processes => attached[r] = "no" /\ k = "CONNECT"
  PROVE  RequestInv' /\ ClientInv'
<1>a. /\ stage \in [Requesters -> {"idle", "sent", "held", "dead"}]
      /\ msgs \in [Buffers -> {NoMsg} \cup Message] /\ inbox \in Seq(Message)
      /\ attached \in [Processes -> {"no", "yes", "left"}]
  BY DEF TypeOK, AnswerTypes, ControlTypes
<1>b. /\ \A b \in Buffers : msgs[b] # NoMsg => msgs[b].from # r
      /\ \A i \in DOMAIN inbox : inbox[i].from # r
  BY IdleAsksNothing
<1>c. \A q \in Requesters : stage'[q] = IF q = r THEN "sent" ELSE stage[q]
  BY <1>a
<1>d. \A i \in DOMAIN inbox' :
        \/ i \in DOMAIN inbox /\ inbox'[i] = inbox[i] /\ inbox'[i].from # r
        \/ i = Len(inbox) + 1 /\ inbox'[i] = [kind |-> k, from |-> r]
  BY <1>a, <1>b
<1>e. \A i \in DOMAIN inbox : inbox[i].from \in Requesters
  BY <1>a, MessageTypes
<1>f. [kind |-> k, from |-> r].kind = k /\ [kind |-> k, from |-> r].from = r
  OBVIOUS
<1>g. r \in Processes \/ k \in Calls
  BY <1>f, MessageTypes
<1>1. RequestInv'
  BY <1>a, <1>b, <1>c, MessageTypes DEF RequestInv
<1>2. \A p \in Processes : attached'[p] = "yes" => stage'[p] = "idle"
  BY <1>c DEF ClientInv, Requesters
<1>3. \A t \in Threads : attached'[ProcOf[t]] = "left" => stage'[t] \in {"idle", "dead"}
  BY <1>c DEF ClientInv, Requesters
<1>4. \A i \in DOMAIN inbox' :
        /\ \/ stage'[inbox'[i].from] = "sent"
           \/ inbox'[i].from \in Threads /\ attached'[ProcOf[inbox'[i].from]] = "left"
        /\ inbox'[i].kind = "CONNECT" => attached'[inbox'[i].from] = "no"
        /\ inbox'[i].kind = "DISCONNECT" => attached'[inbox'[i].from] = "left"
  BY <1>c, <1>d, <1>e, <1>f, <1>g, MessageTypes DEF ClientInv
<1>5. \A i, j \in DOMAIN inbox' : inbox'[i].from = inbox'[j].from => i = j
  BY <1>d, <1>f DEF ClientInv
<1>6. QED
  BY <1>1, <1>2, <1>3, <1>4, <1>5 DEF ClientInv

\* The threads of a process that leaves wait for nothing any more.
LEMMA ExitKeeps ==
  ASSUME TypeOK, RequestInv, ClientInv, NEW p \in Processes, Exit(p)
  PROVE  RequestInv' /\ ClientInv'
<1>a. /\ stage \in [Requesters -> {"idle", "sent", "held", "dead"}]
      /\ msgs \in [Buffers -> {NoMsg} \cup Message] /\ inbox \in Seq(Message)
      /\ attached \in [Processes -> {"no", "yes", "left"}]
  BY DEF TypeOK, AnswerTypes, ControlTypes
<1>b. attached[p] = "yes" /\ stage[p] = "idle" /\ p \in Requesters /\ UNCHANGED msgs
  BY DEF Exit, ClientInv, Requesters, loopVars
<1>c. /\ \A b \in Buffers : msgs[b] # NoMsg => msgs[b].from # p
      /\ \A i \in DOMAIN inbox : inbox[i].from # p
  BY <1>b, IdleAsksNothing, MessageTypes
<1>d. \A q \in Processes : attached'[q] = IF q = p THEN "left" ELSE attached[q]
  BY <1>a DEF Exit
<1>e. /\ stage'[p] = "sent"
      /\ \A q \in Processes : q # p => stage'[q] = stage[q]
      /\ \A t \in Threads : /\ ProcOf[t] # p => stage'[t] = stage[t]
                            /\ ProcOf[t] = p =>
                                 stage'[t] = IF stage[t] = "sent" THEN "idle"
                                             ELSE IF stage[t] = "held" THEN "dead"
                                             ELSE stage[t]
  BY <1>a, <1>b, MessageTypes DEF Exit, Requesters
<1>f. \A q \in Requesters : q \in Threads \/ q \in Processes
  BY DEF Requesters
<1>g. \A q \in Requesters : q # p => /\ stage[q] \in {"held", "dead"} =>
                                          stage'[q] \in {"held", "dead"}
                                     /\ stage'[q] = "held" => stage[q] = "held"
  BY <1>a, <1>e, <1>f
<1>h. \A i \in DOMAIN inbox' :
        \/ i \in DOMAIN inbox /\ inbox'[i] = inbox[i] /\ inbox'[i].from # p
        \/ i = Len(inbox) + 1 /\ inbox'[i] = [kind |-> "DISCONNECT", from |-> p]
  BY <1>a, <1>c DEF Exit
<1>i. \A i \in DOMAIN inbox : inbox[i] \in Message
  BY <1>a
<1>1. RequestInv'
  <2>1. \A b \in Buffers : msgs[b] # NoMsg => stage'[msgs[b].from] \in {"held", "dead"}
    BY <1>a, <1>c, <1>g, MessageTypes DEF RequestInv
  <2>2. \A q \in Requesters : stage'[q] = "held" =>
          \E b \in Buffers : msgs[b] # NoMsg /\ msgs[b].from = q
    BY <1>e, <1>g DEF RequestInv
  <2>3. \A b \in Buffers : msgs[b].kind = "DISCONNECT" => attached'[msgs[b].from] = "left"
    <3>1. \A b \in Buffers : msgs[b].kind = "DISCONNECT" => msgs[b].from \in Processes
      BY <1>a, MessageTypes DEF NoMsg
    <3>2. QED
      BY <1>d, <3>1 DEF RequestInv
  <2>4. QED
    BY <1>b, <2>1, <2>2, <2>3 DEF RequestInv
<1>2. \A q \in Processes : attached'[q] = "yes" => stage'[q] = "idle"
  BY <1>d, <1>e DEF ClientInv
<1>3. \A t \in Threads : attached'[ProcOf[t]] = "left" => stage'[t] \in {"idle", "dead"}
  BY <1>a, <1>d, <1>e, MessageTypes DEF ClientInv, Requesters
<1>4. ASSUME NEW i \in DOMAIN inbox', i \in DOMAIN inbox, inbox'[i] = inbox[i],
             inbox'[i].from # p
      PROVE  /\ \/ stage'[inbox'[i].from] = "sent"
                \/ inbox'[i].from \in Threads /\ attached'[ProcOf[inbox'[i].from]] = "left"
             /\ inbox'[i].kind = "CONNECT" => attached'[inbox'[i].from] = "no"
             /\ inbox'[i].kind = "DISCONNECT" => attached'[inbox'[i].from] = "left"
  <2> DEFINE f == inbox[i].from
  <2>1. /\ f \in Requesters /\ f # p
        /\ f \in Threads => ProcOf[f] \in Processes /\ f \notin Processes
        /\ inbox[i].kind \in {"CONNECT", "DISCONNECT"} => f \in Processes
    BY <1>i, <1>4, MessageTypes
  <2>2. \/ stage'[f] = "sent"
        \/ f \in Threads /\ attached'[ProcOf[f]] = "left"
    BY <1>4, <1>d, <1>e, <1>f, <2>1 DEF ClientInv
  <2>3. QED
    BY <1>4, <1>d, <2>1, <2>2 DEF ClientInv
<1>5. \A i \in DOMAIN inbox' :
        /\ \/ stage'[inbox'[i].from] = "sent"
           \/ inbox'[i].from \in Threads /\ attached'[ProcOf[inbox'[i].from]] = "left"
        /\ inbox'[i].kind = "CONNECT" => attached'[inbox'[i].from] = "no"
        /\ inbox'[i].kind = "DISCONNECT" => attached'[inbox'[i].from] = "left"
  BY <1>b, <1>d, <1>e, <1>h, <1>4
<1>6. \A i, j \in DOMAIN inbox' : inbox'[i].from = inbox'[j].from => i = j
  BY <1>h DEF ClientInv
<1>7. QED
  BY <1>1, <1>2, <1>3, <1>5, <1>6 DEF ClientInv

LEMMA EnvironmentKeeps ==
  ASSUME TypeOK, RequestInv, ClientInv, Environment
  PROVE  RequestInv' /\ ClientInv' /\ UNCHANGED wrong
<1>1. ASSUME NEW p \in Processes, Attach(p)
      PROVE  RequestInv' /\ ClientInv' /\ UNCHANGED wrong
  <2>1. [kind |-> "CONNECT", from |-> p] \in Message /\ p \in Requesters /\ p \notin Threads
    BY MessageTypes DEF Message, Requesters
  <2>2. QED
    BY <1>1, <2>1, QueueKeeps DEF Attach, Request, history, loopVars
<1>2. ASSUME NEW t \in Threads, NEW k \in Calls, Call(t, k)
      PROVE  RequestInv' /\ ClientInv' /\ UNCHANGED wrong
  <2>1. [kind |-> k, from |-> t] \in Message /\ t \in Requesters /\ t \notin Processes
    BY MessageTypes DEF Message, Requesters
  <2>2. QED
    BY <1>2, <2>1, QueueKeeps DEF Call, Request, history, loopVars
<1>3. ASSUME NEW p \in Processes, Exit(p)
      PROVE  RequestInv' /\ ClientInv' /\ UNCHANGED wrong
  BY <1>3, ExitKeeps DEF Exit, history
<1>4. ASSUME UNCHANGED <<clientVars, history, loopVars>>
      PROVE  RequestInv' /\ ClientInv' /\ UNCHANGED wrong
  BY <1>4 DEF clientVars, history, loopVars, RequestInv, ClientInv
<1>5. QED
  BY <1>1, <1>2, <1>3, <1>4 DEF Environment, Type, Close, Pipes

LEMMA ClientStep ==
  ASSUME TypeOK, RoleInv, AnswerInv, [Next]_vars
  PROVE  RequestInv' /\ ClientInv' /\ (AnsweredOnce => AnsweredOnce')
<1> RequestInv /\ ClientInv
  BY DEF AnswerInv
<1>1. CASE UNCHANGED <<answerVars, inbox>>
  BY <1>1 DEF answerVars, history, RequestInv, ClientInv, AnsweredOnce
<1>2. QED
  BY <1>1, AnswerEffects, AnswersKeep, ReadKeeps, DisconnectKeeps, EnvironmentKeeps
     DEF AnsweredOnce

-----------------------------------------------------------------------------
(* The theorems *)

\* The invariant that carries the three theorems below.
LEMMA AnswersKept == Spec => [](TypeOK /\ RoleInv /\ AnswerInv /\ AnsweredOnce)
<1>1. Init => AnswerInv /\ AnsweredOnce
  <2>1. Init => PlaceInv /\ DistinctInv /\ ServingInv
    BY DEF Init, PlaceInv, DistinctInv, ServingInv, CurrentFull, Dispatching, Idling
  <2>2. Init => OwnerInv
    BY DEF Init, OwnerInv, Owned, CurrentFull, Buffers
  <2>3. Init => RequestInv /\ ClientInv /\ AnsweredOnce
    BY MessageTypes DEF Init, RequestInv, ClientInv, AnsweredOnce, NoMsg, Requesters
  <2>4. QED
    BY <2>1, <2>2, <2>3 DEF AnswerInv
<1>2. TypeOK /\ RoleInv /\ AnswerInv /\ AnsweredOnce /\ [Next]_vars =>
        AnswerInv' /\ AnsweredOnce'
  BY PlaceStep, DistinctStep, OwnerStep, ServingStep, ClientStep DEF AnswerInv
<1>3. QED
  BY <1>1, <1>2, TypedRoles, PTL DEF Spec

\* READ_IO never reads over a message that is still needed: next_free and the
\* three pointers of run_io_loop_no_setup keep the buffer it fills free of the
\* completion it submits, the waiting read and the deferred one.
THEOREM ReadsIntoFreeBuffer == Spec => []BuffersDisjoint
<1>1. TypeOK /\ RoleInv /\ AnswerInv => BuffersDisjoint
  <2>1. SUFFICES ASSUME TypeOK, RoleInv, AnswerInv, pc = "inread" PROVE BuffersDisjoint
    BY DEF BuffersDisjoint
  <2>2. ret = "none" /\ work = 0
    BY <2>1, SlotFacts DEF AnswerInv, PlaceInv, Dispatching
  <2>3. cur \notin {prev_done, held, deferred_msg, 0}
    BY <2>1, <2>2, SlotFacts DEF AnswerInv, DistinctInv
  <2>4. QED
    BY <2>1, <2>2, <2>3, SlotFacts DEF AnswerInv, OwnerInv, Owned, CurrentFull, BuffersDisjoint
<1>2. QED
  BY <1>1, AnswersKept, PTL

\* No request in the server's hands is forgotten: when the loop blocks in
\* READ_IO every one that was read and not answered is the read that waits in
\* pipe_bridge or the deferred one.
THEOREM RequestsRemembered == Spec => []NothingForgotten
<1>1. TypeOK /\ RoleInv /\ AnswerInv => NothingForgotten
  <2>1. SUFFICES ASSUME TypeOK, RoleInv, AnswerInv, pc = "inread" PROVE NothingForgotten
    BY DEF NothingForgotten
  <2>2. ret = "none" /\ work = 0 /\ Buffers = Slots \ {0}
    BY <2>1, SlotFacts DEF AnswerInv, PlaceInv, Dispatching
  <2>3. \A b \in Buffers : msgs[b] # NoMsg => b \in {held, deferred_msg} \ {0}
    BY <2>1, <2>2 DEF AnswerInv, OwnerInv, Owned, CurrentFull
  <2>4. QED
    BY <2>1, <2>3 DEF AnswerInv, RequestInv, NothingForgotten
<1>2. QED
  BY <1>1, AnswersKept, PTL

\* No request is answered twice: what on_message returned TRUE for, the loop
\* submits; what complete_pending submitted by itself, the loop does not.
THEOREM OneAnswerEach == Spec => []AnsweredOnce
BY AnswersKept, PTL

-----------------------------------------------------------------------------
(***************************************************************************)
(* Line readers get the keys in order.  ReadConsole reads only: a RAW_READ *)
(* passes queued events by, and the records of GetConsoleInput go through  *)
(* one shared buffer.                                                      *)
(***************************************************************************)

\* Clients only read lines and write.
LineReadersOnly == \A t \in Threads : Uses[t] \subseteq {"ReadConsole", "WriteConsole"}

\* Nothing drops keys: no reader leaves, there is no Ctrl+C, the event queue has room for all.
KeepsAll == Leavers = {} /\ KeyClasses \subseteq {"char", "enter"} /\ MaxKeys <= MaxEvents

\* No other request is about, and no completion points at the shared output buffer.
UsesInv ==
  /\ \A i \in DOMAIN inbox :
       inbox[i].kind \in {"ReadConsole", "WriteConsole", "CONNECT", "DISCONNECT"}
  /\ \A b \in Buffers :
       /\ msgs[b].kind \in {"ReadConsole", "WriteConsole", "CONNECT", "DISCONNECT", "none"}
       /\ comp[b].src # "shared"
  /\ kind \in {"None", "ReadConsole"} /\ pc # "prepare"

Keys(s) == {s[i] : i \in DOMAIN s}
Rising(s) == \A i, j \in DOMAIN s : i < j => s[i] < s[j]

\* The keys threads have, in g, and those of the answers prepared for them, in k.
GivenOut(g, k) == (UNION {g[t] : t \in Threads}) \cup (UNION {Keys(k[b]) : b \in Buffers})

\* Of the n keys taken, those given out come before those in the line l, and these before
\* those in the events e.  What is in none was dropped.
InLine(given, l, e, n) ==
  /\ Rising(l) /\ Rising(e) /\ \A x \in Keys(l), y \in Keys(e) : x < y
  /\ Keys(l) \cup Keys(e) \cup given \subseteq 1..n
  /\ \A x \in given, y \in Keys(l) \cup Keys(e) : x < y
  /\ KeepsAll => 1..n \subseteq Keys(l) \cup Keys(e) \cup given

\* A prepared answer is for the message in its buffer, and comes after all that its thread has;
\* no key is in two answers, or in one and with a thread.
Prepared(g, k, m) ==
  \A b \in Buffers :
    /\ Rising(k[b]) /\ (k[b] # << >> => m[b] # NoMsg /\ m[b].from \in Threads)
    /\ \A t \in Threads : Keys(k[b]) \cap g[t] = {}
    /\ \A d \in Buffers \ {b} : Keys(k[b]) \cap Keys(k[d]) = {}
    /\ m[b] # NoMsg /\ m[b].from \in Threads =>
         \A x \in g[m[b].from], y \in Keys(k[b]) : x < y

Ordered(g, k, m, l, e, n) == InLine(GivenOut(g, k), l, e, n) /\ Prepared(g, k, m)

AnswerKeys == [b \in Buffers |-> comp[b].keys]

\* A line is read when a read waits, and takes the events first; no more keys are queued than
\* were taken.
PlacesInv ==
  /\ kind = "None" => line = << >>
  /\ kind = "ReadConsole" /\ pc # "consume" => events = << >>
  /\ Len(events) <= taken /\ Len(typed) <= MaxKeys
  /\ Leavers = {} => \A p \in Processes : attached[p] # "left"

KeyInv == /\ UsesInv /\ PlacesInv /\ "order" \notin wrong
          /\ Ordered(got, AnswerKeys, msgs, line, events, taken)

-----------------------------------------------------------------------------
(* What moving a key does to the order *)

LEMMA NoKeys == Keys(<< >>) = {} /\ Rising(<< >>)
BY DEF Keys, Rising

LEMMA LastKey ==
  ASSUME NEW s \in Seq(Nat), NEW k \in Nat, Rising(s), \A x \in Keys(s) : x < k
  PROVE  /\ Keys(Append(s, k)) = Keys(s) \cup {k}
         /\ Rising(Append(s, k)) /\ Append(s, k) \in Seq(Nat)
<1> DEFINE a == Append(s, k)
<1>1. /\ a \in Seq(Nat) /\ DOMAIN a = 1..(Len(s) + 1) /\ DOMAIN s = 1..Len(s)
      /\ a[Len(s) + 1] = k /\ \A i \in 1..Len(s) : a[i] = s[i] /\ a[i] < k
  BY DEF Keys
<1>2. \A i \in DOMAIN a : i \in DOMAIN s \/ i = Len(s) + 1
  BY <1>1
<1>3. Len(s) + 1 \in DOMAIN a /\ \A i \in DOMAIN s : i \in DOMAIN a
  BY <1>1
<1> HIDE DEF a
<1>4. Keys(a) = Keys(s) \cup {k}
  BY <1>1, <1>2, <1>3 DEF Keys
<1>5. Rising(a)
  <2>1. SUFFICES ASSUME NEW i \in DOMAIN a, NEW j \in DOMAIN a, i < j PROVE a[i] < a[j]
    BY DEF Rising
  <2>2. i \in 1..Len(s)
    BY <1>1, <2>1
  <2>3. CASE j \in 1..Len(s)
    BY <1>1, <2>1, <2>2, <2>3 DEF Rising
  <2>4. CASE j \notin 1..Len(s)
    BY <1>1, <1>2, <2>1, <2>2, <2>4
  <2>5. QED
    BY <2>3, <2>4
<1>6. QED
  BY <1>1, <1>4, <1>5 DEF a

LEMMA FirstKey ==
  ASSUME NEW s \in Seq(Nat), s # << >>, Rising(s)
  PROVE  /\ Head(s) \in Nat /\ Tail(s) \in Seq(Nat) /\ Len(Tail(s)) = Len(s) - 1
         /\ Keys(s) = Keys(Tail(s)) \cup {Head(s)} /\ Rising(Tail(s))
         /\ \A y \in Keys(Tail(s)) : Head(s) < y
<1> DEFINE r == Tail(s)
<1>1. /\ r \in Seq(Nat) /\ Len(r) = Len(s) - 1 /\ DOMAIN r = 1..(Len(s) - 1)
      /\ DOMAIN s = 1..Len(s) /\ \A i \in 1..(Len(s) - 1) : r[i] = s[i + 1]
      /\ 1 \in DOMAIN s /\ Head(s) = s[1] /\ s[1] \in Nat /\ Len(s) \in Nat
  OBVIOUS
<1> HIDE DEF r
<1>2. \A i \in DOMAIN s : i # 1 => i - 1 \in DOMAIN r /\ s[i] = r[i - 1]
  <2>1. SUFFICES ASSUME NEW i \in 1..Len(s), i # 1
                 PROVE  i - 1 \in DOMAIN r /\ s[i] = r[i - 1]
    BY <1>1
  <2>2. i - 1 \in 1..(Len(s) - 1) /\ (i - 1) + 1 = i
    BY <1>1, <2>1
  <2>3. QED
    BY <1>1, <2>2
<1>3. \A i \in DOMAIN r : i + 1 \in DOMAIN s /\ r[i] = s[i + 1]
  BY <1>1, SMTT(30)
<1>4. Keys(s) = Keys(r) \cup {Head(s)}
  <2>1. ASSUME NEW i \in DOMAIN s PROVE s[i] \in Keys(r) \cup {Head(s)}
    BY <1>1, <1>2 DEF Keys
  <2>2. ASSUME NEW i \in DOMAIN r PROVE r[i] \in Keys(s)
    BY <1>3 DEF Keys
  <2>3. Head(s) \in Keys(s)
    BY <1>1 DEF Keys
  <2>4. QED
    BY <2>1, <2>2, <2>3 DEF Keys
<1>5. Rising(r)
  <2>1. SUFFICES ASSUME NEW i \in DOMAIN r, NEW j \in DOMAIN r, i < j PROVE r[i] < r[j]
    BY DEF Rising
  <2>2. i + 1 < j + 1
    BY <1>1, <2>1
  <2>3. QED
    BY <1>3, <2>1, <2>2 DEF Rising
<1>6. \A y \in Keys(r) : Head(s) < y
  <2>1. SUFFICES ASSUME NEW i \in DOMAIN r PROVE s[1] < r[i]
    BY <1>1 DEF Keys
  <2>2. 1 < i + 1
    BY <1>1, <2>1
  <2>3. QED
    BY <1>1, <1>3, <2>1, <2>2 DEF Rising
<1>7. QED
  BY <1>1, <1>4, <1>5, <1>6 DEF r

\* The keys a completion hands over are those of the sequence.
LEMMA AllTyped ==
  ASSUME NEW s \in Seq(Nat), NEW n \in Nat, Keys(s) \subseteq 1..n
  PROVE  TypedIn(s) = DOMAIN s /\ {s[i] : i \in TypedIn(s)} = Keys(s)
<1>1. \A i \in DOMAIN s : s[i] # 0
  BY DEF Keys
<1>2. TypedIn(s) = DOMAIN s
  BY <1>1 DEF TypedIn, Injected
<1>3. QED
  BY <1>2 DEF Keys

LEMMA TakeIntoLine ==
  ASSUME NEW given, NEW l \in Seq(Nat), NEW n \in Nat, InLine(given, l, << >>, n)
  PROVE  InLine(given, Append(l, n + 1), << >>, n + 1)
<1>1. Keys(<< >>) = {} /\ Rising(<< >>) /\ n + 1 \in Nat /\ 1..(n + 1) = 1..n \cup {n + 1}
  BY NoKeys
<1>2. \A x \in 1..n : x < n + 1
  OBVIOUS
<1>3. \A x \in Keys(l) \cup given : x < n + 1
  BY <1>2 DEF InLine
<1>4. /\ Keys(Append(l, n + 1)) = Keys(l) \cup {n + 1} /\ Rising(Append(l, n + 1))
  BY <1>1, <1>3, LastKey DEF InLine
<1>5. QED
  BY <1>1, <1>3, <1>4 DEF InLine

LEMMA TakeIntoEvents ==
  ASSUME NEW given, NEW l, NEW e \in Seq(Nat), NEW n \in Nat, InLine(given, l, e, n)
  PROVE  InLine(given, l, Append(e, n + 1), n + 1)
<1>1. n + 1 \in Nat /\ 1..(n + 1) = 1..n \cup {n + 1}
  OBVIOUS
<1>2. \A x \in 1..n : x < n + 1
  OBVIOUS
<1>3. \A x \in Keys(l) \cup Keys(e) \cup given : x < n + 1
  BY <1>2 DEF InLine
<1>4. /\ Keys(Append(e, n + 1)) = Keys(e) \cup {n + 1} /\ Rising(Append(e, n + 1))
  BY <1>1, <1>3, LastKey DEF InLine
<1>5. QED
  BY <1>1, <1>3, <1>4 DEF InLine

LEMMA TakeAndDrop ==
  ASSUME NEW given, NEW l, NEW e, NEW n \in Nat, ~KeepsAll, InLine(given, l, e, n)
  PROVE  InLine(given, l, e, n + 1)
<1>1. 1..n \subseteq 1..(n + 1)
  OBVIOUS
<1>2. QED
  BY <1>1 DEF InLine

LEMMA EventIntoLine ==
  ASSUME NEW given, NEW l \in Seq(Nat), NEW e \in Seq(Nat), NEW n \in Nat, e # << >>,
         InLine(given, l, e, n)
  PROVE  InLine(given, Append(l, Head(e)), Tail(e), n)
<1>1. /\ Head(e) \in Nat /\ Keys(e) = Keys(Tail(e)) \cup {Head(e)}
      /\ Rising(Tail(e)) /\ \A y \in Keys(Tail(e)) : Head(e) < y
  BY FirstKey DEF InLine
<1>2. \A x \in Keys(l) \cup given : x < Head(e)
  BY <1>1 DEF InLine
<1>3. /\ Keys(Append(l, Head(e))) = Keys(l) \cup {Head(e)} /\ Rising(Append(l, Head(e)))
  BY <1>1, <1>2, LastKey DEF InLine
<1>4. QED
  BY <1>1, <1>2, <1>3 DEF InLine

LEMMA LineDropped ==
  ASSUME NEW given, NEW l, NEW e, NEW n \in Nat, InLine(given, l, e, n), ~KeepsAll \/ l = << >>
  PROVE  InLine(given, << >>, e, n)
BY NoKeys DEF InLine

LEMMA LineGiven ==
  ASSUME NEW given, NEW l, NEW e, NEW n \in Nat, InLine(given, l, e, n)
  PROVE  InLine(given \cup Keys(l), << >>, e, n)
BY NoKeys DEF InLine

LEMMA GivenIs ==
  ASSUME NEW g, NEW k, NEW x
  PROVE  x \in GivenOut(g, k) <=> \/ \E t \in Threads : x \in g[t]
                                 \/ \E b \in Buffers : x \in Keys(k[b])
<1> DEFINE threads == UNION {g[t] : t \in Threads}
           answers == UNION {Keys(k[b]) : b \in Buffers}
<1>1. x \in threads <=> \E t \in Threads : x \in g[t]
  OBVIOUS
<1>2. x \in answers <=> \E b \in Buffers : x \in Keys(k[b])
  OBVIOUS
<1>3. GivenOut(g, k) = threads \cup answers
  BY DEF GivenOut
<1> HIDE DEF threads, answers
<1>4. QED
  BY <1>1, <1>2, <1>3

\* A completion is prepared in buffer b.
LEMMA AnswerPrepared ==
  ASSUME NEW g, NEW k, NEW m, NEW l, NEW e, NEW n \in Nat, NEW b \in Buffers,
         k \in [Buffers -> Seq(Nat)], Ordered(g, k, m, l, e, n),
         k[b] = << >>, m[b] # NoMsg, m[b].from \in Threads
  PROVE  Ordered(g, [k EXCEPT ![b] = l], m, << >>, e, n)
<1> DEFINE j == [k EXCEPT ![b] = l]
<1>1. j[b] = l /\ \A d \in Buffers \ {b} : j[d] = k[d]
  OBVIOUS
<1> HIDE DEF j
<1>2. Keys(k[b]) = {}
  BY NoKeys
<1>3. GivenOut(g, j) = GivenOut(g, k) \cup Keys(l)
  <2>1. \A x : (\E d \in Buffers : x \in Keys(j[d])) <=>
                 x \in Keys(l) \/ \E d \in Buffers : x \in Keys(k[d])
    BY <1>1, <1>2
  <2>2. \A x : x \in GivenOut(g, j) <=> x \in GivenOut(g, k) \/ x \in Keys(l)
    BY <2>1, GivenIs, Zenon
  <2>3. QED
    BY <2>2
<1>4. InLine(GivenOut(g, j), << >>, e, n)
  BY <1>3, LineGiven DEF Ordered
<1>5. \A x \in GivenOut(g, k), y \in Keys(l) : x < y /\ x \in Nat
  BY DEF Ordered, InLine
<1>6. \A x \in GivenOut(g, k) : x \notin Keys(l)
  BY <1>5
<1>7. /\ \A t \in Threads : g[t] \subseteq GivenOut(g, k)
      /\ \A d \in Buffers : Keys(k[d]) \subseteq GivenOut(g, k)
  BY GivenIs
<1>8. Prepared(g, j, m)
  <2>1. SUFFICES ASSUME NEW d \in Buffers
                 PROVE  /\ Rising(j[d]) /\ (j[d] # << >> => m[d] # NoMsg /\ m[d].from \in Threads)
                        /\ \A t \in Threads : Keys(j[d]) \cap g[t] = {}
                        /\ \A f \in Buffers \ {d} : Keys(j[d]) \cap Keys(j[f]) = {}
                        /\ m[d] # NoMsg /\ m[d].from \in Threads =>
                             \A x \in g[m[d].from], y \in Keys(j[d]) : x < y
    BY DEF Prepared
  <2>2. CASE d = b
    <3>1. Rising(l)
      BY DEF Ordered, InLine
    <3>2. QED
      BY <1>1, <1>5, <1>6, <1>7, <2>2, <3>1
  <2>3. CASE d # b
    BY <1>1, <1>6, <1>7, <2>3 DEF Ordered, Prepared
  <2>4. QED
    BY <2>2, <2>3
<1>9. QED
  BY <1>4, <1>8 DEF Ordered, j

\* The only answer a thread waits for: no other buffer holds a message of its.
OneMessage(m, b, t) ==
  /\ m[b] # NoMsg /\ m[b].from = t
  /\ \A d \in Buffers \ {b} : m[d] # NoMsg => m[d].from # t

\* Keys that come after all that thread t has, and are nobody else's.
Fresh(g, t, s) ==
  /\ \A u \in Threads : Keys(s) \cap g[u] = {}
  /\ \A x \in g[t], y \in Keys(s) : x < y

LEMMA InOrder ==
  ASSUME NEW t \in Threads, NEW s \in Seq(Nat), NEW n \in Nat, Keys(s) \subseteq 1..n,
         got \in [Threads -> SUBSET Nat], Rising(s), Fresh(got, t, s)
  PROVE  ~OutOfOrder(t, s)
<1>1. TypedIn(s) = DOMAIN s
  BY AllTyped
<1>2. ASSUME NEW i \in DOMAIN s, NEW u \in Threads PROVE s[i] \notin got[u]
  BY DEF Fresh, Keys
<1>3. ASSUME NEW i \in DOMAIN s, NEW x \in got[t] PROVE ~(s[i] <= x)
  <2>1. s[i] \in Nat /\ x \in Nat /\ s[i] \in Keys(s)
    BY <1>3 DEF Keys
  <2>2. x < s[i]
    BY <1>3, <2>1 DEF Fresh
  <2>3. QED
    BY <2>1, <2>2
<1>4. ASSUME NEW i \in DOMAIN s, NEW j \in DOMAIN s, j < i PROVE ~(s[i] <= s[j])
  <2>1. s[i] \in Nat /\ s[j] \in Nat /\ s[j] < s[i]
    BY <1>4 DEF Rising
  <2>2. QED
    BY <2>1
<1>5. QED
  BY <1>1, <1>2, <1>3, <1>4 DEF OutOfOrder

\* The answer in buffer b, or none, and the keys s are given to thread t.
LEMMA AnswerGiven ==
  ASSUME NEW g \in [Threads -> SUBSET Nat], NEW k, NEW m, NEW b \in Buffers, NEW t \in Threads,
         NEW s, k \in [Buffers -> Seq(Nat)], m \in [Buffers -> {NoMsg} \cup Message],
         Prepared(g, k, m), OneMessage(m, b, t),
         \A d \in Buffers \ {b} : Keys(s) \cap Keys(k[d]) = {}
  PROVE  Prepared([g EXCEPT ![t] = @ \cup Keys(s)], [k EXCEPT ![b] = << >>],
                  [m EXCEPT ![b] = NoMsg])
<1> DEFINE h == [g EXCEPT ![t] = @ \cup Keys(s)]
           j == [k EXCEPT ![b] = << >>]
           w == [m EXCEPT ![b] = NoMsg]
<1>1. /\ j[b] = << >> /\ w[b] = NoMsg /\ h[t] = g[t] \cup Keys(s)
      /\ \A d \in Buffers \ {b} : j[d] = k[d] /\ w[d] = m[d]
      /\ \A u \in Threads \ {t} : h[u] = g[u]
  OBVIOUS
<1> HIDE DEF h, j, w
<1>2. SUFFICES ASSUME NEW d \in Buffers
               PROVE  /\ Rising(j[d]) /\ (j[d] # << >> => w[d] # NoMsg /\ w[d].from \in Threads)
                      /\ \A u \in Threads : Keys(j[d]) \cap h[u] = {}
                      /\ \A f \in Buffers \ {d} : Keys(j[d]) \cap Keys(j[f]) = {}
                      /\ w[d] # NoMsg /\ w[d].from \in Threads =>
                           \A x \in h[w[d].from], y \in Keys(j[d]) : x < y
  BY DEF Prepared, h, j, w
<1>3. CASE d = b
  BY <1>1, <1>3, NoKeys
<1>4. CASE d # b
  <2>1. j[d] = k[d] /\ w[d] = m[d] /\ (m[d] # NoMsg => m[d].from # t)
    BY <1>1, <1>4 DEF OneMessage
  <2>2. \A u \in Threads : Keys(k[d]) \cap h[u] = {}
    BY <1>1, <1>4 DEF Prepared
  <2>3. \A f \in Buffers \ {d} : Keys(k[d]) \cap Keys(j[f]) = {}
    BY <1>1, <1>4, NoKeys DEF Prepared
  <2>4. m[d] # NoMsg /\ m[d].from \in Threads => h[m[d].from] = g[m[d].from]
    BY <1>1, <2>1
  <2>5. QED
    BY <2>1, <2>2, <2>3, <2>4 DEF Prepared
<1>5. QED
  BY <1>3, <1>4

LEMMA GivenGrows ==
  ASSUME NEW g, NEW k, NEW h, NEW j, NEW b \in Buffers, NEW t \in Threads, NEW s,
         j[b] = << >>, h[t] = g[t] \cup Keys(s), \A d \in Buffers \ {b} : j[d] = k[d],
         \A u \in Threads \ {t} : h[u] = g[u], k[b] = << >> \/ k[b] = s
  PROVE  GivenOut(h, j) = GivenOut(g, k) \cup Keys(s)
<1>1. /\ j[b] = << >> /\ h[t] = g[t] \cup Keys(s)
      /\ \A d \in Buffers \ {b} : j[d] = k[d]
      /\ \A u \in Threads \ {t} : h[u] = g[u]
  OBVIOUS
<1>2. \A x : (\E u \in Threads : x \in h[u]) <=> x \in Keys(s) \/ \E u \in Threads : x \in g[u]
  BY <1>1
<1>3. \A x : (\E d \in Buffers : x \in Keys(k[d])) =>
               x \in Keys(s) \/ \E d \in Buffers : x \in Keys(j[d])
  BY <1>1, NoKeys
<1>4. \A x : (\E d \in Buffers : x \in Keys(j[d])) => \E d \in Buffers : x \in Keys(k[d])
  BY <1>1, NoKeys
<1>5. \A x : x \in GivenOut(h, j) <=> x \in GivenOut(g, k) \/ x \in Keys(s)
  BY <1>2, <1>3, <1>4, GivenIs, Zenon
<1>6. QED
  BY <1>5

\* The keys s are handed over as the answer in buffer b.
LEMMA CompleteInOrder ==
  ASSUME TypeOK, NEW b \in Buffers, NEW t \in Threads, NEW s \in Seq(Nat), NEW n \in Nat,
         OneMessage(msgs, b, t), Keys(s) \subseteq 1..n, Rising(s), Fresh(got, t, s),
         \A d \in Buffers \ {b} : Keys(s) \cap Keys(AnswerKeys[d]) = {},
         AnswerKeys[b] = << >> \/ AnswerKeys[b] = s,
         Prepared(got, AnswerKeys, msgs), Complete(b, s), "order" \notin wrong
  PROVE  LET k == [AnswerKeys EXCEPT ![b] = << >>]
         IN  /\ Prepared(got', k, msgs') /\ "order" \notin wrong'
             /\ GivenOut(got', k) = GivenOut(got, AnswerKeys) \cup Keys(s)
<1>1. /\ got \in [Threads -> SUBSET Nat] /\ msgs \in [Buffers -> {NoMsg} \cup Message]
      /\ comp \in [Buffers -> Completion]
  BY DEF TypeOK, AnswerTypes, ReadTypes
<1>2. AnswerKeys \in [Buffers -> Seq(Nat)]
  BY <1>1 DEF AnswerKeys, Completion
<1>3. msgs[b].from = t
  BY DEF OneMessage
<1>4. /\ got' = [got EXCEPT ![t] = @ \cup {s[i] : i \in TypedIn(s)}]
      /\ msgs' = [msgs EXCEPT ![b] = NoMsg]
      /\ "order" \in wrong' => OutOfOrder(t, s)
  BY <1>3 DEF Complete
<1>5. got' = [got EXCEPT ![t] = @ \cup Keys(s)]
  BY <1>4, AllTyped
<1>6. "order" \notin wrong'
  BY <1>1, <1>4, InOrder
<1> DEFINE k == [AnswerKeys EXCEPT ![b] = << >>]
           g == [got EXCEPT ![t] = @ \cup Keys(s)]
           m == [msgs EXCEPT ![b] = NoMsg]
<1>7. Prepared(g, k, m)
  BY <1>1, <1>2, AnswerGiven
<1>8. /\ k[b] = << >> /\ \A d \in Buffers \ {b} : k[d] = AnswerKeys[d]
      /\ g[t] = got[t] \cup Keys(s) /\ \A u \in Threads \ {t} : g[u] = got[u]
  BY <1>1, <1>2
<1>9. got' = g /\ msgs' = m
  BY <1>4, <1>5
<1> HIDE DEF g, m, k
<1>10. GivenOut(g, k) = GivenOut(got, AnswerKeys) \cup Keys(s)
  BY <1>8, GivenGrows
<1>11. Prepared(got', k, msgs') /\ GivenOut(got', k) = GivenOut(got, AnswerKeys) \cup Keys(s)
  BY <1>7, <1>9, <1>10
<1>12. QED
  BY <1>6, <1>11 DEF k

\* A waiting read has a message of its own, and no answer is prepared for it yet.
LEMMA WaitingRead ==
  ASSUME TypeOK, RoleInv, AnswerInv, UsesInv, pc # "exit", held # 0
  PROVE  /\ held \in Buffers /\ kind = "ReadConsole" /\ msgs[held].from \in Threads
         /\ OneMessage(msgs, held, msgs[held].from) /\ AnswerKeys[held] = << >>
<1>1. held \in Buffers /\ held \in Slots
  BY SlotFacts
<1>2. msgs[held] # NoMsg
  BY <1>1 DEF AnswerInv, OwnerInv, Owned
<1>3. kind = "ReadConsole" /\ msgs[held].kind = "ReadConsole"
  BY DEF AnswerInv, DistinctInv, ServingInv, UsesInv
<1>4. msgs[held].from \in Threads
  <2>1. msgs[held] \in Message
    BY <1>1, <1>2 DEF TypeOK, AnswerTypes
  <2>2. QED
    BY <1>3, <2>1 DEF Message
<1>5. OneMessage(msgs, held, msgs[held].from)
  BY <1>1, <1>2 DEF OneMessage, AnswerInv, RequestInv
<1>6. comp[held] = NoComp
  BY <1>1 DEF AnswerInv, OwnerInv, DistinctInv
<1>7. QED
  BY <1>1, <1>3, <1>4, <1>5, <1>6 DEF AnswerKeys, NoComp

\* The waiting read ends with the line l, which comes after all that was given out.
LEMMA FinishInOrder ==
  ASSUME TypeOK, RoleInv, AnswerInv, UsesInv, pc # "exit", held # 0, "order" \notin wrong,
         NEW l \in Seq(Nat), NEW e, NEW n \in Nat, NEW src,
         Ordered(got, AnswerKeys, msgs, l, e, n), Finish(l, src)
  PROVE  Ordered(got', AnswerKeys', msgs', << >>, e, n) /\ "order" \notin wrong'
<1> DEFINE t == msgs[held].from
<1>1. /\ held \in Buffers /\ t \in Threads /\ OneMessage(msgs, held, t)
      /\ AnswerKeys[held] = << >> /\ msgs[held] # NoMsg
  BY WaitingRead DEF OneMessage
<1> HIDE DEF t
<1>2. /\ comp \in [Buffers -> Completion] /\ AnswerKeys \in [Buffers -> Seq(Nat)]
      /\ got \in [Threads -> SUBSET Nat]
  BY DEF TypeOK, AnswerTypes, ReadTypes, AnswerKeys, Completion
<1>3. CASE Serving
  <2>1. /\ comp' = [comp EXCEPT ![held] = [keys |-> l, src |-> src]]
        /\ got' = got /\ msgs' = msgs /\ wrong' = wrong
    BY <1>3 DEF Finish, Prepare, NotComplete, answerVars, history
  <2>2. AnswerKeys' = [AnswerKeys EXCEPT ![held] = l]
    BY <1>1, <1>2, <2>1 DEF AnswerKeys
  <2>3. msgs[held].from \in Threads
    BY <1>1 DEF t
  <2>4. QED
    BY <1>1, <1>2, <2>1, <2>2, <2>3, AnswerPrepared
<1>4. CASE ~Serving
  <2>1. Complete(held, l) /\ comp' = comp
    BY <1>4 DEF Finish
  <2>2. AnswerKeys' = AnswerKeys /\ AnswerKeys = [AnswerKeys EXCEPT ![held] = << >>]
    BY <1>1, <1>2, <2>1 DEF AnswerKeys
  <2>3. /\ Rising(l) /\ Keys(l) \subseteq 1..n
        /\ \A x \in GivenOut(got, AnswerKeys), y \in Keys(l) : x < y /\ x \in Nat /\ y \in Nat
    BY DEF Ordered, InLine
  <2>4. /\ \A u \in Threads : got[u] \subseteq GivenOut(got, AnswerKeys)
        /\ \A d \in Buffers : Keys(AnswerKeys[d]) \subseteq GivenOut(got, AnswerKeys)
    BY GivenIs
  <2>5. \A x \in GivenOut(got, AnswerKeys) : x \notin Keys(l)
    BY <2>3
  <2>6. /\ Fresh(got, t, l)
        /\ \A d \in Buffers \ {held} : Keys(l) \cap Keys(AnswerKeys[d]) = {}
    BY <1>1, <2>3, <2>4, <2>5 DEF Fresh
  <2>7. /\ Prepared(got', AnswerKeys', msgs') /\ "order" \notin wrong'
        /\ GivenOut(got', AnswerKeys') = GivenOut(got, AnswerKeys) \cup Keys(l)
    BY <1>1, <2>1, <2>2, <2>3, <2>6, CompleteInOrder DEF Ordered
  <2>8. InLine(GivenOut(got', AnswerKeys'), << >>, e, n)
    BY <2>7, LineGiven DEF Ordered
  <2>9. QED
    BY <2>7, <2>8 DEF Ordered
<1>5. QED
  BY <1>3, <1>4

\* What no answer is prepared in holds another message, or none.
LEMMA MessageMoved ==
  ASSUME NEW g, NEW k, NEW m, NEW w, NEW b \in Buffers, Prepared(g, k, m), k[b] = << >>,
         \A d \in Buffers \ {b} : w[d] = m[d]
  PROVE  Prepared(g, k, w)
<1>1. SUFFICES ASSUME NEW d \in Buffers
               PROVE  /\ Rising(k[d]) /\ (k[d] # << >> => w[d] # NoMsg /\ w[d].from \in Threads)
                      /\ \A t \in Threads : Keys(k[d]) \cap g[t] = {}
                      /\ \A f \in Buffers \ {d} : Keys(k[d]) \cap Keys(k[f]) = {}
                      /\ w[d] # NoMsg /\ w[d].from \in Threads =>
                           \A x \in g[w[d].from], y \in Keys(k[d]) : x < y
  BY DEF Prepared
<1>2. CASE d = b
  BY <1>2, NoKeys
<1>3. CASE d # b
  BY <1>3 DEF Prepared
<1>4. QED
  BY <1>2, <1>3

\* A completion that the loop submits was prepared in order.
LEMMA SubmitInOrder ==
  ASSUME TypeOK, RoleInv, AnswerInv, UsesInv, "order" \notin wrong,
         NEW b \in Buffers, msgs[b] # NoMsg, Submit(b), NEW l, NEW e, NEW n \in Nat,
         Ordered(got, AnswerKeys, msgs, l, e, n)
  PROVE  Ordered(got', AnswerKeys', msgs', l, e, n) /\ "order" \notin wrong'
<1> DEFINE s == AnswerKeys[b]
           k == [AnswerKeys EXCEPT ![b] = << >>]
<1>1. /\ comp \in [Buffers -> Completion] /\ AnswerKeys \in [Buffers -> Seq(Nat)]
      /\ msgs \in [Buffers -> {NoMsg} \cup Message]
  BY DEF TypeOK, AnswerTypes, ReadTypes, AnswerKeys, Completion
<1>2. Handed(comp[b]) = s /\ s \in Seq(Nat)
  BY <1>1 DEF UsesInv, Handed, AnswerKeys
<1>3. AnswerKeys' = k
  <2>1. comp' = [comp EXCEPT ![b] = NoComp] /\ NoComp.keys = << >>
    BY DEF Submit, NoComp
  <2>2. QED
    BY <1>1, <2>1 DEF AnswerKeys
<1>4. Complete(b, s)
  BY <1>2 DEF Submit
<1>5. /\ Rising(s) /\ \A x \in Keys(s) : x \in GivenOut(got, AnswerKeys)
      /\ \A u \in Threads : Keys(s) \cap got[u] = {}
      /\ \A d \in Buffers \ {b} : Keys(s) \cap Keys(AnswerKeys[d]) = {}
      /\ s # << >> => msgs[b].from \in Threads
      /\ msgs[b].from \in Threads => \A x \in got[msgs[b].from], y \in Keys(s) : x < y
  BY GivenIs DEF Ordered, Prepared
<1>6. Keys(s) \subseteq 1..n /\ GivenOut(got, AnswerKeys) \cup Keys(s) = GivenOut(got, AnswerKeys)
  BY <1>5 DEF Ordered, InLine
<1>7. CASE msgs[b].from \in Threads
  <2> DEFINE t == msgs[b].from
  <2>1. OneMessage(msgs, b, t) /\ t \in Threads
    BY <1>7 DEF OneMessage, AnswerInv, RequestInv
  <2>2. Fresh(got, t, s)
    BY <1>5, <1>7 DEF Fresh
  <2> HIDE DEF t
  <2>3. /\ Prepared(got', k, msgs') /\ "order" \notin wrong'
        /\ GivenOut(got', k) = GivenOut(got, AnswerKeys) \cup Keys(s)
    BY <1>2, <1>4, <1>5, <1>6, <2>1, <2>2, CompleteInOrder DEF Ordered
  <2> HIDE DEF s, k
  <2>4. QED
    BY <1>3, <1>6, <2>3 DEF Ordered
<1>8. CASE msgs[b].from \notin Threads
  <2>1. /\ got' = got /\ "order" \notin wrong'
        /\ \A d \in Buffers \ {b} : msgs'[d] = msgs[d]
    BY <1>1, <1>4, <1>8 DEF Complete
  <2>2. s = << >> /\ k = AnswerKeys
    BY <1>1, <1>5, <1>8
  <2> HIDE DEF k
  <2>3. Prepared(got, AnswerKeys, msgs')
    BY <2>1, <2>2, MessageMoved DEF Ordered
  <2>4. QED
    BY <1>3, <2>1, <2>2, <2>3 DEF Ordered
<1>9. QED
  BY <1>7, <1>8

\* The keys that were given out, the line and the events are in order, after this step too.
OrderInv == "order" \notin wrong /\ Ordered(got, AnswerKeys, msgs, line, events, taken)

\* A step that hands nothing over.
LEMMA StillOrdered ==
  ASSUME OrderInv, NotComplete, UNCHANGED AnswerKeys,
         NEW l, NEW e, NEW n, InLine(GivenOut(got, AnswerKeys), l, e, n),
         line' = l, events' = e, taken' = n
  PROVE  OrderInv'
<1>1. got' = got /\ msgs' = msgs /\ wrong' = wrong
  BY DEF NotComplete, answerVars, history
<1>2. Prepared(got, AnswerKeys, msgs) /\ "order" \notin wrong
  BY DEF OrderInv, Ordered
<1>3. Ordered(got, AnswerKeys, msgs, l, e, n)
  BY <1>2 DEF Ordered
<1>4. QED
  BY <1>1, <1>2, <1>3 DEF OrderInv

\* One that hands over the line, which had become l before.
LEMMA LineFinished ==
  ASSUME TypeOK, RoleInv, AnswerInv, UsesInv, pc # "exit", held # 0, OrderInv,
         NEW l \in Seq(Nat), NEW e, NEW n \in Nat, NEW src, Finish(l, src),
         InLine(GivenOut(got, AnswerKeys), l, e, n), events' = e, taken' = n
  PROVE  OrderInv'
<1>1. Ordered(got, AnswerKeys, msgs, l, e, n) /\ "order" \notin wrong
  BY DEF OrderInv, Ordered
<1>2. Ordered(got', AnswerKeys', msgs', << >>, e, n) /\ "order" \notin wrong'
  BY <1>1, FinishInOrder
<1>3. line' = << >>
  BY DEF Finish
<1>4. QED
  BY <1>2, <1>3 DEF OrderInv

\* The next key goes to the end of the line, or of the queue, or it is dropped.
LEMMA KeyInOrder ==
  ASSUME TypeOK, RoleInv, AnswerInv, UsesInv, PlacesInv, OrderInv, pc \in {"accumulate", "drain"},
         StreamKeys, ProcessKey(taken + 1), taken' = taken + 1
  PROVE  OrderInv'
<1> DEFINE given == GivenOut(got, AnswerKeys)
           n == taken + 1
<1>1. /\ taken \in Nat /\ n \in Nat /\ n \in DOMAIN typed /\ typed[n] \in KeyClasses
      /\ line \in Seq(Nat) /\ events \in Seq(Nat) /\ Len(events) \in Nat
      /\ taken < Len(typed) /\ Len(typed) \in Nat
  BY NextKey, SMTT(30) DEF TypeOK, StreamTypes, ReadTypes, StreamKeys
<1>2. InLine(given, line, events, taken)
  BY DEF OrderInv, Ordered
<1>3. /\ kind = "ReadConsole" => held # 0 /\ events = << >>
      /\ kind \in {"None", "ReadConsole"} /\ pc # "exit"
  BY DEF UsesInv, PlacesInv, AnswerInv, DistinctInv
<1>4. ReadsLine <=> kind = "ReadConsole"
  BY <1>3 DEF ReadsLine, LineReads
<1>5. UNCHANGED comp => UNCHANGED AnswerKeys
  BY DEF AnswerKeys
<1> HIDE DEF given
<1>6. CASE typed[n] = "ctrlc"
  <2>1. ~KeepsAll
    BY <1>1, <1>6 DEF KeepsAll
  <2>2. InLine(given, line, events, n) /\ InLine(given, << >>, events, n)
    BY <1>1, <1>2, <2>1, TakeAndDrop, LineDropped
  <2>3. CASE ReadsLine
    <3>1. Finish(<< >>, "own") /\ events' = events
      BY <1>6, <2>3 DEF ProcessKey
    <3>2. << >> \in Seq(Nat)
      OBVIOUS
    <3>3. QED
      BY <1>1, <1>3, <1>4, <2>2, <2>3, <3>1, <3>2, LineFinished DEF given
  <2>4. CASE ~ReadsLine
    <3>1. NotComplete /\ line' = line /\ events' = events /\ UNCHANGED AnswerKeys
      BY <1>5, <1>6, <2>4 DEF ProcessKey, StillWaiting, readVars
    <3>2. QED
      BY <2>2, <3>1, StillOrdered DEF given
  <2>5. QED
    BY <2>3, <2>4
<1>7. CASE typed[n] # "ctrlc" /\ ReadsLine
  <2>1. InLine(given, Append(line, n), events, n) /\ Append(line, n) \in Seq(Nat)
    BY <1>1, <1>2, <1>3, <1>4, <1>7, TakeIntoLine
  <2>2. CASE typed[n] = "enter"
    <3>1. Finish(Append(line, n), "own") /\ events' = events
      BY <1>7, <2>2 DEF ProcessKey
    <3>2. QED
      BY <1>1, <1>3, <1>4, <1>7, <2>1, <3>1, LineFinished DEF given
  <2>3. CASE typed[n] # "enter"
    <3>1. NotComplete /\ line' = Append(line, n) /\ events' = events /\ UNCHANGED AnswerKeys
      BY <1>5, <1>7, <2>3 DEF ProcessKey
    <3>2. QED
      BY <2>1, <3>1, StillOrdered DEF given
  <2>4. QED
    BY <2>2, <2>3
<1>8. CASE typed[n] # "ctrlc" /\ ~ReadsLine
  <2>1. NotComplete /\ line' = line /\ events' = Queued(n) /\ UNCHANGED AnswerKeys
    BY <1>3, <1>5, <1>8 DEF ProcessKey, StillWaiting, readVars
  <2>2. InLine(given, line, Queued(n), n)
    <3>1. CASE Len(events) < MaxEvents
      BY <1>1, <1>2, <3>1, TakeIntoEvents DEF Queued
    <3>2. CASE ~(Len(events) < MaxEvents)
      <4>1. ~KeepsAll
        BY <1>1, <3>2, BoundsAssumption DEF KeepsAll, PlacesInv
      <4>2. QED
        BY <1>1, <1>2, <3>2, <4>1, TakeAndDrop DEF Queued
    <3>3. QED
      BY <3>1, <3>2
  <2>3. QED
    BY <2>1, <2>2, StillOrdered DEF given
<1>9. QED
  BY <1>6, <1>7, <1>8

\* The end of the input gives the reader what it has.
LEMMA EndInOrder ==
  ASSUME TypeOK, RoleInv, AnswerInv, UsesInv, OrderInv, pc # "exit", EndOfInput, taken' = taken
  PROVE  OrderInv'
<1> DEFINE given == GivenOut(got, AnswerKeys)
<1>1. InLine(given, line, events, taken) /\ line \in Seq(Nat) /\ taken \in Nat
  BY DEF OrderInv, Ordered, TypeOK, ReadTypes, StreamTypes
<1>2. kind \in {"None", "ReadConsole"} /\ (kind = "ReadConsole" => held # 0)
  BY DEF UsesInv, AnswerInv, DistinctInv
<1>3. CASE kind = "ReadConsole"
  <2>1. Finish(line, "own") /\ events' = events
    BY <1>3 DEF EndOfInput, ReadsLine, LineReads
  <2>2. QED
    BY <1>1, <1>2, <1>3, <2>1, LineFinished
<1>4. CASE kind = "None"
  <2>1. NotComplete /\ line' = line /\ events' = events /\ UNCHANGED comp
    BY <1>4 DEF EndOfInput, ReadsLine, LineReads, StillWaiting, readVars
  <2>2. UNCHANGED AnswerKeys
    BY <2>1 DEF AnswerKeys
  <2>3. QED
    BY <1>1, <2>1, <2>2, StillOrdered
<1>5. QED
  BY <1>2, <1>3, <1>4

\* A step that answers nothing and takes no key.
LEMMA OrderUntouched ==
  ASSUME OrderInv, NotComplete, UNCHANGED <<AnswerKeys, line, events, taken>>
  PROVE  OrderInv'
BY StillOrdered DEF OrderInv, Ordered

\* An empty completion where there is none.
LEMMA EmptyAnswer ==
  ASSUME TypeOK, NEW b \in Buffers, comp[b] = NoComp, NEW src, Prepare(b, << >>, src)
  PROVE  UNCHANGED AnswerKeys
<1>1. comp \in [Buffers -> Completion] /\ comp[b].keys = << >>
  BY DEF TypeOK, ReadTypes, NoComp
<1>2. comp' = [comp EXCEPT ![b] = [keys |-> << >>, src |-> src]]
  BY DEF Prepare
<1>3. \A d \in Buffers : comp'[d].keys = comp[d].keys
  BY <1>1, <1>2
<1>4. QED
  BY <1>3 DEF AnswerKeys

LEMMA OrderLoopStep ==
  ASSUME TypeOK, RoleInv, AnswerInv, UsesInv, OrderInv, LoopStep
  PROVE  OrderInv'
<1> USE DEF readVars, keyVars
<1>1. /\ \A b \in Buffers : pc # "exit" => (msgs[b] # NoMsg <=> Owned(b))
      /\ prev_done # 0 => prev_done \in Buffers
      /\ pc = "returned" => work \in Buffers
      /\ UNCHANGED comp => UNCHANGED AnswerKeys
  BY SlotFacts DEF AnswerInv, OwnerInv, AnswerKeys
<1>2. ASSUME NEW b \in Buffers, msgs[b] # NoMsg, Submit(b), UNCHANGED <<line, events, taken>>
      PROVE  OrderInv'
  <2>1. taken \in Nat /\ Ordered(got, AnswerKeys, msgs, line, events, taken) /\ "order" \notin wrong
    BY DEF TypeOK, StreamTypes, OrderInv
  <2>2. Ordered(got', AnswerKeys', msgs', line, events, taken) /\ "order" \notin wrong'
    BY <1>2, <2>1, SubmitInOrder
  <2>3. QED
    BY <1>2, <2>2 DEF OrderInv
<1>3. CASE TopDeferred \/ Top \/ Idle \/ Idled \/ NoMessage \/ Disconnected \/ ThirdFree
  <2>1. NotComplete /\ UNCHANGED <<comp, line, events, taken>>
    BY <1>3 DEF TopDeferred, Top, Idle, Idled, NoMessage, Disconnected, ThirdFree, NotComplete,
       answerVars, clientVars
  <2>2. QED
    BY <1>1, <2>1, OrderUntouched
<1>4. CASE EnterRead
  <2>1. UNCHANGED <<line, events, taken>> /\ pc = "read"
    BY <1>4 DEF EnterRead
  <2>2. CASE prev_done = 0
    BY <1>1, <1>4, <2>1, <2>2, OrderUntouched DEF EnterRead
  <2>3. CASE prev_done # 0
    BY <1>1, <1>2, <1>4, <2>1, <2>3 DEF EnterRead, Owned
  <2>4. QED
    BY <2>2, <2>3
<1>5. CASE AfterDeferred \/ AfterCurrentDone \/ AfterCurrentWaits
  <2>1. UNCHANGED <<line, events, taken>> /\ pc = "returned"
    BY <1>5 DEF AfterDeferred, AfterCurrentDone, AfterCurrentWaits, loopFrame
  <2>2. Submit(work) \/ (NotComplete /\ UNCHANGED comp)
    BY <1>5 DEF AfterDeferred, AfterCurrentDone, AfterCurrentWaits
  <2>3. work \in Buffers /\ msgs[work] # NoMsg
    BY <1>1, <2>1 DEF Owned
  <2>4. QED
    BY <1>1, <1>2, <2>1, <2>2, <2>3, OrderUntouched
<1>6. QED
  BY <1>3, <1>4, <1>5 DEF LoopStep

LEMMA OrderReadStep ==
  ASSUME TypeOK, RoleInv, AnswerInv, UsesInv, OrderInv, ReadStep
  PROVE  OrderInv'
<1>1. /\ got' = got /\ wrong' = wrong /\ UNCHANGED <<line, events, taken>>
      /\ \A b \in Buffers \ {cur} : msgs'[b] = msgs[b]
  BY DEF ReadStep, ReadConnect, ReadRequest, history, readVars, keyVars, TypeOK, AnswerTypes
<1>2. cur \in Buffers /\ comp[cur] = NoComp
  <2>1. pc = "inread"
    BY DEF ReadStep, ReadConnect, ReadRequest, Receive
  <2>2. cur \in Buffers /\ (comp[cur] # NoComp => cur = prev_done /\ pc # "inread")
    BY <2>1, SlotFacts DEF AnswerInv, OwnerInv
  <2>3. QED
    BY <2>1, <2>2
<1>3. UNCHANGED AnswerKeys /\ AnswerKeys[cur] = << >>
  <2>1. UNCHANGED comp \/ Prepare(cur, << >>, "own")
    BY DEF ReadStep, ReadConnect, ReadRequest
  <2>2. CASE UNCHANGED comp
    BY <1>2, <2>2 DEF AnswerKeys, NoComp
  <2>3. CASE Prepare(cur, << >>, "own")
    BY <1>2, <2>3, EmptyAnswer DEF AnswerKeys, NoComp
  <2>4. QED
    BY <2>1, <2>2, <2>3
<1>4. /\ Prepared(got, AnswerKeys, msgs) /\ "order" \notin wrong
      /\ InLine(GivenOut(got, AnswerKeys), line, events, taken)
  BY DEF OrderInv, Ordered
<1>5. Prepared(got, AnswerKeys, msgs')
  BY <1>1, <1>2, <1>3, <1>4, MessageMoved
<1>6. QED
  BY <1>1, <1>3, <1>4, <1>5 DEF OrderInv, Ordered

LEMMA OrderBridgeStep ==
  ASSUME TypeOK, RoleInv, AnswerInv, UsesInv, PlacesInv, OrderInv, BridgeStep
  PROVE  OrderInv'
<1>1. pc \in {"accumulate", "drain", "onidle", "third"}
  BY BridgeEnds DEF UsesInv
<1>2. CASE AccumulateKey \/ Drain
  BY <1>2, KeyInOrder DEF AccumulateKey, Drain, TakeKey
<1>3. CASE (AccumulateEnd \/ OnIdle \/ ThirdWait) /\ EndOfInput
  BY <1>1, <1>3, EndInOrder DEF AccumulateEnd, OnIdle, ThirdWait
<1>4. CASE (AccumulateEnd \/ OnIdle \/ ThirdWait) /\ ~EndOfInput
  <2>1. StillWaiting /\ UNCHANGED <<events, taken>>
    BY <1>4 DEF AccumulateEnd, OnIdle, ThirdWait
  <2>2. QED
    BY <2>1, OrderUntouched DEF StillWaiting, readVars, AnswerKeys
<1>5. QED
  BY <1>1, <1>2, <1>3, <1>4 DEF BridgeStep, PrepareKey

LEMMA OrderHandlerStep ==
  ASSUME TypeOK, RoleInv, AnswerInv, UsesInv, PlacesInv, OrderInv, HandlerStep
  PROVE  OrderInv'
<1>1. /\ work \in Buffers /\ pc \in {"handle", "consume"} /\ Dispatching
      /\ Kind \in {"ReadConsole", "WriteConsole", "CONNECT", "DISCONNECT", "none"}
      /\ pc = "handle" => held # work
  BY HandlerEnds, SlotFacts DEF UsesInv, Kind
<1>2. pc = "handle" => comp[work] = NoComp
  BY <1>1, SlotFacts DEF AnswerInv, OwnerInv, DistinctInv
<1>3. UNCHANGED comp => UNCHANGED AnswerKeys
  BY DEF AnswerKeys
<1>4. /\ InLine(GivenOut(got, AnswerKeys), line, events, taken)
      /\ Prepared(got, AnswerKeys, msgs) /\ "order" \notin wrong
      /\ line \in Seq(Nat) /\ events \in Seq(Nat) /\ taken \in Nat
  BY DEF OrderInv, Ordered, TypeOK, ReadTypes, StreamTypes
<1>5. CASE HandleWriteConsole
  <2>1. NotComplete /\ UNCHANGED <<line, events, taken>> /\ Prepare(work, << >>, "own")
    BY <1>5 DEF HandleWriteConsole, NotComplete, readVars, handleFrame
  <2>2. comp[work] = NoComp
    BY <1>2, <1>5 DEF HandleWriteConsole, Handles
  <2>3. QED
    BY <1>1, <2>1, <2>2, EmptyAnswer, OrderUntouched
<1>6. CASE HandleLineRead
  <2>1. /\ NotComplete /\ UNCHANGED <<events, taken>> /\ pc = "handle"
        /\ line' = line \/ line' = << >>
        /\ UNCHANGED comp \/ Prepare(work, << >>, "own")
    BY <1>6 DEF HandleLineRead, NotComplete, readVars, handleFrame
  <2>2. UNCHANGED AnswerKeys
    BY <1>1, <1>2, <1>3, <2>1, EmptyAnswer
  <2>3. line = << >>
    <3>1. msgs[work].kind \in Waiting
      BY <1>6 DEF HandleLineRead, Kind, Waiting
    <3>2. kind = "None"
      BY <2>1, <3>1 DEF AnswerInv, ServingInv, DistinctInv
    <3>3. QED
      BY <3>2 DEF PlacesInv
  <2>4. QED
    BY <2>1, <2>2, <2>3, OrderUntouched
<1>7. CASE Consume
  <2> DEFINE k == Head(events)
             given == GivenOut(got, AnswerKeys)
  <2>1. events # << >> /\ events' = Tail(events) /\ taken' = taken /\ held # 0
    BY <1>7 DEF Consume, handleFrame, AnswerInv, DistinctInv
  <2>2. k \in Keys(events) /\ k # Injected /\ k \in Nat
    BY <1>4, <2>1, FirstKey DEF InLine, Injected
  <2>3. InLine(given, Append(line, k), Tail(events), taken) /\ Append(line, k) \in Seq(Nat)
    BY <1>4, <2>1, <2>2, EventIntoLine
  <2>4. \/ Finish(Append(line, k), "own")
        \/ line' = Append(line, k) /\ UNCHANGED comp /\ NotComplete
    BY <1>7, <2>2 DEF Consume
  <2> HIDE DEF k
  <2>5. CASE Finish(Append(line, k), "own")
    BY <1>1, <1>4, <2>1, <2>3, <2>5, LineFinished
  <2>6. CASE line' = Append(line, k) /\ UNCHANGED comp /\ NotComplete
    BY <1>3, <2>1, <2>3, <2>6, StillOrdered
  <2>7. QED
    BY <2>4, <2>5, <2>6
<1>8. CASE ConsumeEnd
  BY <1>3, <1>8, OrderUntouched DEF ConsumeEnd, NotComplete, readVars, handleFrame
<1>9. CASE HandleDisconnect
  <2>1. pc = "handle" /\ Kind = "DISCONNECT" /\ Prepare(work, << >>, "own")
    BY <1>9 DEF HandleDisconnect, Handles
  <2>2. UNCHANGED AnswerKeys
    BY <1>1, <1>2, <2>1, EmptyAnswer
  <2>3. UNCHANGED <<got, wrong, events, taken>>
    BY <1>9 DEF HandleDisconnect, history, handleFrame
  <2>4. CASE UNCHANGED <<msgs, line>>
    BY <1>4, <2>2, <2>3, <2>4 DEF OrderInv, Ordered
  <2>5. CASE ~UNCHANGED <<msgs, line>>
    <3>1. held # 0 /\ line' = << >> /\ msgs' = [msgs EXCEPT ![held] = NoMsg]
      BY <1>9, <2>5 DEF HandleDisconnect, readVars, has_pending, AnswerInv, DistinctInv
    <3>2. held \in Buffers /\ AnswerKeys[held] = << >> /\ \A d \in Buffers \ {held} : msgs'[d] = msgs[d]
      BY <1>1, <3>1, WaitingRead DEF TypeOK, AnswerTypes
    <3>3. ~KeepsAll
      <4>1. msgs[work] \in Message /\ attached[msgs[work].from] = "left"
        BY <1>1, <2>1 DEF Kind, TypeOK, AnswerTypes, NoMsg, AnswerInv, RequestInv
      <4>2. msgs[work].from \in Processes
        BY <1>1, <2>1, <4>1, MessageTypes DEF Kind
      <4>3. QED
        BY <4>1, <4>2 DEF KeepsAll, PlacesInv
    <3>4. InLine(GivenOut(got, AnswerKeys), << >>, events, taken)
      BY <1>4, <3>3, LineDropped
    <3>5. Prepared(got, AnswerKeys, msgs')
      BY <1>4, <3>2, MessageMoved
    <3>6. QED
      BY <1>4, <2>2, <2>3, <3>1, <3>4, <3>5 DEF OrderInv, Ordered
  <2>6. QED
    BY <2>4, <2>5
<1>10. QED
  BY <1>1, <1>5, <1>6, <1>7, <1>8, <1>9
     DEF HandlerStep, HandleWriteConsoleInput, HandleConsoleInput, PrepareEnd, Handles

LEMMA OrderStep ==
  ASSUME TypeOK, RoleInv, AnswerInv, UsesInv, PlacesInv, OrderInv, [Next]_vars
  PROVE  OrderInv'
<1>1. CASE OutsideStep
  <2>1. UNCHANGED <<got, wrong, msgs, comp, line, events, taken>>
    BY <1>1 DEF OutsideStep, Environment, Attach, Exit, Call, Type, Close, Pipes, Ended,
       vars, loopVars, history, readVars, keyVars
  <2>2. QED
    BY <2>1 DEF OrderInv, AnswerKeys
<1>2. QED
  BY <1>1, Steps, OrderLoopStep, OrderReadStep, OrderBridgeStep, OrderHandlerStep

-----------------------------------------------------------------------------
(* Who asks for what, and where a key can be *)

LineKinds == {"ReadConsole", "WriteConsole", "CONNECT", "DISCONNECT"}

\* Requests and completions are what they were, or new ones of the kinds allowed.
LEMMA UsesKept ==
  ASSUME UsesInv,
         \A i \in DOMAIN inbox' : inbox'[i].kind \in LineKinds,
         \A b \in Buffers : /\ msgs'[b] = msgs[b] \/ msgs'[b].kind \in LineKinds \cup {"none"}
                            /\ comp'[b] = comp[b] \/ comp'[b].src # "shared",
         kind' \in {"None", "ReadConsole"}, pc' # "prepare"
  PROVE  UsesInv'
BY DEF UsesInv, LineKinds

LEMMA UsesLoopStep ==
  ASSUME TypeOK, RoleInv, AnswerInv, UsesInv, LoopStep
  PROVE  UsesInv'
<1>1. inbox' = inbox /\ kind' = kind /\ pc' # "prepare"
  BY DEF LoopStep, TopDeferred, Top, Idle, Idled, EnterRead, NoMessage, Disconnected, ThirdFree,
     AfterDeferred, AfterCurrentDone, AfterCurrentWaits, Goto, Dispatch, CallOnIdle, clientVars,
     readVars, loopFrame
<1>2. \/ UNCHANGED <<msgs, comp>>
      \/ \E b \in Buffers : Submit(b)
  <2>1. CASE TopDeferred \/ Top \/ Idle \/ Idled \/ NoMessage \/ Disconnected \/ ThirdFree
    BY <2>1 DEF TopDeferred, Top, Idle, Idled, NoMessage, Disconnected, ThirdFree
  <2>2. CASE EnterRead
    BY <2>2, SlotFacts DEF EnterRead, NotComplete, answerVars
  <2>3. CASE AfterDeferred \/ AfterCurrentDone \/ AfterCurrentWaits
    BY <2>3, SlotFacts DEF AfterDeferred, AfterCurrentDone, AfterCurrentWaits, NotComplete, answerVars
  <2>4. QED
    BY <2>1, <2>2, <2>3 DEF LoopStep
<1>3. \A b \in Buffers : /\ msgs'[b] = msgs[b] \/ msgs'[b] = NoMsg
                         /\ comp'[b] = comp[b] \/ comp'[b] = NoComp
  BY <1>2, SubmitEmpties
<1>4. NoMsg.kind = "none" /\ NoComp.src # "shared"
  BY DEF NoMsg, NoComp
<1>5. QED
  BY <1>1, <1>3, <1>4 DEF UsesInv

LEMMA UsesReadStep ==
  ASSUME TypeOK, RoleInv, AnswerInv, UsesInv, ReadStep
  PROVE  UsesInv'
<1>1. PICK i \in DOMAIN inbox : ReadConnect(i) \/ ReadRequest(i)
  BY DEF ReadStep
<1>2. inbox \in Seq(Message) /\ cur \in Buffers /\ comp \in [Buffers -> Completion]
      /\ msgs \in [Buffers -> {NoMsg} \cup Message]
  BY DEF TypeOK, ControlTypes, SlotTypes, ReadTypes, AnswerTypes
<1>3. inbox' = SubSeq(inbox, i + 1, Len(inbox))
  BY <1>1 DEF ReadConnect, ReadRequest, Receive
<1>4. \A j \in DOMAIN inbox' : inbox'[j].kind \in LineKinds
  <2>1. \A j \in DOMAIN inbox' : \E h \in DOMAIN inbox : inbox'[j] = inbox[h]
    BY <1>2, <1>3, SMTT(30)
  <2>2. QED
    BY <2>1 DEF UsesInv, LineKinds
<1>5. \A b \in Buffers : msgs'[b] = msgs[b] \/ msgs'[b] = inbox[i]
  BY <1>1, <1>2 DEF ReadConnect, ReadRequest
<1>6. \A b \in Buffers : comp'[b] = comp[b] \/ comp'[b].src # "shared"
  BY <1>1, <1>2 DEF ReadConnect, ReadRequest, Prepare
<1>7. kind' = kind /\ pc' # "prepare"
  BY <1>1 DEF ReadConnect, ReadRequest, Goto, Dispatch, readVars
<1>8. inbox[i].kind \in LineKinds
  BY DEF UsesInv, LineKinds
<1>9. QED
  BY <1>4, <1>5, <1>6, <1>7, <1>8, UsesKept DEF UsesInv

\* The waiting read ends with an answer of its own.
LEMMA FinishUses ==
  ASSUME TypeOK, RoleInv, AnswerInv, held # 0, NEW keys, Finish(keys, "own")
  PROVE  /\ \A b \in Buffers : /\ msgs'[b] = msgs[b] \/ msgs'[b] = NoMsg
                               /\ comp'[b] = comp[b] \/ comp'[b].src # "shared"
         /\ kind' = "None"
<1>1. held \in Buffers /\ comp \in [Buffers -> Completion]
  BY SlotFacts DEF TypeOK, ReadTypes
<1>2. CASE Serving
  BY <1>1, <1>2 DEF Finish, Prepare, NotComplete, answerVars
<1>3. CASE ~Serving
  BY <1>1, <1>3, CompleteEmpties DEF Finish
<1>4. QED
  BY <1>2, <1>3

\* So do a key and the end of the input, when only lines are read.
LEMMA InputUses ==
  ASSUME TypeOK, RoleInv, AnswerInv, UsesInv, NEW k, ProcessKey(k) \/ EndOfInput \/ StillWaiting
  PROVE  /\ \A b \in Buffers : /\ msgs'[b] = msgs[b] \/ msgs'[b] = NoMsg
                               /\ comp'[b] = comp[b] \/ comp'[b].src # "shared"
         /\ kind' = "None" \/ kind' = kind
<1>1. kind \in {"None", "ReadConsole"} /\ (kind = "ReadConsole" => held # 0)
  BY DEF UsesInv, AnswerInv, DistinctInv
<1>2. \/ NotComplete /\ UNCHANGED <<comp, kind>>
      \/ held # 0 /\ \E keys : Finish(keys, "own")
  BY <1>1 DEF ProcessKey, EndOfInput, StillWaiting, ReadsLine, LineReads, readVars
<1>3. QED
  BY <1>2, FinishUses DEF NotComplete, answerVars

LEMMA UsesBridgeStep ==
  ASSUME TypeOK, RoleInv, AnswerInv, UsesInv, BridgeStep
  PROVE  UsesInv'
<1>1. inbox' = inbox /\ pc' # "prepare"
  <2>1. pc # "prepare" /\ pc' \in {pc, "returned", "third", "idled", "accumulate", "drain"}
    BY BridgeEnds DEF UsesInv
  <2>2. QED
    BY <2>1, BridgeFrame
<1>2. \E k : ProcessKey(k) \/ EndOfInput \/ StillWaiting
  BY DEF BridgeStep, AccumulateKey, AccumulateEnd, Drain, OnIdle, PrepareKey, ThirdWait
<1>3. /\ \A b \in Buffers : /\ msgs'[b] = msgs[b] \/ msgs'[b] = NoMsg
                            /\ comp'[b] = comp[b] \/ comp'[b].src # "shared"
      /\ kind' = "None" \/ kind' = kind
  BY <1>2, InputUses
<1>4. QED
  BY <1>1, <1>3, UsesKept DEF UsesInv, LineKinds, NoMsg

LEMMA UsesHandlerStep ==
  ASSUME TypeOK, RoleInv, AnswerInv, UsesInv, HandlerStep
  PROVE  UsesInv'
<1>1. /\ work \in Buffers /\ Kind \in LineKinds \cup {"none"} /\ pc # "prepare"
      /\ inbox' = inbox /\ comp \in [Buffers -> Completion]
      /\ msgs \in [Buffers -> {NoMsg} \cup Message]
  BY HandlerEnds, HandlerFrame, SlotFacts
     DEF UsesInv, Kind, LineKinds, TypeOK, ReadTypes, AnswerTypes
<1>2. Prepare(work, << >>, "own") =>
        \A b \in Buffers : comp'[b] = comp[b] \/ comp'[b].src # "shared"
  BY <1>1 DEF Prepare
<1>3. CASE HandleWriteConsole \/ HandleLineRead \/ ConsumeEnd
  <2>1. msgs' = msgs /\ pc' # "prepare" /\ (kind' = kind \/ (kind' = Kind /\ Kind = "ReadConsole"))
    BY <1>1, <1>3 DEF HandleWriteConsole, HandleLineRead, ConsumeEnd, Returned, FirstSource,
       answerVars, readVars, LineKinds, LineReads
  <2>2. comp' = comp \/ Prepare(work, << >>, "own")
    BY <1>3 DEF HandleWriteConsole, HandleLineRead, ConsumeEnd
  <2>3. QED
    BY <1>1, <1>2, <2>1, <2>2, UsesKept DEF UsesInv, LineKinds
<1>4. CASE Consume
  <2>1. held # 0 /\ pc' # "prepare"
    BY <1>1, <1>4 DEF Consume, Returned, callVars, AnswerInv, DistinctInv
  <2>2. (\E keys : Finish(keys, "own")) \/ (UNCHANGED <<kind, comp>> /\ NotComplete)
    BY <1>4 DEF Consume
  <2>3. /\ \A b \in Buffers : /\ msgs'[b] = msgs[b] \/ msgs'[b] = NoMsg
                              /\ comp'[b] = comp[b] \/ comp'[b].src # "shared"
        /\ kind' = "None" \/ kind' = kind
    BY <2>1, <2>2, FinishUses DEF NotComplete, answerVars
  <2>4. QED
    BY <1>1, <2>1, <2>3, UsesKept DEF UsesInv, LineKinds, NoMsg
<1>5. CASE HandleDisconnect
  <2>1. /\ pc' # "prepare" /\ kind' \in {kind, "None"} /\ Prepare(work, << >>, "own")
        /\ msgs' = msgs \/ msgs' = [msgs EXCEPT ![held] = NoMsg]
    BY <1>5 DEF HandleDisconnect, Returned, readVars
  <2>2. \A b \in Buffers : msgs'[b] = msgs[b] \/ msgs'[b] = NoMsg
    BY <1>1, <2>1
  <2>3. QED
    BY <1>1, <1>2, <2>1, <2>2, UsesKept DEF UsesInv, LineKinds, NoMsg
<1>6. QED
  BY <1>1, <1>3, <1>4, <1>5
     DEF HandlerStep, HandleWriteConsoleInput, HandleConsoleInput, PrepareEnd, Handles, LineKinds

LEMMA UsesOutsideStep ==
  ASSUME LineReadersOnly, TypeOK, UsesInv, OutsideStep
  PROVE  UsesInv'
<1>1. UNCHANGED <<msgs, comp, kind, pc>>
  BY OutsideLoop DEF loopVars, readVars
<1>2. inbox' = inbox \/ \E k \in LineKinds : \E r : inbox' = Append(inbox, [kind |-> k, from |-> r])
  BY DEF OutsideStep, Environment, Attach, Exit, Call, Type, Close, Pipes, Ended, vars,
     clientVars, Request, LineReadersOnly, LineKinds
<1>3. \A i \in DOMAIN inbox : inbox[i].kind \in LineKinds
  BY DEF UsesInv, LineKinds
<1>4. \A i \in DOMAIN inbox' : inbox'[i].kind \in LineKinds
  <2>1. inbox \in Seq(Message)
    BY DEF TypeOK, ControlTypes
  <2>2. CASE inbox' = inbox
    BY <1>3, <2>2
  <2>3. ASSUME NEW k \in LineKinds, NEW r, inbox' = Append(inbox, [kind |-> k, from |-> r])
        PROVE  \A i \in DOMAIN inbox' : inbox'[i].kind \in LineKinds
    BY <1>3, <2>1, <2>3
  <2>4. QED
    BY <1>2, <2>2, <2>3
<1>5. QED
  BY <1>1, <1>4, UsesKept DEF UsesInv

LEMMA UsesStep ==
  ASSUME LineReadersOnly, TypeOK, RoleInv, AnswerInv, UsesInv, [Next]_vars
  PROVE  UsesInv'
BY Steps, UsesLoopStep, UsesReadStep, UsesBridgeStep, UsesHandlerStep, UsesOutsideStep

\* Nobody leaves.
LEMMA NobodyLeaves ==
  ASSUME TypeOK, RoleInv, AnswerInv, PlacesInv, Leavers = {}, [Next]_vars
  PROVE  \A p \in Processes : attached'[p] # "left"
<1>1. /\ \A p \in Processes : attached[p] # "left"
      /\ attached \in [Processes -> {"no", "yes", "left"}]
  BY DEF PlacesInv, TypeOK, AnswerTypes
<1>2. \A p \in Processes : attached'[p] \in {attached[p], "yes"}
  <2>1. CASE Answers
    BY <1>1, <2>1 DEF Answers, Complete
  <2>2. CASE ReadStep
    BY <1>1, <2>2 DEF ReadStep, ReadConnect, ReadRequest
  <2>3. CASE Environment
    BY <2>3 DEF Environment, Attach, Exit, Call, Type, Close, Pipes, clientVars
  <2>4. QED
    BY <2>1, <2>2, <2>3, AnswerEffects DEF answerVars, HandleDisconnect
<1>3. QED
  BY <1>1, <1>2

\* What a step of the bridge or of a handler leaves in the line and the queue.
Places ==
  /\ kind' \in {"None", kind} /\ (kind' = "None" => line' = << >>)
  /\ kind' = "ReadConsole" => events' = events
  /\ Len(events') <= taken' /\ typed' = typed

\* A key is added to the line, to the queue, or dropped; a finished line is empty.
LEMMA InputPlaces ==
  ASSUME TypeOK, UsesInv, PlacesInv, typed' = typed,
         \/ StreamKeys /\ ProcessKey(taken + 1) /\ taken' = taken + 1
         \/ EndOfInput /\ taken' = taken
         \/ StillWaiting /\ UNCHANGED <<events, taken>>
  PROVE  Places
<1>1. /\ kind \in {"None", "ReadConsole"} /\ (kind = "None" => line = << >>)
      /\ Len(events) <= taken /\ taken \in Nat /\ events \in Seq(Nat) /\ Len(events) \in Nat
  BY DEF UsesInv, PlacesInv, TypeOK, ReadTypes, StreamTypes
<1>2. Len(Append(events, taken + 1)) = Len(events) + 1
  BY <1>1
<1>3. CASE EndOfInput /\ taken' = taken
  BY <1>1, <1>3 DEF EndOfInput, ReadsLine, LineReads, Finish, StillWaiting, readVars, Places
<1>4. CASE StillWaiting /\ UNCHANGED <<events, taken>>
  BY <1>1, <1>4 DEF StillWaiting, readVars, Places
<1>5. CASE ProcessKey(taken + 1) /\ taken' = taken + 1
  <2>1. CASE kind = "None"
    <3>1. UNCHANGED <<kind, line>> /\ events' \in {events, Queued(taken + 1)}
      BY <1>5, <2>1 DEF ProcessKey, ReadsLine, LineReads, StillWaiting, readVars
    <3>2. Len(events') <= taken'
      BY <1>1, <1>2, <1>5, <3>1 DEF Queued
    <3>3. QED
      BY <1>1, <2>1, <3>1, <3>2 DEF Places
  <2>2. CASE kind = "ReadConsole"
    <3>1. events' = events /\ (kind' = kind \/ (kind' = "None" /\ line' = << >>))
      BY <1>5, <2>2 DEF ProcessKey, ReadsLine, LineReads, Finish
    <3>2. Len(events') <= taken'
      BY <1>1, <1>5, <3>1
    <3>3. QED
      BY <2>2, <3>1, <3>2 DEF Places
  <2>3. QED
    BY <1>1, <2>1, <2>2
<1>6. QED
  BY <1>3, <1>4, <1>5

LEMMA PlacesStep ==
  ASSUME TypeOK, RoleInv, AnswerInv, UsesInv, PlacesInv, [Next]_vars
  PROVE  PlacesInv'
<1>1. Leavers = {} => \A p \in Processes : attached'[p] # "left"
  BY NobodyLeaves
<1>2. SUFFICES /\ kind' = "None" => line' = << >>
               /\ kind' = "ReadConsole" /\ pc' # "consume" => events' = << >>
               /\ Len(events') <= taken' /\ Len(typed') <= MaxKeys
  BY <1>1 DEF PlacesInv
<1>3. /\ kind \in {"None", "ReadConsole"} /\ (kind = "None" => line = << >>)
      /\ Len(events) <= taken /\ taken \in Nat /\ events \in Seq(Nat) /\ Len(events) \in Nat
      /\ Len(typed) <= MaxKeys /\ typed \in Seq(KeyClasses)
      /\ kind = "ReadConsole" /\ pc # "consume" => events = << >>
  BY DEF UsesInv, PlacesInv, TypeOK, ReadTypes, StreamTypes
<1>4. CASE LoopStep \/ ReadStep
  <2>1. UNCHANGED <<kind, line, events, taken, typed>> /\ pc # "consume"
    BY <1>4 DEF LoopStep, ReadStep, TopDeferred, Top, Idle, Idled, EnterRead, NoMessage,
       Disconnected, ThirdFree, AfterDeferred, AfterCurrentDone, AfterCurrentWaits, ReadConnect,
       ReadRequest, Receive, readVars, keyVars, ttyVars, loopFrame
  <2>2. QED
    BY <1>3, <2>1
<1>5. CASE BridgeStep
  <2>1. pc # "consume"
    BY <1>5, BridgeEnds
  <2>2. Places
    BY <1>5, InputPlaces DEF BridgeStep, AccumulateKey, AccumulateEnd, Drain, OnIdle, PrepareKey,
       ThirdWait, TakeKey, bridgeFrame, ttyVars
  <2>3. QED
    BY <1>3, <2>1, <2>2 DEF Places
<1>6. CASE HandlerStep
  <2>1. typed' = typed /\ taken' = taken
    BY <1>6 DEF HandlerStep, HandleWriteConsole, HandleLineRead, Consume, ConsumeEnd,
       HandleWriteConsoleInput, HandleConsoleInput, PrepareEnd, HandleDisconnect, handleFrame, ttyVars
  <2>2. work \in Buffers /\ Kind \in LineKinds \cup {"none"} /\ pc # "prepare"
    BY <1>6, HandlerEnds, SlotFacts DEF UsesInv, Kind, LineKinds
  <2>3. CASE HandleWriteConsole \/ HandleDisconnect
    BY <1>3, <2>1, <2>3 DEF HandleWriteConsole, HandleDisconnect, Handles, readVars
  <2>4. CASE HandleLineRead
    BY <1>3, <2>1, <2>2, <2>4 DEF HandleLineRead, FirstSource, LineReads, LineKinds, readVars
  <2>5. CASE Consume
    <3>1. events # << >> /\ events' = Tail(events)
      BY <2>5 DEF Consume
    <3>2. Len(events') <= taken'
      BY <1>3, <2>1, <3>1
    <3>3. /\ kind = "ReadConsole"
          /\ \/ kind' = "None" /\ line' = << >>
             \/ kind' = kind /\ pc' = "consume"
      <4>1. \/ \E keys : Finish(keys, "own")
            \/ kind' = kind /\ pc' = pc
        BY <2>5 DEF Consume
      <4>2. kind = "ReadConsole" /\ pc = "consume"
        BY <2>5 DEF Consume
      <4>3. QED
        BY <4>1, <4>2 DEF Finish
    <3>4. QED
      BY <1>3, <2>1, <3>2, <3>3
  <2>6. CASE ConsumeEnd
    BY <1>3, <2>1, <2>6 DEF ConsumeEnd, readVars
  <2>7. QED
    BY <1>6, <2>2, <2>3, <2>4, <2>5, <2>6
       DEF HandlerStep, HandleWriteConsoleInput, HandleConsoleInput, PrepareEnd, Handles, LineKinds
<1>7. CASE OutsideStep
  <2>1. UNCHANGED <<kind, line, events, taken, pc>>
    BY <1>7, OutsideLoop DEF loopVars, readVars, keyVars
  <2>2. typed' = typed \/ (Len(typed) < MaxKeys /\ \E c : typed' = Append(typed, c))
    BY <1>7 DEF OutsideStep, Environment, Attach, Exit, Call, Type, Close, Pipes, Ended, vars,
       ttyVars
  <2>3. Len(typed') <= MaxKeys
    BY <1>3, <2>2, BoundsAssumption
  <2>4. QED
    BY <1>3, <2>1, <2>3
<1>8. QED
  BY <1>4, <1>5, <1>6, <1>7, Steps

-----------------------------------------------------------------------------
LEMMA KeysKept == LineReadersOnly => (Spec => []KeyInv)
<1> SUFFICES ASSUME LineReadersOnly PROVE Spec => []KeyInv
  OBVIOUS
<1>1. Init => UsesInv /\ PlacesInv
  BY BoundsAssumption DEF Init, UsesInv, PlacesInv, NoMsg, NoComp
<1>2. Init => OrderInv
  <2>1. SUFFICES ASSUME Init PROVE OrderInv
    OBVIOUS
  <2>2. /\ got = [t \in Threads |-> {}] /\ AnswerKeys = [b \in Buffers |-> << >>]
        /\ line = << >> /\ events = << >> /\ taken = 0 /\ "order" \notin wrong
    BY <2>1 DEF Init, AnswerKeys, NoComp
  <2> DEFINE g == got
             k == AnswerKeys
  <2>3. /\ \A t \in Threads : g[t] = {}
        /\ \A b \in Buffers : k[b] = << >> /\ Keys(k[b]) = {} /\ Rising(k[b])
    BY <2>2, NoKeys
  <2> HIDE DEF g, k
  <2>4. \A x : x \notin GivenOut(g, k)
    BY <2>3, GivenIs
  <2>5. Prepared(g, k, msgs)
    BY <2>3 DEF Prepared
  <2>6. InLine(GivenOut(g, k), << >>, << >>, 0)
    BY <2>4, NoKeys DEF InLine
  <2>7. QED
    BY <2>2, <2>5, <2>6 DEF OrderInv, Ordered, g, k
<1>3. KeyInv <=> UsesInv /\ PlacesInv /\ OrderInv
  BY DEF KeyInv, OrderInv
<1>4. TypeOK /\ RoleInv /\ AnswerInv /\ KeyInv /\ [Next]_vars => KeyInv'
  <2>1. SUFFICES ASSUME TypeOK, RoleInv, AnswerInv, KeyInv, [Next]_vars PROVE KeyInv'
    OBVIOUS
  <2>2. UsesInv /\ PlacesInv /\ OrderInv
    BY <2>1, <1>3
  <2>3. UsesInv' /\ PlacesInv' /\ OrderInv'
    BY <2>1, <2>2, UsesStep, PlacesStep, OrderStep
  <2>4. QED
    BY <2>3 DEF KeyInv, OrderInv
<1>5. Init => KeyInv
  BY <1>1, <1>2, <1>3
<1>6. QED
  BY <1>4, <1>5, AnswersKept, PTL DEF Spec

\* Clients that only read lines, with ReadConsole, get the keys in the order they were typed
\* and none twice, whatever interrupts a read: a key passes from the type-ahead queue or the
\* pipe through the line into an answer, and each of these comes before what is behind it.
THEOREM LinesInOrder == LineReadersOnly => (Spec => []("order" \notin wrong))
BY KeysKept, PTL DEF KeyInv

\* When nothing drops keys (no Ctrl+C, no reader that leaves, room in the event queue) none is
\* skipped either: whoever has a key, all typed before it were handed over or are about to be.
THEOREM NoKeySkipped == LineReadersOnly /\ KeepsAll => (Spec => []KeysInOrder)
<1> SUFFICES ASSUME LineReadersOnly, KeepsAll PROVE Spec => []KeysInOrder
  OBVIOUS
<1>1. TypeOK /\ KeyInv => KeysInOrder
  <2> SUFFICES ASSUME TypeOK, KeyInv PROVE KeysInOrder
    OBVIOUS
  <2>1. "order" \notin wrong /\ taken \in Nat /\ InLine(GivenOut(got, AnswerKeys), line, events, taken)
    BY DEF KeyInv, Ordered, TypeOK, StreamTypes
  <2>2. ASSUME NEW t \in Threads, NEW k \in got[t], NEW j \in 1..k
        PROVE  \/ \E u \in Threads : j \in got[u]
               \/ \E b \in Buffers : \E i \in DOMAIN comp[b].keys : comp[b].keys[i] = j
    <3>1. k \in GivenOut(got, AnswerKeys)
      BY GivenIs
    <3>2. k \in 1..taken /\ 1..taken \subseteq Keys(line) \cup Keys(events) \cup GivenOut(got, AnswerKeys)
      BY <2>1, <3>1 DEF InLine
    <3>3. j \in 1..taken /\ ~(k < j)
      BY <2>1, <3>2
    <3>4. j \in GivenOut(got, AnswerKeys)
      BY <2>1, <3>1, <3>2, <3>3 DEF InLine
    <3>5. \/ \E u \in Threads : j \in got[u]
          \/ \E b \in Buffers : j \in Keys(AnswerKeys[b])
      BY <3>4, GivenIs
    <3>6. QED
      BY <3>5 DEF Keys, AnswerKeys
  <2>3. QED
    BY <2>1, <2>2 DEF KeysInOrder
<1>2. QED
  BY <1>1, KeysKept, TypeCorrect, PTL

=============================================================================
