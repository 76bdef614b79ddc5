------------------------------ MODULE MCServer ------------------------------
(***************************************************************************)
(* The server's loop with its clients and the helper threads that wake it, *)
(* in one run.  The two models share no variable (IdleWaker sees of the    *)
(* loop only when it sleeps, IoLoop of the threads only that they wake     *)
(* it), so a behaviour moves the one that `part' names.                    *)
(***************************************************************************)
EXTENDS IdleWaker, Sequences

CONSTANTS t1, t2, t3, p1

VARIABLES
  part, keys_typed,
  stage, attached, inbox, got, wrong, vtClosed, sigClosed, kind, held, vt_eof, fetched,
  taken, line, events, outbuf, pc, ret, work, done, cur, prev_done, pending_msg,
  deferred_msg, msgs, comp, vtout, connected, closed

\* The calls of each thread: in the part "lines" two line readers get two keys; in the part
\* "reads" three reads wait, one of them for records, or two of them and a writer, and
\* there is one key.
Calls(p, t) ==
  CASE t = t1 -> {"ReadConsole"}
    [] t = t2 -> IF p = "lines" THEN {"ReadConsole"} ELSE {"GetConsoleInput"}
    [] t = t3 -> IF p = "lines" THEN {} ELSE {"ReadConsole", "WriteConsole"}
Keys(p) == IF p = "lines" THEN 2 ELSE 1

LoopParts == {"lines", "reads"}
Clients == {t1, t2, t3}

Io == INSTANCE IoLoop WITH
  Threads <- Clients, Processes <- {p1}, Leavers <- {}, SignalPipe <- TRUE,
  ProcOf <- [t \in Clients |-> p1],
  Uses <- [t \in Clients |-> Calls("lines", t) \cup Calls("reads", t)],
  KeyClasses <- {"char", "enter"}, MaxKeys <- Keys("lines"), MaxEvents <- 2,
  typed <- keys_typed

io_vars ==
  <<keys_typed, stage, attached, inbox, got, wrong, vtClosed, sigClosed, kind, held, vt_eof,
    fetched, taken, line, events, outbuf, pc, ret, work, done, cur, prev_done, pending_msg,
    deferred_msg, msgs, comp, vtout, connected, closed>>
parts == <<part, vars, io_vars>>

ServerInit ==
  /\ part \in LoopParts \cup {"waker"}
  /\ Init /\ Io!Init

LoopPart == part \in LoopParts /\ UNCHANGED <<part, vars>>
WakerPart == part = "waker" /\ UNCHANGED <<part, io_vars>>

\* The part's calls and its number of keys; in the part "lines" the session does not end.
Bounded ==
  /\ \A i \in DOMAIN inbox' :
       LET r == inbox'[i] IN r.from \in Clients => r.kind \in Calls(part, r.from)
  /\ Len(keys_typed') <= Keys(part)
  /\ part = "lines" => ~sigClosed'

LoopStep == LoopPart /\ Io!Next /\ Bounded
WakerStep == WakerPart /\ Next
ServerNext == LoopStep \/ WakerStep

\* The fairness of the two modules; a behaviour stays in one part, so that one condition
\* says it of an action of each.
ServerSpec ==
  /\ ServerInit /\ [][ServerNext]_parts
  /\ WF_parts((LoopPart /\ Io!Loop) \/ (WakerPart /\ Ticker))
  /\ SF_parts((LoopPart /\ Io!Woken) \/ (WakerPart /\ Server))
  /\ SF_parts((LoopPart /\ Io!Delivered) \/ (WakerPart /\ Reader))

-----------------------------------------------------------------------------
(* The properties of IoLoop, stated and explained there; those of IdleWaker *)
(* are the module's own.                                                    *)

\* Line readers get the keys in typing order, none twice and none skipped (IoLoop).
KeysInOrder == Io!KeysInOrder
\* A writer is answered although other threads wait for input (IoLoop).
WritesServed == Io!WritesServed
\* The session ends with its signal pipe (IoLoop).
SessionEnds == Io!SessionEnds
=============================================================================
