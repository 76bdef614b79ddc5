----------------------------- MODULE CursorSync -----------------------------
(***************************************************************************)
(* Where the terminal's cursor is and where the model thinks it is.  The   *)
(* terminal reflows its text by itself when it is resized; pipe_bridge     *)
(* learns of it from a signal, asks for the cursor (DSR) and moves the     *)
(* model by the difference when the reply (CPR) arrives.  Output, queries, *)
(* replies and signals cross each other.  A position is one number: rows   *)
(* and columns are synchronised alike; the screen's edges are left out.    *)
(***************************************************************************)
EXTENDS Integers, Sequences

CONSTANTS MaxWrites, MaxResizes     \* bounds: writes of clients, resizes and clears

CursorSyncAssumption == MaxWrites \in Nat /\ MaxResizes \in Nat

VARIABLES
  model,        \* cstate.cursor.position
  asked_at,     \* _resize_sync_cursor
  outstanding,  \* _resize_sync_outstanding
  wanted,       \* _cursor_sync_wanted
  mid,          \* _raw_output_mid_sequence
  inherit,      \* _pending_inherit_cursor
  resize_signal, clear_signal,  \* what the signal pipe holds: the newest of each
  to_terminal,  \* external: VT output on its way
  replies,      \* external: CPR replies on their way, in the order of the queries
  actual,       \* external: the terminal's cursor
  writes, resizes,  \* counted for the bounds
  crossed       \* history: output that the synchronisation cannot account for

sync_vars == <<model, asked_at, outstanding, wanted, mid, inherit, resize_signal, clear_signal,
          to_terminal, replies, actual, writes, resizes, crossed>>

Deltas == {-1, 0, 1}

\* A session starts at the origin or asks where the terminal's cursor is.
SyncInit ==
  /\ model = 0 /\ asked_at = 0 /\ outstanding = 0 /\ wanted = FALSE /\ mid = FALSE
  /\ \/ inherit = FALSE /\ to_terminal = <<>> /\ actual = 0
     \/ inherit = TRUE /\ to_terminal = <<[op |-> "query"]>> /\ actual \in {0, 2}
  /\ resize_signal = FALSE /\ clear_signal = FALSE /\ replies = <<>>
  /\ writes = 0 /\ resizes = 0 /\ crossed = FALSE

-----------------------------------------------------------------------------
(* The terminal                                                            *)

TerminalReads ==
  /\ to_terminal # <<>> /\ to_terminal' = Tail(to_terminal)
  /\ LET o == Head(to_terminal) IN
     CASE o.op = "query"  -> replies' = Append(replies, actual) /\ UNCHANGED actual
       [] o.op = "text"   -> actual' = actual + 1 /\ UNCHANGED replies
       [] o.op = "moveto" -> actual' = o.to /\ UNCHANGED replies
       [] OTHER           -> UNCHANGED <<actual, replies>>
  /\ UNCHANGED <<model, asked_at, outstanding, wanted, mid, inherit, resize_signal, clear_signal,
                 writes, resizes, crossed>>

\* Reflow moves the cursor in ways the model cannot know.
TerminalResizes ==
  /\ resizes < MaxResizes /\ resizes' = resizes + 1
  /\ \E d \in Deltas : actual' = actual + d
  /\ resize_signal' = TRUE
  /\ crossed' = (crossed \/ inherit \/ clear_signal)
  /\ UNCHANGED <<model, asked_at, outstanding, wanted, mid, inherit, clear_signal, to_terminal,
                 replies, writes>>

\* The terminal clears its screen; the signal is all the bridge hears of it.
TerminalClears ==
  /\ resizes < MaxResizes /\ resizes' = resizes + 1
  /\ actual' = 0 /\ clear_signal' = TRUE
  /\ crossed' = (crossed \/ inherit \/ outstanding > 0 \/ resize_signal \/ wanted
                    \/ to_terminal # <<>>)
  /\ UNCHANGED <<model, asked_at, outstanding, wanted, mid, inherit, resize_signal, to_terminal,
                 replies, writes>>

-----------------------------------------------------------------------------
(* Asking                                                                  *)

\* request_cursor_sync: the query follows everything written so far.
Ask(written, position) ==
  /\ to_terminal' = Append(written, [op |-> "query"])
  /\ asked_at' = position /\ outstanding' = outstanding + 1
  /\ wanted' = FALSE

\* Mutant: the query is sent inside the client's sequence.
BugSendAtOnce(written, position, middle) == Ask(written, position)

\* send_wanted_cursor_sync, with the output written and the wish expressed before it.
send_wanted_cursor_sync(written, position, middle) ==
  IF middle THEN to_terminal' = written /\ wanted' = TRUE /\ UNCHANGED <<asked_at, outstanding>>
            ELSE Ask(written, position)

\* poll_signal_closed: apply_terminal_resize for the newest resize (the model moves as
\* terminals usually do, then asks), then apply_terminal_clear (its cursor goes home).
poll_signal ==
  /\ resize_signal \/ clear_signal
  /\ resize_signal' = FALSE /\ clear_signal' = FALSE
  /\ IF resize_signal
     THEN \E shift \in {0, 1} :
            /\ send_wanted_cursor_sync(to_terminal, model - shift, mid)
            /\ model' = IF clear_signal THEN 0 ELSE model - shift
     ELSE model' = 0 /\ UNCHANGED <<to_terminal, wanted, asked_at, outstanding>>
  /\ UNCHANGED <<mid, inherit, replies, actual, writes, resizes, crossed>>

-----------------------------------------------------------------------------
(* Output of clients                                                       *)

\* Mutant: the query kept back inside a sequence is not sent when the sequence ends.
BugWishForgotten(item, position, middle) ==
  /\ writes < MaxWrites /\ writes' = writes + 1
  /\ model' = position /\ mid' = middle
  /\ to_terminal' = Append(to_terminal, item)
  /\ UNCHANGED <<asked_at, outstanding, wanted, inherit, resize_signal, clear_signal, replies,
                 actual, resizes>>

Write(item, position, middle) ==
  /\ writes < MaxWrites /\ writes' = writes + 1
  /\ model' = position /\ mid' = middle
  /\ IF wanted THEN send_wanted_cursor_sync(Append(to_terminal, item), position, middle)
               ELSE to_terminal' = Append(to_terminal, item) /\ UNCHANGED <<asked_at, outstanding, wanted>>
  /\ UNCHANGED <<inherit, resize_signal, clear_signal, replies, actual, resizes>>

\* A write that goes through as it is moves both cursors alike; it may end inside a sequence.
WriteText ==
  /\ crossed' = (crossed \/ inherit \/ clear_signal)
  /\ \/ ~mid /\ Write([op |-> "text"], model + 1, FALSE)
     \/ ~mid /\ Write([op |-> "half"], model, TRUE)
     \/ mid /\ Write([op |-> "rest"], model, FALSE)

\* A write that starts with a CUP puts the terminal's cursor where the model's is.
WriteAt ==
  /\ ~mid
  /\ crossed' = (crossed \/ inherit \/ clear_signal \/ outstanding > 0 \/ wanted \/ resize_signal)
  /\ Write([op |-> "moveto", to |-> model], model, FALSE)

-----------------------------------------------------------------------------
(* Replies                                                                 *)

\* Mutant: the first reply to arrive is applied, whichever query it answers.
BugAnyReply(reported) ==
  /\ outstanding' = outstanding - 1
  /\ model' = model + reported - asked_at

\* A reply to a query after a resize; only the newest one moves the model.
finish_resize_sync(reported) ==
  /\ outstanding' = outstanding - 1
  /\ model' = IF outstanding = 1 THEN model + reported - asked_at ELSE model

\* take_resize_sync_replies: a whole reply in a batch.
take_resize_sync_replies ==
  /\ replies # <<>> /\ outstanding > 0 /\ replies' = Tail(replies)
  /\ finish_resize_sync(Head(replies))
  /\ UNCHANGED <<asked_at, wanted, mid, inherit, resize_signal, clear_signal, to_terminal, actual,
                 writes, resizes, crossed>>

\* process_input_cpr_response: a reply split over batches, or with no resize to sync.
process_input_cpr_response ==
  /\ replies # <<>> /\ replies' = Tail(replies)
  /\ \/ inherit /\ inherit' = FALSE /\ model' = Head(replies) /\ UNCHANGED outstanding
     \/ ~inherit /\ outstanding > 0 /\ finish_resize_sync(Head(replies)) /\ UNCHANGED inherit
     \/ ~inherit /\ outstanding = 0 /\ UNCHANGED <<inherit, model, outstanding>>
  /\ UNCHANGED <<asked_at, wanted, mid, resize_signal, clear_signal, to_terminal, actual,
                 writes, resizes, crossed>>

Bridge == poll_signal \/ take_resize_sync_replies
            \/ process_input_cpr_response
SyncNext == Bridge \/ TerminalReads \/ TerminalResizes \/ TerminalClears \/ WriteText \/ WriteAt

SyncSpec == SyncInit /\ [][SyncNext]_sync_vars
\* The terminal reads its pipe, and the loop comes round again (IdleWaker).
FairSyncSpec == SyncSpec /\ WF_sync_vars(TerminalReads) /\ WF_sync_vars(Bridge)

-----------------------------------------------------------------------------
(* Properties                                                              *)

Settled == /\ to_terminal = <<>> /\ replies = <<>> /\ ~resize_signal /\ ~clear_signal
           /\ ~wanted /\ outstanding = 0 /\ ~inherit

\* When nothing is under way the model's cursor is the terminal's, after any resizes, each
\* reflowing by an unknown amount while output and older queries were on their way
\* (apply_terminal_resize, finish_resize_sync).  Left to `crossed': output before the
\* inherited position is known, around a clear, and a CUP while a query is out.
CursorsAgree == Settled /\ ~crossed => model = actual

\* A query never lands inside a client's escape sequence: what follows a first half is its
\* rest (want_cursor_sync, set_raw_output_mid_sequence).
QueryBetweenSequences ==
  \A k \in 1..(Len(to_terminal) - 1) :
    to_terminal[k].op = "half" => to_terminal[k + 1].op = "rest"

\* After a resize everything comes to rest: the query is sent, at once or when the client's
\* sequence has ended, and its reply is taken, whole or in parts.  Only a client that never
\* ends its sequence can keep the query back (send_wanted_cursor_sync,
\* set_raw_output_mid_sequence).
ResizeSettles == resize_signal ~> (Settled \/ []mid)
=============================================================================
