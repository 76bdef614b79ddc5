------------------------------ MODULE Handoff ------------------------------
(***************************************************************************)
(* The default-terminal start: the process that Windows starts for a       *)
(* console (defterm) reads the first CONNECT itself, offers the console to *)
(* COM servers one after the other and, when one takes it, only waits; a   *)
(* COM server (com_server) fills its result on an RPC thread and wakes its *)
(* main thread, which serves the console from then on.                     *)
(*                                                                         *)
(* duplicate_self at the end of EstablishHandoff does not fail here, having*)
(* succeeded a moment before (see the README).                             *)
(***************************************************************************)
EXTENDS Naturals, Sequences, FiniteSets

CONSTANTS Clients,      \* processes of the console; one of them starts it
          Candidates    \* 1..n: the CLSIDs tried, in this order

HandoffAssumption == IsFiniteSet(Candidates) /\ Candidates = 1..Cardinality(Candidates)

VARIABLES
  requests,              \* external, ConDrv: what READ_IO returns next, [from, op]
  client,                \* external: "out", "connecting", "in", "asking" or "gone"
  answers,               \* external: how often a client's CONNECT was completed
  wants,                 \* external: clients whose CONNECT asks for a window
  kind,                  \* external: what is registered for a candidate
  elevated,              \* env::is_elevated()
  place,                 \* where defterm's thread is
  held, current,         \* message_a and message_b, and the one to read into
  completed_previous,    \* "none" or the message whose completion goes with the next READ_IO
  initialized, handles,  \* connect_handler: condrv_input and condrv_output, whose connection
  candidate,
  com,                   \* main thread of each COM server: "off", "waiting", "session", "ended"
  rpc,                   \* RPC thread in EstablishHandoff
  notified, result,      \* notifier; result has [server, handles]
  hr                     \* what EstablishHandoff returns

condrv == <<requests, client, answers>>
settings == <<wants, kind, elevated>>
loop == <<held, current, completed_previous, initialized, handles>>
servers == <<com, rpc, notified, result, hr>>
handoff_vars == <<condrv, settings, place, loop, candidate, servers>>

Nothing == [from |-> "nobody", op |-> "none"]
Attached == {c \in Clients : client[c] \in {"in", "asking"}}
CandidateKinds == {"skipped", "absent", "marked", "server"}
NoResult == [server |-> FALSE, handles |-> FALSE]

StartHandoff(first, windows, kinds, high) ==
  /\ requests = <<[from |-> first, op |-> "connect"]>>
  /\ client = [c \in Clients |-> IF c = first THEN "connecting" ELSE "out"]
  /\ answers = [c \in Clients |-> 0]
  /\ wants = windows /\ kind = kinds /\ elevated = high
  /\ place = "loop" /\ held = [b \in {"a", "b"} |-> Nothing] /\ current = "a"
  /\ completed_previous = "none" /\ initialized = FALSE /\ handles = "none" /\ candidate = 1
  /\ com = [k \in Candidates |-> "off"] /\ rpc = [k \in Candidates |-> "idle"]
  /\ notified = [k \in Candidates |-> FALSE] /\ result = [k \in Candidates |-> NoResult]
  /\ hr = [k \in Candidates |-> "none"]

HandoffInit == \E first \in Clients, windows \in SUBSET Clients, kinds \in [Candidates -> CandidateKinds],
          high \in BOOLEAN : StartHandoff(first, windows, kinds, high)

-----------------------------------------------------------------------------
(* Clients                                                                 *)

Send(c, op) == requests' = Append(requests, [from |-> c, op |-> op])

\* A process of a console starts another one there, which connects.
Connect ==
  \E c \in Clients :
    /\ client[c] = "out" /\ Attached # {} /\ Send(c, "connect")
    /\ client' = [client EXCEPT ![c] = "connecting"]
    /\ UNCHANGED <<answers, settings, place, loop, candidate, servers>>

Ask ==
  \E c \in Clients :
    /\ client[c] = "in" /\ Send(c, "ask") /\ client' = [client EXCEPT ![c] = "asking"]
    /\ UNCHANGED <<answers, settings, place, loop, candidate, servers>>

Leave ==
  \E c \in Clients :
    /\ client[c] = "in" /\ Send(c, "disconnect") /\ client' = [client EXCEPT ![c] = "gone"]
    /\ UNCHANGED <<answers, settings, place, loop, candidate, servers>>

Answer(r) ==
  /\ client' = IF r.op = "disconnect" THEN client ELSE [client EXCEPT ![r.from] = "in"]
  /\ answers' = IF r.op = "connect" THEN [answers EXCEPT ![r.from] = @ + 1] ELSE answers

Deserted == Attached = {} /\ requests = <<>>

-----------------------------------------------------------------------------
(* defterm: run_initial_connect_loop                                       *)

Other(b) == IF b = "a" THEN "b" ELSE "a"

\* READ_IO takes the completion of the message before with it.
SubmitPrevious ==
  /\ place = "loop" /\ completed_previous # "none"
  /\ Answer(held[completed_previous]) /\ completed_previous' = "none"
  /\ UNCHANGED <<requests, settings, place, held, current, initialized, handles, candidate,
                 servers>>

Receive ==
  /\ place = "loop" /\ completed_previous = "none" /\ requests # <<>>
  /\ held' = [held EXCEPT ![current] = Head(requests)] /\ requests' = Tail(requests)
  /\ place' = "handling"
  /\ UNCHANGED <<client, answers, settings, current, completed_previous, initialized, handles,
                 candidate, servers>>

Disconnected ==
  /\ place = "loop" /\ completed_previous = "none" /\ Deserted /\ place' = "ended"
  /\ UNCHANGED <<condrv, settings, loop, candidate, servers>>

\* accept_connection completes the CONNECT explicitly and makes its handles.
AcceptHere == Answer(held[current]) /\ handles' = held[current].from

Connecting == place = "handling" /\ held[current].op = "connect"
NeedsWindow == ~initialized /\ held[current].from \in wants

\* A client without a window of its own, or one that comes later: served here.
StartHere ==
  /\ Connecting /\ ~NeedsWindow
  /\ AcceptHere /\ initialized' = TRUE /\ place' = "session"
  /\ UNCHANGED <<requests, settings, held, current, completed_previous, candidate, servers>>

\* No window for it: accepted, told to stop, and the loop goes on.
Block ==
  /\ AcceptHere /\ initialized' = TRUE
  /\ place' = "loop" /\ current' = Other(current) /\ completed_previous' = "none"
  /\ UNCHANGED <<requests, settings, held, candidate, servers>>
ElevatedBlocked == Connecting /\ NeedsWindow /\ elevated /\ Block
NoTerminal == place = "offering" /\ candidate \notin Candidates /\ Block

Offer ==
  /\ Connecting /\ NeedsWindow /\ ~elevated
  /\ initialized' = TRUE /\ place' = "offering" /\ candidate' = 1
  /\ UNCHANGED <<condrv, settings, held, current, completed_previous, handles, servers>>

\* dispatch_console, on_message: all but CONNECT is answered by the next READ_IO.
dispatch_console ==
  /\ place = "handling" /\ held[current].op # "connect"
  /\ handles' = IF held[current].op = "disconnect" THEN "none" ELSE handles
  /\ completed_previous' = current /\ current' = Other(current) /\ place' = "loop"
  /\ UNCHANGED <<condrv, settings, held, initialized, candidate, servers>>

\* Zero and inbox CLSIDs are skipped; all but the configured one must not have the marker.
Unsuited == kind[candidate] \in {"skipped", "absent"} \/ (kind[candidate] = "marked" /\ candidate > 1)

NextCandidate ==
  /\ place = "offering" /\ candidate \in Candidates /\ Unsuited
  /\ candidate' = candidate + 1
  /\ UNCHANGED <<condrv, settings, place, loop, servers>>

\* COM starts the server; its factory is registered and its main thread waits.
CallServer ==
  /\ place = "offering" /\ candidate \in Candidates /\ ~Unsuited
  /\ place' = "calling"
  /\ com' = [com EXCEPT ![candidate] = "waiting"]
  /\ rpc' = [rpc EXCEPT ![candidate] = "called"]
  /\ UNCHANGED <<condrv, settings, loop, candidate, notified, result, hr>>

CallReturns ==
  /\ place = "calling" /\ rpc[candidate] = "returned"
  /\ \/ hr[candidate] = "ok" /\ place' = "watching" /\ UNCHANGED candidate
     \/ hr[candidate] = "failed" /\ place' = "offering" /\ candidate' = candidate + 1
  /\ UNCHANGED <<condrv, settings, loop, servers>>

\* The server has closed its copy of the signal pipe, or has ended.
WatchEnds ==
  /\ place = "watching" /\ place' = "ended"
  /\ UNCHANGED <<condrv, settings, loop, candidate, servers>>

-----------------------------------------------------------------------------
(* com_server: EstablishHandoff on the RPC thread of server k              *)

Goes(k, where) ==
  /\ rpc' = [rpc EXCEPT ![k] = where]
  /\ UNCHANGED <<requests, settings, place, loop, candidate, com>>

\* Leaving the scope of the lock sets the notifier, before COM sends the answer.
Unwind(k, status) ==
  /\ notified' = [notified EXCEPT ![k] = TRUE] /\ hr' = [hr EXCEPT ![k] = status]
  /\ Goes(k, "replying")

Throws(k) ==
  /\ rpc[k] \in {"called", "opened", "created"} /\ Unwind(k, "failed")
  /\ UNCHANGED <<client, answers, result>>

\* Mutant: the server handle is part of the result before a terminal has accepted.
BugServerFirst(k) ==
  /\ rpc[k] = "called" /\ Goes(k, "opened")
  /\ result' = [result EXCEPT ![k].server = TRUE]
  /\ UNCHANGED <<client, answers, notified, hr>>

\* Handles are duplicated, the client process and the reference handle opened.
Duplicate(k) ==
  /\ rpc[k] = "called" /\ Goes(k, "opened")
  /\ UNCHANGED <<client, answers, notified, result, hr>>

create_terminal_pty(k) ==
  /\ rpc[k] = "opened" /\ Goes(k, "created")
  /\ UNCHANGED <<client, answers, notified, result, hr>>

\* No terminal is configured: S_OK with an empty result.
NoTerminalClsid(k) ==
  rpc[k] = "opened" /\ Unwind(k, "ok") /\ UNCHANGED <<client, answers, result>>

\* accept_condrv_connection: the CONNECT that defterm read is completed here.
accept_condrv_connection(k) ==
  /\ rpc[k] = "created" /\ Answer(held[current]) /\ Goes(k, "accepted")
  /\ UNCHANGED <<notified, result, hr>>

complete_terminal_handoff(k) ==
  /\ rpc[k] = "accepted"
  /\ result' = [result EXCEPT ![k] = [server |-> TRUE, handles |-> TRUE]]
  /\ Unwind(k, "ok")
  /\ UNCHANGED <<client, answers>>

\* The answer of the call arrives.
Reply(k) ==
  /\ rpc[k] = "replying" /\ Goes(k, "returned")
  /\ UNCHANGED <<client, answers, notified, result, hr>>

\* Or the main thread, with nothing to serve, ends the process before it is sent (a session
\* lasts longer than that).
ReplyLost(k) ==
  /\ rpc[k] = "replying" /\ com[k] = "ended" /\ ~result[k].server /\ Goes(k, "returned")
  /\ hr' = [hr EXCEPT ![k] = "failed"]
  /\ UNCHANGED <<client, answers, notified, result>>

EstablishHandoff ==
  \E k \in Candidates :
    \/ Throws(k) \/ Duplicate(k) \/ create_terminal_pty(k) \/ NoTerminalClsid(k)
    \/ accept_condrv_connection(k) \/ complete_terminal_handoff(k) \/ Reply(k) \/ ReplyLost(k)

\* com_server_entry returns the result; without a server handle conpty_entry fails.
com_server_entry ==
  \E k \in Candidates :
    /\ com[k] = "waiting" /\ notified[k]
    /\ com' = [com EXCEPT ![k] = IF result[k].server THEN "session" ELSE "ended"]
    /\ UNCHANGED <<condrv, settings, place, loop, candidate, rpc, notified, result, hr>>

-----------------------------------------------------------------------------
(* The session, in whatever process: modelled in full by the other modules *)

ServeRequest ==
  /\ requests # <<>> /\ Answer(Head(requests)) /\ requests' = Tail(requests)
  /\ place = "session" \/ \E k \in Candidates : com[k] = "session"
  /\ UNCHANGED <<settings, place, loop, candidate, servers>>

SessionEnds ==
  /\ Deserted
  /\ \/ place = "session" /\ place' = "ended" /\ UNCHANGED com
     \/ \E k \in Candidates : com[k] = "session" /\ com' = [com EXCEPT ![k] = "ended"]
                                /\ UNCHANGED place
  /\ UNCHANGED <<condrv, settings, loop, candidate, rpc, notified, result, hr>>

HandoffNext == \/ Connect \/ Ask \/ Leave
        \/ SubmitPrevious \/ Receive \/ Disconnected \/ StartHere \/ ElevatedBlocked \/ Offer
        \/ dispatch_console \/ NextCandidate \/ NoTerminal \/ CallServer \/ CallReturns
        \/ WatchEnds \/ EstablishHandoff \/ com_server_entry \/ ServeRequest \/ SessionEnds

HandoffSpec == HandoffInit /\ [][HandoffNext]_handoff_vars

-----------------------------------------------------------------------------
(* Properties                                                              *)

Servers == {k \in Candidates : com[k] = "session"}
Readers == Servers \cup (IF place \in {"loop", "handling", "session"} THEN {0} ELSE {})

\* A request that was read and not answered is in defterm's hands, whatever buffer it is in,
\* or the handoff gave the console up.
Unanswered(c) ==
  \/ \E j \in DOMAIN requests : requests[j].from = c
  \/ place \in {"handling", "offering", "calling"} /\ held[current].from = c
  \/ completed_previous # "none" /\ held[completed_previous].from = c
  \/ place \in {"watching", "ended"} /\ Servers = {}

\* One process reads the console's requests, whichever candidates fail at whatever point and
\* however the notifier, the main thread and the RPC's answer race; it has the client's
\* handles, every CONNECT is completed once, and no request is lost on the way
\* (EstablishHandoff, try_terminal_handoff, run_initial_connect_loop).
OneServer ==
  /\ Cardinality(Readers) <= 1
  /\ \A k \in Servers : result[k].handles
  /\ \A c \in Clients : /\ answers[c] <= 1
                        /\ client[c] \in {"connecting", "asking"} => Unanswered(c)
=============================================================================
