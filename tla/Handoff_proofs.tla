--------------------------- MODULE Handoff_proofs ---------------------------
(***************************************************************************)
(* One process serves a console that is handed over, for any number of     *)
(* clients and of candidate servers.                                       *)
(***************************************************************************)
EXTENDS Handoff, FiniteSetTheorems, TLAPS

Ops == {"connect", "ask", "disconnect"}
Requests == [from : Clients, op : Ops]
ClientStates == {"out", "connecting", "in", "asking", "gone"}
Places == {"loop", "handling", "offering", "calling", "watching", "session", "ended"}
Threads == {"idle", "called", "opened", "created", "accepted", "replying", "returned"}

TypeOK ==
  /\ requests \in Seq(Requests)
  /\ client \in [Clients -> ClientStates] /\ answers \in [Clients -> Nat]
  /\ place \in Places /\ current \in {"a", "b"} /\ completed_previous \in {"none", "a", "b"}
  /\ held \in [{"a", "b"} -> Requests \cup {Nothing}]
  /\ candidate \in Nat
  /\ com \in [Candidates -> {"off", "waiting", "session", "ended"}]
  /\ rpc \in [Candidates -> Threads]
  /\ notified \in [Candidates -> BOOLEAN]
  /\ result \in [Candidates -> [server : BOOLEAN, handles : BOOLEAN]]
  /\ hr \in [Candidates -> {"none", "ok", "failed"}]

LEMMA HeadTail ==
  ASSUME NEW S, NEW s \in Seq(S), s # <<>>
  PROVE  /\ Head(s) \in S /\ Tail(s) \in Seq(S) /\ Len(s) \in Nat /\ Len(s) > 0
         /\ Len(Tail(s)) = Len(s) - 1 /\ Head(s) = s[1]
         /\ \A k \in 1..Len(Tail(s)) : Tail(s)[k] = s[k + 1]
OBVIOUS

LEMMA AppendOne ==
  ASSUME NEW S, NEW s \in Seq(S), NEW x \in S
  PROVE  /\ Append(s, x) \in Seq(S) /\ Len(Append(s, x)) = Len(s) + 1 /\ Len(s) \in Nat
         /\ Append(s, x)[Len(s) + 1] = x
         /\ \A k \in 1..Len(s) : Append(s, x)[k] = s[k]
OBVIOUS

LEMMA AnswerTypes ==
  ASSUME TypeOK, NEW r, Answer(r)
  PROVE  client' \in [Clients -> ClientStates] /\ answers' \in [Clients -> Nat]
<1>1. client' \in [Clients -> ClientStates]
  BY DEF TypeOK, Answer, ClientStates
<1>2. answers' \in [Clients -> Nat]
  <2>1. \A c \in Clients : answers[c] + 1 \in Nat
    BY DEF TypeOK
  <2>2. answers' = answers \/ answers' = [answers EXCEPT ![r.from] = answers[r.from] + 1]
    BY Zenon DEF Answer
  <2>3. QED
    BY <2>1, <2>2, SMTT(30) DEF TypeOK
<1>3. QED
  BY <1>1, <1>2

LEMMA SendTypes ==
  ASSUME TypeOK, NEW c \in Clients, NEW op \in Ops, Send(c, op)
  PROVE  requests' \in Seq(Requests)
<1>1. [from |-> c, op |-> op] \in Requests
  BY DEF Requests
<1>2. QED
  BY <1>1, AppendOne DEF TypeOK, Send

LEMMA TypeInit == HandoffAssumption /\ HandoffInit => TypeOK
<1> SUFFICES ASSUME HandoffAssumption, HandoffInit PROVE TypeOK
  OBVIOUS
<1>1. PICK first \in Clients, windows \in SUBSET Clients, kinds \in [Candidates -> CandidateKinds],
           high \in BOOLEAN : StartHandoff(first, windows, kinds, high)
  BY DEF HandoffInit
<1>2. [from |-> first, op |-> "connect"] \in Requests
  BY DEF Requests, Ops
<1>3. requests \in Seq(Requests)
  BY <1>1, <1>2 DEF StartHandoff
<1>4. held \in [{"a", "b"} -> Requests \cup {Nothing}]
  BY <1>1 DEF StartHandoff
<1>5. client \in [Clients -> ClientStates] /\ answers \in [Clients -> Nat]
  BY <1>1 DEF StartHandoff, ClientStates
<1>6. result \in [Candidates -> [server : BOOLEAN, handles : BOOLEAN]]
  BY <1>1 DEF StartHandoff, NoResult
<1>7. QED
  BY <1>1, <1>3, <1>4, <1>5, <1>6 DEF StartHandoff, TypeOK, Places, Threads

LEMMA TypeStep == TypeOK /\ [HandoffNext]_handoff_vars => TypeOK'
<1> SUFFICES ASSUME TypeOK, [HandoffNext]_handoff_vars PROVE TypeOK'
  OBVIOUS
<1> USE DEF Places, Threads, condrv, settings, loop, servers
<1>1. CASE Connect
  <2>1. requests' \in Seq(Requests)
    BY <1>1, SendTypes DEF Connect, Ops
  <2>2. QED
    BY <1>1, <2>1 DEF TypeOK, Connect, ClientStates
<1>2. CASE Ask
  <2>1. requests' \in Seq(Requests)
    BY <1>2, SendTypes DEF Ask, Ops
  <2>2. QED
    BY <1>2, <2>1 DEF TypeOK, Ask, ClientStates
<1>3. CASE Leave
  <2>1. requests' \in Seq(Requests)
    BY <1>3, SendTypes DEF Leave, Ops
  <2>2. QED
    BY <1>3, <2>1 DEF TypeOK, Leave, ClientStates
<1>4. CASE SubmitPrevious
  <2>1. client' \in [Clients -> ClientStates] /\ answers' \in [Clients -> Nat]
    BY <1>4, AnswerTypes DEF SubmitPrevious
  <2>2. QED
    BY <1>4, <2>1 DEF TypeOK, SubmitPrevious
<1>5. CASE Receive
  <2>1. Head(requests) \in Requests /\ requests' \in Seq(Requests)
    BY <1>5, HeadTail DEF TypeOK, Receive
  <2>2. QED
    BY <1>5, <2>1 DEF TypeOK, Receive
<1>6. CASE Disconnected \/ WatchEnds
  BY <1>6 DEF TypeOK, Disconnected, WatchEnds
<1>7. CASE StartHere \/ ElevatedBlocked \/ NoTerminal
  <2>1. client' \in [Clients -> ClientStates] /\ answers' \in [Clients -> Nat]
    BY <1>7, AnswerTypes DEF StartHere, ElevatedBlocked, NoTerminal, Block, AcceptHere
  <2>2. QED
    BY <1>7, <2>1 DEF TypeOK, StartHere, ElevatedBlocked, NoTerminal, Block, Other
<1>8. CASE Offer
  BY <1>8 DEF TypeOK, Offer
<1>9. CASE dispatch_console
  BY <1>9 DEF TypeOK, dispatch_console, Other
<1>10. CASE NextCandidate \/ CallServer \/ CallReturns
  <2>1. CASE NextCandidate
    BY <2>1 DEF TypeOK, NextCandidate
  <2>2. CASE CallServer
    BY <2>2 DEF TypeOK, CallServer
  <2>3. CASE CallReturns
    <3>1. candidate' \in Nat /\ place' \in Places
      BY <2>3 DEF TypeOK, CallReturns
    <3>2. QED
      BY <2>3, <3>1 DEF TypeOK, CallReturns
  <2>4. QED
    BY <1>10, <2>1, <2>2, <2>3
<1>11. ASSUME NEW k \in Candidates,
              Throws(k) \/ Duplicate(k) \/ create_terminal_pty(k) \/ NoTerminalClsid(k)
       PROVE  TypeOK'
  BY <1>11, ZenonT(60)
  DEF TypeOK, Throws, Duplicate, create_terminal_pty, NoTerminalClsid, Goes, Unwind
<1>12. ASSUME NEW k \in Candidates, accept_condrv_connection(k) PROVE TypeOK'
  <2>1. client' \in [Clients -> ClientStates] /\ answers' \in [Clients -> Nat]
    BY <1>12, AnswerTypes DEF accept_condrv_connection
  <2>2. QED
    BY <1>12, <2>1 DEF TypeOK, accept_condrv_connection, Goes
<1>13. ASSUME NEW k \in Candidates, complete_terminal_handoff(k) \/ Reply(k) \/ ReplyLost(k)
       PROVE  TypeOK'
  <2>1. CASE complete_terminal_handoff(k)
    <3>1. result' \in [Candidates -> [server : BOOLEAN, handles : BOOLEAN]]
      BY <2>1, Zenon DEF TypeOK, complete_terminal_handoff
    <3>2. QED
      BY <2>1, <3>1 DEF TypeOK, complete_terminal_handoff, Goes, Unwind
  <2>2. CASE Reply(k) \/ ReplyLost(k)
    BY <2>2 DEF TypeOK, Reply, ReplyLost, Goes
  <2>3. QED
    BY <1>13, <2>1, <2>2
<1>14. CASE com_server_entry
  BY <1>14 DEF TypeOK, com_server_entry
<1>15. CASE ServeRequest
  <2>1. client' \in [Clients -> ClientStates] /\ answers' \in [Clients -> Nat]
    BY <1>15, AnswerTypes DEF ServeRequest
  <2>2. requests' \in Seq(Requests)
    BY <1>15, HeadTail DEF TypeOK, ServeRequest
  <2>3. QED
    BY <1>15, <2>1, <2>2 DEF TypeOK, ServeRequest
<1>16. CASE SessionEnds
  BY <1>16 DEF TypeOK, SessionEnds
<1>17. CASE UNCHANGED handoff_vars
  BY <1>17 DEF TypeOK, handoff_vars
<1>18. QED
  BY <1>1, <1>2, <1>3, <1>4, <1>5, <1>6, <1>7, <1>8, <1>9, <1>10, <1>11, <1>12, <1>13, <1>14,
     <1>15, <1>16, <1>17 DEF HandoffNext, EstablishHandoff

-----------------------------------------------------------------------------
(* One server takes the console *)

Called(k) == rpc[k] # "idle"

\* Candidates are called one after the other, each once, and one call is under way at most.
CallInv ==
  /\ ~initialized => place \in {"loop", "handling", "ended"} /\ \A k \in Candidates : ~Called(k)
  /\ place = "offering" => \A k \in Candidates : Called(k) => k < candidate
  /\ place = "calling" => /\ candidate \in Candidates /\ Called(candidate)
                          /\ \A k \in Candidates : Called(k) => k <= candidate
  /\ \A k \in Candidates :
       Called(k) /\ rpc[k] # "returned" => place = "calling" /\ k = candidate
  /\ completed_previous # "none" => place = "loop"

\* A server has a result only when its call succeeds, and its main thread looks at it when
\* the call is over.
ServerInv ==
  \A k \in Candidates :
    /\ notified[k] <=> rpc[k] \in {"replying", "returned"}
    /\ com[k] \in {"session", "ended"} => notified[k]
    /\ com[k] = "session" => result[k].server
    /\ result[k].server => /\ result[k].handles /\ notified[k] /\ hr[k] = "ok"
                           /\ k = candidate /\ place \in {"calling", "watching", "ended"}

LEMMA ControlInit == HandoffInit => CallInv /\ ServerInv
<1> SUFFICES ASSUME HandoffInit PROVE CallInv /\ ServerInv
  OBVIOUS
<1>1. /\ place = "loop" /\ completed_previous = "none"
      /\ rpc = [k \in Candidates |-> "idle"] /\ com = [k \in Candidates |-> "off"]
      /\ notified = [k \in Candidates |-> FALSE] /\ result = [k \in Candidates |-> NoResult]
  BY DEF HandoffInit, StartHandoff
<1>2. CallInv
  BY <1>1 DEF CallInv, Called
<1>3. ServerInv
  BY <1>1 DEF ServerInv, NoResult
<1>4. QED
  BY <1>2, <1>3

LEMMA CallStep ==
  HandoffAssumption /\ TypeOK /\ CallInv /\ ServerInv /\ [HandoffNext]_handoff_vars => CallInv'
<1> SUFFICES ASSUME HandoffAssumption, TypeOK, CallInv, ServerInv, [HandoffNext]_handoff_vars
             PROVE  CallInv'
  OBVIOUS
<1>0. candidate \in Nat /\ \A k \in Candidates : k \in Nat
  BY FS_CardinalityType DEF TypeOK, HandoffAssumption
<1> USE DEF CallInv, Called, condrv, settings, loop, servers
<1>1. CASE Connect \/ Ask \/ Leave \/ ServeRequest \/ com_server_entry \/ UNCHANGED handoff_vars
  BY <1>1 DEF Connect, Ask, Leave, ServeRequest, com_server_entry, handoff_vars
<1>2. CASE SubmitPrevious \/ Receive \/ Disconnected \/ StartHere \/ WatchEnds \/ SessionEnds
  BY <1>2 DEF SubmitPrevious, Receive, Disconnected, StartHere, WatchEnds, SessionEnds, Connecting
<1>3. CASE ElevatedBlocked \/ NoTerminal
  BY <1>3 DEF ElevatedBlocked, NoTerminal, Block, Connecting
<1>4. CASE Offer
  BY <1>4 DEF Offer, Connecting, NeedsWindow
<1>5. CASE dispatch_console
  BY <1>5 DEF dispatch_console
<1>6. CASE NextCandidate
  BY <1>0, <1>6 DEF TypeOK, NextCandidate
<1>7. CASE CallServer
  BY <1>0, <1>7 DEF TypeOK, CallServer
<1>8. CASE CallReturns
  BY <1>0, <1>8 DEF TypeOK, CallReturns
<1>9. ASSUME NEW k \in Candidates,
             Throws(k) \/ Duplicate(k) \/ create_terminal_pty(k) \/ NoTerminalClsid(k)
      PROVE  CallInv'
  BY <1>9 DEF TypeOK, Throws, Duplicate, create_terminal_pty, NoTerminalClsid, Goes, Unwind
<1>10. ASSUME NEW k \in Candidates,
              \/ accept_condrv_connection(k) \/ complete_terminal_handoff(k)
              \/ Reply(k) \/ ReplyLost(k)
       PROVE  CallInv'
  BY <1>10 DEF TypeOK, accept_condrv_connection, complete_terminal_handoff, Reply, ReplyLost,
     Goes, Unwind
<1>11. QED
  BY <1>1, <1>2, <1>3, <1>4, <1>5, <1>6, <1>7, <1>8, <1>9, <1>10 DEF HandoffNext, EstablishHandoff

LEMMA ServerStep == TypeOK /\ CallInv /\ ServerInv /\ [HandoffNext]_handoff_vars => ServerInv'
<1> SUFFICES ASSUME TypeOK, CallInv, ServerInv, [HandoffNext]_handoff_vars PROVE ServerInv'
  OBVIOUS
<1> USE DEF CallInv, ServerInv, Called, condrv, settings, loop, servers
<1>1. CASE Connect \/ Ask \/ Leave \/ ServeRequest \/ UNCHANGED handoff_vars
  BY <1>1 DEF Connect, Ask, Leave, ServeRequest, handoff_vars
<1>2. CASE SubmitPrevious \/ Receive \/ Disconnected \/ StartHere \/ WatchEnds
  BY <1>2 DEF SubmitPrevious, Receive, Disconnected, StartHere, WatchEnds, Connecting
<1>3. CASE ElevatedBlocked \/ NoTerminal
  BY <1>3 DEF ElevatedBlocked, NoTerminal, Block, Connecting
<1>4. CASE Offer
  BY <1>4 DEF Offer, Connecting
<1>5. CASE dispatch_console \/ NextCandidate
  BY <1>5 DEF dispatch_console, NextCandidate
<1>6. CASE CallServer
  BY <1>6 DEF TypeOK, CallServer
<1>7. CASE CallReturns
  BY <1>7 DEF TypeOK, CallReturns
<1>8. CASE SessionEnds \/ com_server_entry
  BY <1>8 DEF TypeOK, SessionEnds, com_server_entry
<1>9. ASSUME NEW k \in Candidates,
             Throws(k) \/ Duplicate(k) \/ create_terminal_pty(k) \/ NoTerminalClsid(k)
      PROVE  ServerInv'
  BY <1>9 DEF TypeOK, Throws, Duplicate, create_terminal_pty, NoTerminalClsid, Goes, Unwind
<1>10. ASSUME NEW k \in Candidates,
              accept_condrv_connection(k) \/ Reply(k) \/ ReplyLost(k)
       PROVE  ServerInv'
  BY <1>10 DEF TypeOK, accept_condrv_connection, Reply, ReplyLost, Goes, Unwind
<1>11. ASSUME NEW k \in Candidates, complete_terminal_handoff(k) PROVE ServerInv'
  BY <1>11 DEF TypeOK, complete_terminal_handoff, Goes, Unwind
<1>12. QED
  BY <1>1, <1>2, <1>3, <1>4, <1>5, <1>6, <1>7, <1>8, <1>9, <1>10, <1>11
     DEF HandoffNext, EstablishHandoff

-----------------------------------------------------------------------------
(* No request is lost or answered twice *)

StateOf(op) == IF op = "connect" THEN "connecting" ELSE IF op = "ask" THEN "asking" ELSE "gone"

\* A request that has not been answered, with the clients' states st.
Open(r, st) == r \in Requests /\ st[r.from] = StateOf(r.op)

Queued(c, s) == \E j \in 1..Len(s) : s[j].from = c

Orderly(s, st) ==
  /\ \A j \in 1..Len(s) : Open(s[j], st)
  /\ \A i, j \in 1..Len(s) : s[i].from = s[j].from => i = j

\* defterm has read a request that neither it nor a server has answered.
InHand ==
  \/ place \in {"handling", "offering"}
  \/ place = "calling" /\ rpc[candidate] # "accepted" /\ ~result[candidate].server

\* The requests read and not answered.
Taken ==
  (IF InHand THEN {held[current]} ELSE {})
    \cup (IF completed_previous # "none" THEN {held[completed_previous]} ELSE {})

\* The handoff gave the console up, or the console has ended: no server is going to serve it.
GivenUp ==
  place \in {"watching", "ended"} /\ \A k \in Candidates : result[k].server => com[k] = "ended"

RequestInv ==
  Orderly(requests, client) /\ \A r \in Taken : Open(r, client) /\ ~Queued(r.from, requests)

ClientInv ==
  \A c \in Clients :
    /\ answers[c] = IF client[c] \in {"out", "connecting"} THEN 0 ELSE 1
    /\ client[c] \in {"connecting", "asking"} =>
         Queued(c, requests) \/ (\E r \in Taken : r.from = c) \/ GivenUp

LEMMA OrderlyAppend ==
  ASSUME NEW s \in Seq(Requests), NEW st \in [Clients -> ClientStates], Orderly(s, st),
         NEW c \in Clients, NEW op \in Ops, st[c] \in {"out", "in"}
  PROVE  LET t == Append(s, [from |-> c, op |-> op])
             after == [st EXCEPT ![c] = StateOf(op)]
         IN  /\ Orderly(t, after) /\ Queued(c, t)
             /\ \A d \in Clients : d # c => (Queued(d, t) <=> Queued(d, s))
<1> DEFINE r == [from |-> c, op |-> op]
           t == Append(s, r)
           after == [st EXCEPT ![c] = StateOf(op)]
<1>1. r \in Requests /\ r.from = c /\ r.op = op
  BY DEF Requests
<1>2. /\ Len(t) = Len(s) + 1 /\ Len(s) \in Nat /\ t[Len(s) + 1] = r
      /\ \A j \in 1..Len(s) : t[j] = s[j]
  BY <1>1, AppendOne
<1>3. after[c] = StateOf(op) /\ \A d \in Clients : d # c => after[d] = st[d]
  BY DEF ClientStates
<1> HIDE DEF r, t, after
<1>4. \A j \in 1..Len(s) : s[j] \in Requests /\ s[j].from \in Clients /\ s[j].from # c
  BY DEF Orderly, Open, StateOf, Requests
<1>5. \A j \in 1..Len(t) : j \in 1..Len(s) \/ j = Len(s) + 1
  BY <1>2
<1>6. Len(s) + 1 \in 1..Len(t) /\ \A j \in 1..Len(s) : j \in 1..Len(t)
  BY <1>2
<1>7. \A j \in 1..Len(t) : Open(t[j], after)
  <2>1. \A j \in 1..Len(s) : Open(s[j], after)
    BY <1>3, <1>4 DEF Orderly, Open
  <2>2. Open(r, after)
    BY <1>1, <1>3 DEF Open
  <2>3. QED
    BY <1>2, <1>5, <2>1, <2>2
<1>8. \A i, j \in 1..Len(t) : t[i].from = t[j].from => i = j
  BY <1>1, <1>2, <1>4, <1>5 DEF Orderly
<1>9. Queued(c, t)
  BY <1>1, <1>2, <1>6 DEF Queued
<1>10. \A d \in Clients : d # c => (Queued(d, t) <=> Queued(d, s))
  BY <1>1, <1>2, <1>5, <1>6 DEF Queued
<1>11. QED
  BY <1>7, <1>8, <1>9, <1>10 DEF Orderly, t, r, after

LEMMA OrderlyTail ==
  ASSUME NEW s \in Seq(Requests), s # <<>>, NEW st, Orderly(s, st)
  PROVE  /\ Orderly(Tail(s), st) /\ Open(Head(s), st) /\ ~Queued(Head(s).from, Tail(s))
         /\ \A c : Queued(c, s) <=> c = Head(s).from \/ Queued(c, Tail(s))
<1> DEFINE t == Tail(s)
<1>1. /\ Len(s) \in Nat /\ Len(s) > 0 /\ Len(t) = Len(s) - 1 /\ Head(s) = s[1]
      /\ \A j \in 1..Len(t) : t[j] = s[j + 1]
  BY HeadTail
<1> HIDE DEF t
<1>2. 1 \in 1..Len(s) /\ \A j \in 1..Len(t) : j + 1 \in 1..Len(s) /\ j + 1 # 1
  BY <1>1
<1>3. \A i, j \in 1..Len(t) : i + 1 = j + 1 => i = j
  OBVIOUS
<1>4. \A j \in 1..Len(s) : j = 1 \/ (j - 1 \in 1..Len(t) /\ (j - 1) + 1 = j)
  BY <1>1
<1>5. Orderly(t, st)
  BY <1>1, <1>2, <1>3, SMTT(30) DEF Orderly
<1>6. Open(Head(s), st)
  BY <1>1, <1>2 DEF Orderly
<1>7. ~Queued(Head(s).from, t)
  BY <1>1, <1>2 DEF Orderly, Queued
<1>8. \A c : Queued(c, s) <=> c = Head(s).from \/ Queued(c, t)
  <2>1. ASSUME NEW c, Queued(c, s) PROVE c = Head(s).from \/ Queued(c, t)
    <3>1. PICK j \in 1..Len(s) : s[j].from = c
      BY <2>1 DEF Queued
    <3>2. CASE j = 1
      BY <1>1, <3>1, <3>2
    <3>3. CASE j # 1
      BY <1>1, <1>4, <3>1, <3>3 DEF Queued
    <3>4. QED
      BY <3>2, <3>3
  <2>2. ASSUME NEW c, c = Head(s).from \/ Queued(c, t) PROVE Queued(c, s)
    BY <1>1, <1>2, <2>2 DEF Queued
  <2>3. QED
    BY <2>1, <2>2
<1>9. QED
  BY <1>5, <1>6, <1>7, <1>8 DEF t

\* Answering a client does not concern the requests of others.
LEMMA OrderlyAnswer ==
  ASSUME NEW s, NEW st, NEW after, NEW c, Orderly(s, st), ~Queued(c, s),
         \A d \in Clients : d # c => after[d] = st[d]
  PROVE  Orderly(s, after)
<1>1. \A j \in 1..Len(s) : s[j] \in Requests /\ s[j].from \in Clients /\ s[j].from # c
  BY DEF Orderly, Open, Queued, Requests
<1>2. QED
  BY <1>1 DEF Orderly, Open

LEMMA AnswerEffect ==
  ASSUME TypeOK, ClientInv, NEW r, Open(r, client), Answer(r)
  PROVE  /\ r.from \in Clients /\ client'[r.from] \in {"in", "gone"}
         /\ \A c \in Clients : c # r.from => client'[c] = client[c]
         /\ \A c \in Clients : answers'[c] = IF client'[c] \in {"out", "connecting"} THEN 0 ELSE 1
<1>1. r.from \in Clients /\ r.op \in Ops
  BY DEF Open, Requests
<1>2. client[r.from] = StateOf(r.op)
  BY DEF Open
<1>3. /\ client'[r.from] = IF r.op = "disconnect" THEN client[r.from] ELSE "in"
      /\ \A c \in Clients : c # r.from => client'[c] = client[c]
  BY <1>1 DEF TypeOK, Answer
<1>4. /\ answers'[r.from] = IF r.op = "connect" THEN answers[r.from] + 1 ELSE answers[r.from]
      /\ \A c \in Clients : c # r.from => answers'[c] = answers[c]
  BY <1>1 DEF TypeOK, Answer
<1>5. \A c \in Clients : answers[c] = IF client[c] \in {"out", "connecting"} THEN 0 ELSE 1
  BY DEF ClientInv
<1>6. client'[r.from] \in {"in", "gone"}
  BY <1>1, <1>2, <1>3 DEF StateOf, Ops
<1>7. answers'[r.from] = 1
  BY <1>1, <1>2, <1>4, <1>5 DEF StateOf, Ops
<1>8. QED
  BY <1>1, <1>3, <1>4, <1>5, <1>6, <1>7

\* A step that leaves clients and their requests alone, and drops a request only when nobody
\* is going to serve it.
LEMMA KeepStep ==
  ASSUME RequestInv, ClientInv, UNCHANGED condrv, Taken' \subseteq Taken,
         Taken' = Taken \/ GivenUp', GivenUp => GivenUp'
  PROVE  RequestInv' /\ ClientInv'
<1>1. requests' = requests /\ client' = client /\ answers' = answers
  BY DEF condrv
<1>2. RequestInv'
  BY <1>1, Zenon DEF RequestInv
<1>3. ASSUME NEW c \in Clients, client'[c] \in {"connecting", "asking"}
      PROVE  Queued(c, requests') \/ (\E r \in Taken' : r.from = c) \/ GivenUp'
  <2>1. Queued(c, requests) \/ (\E r \in Taken : r.from = c) \/ GivenUp
    BY <1>1, <1>3, Zenon DEF ClientInv
  <2>2. QED
    BY <1>1, <2>1, Zenon
<1>4. \A c \in Clients : answers'[c] = IF client'[c] \in {"out", "connecting"} THEN 0 ELSE 1
  BY <1>1, Zenon DEF ClientInv
<1>5. QED
  BY <1>2, <1>3, <1>4, Zenon DEF ClientInv

\* A client sends a request that it has not sent yet.
LEMMA SendStep ==
  ASSUME TypeOK, RequestInv, ClientInv, NEW c \in Clients, NEW op \in Ops, Send(c, op),
         op = "connect" <=> client[c] = "out", client[c] \in {"out", "in"},
         client' = [client EXCEPT ![c] = StateOf(op)], answers' = answers, Taken' = Taken,
         GivenUp => GivenUp'
  PROVE  RequestInv' /\ ClientInv'
<1>1. /\ requests \in Seq(Requests) /\ client \in [Clients -> ClientStates]
      /\ requests' = Append(requests, [from |-> c, op |-> op]) /\ Orderly(requests, client)
  BY DEF TypeOK, Send, RequestInv
<1>2. /\ Orderly(requests', client') /\ Queued(c, requests')
      /\ \A d \in Clients : d # c => (Queued(d, requests') <=> Queued(d, requests))
  BY <1>1, OrderlyAppend, Zenon
<1>3. client'[c] = StateOf(op) /\ \A d \in Clients : d # c => client'[d] = client[d]
  BY <1>1 DEF ClientStates
<1>4. \A r \in Taken : r.from \in Clients /\ r.from # c
  BY DEF RequestInv, Open, Requests, StateOf
<1>5. ASSUME NEW r \in Taken' PROVE Open(r, client') /\ ~Queued(r.from, requests')
  <2>1. r \in Taken /\ Open(r, client) /\ ~Queued(r.from, requests)
    BY <1>5, Zenon DEF RequestInv
  <2>2. r.from \in Clients /\ r.from # c
    BY <1>4, <2>1, Zenon
  <2>3. ~Queued(r.from, requests')
    BY <1>2, <2>1, <2>2, Zenon
  <2>4. Open(r, client')
    BY <1>3, <2>1, <2>2, Zenon DEF Open
  <2>5. QED
    BY <2>3, <2>4
<1>6. ASSUME NEW d \in Clients, client'[d] \in {"connecting", "asking"}
      PROVE  Queued(d, requests') \/ (\E r \in Taken' : r.from = d) \/ GivenUp'
  <2>1. CASE d = c
    BY <1>2, <2>1, Zenon
  <2>2. CASE d # c
    <3>1. client[d] \in {"connecting", "asking"}
      BY <1>3, <1>6, <2>2, Zenon
    <3>2. Queued(d, requests) \/ (\E r \in Taken : r.from = d) \/ GivenUp
      BY <3>1, Zenon DEF ClientInv
    <3>3. QED
      BY <1>2, <2>2, <3>2, Zenon
  <2>3. QED
    BY <2>1, <2>2
<1>7. ASSUME NEW d \in Clients
      PROVE  answers'[d] = IF client'[d] \in {"out", "connecting"} THEN 0 ELSE 1
  <2>1. answers[d] = IF client[d] \in {"out", "connecting"} THEN 0 ELSE 1
    BY DEF ClientInv
  <2>2. CASE d = c
    BY <1>3, <2>1, <2>2 DEF StateOf
  <2>3. CASE d # c
    BY <1>3, <2>1, <2>3
  <2>4. QED
    BY <2>2, <2>3
<1>8. QED
  BY <1>2, <1>5, <1>6, <1>7, Zenon DEF RequestInv, ClientInv

\* The request in defterm's hands is answered.
LEMMA AnswerStep ==
  ASSUME TypeOK, RequestInv, ClientInv, NEW r, Answer(r), requests' = requests,
         Taken = {r}, Taken' = {}, GivenUp => GivenUp'
  PROVE  RequestInv' /\ ClientInv'
<1>1. Open(r, client) /\ ~Queued(r.from, requests) /\ Orderly(requests, client)
  BY DEF RequestInv
<1>2. /\ client'[r.from] \in {"in", "gone"}
      /\ \A c \in Clients : c # r.from => client'[c] = client[c]
      /\ \A c \in Clients : answers'[c] = IF client'[c] \in {"out", "connecting"} THEN 0 ELSE 1
  BY <1>1, AnswerEffect, Zenon
<1>3. \A c : c # r.from => client'[c] = client[c]
  BY <1>1 DEF TypeOK, Answer
<1>4. Orderly(requests, client')
  BY <1>1, <1>3, OrderlyAnswer, Zenon
<1>5. RequestInv'
  BY <1>4 DEF RequestInv
<1>6. ASSUME NEW c \in Clients, client'[c] \in {"connecting", "asking"}
      PROVE  Queued(c, requests') \/ (\E q \in Taken' : q.from = c) \/ GivenUp'
  <2>1. c # r.from
    BY <1>2, <1>6
  <2>2. client[c] \in {"connecting", "asking"}
    BY <1>2, <1>6, <2>1, Zenon
  <2>3. Queued(c, requests) \/ (\E q \in Taken : q.from = c) \/ GivenUp
    BY <2>2, Zenon DEF ClientInv
  <2>4. ~\E q \in Taken : q.from = c
    BY <2>1
  <2>5. QED
    BY <2>3, <2>4, Zenon
<1>7. QED
  BY <1>2, <1>5, <1>6, Zenon DEF ClientInv

\* The oldest request is read by the process that serves the console, which answers it.
LEMMA ServeStep ==
  ASSUME TypeOK, RequestInv, ClientInv, ServeRequest, Taken' = Taken, GivenUp => GivenUp'
  PROVE  RequestInv' /\ ClientInv'
<1> DEFINE r == Head(requests)
<1>1. /\ requests \in Seq(Requests) /\ requests # <<>> /\ requests' = Tail(requests) /\ Answer(r)
      /\ Orderly(requests, client)
  BY DEF TypeOK, ServeRequest, RequestInv
<1>2. /\ Orderly(requests', client) /\ Open(r, client) /\ ~Queued(r.from, requests')
      /\ \A c : Queued(c, requests) <=> c = r.from \/ Queued(c, requests')
  BY <1>1, OrderlyTail, Zenon
<1> HIDE DEF r
<1>3. /\ r.from \in Clients /\ client'[r.from] \in {"in", "gone"}
      /\ \A c \in Clients : c # r.from => client'[c] = client[c]
      /\ \A c \in Clients : answers'[c] = IF client'[c] \in {"out", "connecting"} THEN 0 ELSE 1
  BY <1>1, <1>2, AnswerEffect, Zenon
<1>4. \A c : c # r.from => client'[c] = client[c]
  BY <1>1, <1>3 DEF TypeOK, Answer
<1>5. Orderly(requests', client')
  BY <1>2, <1>4, OrderlyAnswer, Zenon
<1>6. ASSUME NEW q \in Taken' PROVE Open(q, client') /\ ~Queued(q.from, requests')
  <2>1. Open(q, client) /\ ~Queued(q.from, requests)
    BY <1>6, Zenon DEF RequestInv
  <2>2. q.from # r.from /\ ~Queued(q.from, requests')
    BY <1>2, <2>1, Zenon
  <2>3. QED
    BY <1>4, <2>1, <2>2, Zenon DEF Open
<1>7. ASSUME NEW c \in Clients, client'[c] \in {"connecting", "asking"}
      PROVE  Queued(c, requests') \/ (\E q \in Taken' : q.from = c) \/ GivenUp'
  <2>1. c # r.from
    BY <1>3, <1>7
  <2>2. client[c] \in {"connecting", "asking"}
    BY <1>3, <1>7, <2>1, Zenon
  <2>3. Queued(c, requests) \/ (\E q \in Taken : q.from = c) \/ GivenUp
    BY <2>2, Zenon DEF ClientInv
  <2>4. QED
    BY <1>2, <2>1, <2>3, Zenon
<1>8. QED
  BY <1>3, <1>5, <1>6, <1>7, Zenon DEF RequestInv, ClientInv

\* defterm reads the oldest request.
LEMMA ReceiveStep ==
  ASSUME TypeOK, RequestInv, ClientInv, Receive, Taken = {}, Taken' = {Head(requests)},
         GivenUp => GivenUp'
  PROVE  RequestInv' /\ ClientInv'
<1> DEFINE r == Head(requests)
<1>1. /\ requests \in Seq(Requests) /\ requests # <<>> /\ requests' = Tail(requests)
      /\ client' = client /\ answers' = answers /\ Orderly(requests, client)
  BY DEF TypeOK, Receive, RequestInv
<1>2. /\ Orderly(requests', client) /\ Open(r, client) /\ ~Queued(r.from, requests')
      /\ \A c : Queued(c, requests) <=> c = r.from \/ Queued(c, requests')
  BY <1>1, OrderlyTail, Zenon
<1>3. Taken' = {r}
  OBVIOUS
<1> HIDE DEF r
<1>4. RequestInv'
  <2>1. Orderly(requests', client') /\ Open(r, client')
    BY <1>1, <1>2, Zenon
  <2>2. \A q \in Taken' : Open(q, client') /\ ~Queued(q.from, requests')
    BY <1>2, <1>3, <2>1
  <2>3. QED
    BY <2>1, <2>2 DEF RequestInv
<1>5. ASSUME NEW c \in Clients, client'[c] \in {"connecting", "asking"}
      PROVE  Queued(c, requests') \/ (\E q \in Taken' : q.from = c) \/ GivenUp'
  <2>1. Queued(c, requests) \/ GivenUp
    BY <1>1, <1>5 DEF ClientInv
  <2>2. r \in Taken'
    BY <1>3
  <2>3. QED
    BY <1>2, <2>1, <2>2, Zenon
<1>6. \A c \in Clients : answers'[c] = IF client'[c] \in {"out", "connecting"} THEN 0 ELSE 1
  BY <1>1, Zenon DEF ClientInv
<1>7. QED
  BY <1>4, <1>5, <1>6, Zenon DEF ClientInv

\* Who has given the console up does not come back to it.
LEMMA GivenUpStays ==
  TypeOK /\ CallInv /\ ServerInv /\ [HandoffNext]_handoff_vars /\ GivenUp => GivenUp'
<1> SUFFICES ASSUME TypeOK, CallInv, ServerInv, [HandoffNext]_handoff_vars, GivenUp PROVE GivenUp'
  OBVIOUS
<1> USE DEF GivenUp, condrv, settings, loop, servers
<1>1. CASE \/ Connect \/ Ask \/ Leave \/ SubmitPrevious \/ Receive \/ Disconnected \/ WatchEnds
           \/ ServeRequest \/ UNCHANGED handoff_vars
  BY <1>1 DEF Connect, Ask, Leave, SubmitPrevious, Receive, Disconnected, WatchEnds, ServeRequest,
     handoff_vars
<1>2. CASE \/ StartHere \/ ElevatedBlocked \/ NoTerminal \/ Offer \/ dispatch_console
           \/ NextCandidate \/ CallServer \/ CallReturns
  BY <1>2 DEF StartHere, ElevatedBlocked, NoTerminal, Offer, Connecting, dispatch_console,
     NextCandidate, CallServer, CallReturns
<1>3. CASE SessionEnds \/ com_server_entry
  BY <1>3 DEF TypeOK, SessionEnds, com_server_entry
<1>4. CASE EstablishHandoff
  <2>1. PICK k \in Candidates :
          \/ Throws(k) \/ Duplicate(k) \/ create_terminal_pty(k) \/ NoTerminalClsid(k)
          \/ accept_condrv_connection(k) \/ complete_terminal_handoff(k) \/ Reply(k) \/ ReplyLost(k)
    BY <1>4 DEF EstablishHandoff
  <2>2. rpc[k] \in {"called", "opened", "created", "accepted", "replying"}
    BY <2>1 DEF Throws, Duplicate, create_terminal_pty, NoTerminalClsid, accept_condrv_connection,
       complete_terminal_handoff, Reply, ReplyLost
  <2>3. place = "calling"
    BY <2>2 DEF CallInv, Called
  <2>4. QED
    BY <2>3
<1>5. QED
  BY <1>1, <1>2, <1>3, <1>4 DEF HandoffNext

\* The RPC thread works on the request that defterm has in hand.
LEMMA HandoffStep ==
  ASSUME TypeOK, CallInv, ServerInv, RequestInv, ClientInv, EstablishHandoff, GivenUp => GivenUp'
  PROVE  RequestInv' /\ ClientInv'
<1> USE DEF condrv, settings, loop, servers
<1>1. PICK k \in Candidates :
        \/ Throws(k) \/ Duplicate(k) \/ create_terminal_pty(k) \/ NoTerminalClsid(k)
        \/ accept_condrv_connection(k) \/ complete_terminal_handoff(k) \/ Reply(k) \/ ReplyLost(k)
  BY DEF EstablishHandoff
<1>2. rpc[k] \in {"called", "opened", "created", "accepted", "replying"}
  BY <1>1 DEF Throws, Duplicate, create_terminal_pty, NoTerminalClsid, accept_condrv_connection,
     complete_terminal_handoff, Reply, ReplyLost
<1>3. place = "calling" /\ k = candidate /\ completed_previous = "none"
  BY <1>2 DEF TypeOK, CallInv, Called
<1>4. /\ place' = place /\ candidate' = candidate /\ held' = held /\ current' = current
      /\ completed_previous' = completed_previous /\ requests' = requests
  BY <1>1 DEF Throws, Duplicate, create_terminal_pty, NoTerminalClsid, accept_condrv_connection,
     complete_terminal_handoff, Reply, ReplyLost, Goes, Unwind
<1>5. Taken = IF InHand THEN {held[current]} ELSE {}
  BY <1>3 DEF Taken
<1>6. Taken' = IF InHand' THEN {held[current]} ELSE {}
  BY <1>3, <1>4 DEF Taken
<1>7. InHand <=> rpc[k] # "accepted" /\ ~result[k].server
  BY <1>3 DEF InHand
<1>8. InHand' <=> rpc'[k] # "accepted" /\ ~result'[k].server
  BY <1>3, <1>4 DEF InHand
<1>9. CASE accept_condrv_connection(k)
  <2>1. rpc[k] = "created" /\ rpc'[k] = "accepted" /\ Answer(held[current])
    BY <1>9 DEF TypeOK, accept_condrv_connection, Goes
  <2>2. ~result[k].server
    BY <2>1 DEF ServerInv
  <2>3. Taken = {held[current]} /\ Taken' = {}
    BY <1>5, <1>6, <1>7, <1>8, <2>1, <2>2
  <2>4. QED
    BY <1>4, <2>1, <2>3, AnswerStep, Zenon
<1>10. CASE ~accept_condrv_connection(k)
  <2>1. UNCHANGED condrv
    BY <1>1, <1>4, <1>10 DEF Throws, Duplicate, create_terminal_pty, NoTerminalClsid,
       complete_terminal_handoff, Reply, ReplyLost, Goes, Unwind
  <2>2. InHand' <=> InHand
    <3>1. CASE complete_terminal_handoff(k)
      <4>1. rpc[k] = "accepted" /\ result'[k].server
        BY <3>1 DEF TypeOK, complete_terminal_handoff
      <4>2. QED
        BY <1>7, <1>8, <4>1
    <3>2. CASE ~complete_terminal_handoff(k)
      <4>1. result' = result /\ rpc[k] # "accepted" /\ rpc'[k] # "accepted"
        BY <1>1, <1>10, <3>2 DEF TypeOK, Throws, Duplicate, create_terminal_pty, NoTerminalClsid,
           Reply, ReplyLost, Goes, Unwind
      <4>2. QED
        BY <1>7, <1>8, <4>1
    <3>3. QED
      BY <3>1, <3>2
  <2>3. Taken' = Taken
    BY <1>5, <1>6, <2>2
  <2>4. QED
    BY <2>1, <2>3, KeepStep
<1>11. QED
  BY <1>9, <1>10

LEMMA RequestsStep ==
  ASSUME TypeOK, CallInv, ServerInv, RequestInv, ClientInv, [HandoffNext]_handoff_vars
  PROVE  RequestInv' /\ ClientInv'
<1> USE DEF condrv, settings, loop, servers
<1>0. GivenUp => GivenUp'
  BY GivenUpStays
<1>1. ASSUME Connect \/ Ask \/ Leave PROVE RequestInv' /\ ClientInv'
  <2>1. UNCHANGED <<place, loop, candidate, servers>> /\ answers' = answers
    BY <1>1 DEF Connect, Ask, Leave
  <2>2. Taken' = Taken
    BY <2>1, Zenon DEF Taken, InHand, loop, servers
  <2>3. PICK c \in Clients, op \in Ops :
          /\ Send(c, op) /\ client[c] \in {"out", "in"} /\ (op = "connect" <=> client[c] = "out")
          /\ client' = [client EXCEPT ![c] = StateOf(op)]
    <3>1. /\ "connect" \in Ops /\ "ask" \in Ops /\ "disconnect" \in Ops
          /\ StateOf("connect") = "connecting" /\ StateOf("ask") = "asking"
          /\ StateOf("disconnect") = "gone"
      BY DEF Ops, StateOf
    <3>2. CASE Connect
      BY <3>1, <3>2 DEF Connect
    <3>3. CASE Ask
      BY <3>1, <3>3 DEF Ask
    <3>4. CASE Leave
      BY <3>1, <3>4 DEF Leave
    <3>5. QED
      BY <1>1, <3>2, <3>3, <3>4
  <2>4. QED
    BY <1>0, <2>1, <2>2, <2>3, SendStep, Zenon
<1>2. CASE SubmitPrevious
  <2>1. Taken = {held[completed_previous]} /\ Taken' = {}
    BY <1>2 DEF SubmitPrevious, Taken, InHand
  <2>2. Answer(held[completed_previous]) /\ requests' = requests
    BY <1>2 DEF SubmitPrevious
  <2>3. QED
    BY <1>0, <2>1, <2>2, AnswerStep, Zenon
<1>3. CASE Receive
  <2>1. Taken = {} /\ Taken' = {Head(requests)}
    BY <1>3 DEF TypeOK, Receive, Taken, InHand
  <2>2. QED
    BY <1>0, <1>3, <2>1, ReceiveStep, Zenon
<1>4. CASE StartHere \/ ElevatedBlocked \/ NoTerminal
  <2>1. /\ place \in {"handling", "offering"} /\ Answer(held[current]) /\ requests' = requests
        /\ place' \in {"session", "loop"} /\ completed_previous' \in {"none", completed_previous}
    BY <1>4 DEF StartHere, ElevatedBlocked, NoTerminal, Block, AcceptHere, Connecting
  <2>2. completed_previous = "none"
    BY <2>1 DEF CallInv
  <2>3. Taken = {held[current]} /\ Taken' = {}
    BY <2>1, <2>2 DEF Taken, InHand
  <2>4. QED
    BY <1>0, <2>1, <2>3, AnswerStep, Zenon
<1>5. CASE Offer \/ dispatch_console \/ NextCandidate
  <2>1. completed_previous = "none" /\ place \in {"handling", "offering"} /\ UNCHANGED condrv
    BY <1>5 DEF CallInv, Offer, Connecting, dispatch_console, NextCandidate
  <2>2. Taken = {held[current]}
    BY <2>1 DEF Taken, InHand
  <2>3. CASE Offer \/ NextCandidate
    <3>1. /\ completed_previous' = completed_previous /\ place' = "offering"
          /\ held' = held /\ current' = current
      BY <2>3 DEF Offer, NextCandidate
    <3>2. Taken' = Taken
      BY <2>1, <2>2, <3>1 DEF Taken, InHand
    <3>3. QED
      BY <1>0, <2>1, <3>2, KeepStep
  <2>4. CASE dispatch_console
    <3>1. completed_previous' = current /\ place' = "loop" /\ held' = held /\ current # "none"
      BY <2>4 DEF TypeOK, dispatch_console
    <3>2. Taken' = Taken
      BY <2>2, <3>1 DEF Taken, InHand
    <3>3. QED
      BY <1>0, <2>1, <3>2, KeepStep
  <2>5. QED
    BY <1>5, <2>3, <2>4
<1>6. CASE CallServer
  <2>1. /\ place = "offering" /\ place' = "calling" /\ candidate \in Candidates
        /\ candidate' = candidate /\ result' = result /\ rpc'[candidate] = "called"
        /\ held' = held /\ current' = current /\ completed_previous' = completed_previous
    BY <1>6 DEF TypeOK, CallServer
  <2>2. ~result[candidate].server
    BY <2>1 DEF ServerInv
  <2>3. InHand /\ InHand'
    BY <2>1, <2>2 DEF InHand
  <2>4. Taken' = Taken
    BY <2>1, <2>3, Zenon DEF Taken
  <2>5. QED
    BY <1>0, <1>6, <2>4, KeepStep DEF CallServer
<1>7. CASE CallReturns
  <2>1. /\ place = "calling" /\ rpc[candidate] = "returned" /\ UNCHANGED condrv
        /\ held' = held /\ current' = current /\ completed_previous' = completed_previous
        /\ UNCHANGED servers /\ candidate \in Candidates
    BY <1>7 DEF CallReturns, CallInv
  <2>2. CASE hr[candidate] = "failed" /\ place' = "offering"
    <3>1. ~result[candidate].server
      BY <2>1, <2>2 DEF ServerInv
    <3>2. InHand /\ InHand'
      BY <2>1, <2>2, <3>1 DEF InHand
    <3>3. Taken' = Taken
      BY <2>1, <3>2, Zenon DEF Taken
    <3>4. QED
      BY <1>0, <2>1, <3>3, KeepStep
  <2>3. CASE place' = "watching" /\ candidate' = candidate
    <3>1. Taken' \subseteq Taken
      BY <2>1, <2>3 DEF Taken, InHand
    <3>2. CASE result[candidate].server
      <4>1. ~InHand /\ ~InHand'
        BY <2>1, <2>3, <3>2 DEF InHand
      <4>2. Taken' = Taken
        BY <2>1, <4>1, Zenon DEF Taken
      <4>3. QED
        BY <1>0, <2>1, <4>2, KeepStep
    <3>3. CASE ~result[candidate].server
      <4>1. \A k \in Candidates : ~result[k].server
        BY <3>3 DEF ServerInv
      <4>2. GivenUp'
        BY <2>1, <2>3, <4>1 DEF GivenUp
      <4>3. QED
        BY <1>0, <2>1, <3>1, <4>2, KeepStep
    <3>4. QED
      BY <3>2, <3>3
  <2>4. QED
    BY <1>7, <2>2, <2>3 DEF CallReturns
<1>8. CASE EstablishHandoff
  BY <1>0, <1>8, HandoffStep
<1>9. CASE ServeRequest
  <2>1. UNCHANGED <<place, loop, candidate, servers>>
    BY <1>9 DEF ServeRequest
  <2>2. Taken' = Taken
    BY <2>1, Zenon DEF Taken, InHand, loop, servers
  <2>3. QED
    BY <1>0, <1>9, <2>2, ServeStep, Zenon
<1>10. CASE Disconnected \/ WatchEnds \/ SessionEnds \/ com_server_entry \/ UNCHANGED handoff_vars
  <2>1. /\ UNCHANGED condrv /\ held' = held /\ current' = current /\ candidate' = candidate
        /\ completed_previous' = completed_previous /\ rpc' = rpc /\ result' = result
    BY <1>10 DEF Disconnected, WatchEnds, SessionEnds, com_server_entry, handoff_vars
  <2>2. place' = place \/ (place \in {"loop", "watching", "session"} /\ place' = "ended")
    BY <1>10 DEF Disconnected, WatchEnds, SessionEnds, com_server_entry, handoff_vars
  <2>3. InHand' <=> InHand
    BY <2>1, <2>2 DEF InHand
  <2>4. Taken' = Taken
    BY <2>1, <2>3, Zenon DEF Taken
  <2>5. QED
    BY <1>0, <2>1, <2>4, KeepStep
<1>11. QED
  BY <1>1, <1>2, <1>3, <1>4, <1>5, <1>6, <1>7, <1>8, <1>9, <1>10 DEF HandoffNext

LEMMA RequestsInit == TypeOK /\ HandoffInit => RequestInv /\ ClientInv
<1> SUFFICES ASSUME TypeOK, HandoffInit PROVE RequestInv /\ ClientInv
  OBVIOUS
<1>1. PICK first \in Clients :
        /\ requests = <<[from |-> first, op |-> "connect"]>>
        /\ client = [c \in Clients |-> IF c = first THEN "connecting" ELSE "out"]
        /\ answers = [c \in Clients |-> 0] /\ place = "loop" /\ completed_previous = "none"
  BY DEF HandoffInit, StartHandoff
<1>2. Taken = {}
  BY <1>1 DEF Taken, InHand
<1>3. /\ Len(requests) = 1 /\ requests[1].from = first /\ requests[1].op = "connect"
      /\ requests[1] \in Requests /\ 1..1 = {1}
  BY <1>1 DEF Requests, Ops
<1>4. Orderly(requests, client)
  BY <1>1, <1>3 DEF Orderly, Open, StateOf
<1>5. Queued(first, requests)
  BY <1>3 DEF Queued
<1>6. \A c \in Clients :
        /\ answers[c] = 0 /\ client[c] \in {"out", "connecting"}
        /\ client[c] \in {"connecting", "asking"} => c = first
  BY <1>1
<1>7. QED
  BY <1>2, <1>4, <1>5, <1>6 DEF RequestInv, ClientInv

\* EstablishHandoff, try_terminal_handoff and run_initial_connect_loop: for any number of
\* candidates, whichever fail and wherever, one process at most reads the console's requests,
\* with the client's handles; every CONNECT is completed at most once and every other request
\* waits for its answer, or the console was given up.
THEOREM ConsoleHasOneServer == HandoffAssumption => (HandoffSpec => []OneServer)
<1> SUFFICES ASSUME HandoffAssumption PROVE HandoffSpec => []OneServer
  OBVIOUS
<1> DEFINE Inv == TypeOK /\ CallInv /\ ServerInv /\ RequestInv /\ ClientInv
<1>1. HandoffInit => Inv
  BY TypeInit, ControlInit, RequestsInit
<1>2. Inv /\ [HandoffNext]_handoff_vars => Inv'
  BY TypeStep, CallStep, ServerStep, RequestsStep
<1>3. Inv => OneServer
  <2>1. SUFFICES ASSUME Inv PROVE OneServer
    OBVIOUS
  <2>2. \A k \in Servers : /\ result[k].server /\ result[k].handles /\ k = candidate
                           /\ place \in {"calling", "watching", "ended"}
    BY <2>1 DEF Servers, ServerInv
  <2>3. Cardinality(Readers) <= 1
    <3>1. Readers \subseteq {candidate} \/ Readers \subseteq {0}
      BY <2>2 DEF Readers
    <3>2. ASSUME NEW x, Readers \subseteq {x} PROVE Cardinality(Readers) <= 1
      <4>1. Readers = {} \/ Readers = {x}
        BY <3>2
      <4>2. Cardinality({}) = 0 /\ Cardinality({x}) = 1
        BY FS_EmptySet, FS_Singleton
      <4>3. QED
        BY <4>1, <4>2
    <3>3. QED
      BY <3>1, <3>2
  <2>4. ASSUME NEW c \in Clients PROVE answers[c] <= 1
    BY <2>1, <2>4 DEF ClientInv
  <2>5. ASSUME NEW c \in Clients, client[c] \in {"connecting", "asking"} PROVE Unanswered(c)
    <3>1. CASE Queued(c, requests)
      BY <2>1, <3>1 DEF TypeOK, Queued, Unanswered
    <3>2. CASE \E r \in Taken : r.from = c
      BY <3>2 DEF Taken, InHand, Unanswered
    <3>3. CASE GivenUp
      BY <2>2, <3>3 DEF GivenUp, Servers, Unanswered
    <3>4. QED
      BY <2>1, <2>5, <3>1, <3>2, <3>3 DEF ClientInv
  <2>6. QED
    BY <2>2, <2>3, <2>4, <2>5 DEF OneServer
<1>4. QED
  BY <1>1, <1>2, <1>3, PTL DEF HandoffSpec

=============================================================================
