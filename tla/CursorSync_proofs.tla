------------------------- MODULE CursorSync_proofs -------------------------
(***************************************************************************)
(* The safety invariants of CursorSync, for any number of writes, resizes  *)
(* and queries under way.                                                  *)
(***************************************************************************)
EXTENDS CursorSync, SequenceTheorems, TLAPS

Outputs == [op : {"query", "text", "half", "rest"}] \cup [op : {"moveto"}, to : Int]

TypeOK ==
  /\ model \in Int /\ asked_at \in Int /\ actual \in Int /\ outstanding \in Nat
  /\ to_terminal \in Seq(Outputs) /\ replies \in Seq(Int)

LEMMA OutputTypes ==
  /\ [op |-> "query"] \in Outputs /\ [op |-> "text"] \in Outputs /\ [op |-> "half"] \in Outputs
  /\ [op |-> "rest"] \in Outputs /\ \A i \in Int : [op |-> "moveto", to |-> i] \in Outputs
  /\ \A o \in Outputs : o.op = "moveto" => o.to \in Int
BY DEF Outputs

LEMMA HeadTail ==
  ASSUME NEW S, NEW s \in Seq(S), s # <<>>
  PROVE  /\ Head(s) \in S /\ Tail(s) \in Seq(S) /\ Len(s) \in Nat /\ Len(s) > 0
         /\ Len(Tail(s)) = Len(s) - 1 /\ Head(s) = s[1]
         /\ \A k \in 1..Len(Tail(s)) : Tail(s)[k] = s[k + 1]
OBVIOUS

LEMMA FunctionIsSeq ==
  ASSUME NEW S, NEW m \in Nat, NEW q \in [1..m -> S]
  PROVE  q \in Seq(S) /\ Len(q) = m
<1>1. q \in Seq(S)
  BY SeqDef
<1>2. DOMAIN q = 1..m /\ DOMAIN q = 1..Len(q) /\ Len(q) \in Nat
  BY <1>1, LenProperties
<1>3. QED
  BY <1>1, <1>2

LEMMA AppendOne ==
  ASSUME NEW S, NEW s \in Seq(S), NEW x \in S
  PROVE  /\ Append(s, x) \in Seq(S) /\ Len(Append(s, x)) = Len(s) + 1 /\ Len(s) \in Nat
         /\ Append(s, x)[Len(s) + 1] = x
         /\ \A k \in 1..Len(s) : Append(s, x)[k] = s[k]
OBVIOUS

\* What the terminal does with one output.
LEMMA ReadsOutput ==
  ASSUME TerminalReads
  PROVE  LET o == Head(to_terminal) IN
         /\ replies' = IF o.op = "query" THEN Append(replies, actual) ELSE replies
         /\ actual' = IF o.op = "text" THEN actual + 1
                      ELSE IF o.op = "moveto" THEN o.to ELSE actual
BY Zenon DEF TerminalReads

LEMMA WriteTypes ==
  ASSUME TypeOK, NEW item \in Outputs, NEW position \in Int, NEW middle,
         Write(item, position, middle)
  PROVE  TypeOK'
<1>1. Append(to_terminal, item) \in Seq(Outputs)
  BY AppendOne DEF TypeOK
<1>2. Append(Append(to_terminal, item), [op |-> "query"]) \in Seq(Outputs)
  BY <1>1, AppendOne, OutputTypes
<1>3. to_terminal' \in Seq(Outputs)
  BY <1>1, <1>2, Zenon DEF Write, send_wanted_cursor_sync, Ask
<1>4. model' \in Int /\ asked_at' \in Int /\ outstanding' \in Nat
  BY SMT DEF TypeOK, Write, send_wanted_cursor_sync, Ask
<1>5. actual' = actual /\ replies' = replies
  BY DEF WriteText, WriteAt, Write
<1>6. QED
  BY <1>3, <1>4, <1>5 DEF TypeOK

LEMMA TypeInit == SyncInit => TypeOK
<1> SUFFICES ASSUME SyncInit PROVE TypeOK
  OBVIOUS
<1>1. <<>> \in Seq(Outputs) /\ <<[op |-> "query"]>> \in Seq(Outputs) /\ <<>> \in Seq(Int)
  BY OutputTypes
<1>2. to_terminal \in Seq(Outputs)
  BY <1>1, Zenon DEF SyncInit
<1>3. model \in Int /\ actual \in Int /\ asked_at \in Int /\ outstanding \in Nat
      /\ replies \in Seq(Int)
  BY <1>1, SMT DEF SyncInit
<1>4. QED
  BY <1>2, <1>3 DEF TypeOK

LEMMA TypeStep == TypeOK /\ [SyncNext]_sync_vars => TypeOK'
<1> SUFFICES ASSUME TypeOK, [SyncNext]_sync_vars PROVE TypeOK'
  OBVIOUS
<1>1. CASE poll_signal
  <2>1. Append(to_terminal, [op |-> "query"]) \in Seq(Outputs)
    BY AppendOne, OutputTypes DEF TypeOK
  <2>2. to_terminal' \in Seq(Outputs)
    BY <1>1, <2>1, Zenon DEF TypeOK, poll_signal, send_wanted_cursor_sync, Ask
  <2>3. model' \in Int /\ asked_at' \in Int /\ outstanding' \in Nat
    BY <1>1, SMT DEF TypeOK, poll_signal, send_wanted_cursor_sync, Ask
  <2>4. actual' = actual /\ replies' = replies
    BY <1>1 DEF poll_signal
  <2>5. QED
    BY <2>2, <2>3, <2>4 DEF TypeOK
<1>2. CASE take_resize_sync_replies
  <2>1. Head(replies) \in Int /\ Tail(replies) \in Seq(Int)
    BY <1>2, HeadTail DEF TypeOK, take_resize_sync_replies
  <2>2. QED
    BY <1>2, <2>1 DEF TypeOK, take_resize_sync_replies, finish_resize_sync
<1>3. CASE process_input_cpr_response
  <2>1. Head(replies) \in Int /\ Tail(replies) \in Seq(Int)
    BY <1>3, HeadTail DEF TypeOK, process_input_cpr_response
  <2>2. QED
    BY <1>3, <2>1 DEF TypeOK, process_input_cpr_response, finish_resize_sync
<1>4. CASE TerminalReads
  <2>1. Head(to_terminal) \in Outputs /\ Tail(to_terminal) \in Seq(Outputs)
    BY <1>4, HeadTail DEF TypeOK, TerminalReads
  <2>2. Append(replies, actual) \in Seq(Int)
    BY DEF TypeOK
  <2>3. replies' \in Seq(Int)
    BY <1>4, <2>2, ReadsOutput DEF TypeOK
  <2>4. Head(to_terminal).op = "moveto" => Head(to_terminal).to \in Int
    BY <2>1, OutputTypes
  <2>5. actual' \in Int
    BY <1>4, <2>4, ReadsOutput DEF TypeOK
  <2>6. QED
    BY <1>4, <2>1, <2>3, <2>5 DEF TypeOK, TerminalReads
<1>5. CASE TerminalResizes \/ TerminalClears
  BY <1>5 DEF TypeOK, TerminalResizes, TerminalClears, Deltas
<1>6. CASE WriteText
  <2>1. model + 1 \in Int /\ model \in Int
    BY DEF TypeOK
  <2>2. QED
    BY <1>6, <2>1, OutputTypes, WriteTypes, Zenon DEF WriteText
<1>7. CASE WriteAt
  <2>1. model \in Int
    BY DEF TypeOK
  <2>2. QED
    BY <1>7, <2>1, OutputTypes, WriteTypes, Zenon DEF WriteAt
<1>8. CASE UNCHANGED sync_vars
  BY <1>8 DEF TypeOK, sync_vars
<1>9. QED
  BY <1>1, <1>2, <1>3, <1>4, <1>5, <1>6, <1>7, <1>8 DEF SyncNext, Bridge

-----------------------------------------------------------------------------
(* Queries between sequences *)

\* Behind the first half of a sequence comes its rest, or the bridge knows that it is to come.
HalvesInv ==
  \A k \in 1..Len(to_terminal) :
    to_terminal[k].op = "half" =>
      IF k < Len(to_terminal) THEN to_terminal[k + 1].op = "rest" ELSE mid

\* The same of any outputs s, with a sequence open at their end or not.
Halves(s, open) ==
  \A k \in 1..Len(s) :
    s[k].op = "half" => IF k < Len(s) THEN s[k + 1].op = "rest" ELSE open

LEMMA HalvesTail ==
  ASSUME NEW s \in Seq(Outputs), s # <<>>, NEW open, Halves(s, open)
  PROVE  Halves(Tail(s), open)
<1>1. Len(Tail(s)) = Len(s) - 1 /\ Len(s) \in Nat
  BY HeadTail
<1>2. ASSUME NEW k \in 1..Len(Tail(s)), Tail(s)[k].op = "half"
      PROVE  IF k < Len(Tail(s)) THEN Tail(s)[k + 1].op = "rest" ELSE open
  <2>1. k + 1 \in 1..Len(s) /\ (k < Len(Tail(s)) <=> k + 1 < Len(s))
    BY <1>1
  <2>2. Tail(s)[k] = s[k + 1] /\ (k < Len(Tail(s)) => Tail(s)[k + 1] = s[(k + 1) + 1])
    BY <1>1, HeadTail
  <2>3. IF k + 1 < Len(s) THEN s[(k + 1) + 1].op = "rest" ELSE open
    BY <1>2, <2>1, <2>2, Zenon DEF Halves
  <2>4. QED
    BY <2>1, <2>2, <2>3, Zenon
<1>3. QED
  BY <1>2 DEF Halves

\* Inside a sequence only its rest is written; between sequences anything.
LEMMA HalvesAppend ==
  ASSUME NEW s \in Seq(Outputs), NEW o \in Outputs, NEW open, NEW after, Halves(s, open),
         open => o.op = "rest", o.op = "half" => after
  PROVE  Halves(Append(s, o), after)
<1> DEFINE t == Append(s, o)
<1>1. /\ Len(t) = Len(s) + 1 /\ Len(s) \in Nat /\ t[Len(s) + 1] = o
      /\ \A k \in 1..Len(s) : t[k] = s[k]
  BY AppendOne
<1> HIDE DEF t
<1>2. ASSUME NEW k \in 1..Len(t), t[k].op = "half"
      PROVE  IF k < Len(t) THEN t[k + 1].op = "rest" ELSE after
  <2>1. CASE k = Len(t)
    <3>1. t[k] = o /\ ~(k < Len(t))
      BY <1>1, <2>1
    <3>2. QED
      BY <1>2, <3>1, Zenon
  <2>2. CASE k = Len(s)
    <3>1. k \in 1..Len(s) /\ k < Len(t) /\ ~(k < Len(s)) /\ t[k + 1] = o /\ s[k].op = "half"
      BY <1>1, <1>2, <2>2
    <3>2. open
      BY <3>1, Zenon DEF Halves
    <3>3. QED
      BY <3>1, <3>2, Zenon
  <2>3. CASE k < Len(s)
    <3>1. /\ k \in 1..Len(s) /\ k < Len(t) /\ k + 1 \in 1..Len(s) /\ s[k].op = "half"
          /\ t[k + 1] = s[k + 1]
      BY <1>1, <1>2, <2>3
    <3>2. QED
      BY <2>3, <3>1, Zenon DEF Halves
  <2>4. QED
    BY <1>1, <2>1, <2>2, <2>3
<1>3. Halves(t, after)
  BY <1>2, Zenon DEF Halves
<1>4. QED
  BY <1>3 DEF t

\* A write, and the query that may go with it.
LEMMA HalvesWrite ==
  ASSUME TypeOK, NEW item \in Outputs, NEW position, NEW middle,
         Write(item, position, middle), HalvesInv,
         mid => item.op = "rest", item.op = "half" => middle
  PROVE  HalvesInv'
<1>1. Halves(to_terminal, mid) /\ to_terminal \in Seq(Outputs)
  BY DEF HalvesInv, Halves, TypeOK
<1>2. Halves(Append(to_terminal, item), middle) /\ Append(to_terminal, item) \in Seq(Outputs)
  BY <1>1, HalvesAppend, AppendOne
<1>3. ~middle => Halves(Append(Append(to_terminal, item), [op |-> "query"]), middle)
  <2>1. SUFFICES ASSUME ~middle
                 PROVE  Halves(Append(Append(to_terminal, item), [op |-> "query"]), middle)
    OBVIOUS
  <2>2. /\ [op |-> "query"] \in Outputs
        /\ [op |-> "query"].op = "half" => middle
    BY OutputTypes
  <2>3. QED
    BY <1>2, <2>1, <2>2, HalvesAppend, Zenon
<1>4. mid' = middle
  BY DEF Write
<1>5. Halves(to_terminal', middle)
  BY <1>2, <1>3, Zenon DEF Write, send_wanted_cursor_sync, Ask
<1>6. QED
  BY <1>4, <1>5, Zenon DEF HalvesInv, Halves

LEMMA HalvesStep == TypeOK /\ HalvesInv /\ [SyncNext]_sync_vars => HalvesInv'
<1> SUFFICES ASSUME TypeOK, HalvesInv, [SyncNext]_sync_vars PROVE HalvesInv'
  OBVIOUS
<1>1. to_terminal \in Seq(Outputs) /\ Halves(to_terminal, mid)
  BY DEF TypeOK, HalvesInv, Halves
<1>2. CASE poll_signal
  <2>1. mid' = mid
    BY <1>2 DEF poll_signal
  <2>2. \/ to_terminal' = to_terminal
        \/ ~mid /\ to_terminal' = Append(to_terminal, [op |-> "query"])
    BY <1>2, Zenon DEF poll_signal, send_wanted_cursor_sync, Ask
  <2>3. ~mid => Halves(Append(to_terminal, [op |-> "query"]), mid)
    <3>1. SUFFICES ASSUME ~mid PROVE Halves(Append(to_terminal, [op |-> "query"]), mid)
      OBVIOUS
    <3>2. [op |-> "query"] \in Outputs /\ ([op |-> "query"].op = "half" => mid)
      BY OutputTypes
    <3>3. QED
      BY <1>1, <3>1, <3>2, HalvesAppend, Zenon
  <2>4. Halves(to_terminal', mid')
    BY <1>1, <2>1, <2>2, <2>3, Zenon
  <2>5. QED
    BY <2>4, Zenon DEF HalvesInv, Halves
<1>3. CASE TerminalReads
  <2>1. Halves(to_terminal', mid')
    BY <1>1, <1>3, HalvesTail, Zenon DEF TerminalReads
  <2>2. QED
    BY <2>1, Zenon DEF HalvesInv, Halves
<1>4. CASE WriteText
  <2>1. /\ [op |-> "text"].op # "half" /\ [op |-> "rest"].op = "rest"
        /\ [op |-> "rest"].op # "half"
    OBVIOUS
  <2>2. QED
    BY <1>4, <2>1, HalvesWrite, OutputTypes, Zenon DEF WriteText
<1>5. CASE WriteAt
  <2>1. [op |-> "moveto", to |-> model] \in Outputs /\ [op |-> "moveto", to |-> model].op # "half"
    BY OutputTypes DEF TypeOK
  <2>2. QED
    BY <1>5, <2>1, HalvesWrite, Zenon DEF WriteAt
<1>6. CASE take_resize_sync_replies \/ process_input_cpr_response \/ TerminalResizes
             \/ TerminalClears \/ UNCHANGED sync_vars
  <2>1. to_terminal' = to_terminal /\ mid' = mid
    BY <1>6 DEF take_resize_sync_replies, process_input_cpr_response, TerminalResizes,
       TerminalClears, sync_vars
  <2>2. QED
    BY <2>1, Zenon DEF HalvesInv
<1>7. QED
  BY <1>2, <1>3, <1>4, <1>5, <1>6 DEF SyncNext, Bridge

\* want_cursor_sync and set_raw_output_mid_sequence: whatever is written, asked and resized,
\* the terminal never gets a query inside a client's escape sequence.
THEOREM NoQueryInsideASequence == SyncSpec => []QueryBetweenSequences
<1>1. SyncInit => TypeOK /\ HalvesInv
  <2>1. SyncInit => HalvesInv
    <3>1. SUFFICES ASSUME SyncInit PROVE HalvesInv
      OBVIOUS
    <3>2. CASE to_terminal = <<>>
      BY <3>2 DEF HalvesInv
    <3>3. CASE to_terminal = <<[op |-> "query"]>>
      BY <3>3 DEF HalvesInv
    <3>4. QED
      BY <3>1, <3>2, <3>3, Zenon DEF SyncInit
  <2>2. QED
    BY <2>1, TypeInit
<1>2. TypeOK /\ HalvesInv /\ [SyncNext]_sync_vars => (TypeOK /\ HalvesInv)'
  BY TypeStep, HalvesStep
<1>3. TypeOK /\ HalvesInv => QueryBetweenSequences
  <2>1. SUFFICES ASSUME TypeOK, HalvesInv PROVE QueryBetweenSequences
    OBVIOUS
  <2>2. Len(to_terminal) \in Nat
    BY DEF TypeOK
  <2>3. \A k \in 1..(Len(to_terminal) - 1) : k \in 1..Len(to_terminal) /\ k < Len(to_terminal)
    BY <2>2
  <2>4. QED
    BY <2>1, <2>3, Zenon DEF HalvesInv, QueryBetweenSequences
<1>4. QED
  BY <1>1, <1>2, <1>3, PTL DEF SyncSpec

-----------------------------------------------------------------------------
(* What the terminal is going to do *)

\* The terminal's cursor after an output that finds it at position a.
Moved(o, a) == IF o.op = "text" THEN a + 1 ELSE IF o.op = "moveto" THEN o.to ELSE a

\* The positions f of the terminal's cursor, from a on, while it reads the outputs s.
Course(s, a, f) ==
  /\ f \in [0..Len(s) -> Int] /\ f[0] = a
  /\ \A k \in 1..Len(s) : f[k] = Moved(s[k], f[k - 1])

\* The queries in s are at the places p, in this order.
QueriesAt(s, p) ==
  /\ p \in Seq(1..Len(s))
  /\ \A i, j \in 1..Len(p) : i < j => p[i] < p[j]
  /\ \A k \in 1..Len(s) : s[k].op = "query" <=> \E i \in 1..Len(p) : p[i] = k

LEMMA MovedTypes == \A o \in Outputs, a \in Int : Moved(o, a) \in Int
<1> SUFFICES ASSUME NEW o \in Outputs, NEW a \in Int PROVE Moved(o, a) \in Int
  OBVIOUS
<1>1. o.op = "moveto" => o.to \in Int
  BY OutputTypes
<1>2. QED
  BY <1>1 DEF Moved

LEMMA CourseTail ==
  ASSUME NEW s \in Seq(Outputs), s # <<>>, NEW a \in Int, NEW f, Course(s, a, f)
  PROVE  \E g : /\ Course(Tail(s), Moved(Head(s), a), g)
                /\ \A k \in 0..Len(Tail(s)) : g[k] = f[k + 1]
<1> DEFINE n == Len(Tail(s))
           g == [k \in 0..n |-> f[k + 1]]
<1>1. /\ Len(s) \in Nat /\ Len(s) > 0 /\ n = Len(s) - 1 /\ n \in Nat /\ Head(s) = s[1]
      /\ \A k \in 1..n : Tail(s)[k] = s[k + 1]
  BY HeadTail
<1> HIDE DEF n
<1>2. /\ f \in [0..Len(s) -> Int] /\ f[0] = a
      /\ \A k \in 1..Len(s) : f[k] = Moved(s[k], f[k - 1])
  BY DEF Course
<1>3. g \in [0..n -> Int]
  BY <1>1, <1>2
<1>4. g[0] = Moved(Head(s), a)
  <2>1. 1 \in 1..Len(s) /\ 0 \in 0..n /\ 1 - 1 = 0 /\ 0 + 1 = 1
    BY <1>1
  <2>2. QED
    BY <1>1, <1>2, <2>1
<1>5. ASSUME NEW k \in 1..n PROVE g[k] = Moved(Tail(s)[k], g[k - 1])
  <2>1. /\ k + 1 \in 1..Len(s) /\ k \in 0..n /\ k - 1 \in 0..n /\ (k + 1) - 1 = k
        /\ (k - 1) + 1 = k
    BY <1>1
  <2>2. f[k + 1] = Moved(s[k + 1], f[k])
    BY <1>2, <2>1
  <2>3. g[k] = f[k + 1] /\ g[k - 1] = f[k]
    BY <2>1
  <2>4. QED
    BY <1>1, <2>2, <2>3, Zenon
<1>6. Course(Tail(s), Moved(Head(s), a), g)
  BY <1>3, <1>4, <1>5, Zenon DEF Course, n
<1>7. \A k \in 0..n : g[k] = f[k + 1]
  OBVIOUS
<1> HIDE DEF g
<1>8. QED
  BY <1>6, <1>7, Zenon DEF n

LEMMA CourseAppend ==
  ASSUME NEW s \in Seq(Outputs), NEW o \in Outputs, NEW a \in Int, NEW f, Course(s, a, f)
  PROVE  \E g : /\ Course(Append(s, o), a, g)
                /\ \A k \in 0..Len(s) : g[k] = f[k]
                /\ g[Len(s) + 1] = Moved(o, f[Len(s)])
<1> DEFINE n == Len(s)
           t == Append(s, o)
           g == [k \in 0..(n + 1) |-> IF k = n + 1 THEN Moved(o, f[n]) ELSE f[k]]
<1>1. n \in Nat /\ Len(t) = n + 1 /\ t[n + 1] = o /\ \A k \in 1..n : t[k] = s[k]
  BY AppendOne
<1>2. /\ f \in [0..n -> Int] /\ f[0] = a
      /\ \A k \in 1..n : f[k] = Moved(s[k], f[k - 1])
  BY DEF Course
<1> HIDE DEF n, t
<1>3. f[n] \in Int /\ Moved(o, f[n]) \in Int
  BY <1>1, <1>2, MovedTypes
<1>4. g \in [0..(n + 1) -> Int]
  BY <1>1, <1>2, <1>3
<1>5. /\ g[n + 1] = Moved(o, f[n]) /\ \A k \in 0..n : g[k] = f[k]
  BY <1>1
<1> HIDE DEF g
<1>6. ASSUME NEW k \in 1..(n + 1) PROVE g[k] = Moved(t[k], g[k - 1])
  <2>1. CASE k = n + 1
    <3>1. k - 1 = n /\ n \in 0..n
      BY <1>1, <2>1
    <3>2. QED
      BY <1>1, <1>5, <2>1, <3>1
  <2>2. CASE k # n + 1
    <3>1. k \in 1..n /\ k \in 0..n /\ k - 1 \in 0..n
      BY <1>1, <2>2
    <3>2. QED
      BY <1>1, <1>2, <1>5, <3>1
  <2>3. QED
    BY <2>1, <2>2
<1>7. g[0] = a
  BY <1>1, <1>2, <1>5
<1>8. Course(t, a, g)
  BY <1>1, <1>4, <1>6, <1>7, Zenon DEF Course
<1>9. QED
  BY <1>5, <1>8, Zenon DEF n, t

\* Wherever the cursor starts there is a course: it is shifted up to the next position that
\* is set outright.
LEMMA CourseShift ==
  ASSUME NEW s \in Seq(Outputs), NEW a \in Int, NEW b \in Int, NEW f, Course(s, a, f)
  PROVE  \E g : Course(s, b, g)
<1> DEFINE n == Len(s)
           Set(k) == \E j \in 1..k : s[j].op = "moveto"
           g == [k \in 0..n |-> IF Set(k) THEN f[k] ELSE f[k] + (b - a)]
<1>1. n \in Nat
  BY HeadTail
<1>2. /\ f \in [0..n -> Int] /\ f[0] = a
      /\ \A k \in 1..n : f[k] = Moved(s[k], f[k - 1])
  BY DEF Course
<1>3. /\ ~Set(0)
      /\ \A k \in 1..n : Set(k) <=> Set(k - 1) \/ s[k].op = "moveto"
  BY <1>1
<1> HIDE DEF n, Set
<1>4. g \in [0..n -> Int] /\ g[0] = b
  BY <1>1, <1>2, <1>3
<1>5. ASSUME NEW k \in 1..n PROVE g[k] = Moved(s[k], g[k - 1])
  <2>1. k \in 0..n /\ k - 1 \in 0..n /\ f[k] \in Int /\ f[k - 1] \in Int
    BY <1>1, <1>2
  <2>2. /\ g[k] = IF Set(k) THEN f[k] ELSE f[k] + (b - a)
        /\ g[k - 1] = IF Set(k - 1) THEN f[k - 1] ELSE f[k - 1] + (b - a)
        /\ Set(k) <=> Set(k - 1) \/ s[k].op = "moveto"
        /\ f[k] = Moved(s[k], f[k - 1])
    BY <1>2, <1>3, <2>1
  <2>3. QED
    BY <2>1, <2>2 DEF Moved
<1>6. Course(s, b, g)
  BY <1>4, <1>5, Zenon DEF Course, n
<1>7. QED
  BY <1>6, Zenon

LEMMA QueriesTail ==
  ASSUME NEW s \in Seq(Outputs), s # <<>>, NEW p, QueriesAt(s, p)
  PROVE  LET e == IF Head(s).op = "query" THEN 1 ELSE 0 IN
         \E q : /\ QueriesAt(Tail(s), q) /\ Len(q) = Len(p) - e
                /\ \A i \in 1..Len(q) : q[i] = p[i + e] - 1
<1> DEFINE n == Len(Tail(s))
           e == IF Head(s).op = "query" THEN 1 ELSE 0
           m == Len(p) - e
           q == [i \in 1..m |-> p[i + e] - 1]
<1>1. /\ Len(s) \in Nat /\ Len(s) > 0 /\ n = Len(s) - 1 /\ n \in Nat /\ Head(s) = s[1]
      /\ \A k \in 1..n : Tail(s)[k] = s[k + 1]
  BY HeadTail
<1>2. /\ p \in Seq(1..Len(s)) /\ Len(p) \in Nat /\ \A i \in 1..Len(p) : p[i] \in 1..Len(s)
      /\ \A i, j \in 1..Len(p) : i < j => p[i] < p[j]
      /\ \A k \in 1..Len(s) : s[k].op = "query" <=> \E i \in 1..Len(p) : p[i] = k
  BY DEF QueriesAt
<1> HIDE DEF n
<1>3. Head(s).op = "query" => Len(p) > 0 /\ p[1] = 1
  <2>1. SUFFICES ASSUME Head(s).op = "query" PROVE Len(p) > 0 /\ p[1] = 1
    OBVIOUS
  <2>2. 1 \in 1..Len(s) /\ s[1].op = "query"
    BY <1>1, <2>1
  <2>3. PICK i \in 1..Len(p) : p[i] = 1
    BY <1>2, <2>2
  <2>4. 1 \in 1..Len(p) /\ p[1] \in 1..Len(s) /\ (i # 1 => p[1] < p[i])
    BY <1>2, <2>3
  <2>5. QED
    BY <2>3, <2>4
<1>4. e \in {0, 1} /\ m \in Nat /\ m = Len(p) - e
  BY <1>2, <1>3
<1>5. \A i \in 1..m : i + e \in 1..Len(p)
  BY <1>2, <1>4
<1>6. \A i \in 1..m : p[i + e] > 1
  <2>1. CASE Head(s).op = "query"
    <3>1. ASSUME NEW i \in 1..m PROVE p[i + 1] > 1
      <4>1. i + 1 \in 1..Len(p) /\ 1 \in 1..Len(p) /\ 1 < i + 1
        BY <1>2, <1>4, <2>1
      <4>2. QED
        BY <1>2, <1>3, <2>1, <4>1
    <3>2. QED
      BY <2>1, <3>1
  <2>2. CASE Head(s).op # "query"
    <3>1. ASSUME NEW i \in 1..m PROVE p[i] > 1
      <4>1. i \in 1..Len(p) /\ p[i] \in 1..Len(s) /\ 1 \in 1..Len(s)
        BY <1>1, <1>2, <1>4, <2>2
      <4>2. p[i] # 1
        BY <1>1, <1>2, <2>2, <4>1
      <4>3. QED
        BY <4>1, <4>2
    <3>2. e = 0 /\ m \in Nat
      BY <1>4, <2>2
    <3> HIDE DEF e, m
    <3>3. \A i \in 1..m : i + e = i
      BY <3>2
    <3>4. QED
      BY <3>1, <3>3
  <2>3. QED
    BY <2>1, <2>2
<1> HIDE DEF e, m
<1>7. q \in Seq(1..n) /\ Len(q) = m
  <2>1. \A i \in 1..m : p[i + e] - 1 \in 1..n
    BY <1>1, <1>2, <1>5, <1>6
  <2>2. q \in [1..m -> 1..n] /\ m \in Nat
    BY <1>4, <2>1
  <2> HIDE DEF q
  <2>3. QED
    BY <2>2, FunctionIsSeq, Zenon
<1>8. \A i \in 1..m : q[i] = p[i + e] - 1
  OBVIOUS
<1> HIDE DEF q
<1>9. ASSUME NEW i \in 1..m, NEW j \in 1..m, i < j PROVE q[i] < q[j]
  <2>1. i + e \in 1..Len(p) /\ j + e \in 1..Len(p) /\ i + e < j + e
    BY <1>4, <1>5, <1>9
  <2>2. p[i + e] < p[j + e] /\ p[i + e] \in 1..Len(s) /\ p[j + e] \in 1..Len(s)
    BY <1>2, <2>1
  <2>3. QED
    BY <1>8, <2>2
<1>10. ASSUME NEW k \in 1..n
       PROVE  Tail(s)[k].op = "query" <=> \E i \in 1..m : q[i] = k
  <2>1. k + 1 \in 1..Len(s) /\ Tail(s)[k] = s[k + 1]
    BY <1>1
  <2>2. ASSUME NEW i \in 1..m, q[i] = k PROVE s[k + 1].op = "query"
    <3>1. i + e \in 1..Len(p) /\ p[i + e] = k + 1
      BY <1>2, <1>5, <1>8, <2>2
    <3>2. QED
      BY <1>2, <2>1, <3>1
  <2>3. ASSUME s[k + 1].op = "query" PROVE \E i \in 1..m : q[i] = k
    <3>1. PICK j \in 1..Len(p) : p[j] = k + 1
      BY <1>2, <2>1, <2>3
    <3>2. j - e \in 1..m
      <4>1. CASE e = 0
        BY <1>4, <4>1
      <4>2. CASE e = 1
        <5>1. p[1] = 1 /\ k + 1 # 1
          BY <1>3, <4>2 DEF e
        <5>2. j # 1
          BY <3>1, <5>1
        <5>3. QED
          BY <1>4, <4>2, <5>2
      <4>3. QED
        BY <1>4, <4>1, <4>2
    <3>3. q[j - e] = k
      <4>1. (j - e) + e = j
        BY <1>4
      <4>2. q[j - e] = p[(j - e) + e] - 1
        BY <1>8, <3>2
      <4>3. QED
        BY <3>1, <4>1, <4>2
    <3>4. QED
      BY <3>2, <3>3
  <2>4. QED
    BY <2>1, <2>2, <2>3
<1>11. QueriesAt(Tail(s), q)
  BY <1>7, <1>9, <1>10, Zenon DEF QueriesAt, n
<1>12. QED
  BY <1>7, <1>8, <1>11, Zenon DEF e, m

\* A query at the end is the newest; other outputs change no place.
LEMMA QueriesAppend ==
  ASSUME NEW s \in Seq(Outputs), NEW o \in Outputs, NEW p, QueriesAt(s, p)
  PROVE  QueriesAt(Append(s, o), IF o.op = "query" THEN Append(p, Len(s) + 1) ELSE p)
<1> DEFINE n == Len(s)
           t == Append(s, o)
           q == IF o.op = "query" THEN Append(p, n + 1) ELSE p
<1>1. n \in Nat /\ Len(t) = n + 1 /\ t[n + 1] = o /\ \A k \in 1..n : t[k] = s[k]
  BY AppendOne
<1>2. /\ p \in Seq(1..n) /\ Len(p) \in Nat /\ \A i \in 1..Len(p) : p[i] \in 1..n
      /\ \A i, j \in 1..Len(p) : i < j => p[i] < p[j]
      /\ \A k \in 1..n : s[k].op = "query" <=> \E i \in 1..Len(p) : p[i] = k
  BY DEF QueriesAt
<1> HIDE DEF n, t
<1>3. p \in Seq(1..(n + 1)) /\ n + 1 \in 1..(n + 1)
  <2>1. \A i \in 1..Len(p) : p[i] \in 1..(n + 1)
    BY <1>1, <1>2
  <2>2. p \in [1..Len(p) -> 1..(n + 1)]
    BY <1>2, <2>1
  <2>3. QED
    BY <1>1, <1>2, <2>2
<1>4. CASE o.op = "query"
  <2>1. /\ q \in Seq(1..(n + 1)) /\ Len(q) = Len(p) + 1 /\ q[Len(p) + 1] = n + 1
        /\ \A i \in 1..Len(p) : q[i] = p[i]
    BY <1>3, <1>4, AppendOne
  <2> HIDE DEF q
  <2>2. ASSUME NEW i \in 1..Len(q), NEW j \in 1..Len(q), i < j PROVE q[i] < q[j]
    <3>1. CASE j = Len(p) + 1
      <4>1. i \in 1..Len(p)
        BY <1>2, <2>1, <2>2, <3>1
      <4>2. q[i] \in 1..n /\ q[j] = n + 1
        BY <1>2, <2>1, <3>1, <4>1
      <4>3. QED
        BY <1>1, <4>2
    <3>2. CASE j # Len(p) + 1
      <4>1. i \in 1..Len(p) /\ j \in 1..Len(p)
        <5>1. \A m \in Nat : \A h, k \in 1..(m + 1) :
                h < k /\ k # m + 1 => h \in 1..m /\ k \in 1..m
          OBVIOUS
        <5>2. QED
          BY <1>2, <2>1, <2>2, <3>2, <5>1, Zenon
      <4>2. p[i] < p[j]
        BY <1>2, <2>2, <4>1
      <4>3. q[i] = p[i] /\ q[j] = p[j]
        BY <2>1, <4>1
      <4>4. QED
        BY <4>2, <4>3
    <3>3. QED
      BY <3>1, <3>2
  <2>3. ASSUME NEW k \in 1..(n + 1)
        PROVE  t[k].op = "query" <=> \E i \in 1..Len(q) : q[i] = k
    <3>1. CASE k = n + 1
      <4>1. Len(p) + 1 \in 1..Len(q)
        BY <1>2, <2>1
      <4>2. QED
        BY <1>1, <1>4, <2>1, <3>1, <4>1
    <3>2. CASE k # n + 1
      <4>1. k \in 1..n /\ t[k] = s[k]
        BY <1>1, <3>2
      <4>2. \A i \in 1..Len(q) : i \in 1..Len(p) \/ q[i] = n + 1
        BY <1>2, <2>1
      <4>3. \A i \in 1..Len(p) : i \in 1..Len(q)
        BY <1>2, <2>1
      <4>4. QED
        BY <1>2, <2>1, <3>2, <4>1, <4>2, <4>3, ZenonT(60)
    <3>3. QED
      BY <3>1, <3>2
  <2>4. QueriesAt(t, q)
    BY <1>1, <2>1, <2>2, <2>3, Zenon DEF QueriesAt
  <2>5. QED
    BY <2>4, Zenon DEF t, n, q
<1>5. CASE o.op # "query"
  <2>1. ASSUME NEW k \in 1..(n + 1)
        PROVE  t[k].op = "query" <=> \E i \in 1..Len(p) : p[i] = k
    <3>1. CASE k = n + 1
      <4>1. \A i \in 1..Len(p) : p[i] # n + 1
        BY <1>1, <1>2
      <4>2. QED
        BY <1>1, <1>5, <3>1, <4>1
    <3>2. CASE k # n + 1
      <4>1. k \in 1..n
        BY <1>1, <3>2
      <4>2. QED
        BY <1>1, <1>2, <4>1
    <3>3. QED
      BY <3>1, <3>2
  <2>2. QueriesAt(t, p)
    BY <1>1, <1>2, <1>3, <2>1, Zenon DEF QueriesAt
  <2>3. QED
    BY <1>5, <2>2, Zenon DEF t
<1>6. QED
  BY <1>4, <1>5

-----------------------------------------------------------------------------
(* Where the replies will put the model *)

\* With the cursor at a, s under way, and l replies under way, out queries are outstanding.
Foreseen(s, a, l, out, f, p) == Course(s, a, f) /\ QueriesAt(s, p) /\ out = l + Len(p)

\* What the newest query is answered, or has been.
Newest(rs, f, p) == IF p = <<>> THEN rs[Len(rs)] ELSE f[p[Len(p)]]

\* The model, moved by the answer to the newest query, is where the terminal's cursor is
\* going to be when it has read s.
Agreed(m, k, out, rs, s, f, p) ==
  IF out = 0 THEN m = f[Len(s)] ELSE m + Newest(rs, f, p) - k = f[Len(s)]

\* The answers are numbers.
LEMMA NewestTypes ==
  ASSUME NEW s \in Seq(Outputs), NEW a \in Int, NEW rs \in Seq(Int), NEW out \in Nat \ {0},
         NEW f, NEW p, Foreseen(s, a, Len(rs), out, f, p)
  PROVE  /\ Newest(rs, f, p) \in Int /\ f[Len(s)] \in Int
         /\ p = <<>> => rs # <<>> /\ Len(rs) = out
         /\ p # <<>> => Len(p) \in 1..Len(p) /\ p[Len(p)] \in 1..Len(s)
         /\ Len(p) \in Nat /\ (p = <<>> <=> Len(p) = 0)
<1>1. /\ f \in [0..Len(s) -> Int] /\ p \in Seq(1..Len(s)) /\ Len(p) \in Nat /\ Len(s) \in Nat
      /\ out = Len(rs) + Len(p) /\ Len(rs) \in Nat
  BY DEF Foreseen, Course, QueriesAt
<1>2. p = <<>> <=> Len(p) = 0
  BY <1>1
<1>3. CASE p = <<>>
  <2>1. Len(rs) = out /\ Len(rs) \in 1..Len(rs)
    BY <1>1, <1>2, <1>3
  <2>2. rs[Len(rs)] \in Int /\ rs # <<>>
    BY <2>1
  <2>3. QED
    BY <1>1, <1>2, <1>3, <2>1, <2>2 DEF Newest
<1>4. CASE p # <<>>
  <2>1. Len(p) \in 1..Len(p)
    BY <1>1, <1>2, <1>4
  <2>2. p[Len(p)] \in 1..Len(s)
    BY <1>1, <2>1
  <2>3. f[p[Len(p)]] \in Int
    BY <1>1, <2>2
  <2>4. Newest(rs, f, p) \in Int
    BY <1>4, <2>3, Zenon DEF Newest
  <2>5. f[Len(s)] \in Int
    BY <1>1
  <2>6. QED
    BY <1>1, <1>2, <1>4, <2>1, <2>2, <2>4, <2>5, Zenon
<1>5. QED
  BY <1>3, <1>4

LEMMA EndTypes ==
  ASSUME NEW s \in Seq(Outputs), NEW a, NEW f, Course(s, a, f)
  PROVE  f[Len(s)] \in Int
BY DEF Course

LEMMA ForeseenAppend ==
  ASSUME NEW s \in Seq(Outputs), NEW o \in Outputs, o.op # "query", NEW a \in Int, NEW l, NEW out,
         NEW f, NEW p, Foreseen(s, a, l, out, f, p)
  PROVE  \E g : /\ Foreseen(Append(s, o), a, l, out, g, p)
                /\ \A k \in 0..Len(s) : g[k] = f[k]
                /\ g[Len(s) + 1] = Moved(o, f[Len(s)])
<1>1. QueriesAt(Append(s, o), p)
  BY QueriesAppend DEF Foreseen
<1>2. \E g : /\ Course(Append(s, o), a, g)
             /\ \A k \in 0..Len(s) : g[k] = f[k]
             /\ g[Len(s) + 1] = Moved(o, f[Len(s)])
  BY CourseAppend DEF Foreseen
<1>3. QED
  BY <1>1, <1>2, Zenon DEF Foreseen

\* Output moves both cursors alike.
LEMMA AgreedAppend ==
  ASSUME NEW s \in Seq(Outputs), NEW o \in Outputs, o.op # "query", NEW a \in Int,
         NEW rs \in Seq(Int), NEW out \in Nat, NEW f, NEW p, NEW m \in Int, NEW k \in Int,
         Foreseen(s, a, Len(rs), out, f, p), Agreed(m, k, out, rs, s, f, p),
         NEW x, o.op = "text" => x = m + 1, o.op \in {"half", "rest"} => x = m,
         o.op = "moveto" => out = 0 /\ x = o.to
  PROVE  \E g : /\ Foreseen(Append(s, o), a, Len(rs), out, g, p)
                /\ Agreed(x, k, out, rs, Append(s, o), g, p)
<1>1. PICK g : /\ Foreseen(Append(s, o), a, Len(rs), out, g, p)
               /\ \A i \in 0..Len(s) : g[i] = f[i]
               /\ g[Len(s) + 1] = Moved(o, f[Len(s)])
  BY ForeseenAppend
<1>2. o.op \in {"text", "half", "rest", "moveto"} /\ f[Len(s)] \in Int
  BY EndTypes DEF Outputs, Foreseen
<1>3. Len(Append(s, o)) = Len(s) + 1 /\ Len(s) \in Nat
  BY AppendOne
<1>4. CASE out = 0
  <2>1. m = f[Len(s)]
    BY <1>4 DEF Agreed
  <2>2. x = g[Len(s) + 1]
    BY <1>1, <1>2, <2>1 DEF Moved
  <2>3. Agreed(x, k, out, rs, Append(s, o), g, p)
    BY <1>3, <1>4, <2>2 DEF Agreed
  <2>4. QED
    BY <1>1, <2>3, Zenon
<1>5. CASE out # 0
  <2>1. m + Newest(rs, f, p) - k = f[Len(s)]
    BY <1>5 DEF Agreed
  <2>2. Newest(rs, f, p) \in Int /\ (p # <<>> => p[Len(p)] \in 0..Len(s))
    <3>1. out \in Nat \ {0}
      BY <1>5
    <3>2. Newest(rs, f, p) \in Int /\ (p # <<>> => p[Len(p)] \in 1..Len(s))
      BY <3>1, NewestTypes, Zenon
    <3>3. QED
      BY <3>2
  <2>3. Newest(rs, g, p) = Newest(rs, f, p)
    BY <1>1, <2>2, Zenon DEF Newest
  <2>4. x + Newest(rs, g, p) - k = g[Len(s) + 1]
    BY <1>1, <1>2, <1>5, <2>1, <2>2, <2>3 DEF Moved
  <2>5. Agreed(x, k, out, rs, Append(s, o), g, p)
    BY <1>3, <1>5, <2>4 DEF Agreed
  <2>6. QED
    BY <1>1, <2>5, Zenon
<1>6. QED
  BY <1>4, <1>5

\* A query behind all outputs is answered with where they leave the cursor.
LEMMA AgreedAsk ==
  ASSUME NEW s \in Seq(Outputs), NEW a \in Int, NEW rs \in Seq(Int), NEW out \in Nat,
         NEW f, NEW p, NEW x \in Int, Foreseen(s, a, Len(rs), out, f, p)
  PROVE  LET t == Append(s, [op |-> "query"])
         IN  \E g, q : Foreseen(t, a, Len(rs), out + 1, g, q) /\ Agreed(x, x, out + 1, rs, t, g, q)
<1> DEFINE o == [op |-> "query"]
           t == Append(s, o)
           q == Append(p, Len(s) + 1)
<1>1. o \in Outputs /\ o.op = "query"
  BY OutputTypes
<1> HIDE DEF o
<1>2. /\ Len(t) = Len(s) + 1 /\ Len(s) \in Nat /\ p \in Seq(1..Len(s)) /\ Len(p) \in Nat
      /\ out = Len(rs) + Len(p) /\ Len(rs) \in Nat
  BY <1>1, AppendOne DEF Foreseen, QueriesAt
<1>3. QueriesAt(t, q)
  BY <1>1, QueriesAppend DEF Foreseen
<1>4. PICK g : Course(t, a, g)
  BY <1>1, CourseAppend, Zenon DEF Foreseen
<1>5. Len(q) = Len(p) + 1 /\ q[Len(q)] = Len(t) /\ q # <<>>
  <2>1. p \in Seq(Nat) /\ Len(s) + 1 \in Nat
    <3>1. p \in [1..Len(p) -> Nat]
      BY <1>2
    <3>2. QED
      BY <1>2, <3>1
  <2>2. q \in Seq(Nat) /\ Len(q) = Len(p) + 1 /\ q[Len(p) + 1] = Len(s) + 1
    BY <2>1, AppendOne
  <2> HIDE DEF q, t
  <2>3. QED
    BY <1>2, <2>2
<1>6. Foreseen(t, a, Len(rs), out + 1, g, q)
  <2>1. out + 1 = Len(rs) + Len(q)
    BY <1>2, <1>5
  <2>2. QED
    BY <1>3, <1>4, <2>1, Zenon DEF Foreseen
<1>7. g[Len(t)] \in Int
  <2>1. t \in Seq(Outputs)
    BY <1>1, AppendOne
  <2>2. QED
    BY <1>4, <2>1, EndTypes, Zenon
<1> HIDE DEF t, q
<1>8. Newest(rs, g, q) = g[Len(t)]
  BY <1>5, Zenon DEF Newest
<1>9. Agreed(x, x, out + 1, rs, t, g, q)
  <2>1. out + 1 # 0 /\ x + Newest(rs, g, q) - x = g[Len(t)]
    BY <1>7, <1>8
  <2>2. QED
    BY <2>1, Zenon DEF Agreed
<1>10. QED
  BY <1>6, <1>9, Zenon DEF t, o

\* The terminal reads one output: the courses end where they did, and the newest query's
\* answer is the same, in the pipe of replies now if it was this output.
LEMMA AgreedRead ==
  ASSUME NEW s \in Seq(Outputs), s # <<>>, NEW a \in Int, NEW rs \in Seq(Int), NEW out \in Nat,
         NEW f, NEW p, Foreseen(s, a, Len(rs), out, f, p),
         NEW rt, rt = IF Head(s).op = "query" THEN Append(rs, a) ELSE rs
  PROVE  \E g, q : /\ Foreseen(Tail(s), Moved(Head(s), a), Len(rt), out, g, q)
                   /\ \A m, k : Agreed(m, k, out, rs, s, f, p)
                                  => Agreed(m, k, out, rt, Tail(s), g, q)
<1> DEFINE e == IF Head(s).op = "query" THEN 1 ELSE 0
           n == Len(Tail(s))
<1>1. /\ Len(s) \in Nat /\ Len(s) > 0 /\ n = Len(s) - 1 /\ Head(s) = s[1] /\ n \in Nat
      /\ Tail(s) \in Seq(Outputs)
  BY HeadTail
<1>2. PICK g : /\ Course(Tail(s), Moved(Head(s), a), g)
               /\ \A k \in 0..n : g[k] = f[k + 1]
  BY CourseTail DEF Foreseen
<1>3. PICK q : /\ QueriesAt(Tail(s), q) /\ Len(q) = Len(p) - e
               /\ \A i \in 1..Len(q) : q[i] = p[i + e] - 1
  BY QueriesTail DEF Foreseen
<1>4. /\ f[0] = a /\ \A k \in 1..Len(s) : f[k] = Moved(s[k], f[k - 1])
  BY DEF Foreseen, Course
<1>5. /\ p \in Seq(1..Len(s)) /\ Len(p) \in Nat /\ (p = <<>> <=> Len(p) = 0)
      /\ \A i \in 1..Len(p) : p[i] \in 1..Len(s)
      /\ \A k \in 1..Len(s) : s[k].op = "query" <=> \E i \in 1..Len(p) : p[i] = k
  BY SMTT(30) DEF Foreseen, QueriesAt
<1>6. /\ q \in Seq(1..n) /\ Len(q) \in Nat /\ (q = <<>> <=> Len(q) = 0)
      /\ \A i \in 1..Len(q) : q[i] \in 1..n
  <2>1. q \in Seq(1..n)
    BY <1>3, Zenon DEF QueriesAt, n
  <2> HIDE DEF n
  <2>2. QED
    BY <1>1, <2>1, SMTT(30)
<1>7. out = Len(rs) + Len(p) /\ Len(rs) \in Nat
  BY DEF Foreseen
<1>8. /\ Len(rt) = Len(rs) + e
      /\ Head(s).op = "query" => Len(rt) = Len(rs) + 1 /\ rt[Len(rs) + 1] = a
  BY AppendOne
<1> HIDE DEF n
<1>9. Foreseen(Tail(s), Moved(Head(s), a), Len(rt), out, g, q)
  <2>1. e \in {0, 1}
    OBVIOUS
  <2>2. out = Len(rt) + Len(q)
    <3>1. Len(rt) = Len(rs) + e /\ Len(q) = Len(p) - e
      BY <1>3, <1>8, Zenon
    <3>2. \A h, l \in Nat : \A d \in {0, 1} : h + l = (h + d) + (l - d)
      OBVIOUS
    <3> HIDE DEF e
    <3>3. Len(rs) + Len(p) = (Len(rs) + e) + (Len(p) - e)
      BY <1>5, <1>7, <2>1, <3>2, Zenon
    <3>4. QED
      BY <1>7, <3>1, <3>3, Zenon
  <2>3. QED
    BY <1>2, <1>3, <2>2, Zenon DEF Foreseen
<1>10. Newest(rt, g, q) = Newest(rs, f, p)
  <2>1. CASE q # <<>>
    <3>1. Len(q) \in 1..Len(q)
      BY <1>6, <2>1
    <3>2. q[Len(q)] = p[Len(q) + e] - 1 /\ q[Len(q)] \in 1..n
      BY <1>3, <1>6, <3>1
    <3>3. Len(q) + e = Len(p) /\ Len(p) \in 1..Len(p)
      BY <1>3, <1>5, <3>1
    <3>4. q[Len(q)] + 1 = p[Len(p)] /\ q[Len(q)] \in 0..n
      BY <1>5, <3>2, <3>3, SMTT(30)
    <3>5. g[q[Len(q)]] = f[p[Len(p)]]
      BY <1>2, <3>4
    <3>6. p # <<>>
      BY <1>5, <3>3
    <3>7. QED
      BY <2>1, <3>5, <3>6, Zenon DEF Newest
  <2>2. CASE q = <<>> /\ Head(s).op = "query"
    <3>1. Len(p) = 1
      BY <1>3, <1>5, <1>6, <2>2
    <3>2. p[1] = 1
      BY <1>1, <1>5, <2>2, <3>1
    <3>3. f[1] = a
      <4>1. 1 \in 1..Len(s) /\ 1 - 1 = 0
        BY <1>1
      <4>2. f[1] = Moved(s[1], f[0])
        BY <1>4, <4>1
      <4>3. QED
        BY <1>1, <1>4, <2>2, <4>2 DEF Moved
    <3>4. p # <<>>
      BY <1>5, <3>1
    <3>5. QED
      BY <1>8, <2>2, <3>1, <3>2, <3>3, <3>4, Zenon DEF Newest
  <2>3. CASE q = <<>> /\ Head(s).op # "query"
    <3>1. Len(p) = 0
      BY <1>3, <1>5, <1>6, <2>3
    <3>2. p = <<>> /\ rt = rs
      BY <1>5, <2>3, <3>1
    <3>3. QED
      BY <2>3, <3>2, Zenon DEF Newest
  <2>4. QED
    BY <2>1, <2>2, <2>3
<1>11. g[n] = f[Len(s)]
  <2>1. n \in 0..n /\ n + 1 = Len(s)
    BY <1>1
  <2>2. QED
    BY <1>2, <2>1
<1>12. QED
  BY <1>9, <1>10, <1>11, Zenon DEF Agreed, n

\* The oldest reply is taken: the newest one moves the model, an older one does not.
LEMMA AgreedReply ==
  ASSUME NEW s \in Seq(Outputs), NEW a \in Int, NEW rs \in Seq(Int), rs # <<>>,
         NEW out \in Nat, NEW f, NEW p, Foreseen(s, a, Len(rs), out, f, p)
  PROVE  /\ out > 0 /\ Foreseen(s, a, Len(Tail(rs)), out - 1, f, p)
         /\ \A m, k : Agreed(m, k, out, rs, s, f, p)
              => Agreed(IF out = 1 THEN m + Head(rs) - k ELSE m, k, out - 1, Tail(rs), s, f, p)
<1>1. /\ Len(rs) \in Nat /\ Len(rs) > 0 /\ Len(Tail(rs)) = Len(rs) - 1 /\ Head(rs) = rs[1]
      /\ \A i \in 1..Len(Tail(rs)) : Tail(rs)[i] = rs[i + 1]
  BY HeadTail
<1>2. Len(p) \in Nat /\ (p = <<>> <=> Len(p) = 0) /\ out = Len(rs) + Len(p)
  BY DEF Foreseen, QueriesAt
<1>3. Course(s, a, f) /\ QueriesAt(s, p)
  BY DEF Foreseen
<1>4. out > 0 /\ out - 1 = Len(Tail(rs)) + Len(p)
  BY <1>1, <1>2
<1>5. Foreseen(s, a, Len(Tail(rs)), out - 1, f, p)
  BY <1>3, <1>4, Zenon DEF Foreseen
<1>6. ASSUME NEW m, NEW k, Agreed(m, k, out, rs, s, f, p), out = 1
      PROVE  Agreed(m + Head(rs) - k, k, out - 1, Tail(rs), s, f, p)
  <2>1. Len(p) = 0 /\ Len(rs) = 1
    BY <1>1, <1>2, <1>6
  <2>2. p = <<>> /\ rs[Len(rs)] = Head(rs) /\ out # 0 /\ out - 1 = 0
    BY <1>1, <1>2, <1>6, <2>1
  <2>3. m + Head(rs) - k = f[Len(s)]
    BY <1>6, <2>2, Zenon DEF Agreed, Newest
  <2>4. QED
    BY <2>2, <2>3, Zenon DEF Agreed
<1>7. ASSUME NEW m, NEW k, Agreed(m, k, out, rs, s, f, p), out # 1
      PROVE  Agreed(m, k, out - 1, Tail(rs), s, f, p)
  <2>1. out # 0 /\ out - 1 # 0
    BY <1>4, <1>7
  <2>2. p = <<>> => rs[Len(rs)] = Tail(rs)[Len(Tail(rs))]
    <3>1. SUFFICES ASSUME p = <<>> PROVE rs[Len(rs)] = Tail(rs)[Len(Tail(rs))]
      OBVIOUS
    <3>2. Len(Tail(rs)) \in 1..Len(Tail(rs)) /\ Len(Tail(rs)) + 1 = Len(rs)
      BY <1>1, <1>2, <1>7, <3>1
    <3>3. QED
      BY <1>1, <3>2
  <2>3. Newest(Tail(rs), f, p) = Newest(rs, f, p)
    BY <2>2, Zenon DEF Newest
  <2>4. QED
    BY <1>7, <2>1, <2>3, Zenon DEF Agreed
<1>8. QED
  BY <1>4, <1>5, <1>6, <1>7, Zenon

\* The terminal reflows: its cursor is elsewhere, what is on its way stays the same.
LEMMA ForeseenShift ==
  ASSUME NEW s \in Seq(Outputs), NEW a \in Int, NEW b \in Int, NEW l, NEW out, NEW f, NEW p,
         Foreseen(s, a, l, out, f, p)
  PROVE  \E g : Foreseen(s, b, l, out, g, p)
<1>1. \E g : Course(s, b, g)
  BY CourseShift DEF Foreseen
<1>2. QED
  BY <1>1, Zenon DEF Foreseen

-----------------------------------------------------------------------------
(* The model and the terminal *)

\* The terminal's outputs and replies account for the queries outstanding; the model is going
\* to agree with the terminal unless something more is to be asked (settled = FALSE).
Synced(s, a, rs, out, m, k, settled) ==
  \E f, p : /\ Foreseen(s, a, Len(rs), out, f, p)
            /\ settled => Agreed(m, k, out, rs, s, f, p)

LEMMA SyncedAppend ==
  ASSUME NEW s \in Seq(Outputs), NEW o \in Outputs, o.op # "query", NEW a \in Int,
         NEW rs \in Seq(Int), NEW out \in Nat, NEW m \in Int, NEW k \in Int, NEW settled,
         Synced(s, a, rs, out, m, k, settled),
         NEW x, o.op = "text" => x = m + 1, o.op \in {"half", "rest"} => x = m,
         settled /\ o.op = "moveto" => out = 0 /\ x = o.to
  PROVE  Synced(Append(s, o), a, rs, out, x, k, settled)
<1>1. PICK f, p : /\ Foreseen(s, a, Len(rs), out, f, p)
                  /\ settled => Agreed(m, k, out, rs, s, f, p)
  BY Zenon DEF Synced
<1>2. CASE settled
  <2>1. Foreseen(s, a, Len(rs), out, f, p) /\ Agreed(m, k, out, rs, s, f, p)
    BY <1>1, <1>2, Zenon
  <2>2. o.op = "moveto" => out = 0 /\ x = o.to
    BY <1>2, Zenon
  <2>3. \E g : /\ Foreseen(Append(s, o), a, Len(rs), out, g, p)
               /\ Agreed(x, k, out, rs, Append(s, o), g, p)
    BY <2>1, <2>2, AgreedAppend
  <2>4. QED
    BY <2>3, Zenon DEF Synced
<1>3. CASE ~settled
  <2>1. \E g : Foreseen(Append(s, o), a, Len(rs), out, g, p)
    BY <1>1, ForeseenAppend
  <2>2. QED
    BY <1>3, <2>1, Zenon DEF Synced
<1>4. QED
  BY <1>2, <1>3, Zenon

LEMMA SyncedAsk ==
  ASSUME NEW s \in Seq(Outputs), NEW a \in Int, NEW rs \in Seq(Int), NEW out \in Nat,
         NEW m, NEW k, NEW settled, Synced(s, a, rs, out, m, k, settled),
         NEW x \in Int, NEW after
  PROVE  Synced(Append(s, [op |-> "query"]), a, rs, out + 1, x, x, after)
<1>1. PICK f, p : Foreseen(s, a, Len(rs), out, f, p)
  BY Zenon DEF Synced
<1>2. \E g, q : /\ Foreseen(Append(s, [op |-> "query"]), a, Len(rs), out + 1, g, q)
                /\ Agreed(x, x, out + 1, rs, Append(s, [op |-> "query"]), g, q)
  BY <1>1, AgreedAsk
<1>3. QED
  BY <1>2, Zenon DEF Synced

LEMMA SyncedRead ==
  ASSUME NEW s \in Seq(Outputs), s # <<>>, NEW a \in Int, NEW rs \in Seq(Int), NEW out \in Nat,
         NEW m, NEW k, NEW settled, Synced(s, a, rs, out, m, k, settled),
         NEW rt, rt = IF Head(s).op = "query" THEN Append(rs, a) ELSE rs
  PROVE  Synced(Tail(s), Moved(Head(s), a), rt, out, m, k, settled)
<1>1. PICK f, p : /\ Foreseen(s, a, Len(rs), out, f, p)
                  /\ settled => Agreed(m, k, out, rs, s, f, p)
  BY Zenon DEF Synced
<1>2. PICK g, q : /\ Foreseen(Tail(s), Moved(Head(s), a), Len(rt), out, g, q)
                  /\ \A h, i : Agreed(h, i, out, rs, s, f, p)
                                 => Agreed(h, i, out, rt, Tail(s), g, q)
  BY <1>1, AgreedRead
<1>3. settled => Agreed(m, k, out, rt, Tail(s), g, q)
  BY <1>1, <1>2, Zenon
<1>4. QED
  BY <1>2, <1>3, Zenon DEF Synced

LEMMA SyncedReply ==
  ASSUME NEW s \in Seq(Outputs), NEW a \in Int, NEW rs \in Seq(Int), rs # <<>>,
         NEW out \in Nat, NEW m, NEW k, NEW settled, Synced(s, a, rs, out, m, k, settled)
  PROVE  /\ out > 0
         /\ Synced(s, a, Tail(rs), out - 1, IF out = 1 THEN m + Head(rs) - k ELSE m, k, settled)
<1>1. PICK f, p : /\ Foreseen(s, a, Len(rs), out, f, p)
                  /\ settled => Agreed(m, k, out, rs, s, f, p)
  BY Zenon DEF Synced
<1>2. /\ out > 0 /\ Foreseen(s, a, Len(Tail(rs)), out - 1, f, p)
      /\ \A h, i : Agreed(h, i, out, rs, s, f, p)
           => Agreed(IF out = 1 THEN h + Head(rs) - i ELSE h, i, out - 1, Tail(rs), s, f, p)
  BY <1>1, AgreedReply
<1>3. settled => Agreed(IF out = 1 THEN m + Head(rs) - k ELSE m, k, out - 1, Tail(rs), s, f, p)
  BY <1>1, <1>2, Zenon
<1>4. QED
  BY <1>2, <1>3, Zenon DEF Synced

LEMMA SyncedShift ==
  ASSUME NEW s \in Seq(Outputs), NEW a \in Int, NEW b \in Int, NEW rs, NEW out, NEW m, NEW k,
         NEW settled, Synced(s, a, rs, out, m, k, settled)
  PROVE  Synced(s, b, rs, out, m, k, FALSE)
<1>1. PICK f, p : Foreseen(s, a, Len(rs), out, f, p)
  BY Zenon DEF Synced
<1>2. \E g : Foreseen(s, b, Len(rs), out, g, p)
  BY <1>1, ForeseenShift
<1>3. QED
  BY <1>2, Zenon DEF Synced

\* Nothing is under way, and the model is where the terminal's cursor is.
LEMMA SyncedEmpty ==
  ASSUME NEW a \in Int, NEW k, NEW settled
  PROVE  Synced(<<>>, a, <<>>, 0, a, k, settled)
<1> DEFINE f == [i \in 0..0 |-> a]
<1>1. f \in [0..0 -> Int] /\ f[0] = a
  OBVIOUS
<1> HIDE DEF f
<1>2. Len(<<>>) = 0 /\ (\A i \in 1..0 : FALSE) /\ 0 = 0 + 0
  OBVIOUS
<1>3. Course(<<>>, a, f)
  BY <1>1, <1>2, Zenon DEF Course
<1>4. QueriesAt(<<>>, <<>>)
  BY DEF QueriesAt
<1>5. Foreseen(<<>>, a, 0, 0, f, <<>>)
  BY <1>2, <1>3, <1>4, Zenon DEF Foreseen
<1>6. Agreed(a, k, 0, <<>>, <<>>, f, <<>>)
  BY <1>1, <1>2, Zenon DEF Agreed
<1>7. QED
  BY <1>2, <1>5, <1>6, Zenon DEF Synced

\* No signal waits and no query is wished for: only what is outstanding will move the model.
Quiet == ~resize_signal /\ ~clear_signal /\ ~wanted

\* A session that asks where the terminal's cursor is has nothing else under way.
Inherits ==
  /\ outstanding = 0 /\ Quiet
  /\ \/ to_terminal = <<[op |-> "query"]>> /\ replies = <<>>
     \/ to_terminal = <<>> /\ replies = <<actual>>

\* A clear that met nothing on its way.
Clearing ==
  /\ to_terminal = <<>> /\ actual = 0 /\ outstanding = 0
  /\ ~inherit /\ ~resize_signal /\ ~wanted

SyncInv ==
  ~crossed => /\ inherit => Inherits
              /\ ~inherit => Synced(to_terminal, actual, replies, outstanding, model, asked_at, Quiet)
              /\ clear_signal => Clearing

\* A write moves the model as it moves the terminal's cursor, and sends what was wished for.
LEMMA SyncWrite ==
  ASSUME TypeOK, NEW item \in Outputs, item.op # "query", NEW position \in Int, NEW middle,
         ~resize_signal \/ item.op # "moveto", ~clear_signal,
         Synced(to_terminal, actual, replies, outstanding, model, asked_at, Quiet),
         item.op = "text" => position = model + 1,
         item.op \in {"half", "rest"} => position = model,
         item.op = "moveto" => outstanding = 0 /\ position = item.to,
         Write(item, position, middle)
  PROVE  Synced(to_terminal, actual, replies, outstanding, model, asked_at, Quiet)'
<1> DEFINE t == Append(to_terminal, item)
<1>1. /\ to_terminal \in Seq(Outputs) /\ t \in Seq(Outputs) /\ actual \in Int
      /\ replies \in Seq(Int) /\ outstanding \in Nat /\ model \in Int /\ asked_at \in Int
  BY AppendOne DEF TypeOK
<1>2. Synced(t, actual, replies, outstanding, position, asked_at, Quiet)
  BY <1>1, SyncedAppend
<1> HIDE DEF t
<1>3. /\ actual' = actual /\ replies' = replies /\ model' = position
      /\ resize_signal' = resize_signal /\ clear_signal' = clear_signal
  BY DEF Write
<1>4. /\ \/ /\ to_terminal' = t /\ outstanding' = outstanding /\ asked_at' = asked_at
            /\ wanted' = wanted
         \/ /\ to_terminal' = t /\ outstanding' = outstanding /\ asked_at' = asked_at
            /\ wanted'
         \/ /\ to_terminal' = Append(t, [op |-> "query"]) /\ outstanding' = outstanding + 1
            /\ asked_at' = position /\ ~wanted'
  BY Zenon DEF Write, send_wanted_cursor_sync, Ask, t
<1>5. CASE /\ to_terminal' = t /\ outstanding' = outstanding /\ asked_at' = asked_at
           /\ wanted' = wanted
  <2>1. Quiet' => Quiet
    BY <1>3, <1>5, Zenon DEF Quiet
  <2>2. Synced(t, actual, replies, outstanding, position, asked_at, Quiet')
    BY <1>2, <2>1, Zenon DEF Synced
  <2>3. QED
    BY <1>3, <1>5, <2>2, Zenon
<1>6. CASE /\ to_terminal' = t /\ outstanding' = outstanding /\ asked_at' = asked_at
           /\ wanted'
  <2>1. ~Quiet'
    BY <1>6, Zenon DEF Quiet
  <2>2. Synced(t, actual, replies, outstanding, position, asked_at, Quiet')
    BY <1>2, <2>1, Zenon DEF Synced
  <2>3. QED
    BY <1>3, <1>6, <2>2, Zenon
<1>7. CASE /\ to_terminal' = Append(t, [op |-> "query"]) /\ outstanding' = outstanding + 1
           /\ asked_at' = position /\ ~wanted'
  <2>1. Synced(Append(t, [op |-> "query"]), actual, replies, outstanding + 1, position, position,
               Quiet')
    BY <1>1, <1>2, SyncedAsk, Zenon
  <2>2. QED
    BY <1>3, <1>7, <2>1, Zenon
<1>8. QED
  BY <1>4, <1>5, <1>6, <1>7, Zenon

\* The parts of SyncInv for a step that leaves crossed as it was, with nothing inherited after it.
LEMMA SyncStep ==
  ASSUME TypeOK, SyncInv, [SyncNext]_sync_vars, ~crossed'
  PROVE  /\ inherit' => Inherits'
         /\ ~inherit' => Synced(to_terminal, actual, replies, outstanding, model, asked_at, Quiet)'
         /\ clear_signal' => Clearing'
<1>1. ~crossed
  BY Zenon DEF SyncNext, Bridge, poll_signal, take_resize_sync_replies, process_input_cpr_response,
     TerminalReads, TerminalResizes, TerminalClears, WriteText, WriteAt, sync_vars
<1>2. /\ inherit => Inherits
      /\ ~inherit => Synced(to_terminal, actual, replies, outstanding, model, asked_at, Quiet)
      /\ clear_signal => Clearing
  BY <1>1, Zenon DEF SyncInv
<1>3. /\ to_terminal \in Seq(Outputs) /\ actual \in Int /\ replies \in Seq(Int)
      /\ outstanding \in Nat /\ model \in Int /\ asked_at \in Int
  BY DEF TypeOK
<1>4. CASE poll_signal
  <2>1. /\ ~inherit /\ inherit' = inherit /\ ~resize_signal' /\ ~clear_signal'
        /\ replies' = replies /\ actual' = actual
    BY <1>2, <1>4, Zenon DEF poll_signal, Inherits, Quiet
  <2>2. Synced(to_terminal, actual, replies, outstanding, model, asked_at, Quiet)
    BY <1>2, <2>1, Zenon
  <2>3. CASE resize_signal
    <3>1. ~clear_signal
      BY <1>2, <2>3, Zenon DEF Clearing
    <3>2. PICK shift \in {0, 1} : /\ send_wanted_cursor_sync(to_terminal, model - shift, mid)
                                  /\ model' = model - shift
      BY <1>4, <2>3, <3>1, Zenon DEF poll_signal
    <3>3. CASE mid
      <4>1. /\ to_terminal' = to_terminal /\ asked_at' = asked_at /\ outstanding' = outstanding
            /\ ~Quiet'
        BY <3>2, <3>3, Zenon DEF send_wanted_cursor_sync, Quiet
      <4>2. Synced(to_terminal, actual, replies, outstanding, model', asked_at, Quiet')
        BY <2>2, <4>1, Zenon DEF Synced
      <4>3. QED
        BY <2>1, <4>1, <4>2, Zenon
    <3>4. CASE ~mid
      <4>1. /\ to_terminal' = Append(to_terminal, [op |-> "query"]) /\ asked_at' = model'
            /\ outstanding' = outstanding + 1
        BY <3>2, <3>4, Zenon DEF send_wanted_cursor_sync, Ask
      <4>2. model' \in Int
        BY <1>3, <3>2
      <4>3. Synced(Append(to_terminal, [op |-> "query"]), actual, replies, outstanding + 1,
                   model', model', Quiet')
        BY <1>3, <2>2, <4>2, SyncedAsk, Zenon
      <4>4. QED
        BY <2>1, <4>1, <4>3, Zenon
    <3>5. QED
      BY <3>3, <3>4, Zenon
  <2>4. CASE ~resize_signal
    <3>1. clear_signal /\ Clearing
      BY <1>2, <1>4, <2>4, Zenon DEF poll_signal
    <3>2. /\ model' = 0 /\ to_terminal' = to_terminal /\ asked_at' = asked_at
          /\ outstanding' = outstanding
      BY <1>4, <2>4, Zenon DEF poll_signal
    <3>3. replies = <<>>
      <4>1. replies # <<>> => outstanding > 0
        BY <1>3, <2>2, SyncedReply
      <4>2. outstanding = 0
        BY <3>1 DEF Clearing
      <4>3. QED
        BY <4>1, <4>2
    <3>4. Synced(<<>>, 0, <<>>, 0, 0, asked_at, Quiet')
      BY SyncedEmpty
    <3>5. QED
      BY <2>1, <3>1, <3>2, <3>3, <3>4, Zenon DEF Clearing
  <2>5. QED
    BY <2>3, <2>4, Zenon
<1>5. ASSUME ~inherit, ~inherit', replies # <<>>, replies' = Tail(replies), outstanding > 0,
             finish_resize_sync(Head(replies)),
             UNCHANGED <<asked_at, wanted, resize_signal, clear_signal, to_terminal, actual>>
      PROVE  /\ Synced(to_terminal, actual, replies, outstanding, model, asked_at, Quiet)'
             /\ ~clear_signal'
  <2>1. /\ asked_at' = asked_at /\ wanted' = wanted /\ resize_signal' = resize_signal
        /\ clear_signal' = clear_signal /\ to_terminal' = to_terminal /\ actual' = actual
    BY <1>5
  <2>2. Quiet' <=> Quiet
    BY <2>1, Zenon DEF Quiet
  <2>3. ~clear_signal
    BY <1>2, <1>5 DEF Clearing
  <2>4. /\ outstanding' = outstanding - 1
        /\ model' = IF outstanding = 1 THEN model + Head(replies) - asked_at ELSE model
    BY <1>5, Zenon DEF finish_resize_sync
  <2>5. Synced(to_terminal, actual, Tail(replies), outstanding - 1, model', asked_at, Quiet)
    BY <1>2, <1>3, <1>5, <2>4, SyncedReply
  <2>6. Synced(to_terminal, actual, Tail(replies), outstanding - 1, model', asked_at, Quiet')
    BY <2>2, <2>5, Zenon DEF Synced
  <2>7. outstanding' = outstanding - 1 /\ replies' = Tail(replies)
    BY <1>5, <2>4, Zenon
  <2>8. QED
    BY <2>1, <2>3, <2>6, <2>7, Zenon
<1>6. CASE take_resize_sync_replies
  <2>1. ~inherit /\ ~inherit'
    <3>1. outstanding # 0 /\ inherit' = inherit
      BY <1>3, <1>6 DEF take_resize_sync_replies
    <3>2. QED
      BY <1>2, <3>1, Zenon DEF Inherits
  <2>2. QED
    BY <1>5, <1>6, <2>1, Zenon DEF take_resize_sync_replies
<1>7. CASE process_input_cpr_response
  <2>1. CASE inherit
    <3>1. /\ to_terminal = <<>> /\ replies = <<actual>> /\ outstanding = 0 /\ ~clear_signal
      BY <1>2, <1>7, <2>1, Zenon DEF process_input_cpr_response, Inherits, Quiet
    <3>2. Head(replies) = actual /\ Tail(replies) = <<>>
      BY <1>3, <3>1
    <3>3. /\ ~inherit' /\ model' = actual /\ replies' = <<>> /\ to_terminal' = <<>>
          /\ actual' = actual /\ asked_at' = asked_at /\ outstanding' = 0 /\ ~clear_signal'
      BY <1>7, <2>1, <3>1, <3>2, Zenon DEF process_input_cpr_response
    <3>4. Synced(<<>>, actual, <<>>, 0, actual, asked_at, Quiet')
      BY <1>3, SyncedEmpty, Zenon
    <3>5. QED
      BY <3>3, <3>4, Zenon
  <2>2. CASE ~inherit
    <3>1. replies # <<>>
      BY <1>7 DEF process_input_cpr_response
    <3>2. outstanding > 0
      BY <1>2, <1>3, <2>2, <3>1, SyncedReply
    <3>3. outstanding # 0
      BY <1>3, <3>2
    <3>4. finish_resize_sync(Head(replies)) /\ UNCHANGED inherit
      BY <1>7, <2>2, <3>3, Zenon DEF process_input_cpr_response
    <3>5. /\ replies' = Tail(replies)
          /\ UNCHANGED <<asked_at, wanted, resize_signal, clear_signal, to_terminal, actual>>
      BY <1>7 DEF process_input_cpr_response
    <3>6. QED
      BY <1>5, <2>2, <3>1, <3>2, <3>4, <3>5, Zenon
  <2>3. QED
    BY <2>1, <2>2, Zenon
<1>8. CASE TerminalReads
  <2>1. /\ to_terminal # <<>> /\ to_terminal' = Tail(to_terminal) /\ model' = model
        /\ asked_at' = asked_at /\ outstanding' = outstanding /\ inherit' = inherit
        /\ wanted' = wanted /\ resize_signal' = resize_signal /\ clear_signal' = clear_signal
    BY <1>8 DEF TerminalReads
  <2>2. ~clear_signal /\ (Quiet' <=> Quiet)
    BY <1>2, <2>1, Zenon DEF Clearing, Quiet
  <2>3. /\ replies' = IF Head(to_terminal).op = "query" THEN Append(replies, actual) ELSE replies
        /\ actual' = Moved(Head(to_terminal), actual)
    BY <1>8, ReadsOutput DEF Moved
  <2>4. CASE inherit
    <3>1. to_terminal = <<[op |-> "query"]>> /\ replies = <<>> /\ outstanding = 0 /\ Quiet
      BY <1>2, <2>1, <2>4, Zenon DEF Inherits
    <3>2. /\ Head(to_terminal) = [op |-> "query"] /\ Tail(to_terminal) = <<>>
          /\ [op |-> "query"].op = "query"
      BY <1>3, <3>1
    <3>3. actual' = actual
      BY <2>3, <3>2 DEF Moved
    <3>4. replies' = <<actual>>
      BY <2>3, <3>1, <3>2
    <3>5. QED
      BY <2>1, <2>2, <2>4, <3>1, <3>2, <3>3, <3>4, Zenon DEF Inherits
  <2>5. CASE ~inherit
    <3>1. Synced(to_terminal, actual, replies, outstanding, model, asked_at, Quiet)
      BY <1>2, <2>5, Zenon
    <3>2. Synced(Tail(to_terminal), Moved(Head(to_terminal), actual), replies', outstanding, model,
                 asked_at, Quiet)
      BY <1>3, <2>1, <2>3, <3>1, SyncedRead
    <3>3. Synced(Tail(to_terminal), actual', replies', outstanding, model, asked_at, Quiet')
      BY <2>2, <2>3, <3>2, Zenon DEF Synced
    <3>4. QED
      BY <2>1, <2>2, <2>5, <3>3, Zenon
  <2>6. QED
    BY <2>4, <2>5, Zenon
<1>9. CASE TerminalResizes
  <2>1. /\ ~inherit /\ ~clear_signal /\ ~inherit' /\ ~clear_signal' /\ ~Quiet'
        /\ to_terminal' = to_terminal /\ replies' = replies /\ outstanding' = outstanding
        /\ model' = model /\ asked_at' = asked_at
    BY <1>9, Zenon DEF TerminalResizes, Quiet
  <2>2. actual' \in Int
    BY <1>3, <1>9 DEF TerminalResizes, Deltas
  <2>3. Synced(to_terminal, actual', replies, outstanding, model, asked_at, FALSE)
    BY <1>2, <1>3, <2>1, <2>2, SyncedShift
  <2>4. Synced(to_terminal, actual', replies, outstanding, model, asked_at, Quiet')
    BY <2>1, <2>3, Zenon DEF Synced
  <2>5. QED
    BY <2>1, <2>4, Zenon
<1>10. CASE TerminalClears
  <2>1. /\ ~inherit /\ ~inherit' /\ ~Quiet' /\ actual' = 0 /\ ~resize_signal' /\ ~wanted'
        /\ to_terminal' = to_terminal /\ replies' = replies /\ outstanding' = outstanding
        /\ model' = model /\ asked_at' = asked_at /\ to_terminal = <<>> /\ ~(outstanding > 0)
    BY <1>10, Zenon DEF TerminalClears, Quiet
  <2>2. outstanding = 0 /\ 0 \in Int
    BY <1>3, <2>1
  <2>3. Synced(to_terminal, 0, replies, outstanding, model, asked_at, FALSE)
    BY <1>2, <1>3, <2>1, <2>2, SyncedShift
  <2>4. Synced(to_terminal, 0, replies, outstanding, model, asked_at, Quiet')
    BY <2>1, <2>3, Zenon DEF Synced
  <2>5. QED
    BY <2>1, <2>2, <2>4, Zenon DEF Clearing
<1>11. CASE WriteText
  <2>1. /\ ~inherit /\ ~clear_signal /\ ~inherit' /\ ~clear_signal'
    <3>1. ~inherit /\ ~clear_signal
      BY <1>11, Zenon DEF WriteText
    <3>2. inherit' = inherit /\ clear_signal' = clear_signal
      BY <1>11 DEF WriteText, Write
    <3>3. QED
      BY <3>1, <3>2, Zenon
  <2>2. /\ [op |-> "text"].op = "text" /\ [op |-> "half"].op = "half" /\ [op |-> "rest"].op = "rest"
        /\ model + 1 \in Int
    BY <1>3
  <2>3. PICK item \in Outputs, position \in Int, middle \in BOOLEAN :
             /\ Write(item, position, middle) /\ item.op \in {"text", "half", "rest"}
             /\ item.op = "text" => position = model + 1
             /\ item.op \in {"half", "rest"} => position = model
    BY <1>3, <1>11, <2>2, OutputTypes, Zenon DEF WriteText
  <2>4. item.op # "query" /\ item.op # "moveto"
    BY <2>3
  <2>5. Synced(to_terminal, actual, replies, outstanding, model, asked_at, Quiet)'
    BY <1>2, <2>1, <2>3, <2>4, SyncWrite, Zenon
  <2>6. QED
    BY <2>1, <2>5, Zenon
<1>12. CASE WriteAt
  <2>1. /\ ~inherit /\ ~clear_signal /\ ~inherit' /\ ~clear_signal' /\ ~resize_signal
        /\ ~(outstanding > 0)
    BY <1>12, Zenon DEF WriteAt, Write
  <2>2. outstanding = 0
    BY <1>3, <2>1
  <2>3. /\ [op |-> "moveto", to |-> model].op = "moveto"
        /\ [op |-> "moveto", to |-> model].to = model
        /\ [op |-> "moveto", to |-> model] \in Outputs
    BY <1>3, OutputTypes
  <2>4. PICK item \in Outputs :
             /\ Write(item, model, FALSE) /\ item.op = "moveto" /\ item.to = model
    BY <1>12, <2>3, Zenon DEF WriteAt
  <2>5. item.op # "query" /\ item.op # "text" /\ item.op \notin {"half", "rest"}
    BY <2>4
  <2>6. Synced(to_terminal, actual, replies, outstanding, model, asked_at, Quiet)'
    BY <1>2, <1>3, <2>1, <2>2, <2>4, <2>5, SyncWrite, Zenon
  <2>7. QED
    BY <2>1, <2>6, Zenon
<1>13. CASE UNCHANGED sync_vars
  <2>1. /\ to_terminal' = to_terminal /\ replies' = replies /\ outstanding' = outstanding
        /\ model' = model /\ asked_at' = asked_at /\ actual' = actual /\ wanted' = wanted
        /\ inherit' = inherit /\ resize_signal' = resize_signal /\ clear_signal' = clear_signal
    BY <1>13 DEF sync_vars
  <2>2. Quiet' <=> Quiet
    BY <2>1, Zenon DEF Quiet
  <2>3. QED
    BY <1>2, <2>1, <2>2, Zenon DEF Synced, Inherits, Clearing
<1>14. QED
  BY <1>4, <1>6, <1>7, <1>8, <1>9, <1>10, <1>11, <1>12, <1>13, Zenon DEF SyncNext, Bridge

\* apply_terminal_resize and finish_resize_sync: however output, queries, replies and reflows
\* cross each other, once everything has arrived the model's cursor is the terminal's.
THEOREM ModelFindsTheCursor == SyncSpec => []CursorsAgree
<1>1. SyncInit => TypeOK /\ SyncInv
  <2>1. SUFFICES ASSUME SyncInit PROVE SyncInv
    BY TypeInit
  <2>2. ~resize_signal /\ ~clear_signal /\ ~wanted
    BY <2>1 DEF SyncInit
  <2>3. outstanding = 0 /\ replies = <<>> /\ model = 0 /\ asked_at = 0
    BY <2>1 DEF SyncInit
  <2>4. CASE inherit = FALSE /\ to_terminal = <<>> /\ actual = 0
    <3>1. Synced(<<>>, 0, <<>>, 0, 0, 0, Quiet)
      BY SyncedEmpty
    <3>2. QED
      BY <2>2, <2>3, <2>4, <3>1, Zenon DEF SyncInv
  <2>5. CASE inherit = TRUE /\ to_terminal = <<[op |-> "query"]>>
    BY <2>2, <2>3, <2>5, Zenon DEF SyncInv, Inherits, Quiet
  <2>6. QED
    BY <2>1, <2>4, <2>5, Zenon DEF SyncInit
<1>2. TypeOK /\ SyncInv /\ [SyncNext]_sync_vars => (TypeOK /\ SyncInv)'
  <2>1. SUFFICES ASSUME TypeOK, SyncInv, [SyncNext]_sync_vars PROVE SyncInv'
    BY TypeStep
  <2>2. QED
    BY <2>1, SyncStep, Zenon DEF SyncInv
<1>3. TypeOK /\ SyncInv => CursorsAgree
  <2>1. SUFFICES ASSUME TypeOK, SyncInv, Settled, ~crossed PROVE model = actual
    BY Zenon DEF CursorsAgree
  <2>2. PICK f, p : /\ Foreseen(to_terminal, actual, Len(replies), outstanding, f, p)
                    /\ Agreed(model, asked_at, outstanding, replies, to_terminal, f, p)
    BY <2>1, Zenon DEF SyncInv, Settled, Synced, Quiet
  <2>3. to_terminal = <<>> /\ outstanding = 0 /\ Len(<<>>) = 0
    BY <2>1 DEF Settled
  <2>4. f[0] = actual
    BY <2>2, Zenon DEF Foreseen, Course
  <2>5. QED
    BY <2>2, <2>3, <2>4, Zenon DEF Agreed
<1>4. QED
  BY <1>1, <1>2, <1>3, PTL DEF SyncSpec

=============================================================================
