------------------------- MODULE BridgeInput_proofs -------------------------
(***************************************************************************)
(* Type correctness of BridgeInput, that its handlers tell the loop the    *)
(* truth about their requests, and that it implements InputStream, for any *)
(* terminal, buffer size, capacities and initial texts.                    *)
(***************************************************************************)
EXTENDS BridgeInput, SequenceTheorems, TLAPS

-----------------------------------------------------------------------------
(* The inductive invariant *)

\* On whose behalf batches are read.
ModeInv ==
  /\ pc \in {"rest", "reply"} => mode = "none"
  /\ pc = "consume" => mode \in {"accumulate", "own"}
  /\ pc = "prepare" => mode = "prepare"
  /\ pc = "take" => mode \in {"accumulate", "own", "prepare", "one"}
  /\ pc = "process" => mode # "none"
  /\ pc = "done" => mode \in {"accumulate", "own", "one"}
  /\ mode = "initial" => pc = "process"
  /\ pc = "take" /\ mode = "prepare" => buf = <<>> /\ queued # <<>>

\* What the bridge holds for the request, at every point of its handler.
HoldsInv ==
  /\ request \in {"waiting", "empty_reply"} => kind # "None"
  /\ request \in {"none", "prepared", "lost"} => kind = "None"
  /\ request = "empty_reply" => kind = "RawRead"
  /\ request = "serving" =>
       /\ kind # "ConsoleInput" /\ pc # "rest" /\ mode \notin {"one", "own"}
       /\ kind = "None" <=> pc = "reply" \/ mode = "prepare"
       /\ pc = "done" => kind = "RawRead"
       /\ pc = "process" /\ kind = "ConsoleRead" => ~line_found
  /\ pc = "reply" \/ mode = "prepare" => request = "serving"
  /\ pc = "consume" /\ mode = "accumulate" => request = "serving" /\ kind = "ConsoleRead"
  /\ mode = "own" => request = "prepared"
  /\ mode = "initial" => \/ request = "serving" /\ kind = "ConsoleRead"
                         \/ request = "prepared"
  /\ request = "prepared" =>
       /\ pc \in {"process", "consume", "take", "done"}
       /\ mode \in {"accumulate", "own", "initial"}
       /\ pc \in {"consume", "take"} => mode = "own"
       /\ pc = "process" /\ mode # "own" => batch = <<>>
       /\ pc = "process" /\ mode = "accumulate" => line_found
  /\ proc_z => kind \in LineKinds

\* What nobody has looked at while a client waits.
DrainedInv ==
  /\ pc = "reply" \/ request = "waiting" => queued = <<>> \/ vt_eof
  /\ kind = "ConsoleInput" => events = <<>>
  /\ kind = "ConsoleRead" /\ mode # "initial" /\ pc # "consume" => events \in Seq(SpecialKeys)

-----------------------------------------------------------------------------
(* Sequences *)

LEMMA LeastProperties ==
  ASSUME NEW m \in Nat, NEW n \in Nat
  PROVE  /\ Least(m, n) \in Nat /\ Least(m, n) <= m /\ Least(m, n) <= n
         /\ Least(m, n) \in {m, n}
BY DEF Least

LEMMA FirstProperties ==
  ASSUME NEW S, NEW s \in Seq(S), NEW n \in 0..Len(s)
  PROVE  /\ First(s, n) \in Seq(S) /\ Len(First(s, n)) = n
         /\ \A i \in 1..n : First(s, n)[i] = s[i]
BY DEF First

LEMMA AfterProperties ==
  ASSUME NEW S, NEW s \in Seq(S), NEW n \in 0..Len(s)
  PROVE  /\ After(s, n) \in Seq(S) /\ Len(After(s, n)) = Len(s) - n
         /\ \A i \in 1..(Len(s) - n) : After(s, n)[i] = s[n + i]
BY DEF After

\* Beyond the end nothing is left.
LEMMA AfterEnd ==
  ASSUME NEW S, NEW s \in Seq(S), NEW n \in Nat
  PROVE  After(s, n) \in Seq(S)
BY DEF After

LEMMA FirstAfter ==
  ASSUME NEW S, NEW s \in Seq(S), NEW n \in 0..Len(s)
  PROVE  First(s, n) \o After(s, n) = s
<1>1. 1 \in 1..Len(s) + 1 /\ n \in 1 - 1..Len(s) /\ Len(s) \in n..Len(s)
  OBVIOUS
<1>2. SubSeq(s, 1, n) \o SubSeq(s, n + 1, Len(s)) = SubSeq(s, 1, Len(s))
  BY <1>1, ConcatAdjacentSubSeq, Zenon
<1>3. QED
  BY <1>2, SubSeqFull, Zenon DEF First, After

LEMMA ConcatTypes ==
  ASSUME NEW S, NEW s \in Seq(S), NEW t \in Seq(S)
  PROVE  s \o t \in Seq(S) /\ Len(s \o t) = Len(s) + Len(t)
BY ConcatProperties

LEMMA EmptyConcat ==
  ASSUME NEW S, NEW s \in Seq(S)
  PROVE  <<>> \o s = s /\ s \o <<>> = s
BY ConcatEmptySeq

LEMMA FirstAll ==
  ASSUME NEW S, NEW s \in Seq(S)
  PROVE  First(s, Len(s)) = s /\ First(s, 0) = <<>> /\ After(s, 0) = s /\ After(s, Len(s)) = <<>>
<1>1. Len(s) \in Nat
  OBVIOUS
<1>2. First(s, Len(s)) = s
  BY SubSeqFull DEF First
<1>3. After(s, 0) = s
  BY SubSeqFull DEF After
<1>4. First(s, 0) = <<>>
  BY DEF First
<1>5. After(s, Len(s)) = <<>>
  BY <1>1 DEF After
<1>6. QED
  BY <1>2, <1>3, <1>4, <1>5

\* The front of a concatenation.
LEMMA ConcatFront ==
  ASSUME NEW S, NEW s \in Seq(S), NEW t \in Seq(S), s # <<>>
  PROVE  /\ s \o t \in Seq(S) /\ s \o t # <<>> /\ Head(s \o t) = Head(s)
         /\ Tail(s \o t) = Tail(s) \o t /\ After(s \o t, 1) = Tail(s) \o t
<1>1. s \o t \in Seq(S) /\ Len(s \o t) = Len(s) + Len(t)
  BY ConcatTypes
<1>2. Len(s) \in Nat /\ Len(s) > 0 /\ Len(t) \in Nat
  OBVIOUS
<1>3. s \o t # <<>>
  BY <1>1, <1>2
<1>4. Head(s \o t) = Head(s)
  BY <1>1, <1>2, <1>3, ConcatProperties
<1>5. Tail(s \o t) = Tail(s) \o t
  <2>1. Tail(s) \in Seq(S) /\ Len(Tail(s)) = Len(s) - 1
    BY HeadTailProperties
  <2>2. Tail(s \o t) \in Seq(S) /\ Len(Tail(s \o t)) = Len(s) + Len(t) - 1
    BY <1>1, <1>3, HeadTailProperties
  <2>3. Tail(s) \o t \in Seq(S) /\ Len(Tail(s) \o t) = Len(s) - 1 + Len(t)
    BY <2>1, ConcatTypes
  <2>4. ASSUME NEW i \in 1..(Len(s) + Len(t) - 1)
        PROVE  Tail(s \o t)[i] = (Tail(s) \o t)[i]
    <3>1. Tail(s \o t)[i] = (s \o t)[i + 1]
      BY <1>1, <1>3, <2>2, HeadTailProperties
    <3>2. CASE i <= Len(s) - 1
      BY <1>1, <1>2, <2>1, <2>2, <3>1, <3>2, ConcatProperties, HeadTailProperties
    <3>3. CASE i > Len(s) - 1
      BY <1>1, <1>2, <2>1, <2>2, <3>1, <3>3, ConcatProperties
    <3>4. QED
      BY <1>2, <3>2, <3>3
  <2>5. QED
    BY <1>2, <2>2, <2>3, <2>4, SeqEqual
<1>6. After(s \o t, 1) = Tail(s \o t)
  BY <1>1, <1>3, TailIsSubSeq DEF After
<1>7. QED
  BY <1>1, <1>3, <1>4, <1>5, <1>6

LEMMA FirstOne ==
  ASSUME NEW S, NEW s \in Seq(S), s # <<>>
  PROVE  First(s, 1) = <<Head(s)>>
<1>1. Head(s) \in S /\ Len(s) \in Nat /\ Len(s) > 0 /\ Head(s) = s[1]
  OBVIOUS
<1>2. 1 \in 0..Len(s) /\ <<Head(s)>> \in Seq(S) /\ Len(<<Head(s)>>) = 1 /\ <<Head(s)>>[1] = s[1]
  BY <1>1
<1>3. /\ First(s, 1) \in Seq(S) /\ Len(First(s, 1)) = 1
      /\ \A i \in 1..1 : First(s, 1)[i] = s[i]
  BY <1>2, FirstProperties, Zenon
<1>4. \A i \in 1..1 : First(s, 1)[i] = <<Head(s)>>[i]
  BY <1>2, <1>3
<1>5. QED
  BY <1>2, <1>3, <1>4, SeqEqual

LEMMA HeadAndTail ==
  ASSUME NEW S, NEW s \in Seq(S), s # <<>>
  PROVE  /\ Head(s) \in S /\ Tail(s) \in Seq(S) /\ s = <<Head(s)>> \o Tail(s)
         /\ After(s, 1) = Tail(s) /\ Len(s) \in Nat /\ Len(s) > 0 /\ Head(s) = s[1]
<1>1. Head(s) \in S /\ Tail(s) \in Seq(S) /\ Len(s) \in Nat /\ Len(s) > 0 /\ Head(s) = s[1]
  OBVIOUS
<1>2. After(s, 1) = Tail(s)
  BY TailIsSubSeq DEF After
<1>3. First(s, 1) = <<Head(s)>>
  BY FirstOne
<1>4. First(s, 1) \o After(s, 1) = s
  BY <1>1, FirstAfter
<1>5. QED
  BY <1>1, <1>2, <1>3, <1>4

\* Cutting a concatenation in or behind its second part.
LEMMA ConcatCut ==
  ASSUME NEW S, NEW c \in Seq(S), NEW s \in Seq(S), NEW n \in 0..Len(s)
  PROVE  /\ Len(c) + n \in 0..Len(c \o s)
         /\ First(c \o s, Len(c) + n) = c \o First(s, n)
         /\ After(c \o s, Len(c) + n) = After(s, n)
<1>1. c \o s \in Seq(S) /\ Len(c \o s) = Len(c) + Len(s) /\ Len(c) \in Nat /\ Len(s) \in Nat
  BY ConcatTypes
<1>2. Len(c) + n \in 0..Len(c \o s) /\ n \in Nat
  BY <1>1
<1>3. /\ First(s, n) \in Seq(S) /\ Len(First(s, n)) = n
      /\ After(s, n) \in Seq(S) /\ Len(After(s, n)) = Len(s) - n
  BY FirstProperties, AfterProperties
<1>4. First(c \o s, Len(c) + n) = c \o First(s, n)
  <2>1. /\ First(c \o s, Len(c) + n) \in Seq(S) /\ Len(First(c \o s, Len(c) + n)) = Len(c) + n
        /\ c \o First(s, n) \in Seq(S) /\ Len(c \o First(s, n)) = Len(c) + n
    <3>1. /\ First(c \o s, Len(c) + n) \in Seq(S)
          /\ Len(First(c \o s, Len(c) + n)) = Len(c) + n
      BY <1>1, <1>2, FirstProperties, Zenon
    <3>2. c \o First(s, n) \in Seq(S) /\ Len(c \o First(s, n)) = Len(c) + n
      BY <1>3, ConcatTypes, Zenon
    <3>3. QED
      BY <3>1, <3>2
  <2>2. ASSUME NEW i \in 1..(Len(c) + n)
        PROVE  First(c \o s, Len(c) + n)[i] = (c \o First(s, n))[i]
    <3>1. First(c \o s, Len(c) + n)[i] = (c \o s)[i]
      BY <1>1, <1>2, FirstProperties
    <3>2. i \in 1..(Len(c) + Len(s)) /\ i \in 1..(Len(c) + Len(First(s, n)))
      BY <1>1, <1>2, <1>3
    <3>3. (c \o s)[i] = IF i <= Len(c) THEN c[i] ELSE s[i - Len(c)]
      BY <3>2, ConcatProperties
    <3>4. (c \o First(s, n))[i] = IF i <= Len(c) THEN c[i] ELSE First(s, n)[i - Len(c)]
      BY <1>3, <3>2, ConcatProperties
    <3>5. ~(i <= Len(c)) => First(s, n)[i - Len(c)] = s[i - Len(c)]
      BY <1>1, <1>2, FirstProperties
    <3>6. QED
      BY <3>1, <3>3, <3>4, <3>5
  <2>3. QED
    BY <2>1, <2>2, SeqEqual
<1>5. After(c \o s, Len(c) + n) = After(s, n)
  <2>1. /\ After(c \o s, Len(c) + n) \in Seq(S)
        /\ Len(After(c \o s, Len(c) + n)) = Len(s) - n
    <3>1. /\ After(c \o s, Len(c) + n) \in Seq(S)
          /\ Len(After(c \o s, Len(c) + n)) = Len(c \o s) - (Len(c) + n)
      BY <1>1, <1>2, AfterProperties, Zenon
    <3>2. Len(c \o s) - (Len(c) + n) = Len(s) - n
      BY <1>1, <1>2
    <3>3. QED
      BY <3>1, <3>2, Zenon
  <2>2. ASSUME NEW i \in 1..(Len(s) - n)
        PROVE  After(c \o s, Len(c) + n)[i] = After(s, n)[i]
    <3>1. After(c \o s, Len(c) + n)[i] = (c \o s)[Len(c) + n + i]
      <4>1. i \in 1..(Len(c \o s) - (Len(c) + n))
        BY <1>1, <1>2
      <4>2. QED
        BY <1>1, <1>2, <4>1, AfterProperties, Zenon
    <3>2. Len(c) + n + i \in 1..(Len(c) + Len(s)) /\ ~(Len(c) + n + i <= Len(c))
      BY <1>1, <1>2
    <3>3. (c \o s)[Len(c) + n + i] = s[Len(c) + n + i - Len(c)]
      BY <3>2, ConcatProperties
    <3>4. Len(c) + n + i - Len(c) = n + i
      BY <1>1, <1>2
    <3>5. After(s, n)[i] = s[n + i]
      BY AfterProperties
    <3>6. QED
      BY <3>1, <3>3, <3>4, <3>5
  <2>3. QED
    BY <1>3, <2>1, <2>2, SeqEqual
<1>6. QED
  BY <1>2, <1>4, <1>5

\* Cutting a concatenation in its first part.
LEMMA ConcatFirst ==
  ASSUME NEW S, NEW s \in Seq(S), NEW t \in Seq(S), NEW n \in 0..Len(s)
  PROVE  /\ n \in 0..Len(s \o t)
         /\ First(s \o t, n) = First(s, n)
         /\ After(s \o t, n) = After(s, n) \o t
<1> DEFINE f == First(s, n)
           a == After(s, n)
           r == a \o t
           u == s \o t
<1>1. f \in Seq(S) /\ Len(f) = n /\ a \in Seq(S) /\ f \o a = s
  BY FirstProperties, AfterProperties, FirstAfter
<1>2. n \in Nat
  OBVIOUS
<1>3. (f \o a) \o t = f \o (a \o t)
  <2>1. f \in Seq(S) /\ a \in Seq(S)
    BY <1>1
  <2> HIDE DEF f, a
  <2>2. QED
    BY <2>1, ConcatAssociative, SMTT(30)
<1>4. u = f \o r
  BY <1>1, <1>3, Zenon
<1>5. r \in Seq(S) /\ Len(r) \in Nat
  BY <1>1, ConcatTypes
<1> HIDE DEF f, a, r, u
<1>6. 0 \in 0..Len(r)
  BY <1>5
<1>7. /\ Len(f) + 0 \in 0..Len(u)
      /\ First(u, Len(f) + 0) = f \o First(r, 0)
      /\ After(u, Len(f) + 0) = After(r, 0)
  BY <1>1, <1>4, <1>5, <1>6, ConcatCut, ZenonT(60)
<1>8. Len(f) + 0 = n
  BY <1>1, <1>2
<1>9. f \o First(r, 0) = f /\ After(r, 0) = r
  BY <1>1, <1>5, FirstAll, EmptyConcat
<1>10. n \in 0..Len(u) /\ First(u, n) = f /\ After(u, n) = r
  BY <1>7, <1>8, <1>9
<1>11. QED
  BY <1>10, Zenon DEF f, a, r, u

\* Where an element of a concatenation comes from.
LEMMA ConcatElements ==
  ASSUME NEW S, NEW c \in Seq(S), NEW s \in Seq(S)
  PROVE  /\ \A i \in 1..Len(c) : (c \o s)[i] = c[i]
         /\ \A i \in 1..Len(s) : (c \o s)[Len(c) + i] = s[i]
<1>1. Len(c) \in Nat /\ Len(s) \in Nat
  OBVIOUS
<1>2. ASSUME NEW i \in 1..Len(c) PROVE (c \o s)[i] = c[i]
  BY <1>1, ConcatProperties
<1>3. ASSUME NEW i \in 1..Len(s) PROVE (c \o s)[Len(c) + i] = s[i]
  <2>1. Len(c) + i \in 1..(Len(c) + Len(s)) /\ ~(Len(c) + i <= Len(c)) /\ Len(c) + i - Len(c) = i
    BY <1>1
  <2>2. (c \o s)[Len(c) + i] = s[Len(c) + i - Len(c)]
    BY <2>1, ConcatProperties
  <2>3. QED
    BY <2>1, <2>2
<1>4. QED
  BY <1>2, <1>3

LEMMA AppendConcat ==
  ASSUME NEW S, NEW s \in Seq(S), NEW t \in Seq(S), NEW b \in S
  PROVE  /\ Append(s, b) \in Seq(S) /\ <<b>> \in Seq(S) /\ Append(s, b) = s \o <<b>>
         /\ Append(s, b) \o t = s \o (<<b>> \o t)
         /\ s \o Append(t, b) = Append(s \o t, b)
<1>1. /\ Append(s, b) \in Seq(S) /\ <<b>> \in Seq(S) /\ Append(s, b) = s \o <<b>>
      /\ Append(t, b) = t \o <<b>>
  BY AppendIsConcat
<1>2. s \o t \in Seq(S)
  BY ConcatTypes
<1>3. Append(s \o t, b) = (s \o t) \o <<b>>
  BY <1>2, AppendIsConcat
<1>4. QED
  BY <1>1, <1>2, <1>3, ConcatAssociative

-----------------------------------------------------------------------------
(* Types *)

\* The types, one by one.
LEMMA Types ==
  TypeOK <=>
    /\ pipe \in Seq(AllBytes) /\ queued \in Seq(AllBytes) /\ buf \in Seq(AllBytes)
    /\ batch \in Seq(AllBytes) /\ events \in Seq(AllBytes) /\ line \in Seq(AllBytes)
    /\ Len(buf) <= ReadBufSize /\ typed \in 0..MaxBytes
    /\ closed \in BOOLEAN /\ line_found \in BOOLEAN /\ vt_eof \in BOOLEAN
    /\ kind \in Kinds /\ cap \in 1..ReadBufSize /\ proc_z \in BOOLEAN
    /\ pc \in {"rest", "take", "process", "consume", "prepare", "reply", "done"}
    /\ mode \in {"none", "accumulate", "initial", "own", "prepare", "one"}
    /\ request \in {"none", "serving", "prepared", "waiting", "empty_reply", "lost"}
<1>1. {pipe, queued, buf, batch, events, line} \subseteq Seq(AllBytes) <=>
        /\ pipe \in Seq(AllBytes) /\ queued \in Seq(AllBytes) /\ buf \in Seq(AllBytes)
        /\ batch \in Seq(AllBytes) /\ events \in Seq(AllBytes) /\ line \in Seq(AllBytes)
  OBVIOUS
<1>2. {closed, line_found, vt_eof} \subseteq BOOLEAN <=>
        closed \in BOOLEAN /\ line_found \in BOOLEAN /\ vt_eof \in BOOLEAN
  BY Zenon
<1>3. QED
  BY <1>1, <1>2, Zenon DEF TypeOK

LEMMA CompletePendingTypes ==
  ASSUME TypeOK, NEW bytes \in Seq(AllBytes), Len(bytes) <= ReadBufSize, NEW how,
         CompletePending(bytes, how)
  PROVE  /\ buf' \in Seq(AllBytes) /\ Len(buf') <= ReadBufSize /\ line' \in Seq(AllBytes)
         /\ kind' \in Kinds /\ proc_z' \in BOOLEAN
         /\ request' \in {"none", "serving", "prepared", "waiting", "empty_reply", "lost"}
<1>1. <<>> \in Seq(AllBytes) /\ Len(<<>>) = 0 /\ 0 <= ReadBufSize
  BY SizesAssumption
<1>2. QED
  BY <1>1, Types DEF CompletePending, Completed, Kinds

LEMMA QueueKeyTypes ==
  ASSUME TypeOK, NEW b \in AllBytes, QueueKey(b)
  PROVE  /\ events' \in Seq(AllBytes) /\ kind' \in Kinds
         /\ request' \in {"none", "serving", "prepared", "waiting", "empty_reply", "lost"}
<1>1. Append(events, b) \in Seq(AllBytes)
  BY Types
<1>2. QED
  BY <1>1, Types DEF QueueKey, Completed, Kinds

LEMMA ConsumedTypes ==
  ASSUME TypeOK, NEW rest \in Seq(AllBytes)
  PROVE  Consumed(rest) \in Seq(AllBytes) /\ Len(Consumed(rest)) <= ReadBufSize
<1>1. buf \in Seq(AllBytes) /\ Len(buf) \in Nat /\ Len(rest) \in Nat /\ Len(buf) <= ReadBufSize
  BY Types
<1>2. Least(Len(rest), Len(buf)) \in 0..Len(buf)
  BY <1>1, LeastProperties
<1>3. Len(buf) - Least(Len(rest), Len(buf)) \in 0..Len(buf)
  BY <1>1, <1>2
<1>4. QED
  BY <1>1, <1>3, FirstProperties, SizesAssumption DEF Consumed

\* What a batch leaves and what is put back.
LEMMA BatchTypes ==
  ASSUME TypeOK, batch # <<>>
  PROVE  /\ Head(batch) \in AllBytes /\ Tail(batch) \in Seq(AllBytes)
         /\ Tail(batch) \o queued \in Seq(AllBytes)
         /\ \A b : /\ After(batch, ConsumedEnd(b)) \in Seq(AllBytes)
                   /\ After(batch, ConsumedEnd(b)) \o queued \in Seq(AllBytes)
<1>1. batch \in Seq(AllBytes) /\ queued \in Seq(AllBytes)
  BY Types
<1>2. Head(batch) \in AllBytes /\ Tail(batch) \in Seq(AllBytes)
  BY <1>1
<1>3. \A b : After(batch, ConsumedEnd(b)) \in Seq(AllBytes)
  BY <1>1, AfterEnd DEF ConsumedEnd
<1>4. QED
  BY <1>1, <1>2, <1>3, ConcatTypes

LEMMA LfTypes ==
  ASSUME TypeOK, NEW b, LfInPipe(b)
  PROVE  /\ Tail(pipe) \in Seq(AllBytes) /\ Append(buf, "LF") \in Seq(AllBytes)
         /\ Len(buf) < ReadBufSize => Len(Append(buf, "LF")) <= ReadBufSize
<1>1. pipe \in Seq(AllBytes) /\ pipe # <<>> /\ buf \in Seq(AllBytes) /\ "LF" \in AllBytes
  BY Types DEF LfInPipe, AllBytes
<1>2. Len(buf) \in Nat
  BY <1>1
<1>3. QED
  BY <1>1, <1>2, SizesAssumption

\* The types of the next state, one by one.
LEMMA TypesNext ==
  ASSUME pipe' \in Seq(AllBytes), queued' \in Seq(AllBytes), buf' \in Seq(AllBytes),
         batch' \in Seq(AllBytes), events' \in Seq(AllBytes), line' \in Seq(AllBytes),
         Len(buf') <= ReadBufSize, typed' \in 0..MaxBytes,
         closed' \in BOOLEAN, line_found' \in BOOLEAN, vt_eof' \in BOOLEAN,
         kind' \in Kinds, cap' \in 1..ReadBufSize, proc_z' \in BOOLEAN,
         pc' \in {"rest", "take", "process", "consume", "prepare", "reply", "done"},
         mode' \in {"none", "accumulate", "initial", "own", "prepare", "one"},
         request' \in {"none", "serving", "prepared", "waiting", "empty_reply", "lost"}
  PROVE  TypeOK'
<1>1. {pipe', queued', buf', batch', events', line'} \subseteq Seq(AllBytes)
  OBVIOUS
<1>2. {closed', line_found', vt_eof'} \subseteq BOOLEAN
  BY Zenon
<1>3. QED
  BY <1>1, <1>2, Zenon DEF TypeOK

\* Room is counted from what _readbuf holds.
LEMMA RoomTypes ==
  ASSUME TypeOK, Room > 0
  PROVE  Room \in Nat /\ Len(buf) + Room <= ReadBufSize
BY Types, SizesAssumption DEF Room

\* A batch fits into _readbuf.
LEMMA TakeTypes ==
  ASSUME TypeOK, TakeBytes
  PROVE  /\ batch' \in Seq(AllBytes) /\ queued' \in Seq(AllBytes) /\ pipe' \in Seq(AllBytes)
         /\ buf' \in Seq(AllBytes) /\ Len(buf') <= ReadBufSize
<1>1. buf \in Seq(AllBytes) /\ queued \in Seq(AllBytes) /\ pipe \in Seq(AllBytes)
  BY Types
<1>2. Room \in Nat /\ Len(buf) + Room <= ReadBufSize
  BY RoomTypes DEF TakeBytes
<1>3. /\ Least(Room, Len(queued)) \in 0..Len(queued) /\ Least(Room, Len(queued)) <= Room
      /\ Least(Room, Len(pipe)) \in 0..Len(pipe) /\ Least(Room, Len(pipe)) <= Room
  <2>1. Len(queued) \in Nat /\ Len(pipe) \in Nat
    BY <1>1
  <2>2. ASSUME NEW n \in Nat
        PROVE  Least(Room, n) \in 0..n /\ Least(Room, n) <= Room
    BY <1>2 DEF Least
  <2>3. QED
    BY <2>1, <2>2
<1>4. /\ batch' \in Seq(AllBytes) /\ Len(batch') <= Room
      /\ queued' \in Seq(AllBytes) /\ pipe' \in Seq(AllBytes)
  <2>1. CASE queued # <<>>
    BY <2>1, <1>1, <1>3, FirstProperties, AfterProperties DEF TakeBytes
  <2>2. CASE queued = <<>>
    BY <2>2, <1>1, <1>3, FirstProperties, AfterProperties DEF TakeBytes
  <2>3. QED
    BY <2>1, <2>2
<1>5. buf' = buf \o batch'
  BY DEF TakeBytes
<1>6. buf' \in Seq(AllBytes) /\ Len(buf') = Len(buf) + Len(batch')
  BY <1>1, <1>4, <1>5, ConcatTypes
<1>7. Len(buf') <= ReadBufSize
  <2>1. Len(buf) \in Nat /\ Len(batch') \in Nat /\ Room \in Nat /\ ReadBufSize \in Nat
    BY <1>1, <1>2, <1>4, SizesAssumption
  <2>2. QED
    BY <2>1, <1>2, <1>4, <1>6
<1>8. QED
  BY <1>4, <1>6, <1>7

\* TypeOK and ModeInv hold together.
TypeInv == TypeOK /\ ModeInv

LEMMA TypeInit == Init => TypeInv
<1>1. SUFFICES ASSUME Init PROVE TypeInv
  OBVIOUS
<1>2. <<>> \in Seq(AllBytes) /\ Len(<<>>) = 0 /\ 0 <= ReadBufSize /\ 0 \in 0..MaxBytes
      /\ 1 \in 1..ReadBufSize
  BY SizesAssumption
<1>3. TypeOK
  BY <1>1, <1>2, Types DEF Init, Kinds
<1>4. QED
  BY <1>1, <1>3 DEF Init, ModeInv, TypeInv

LEMMA RequestTypes ==
  ASSUME TypeOK, Request
  PROVE  TypeOK'
<1>1. CASE handle_raw_read
  <2>1. <<>> \in Seq(AllBytes) /\ Len(<<>>) = 0 /\ 0 <= ReadBufSize
    BY SizesAssumption
  <2>2. QED
    BY <1>1, <2>1, Types, TypesNext, SizesAssumption DEF handle_raw_read, Serve, Kinds
<1>2. CASE handle_console_read
  <2>1. <<>> \in Seq(AllBytes)
    OBVIOUS
  <2>2. PICK t \in InitialData :
          /\ typed + Len(t) <= MaxBytes /\ typed' = typed + Len(t)
          /\ buf' = t /\ batch' = t
          /\ IF t = <<>> THEN pc' = "consume" /\ mode' = "accumulate"
                         ELSE pc' = "process" /\ mode' = "initial"
    BY <1>2 DEF handle_console_read
  <2>3. t \in Seq(AllBytes) /\ Len(t) <= ReadBufSize /\ Len(t) \in Nat
    BY SizesAssumption
  <2>4. typed' \in 0..MaxBytes
    BY <2>2, <2>3, Types, SizesAssumption
  <2>5. QED
    BY <1>2, <2>1, <2>2, <2>3, <2>4, Types, TypesNext DEF handle_console_read, Serve, Kinds
<1>3. CASE handle_console_input
  BY <1>3, Types, TypesNext DEF handle_console_input, Serve
<1>4. CASE AtEof
  BY <1>4, Types, TypesNext DEF AtEof
<1>5. QED
  BY <1>1, <1>2, <1>3, <1>4 DEF Request

\* What happens between two batches.
LEMMA BetweenTypes ==
  ASSUME TypeInv,
         \/ consume_input_buffer_for_console_read \/ prepare_console_input_events
         \/ ReplyConsoleInput \/ TakeBytes \/ BufferFull \/ NothingTyped \/ InputEnded
         \/ BatchDone \/ HandlerDone \/ on_idle \/ IdleFindsEof \/ wait_for_pending_vt_input
  PROVE  TypeOK'
<1>1. TypeOK /\ ModeInv
  BY DEF TypeInv
<1>2. <<>> \in Seq(AllBytes) /\ Len(<<>>) = 0 /\ 0 <= ReadBufSize
  BY SizesAssumption
<1>3. CASE consume_input_buffer_for_console_read
  <2>1. events # <<>> => Head(events) \in AllBytes /\ Tail(events) \in Seq(AllBytes)
    BY <1>1, Types
  <2>2. events # <<>> => Append(line, Head(events)) \in Seq(AllBytes)
    BY <1>1, <2>1, Types
  <2>3. /\ events' \in Seq(AllBytes) /\ line' \in Seq(AllBytes)
        /\ kind' \in Kinds /\ proc_z' \in BOOLEAN /\ line_found' \in BOOLEAN
        /\ buf' \in Seq(AllBytes) /\ Len(buf') <= ReadBufSize
        /\ pc' \in {"consume", "take", "rest"} /\ mode' \in {mode, "none"}
        /\ request' \in {request, "none"}
    BY <1>1, <1>2, <1>3, <2>1, <2>2, Types DEF consume_input_buffer_for_console_read, Kinds
  <2>4. UNCHANGED <<pipe, typed, closed, queued, batch, cap, vt_eof>>
    BY <1>3 DEF consume_input_buffer_for_console_read
  <2>5. QED
    BY <1>1, <2>3, <2>4, Types, TypesNext
<1>4. CASE prepare_console_input_events
  <2>1. LET n == Least(Len(pipe), ReadBufSize)
        IN  First(pipe, n) \in Seq(AllBytes) /\ After(pipe, n) \in Seq(AllBytes)
    <3>1. pipe \in Seq(AllBytes) /\ Len(pipe) \in Nat
      BY <1>1, Types
    <3>2. Least(Len(pipe), ReadBufSize) \in 0..Len(pipe)
      BY <3>1, SizesAssumption DEF Least
    <3>3. QED
      BY <3>1, <3>2, FirstProperties, AfterProperties
  <2>2. QED
    BY <1>1, <1>2, <1>4, <2>1, Types, TypesNext DEF prepare_console_input_events
<1>5. CASE ReplyConsoleInput
  <2>1. \A max \in {1, MaxBytes} : After(events, Least(Len(events), max)) \in Seq(AllBytes)
    <3>1. events \in Seq(AllBytes) /\ Len(events) \in Nat
      BY <1>1, Types
    <3>2. \A max \in {1, MaxBytes} : Least(Len(events), max) \in Nat
      BY <3>1, LeastProperties, SizesAssumption
    <3>3. QED
      BY <3>1, <3>2, AfterEnd
  <2>2. QED
    BY <1>1, <1>5, <2>1, Types, TypesNext DEF ReplyConsoleInput, Kinds
<1>6. CASE TakeBytes
  <2>1. UNCHANGED <<typed, closed, kind, cap, proc_z, line, events, vt_eof, mode, request>>
        /\ line_found' = FALSE /\ pc' = "process"
    BY <1>6 DEF TakeBytes
  <2>2. QED
    BY <1>1, <1>6, <2>1, TakeTypes, Types, TypesNext
<1>7. CASE BufferFull \/ InputEnded \/ IdleFindsEof
  <2>1. CompletePending(buf, "early")
    BY <1>7 DEF BufferFull, InputEnded, IdleFindsEof
  <2>2. /\ buf' \in Seq(AllBytes) /\ Len(buf') <= ReadBufSize /\ line' \in Seq(AllBytes)
        /\ kind' \in Kinds /\ proc_z' \in BOOLEAN
        /\ request' \in {"none", "serving", "prepared", "waiting", "empty_reply", "lost"}
    BY <1>1, <2>1, Types, CompletePendingTypes
  <2>3. QED
    BY <1>1, <1>7, <2>2, Types, TypesNext DEF BufferFull, InputEnded, IdleFindsEof
<1>8. CASE NothingTyped \/ HandlerDone
  BY <1>1, <1>8, Types, TypesNext DEF NothingTyped, HandlerDone, Returns
<1>9. CASE BatchDone
  BY <1>1, <1>9, Types, TypesNext DEF BatchDone, ModeInv
<1>10. CASE on_idle \/ wait_for_pending_vt_input
  BY <1>1, <1>10, Types, TypesNext DEF on_idle, wait_for_pending_vt_input
<1>11. QED
  BY <1>3, <1>4, <1>5, <1>6, <1>7, <1>8, <1>9, <1>10

\* process_input.
LEMMA ByteTypes ==
  ASSUME TypeOK, CtrlC \/ CtrlZ \/ Text \/ SpecialKey \/ LineEnd \/ EnterKey \/ Win32Enter
  PROVE  TypeOK'
<1>1. batch # <<>> /\ <<>> \in Seq(AllBytes) /\ Len(<<>>) = 0 /\ 0 <= ReadBufSize
  BY SizesAssumption DEF CtrlC, CtrlZ, Text, SpecialKey, LineEnd, EnterKey, Win32Enter, Byte
<1>2. /\ Tail(batch) \in Seq(AllBytes) /\ Tail(batch) \o queued \in Seq(AllBytes)
      /\ \A b : /\ After(batch, ConsumedEnd(b)) \in Seq(AllBytes)
                /\ After(batch, ConsumedEnd(b)) \o queued \in Seq(AllBytes)
  BY <1>1, BatchTypes
<1>3. CASE CtrlC
  <2>1. CASE kind \in LineKinds
    BY <1>1, <1>2, <1>3, <2>1, Types, TypesNext, CompletePendingTypes, ZenonT(60)
    DEF CtrlC, PutBack
  <2>2. CASE kind \notin LineKinds
    BY <1>2, <1>3, <2>2, Types, TypesNext, ZenonT(60) DEF CtrlC
  <2>3. QED
    BY <2>1, <2>2
<1>4. CASE CtrlZ
  <2>1. CompletePending(Consumed(Tail(batch)), "early")
    BY <1>4 DEF CtrlZ
  <2>2. QED
    BY <1>1, <1>2, <1>4, <2>1, Types, TypesNext, CompletePendingTypes, ConsumedTypes
    DEF CtrlZ, PutBack
<1>5. CASE Text
  <2>1. PICK b \in {"a", "b"} :
          /\ Byte(b)
          /\ \/ /\ kind = "ConsoleRead" /\ line' = Append(line, b)
                /\ UNCHANGED <<events, kind, request, answer>>
             \/ kind = "RawRead" /\ UNCHANGED <<line, events, kind, request, answer>>
             \/ kind \notin LineKinds /\ QueueKey(b) /\ UNCHANGED line
    BY <1>5 DEF Text
  <2>2. b \in AllBytes
    BY DEF AllBytes
  <2>3. Append(line, b) \in Seq(AllBytes)
    BY <2>2, Types
  <2>4. /\ line' \in Seq(AllBytes) /\ events' \in Seq(AllBytes) /\ kind' \in Kinds
        /\ request' \in {"none", "serving", "prepared", "waiting", "empty_reply", "lost"}
    BY <2>1, <2>2, <2>3, Types, QueueKeyTypes
  <2>5. QED
    BY <1>2, <1>5, <2>4, Types, TypesNext DEF Text
<1>6. CASE LineEnd
  <2>1. PICK b \in {"CR", "LF"} : LET rest == After(batch, ConsumedEnd(b)) IN
          /\ pipe' = IF LfInPipe(b) THEN Tail(pipe) ELSE pipe
          /\ PutBack(rest) /\ batch' = <<>> /\ line_found' = TRUE
          /\ CompletePending(IF LfInPipe(b) /\ Len(buf) < ReadBufSize THEN Append(buf, "LF")
                                                               ELSE Consumed(rest), "line")
          /\ UNCHANGED <<typed, closed, cap, events, vt_eof, pc, mode>>
    BY <1>6 DEF LineEnd
  <2>2. pipe' \in Seq(AllBytes)
    BY <2>1, LfTypes, Types
  <2>3. LET bytes == IF LfInPipe(b) /\ Len(buf) < ReadBufSize THEN Append(buf, "LF")
                                            ELSE Consumed(After(batch, ConsumedEnd(b)))
        IN  bytes \in Seq(AllBytes) /\ Len(bytes) <= ReadBufSize
    BY <1>2, LfTypes, ConsumedTypes
  <2>4. /\ buf' \in Seq(AllBytes) /\ Len(buf') <= ReadBufSize /\ line' \in Seq(AllBytes)
        /\ kind' \in Kinds /\ proc_z' \in BOOLEAN
        /\ request' \in {"none", "serving", "prepared", "waiting", "empty_reply", "lost"}
    BY <2>1, <2>3, CompletePendingTypes
  <2>5. QED
    BY <1>1, <1>2, <2>1, <2>2, <2>4, Types, TypesNext DEF PutBack
<1>7. CASE EnterKey
  <2>1. PICK b \in {"CR", "LF"} : LET rest == After(batch, ConsumedEnd(b)) IN
          /\ QueueKey(b)
          /\ pipe' = IF LfInPipe(b) THEN Tail(pipe) ELSE pipe
          /\ PutBack(rest) /\ batch' = <<>> /\ line_found' = TRUE
          /\ buf' = IF LfInPipe(b) /\ Len(buf) < ReadBufSize THEN Append(buf, "LF")
                                                              ELSE Consumed(rest)
          /\ UNCHANGED <<typed, closed, cap, proc_z, line, vt_eof, pc, mode>>
    BY <1>7 DEF EnterKey
  <2>2. pipe' \in Seq(AllBytes) /\ b \in AllBytes
    BY <2>1, LfTypes, Types DEF AllBytes
  <2>3. buf' \in Seq(AllBytes) /\ Len(buf') <= ReadBufSize
    BY <1>2, <2>1, LfTypes, ConsumedTypes
  <2>4. QED
    BY <1>1, <1>2, <2>1, <2>2, <2>3, Types, TypesNext, QueueKeyTypes DEF PutBack
<1>8. CASE Win32Enter
  <2>1. CASE kind = "ConsoleRead"
    BY <1>1, <1>2, <1>8, <2>1, Types, TypesNext, CompletePendingTypes DEF Win32Enter, PutBack
  <2>2. CASE kind # "ConsoleRead"
    <3>1. "Enter" \in AllBytes
      BY DEF AllBytes
    <3>2. QED
      BY <1>1, <1>2, <1>8, <2>2, <3>1, Types, TypesNext, QueueKeyTypes, ZenonT(60)
      DEF Win32Enter
  <2>3. QED
    BY <2>1, <2>2
<1>9. CASE SpecialKey
  <2>1. PICK b \in SpecialKeys : QueueKey(b)
    BY <1>9 DEF SpecialKey
  <2>2. b \in AllBytes
    BY DEF AllBytes, SpecialKeys
  <2>3. QED
    BY <1>2, <1>9, <2>1, <2>2, Types, TypesNext, QueueKeyTypes DEF SpecialKey
<1>10. QED
  BY <1>3, <1>4, <1>5, <1>6, <1>7, <1>8, <1>9

LEMMA ModeStep ==
  ASSUME TypeInv, [Next]_vars
  PROVE  ModeInv'
<1>1. TypeOK /\ ModeInv
  BY DEF TypeInv
<1>2. CASE UNCHANGED vars
  BY <1>1, <1>2 DEF ModeInv, vars
<1>3. CASE Request
  BY <1>1, <1>3 DEF Request, handle_raw_read, handle_console_read, handle_console_input, AtEof,
     Serve, Idle, ModeInv
<1>4. CASE consume_input_buffer_for_console_read \/ prepare_console_input_events
           \/ ReplyConsoleInput
  BY <1>1, <1>4 DEF consume_input_buffer_for_console_read, prepare_console_input_events,
     ReplyConsoleInput, ModeInv
<1>5. CASE BufferFull
  <2>1. Room # 0 \/ mode # "prepare"
    BY <1>1, <1>5, Types, SizesAssumption DEF BufferFull, Room, ModeInv
  <2>2. QED
    BY <1>1, <1>5, <2>1 DEF BufferFull, ModeInv
<1>6. CASE TakeBytes \/ NothingTyped \/ InputEnded
  BY <1>1, <1>6 DEF TakeBytes, NothingTyped, InputEnded, Returns, ModeInv
<1>7. CASE BatchDone
  BY <1>1, <1>7, Types DEF BatchDone, ModeInv
<1>8. CASE HandlerDone \/ on_idle \/ IdleFindsEof \/ wait_for_pending_vt_input
  BY <1>1, <1>8 DEF HandlerDone, Returns, on_idle, IdleFindsEof, wait_for_pending_vt_input, ModeInv
<1>9. CASE CtrlC \/ CtrlZ \/ Text \/ SpecialKey \/ LineEnd \/ EnterKey \/ Win32Enter
  <2>1. pc = "process" /\ UNCHANGED <<pc, mode>>
    BY <1>9 DEF CtrlC, CtrlZ, Text, SpecialKey, LineEnd, EnterKey, Win32Enter, Byte
  <2>2. QED
    BY <1>1, <2>1 DEF ModeInv
<1>10. CASE Type \/ CloseVt
  <2>1. UNCHANGED <<pc, mode, buf, queued>>
    BY <1>10 DEF Type, CloseVt
  <2>2. QED
    BY <1>1, <2>1 DEF ModeInv
<1>11. QED
  BY <1>2, <1>3, <1>4, <1>5, <1>6, <1>7, <1>8, <1>9, <1>10 DEF Next, Progress

LEMMA TypeStep ==
  ASSUME TypeInv, [Next]_vars
  PROVE  TypeInv'
<1>1. TypeOK /\ ModeInv
  BY DEF TypeInv
<1>2. SUFFICES TypeOK'
  BY ModeStep DEF TypeInv
<1>3. CASE UNCHANGED vars
  BY <1>1, <1>3, Types, TypesNext DEF vars
<1>4. CASE Request
  BY <1>1, <1>4, RequestTypes
<1>5. CASE \/ consume_input_buffer_for_console_read \/ prepare_console_input_events
           \/ ReplyConsoleInput \/ TakeBytes \/ BufferFull \/ NothingTyped \/ InputEnded
           \/ BatchDone \/ HandlerDone \/ on_idle \/ IdleFindsEof \/ wait_for_pending_vt_input
  BY <1>5, BetweenTypes
<1>6. CASE CtrlC \/ CtrlZ \/ Text \/ SpecialKey \/ LineEnd \/ EnterKey \/ Win32Enter
  BY <1>1, <1>6, ByteTypes
<1>7. CASE Type
  <2>1. pipe' \in Seq(AllBytes)
    BY <1>1, <1>7, Types, BytesAssumption DEF Type
  <2>2. typed' \in 0..MaxBytes
    BY <1>1, <1>7, Types, SizesAssumption DEF Type
  <2>3. UNCHANGED <<closed, queued, buf, batch, kind, cap, proc_z, line, events, line_found,
                    vt_eof, pc, mode, request, answer>>
    BY <1>7 DEF Type
  <2>4. QED
    BY <1>1, <2>1, <2>2, <2>3, Types, TypesNext
<1>8. CASE CloseVt
  BY <1>1, <1>8, Types, TypesNext DEF CloseVt
<1>9. QED
  BY <1>3, <1>4, <1>5, <1>6, <1>7, <1>8 DEF Next, Progress

\* However the batches, the put-back queue, initial text and the capacities of the reads
\* combine, _readbuf is never overrun (read_available_vt_input), for any of their sizes.
THEOREM BufferNeverOverrun == Spec => []TypeOK
<1>1. TypeInv => TypeOK
  BY DEF TypeInv
<1>2. TypeInv /\ [Next]_vars => TypeInv'
  BY TypeStep
<1>3. QED
  BY <1>1, <1>2, TypeInit, PTL DEF Spec

-----------------------------------------------------------------------------
(* Requests *)

LEMMA HoldsBetween ==
  ASSUME TypeInv, HoldsInv,
         \/ consume_input_buffer_for_console_read \/ prepare_console_input_events
         \/ ReplyConsoleInput \/ TakeBytes \/ BufferFull \/ NothingTyped \/ InputEnded
         \/ BatchDone \/ HandlerDone \/ on_idle \/ IdleFindsEof \/ wait_for_pending_vt_input
  PROVE  HoldsInv'
<1>1. TypeOK /\ ModeInv
  BY DEF TypeInv
<1>2. CASE consume_input_buffer_for_console_read
  BY <1>1, <1>2 DEF consume_input_buffer_for_console_read, ModeInv, HoldsInv
<1>3. CASE prepare_console_input_events
  BY <1>1, <1>3 DEF prepare_console_input_events, ModeInv, HoldsInv
<1>4. CASE ReplyConsoleInput
  BY <1>1, <1>4 DEF ReplyConsoleInput, LineKinds, ModeInv, HoldsInv
<1>5. CASE TakeBytes
  BY <1>1, <1>5 DEF TakeBytes, ModeInv, HoldsInv
<1>6. CASE BufferFull
  <2>1. mode # "prepare"
    BY <1>1, <1>6, Types, SizesAssumption DEF BufferFull, Room, ModeInv
  <2>2. QED
    BY <1>1, <1>6, <2>1, Types
    DEF BufferFull, CompletePending, Completed, LineKinds, Kinds, ModeInv, HoldsInv
<1>7. CASE NothingTyped
  BY <1>1, <1>7 DEF NothingTyped, Returns, ModeInv, HoldsInv
<1>8. CASE InputEnded
  BY <1>1, <1>8, Types
  DEF InputEnded, CompletePending, Completed, LineKinds, Kinds, ModeInv, HoldsInv
<1>9. CASE BatchDone
  BY <1>1, <1>9, Types DEF BatchDone, Kinds, ModeInv, HoldsInv
<1>10. CASE HandlerDone
  BY <1>1, <1>10, Types DEF HandlerDone, Returns, ModeInv, HoldsInv
<1>11. CASE on_idle \/ wait_for_pending_vt_input
  BY <1>1, <1>11 DEF on_idle, wait_for_pending_vt_input, ModeInv, HoldsInv
<1>12. CASE IdleFindsEof
  BY <1>1, <1>12, Types
  DEF IdleFindsEof, CompletePending, Completed, LineKinds, Kinds, ModeInv, HoldsInv
<1>13. QED
  BY <1>2, <1>3, <1>4, <1>5, <1>6, <1>7, <1>8, <1>9, <1>10, <1>11, <1>12

\* A line read's bytes come from its initial text or from a batch read for it; a request
\* that is answered already has no bytes left of it.
LEMMA ReadForRequest ==
  ASSUME TypeInv, HoldsInv, pc = "process", batch # <<>>
  PROVE  /\ kind # "None" /\ request = "serving" => mode \in {"accumulate", "initial"}
         /\ request = "prepared" => mode = "own"
         /\ mode \in {"initial", "prepare"} => request = "serving"
BY Types DEF TypeInv, ModeInv, HoldsInv

LEMMA HoldsByte ==
  ASSUME TypeInv, HoldsInv, CtrlC \/ CtrlZ \/ Text \/ SpecialKey \/ LineEnd \/ EnterKey \/ Win32Enter
  PROVE  HoldsInv'
<1>1. TypeOK /\ ModeInv
  BY DEF TypeInv
<1>2. CASE CtrlC
  BY <1>1, <1>2, ReadForRequest
  DEF CtrlC, Byte, CompletePending, Completed, LineKinds, ModeInv, HoldsInv
<1>3. CASE CtrlZ
  BY <1>1, <1>3, ReadForRequest
  DEF CtrlZ, Byte, CompletePending, Completed, LineKinds, ModeInv, HoldsInv
<1>4. CASE Text
  BY <1>1, <1>4, Types
  DEF Text, Byte, QueueKey, Completed, LineKinds, Kinds, ModeInv, HoldsInv
<1>5. CASE LineEnd
  BY <1>1, <1>5, ReadForRequest
  DEF LineEnd, Byte, CompletePending, Completed, LineKinds, ModeInv, HoldsInv
<1>6. CASE EnterKey
  BY <1>1, <1>6, ReadForRequest
  DEF EnterKey, Byte, QueueKey, Completed, LineKinds, ModeInv, HoldsInv
<1>7. CASE Win32Enter
  BY <1>1, <1>7, ReadForRequest, Types
  DEF Win32Enter, Byte, CompletePending, QueueKey, Completed, LineKinds, Kinds, ModeInv, HoldsInv
<1>8. CASE SpecialKey
  BY <1>1, <1>8, ReadForRequest, Types
  DEF SpecialKey, Byte, QueueKey, Completed, LineKinds, Kinds, ModeInv, HoldsInv
<1>9. QED
  BY <1>2, <1>3, <1>4, <1>5, <1>6, <1>7, <1>8

LEMMA HoldsStep ==
  ASSUME TypeInv, HoldsInv, [Next]_vars
  PROVE  HoldsInv'
<1>1. TypeOK /\ ModeInv
  BY DEF TypeInv
<1>2. CASE UNCHANGED vars
  BY <1>2 DEF vars, HoldsInv
<1>3. CASE Request
  BY <1>1, <1>3 DEF Request, handle_raw_read, handle_console_read, handle_console_input, AtEof,
     Serve, Idle, LineKinds, ModeInv, HoldsInv
<1>4. CASE Type \/ CloseVt
  <2>1. UNCHANGED <<batch, kind, proc_z, line_found, pc, mode, request>>
    BY <1>4 DEF Type, CloseVt
  <2>2. QED
    BY <2>1 DEF HoldsInv
<1>5. QED
  BY <1>2, <1>3, <1>4, HoldsBetween, HoldsByte DEF Next, Progress

\* A request is lost only when its initial text had ended it.
LEMMA LostWhere ==
  ASSUME TypeInv, HoldsInv, [Next]_vars, request' = "lost"
  PROVE  request = "lost" \/ mode = "own"
<1>1. CASE NothingTyped
  BY <1>1 DEF NothingTyped, Returns, TypeInv, ModeInv, HoldsInv
<1>2. CASE HandlerDone
  BY <1>2 DEF HandlerDone, Returns
<1>3. CASE Request
  BY <1>3 DEF Request, handle_raw_read, handle_console_read, handle_console_input, AtEof, Serve
<1>4. CASE \/ consume_input_buffer_for_console_read \/ prepare_console_input_events
           \/ ReplyConsoleInput \/ TakeBytes \/ BufferFull \/ InputEnded \/ BatchDone
           \/ on_idle \/ IdleFindsEof \/ wait_for_pending_vt_input
  BY <1>4 DEF consume_input_buffer_for_console_read, prepare_console_input_events,
     ReplyConsoleInput, TakeBytes, BufferFull, InputEnded, BatchDone, on_idle, IdleFindsEof,
     wait_for_pending_vt_input, CompletePending, Completed
<1>5. CASE CtrlC \/ CtrlZ \/ Text \/ SpecialKey \/ LineEnd \/ EnterKey \/ Win32Enter
  BY <1>5 DEF CtrlC, CtrlZ, Text, SpecialKey, LineEnd, EnterKey, Win32Enter, CompletePending,
     QueueKey, Completed
<1>6. CASE Type \/ CloseVt \/ UNCHANGED vars
  BY <1>6 DEF Type, CloseVt, vars
<1>7. QED
  BY <1>1, <1>2, <1>3, <1>4, <1>5, <1>6 DEF Next, Progress

\* Every result a handler of pipe_bridge gives is true of its request but for the two cases
\* that RequestKept names (message_router::on_message, accumulate_from_pipe), whatever was
\* typed, however it came, and whatever the initial texts are.
THEOREM HandlersTellTheTruth == Spec => RequestKept
<1>1. Init => HoldsInv
  BY DEF Init, HoldsInv
<1>2. TypeInv /\ HoldsInv /\ [Next]_vars => TypeInv' /\ HoldsInv'
  BY TypeStep, HoldsStep
<1>3. TypeInv /\ HoldsInv /\ [Next]_vars =>
        [ /\ request' = "lost" => request = "lost" \/ mode = "own"
          /\ request' = "empty_reply" => kind' = "RawRead"
          /\ pc' = "rest" => (request' \in {"waiting", "empty_reply"} <=> kind' # "None") ]_vars
  <2> SUFFICES ASSUME TypeInv, HoldsInv, [Next]_vars
               PROVE  /\ request' = "lost" => request = "lost" \/ mode = "own"
                      /\ request' = "empty_reply" => kind' = "RawRead"
                      /\ pc' = "rest" =>
                           (request' \in {"waiting", "empty_reply"} <=> kind' # "None")
    OBVIOUS
  <2>1. TypeOK' /\ HoldsInv'
    BY <1>2 DEF TypeInv
  <2>2. request' \in {"none", "serving", "prepared", "waiting", "empty_reply", "lost"}
    BY <2>1 DEF TypeOK
  <2>3. request' = "empty_reply" => kind' = "RawRead"
    BY <2>1 DEF HoldsInv
  <2>4. pc' = "rest" => (request' \in {"waiting", "empty_reply"} <=> kind' # "None")
    BY <2>1, <2>2 DEF HoldsInv
  <2>5. request' = "lost" => request = "lost" \/ mode = "own"
    BY LostWhere
  <2>6. QED
    BY <2>3, <2>4, <2>5
<1>4. QED
  BY <1>1, <1>2, <1>3, TypeInit, PTL DEF Spec, RequestKept

-----------------------------------------------------------------------------
(* Nothing typed is overlooked *)

\* Putting back only happens when the read that waited is over.
LEMMA DrainedStep ==
  ASSUME TypeInv, HoldsInv, DrainedInv, [Next]_vars
  PROVE  DrainedInv'
<1>1. TypeOK /\ ModeInv
  BY DEF TypeInv
<1>2. CASE UNCHANGED vars
  BY <1>2 DEF vars, DrainedInv
<1>3. CASE Request
  BY <1>1, <1>3 DEF Request, handle_raw_read, handle_console_read, handle_console_input, AtEof,
     Serve, Idle, ModeInv, HoldsInv, DrainedInv
<1>4. CASE consume_input_buffer_for_console_read
  <2>1. <<>> \in Seq(SpecialKeys)
    OBVIOUS
  <2>2. /\ pc = "consume" /\ mode \in {"accumulate", "own"} /\ request # "waiting"
        /\ kind # "ConsoleInput"
    BY <1>1, <1>4 DEF consume_input_buffer_for_console_read, ModeInv, HoldsInv
  <2>3. QED
    BY <1>4, <2>1, <2>2 DEF consume_input_buffer_for_console_read, DrainedInv
<1>5. CASE prepare_console_input_events
  BY <1>1, <1>5 DEF prepare_console_input_events, ModeInv, HoldsInv, DrainedInv
<1>6. CASE ReplyConsoleInput
  BY <1>1, <1>6 DEF ReplyConsoleInput, ModeInv, HoldsInv, DrainedInv
<1>7. CASE TakeBytes
  <2>1. queued = <<>> => queued' = <<>>
    BY <1>7 DEF TakeBytes
  <2>2. pc = "take" /\ pc' = "process"
        /\ UNCHANGED <<kind, events, vt_eof, mode, request>>
    BY <1>7 DEF TakeBytes
  <2>3. QED
    BY <1>1, <2>1, <2>2 DEF ModeInv, HoldsInv, DrainedInv
<1>8. CASE BufferFull \/ InputEnded \/ IdleFindsEof
  BY <1>1, <1>8 DEF BufferFull, InputEnded, IdleFindsEof, CompletePending, Completed, ModeInv,
     HoldsInv, DrainedInv
<1>9. CASE NothingTyped
  BY <1>1, <1>9 DEF NothingTyped, Returns, ModeInv, HoldsInv, DrainedInv
<1>10. CASE BatchDone
  BY <1>1, <1>10, Types DEF BatchDone, ModeInv, HoldsInv, DrainedInv
<1>11. CASE HandlerDone
  BY <1>1, <1>11, Types DEF HandlerDone, Returns, ModeInv, HoldsInv, DrainedInv
<1>12. CASE on_idle \/ wait_for_pending_vt_input
  BY <1>1, <1>12 DEF on_idle, wait_for_pending_vt_input, ModeInv, HoldsInv, DrainedInv
<1>13. CASE CtrlC \/ CtrlZ \/ LineEnd
  <2>1. \/ kind' = "None" /\ request' \in {"none", "prepared"}
        \/ UNCHANGED <<queued, kind, request>>
    BY <1>13 DEF CtrlC, CtrlZ, LineEnd, CompletePending, Completed, LineKinds, HoldsInv
  <2>2. UNCHANGED <<events, vt_eof, pc, mode>> /\ pc = "process"
    BY <1>13 DEF CtrlC, CtrlZ, LineEnd, Byte
  <2>3. QED
    BY <1>1, <2>1, <2>2 DEF DrainedInv
<1>14. CASE Text
  BY <1>1, <1>14, Types
  DEF Text, Byte, QueueKey, Completed, LineKinds, Kinds, ModeInv, HoldsInv, DrainedInv
<1>15. CASE EnterKey
  <2>1. kind' # "ConsoleInput" /\ kind' # "ConsoleRead" /\ request' # "waiting"
    BY <1>1, <1>15, Types DEF EnterKey, QueueKey, Completed, LineKinds, Kinds, HoldsInv
  <2>2. UNCHANGED <<vt_eof, pc, mode>> /\ pc = "process"
    BY <1>15 DEF EnterKey, Byte
  <2>3. QED
    BY <2>1, <2>2 DEF DrainedInv
<1>16. CASE Win32Enter
  <2>1. pc' = "process" /\ vt_eof' = vt_eof
    BY <1>16 DEF Win32Enter, Byte
  <2>2. CASE kind = "ConsoleRead"
    BY <1>16, <2>1, <2>2 DEF Win32Enter, CompletePending, Completed, DrainedInv
  <2>3. CASE kind = "RawRead"
    BY <1>16, <2>1, <2>3 DEF Win32Enter, DrainedInv
  <2>4. CASE kind \notin LineKinds
    BY <1>1, <1>16, <2>1, <2>4, Types
    DEF Win32Enter, QueueKey, Completed, LineKinds, Kinds, HoldsInv, DrainedInv
  <2>5. QED
    BY <2>2, <2>3, <2>4 DEF LineKinds
<1>17. CASE Type \/ CloseVt
  <2>1. UNCHANGED <<queued, kind, events, vt_eof, pc, mode, request>>
    BY <1>17 DEF Type, CloseVt
  <2>2. QED
    BY <2>1 DEF DrainedInv
<1>18. CASE SpecialKey
  <2>1. PICK b \in SpecialKeys : QueueKey(b)
    BY <1>18 DEF SpecialKey
  <2>2. /\ pc = "process" /\ UNCHANGED <<queued, vt_eof, pc, mode>>
    BY <1>18 DEF SpecialKey, Byte
  <2>3. events \in Seq(SpecialKeys) => Append(events, b) \in Seq(SpecialKeys)
    OBVIOUS
  <2>4. kind' = kind \/ kind' = "None"
    BY <2>1 DEF QueueKey
  <2>5. QED
    BY <1>1, <2>1, <2>2, <2>3, <2>4, Types DEF QueueKey, Completed, Kinds, HoldsInv, DrainedInv
<1>19. QED
  BY <1>2, <1>3, <1>4, <1>5, <1>6, <1>7, <1>8, <1>9, <1>10, <1>11, <1>12, <1>13, <1>14, <1>15,
     <1>16, <1>17, <1>18 DEF Next, Progress

\* No byte typed ahead waits in _queued_vt_input, and no text or Enter key in the event
\* queue, where on_idle does not look, while a client waits for input (pipe_bridge::on_idle,
\* consume_input_buffer_for_console_read, queue_unprocessed_vt_input).
THEOREM NoReadIsStranded == Spec => []WaitingMeansDrained
<1>1. Init => HoldsInv /\ DrainedInv
  BY DEF Init, HoldsInv, DrainedInv
<1>2. TypeInv /\ HoldsInv /\ DrainedInv /\ [Next]_vars => TypeInv' /\ HoldsInv' /\ DrainedInv'
  BY TypeStep, HoldsStep, DrainedStep
<1>3. TypeInv /\ HoldsInv /\ DrainedInv => WaitingMeansDrained
  BY Types DEF TypeInv, ModeInv, HoldsInv, DrainedInv, WaitingMeansDrained, Kinds
<1>4. QED
  BY <1>1, <1>2, <1>3, TypeInit, PTL DEF Spec

-----------------------------------------------------------------------------
(***************************************************************************)
(* The bridge implements InputStream: every step of BridgeInput is a step  *)
(* of the stream of keys and bytes, or changes nothing of it, but for the  *)
(* LF that LfOverlooked describes.                                         *)
(***************************************************************************)

-----------------------------------------------------------------------------
(* The mapping, and the invariant it needs *)

\* The abstract state, as StreamSpec maps it; keys and line are the bridge's own.
InBatch == IF kind = "RawRead" THEN buf ELSE batch
Ahead == InBatch \o queued \o pipe
OwnText == IF mode = "initial" THEN Len(batch) ELSE 0
Looked == IF kind = "RawRead" THEN Len(buf) - Len(batch) ELSE 0

\* Batches are finished before the next one, a raw read has room for what _readbuf holds and
\* its batch at the end of it, and only a ReadConsole has a line.
StreamInv ==
  /\ pc # "process" => batch = <<>>
  /\ kind = "RawRead" => Len(buf) <= cap /\ \E c \in Seq(AllBytes) : buf = c \o batch
  /\ kind # "ConsoleRead" => line = <<>>

LEMMA StutterIs ==
  ASSUME UNCHANGED <<line, events, Ahead, OwnText, Looked, answer>>
  PROVE  UNCHANGED Stream!vars
BY DEF Stream!vars, Ahead, InBatch, OwnText, Looked

LEMMA TypeIs ==
  ASSUME NEW b \in Bytes, Ahead' = Append(Ahead, b),
         UNCHANGED <<line, events, OwnText, Looked, answer>>
  PROVE  Stream!Type
BY DEF Stream!Type, Ahead, InBatch, OwnText, Looked

LEMMA InitialTextIs ==
  ASSUME NEW t \in InitialData, line = <<>>, OwnText = 0, Looked = 0,
         Ahead' = t \o Ahead, OwnText' = Len(t), UNCHANGED <<line, events, Looked, answer>>
  PROVE  Stream!InitialText
BY DEF Stream!InitialText, Stream!Untouched, Ahead, InBatch, OwnText, Looked

\* One byte of the initial text less.
OneLess == OwnText' = IF OwnText > 0 THEN OwnText - 1 ELSE 0

LEMMA ToKeyIs ==
  ASSUME Ahead # <<>>, Head(Ahead) # "^C", Looked = 0,
         (line = <<>> /\ OwnText = 0) \/ Head(Ahead) \in SpecialKeys,
         events' = Append(events, Head(Ahead)),
         Ahead' = After(Ahead, Stream!EndLength(Ahead, 1)),
         OneLess, UNCHANGED <<line, Looked, answer>>
  PROVE  Stream!ToKey
BY DEF Stream!ToKey, Stream!Untouched, Stream!OneLess, Stream!SpecialKeys, SpecialKeys, OneLess,
   Stream!After, After, Ahead, InBatch, OwnText, Looked

LEMMA InterruptIs ==
  ASSUME Ahead # <<>>, Head(Ahead) = "^C", line = <<>>, OwnText = 0, Looked = 0,
         Ahead' = Tail(Ahead), UNCHANGED <<line, events, OwnText, Looked, answer>>
  PROVE  Stream!Interrupt
BY DEF Stream!Interrupt, Stream!Typed, Stream!Untouched, Ahead, InBatch, OwnText, Looked

LEMMA EditKeyIs ==
  ASSUME events # <<>>, ~IsEnd(Head(events)), Looked = 0,
         line' = IF Head(events) = "^Z" THEN line ELSE Append(line, Head(events)),
         events' = Tail(events), UNCHANGED <<Ahead, OwnText, Looked, answer>>
  PROVE  Stream!EditKey
BY DEF Stream!EditKey, Stream!IsEnd, Stream!IsRawEnd, IsEnd, Ahead, InBatch, OwnText, Looked

\* Nothing that a ReadConsole edits into its line is typed before this byte.
LineFirst == Looked = 0 /\ (OwnText > 0 \/ events \in Seq(SpecialKeys))

LEMMA LineFirstIs == LineFirst => Stream!LineIsNext
BY DEF LineFirst, Stream!LineIsNext, Stream!SpecialKeys, SpecialKeys, OwnText, Looked

LEMMA EditByteIs ==
  ASSUME Ahead # <<>>, LineFirst, Head(Ahead) \in {"a", "b"},
         line' = Append(line, Head(Ahead)), Ahead' = Tail(Ahead),
         OneLess, UNCHANGED <<events, Looked, answer>>
  PROVE  Stream!EditByte
BY LineFirstIs DEF Stream!EditByte, Stream!IsEnd, Stream!IsRawEnd, Stream!SpecialKeys,
   Stream!OneLess, OneLess, Ahead, InBatch, OwnText, Looked

LEMMA LookIs ==
  ASSUME line = <<>>, OwnText = 0, Looked < Len(Ahead),
         Ahead[Looked + 1] \notin {"CR", "LF", "^C"}, Looked' = Looked + 1,
         events' = IF Ahead[Looked + 1] \in SpecialKeys THEN Append(events, Ahead[Looked + 1])
                                                        ELSE events,
         UNCHANGED <<line, Ahead, OwnText, answer>>
  PROVE  Stream!Look
BY DEF Stream!Look, Stream!IsRawEnd, Stream!SpecialKeys, SpecialKeys, Ahead, InBatch, OwnText,
   Looked

LEMMA GiveKeysIs ==
  ASSUME line = <<>>, OwnText = 0, Looked = 0,
         NEW n \in 0..Len(events), answer' = [how |-> "keys", text |-> First(events, n)],
         events' \in {events, After(events, n)}, UNCHANGED <<line, Ahead, OwnText, Looked>>
  PROVE  Stream!GiveKeys
BY DEF Stream!GiveKeys, Stream!Untouched, Stream!Answer, Stream!First, Stream!After, First, After,
   Ahead, InBatch, OwnText, Looked

LEMMA GiveNewKeyIs ==
  ASSUME line = <<>>, OwnText = 0, Looked = 0, events = <<>>, Ahead # <<>>, Head(Ahead) # "^C",
         answer' = [how |-> "keys", text |-> <<Head(Ahead)>>],
         Ahead' = After(Ahead, Stream!EndLength(Ahead, 1)),
         events' \in {events, <<Head(Ahead)>>}, UNCHANGED <<line, OwnText, Looked>>
  PROVE  Stream!GiveKeys
BY DEF Stream!GiveKeys, Stream!Untouched, Stream!Answer, Stream!After, After, Ahead, InBatch,
   OwnText, Looked

LEMMA GiveTypedLineIs ==
  ASSUME events # <<>>, IsEnd(Head(events)), events' = Tail(events),
         answer' = [how |-> "line", text |-> line], line' = <<>>, OwnText' = 0,
         UNCHANGED <<Ahead, Looked>>
  PROVE  Stream!GiveLine
BY DEF Stream!GiveLine, Stream!LineDone, Stream!IsEnd, Stream!IsRawEnd, IsEnd, Stream!Answer,
   Ahead, InBatch, OwnText, Looked

LEMMA GiveLineIs ==
  ASSUME Ahead # <<>>, IsEnd(Head(Ahead)), LineFirst,
         answer' = [how |-> "line", text |-> line], line' = <<>>, OwnText' = 0,
         Ahead' = After(Ahead, Stream!EndLength(Ahead, 1)), UNCHANGED <<events, Looked>>
  PROVE  Stream!GiveLine
BY LineFirstIs DEF Stream!GiveLine, Stream!LineDone, Stream!IsEnd, Stream!IsRawEnd, IsEnd,
   Stream!Answer, Stream!After, After, Ahead, InBatch, OwnText, Looked

LEMMA GiveLineEarlyIs ==
  ASSUME LineFirst, answer' = [how |-> "early", text |-> line], line' = <<>>, OwnText' = 0,
         Ahead' = Ahead \/ (Ahead # <<>> /\ Head(Ahead) = "^Z" /\ Ahead' = Tail(Ahead)),
         UNCHANGED <<events, Looked>>
  PROVE  Stream!GiveLineEarly
BY LineFirstIs DEF Stream!GiveLineEarly, Stream!LineDone, Stream!Typed, Stream!Answer, Ahead,
   InBatch, OwnText, Looked

LEMMA AbortLineIs ==
  ASSUME Ahead # <<>>, Head(Ahead) = "^C", LineFirst,
         answer' = [how |-> "aborted", text |-> <<>>], line' = <<>>, OwnText' = 0,
         Ahead' = Tail(Ahead), UNCHANGED <<events, Looked>>
  PROVE  Stream!AbortLine
BY LineFirstIs DEF Stream!AbortLine, Stream!LineDone, Stream!Typed, Stream!Answer, Ahead, InBatch,
   OwnText, Looked

LEMMA AbortRawIs ==
  ASSUME line = <<>>, OwnText = 0, Looked < Len(Ahead), Ahead[Looked + 1] = "^C",
         answer' = [how |-> "aborted", text |-> <<>>], Ahead' = After(Ahead, Looked + 1),
         Looked' = 0, UNCHANGED <<line, events, OwnText>>
  PROVE  Stream!AbortRaw
BY DEF Stream!AbortRaw, Stream!Answer, Stream!After, After, Ahead, InBatch, OwnText, Looked

LEMMA GiveNothingIs ==
  ASSUME answer' = [how |-> "eof", text |-> <<>>],
         UNCHANGED <<line, events, Ahead, OwnText, Looked>>
  PROVE  Stream!GiveNothing
BY DEF Stream!GiveNothing, Stream!Answer, Ahead, InBatch, OwnText, Looked

\* The abstract read has the capacity of the real one, or any that s leaves room in.
LEMMA NormalisedIs ==
  ASSUME NEW s \in Seq(AllBytes), cap \in Nat \ {0}
  PROVE  RawData(s) = Stream!Normalised(s, IF cap <= Len(s) THEN cap ELSE Len(s) + 1)
<1> DEFINE m == IF cap <= Len(s) THEN cap ELSE Len(s) + 1
           d == First(s, Least(Len(s), cap))
<1>1. Len(s) \in Nat /\ m \in Nat \ {0}
  OBVIOUS
<1>2. Least(Len(s), cap) = (IF Len(s) < m THEN Len(s) ELSE m) /\ Least(Len(s), cap) \in 0..Len(s)
  BY <1>1 DEF Least
<1>3. d = Stream!First(s, IF Len(s) < m THEN Len(s) ELSE m)
  BY <1>2 DEF Stream!First, First
<1>4. Len(d) = Least(Len(s), cap)
  BY <1>2, FirstProperties
<1>5. Len(d) \in Nat /\ Len(d) <= cap /\ (Len(d) = m <=> Len(d) = cap)
  BY <1>1, <1>4 DEF Least
<1> HIDE DEF d, m
<1>6. RawData(s) = CASE Len(d) = 0 \/ Len(d) = cap -> d
                     [] Len(d) > 0 /\ Len(d) < cap /\ d[Len(d)] = "CR" -> Append(d, "LF")
                     [] Len(d) > 0 /\ Len(d) < cap /\ d[Len(d)] = "LF"
                        /\ (Len(d) < 2 \/ d[Len(d) - 1] # "CR") ->
                          First(d, Len(d) - 1) \o <<"CR", "LF">>
                     [] OTHER -> d
  BY DEF RawData, d
<1>7. Stream!Normalised(s, m) =
        IF Len(d) = 0 \/ Len(d) = m THEN d
        ELSE IF d[Len(d)] = "CR" THEN Append(d, "LF")
        ELSE IF d[Len(d)] = "LF" /\ (Len(d) = 1 \/ d[Len(d) - 1] # "CR")
             THEN Stream!First(d, Len(d) - 1) \o <<"CR", "LF">>
        ELSE d
  BY <1>3 DEF Stream!Normalised
<1>8. Stream!First(d, Len(d) - 1) = First(d, Len(d) - 1)
  BY DEF Stream!First, First
<1>9. RawData(s) = Stream!Normalised(s, m)
  <2>1. CASE Len(d) = 0 \/ Len(d) = cap
    BY <1>5, <1>6, <1>7, <2>1
  <2>2. CASE Len(d) # 0 /\ Len(d) # cap
    <3>1. Len(d) > 0 /\ Len(d) < cap /\ Len(d) # m /\ (Len(d) < 2 <=> Len(d) = 1)
      <4> DEFINE k == Len(d)
      <4>1. k \in Nat /\ k <= cap /\ (k = m <=> k = cap) /\ k # 0 /\ k # cap
        BY <1>5, <2>2
      <4> HIDE DEF k
      <4>2. k > 0 /\ k < cap /\ k # m /\ (k < 2 <=> k = 1)
        BY <4>1
      <4>3. QED
        BY <4>2 DEF k
    <3>2. CASE d[Len(d)] = "CR"
      BY <1>6, <1>7, <2>2, <3>1, <3>2
    <3>3. CASE d[Len(d)] = "LF" /\ (Len(d) = 1 \/ d[Len(d) - 1] # "CR")
      BY <1>6, <1>7, <1>8, <2>2, <3>1, <3>3
    <3>4. CASE d[Len(d)] # "CR" /\ ~(d[Len(d)] = "LF" /\ (Len(d) = 1 \/ d[Len(d) - 1] # "CR"))
      BY <1>6, <1>7, <2>2, <3>1, <3>4
    <3>5. QED
      BY <3>2, <3>3, <3>4
  <2>3. QED
    BY <2>1, <2>2
<1>10. QED
  BY <1>9 DEF m

LEMMA GiveRawIs ==
  ASSUME TypeOK, line = <<>>, OwnText = 0, Looked \in Nat, Ahead \in Seq(AllBytes),
         NEW n \in Looked..Len(Ahead), NEW t \in Seq(AllBytes),
         \/ n = Looked
         \/ n = Looked + 1 /\ Ahead[n] \in {"CR", "LF", "^Z"}
         \/ n = Looked + 2 /\ Ahead[n - 1] = "CR" /\ Ahead[n] = "LF",
         n > Looked /\ Ahead[n] = "CR" /\ n < Len(Ahead) /\ Ahead[n + 1] = "LF" => n = cap,
         n > cap => n = cap + 1 /\ Ahead[cap] = "CR",
         RawData(t) = RawData(First(Ahead, n)), answer' = [how |-> "raw", text |-> RawData(t)],
         Ahead' = After(Ahead, n), Looked' = 0, UNCHANGED <<line, events, OwnText>>
  PROVE  Stream!GiveRaw
<1> DEFINE s == First(Ahead, n)
           m == IF cap <= n THEN cap ELSE n + 1
<1>1. cap \in Nat \ {0} /\ n \in Nat /\ Len(Ahead) \in Nat /\ n \in 0..Len(Ahead)
  BY Types, SizesAssumption, SMTT(30)
<1>2. s \in Seq(AllBytes) /\ Len(s) = n /\ \A k \in 1..n : s[k] = Ahead[k]
  BY <1>1, FirstProperties
<1>3. m \in 1..(Len(Ahead) + 2)
  BY <1>1
<1>4. RawData(s) = Stream!Normalised(s, m)
  BY <1>1, <1>2, NormalisedIs
<1>5. /\ n = Looked \/ (n = Looked + 1 /\ (Stream!IsRawEnd(s[n]) \/ s[n] = "^Z"))
           \/ (n = Looked + 2 /\ s[n - 1] = "CR" /\ s[n] = "LF")
      /\ n > Looked /\ s[n] = "CR" /\ n < Len(Ahead) /\ Ahead[n + 1] = "LF" => n = m
      /\ n > m => n = m + 1 /\ s[m] = "CR"
  <2>1. n > 0 => s[n] = Ahead[n]
    BY <1>1, <1>2
  <2>2. n > 1 => s[n - 1] = Ahead[n - 1]
    BY <1>1, <1>2
  <2>3. n = Looked \/ (n = Looked + 1 /\ (Stream!IsRawEnd(s[n]) \/ s[n] = "^Z"))
           \/ (n = Looked + 2 /\ s[n - 1] = "CR" /\ s[n] = "LF")
    BY <1>1, <2>1, <2>2 DEF Stream!IsRawEnd
  <2>4. n > Looked /\ s[n] = "CR" /\ n < Len(Ahead) /\ Ahead[n + 1] = "LF" => n = m
    BY <1>1, <2>1
  <2>5. n > m => n = m + 1 /\ s[m] = "CR"
    BY <1>1, <1>2
  <2>6. QED
    BY <2>3, <2>4, <2>5
<1>6. s = Stream!First(Ahead, n) /\ Ahead' = Stream!After(Ahead, n)
  BY DEF Stream!First, First, Stream!After, After
<1>7. answer' = [how |-> "raw", text |-> Stream!Normalised(s, m)]
  BY <1>4
<1> HIDE DEF s, m
<1>8. QED
  BY <1>3, <1>5, <1>6, <1>7, ZenonT(60)
  DEF Stream!GiveRaw, Stream!Answer, Ahead, InBatch, OwnText, Looked

-----------------------------------------------------------------------------
(* The mapped state *)

\* The invariants that the mapping rests on.
BridgeInv == TypeInv /\ HoldsInv /\ DrainedInv /\ StreamInv

LEMMA AheadIs ==
  ASSUME TypeOK
  PROVE  /\ InBatch \in Seq(AllBytes) /\ queued \o pipe \in Seq(AllBytes)
         /\ InBatch \o queued \in Seq(AllBytes)
         /\ Ahead = InBatch \o (queued \o pipe)
         /\ Ahead \in Seq(AllBytes)
<1>1. InBatch \in Seq(AllBytes) /\ queued \in Seq(AllBytes) /\ pipe \in Seq(AllBytes)
  BY Types DEF InBatch
<1>2. queued \o pipe \in Seq(AllBytes) /\ InBatch \o queued \in Seq(AllBytes)
  BY <1>1, ConcatTypes
<1>3. Ahead = InBatch \o (queued \o pipe)
  BY <1>1, ConcatAssociative DEF Ahead
<1>4. Ahead \in Seq(AllBytes)
  BY <1>1, <1>2, <1>3, ConcatTypes
<1>5. QED
  BY <1>1, <1>2, <1>3, <1>4

LEMMA AheadNextIs ==
  ASSUME TypeOK'
  PROVE  Ahead' = InBatch' \o (queued' \o pipe')
<1>1. {pipe', queued', buf', batch', events', line'} \subseteq Seq(AllBytes)
  BY DEF TypeOK
<1>2. InBatch' \in Seq(AllBytes) /\ queued' \in Seq(AllBytes) /\ pipe' \in Seq(AllBytes)
  BY <1>1 DEF InBatch
<1>3. QED
  BY <1>2, ConcatAssociative, SMTT(30) DEF Ahead

\* An empty batch holds no initial text.
LEMMA NoBatch ==
  ASSUME batch = <<>>
  PROVE  OwnText = 0
BY DEF OwnText

LEMMA NoNextBatch ==
  ASSUME batch' = <<>>
  PROVE  OwnText' = 0
BY DEF OwnText

\* While no ReadConsole waits there is no initial text and no line.
LEMMA NoLineRead ==
  ASSUME BridgeInv, kind # "ConsoleRead"
  PROVE  /\ line = <<>> /\ OwnText = 0
         /\ kind # "RawRead" => Looked = 0
         /\ batch # <<>> => mode # "initial"
<1>1. line = <<>>
  BY DEF BridgeInv, StreamInv
<1>2. mode = "initial" => batch = <<>>
  BY DEF BridgeInv, HoldsInv, TypeInv, ModeInv
<1>3. OwnText = 0
  BY <1>2 DEF OwnText
<1>4. QED
  BY <1>1, <1>2, <1>3 DEF Looked

\* A ReadConsole's line comes before what is typed and, but for its initial text, before
\* every key that is queued.
LEMMA LineIs ==
  ASSUME BridgeInv, kind = "ConsoleRead", pc # "consume", batch # <<>> \/ mode # "initial"
  PROVE  LineFirst
<1>1. mode # "initial" => events \in Seq(SpecialKeys)
  BY DEF BridgeInv, DrainedInv
<1>2. batch # <<>> => Len(batch) > 0
  BY Types DEF BridgeInv, TypeInv
<1>3. QED
  BY <1>1, <1>2 DEF LineFirst, OwnText, Looked

\* What a step of the bridge does in InputStream.
StreamStep == Stream!Next \/ LfOverlooked \/ UNCHANGED Stream!vars

LEMMA RequestMapped ==
  ASSUME BridgeInv, Request
  PROVE  StreamStep
<1>1. AtEof \/ (pc = "rest" /\ kind = "None" /\ mode = "none" /\ batch = <<>>)
  BY DEF Request, handle_raw_read, handle_console_read, handle_console_input, Serve, Idle,
     BridgeInv, HoldsInv, TypeInv, ModeInv, StreamInv
<1>2. CASE AtEof
  <2>1. /\ answer' = [how |-> "eof", text |-> <<>>]
        /\ UNCHANGED <<line, events, Ahead, OwnText, Looked>>
    BY <1>2 DEF AtEof, Ahead, InBatch, OwnText, Looked
  <2>2. QED
    BY <2>1, GiveNothingIs DEF StreamStep, Stream!Next
<1>3. CASE handle_raw_read /\ ~AtEof
  <2>1. /\ UNCHANGED <<line, events, queued, pipe, answer, batch>> /\ kind = "None"
        /\ batch = <<>> /\ buf' = <<>> /\ kind' = "RawRead"
    BY <1>1, <1>3 DEF handle_raw_read
  <2>2. UNCHANGED <<Ahead, OwnText>>
    BY <2>1, NoBatch, NoNextBatch DEF Ahead, InBatch
  <2>3. Looked' = 0 /\ Looked = 0
    BY <2>1 DEF Looked
  <2>4. QED
    BY <2>1, <2>2, <2>3, StutterIs DEF StreamStep
<1>4. CASE handle_console_input /\ ~AtEof
  <2>1. UNCHANGED <<line, events, Ahead, Looked, answer, batch>> /\ batch = <<>>
    BY <1>1, <1>4 DEF handle_console_input, Ahead, InBatch, Looked
  <2>2. QED
    BY <2>1, NoBatch, NoNextBatch, StutterIs DEF StreamStep
<1>5. CASE handle_console_read /\ ~AtEof
  <2>1. PICK t \in InitialData :
          /\ batch' = t
          /\ mode' = IF t = <<>> THEN "accumulate" ELSE "initial"
    BY <1>5 DEF handle_console_read
  <2>2. t \in Seq(AllBytes) /\ TypeOK
    BY SizesAssumption DEF BridgeInv, TypeInv
  <2>3. /\ line' = <<>> /\ kind' = "ConsoleRead" /\ kind = "None" /\ batch = <<>>
        /\ UNCHANGED <<queued, pipe, events, answer>>
    BY <1>1, <1>5 DEF handle_console_read
  <2>4. line = <<>> /\ OwnText = 0 /\ Looked = 0
    BY <2>3, NoLineRead
  <2>5. Looked' = 0
    BY <2>3 DEF Looked
  <2>6. OwnText' = Len(t)
    BY <2>1, <2>2 DEF OwnText
  <2>7. Ahead' = t \o Ahead
    <3>1. queued \in Seq(AllBytes) /\ pipe \in Seq(AllBytes) /\ queued \o pipe \in Seq(AllBytes)
      BY <2>2, Types, ConcatTypes
    <3>2. Ahead' = (t \o queued) \o pipe
      BY <2>1, <2>3 DEF Ahead, InBatch
    <3>3. Ahead = queued \o pipe
      BY <2>3, <3>1, EmptyConcat DEF Ahead, InBatch
    <3>4. (t \o queued) \o pipe = t \o (queued \o pipe)
      BY <2>2, <3>1, ConcatAssociative, SMTT(30)
    <3>5. QED
      BY <3>2, <3>3, <3>4
  <2>8. Stream!InitialText
    BY <2>3, <2>4, <2>5, <2>6, <2>7, InitialTextIs
  <2>9. QED
    BY <2>8 DEF StreamStep, Stream!Next
<1>6. QED
  BY <1>2, <1>3, <1>4, <1>5 DEF Request

LEMMA TerminalMapped ==
  ASSUME BridgeInv, Type \/ CloseVt
  PROVE  StreamStep
<1>1. CASE Type
  <2>1. PICK b \in Bytes : pipe' = Append(pipe, b)
    BY <1>1 DEF Type
  <2>2. InBatch' = InBatch /\ UNCHANGED <<queued, line, events, OwnText, Looked, answer>>
    BY <1>1 DEF Type, InBatch, OwnText, Looked
  <2>3. b \in AllBytes /\ pipe \in Seq(AllBytes) /\ InBatch \o queued \in Seq(AllBytes)
    BY BytesAssumption, Types, AheadIs DEF BridgeInv, TypeInv
  <2>4. Ahead' = Append(Ahead, b)
    BY <2>1, <2>2, <2>3, AppendConcat DEF Ahead
  <2>5. QED
    BY <2>2, <2>4, TypeIs DEF StreamStep, Stream!Next
<1>2. CASE CloseVt
  BY <1>2, StutterIs DEF CloseVt, Ahead, InBatch, OwnText, Looked, StreamStep
<1>3. QED
  BY <1>1, <1>2

\* Between batches the bridge only moves bytes and keys, or looks for them.
LEMMA QuietMapped ==
  ASSUME BridgeInv,
         NothingTyped \/ BatchDone \/ HandlerDone \/ on_idle \/ wait_for_pending_vt_input
  PROVE  StreamStep
<1>1. UNCHANGED <<pipe, queued, buf, batch, kind, line, events, answer>> /\ batch = <<>>
  BY DEF NothingTyped, BatchDone, HandlerDone, on_idle, wait_for_pending_vt_input, BridgeInv,
     StreamInv
<1>2. UNCHANGED <<Ahead, OwnText, Looked>>
  BY <1>1, NoBatch, NoNextBatch DEF Ahead, InBatch, Looked
<1>3. QED
  BY <1>1, <1>2, StutterIs DEF StreamStep

\* A ReadConsole takes the keys typed ahead through the first Enter.
LEMMA ConsumeMapped ==
  ASSUME BridgeInv, consume_input_buffer_for_console_read
  PROVE  StreamStep
<1>1. /\ pc = "consume" /\ batch = <<>> /\ kind # "RawRead" /\ kind' # "RawRead"
      /\ UNCHANGED <<batch, queued, pipe>>
  BY DEF consume_input_buffer_for_console_read, BridgeInv, HoldsInv, TypeInv, ModeInv, StreamInv
<1>2. /\ UNCHANGED <<Ahead, OwnText, Looked>> /\ OwnText' = 0 /\ Looked = 0
  BY <1>1, NoBatch, NoNextBatch DEF Ahead, InBatch, Looked
<1>3. CASE UNCHANGED <<line, events, answer>>
  BY <1>2, <1>3, StutterIs DEF StreamStep
<1>4. CASE /\ events # <<>> /\ IsEnd(Head(events)) /\ events' = Tail(events)
           /\ line' = <<>> /\ answer' = [how |-> "line", text |-> line]
  BY <1>2, <1>4, GiveTypedLineIs DEF StreamStep, Stream!Next
<1>5. CASE /\ events # <<>> /\ ~IsEnd(Head(events)) /\ events' = Tail(events)
           /\ line' = IF Head(events) = "^Z" THEN line ELSE Append(line, Head(events))
           /\ answer' = answer
  BY <1>2, <1>5, EditKeyIs DEF StreamStep, Stream!Next
<1>6. QED
  BY <1>3, <1>4, <1>5 DEF consume_input_buffer_for_console_read

\* Preparing events moves bytes from the pipe to the put-back queue.
LEMMA PrepareMapped ==
  ASSUME BridgeInv, prepare_console_input_events
  PROVE  StreamStep
<1>1. kind = "None" /\ UNCHANGED <<batch, kind, events, line, answer>> /\ batch = <<>>
  BY DEF prepare_console_input_events, BridgeInv, HoldsInv, TypeInv, ModeInv, StreamInv
<1>2. queued \in Seq(AllBytes) /\ pipe \in Seq(AllBytes)
  BY Types DEF BridgeInv, TypeInv
<1>3. queued' \o pipe' = queued \o pipe
  <2>1. CASE queued = <<>> /\ pipe # <<>>
    <3>1. Len(pipe) \in Nat
      BY <1>2
    <3>2. Least(Len(pipe), ReadBufSize) \in 0..Len(pipe)
      BY <3>1, SizesAssumption DEF Least
    <3>3. First(pipe, Least(Len(pipe), ReadBufSize)) \o After(pipe, Least(Len(pipe), ReadBufSize))
            = pipe
      BY <1>2, <3>2, FirstAfter
    <3>4. <<>> \o pipe = pipe
      BY <1>2, EmptyConcat
    <3>5. QED
      BY <2>1, <3>3, <3>4 DEF prepare_console_input_events
  <2>2. CASE queued # <<>> \/ pipe = <<>>
    BY <2>2 DEF prepare_console_input_events
  <2>3. QED
    BY <2>1, <2>2
<1>4. TypeOK'
  BY BetweenTypes DEF BridgeInv
<1>5. Ahead = InBatch \o (queued \o pipe) /\ Ahead' = InBatch' \o (queued' \o pipe')
  BY <1>4, AheadIs, AheadNextIs DEF BridgeInv, TypeInv
<1>6. InBatch' = InBatch /\ UNCHANGED <<OwnText, Looked>>
  BY <1>1, NoBatch, NoNextBatch DEF InBatch, Looked
<1>7. Ahead' = Ahead
  BY <1>3, <1>5, <1>6
<1>8. QED
  BY <1>1, <1>6, <1>7, StutterIs DEF StreamStep

LEMMA ReplyMapped ==
  ASSUME BridgeInv, ReplyConsoleInput
  PROVE  StreamStep
<1>1. /\ kind = "None" /\ kind' # "RawRead" /\ batch = <<>> /\ line' = line
      /\ UNCHANGED <<batch, queued, pipe>>
  BY DEF ReplyConsoleInput, BridgeInv, HoldsInv, TypeInv, ModeInv, StreamInv
<1>2. /\ UNCHANGED <<Ahead, OwnText, Looked>> /\ line = <<>> /\ OwnText = 0 /\ Looked = 0
  BY <1>1, NoBatch, NoNextBatch, NoLineRead DEF Ahead, InBatch, Looked
<1>3. CASE UNCHANGED <<events, answer>>
  BY <1>1, <1>2, <1>3, StutterIs DEF StreamStep
<1>4. CASE \E max \in {1, MaxBytes} :
             /\ answer' = [how |-> "keys", text |-> First(events, Least(Len(events), max))]
             /\ events' \in {events, After(events, Least(Len(events), max))}
  <2>1. PICK max \in {1, MaxBytes} :
             /\ answer' = [how |-> "keys", text |-> First(events, Least(Len(events), max))]
             /\ events' \in {events, After(events, Least(Len(events), max))}
    BY <1>4
  <2>2. Len(events) \in Nat /\ max \in Nat
    BY Types, SizesAssumption DEF BridgeInv, TypeInv
  <2>3. Least(Len(events), max) \in 0..Len(events)
    BY <2>2 DEF Least
  <2>4. Stream!GiveKeys
    BY <1>1, <1>2, <2>1, <2>3, GiveKeysIs
  <2>5. QED
    BY <2>4 DEF StreamStep, Stream!Next
<1>5. QED
  BY <1>3, <1>4 DEF ReplyConsoleInput

\* A batch is the front of what is ahead, behind what a raw read has in _readbuf.
LEMMA TakeMapped ==
  ASSUME BridgeInv, TakeBytes
  PROVE  StreamStep
<1>1. /\ batch = <<>> /\ mode # "initial" /\ mode' = mode /\ buf' = buf \o batch'
      /\ UNCHANGED <<kind, line, events, answer>>
  BY DEF TakeBytes, BridgeInv, TypeInv, ModeInv, StreamInv
<1>2. /\ queued \in Seq(AllBytes) /\ pipe \in Seq(AllBytes) /\ buf \in Seq(AllBytes)
      /\ batch' \in Seq(AllBytes) /\ queued' \in Seq(AllBytes) /\ pipe' \in Seq(AllBytes)
  BY Types, TakeTypes DEF BridgeInv, TypeInv
<1>3. Room \in Nat
  BY RoomTypes DEF TakeBytes, BridgeInv, TypeInv
<1>4. batch' \o (queued' \o pipe') = queued \o pipe
  <2>1. CASE queued # <<>>
    <3>1. Len(queued) \in Nat
      BY <1>2
    <3>2. Least(Room, Len(queued)) \in 0..Len(queued)
      BY <1>3, <3>1 DEF Least
    <3>3. batch' \o queued' = queued /\ pipe' = pipe
      BY <1>2, <2>1, <3>2, FirstAfter DEF TakeBytes
    <3>4. batch' \o (queued' \o pipe') = (batch' \o queued') \o pipe'
      <4>1. batch' \in Seq(AllBytes) /\ queued' \in Seq(AllBytes) /\ pipe' \in Seq(AllBytes)
        BY <1>2
      <4>2. QED
        BY <4>1, ConcatAssociative, SMTT(30)
    <3>5. QED
      BY <3>3, <3>4
  <2>2. CASE queued = <<>>
    <3>1. Len(pipe) \in Nat
      BY <1>2
    <3>2. Least(Room, Len(pipe)) \in 0..Len(pipe)
      BY <1>3, <3>1 DEF Least
    <3>3. batch' \o pipe' = pipe /\ queued' = <<>>
      BY <1>2, <2>2, <3>2, FirstAfter DEF TakeBytes
    <3>4. queued' \o pipe' = pipe' /\ queued \o pipe = pipe
      BY <1>2, <2>2, <3>3, EmptyConcat
    <3>5. QED
      BY <3>3, <3>4
  <2>3. QED
    BY <2>1, <2>2
<1>5. TypeOK'
  BY BetweenTypes DEF BridgeInv
<1>6. Ahead = InBatch \o (queued \o pipe) /\ Ahead' = InBatch' \o (queued' \o pipe')
  BY <1>5, AheadIs, AheadNextIs DEF BridgeInv, TypeInv
<1>7. Ahead' = Ahead
  <2>1. queued \o pipe \in Seq(AllBytes) /\ queued' \o pipe' \in Seq(AllBytes)
    BY <1>2, ConcatTypes
  <2>2. CASE kind = "RawRead"
    <3>1. Ahead = buf \o (queued \o pipe) /\ Ahead' = (buf \o batch') \o (queued' \o pipe')
      BY <1>1, <1>6, <2>2 DEF InBatch
    <3>2. (buf \o batch') \o (queued' \o pipe') = buf \o (batch' \o (queued' \o pipe'))
      <4> DEFINE r == queued' \o pipe'
      <4>1. buf \in Seq(AllBytes) /\ batch' \in Seq(AllBytes) /\ r \in Seq(AllBytes)
        BY <1>2, <2>1
      <4> HIDE DEF r
      <4>2. (buf \o batch') \o r = buf \o (batch' \o r)
        BY <4>1, ConcatAssociative
      <4>3. QED
        BY <4>2, Zenon DEF r
    <3>3. QED
      BY <1>4, <3>1, <3>2
  <2>3. CASE kind # "RawRead"
    <3>1. Ahead = <<>> \o (queued \o pipe) /\ Ahead' = batch' \o (queued' \o pipe')
      BY <1>1, <1>6, <2>3 DEF InBatch
    <3>2. QED
      BY <1>4, <2>1, <3>1, EmptyConcat
  <2>4. QED
    BY <2>2, <2>3
<1>8. OwnText' = OwnText
  BY <1>1 DEF OwnText
<1>9. Looked' = Looked
  <2>1. Len(buf') = Len(buf) + Len(batch') /\ Len(buf) \in Nat /\ Len(batch') \in Nat
    BY <1>1, <1>2, ConcatTypes
  <2>2. Len(buf') - Len(batch') = Len(buf) - Len(batch)
    BY <1>1, <2>1
  <2>3. QED
    BY <1>1, <2>2 DEF Looked
<1>10. QED
  BY <1>1, <1>7, <1>8, <1>9, StutterIs DEF StreamStep

-----------------------------------------------------------------------------
(* Reads that end *)

\* What a raw read has taken into _readbuf comes before the rest of its batch.
LEMMA RawIs ==
  ASSUME BridgeInv, kind = "RawRead"
  PROVE  /\ line = <<>> /\ OwnText = 0 /\ cap \in 1..ReadBufSize /\ Len(buf) <= cap
         /\ \E c \in Seq(AllBytes) :
              /\ buf = c \o batch
              /\ Looked = Len(c)
              /\ Ahead = c \o (batch \o (queued \o pipe))
<1>1. TypeOK /\ Len(buf) <= cap /\ cap \in 1..ReadBufSize
  BY Types DEF BridgeInv, TypeInv, StreamInv
<1>2. PICK c \in Seq(AllBytes) : buf = c \o batch
  BY DEF BridgeInv, StreamInv
<1>3. Looked = Len(c)
  <2>1. Len(buf) = Len(c) + Len(batch) /\ Len(c) \in Nat /\ Len(batch) \in Nat
    BY <1>1, <1>2, Types, ConcatTypes
  <2>2. QED
    BY <2>1 DEF Looked
<1>4. queued \o pipe \in Seq(AllBytes) /\ batch \in Seq(AllBytes)
      /\ Ahead = buf \o (queued \o pipe)
  BY <1>1, AheadIs, Types DEF InBatch
<1>5. Ahead = c \o (batch \o (queued \o pipe))
  <2> DEFINE r == queued \o pipe
  <2>1. c \in Seq(AllBytes) /\ batch \in Seq(AllBytes) /\ r \in Seq(AllBytes)
    BY <1>2, <1>4
  <2> HIDE DEF r
  <2>2. (c \o batch) \o r = c \o (batch \o r)
    BY <2>1, ConcatAssociative
  <2>3. QED
    BY <1>2, <1>4, <2>2, Zenon DEF r
<1>6. line = <<>> /\ OwnText = 0
  BY NoLineRead
<1>7. QED
  BY <1>1, <1>2, <1>3, <1>5, <1>6

\* In front of what is ahead of the others is their batch.
LEMMA BatchIs ==
  ASSUME BridgeInv, batch # <<>>, kind # "RawRead"
  PROVE  /\ Ahead # <<>> /\ Head(Ahead) = Head(batch) /\ Ahead = batch \o (queued \o pipe)
         /\ Tail(Ahead) = Tail(batch) \o (queued \o pipe)
<1>1. batch \in Seq(AllBytes) /\ queued \o pipe \in Seq(AllBytes)
      /\ Ahead = batch \o (queued \o pipe)
  BY AheadIs, Types DEF BridgeInv, TypeInv, InBatch
<1>2. \A r \in Seq(AllBytes) : /\ batch \o r # <<>> /\ Head(batch \o r) = Head(batch)
                              /\ Tail(batch \o r) = Tail(batch) \o r
  <2> SUFFICES ASSUME NEW r \in Seq(AllBytes)
               PROVE  /\ batch \o r # <<>> /\ Head(batch \o r) = Head(batch)
                      /\ Tail(batch \o r) = Tail(batch) \o r
    OBVIOUS
  <2>1. batch \in Seq(AllBytes) /\ batch # <<>>
    BY <1>1
  <2>2. QED
    BY <2>1, ConcatFront
<1>3. QED
  BY <1>1, <1>2, Zenon

\* What is put back is in front again when the read has ended.
LEMMA PutBackIs ==
  ASSUME TypeOK, TypeOK', NEW rest \in Seq(AllBytes), PutBack(rest), batch' = <<>>,
         kind' # "RawRead"
  PROVE  Ahead' = (rest \o queued) \o pipe'
<1>1. InBatch' = <<>>
  BY DEF InBatch
<1>2. rest \o queued \in Seq(AllBytes) /\ pipe' \in Seq(AllBytes)
  <2>1. {pipe', queued', buf', batch', events', line'} \subseteq Seq(AllBytes)
    BY DEF TypeOK
  <2>2. QED
    BY <2>1, Types, ConcatTypes
<1>3. <<>> \o (rest \o queued) = rest \o queued
  BY <1>2, EmptyConcat
<1>4. QED
  BY <1>1, <1>3 DEF Ahead, PutBack

\* The buffer is full or the input ended: whatever read waits gets what there is.
LEMMA EndMapped ==
  ASSUME BridgeInv, BufferFull \/ InputEnded \/ IdleFindsEof
  PROVE  StreamStep
<1>1. /\ CompletePending(buf, "early")
      /\ pc # "consume" /\ pc # "process" /\ mode # "initial" /\ batch = <<>>
      /\ UNCHANGED <<pipe, queued, batch, events, mode>>
  BY DEF BufferFull, InputEnded, IdleFindsEof, BridgeInv, TypeInv, ModeInv, StreamInv
<1>2. TypeOK /\ TypeOK' /\ OwnText = 0 /\ OwnText' = 0
  BY <1>1, BetweenTypes, NoBatch, NoNextBatch DEF BridgeInv, TypeInv
<1>3. kind \in Kinds /\ events \in Seq(AllBytes) /\ buf \in Seq(AllBytes)
  BY <1>2, Types
<1>4. CASE kind = "None"
  BY <1>1, <1>2, <1>4, StutterIs DEF CompletePending, Ahead, InBatch, Looked, StreamStep
<1>5. CASE kind = "ConsoleInput"
  <2>1. /\ answer' = [how |-> "keys", text |-> events]
        /\ UNCHANGED <<line, events, Ahead, Looked>>
    BY <1>1, <1>5 DEF CompletePending, Ahead, InBatch, Looked
  <2>2. Len(events) \in 0..Len(events) /\ First(events, Len(events)) = events
    BY <1>3, FirstAll
  <2>3. line = <<>> /\ Looked = 0
    BY <1>5, NoLineRead
  <2>4. Stream!GiveKeys
    BY <1>2, <2>1, <2>2, <2>3, GiveKeysIs
  <2>5. QED
    BY <2>4 DEF StreamStep, Stream!Next
<1>6. CASE kind = "ConsoleRead"
  <2>1. LineFirst
    BY <1>1, <1>6, LineIs
  <2>2. /\ line' = <<>> /\ answer' = [how |-> "early", text |-> line]
        /\ UNCHANGED <<Ahead, Looked>>
    BY <1>1, <1>6 DEF CompletePending, Ahead, InBatch, Looked
  <2>3. Stream!GiveLineEarly
    BY <1>1, <1>2, <2>1, <2>2, GiveLineEarlyIs
  <2>4. QED
    BY <2>3 DEF StreamStep, Stream!Next
<1>7. CASE kind = "RawRead"
  <2>1. /\ kind' = "None" /\ line' = <<>> /\ Looked' = 0
        /\ answer' = [how |-> "raw", text |-> RawData(buf)]
    BY <1>1, <1>7 DEF CompletePending, Looked
  <2>2. line = <<>> /\ Looked = Len(buf)
    BY <1>1, <1>3, <1>7, NoLineRead DEF Looked
  <2>3. /\ queued \o pipe \in Seq(AllBytes) /\ Ahead = buf \o (queued \o pipe)
        /\ Ahead \in Seq(AllBytes)
    BY <1>2, <1>7, AheadIs DEF InBatch
  <2>4. Ahead' = queued \o pipe
    <3>1. InBatch' = <<>>
      BY <1>1, <2>1 DEF InBatch
    <3>2. QED
      BY <1>1, <1>2, <2>3, <3>1, AheadNextIs, EmptyConcat
  <2>5. Len(buf) \in Nat /\ Len(buf) \in 0..Len(buf) /\ Len(buf) <= cap /\ cap \in Nat
    BY <1>2, <1>3, <1>7, Types DEF BridgeInv, StreamInv
  <2>6. Len(buf) \in 0..Len(Ahead) /\ First(Ahead, Len(buf)) = buf
        /\ After(Ahead, Len(buf)) = queued \o pipe
    <3> DEFINE r == queued \o pipe
    <3>1. r \in Seq(AllBytes) /\ Ahead = buf \o r
      BY <2>3
    <3> HIDE DEF r
    <3>2. /\ Len(buf) \in 0..Len(Ahead) /\ First(Ahead, Len(buf)) = First(buf, Len(buf))
          /\ After(Ahead, Len(buf)) = After(buf, Len(buf)) \o r
      BY <1>3, <2>5, <3>1, ConcatFirst
    <3>3. First(buf, Len(buf)) = buf /\ After(buf, Len(buf)) = <<>>
      BY <1>3, FirstAll
    <3>4. <<>> \o r = r
      BY <3>1, EmptyConcat
    <3>5. QED
      BY <3>2, <3>3, <3>4, Zenon DEF r
  <2>7. Stream!GiveRaw
    <3> DEFINE n == Len(buf)
    <3>1. /\ n \in Nat /\ n \in n..Len(Ahead) /\ n = Looked /\ ~(n > Looked) /\ ~(n > cap)
      BY <2>2, <2>5, <2>6
    <3>2. /\ First(Ahead, n) = buf /\ Ahead' = After(Ahead, n)
          /\ answer' = [how |-> "raw", text |-> RawData(buf)]
      BY <2>1, <2>4, <2>6
    <3> HIDE DEF n
    <3>3. QED
      BY <1>1, <1>2, <1>3, <2>1, <2>2, <2>3, <3>1, <3>2, GiveRawIs
  <2>8. QED
    BY <2>7 DEF StreamStep, Stream!Next
<1>8. QED
  BY <1>3, <1>4, <1>5, <1>6, <1>7 DEF Kinds

-----------------------------------------------------------------------------
(* Bytes *)

\* After a byte at the front of what was ahead, the rest is ahead.
LEMMA FrontTaken ==
  ASSUME BridgeInv, TypeOK', batch # <<>>, kind # "RawRead",
         kind' # "RawRead", pipe' = pipe,
         \/ PutBack(Tail(batch)) /\ batch' = <<>>
         \/ queued' = queued /\ batch' = Tail(batch)
  PROVE  Ahead' = Tail(Ahead)
<1>1. TypeOK
  BY DEF BridgeInv, TypeInv
<1>2. /\ Tail(batch) \in Seq(AllBytes) /\ queued \in Seq(AllBytes) /\ pipe \in Seq(AllBytes)
      /\ Tail(Ahead) = Tail(batch) \o (queued \o pipe)
  BY <1>1, BatchTypes, BatchIs, Types
<1>3. (Tail(batch) \o queued) \o pipe = Tail(batch) \o (queued \o pipe)
  <2> DEFINE t == Tail(batch)
  <2>1. t \in Seq(AllBytes) /\ queued \in Seq(AllBytes) /\ pipe \in Seq(AllBytes)
    BY <1>2
  <2> HIDE DEF t
  <2>2. (t \o queued) \o pipe = t \o (queued \o pipe)
    BY <2>1, ConcatAssociative, SMTT(30)
  <2>3. QED
    BY <2>2, Zenon DEF t
<1>4. CASE PutBack(Tail(batch)) /\ batch' = <<>>
  BY <1>1, <1>2, <1>3, <1>4, PutBackIs
<1>5. CASE queued' = queued /\ batch' = Tail(batch)
  <2>1. Ahead' = (Tail(batch) \o queued) \o pipe
    BY <1>5 DEF Ahead, InBatch
  <2>2. QED
    BY <1>2, <1>3, <2>1
<1>6. QED
  BY <1>4, <1>5

LEMMA ByteIs ==
  ASSUME BridgeInv, CtrlC \/ CtrlZ \/ Text \/ SpecialKey \/ LineEnd \/ EnterKey \/ Win32Enter
  PROVE  pc = "process" /\ batch # <<>> /\ mode' = mode /\ TypeOK /\ TypeOK'
<1>1. pc = "process" /\ batch # <<>> /\ mode' = mode
  BY DEF CtrlC, CtrlZ, Text, SpecialKey, LineEnd, EnterKey, Win32Enter, Byte
<1>2. TypeOK /\ TypeOK'
  BY ByteTypes DEF BridgeInv, TypeInv
<1>3. QED
  BY <1>1, <1>2

\* The initial text gets shorter with its batch.
LEMMA OneLessIs ==
  ASSUME TypeOK, batch # <<>>, mode' = mode, batch' = Tail(batch)
  PROVE  OneLess
<1>1. Len(batch) \in Nat /\ Len(batch) > 0 /\ Len(Tail(batch)) = Len(batch) - 1
  BY Types
<1>2. QED
  BY <1>1 DEF OneLess, OwnText

\* In a raw read, what is behind the byte at the front of the batch.
LEMMA RawByteIs ==
  ASSUME BridgeInv, TypeOK', kind = "RawRead", batch # <<>>, kind' = "None",
         PutBack(Tail(batch)), batch' = <<>>, pipe' = pipe
  PROVE  \E c \in Seq(AllBytes) :
           /\ buf = c \o batch
           /\ Looked = Len(c)
           /\ Len(c) + 1 \in 1..Len(Ahead)
           /\ Ahead[Len(c) + 1] = Head(batch)
           /\ First(Ahead, Len(c) + 1) = Append(c, Head(batch))
           /\ Ahead' = After(Ahead, Len(c) + 1)
<1> DEFINE r == queued \o pipe
           A == batch \o r
<1>1. PICK c \in Seq(AllBytes) :
             /\ buf = c \o batch
             /\ Looked = Len(c)
             /\ Ahead = c \o A
  BY RawIs, Zenon
<1>2. TypeOK /\ batch \in Seq(AllBytes) /\ r \in Seq(AllBytes)
      /\ queued \in Seq(AllBytes) /\ pipe \in Seq(AllBytes)
  BY Types, ConcatTypes DEF BridgeInv, TypeInv
<1>3. Ahead' = (Tail(batch) \o queued) \o pipe
  BY <1>2, HeadAndTail, PutBackIs
<1>4. (Tail(batch) \o queued) \o pipe = Tail(batch) \o r
  <2> DEFINE t == Tail(batch)
  <2>1. t \in Seq(AllBytes) /\ queued \in Seq(AllBytes) /\ pipe \in Seq(AllBytes)
    BY <1>2, HeadAndTail
  <2> HIDE DEF t
  <2>2. (t \o queued) \o pipe = t \o (queued \o pipe)
    BY <2>1, ConcatAssociative, SMTT(30)
  <2>3. QED
    BY <2>2, Zenon DEF t, r
<1> HIDE DEF r
<1>5. A \in Seq(AllBytes) /\ A # <<>> /\ Head(A) = Head(batch) /\ After(A, 1) = Tail(batch) \o r
  BY <1>2, ConcatFront, SMTT(30)
<1> HIDE DEF A
<1>6. /\ Len(A) \in Nat /\ Len(A) > 0 /\ Head(A) = A[1] /\ First(A, 1) = <<Head(A)>>
      /\ Len(c) \in Nat /\ 1 \in 0..Len(A) /\ Head(A) \in AllBytes
  BY <1>5, HeadAndTail, FirstOne
<1>7. /\ Len(c) + 1 \in 0..Len(Ahead)
      /\ First(Ahead, Len(c) + 1) = c \o First(A, 1)
      /\ After(Ahead, Len(c) + 1) = After(A, 1)
  BY <1>1, <1>5, <1>6, ConcatCut, ZenonT(60)
<1>8. Ahead[Len(c) + 1] = A[1]
  BY <1>1, <1>5, <1>6, ConcatElements
<1>9. c \o <<Head(A)>> = Append(c, Head(A))
  BY <1>6, AppendConcat
<1>10. Len(c) + 1 \in 1..Len(Ahead)
  BY <1>6, <1>7
<1>11. QED
  BY <1>1, <1>3, <1>4, <1>5, <1>6, <1>7, <1>8, <1>9, <1>10

\* What _readbuf holds through the byte at the front of the batch.
LEMMA ConsumedOne ==
  ASSUME TypeOK, batch # <<>>, NEW c \in Seq(AllBytes), buf = c \o batch
  PROVE  Consumed(Tail(batch)) = Append(c, Head(batch)) /\ Len(c) + 1 <= Len(buf)
<1>1. batch \in Seq(AllBytes) /\ Tail(batch) \in Seq(AllBytes) /\ Head(batch) \in AllBytes
  BY Types, HeadAndTail
<1>2. /\ Len(buf) = Len(c) + Len(batch) /\ Len(c) \in Nat /\ Len(batch) \in Nat /\ Len(batch) > 0
      /\ Len(Tail(batch)) = Len(batch) - 1 /\ 1 \in 0..Len(batch)
  BY <1>1, ConcatTypes, HeadTailProperties
<1>3. Len(buf) - Least(Len(Tail(batch)), Len(buf)) = Len(c) + 1
  <2>1. ASSUME NEW i \in Nat, NEW j \in Nat, j > 0
        PROVE  (i + j) - Least(j - 1, i + j) = i + 1
    BY <2>1 DEF Least
  <2>2. QED
    BY <1>2, <2>1, Zenon
<1>4. First(buf, Len(c) + 1) = c \o First(batch, 1)
  BY <1>1, <1>2, ConcatCut
<1>5. c \o <<Head(batch)>> = Append(c, Head(batch)) /\ First(batch, 1) = <<Head(batch)>>
  BY <1>1, AppendConcat, FirstOne
<1>6. Consumed(Tail(batch)) = Append(c, Head(batch))
  BY <1>3, <1>4, <1>5, Zenon DEF Consumed
<1>7. Len(c) + 1 <= Len(buf)
  <2>1. \A i, j \in Nat : j > 0 => i + 1 <= i + j
    OBVIOUS
  <2>2. QED
    BY <1>2, <2>1, Zenon
<1>8. QED
  BY <1>6, <1>7

\* Ctrl+C takes what the line read has collected; otherwise it is no key.
LEMMA CtrlCMapped ==
  ASSUME BridgeInv, CtrlC
  PROVE  StreamStep
<1>1. /\ pc = "process" /\ batch # <<>> /\ mode' = mode
      /\ TypeOK /\ TypeOK' /\ Head(batch) = "^C" /\ pipe' = pipe /\ events' = events
  BY ByteIs DEF CtrlC, Byte
<1>2. CASE kind = "ConsoleRead"
  <2>1. /\ PutBack(Tail(batch)) /\ batch' = <<>> /\ kind' = "None" /\ line' = <<>>
        /\ answer' = [how |-> "aborted", text |-> <<>>]
    BY <1>2 DEF CtrlC, LineKinds, CompletePending
  <2>2. Ahead' = Tail(Ahead) /\ Ahead # <<>> /\ Head(Ahead) = "^C"
    BY <1>1, <1>2, <2>1, FrontTaken, BatchIs
  <2>3. LineFirst /\ OwnText' = 0 /\ Looked' = Looked
    BY <1>1, <1>2, <2>1, LineIs, NoNextBatch DEF Looked
  <2>4. Stream!AbortLine
    BY <1>1, <2>1, <2>2, <2>3, AbortLineIs
  <2>5. QED
    BY <2>4 DEF StreamStep, Stream!Next
<1>3. CASE kind = "RawRead"
  <2>1. /\ PutBack(Tail(batch)) /\ batch' = <<>> /\ kind' = "None" /\ line' = <<>>
        /\ answer' = [how |-> "aborted", text |-> <<>>]
    BY <1>3 DEF CtrlC, LineKinds, CompletePending
  <2>2. PICK c \in Seq(AllBytes) :
           /\ Looked = Len(c)
           /\ Len(c) + 1 \in 1..Len(Ahead)
           /\ Ahead[Len(c) + 1] = "^C"
           /\ Ahead' = After(Ahead, Len(c) + 1)
    BY <1>1, <1>3, <2>1, RawByteIs
  <2>3. Len(c) < Len(Ahead)
    <3>1. Len(c) \in Nat /\ Ahead \in Seq(AllBytes)
      BY <1>1, AheadIs
    <3>2. Len(Ahead) \in Nat
      BY <3>1
    <3>3. QED
      BY <2>2, <3>1, <3>2
  <2>4. line = <<>> /\ OwnText = 0 /\ OwnText' = 0 /\ Looked' = 0
    BY <1>3, <2>1, NoLineRead, NoNextBatch DEF Looked
  <2>5. Stream!AbortRaw
    BY <1>1, <2>1, <2>2, <2>3, <2>4, AbortRawIs
  <2>6. QED
    BY <2>5 DEF StreamStep, Stream!Next
<1>4. CASE kind \notin LineKinds
  <2>1. /\ UNCHANGED <<queued, kind, line, answer>> /\ batch' = Tail(batch)
        /\ kind # "RawRead" /\ kind # "ConsoleRead"
    BY <1>4 DEF CtrlC, LineKinds
  <2>2. Ahead' = Tail(Ahead) /\ Ahead # <<>> /\ Head(Ahead) = "^C"
    BY <1>1, <2>1, FrontTaken, BatchIs
  <2>3. line = <<>> /\ OwnText = 0 /\ Looked = 0 /\ mode # "initial"
    BY <1>1, <2>1, NoLineRead
  <2>4. OwnText' = 0 /\ Looked' = 0
    BY <1>1, <2>1, <2>3 DEF OwnText, Looked
  <2>5. Stream!Interrupt
    BY <1>1, <2>1, <2>2, <2>3, <2>4, InterruptIs
  <2>6. QED
    BY <2>5 DEF StreamStep, Stream!Next
<1>5. QED
  BY <1>2, <1>3, <1>4 DEF LineKinds

\* Ctrl+Z ends a line read early; a raw read is given it as its last byte.
LEMMA CtrlZMapped ==
  ASSUME BridgeInv, CtrlZ
  PROVE  StreamStep
<1>1. /\ pc = "process" /\ batch # <<>> /\ mode' = mode
      /\ TypeOK /\ TypeOK' /\ Head(batch) = "^Z" /\ pipe' = pipe /\ events' = events
      /\ PutBack(Tail(batch)) /\ batch' = <<>>
      /\ CompletePending(Consumed(Tail(batch)), "early")
  BY ByteIs DEF CtrlZ, Byte
<1>2. kind \in LineKinds /\ kind' = "None" /\ line' = <<>> /\ OwnText' = 0 /\ Looked' = 0
  <2>1. kind \in LineKinds
    BY DEF CtrlZ, BridgeInv, HoldsInv
  <2>2. QED
    BY <1>1, <2>1, NoNextBatch DEF CompletePending, LineKinds, Looked
<1>3. CASE kind = "ConsoleRead"
  <2>1. answer' = [how |-> "early", text |-> line]
    BY <1>1, <1>3 DEF CompletePending
  <2>2. Ahead' = Tail(Ahead) /\ Ahead # <<>> /\ Head(Ahead) = "^Z"
    BY <1>1, <1>2, <1>3, FrontTaken, BatchIs
  <2>3. LineFirst /\ Looked' = Looked
    BY <1>1, <1>2, <1>3, LineIs DEF Looked
  <2>4. Stream!GiveLineEarly
    BY <1>1, <1>2, <2>1, <2>2, <2>3, GiveLineEarlyIs
  <2>5. QED
    BY <2>4 DEF StreamStep, Stream!Next
<1>4. CASE kind = "RawRead"
  <2>1. answer' = [how |-> "raw", text |-> RawData(Consumed(Tail(batch)))]
    BY <1>1, <1>4 DEF CompletePending
  <2>2. PICK c \in Seq(AllBytes) :
           /\ buf = c \o batch
           /\ Looked = Len(c)
           /\ Len(c) + 1 \in 1..Len(Ahead)
           /\ Ahead[Len(c) + 1] = "^Z"
           /\ First(Ahead, Len(c) + 1) = Append(c, "^Z")
           /\ Ahead' = After(Ahead, Len(c) + 1)
    BY <1>1, <1>2, <1>4, RawByteIs
  <2>3. /\ cap \in Nat /\ Len(buf) \in Nat /\ Len(buf) <= cap /\ Len(c) \in Nat
        /\ Append(c, "^Z") \in Seq(AllBytes) /\ Ahead \in Seq(AllBytes) /\ Len(Ahead) \in Nat
        /\ line = <<>> /\ OwnText = 0
    BY <1>1, <1>4, AheadIs, RawIs, Types, SMTT(30) DEF AllBytes
  <2>4. Consumed(Tail(batch)) = Append(c, "^Z") /\ Len(c) + 1 <= cap
    <3>1. Consumed(Tail(batch)) = Append(c, "^Z") /\ Len(c) + 1 <= Len(buf)
      BY <1>1, <2>2, ConsumedOne
    <3>2. \A i, j, k \in Nat : i + 1 <= j /\ j <= k => i + 1 <= k
      OBVIOUS
    <3>3. QED
      BY <2>3, <3>1, <3>2, Zenon
  <2>5. Stream!GiveRaw
    <3> DEFINE n == Len(c) + 1
               t == Append(c, "^Z")
    <3>1. /\ t \in Seq(AllBytes) /\ Ahead[n] = "^Z" /\ First(Ahead, n) = t
          /\ Ahead' = After(Ahead, n) /\ answer' = [how |-> "raw", text |-> RawData(t)]
      BY <2>1, <2>2, <2>3, <2>4, Zenon
    <3>2. /\ Looked \in Nat /\ n \in Looked..Len(Ahead) /\ n = Looked + 1 /\ ~(n > cap)
          /\ Ahead[n] # "CR"
      BY <2>2, <2>3, <2>4
    <3> HIDE DEF n, t
    <3>3. QED
      BY <1>1, <1>2, <2>3, <3>1, <3>2, GiveRawIs
  <2>6. QED
    BY <2>5 DEF StreamStep, Stream!Next
<1>5. QED
  BY <1>2, <1>3, <1>4 DEF LineKinds

-----------------------------------------------------------------------------
(* Line ends *)

\* What is ahead of a line end's batch, from the line end on.
Unread == batch \o (queued \o pipe)

\* The LF of a CR goes with it, from the batch or from the pipe, unless queued bytes come
\* behind a CR that ends its batch.
LEMMA EndOfLine ==
  ASSUME TypeOK, NEW b \in {"CR", "LF"},
         batch # <<>>, Head(batch) = b, ~(batch = <<"CR">> /\ queued # <<>>)
  PROVE  /\ Stream!EndLength(Unread, 1) = IF LfInPipe(b) THEN 2 ELSE ConsumedEnd(b)
         /\ Stream!EndLength(Unread, 1) \in 1..Len(Unread)
         /\ Stream!EndLength(Unread, 1) = 2 => b = "CR" /\ Unread[2] = "LF"
         /\ Stream!EndLength(Unread, 1) = 1 /\ b = "CR" /\ 1 < Len(Unread) => Unread[2] # "LF"
         /\ After(Unread, Stream!EndLength(Unread, 1)) = (After(batch, ConsumedEnd(b)) \o queued)
                                               \o IF LfInPipe(b) THEN Tail(pipe) ELSE pipe
<1> DEFINE r == queued \o pipe
           e == Stream!EndLength(Unread, 1)
<1>1. batch \in Seq(AllBytes) /\ queued \in Seq(AllBytes) /\ pipe \in Seq(AllBytes)
  BY Types
<1>2. r \in Seq(AllBytes) /\ Unread = batch \o r /\ Len(r) \in Nat
  BY <1>1, ConcatTypes DEF Unread
<1>3. Len(batch) \in Nat /\ Len(batch) > 0 /\ batch[1] = b /\ 1 \in 0..Len(batch)
  BY <1>1, HeadAndTail
<1>4. e = IF Unread[1] = "CR" /\ 1 < Len(Unread) /\ Unread[2] = "LF" THEN 2 ELSE 1
  BY DEF Stream!EndLength
<1> SUFFICES /\ e = IF LfInPipe(b) THEN 2 ELSE ConsumedEnd(b)
             /\ e \in 1..Len(Unread)
             /\ e = 2 => b = "CR" /\ Unread[2] = "LF"
             /\ e = 1 /\ b = "CR" /\ 1 < Len(Unread) => Unread[2] # "LF"
             /\ After(Unread, e) = (After(batch, ConsumedEnd(b)) \o queued)
                              \o IF LfInPipe(b) THEN Tail(pipe) ELSE pipe
  BY Zenon
<1> HIDE DEF r, e
<1>5. /\ Unread \in Seq(AllBytes) /\ Len(Unread) = Len(batch) + Len(r) /\ Unread[1] = b
      /\ Len(batch) > 1 => Unread[2] = batch[2]
  <2>1. Unread \in Seq(AllBytes) /\ Len(Unread) = Len(batch) + Len(r)
    BY <1>1, <1>2, ConcatTypes
  <2>2. \A i \in 1..Len(batch) : Unread[i] = batch[i]
    BY <1>1, <1>2, ConcatElements
  <2>3. QED
    BY <1>3, <2>1, <2>2
<1>6. CASE WithLf(b)
  <2>1. b = "CR" /\ Len(batch) > 1 /\ batch[2] = "LF" /\ ~LfInPipe(b) /\ ConsumedEnd(b) = 2
    BY <1>3, <1>6 DEF WithLf, LfInPipe, ConsumedEnd
  <2>2. e = 2 /\ e \in 1..Len(Unread) /\ Unread[2] = "LF" /\ 2 \in 0..Len(batch)
    BY <1>2, <1>3, <1>4, <1>5, <2>1
  <2>3. After(Unread, 2) = After(batch, 2) \o r /\ After(batch, 2) \in Seq(AllBytes)
    BY <1>1, <1>2, <2>2, ConcatFirst, AfterProperties
  <2>4. (After(batch, 2) \o queued) \o pipe = After(batch, 2) \o r
    <3> DEFINE t == After(batch, 2)
    <3>1. t \in Seq(AllBytes)
      BY <2>3
    <3> HIDE DEF t
    <3>2. (t \o queued) \o pipe = t \o (queued \o pipe)
      BY <1>1, <3>1, ConcatAssociative, SMTT(30)
    <3>3. QED
      BY <3>2, Zenon DEF t, r
  <2>5. After(Unread, e) = (After(batch, ConsumedEnd(b)) \o queued) \o pipe
    BY <2>1, <2>2, <2>3, <2>4, Zenon
  <2>6. QED
    BY <2>1, <2>2, <2>5
<1>7. CASE LfInPipe(b)
  <2>1. b = "CR" /\ Len(batch) = 1 /\ pipe # <<>> /\ Head(pipe) = "LF" /\ ConsumedEnd(b) = 1
    BY <1>7 DEF LfInPipe, ConsumedEnd, WithLf
  <2>2. Tail(batch) = <<>> /\ batch = <<"CR">>
    <3>1. Tail(batch) \in Seq(AllBytes) /\ Len(Tail(batch)) = 0
      BY <1>1, <2>1, HeadTailProperties
    <3>2. Tail(batch) = <<>>
      BY <3>1, EmptySeq
    <3>3. batch = <<"CR">> \o <<>>
      BY <1>1, <2>1, <3>2, HeadAndTail
    <3>4. QED
      BY <3>2, <3>3
  <2>3. queued = <<>> /\ r = pipe
    BY <1>1, <2>2, EmptyConcat DEF r
  <2>4. /\ Len(pipe) \in Nat /\ Len(pipe) > 0 /\ pipe[1] = "LF" /\ 1 \in 0..Len(pipe)
        /\ After(pipe, 1) = Tail(pipe) /\ Tail(pipe) \in Seq(AllBytes)
    <3>1. /\ Len(pipe) \in Nat /\ Len(pipe) > 0 /\ Head(pipe) = pipe[1]
          /\ After(pipe, 1) = Tail(pipe) /\ Tail(pipe) \in Seq(AllBytes)
      BY <1>1, <2>1, HeadAndTail, Zenon
    <3>2. QED
      BY <2>1, <3>1
  <2>5. Unread[1 + 1] = pipe[1] /\ After(Unread, 1 + 1) = After(pipe, 1)
    <3>1. Unread = batch \o pipe /\ Len(batch) = 1
      BY <1>2, <2>1, <2>3
    <3>2. Unread[Len(batch) + 1] = pipe[1]
      <4>1. 1 \in 1..Len(pipe)
        BY <2>4
      <4>2. \A i \in 1..Len(pipe) : (batch \o pipe)[Len(batch) + i] = pipe[i]
        BY <1>1, ConcatElements
      <4>3. QED
        BY <3>1, <4>1, <4>2, Zenon
    <3>3. After(Unread, Len(batch) + 1) = After(pipe, 1)
      <4>1. After(batch \o pipe, Len(batch) + 1) = After(pipe, 1)
        BY <1>1, <2>4, ConcatCut, ZenonT(60)
      <4>2. QED
        BY <3>1, <4>1, Zenon
    <3>4. QED
      BY <3>1, <3>2, <3>3, Zenon
  <2>6. Unread[2] = "LF" /\ After(Unread, 2) = Tail(pipe)
    BY <2>4, <2>5
  <2>7. e = 2 /\ e \in 1..Len(Unread)
    BY <1>2, <1>3, <1>4, <1>5, <2>1, <2>3, <2>4, <2>6, SMTT(30)
  <2>8. After(batch, 1) = <<>> /\ (<<>> \o <<>>) \o Tail(pipe) = Tail(pipe)
    BY <1>1, <2>2, <2>4, HeadAndTail, EmptyConcat, ZenonT(60)
  <2>9. QED
    BY <1>7, <2>1, <2>3, <2>6, <2>7, <2>8, SMTT(30)
<1>8. CASE ~WithLf(b) /\ ~LfInPipe(b)
  <2>1. ConsumedEnd(b) = 1
    BY <1>8 DEF ConsumedEnd
  <2>2. ~(b = "CR" /\ 1 < Len(Unread) /\ Unread[2] = "LF")
    <3>1. SUFFICES ASSUME b = "CR", 1 < Len(Unread), Unread[2] = "LF" PROVE FALSE
      OBVIOUS
    <3>2. Len(batch) = 1
      <4>1. ~(Len(batch) > 1 /\ batch[2] = "LF")
        BY <1>8, <3>1 DEF WithLf
      <4>2. ~(Len(batch) > 1)
        BY <1>5, <3>1, <4>1, Zenon
      <4>3. QED
        BY <1>3, <4>2
    <3>3. batch = <<"CR">>
      <4>1. Tail(batch) \in Seq(AllBytes) /\ Len(Tail(batch)) = 0
        BY <1>1, <1>3, <3>2, HeadTailProperties
      <4>2. Tail(batch) = <<>>
        BY <4>1, EmptySeq
      <4>3. batch = <<"CR">> \o <<>>
        BY <1>1, <1>3, <3>1, <4>2, HeadAndTail
      <4>4. QED
        BY <4>3
    <3>4. queued = <<>> /\ r = pipe
      BY <1>1, <3>3, EmptyConcat DEF r
    <3>5. Len(pipe) \in Nat /\ Len(pipe) > 0 /\ 1 \in 1..Len(pipe)
      BY <1>1, <1>2, <1>5, <3>1, <3>2, <3>4
    <3>6. Unread[Len(batch) + 1] = pipe[1]
      BY <1>1, <1>2, <3>4, <3>5, ConcatElements
    <3>7. pipe # <<>> /\ Head(pipe) = pipe[1]
      BY <1>1, <3>5
    <3>8. Unread[2] = Head(pipe)
      BY <3>2, <3>6, <3>7
    <3>9. QED
      BY <1>8, <3>1, <3>2, <3>7, <3>8 DEF LfInPipe
  <2>3. e = 1 /\ e \in 1..Len(Unread)
    BY <1>2, <1>3, <1>4, <1>5, <2>2
  <2>4. /\ After(Unread, 1) = Tail(batch) \o r /\ After(batch, 1) = Tail(batch)
        /\ Tail(batch) \in Seq(AllBytes)
    <3>1. After(Unread, 1) = Tail(batch) \o r
      BY <1>1, <1>2, ConcatFront
    <3>2. After(batch, 1) = Tail(batch) /\ Tail(batch) \in Seq(AllBytes)
      BY <1>1, HeadAndTail
    <3>3. QED
      BY <3>1, <3>2, Zenon
  <2>5. (Tail(batch) \o queued) \o pipe = Tail(batch) \o r
    <3> DEFINE t == Tail(batch)
    <3>1. t \in Seq(AllBytes)
      BY <2>4
    <3> HIDE DEF t
    <3>2. (t \o queued) \o pipe = t \o (queued \o pipe)
      BY <1>1, <3>1, ConcatAssociative, SMTT(30)
    <3>3. QED
      BY <3>2, Zenon DEF t, r
  <2>6. After(Unread, e) = (After(batch, ConsumedEnd(b)) \o queued) \o pipe
    BY <2>1, <2>3, <2>4, <2>5, Zenon
  <2>7. QED
    BY <1>8, <2>1, <2>2, <2>3, <2>6
<1>9. QED
  BY <1>6, <1>7, <1>8

LEMMA SingleByte ==
  ASSUME NEW s \in Seq(AllBytes), Len(s) = 1
  PROVE  s = <<Head(s)>>
<1>1. First(s, 1) = s
  BY FirstAll
<1>2. s # <<>>
  OBVIOUS
<1>3. QED
  BY <1>1, <1>2, FirstOne

LEMMA UnreadCut ==
  ASSUME NEW c \in Seq(AllBytes), Unread \in Seq(AllBytes), Ahead = c \o Unread,
         NEW e \in 1..Len(Unread)
  PROVE  /\ First(Ahead, Len(c) + e) = c \o First(Unread, e)
         /\ After(Ahead, Len(c) + e) = After(Unread, e)
         /\ Len(c) + e \in 0..Len(Ahead) /\ Len(Ahead) = Len(c) + Len(Unread)
         /\ \A i \in 1..Len(c) : Ahead[i] = c[i]
         /\ \A i \in 1..Len(Unread) : Ahead[Len(c) + i] = Unread[i]
<1>1. e \in 0..Len(Unread)
  OBVIOUS
<1>2. QED
  BY <1>1, ConcatCut, ConcatTypes, ConcatElements

\* Bytes beyond the capacity do not reach the client.
LEMMA RawDataFull ==
  ASSUME NEW s \in Seq(AllBytes), NEW b \in AllBytes, cap \in Nat, cap <= Len(s)
  PROVE  RawData(Append(s, b)) = RawData(s)
<1> DEFINE t == Append(s, b)
<1>1. Len(s) \in Nat /\ t \in Seq(AllBytes) /\ Len(t) = Len(s) + 1 /\ cap \in 0..Len(s)
  OBVIOUS
<1>2. <<b>> \in Seq(AllBytes) /\ t = s \o <<b>>
  BY AppendConcat
<1>3. First(t, cap) = First(s, cap)
  BY <1>1, <1>2, ConcatFirst
<1> HIDE DEF t
<1>4. First(t, Least(Len(t), cap)) = First(s, Least(Len(s), cap))
  <2>1. Least(Len(t), cap) = cap /\ Least(Len(s), cap) = cap
    BY <1>1 DEF Least
  <2>2. QED
    BY <1>3, <2>1, Zenon
<1>5. RawData(t) = RawData(s)
  BY <1>4, Zenon DEF RawData
<1>6. QED
  BY <1>5 DEF t

\* What _readbuf holds through the line end at the front of the batch.
LEMMA ConsumedThrough ==
  ASSUME TypeOK, NEW c \in Seq(AllBytes), buf = c \o batch, NEW e \in 1..Len(batch)
  PROVE  /\ Consumed(After(batch, e)) = c \o First(batch, e)
         /\ Len(c) + e <= Len(buf) /\ Len(buf) = Len(c) + Len(batch)
<1>1. batch \in Seq(AllBytes) /\ Len(batch) \in Nat /\ Len(c) \in Nat /\ e \in 0..Len(batch)
  BY Types
<1>2. Len(buf) = Len(c) + Len(batch) /\ Len(After(batch, e)) = Len(batch) - e
  BY <1>1, ConcatTypes, AfterProperties
<1>3. Len(buf) - Least(Len(After(batch, e)), Len(buf)) = Len(c) + e /\ Len(c) + e <= Len(buf)
  <2>1. ASSUME NEW i \in Nat, NEW j \in Nat, NEW k \in 1..j
        PROVE  (i + j) - Least(j - k, i + j) = i + k /\ i + k <= i + j
    BY DEF Least
  <2>2. QED
    BY <1>1, <1>2, <2>1, ZenonT(60)
<1>4. First(buf, Len(c) + e) = c \o First(batch, e)
  BY <1>1, ConcatCut, Zenon
<1>5. QED
  BY <1>2, <1>3, <1>4, Zenon DEF Consumed

\* The bytes a raw read gives back from _readbuf are those through its line end.
LEMMA RawLineIs ==
  ASSUME BridgeInv, kind = "RawRead", NEW b \in {"CR", "LF"}, batch # <<>>, Head(batch) = b,
         ~(batch = <<"CR">> /\ queued # <<>>),
         NEW c \in Seq(AllBytes), buf = c \o batch, Ahead = c \o Unread
  PROVE  LET e == Stream!EndLength(Unread, 1)
             t == IF LfInPipe(b) /\ Len(buf) < ReadBufSize
                  THEN Append(buf, "LF") ELSE Consumed(After(batch, ConsumedEnd(b)))
         IN  /\ t \in Seq(AllBytes) /\ RawData(t) = RawData(First(Ahead, Len(c) + e))
             /\ Len(c) + e > cap => e = 2 /\ Len(c) + 1 = cap
<1> DEFINE e == Stream!EndLength(Unread, 1)
           t == IF LfInPipe(b) /\ Len(buf) < ReadBufSize
                THEN Append(buf, "LF") ELSE Consumed(After(batch, ConsumedEnd(b)))
<1>1. /\ TypeOK /\ batch \in Seq(AllBytes) /\ buf \in Seq(AllBytes) /\ pipe \in Seq(AllBytes)
      /\ queued \in Seq(AllBytes) /\ Len(batch) \in Nat /\ Len(batch) > 0 /\ Len(c) \in Nat
      /\ Len(buf) \in Nat /\ cap \in 1..ReadBufSize /\ Len(buf) <= cap /\ ReadBufSize \in Nat
      /\ Len(buf) <= ReadBufSize
  BY Types, RawIs, HeadAndTail, SizesAssumption, SMTT(30) DEF BridgeInv, TypeInv
<1>2. e = IF LfInPipe(b) THEN 2 ELSE ConsumedEnd(b)
  BY <1>1, EndOfLine
<1>3. e \in 1..Len(Unread) /\ Unread \in Seq(AllBytes) /\ queued \o pipe \in Seq(AllBytes)
  BY <1>1, EndOfLine, ConcatTypes DEF Unread
<1> HIDE DEF e, t
<1>4. CASE ~LfInPipe(b)
  <2>1. e = ConsumedEnd(b) /\ e \in 1..Len(batch)
    BY <1>1, <1>2, <1>4 DEF ConsumedEnd, WithLf
  <2>2. t = c \o First(batch, e) /\ Len(c) + e <= Len(buf)
    BY <1>1, <1>4, <2>1, ConsumedThrough DEF t
  <2>3. First(Unread, e) = First(batch, e)
    <3>1. e \in 0..Len(batch)
      BY <2>1
    <3>2. QED
      BY <1>1, <1>3, <3>1, ConcatFirst, Zenon DEF Unread
  <2>4. First(Ahead, Len(c) + e) = c \o First(Unread, e)
    BY <1>3, UnreadCut
  <2>5. t \in Seq(AllBytes)
    BY <1>1, BatchTypes, ConsumedTypes, <1>4 DEF t
  <2>6. t = First(Ahead, Len(c) + e) /\ ~(Len(c) + e > cap)
    <3>1. Len(c) + e \in Nat
      BY <1>1, <2>1
    <3>2. QED
      BY <1>1, <2>2, <2>3, <2>4, <3>1
  <2>7. QED
    BY <2>5, <2>6, Zenon DEF e, t
<1>5. CASE LfInPipe(b)
  <2>1. /\ e = 2 /\ Len(batch) = 1 /\ pipe # <<>> /\ Head(pipe) = "LF" /\ ConsumedEnd(b) = 1
        /\ b = "CR"
    BY <1>2, <1>5 DEF LfInPipe, ConsumedEnd, WithLf
  <2>2. queued = <<>>
    <3>1. batch = <<"CR">>
      BY <1>1, <2>1, SingleByte
    <3>2. QED
      BY <3>1
  <2>3. Len(buf) = Len(c) + 1
    <3>1. 1 \in 1..Len(batch)
      BY <1>1
    <3>2. Len(buf) = Len(c) + Len(batch)
      BY <1>1, <3>1, ConsumedThrough, Zenon
    <3>3. QED
      BY <2>1, <3>2, Zenon
  <2>4. First(Ahead, Len(buf) + 1) = Append(buf, "LF") /\ Append(buf, "LF") \in Seq(AllBytes)
    <3>1. Ahead = buf \o pipe
      BY <1>1, <2>2, AheadIs, EmptyConcat DEF InBatch
    <3>2. Len(pipe) \in Nat /\ Len(pipe) > 0 /\ First(pipe, 1) = <<"LF">>
      BY <1>1, <2>1, HeadAndTail, FirstOne
    <3>3. 1 \in 0..Len(pipe)
      BY <3>2
    <3>4. First(buf \o pipe, Len(buf) + 1) = buf \o First(pipe, 1)
      BY <1>1, <3>3, ConcatCut, Zenon
    <3>5. Append(buf, "LF") = buf \o <<"LF">> /\ Append(buf, "LF") \in Seq(AllBytes)
      <4>1. buf \in Seq(AllBytes) /\ "LF" \in AllBytes
        BY <1>1 DEF AllBytes
      <4>2. QED
        BY <4>1, AppendIsConcat
    <3>6. QED
      BY <3>1, <3>2, <3>4, <3>5, Zenon
  <2>5. Len(c) + e = Len(buf) + 1
    BY <1>1, <2>1, <2>3
  <2>6. t \in Seq(AllBytes) /\ RawData(t) = RawData(Append(buf, "LF"))
    <3>1. CASE Len(buf) < ReadBufSize
      BY <1>5, <2>4, <3>1 DEF t
    <3>2. CASE Len(buf) = ReadBufSize
      <4>1. 1 \in 1..Len(batch)
        BY <1>1
      <4>2. t = c \o First(batch, 1)
        <5>1. Consumed(After(batch, 1)) = c \o First(batch, 1)
          BY <1>1, <4>1, ConsumedThrough, Zenon
        <5>2. t = Consumed(After(batch, ConsumedEnd(b)))
          BY <1>1, <3>2 DEF t
        <5>3. QED
          BY <2>1, <5>1, <5>2, Zenon
      <4>3. First(batch, 1) = batch
        BY <1>1, <2>1, FirstAll
      <4>4. t = buf
        BY <4>2, <4>3, Zenon
      <4>5. cap \in Nat /\ cap <= Len(buf) /\ "LF" \in AllBytes
        BY <1>1, <3>2 DEF AllBytes
      <4>6. QED
        BY <1>1, <4>4, <4>5, RawDataFull
    <3>3. QED
      BY <1>1, <3>1, <3>2
  <2>7. Len(c) + e > cap => e = 2 /\ Len(c) + 1 = cap
    BY <1>1, <2>1, <2>3, <2>5, SMTT(30)
  <2>8. QED
    BY <2>4, <2>5, <2>6, <2>7, Zenon DEF e, t
<1>6. QED
  BY <1>4, <1>5

LEMMA RawLineMapped ==
  ASSUME BridgeInv, TypeOK', kind = "RawRead", NEW b \in {"CR", "LF"},
         batch # <<>>, Head(batch) = b, ~(batch = <<"CR">> /\ queued # <<>>),
         LET bytes == IF LfInPipe(b) /\ Len(buf) < ReadBufSize
                      THEN Append(buf, "LF") ELSE Consumed(After(batch, ConsumedEnd(b)))
         IN  answer' = [how |-> "raw", text |-> RawData(bytes)],
         Looked' = 0, OwnText' = 0, line' = <<>>, events' = events,
         Ahead' = After(Unread, Stream!EndLength(Unread, 1))
  PROVE  Stream!GiveRaw
<1> DEFINE e == Stream!EndLength(Unread, 1)
           t == IF LfInPipe(b) /\ Len(buf) < ReadBufSize
                THEN Append(buf, "LF") ELSE Consumed(After(batch, ConsumedEnd(b)))
<1>1. PICK c \in Seq(AllBytes) :
             /\ buf = c \o batch
             /\ Looked = Len(c)
             /\ Ahead = c \o Unread
  BY RawIs, Zenon DEF Unread
<1>2. /\ TypeOK /\ batch \in Seq(AllBytes) /\ queued \o pipe \in Seq(AllBytes)
      /\ Ahead \in Seq(AllBytes) /\ Len(Ahead) \in Nat /\ Len(c) \in Nat /\ cap \in Nat
      /\ line = <<>> /\ OwnText = 0
  BY Types, AheadIs, RawIs, SizesAssumption, SMTT(30) DEF BridgeInv, TypeInv
<1>3. Unread \in Seq(AllBytes) /\ Unread[1] = b
  <2>1. Unread \in Seq(AllBytes) /\ Unread # <<>> /\ Head(Unread) = b
    BY <1>2, ConcatFront DEF Unread
  <2>2. QED
    BY <2>1, HeadAndTail
<1>4. /\ e \in 1..Len(Unread) /\ e \in {1, 2}
      /\ e = 2 => b = "CR" /\ Unread[2] = "LF"
      /\ e = 1 /\ b = "CR" /\ 1 < Len(Unread) => Unread[2] # "LF"
  BY <1>2, EndOfLine DEF Stream!EndLength
<1>5. /\ t \in Seq(AllBytes) /\ RawData(t) = RawData(First(Ahead, Len(c) + e))
      /\ Len(c) + e > cap => e = 2 /\ Len(c) + 1 = cap
  BY <1>1, RawLineIs, Zenon
<1>6. answer' = [how |-> "raw", text |-> RawData(t)] /\ Ahead' = After(Unread, e)
  BY Zenon
<1> HIDE DEF e, t
<1>7. /\ After(Ahead, Len(c) + e) = After(Unread, e)
      /\ Len(c) + e \in 0..Len(Ahead) /\ Len(Ahead) = Len(c) + Len(Unread)
      /\ \A i \in 1..Len(Unread) : Ahead[Len(c) + i] = Unread[i]
  BY <1>1, <1>3, <1>4, UnreadCut, Zenon
<1>8. /\ Len(Unread) \in Nat /\ 1 \in 1..Len(Unread) /\ Ahead[Len(c) + 1] = b
      /\ Len(Unread) > 1 => Ahead[Len(c) + 2] = Unread[2]
  BY <1>3, <1>4, <1>7
<1> DEFINE n == Len(c) + e
<1>9. n \in Nat /\ n > 0 /\ (e = 1 => n = Len(c) + 1) /\ (e = 2 => n = Len(c) + 2)
  BY <1>2, <1>4
<1>10. \/ n = Looked + 1 /\ Ahead[n] \in {"CR", "LF", "^Z"}
       \/ n = Looked + 2 /\ Ahead[n - 1] = "CR" /\ Ahead[n] = "LF"
  <2>1. CASE e = 1
    BY <1>1, <1>8, <1>9, <2>1
  <2>2. CASE e = 2
    <3>1. n = Len(c) + 2 /\ n - 1 = Len(c) + 1
      BY <1>2, <1>9, <2>2
    <3>2. QED
      BY <1>1, <1>4, <1>8, <2>2, <3>1
  <2>3. QED
    BY <1>4, <2>1, <2>2
<1>11. n > 0 /\ Ahead[n] = "CR" /\ n < Len(Ahead) /\ Ahead[n + 1] = "LF" => n = cap
  <2>1. CASE e = 2
    BY <1>4, <1>8, <1>9, <2>1
  <2>2. CASE e = 1
    <3>1. n = Len(c) + 1 /\ n + 1 = Len(c) + 2 /\ Ahead[n] = b
      BY <1>2, <1>8, <1>9, <2>2
    <3>2. n < Len(Ahead) => Len(Unread) > 1
      BY <1>2, <1>7, <1>8, <3>1
    <3>3. QED
      BY <1>4, <1>8, <2>2, <3>1, <3>2
  <2>3. QED
    BY <1>4, <2>1, <2>2
<1>12. n > cap => n = cap + 1 /\ Ahead[cap] = "CR"
  <2>1. SUFFICES ASSUME n > cap PROVE n = cap + 1 /\ Ahead[cap] = "CR"
    OBVIOUS
  <2>2. e = 2 /\ Len(c) + 1 = cap
    BY <1>5, <2>1
  <2>3. n = cap + 1
    BY <1>2, <1>9, <2>2
  <2>4. QED
    BY <1>4, <1>8, <2>2, <2>3
<1>13. Looked \in Nat /\ n \in Looked..Len(Ahead)
  <2>1. n >= Len(c) /\ n \in 0..Len(Ahead)
    BY <1>2, <1>4, <1>7, <1>9
  <2>2. QED
    BY <1>1, <1>2, <2>1
<1>14. RawData(t) = RawData(First(Ahead, n)) /\ Ahead' = After(Ahead, n)
  BY <1>5, <1>6, <1>7, Zenon
<1> HIDE DEF n
<1>15. QED
  BY <1>2, <1>5, <1>6, <1>10, <1>11, <1>12, <1>13, <1>14, GiveRawIs

\* What a line end leaves ahead of whoever reads next, its LF gone with its CR.
LEMMA LineEndTaken ==
  ASSUME BridgeInv, TypeOK', NEW b \in {"CR", "LF"}, batch # <<>>, Head(batch) = b,
         ~(batch = <<"CR">> /\ queued # <<>>), kind' # "RawRead", batch' = <<>>,
         PutBack(After(batch, ConsumedEnd(b))),
         pipe' = IF LfInPipe(b) THEN Tail(pipe) ELSE pipe
  PROVE  Ahead' = After(Unread, Stream!EndLength(Unread, 1))
<1>1. TypeOK /\ After(batch, ConsumedEnd(b)) \in Seq(AllBytes)
  BY BatchTypes DEF BridgeInv, TypeInv
<1>2. Ahead' = (After(batch, ConsumedEnd(b)) \o queued) \o pipe'
  BY <1>1, PutBackIs
<1>3. After(Unread, Stream!EndLength(Unread, 1)) = (After(batch, ConsumedEnd(b)) \o queued)
                                               \o IF LfInPipe(b) THEN Tail(pipe) ELSE pipe
  BY <1>1, EndOfLine
<1>4. QED
  BY <1>2, <1>3, Zenon

\* A line read ends with its line end.
LEMMA LineEndMapped ==
  ASSUME BridgeInv, LineEnd
  PROVE  StreamStep
<1>1. PICK b \in {"CR", "LF"} :
        /\ Byte(b) /\ kind \in LineKinds
        /\ pipe' = IF LfInPipe(b) THEN Tail(pipe) ELSE pipe
        /\ PutBack(After(batch, ConsumedEnd(b))) /\ batch' = <<>>
        /\ CompletePending(IF LfInPipe(b) /\ Len(buf) < ReadBufSize THEN Append(buf, "LF")
                           ELSE Consumed(After(batch, ConsumedEnd(b))), "line")
        /\ UNCHANGED <<events, pc, mode>>
  BY DEF LineEnd
<1>2. /\ pc = "process" /\ batch # <<>> /\ mode' = mode /\ TypeOK /\ TypeOK' /\ Head(batch) = b
      /\ events' = events /\ OwnText' = 0
  BY <1>1, ByteIs, NoNextBatch DEF Byte
<1>3. kind' = "None" /\ line' = <<>> /\ Looked' = 0
  BY <1>1 DEF CompletePending, LineKinds, Looked
<1>4. CASE batch = <<"CR">> /\ queued # <<>>
  BY <1>1, <1>4 DEF LfOverlooked, StreamStep
<1>5. CASE ~(batch = <<"CR">> /\ queued # <<>>)
  <2>1. Ahead' = After(Unread, Stream!EndLength(Unread, 1))
    BY <1>1, <1>2, <1>3, <1>5, LineEndTaken
  <2>2. CASE kind = "ConsoleRead"
    <3>1. Ahead # <<>> /\ IsEnd(Head(Ahead)) /\ Ahead = Unread
      BY <1>2, <2>2, BatchIs DEF Unread, IsEnd
    <3>2. LineFirst /\ Looked = 0
      BY <1>2, <2>2, LineIs DEF Looked
    <3>3. answer' = [how |-> "line", text |-> line]
      BY <1>1, <2>2 DEF CompletePending
    <3>4. Stream!GiveLine
      BY <1>2, <1>3, <2>1, <3>1, <3>2, <3>3, GiveLineIs
    <3>5. QED
      BY <3>4 DEF StreamStep, Stream!Next
  <2>3. CASE kind = "RawRead"
    <3>1. LET bytes == IF LfInPipe(b) /\ Len(buf) < ReadBufSize
                       THEN Append(buf, "LF") ELSE Consumed(After(batch, ConsumedEnd(b)))
          IN  answer' = [how |-> "raw", text |-> RawData(bytes)]
      BY <1>1, <2>3, Zenon DEF CompletePending
    <3>2. Stream!GiveRaw
      BY <1>2, <1>3, <1>5, <2>1, <2>3, <3>1, RawLineMapped, Zenon
    <3>3. QED
      BY <3>2 DEF StreamStep, Stream!Next
  <2>4. QED
    BY <1>1, <2>2, <2>3 DEF LineKinds
<1>6. QED
  BY <1>4, <1>5

-----------------------------------------------------------------------------
(* Keys *)

\* A key event at the front of what is ahead: queued, or the answer of a read of records.
LEMMA KeyQueued ==
  ASSUME BridgeInv, kind \notin LineKinds, batch # <<>>, QueueKey(Head(Ahead)), Ahead # <<>>,
         Head(Ahead) # "^C", Ahead' = After(Ahead, Stream!EndLength(Ahead, 1)),
         mode' = mode, line' = line
  PROVE  StreamStep
<1>1. /\ kind \in {"None", "ConsoleInput"} /\ kind' # "RawRead"
      /\ kind = "ConsoleInput" => events = <<>>
  BY Types DEF Kinds, LineKinds, QueueKey, BridgeInv, TypeInv, DrainedInv
<1>2. line = <<>> /\ OwnText = 0 /\ Looked = 0 /\ mode # "initial"
  BY <1>1, NoLineRead
<1>3. OwnText' = 0 /\ Looked' = 0
  BY <1>1, <1>2 DEF OwnText, Looked
<1>4. CASE kind = "None"
  <2>1. events' = Append(events, Head(Ahead)) /\ answer' = answer
    BY <1>4 DEF QueueKey
  <2>2. OneLess
    BY <1>2, <1>3 DEF OneLess
  <2>3. Stream!ToKey
    BY <1>2, <1>3, <2>1, <2>2, ToKeyIs
  <2>4. QED
    BY <2>3 DEF StreamStep, Stream!Next
<1>5. CASE kind = "ConsoleInput"
  <2>1. /\ answer' = [how |-> "keys", text |-> <<Head(Ahead)>>] /\ events = <<>>
        /\ events' \in {events, Append(events, Head(Ahead))}
    BY <1>1, <1>5 DEF QueueKey
  <2>2. Append(<<>>, Head(Ahead)) = <<Head(Ahead)>>
    OBVIOUS
  <2>3. events' \in {events, <<Head(Ahead)>>}
    BY <2>1, <2>2
  <2>4. Stream!GiveKeys
    BY <1>2, <1>3, <2>1, <2>3, GiveNewKeyIs
  <2>5. QED
    BY <2>4 DEF StreamStep, Stream!Next
<1>6. QED
  BY <1>1, <1>4, <1>5

LEMMA EnterKeyMapped ==
  ASSUME BridgeInv, EnterKey
  PROVE  StreamStep
<1>1. PICK b \in {"CR", "LF"} :
        /\ Byte(b) /\ kind \notin LineKinds
        /\ QueueKey(b)
        /\ pipe' = IF LfInPipe(b) THEN Tail(pipe) ELSE pipe
        /\ PutBack(After(batch, ConsumedEnd(b))) /\ batch' = <<>>
        /\ mode' = mode /\ line' = line
  BY DEF EnterKey
<1>2. /\ batch # <<>> /\ TypeOK' /\ Head(batch) = b
      /\ kind # "RawRead" /\ kind' # "RawRead"
  BY <1>1, ByteIs DEF Byte, LineKinds, QueueKey
<1>3. CASE batch = <<"CR">> /\ queued # <<>>
  BY <1>1, <1>3 DEF LfOverlooked, StreamStep
<1>4. CASE ~(batch = <<"CR">> /\ queued # <<>>)
  <2>1. Ahead' = After(Unread, Stream!EndLength(Unread, 1))
    BY <1>1, <1>2, <1>4, LineEndTaken
  <2>2. Ahead # <<>> /\ Head(Ahead) = b /\ Ahead = Unread
    BY <1>2, BatchIs DEF Unread
  <2>3. QED
    BY <1>1, <1>2, <2>1, <2>2, KeyQueued
<1>5. QED
  BY <1>3, <1>4

\* A byte that is no line end takes no LF with it.
LEMMA OneTaken ==
  ASSUME TypeOK, Ahead # <<>>, Head(Ahead) # "CR", Ahead' = Tail(Ahead)
  PROVE  Ahead' = After(Ahead, Stream!EndLength(Ahead, 1))
<1>1. Ahead \in Seq(AllBytes)
  BY AheadIs
<1>2. Ahead[1] # "CR" /\ After(Ahead, 1) = Tail(Ahead)
  BY <1>1, HeadAndTail
<1>3. QED
  BY <1>2 DEF Stream!EndLength

\* A raw read leaves a byte in _readbuf and goes on.
LEMMA LookMapped ==
  ASSUME BridgeInv, TypeOK', kind = "RawRead", kind' = "RawRead", batch # <<>>, mode' = mode,
         batch' = Tail(batch), UNCHANGED <<queued, pipe, buf, line, answer>>,
         Head(batch) \notin {"CR", "LF", "^C"},
         events' = IF Head(batch) \in SpecialKeys THEN Append(events, Head(batch)) ELSE events
  PROVE  StreamStep
<1>1. PICK c \in Seq(AllBytes) :
              /\ buf = c \o batch
              /\ Looked = Len(c)
              /\ Ahead = c \o (batch \o (queued \o pipe))
  BY RawIs
<1>2. /\ batch \in Seq(AllBytes) /\ queued \o pipe \in Seq(AllBytes) /\ Len(c) \in Nat
      /\ Len(batch) \in Nat /\ Len(batch) > 0 /\ buf \in Seq(AllBytes) /\ TypeOK
      /\ Len(Tail(batch)) = Len(batch) - 1 /\ Head(batch) = batch[1]
  BY Types, ConcatTypes, HeadAndTail, HeadTailProperties DEF BridgeInv, TypeInv
<1>3. Looked' = Looked + 1
  <2>1. Len(buf) = Len(c) + Len(batch)
    BY <1>1, <1>2, ConcatTypes
  <2>2. Looked' = Len(buf) - Len(Tail(batch))
    BY DEF Looked
  <2>3. QED
    BY <1>1, <1>2, <2>1, <2>2
<1>4. Ahead' = Ahead
  BY DEF Ahead, InBatch
<1>5. Len(c) < Len(Ahead) /\ Ahead[Len(c) + 1] = Head(batch)
  <2> DEFINE r == queued \o pipe
             A == batch \o r
  <2>1. A \in Seq(AllBytes) /\ A # <<>> /\ Head(A) = Head(batch)
    <3>1. r \in Seq(AllBytes)
      BY <1>2
    <3> HIDE DEF r
    <3>2. QED
      BY <1>2, <3>1, ConcatFront
  <2>2. Ahead = c \o A
    BY <1>1
  <2> HIDE DEF A
  <2>3. Len(A) \in Nat /\ Len(A) > 0 /\ Head(A) = A[1] /\ 1 \in 1..Len(A)
    BY <2>1
  <2>4. Ahead[Len(c) + 1] = A[1] /\ Len(Ahead) = Len(c) + Len(A)
    BY <2>1, <2>2, <2>3, ConcatElements, ConcatTypes
  <2>5. QED
    BY <1>2, <2>1, <2>3, <2>4
<1>6. line = <<>> /\ OwnText = 0 /\ mode # "initial"
  BY NoLineRead
<1>7. OwnText' = 0
  BY <1>6 DEF OwnText
<1>8. Stream!Look
  BY <1>1, <1>3, <1>4, <1>5, <1>6, <1>7, LookIs
<1>9. QED
  BY <1>8 DEF StreamStep, Stream!Next

LEMMA TextMapped ==
  ASSUME BridgeInv, Text
  PROVE  StreamStep
<1>1. PICK b \in {"a", "b"} :
        /\ Byte(b)
        /\ \/ /\ kind = "ConsoleRead" /\ line' = Append(line, b)
              /\ UNCHANGED <<events, kind, request, answer>>
           \/ kind = "RawRead" /\ UNCHANGED <<line, events, kind, request, answer>>
           \/ kind \notin LineKinds /\ QueueKey(b) /\ UNCHANGED line
  BY DEF Text
<1>2. /\ batch # <<>> /\ mode' = mode /\ TypeOK /\ TypeOK' /\ Head(batch) = b /\ pc = "process"
      /\ batch' = Tail(batch) /\ UNCHANGED <<pipe, queued, buf>>
  BY <1>1, ByteIs DEF Text, Byte
<1>3. CASE kind = "ConsoleRead"
  <2>1. line' = Append(line, b) /\ UNCHANGED <<events, kind, answer>>
    BY <1>1, <1>3 DEF LineKinds
  <2>2. Ahead' = Tail(Ahead) /\ Ahead # <<>> /\ Head(Ahead) = b
    BY <1>2, <1>3, <2>1, FrontTaken, BatchIs
  <2>3. LineFirst /\ OneLess /\ Looked' = Looked
    BY <1>2, <1>3, <2>1, LineIs, OneLessIs DEF Looked
  <2>4. Stream!EditByte
    BY <2>1, <2>2, <2>3, EditByteIs
  <2>5. QED
    BY <2>4 DEF StreamStep, Stream!Next
<1>4. CASE kind = "RawRead"
  <2>1. UNCHANGED <<kind, line, events, answer>>
    BY <1>1, <1>4 DEF LineKinds
  <2>2. b \notin {"CR", "LF", "^C"} /\ b \notin SpecialKeys
    BY DEF SpecialKeys
  <2>3. QED
    BY <1>2, <1>4, <2>1, <2>2, LookMapped
<1>5. CASE kind \notin LineKinds
  <2>1. QueueKey(b) /\ kind' # "RawRead" /\ kind # "RawRead" /\ line' = line
    BY <1>1, <1>5 DEF LineKinds, QueueKey
  <2>2. Ahead' = Tail(Ahead) /\ Ahead # <<>> /\ Head(Ahead) = b
    BY <1>2, <2>1, FrontTaken, BatchIs
  <2>3. b # "^C" /\ b # "CR"
    OBVIOUS
  <2>4. QED
    BY <1>2, <1>5, <2>1, <2>2, <2>3, OneTaken, KeyQueued
<1>6. QED
  BY <1>3, <1>4, <1>5 DEF LineKinds

\* A key that is no text is queued whoever reads.
LEMMA SpecialKeyMapped ==
  ASSUME BridgeInv, SpecialKey
  PROVE  StreamStep
<1>1. PICK b \in SpecialKeys : Byte(b) /\ QueueKey(b)
  BY DEF SpecialKey
<1>2. /\ batch # <<>> /\ mode' = mode /\ TypeOK /\ TypeOK' /\ Head(batch) = b /\ pc = "process"
      /\ batch' = Tail(batch) /\ UNCHANGED <<pipe, queued, buf, line>>
  BY <1>1, ByteIs DEF SpecialKey, Byte
<1>3. b \notin {"CR", "LF", "^C"}
  BY DEF SpecialKeys
<1>4. CASE kind = "ConsoleRead"
  <2>1. events' = Append(events, b) /\ UNCHANGED <<kind, answer>>
    BY <1>1, <1>4 DEF QueueKey
  <2>2. Ahead' = Tail(Ahead) /\ Ahead # <<>> /\ Head(Ahead) = b
    BY <1>2, <1>4, <2>1, FrontTaken, BatchIs
  <2>3. Ahead' = After(Ahead, Stream!EndLength(Ahead, 1))
    BY <1>2, <1>3, <2>2, OneTaken
  <2>4. OneLess /\ Looked = 0 /\ Looked' = 0
    BY <1>2, <1>4, <2>1, OneLessIs DEF Looked
  <2>5. Stream!ToKey
    BY <1>2, <1>3, <2>1, <2>2, <2>3, <2>4, ToKeyIs
  <2>6. QED
    BY <2>5 DEF StreamStep, Stream!Next
<1>5. CASE kind = "RawRead"
  <2>1. events' = Append(events, b) /\ UNCHANGED <<kind, answer>>
    BY <1>1, <1>5 DEF QueueKey
  <2>2. QED
    BY <1>2, <1>3, <1>5, <2>1, LookMapped
<1>6. CASE kind \notin LineKinds
  <2>1. kind' # "RawRead" /\ kind # "RawRead"
    BY <1>1, <1>6 DEF LineKinds, QueueKey
  <2>2. Ahead' = Tail(Ahead) /\ Ahead # <<>> /\ Head(Ahead) = b
    BY <1>2, <2>1, FrontTaken, BatchIs
  <2>3. QED
    BY <1>1, <1>2, <1>3, <1>6, <2>2, OneTaken, KeyQueued
<1>7. QED
  BY <1>4, <1>5, <1>6 DEF LineKinds

LEMMA Win32EnterMapped ==
  ASSUME BridgeInv, Win32Enter
  PROVE  StreamStep
<1>1. /\ batch # <<>> /\ mode' = mode /\ TypeOK /\ TypeOK' /\ Head(batch) = "Enter"
      /\ pc = "process" /\ pipe' = pipe
  BY ByteIs DEF Win32Enter, Byte
<1>2. CASE kind = "ConsoleRead"
  <2>1. /\ PutBack(Tail(batch)) /\ batch' = <<>> /\ kind' = "None" /\ events' = events
        /\ line' = <<>> /\ answer' = [how |-> "line", text |-> line]
    BY <1>2 DEF Win32Enter, CompletePending
  <2>2. Ahead' = Tail(Ahead) /\ Ahead # <<>> /\ Head(Ahead) = "Enter"
    BY <1>1, <1>2, <2>1, FrontTaken, BatchIs
  <2>3. LineFirst /\ OwnText' = 0 /\ Looked' = Looked
    BY <1>1, <1>2, <2>1, LineIs, NoNextBatch DEF Looked
  <2>4. Ahead' = After(Ahead, Stream!EndLength(Ahead, 1))
    BY <1>1, <2>2, OneTaken
  <2>5. Stream!GiveLine
    BY <2>1, <2>2, <2>3, <2>4, GiveLineIs DEF IsEnd
  <2>6. QED
    BY <2>5 DEF StreamStep, Stream!Next
<1>3. CASE kind = "RawRead"
  <2>1. UNCHANGED <<queued, buf, kind, line, events, answer>> /\ batch' = Tail(batch)
    BY <1>3 DEF Win32Enter
  <2>2. "Enter" \notin {"CR", "LF", "^C"} /\ "Enter" \notin SpecialKeys
    BY DEF SpecialKeys
  <2>3. QED
    BY <1>1, <1>3, <2>1, <2>2, LookMapped
<1>4. CASE kind \notin LineKinds
  <2>1. /\ QueueKey("Enter") /\ kind' # "RawRead" /\ kind # "RawRead"
        /\ queued' = queued /\ batch' = Tail(batch) /\ line' = line
    BY <1>4 DEF LineKinds, QueueKey, Win32Enter
  <2>2. Ahead' = Tail(Ahead) /\ Ahead # <<>> /\ Head(Ahead) = "Enter"
    BY <1>1, <2>1, FrontTaken, BatchIs
  <2>3. QED
    BY <1>1, <1>4, <2>1, <2>2, OneTaken, KeyQueued
<1>5. QED
  BY <1>2, <1>3, <1>4 DEF LineKinds

\* Every step of the bridge.
LEMMA StepMapped ==
  ASSUME BridgeInv, [Next]_vars
  PROVE  StreamStep
<1>1. CASE Request
  BY <1>1, RequestMapped
<1>2. CASE Type \/ CloseVt
  BY <1>2, TerminalMapped
<1>3. CASE NothingTyped \/ BatchDone \/ HandlerDone \/ on_idle \/ wait_for_pending_vt_input
  BY <1>3, QuietMapped
<1>4. CASE consume_input_buffer_for_console_read
  BY <1>4, ConsumeMapped
<1>5. CASE prepare_console_input_events
  BY <1>5, PrepareMapped
<1>6. CASE ReplyConsoleInput
  BY <1>6, ReplyMapped
<1>7. CASE TakeBytes
  BY <1>7, TakeMapped
<1>8. CASE BufferFull \/ InputEnded \/ IdleFindsEof
  BY <1>8, EndMapped
<1>9. CASE CtrlC
  BY <1>9, CtrlCMapped
<1>10. CASE CtrlZ
  BY <1>10, CtrlZMapped
<1>11. CASE Text \/ SpecialKey
  BY <1>11, TextMapped, SpecialKeyMapped
<1>12. CASE LineEnd
  BY <1>12, LineEndMapped
<1>13. CASE EnterKey
  BY <1>13, EnterKeyMapped
<1>14. CASE Win32Enter
  BY <1>14, Win32EnterMapped
<1>15. CASE UNCHANGED vars
  BY <1>15, StutterIs DEF vars, Ahead, InBatch, OwnText, Looked, StreamStep
<1>16. QED
  BY <1>1, <1>2, <1>3, <1>4, <1>5, <1>6, <1>7, <1>8, <1>9, <1>10, <1>11, <1>12, <1>13, <1>14,
     <1>15, Zenon
  DEF Next, Progress

-----------------------------------------------------------------------------
(* The invariant *)

LEMMA StreamRequest ==
  ASSUME BridgeInv, Request
  PROVE  StreamInv'
<1>1. /\ batch = <<>> /\ pc = "rest"
      /\ AtEof => UNCHANGED <<pc, batch, kind, buf, cap, line>>
      /\ AtEof \/ (kind = "None" /\ line = <<>>)
  BY DEF Request, handle_raw_read, handle_console_read, handle_console_input, Serve, Idle, AtEof,
     BridgeInv, HoldsInv, StreamInv
<1>2. CASE AtEof
  BY <1>1, <1>2 DEF BridgeInv, StreamInv
<1>3. CASE handle_raw_read /\ ~AtEof
  <2>1. cap' \in Nat /\ kind' = "RawRead" /\ buf' = <<>> /\ batch' = <<>> /\ line' = <<>>
    BY <1>1, <1>3, SizesAssumption DEF handle_raw_read
  <2>2. <<>> \in Seq(AllBytes) /\ <<>> = <<>> \o <<>> /\ Len(<<>>) <= cap'
    BY <2>1
  <2>3. QED
    BY <2>1, <2>2 DEF StreamInv
<1>4. CASE handle_console_read
  BY <1>4 DEF handle_console_read, StreamInv
<1>5. CASE handle_console_input /\ ~AtEof
  BY <1>1, <1>5 DEF handle_console_input, StreamInv
<1>6. QED
  BY <1>2, <1>3, <1>4, <1>5 DEF Request

\* A batch comes behind the bytes of the earlier ones, and there is room for it.
LEMMA StreamTake ==
  ASSUME BridgeInv, TakeBytes
  PROVE  StreamInv'
<1>1. /\ pc' = "process" /\ UNCHANGED <<kind, cap, line>> /\ batch = <<>> /\ buf' = buf \o batch'
      /\ Room > 0
  BY DEF TakeBytes, BridgeInv, StreamInv
<1>2. TypeOK /\ TypeOK'
  BY BetweenTypes DEF BridgeInv, TypeInv
<1>3. CASE kind = "RawRead"
  <2>1. buf \in Seq(AllBytes) /\ buf' = buf \o batch' /\ line = <<>>
    BY <1>1, <1>2, <1>3, Types DEF BridgeInv, StreamInv
  <2>2. Len(buf') <= cap'
    <3>1. /\ Room = cap - Len(buf) /\ cap \in Nat /\ Len(buf) \in Nat
          /\ queued \in Seq(AllBytes) /\ pipe \in Seq(AllBytes) /\ buf \in Seq(AllBytes)
      BY <1>2, <1>3, Types, SizesAssumption DEF Room
    <3>2. Room \in Nat /\ Len(queued) \in Nat /\ Len(pipe) \in Nat
      BY <1>1, <3>1
    <3>3. ASSUME NEW n \in Nat
          PROVE  Least(Room, n) \in 0..n /\ Least(Room, n) <= Room
      BY <3>2, <3>3 DEF Least
    <3>4. batch' \in Seq(AllBytes) /\ Len(batch') <= Room
      <4>1. CASE queued # <<>>
        <5>1. Least(Room, Len(queued)) \in 0..Len(queued) /\ Least(Room, Len(queued)) <= Room
          BY <3>2, <3>3
        <5>2. batch' = First(queued, Least(Room, Len(queued)))
          BY <4>1 DEF TakeBytes
        <5>3. QED
          BY <3>1, <5>1, <5>2, FirstProperties
      <4>2. CASE queued = <<>>
        <5>1. Least(Room, Len(pipe)) \in 0..Len(pipe) /\ Least(Room, Len(pipe)) <= Room
          BY <3>2, <3>3
        <5>2. batch' = First(pipe, Least(Room, Len(pipe)))
          BY <4>2 DEF TakeBytes
        <5>3. QED
          BY <3>1, <5>1, <5>2, FirstProperties
      <4>3. QED
        BY <4>1, <4>2
    <3>5. Len(buf') = Len(buf) + Len(batch') /\ Len(batch') \in Nat
      BY <1>1, <3>1, <3>4, ConcatTypes
    <3>6. QED
      BY <1>1, <3>1, <3>4, <3>5
  <2>3. QED
    BY <1>1, <1>3, <2>1, <2>2 DEF StreamInv
<1>4. CASE kind # "RawRead"
  BY <1>1, <1>4 DEF StreamInv, BridgeInv
<1>5. QED
  BY <1>3, <1>4

\* Between batches a read ends or stays as it is.
LEMMA StreamBetween ==
  ASSUME BridgeInv,
         \/ consume_input_buffer_for_console_read \/ prepare_console_input_events
         \/ ReplyConsoleInput \/ BufferFull \/ NothingTyped \/ InputEnded \/ BatchDone \/ HandlerDone \/ on_idle
         \/ IdleFindsEof \/ wait_for_pending_vt_input \/ Type \/ CloseVt \/ UNCHANGED vars
  PROVE  StreamInv'
<1>1. /\ batch' = batch /\ cap' = cap
      /\ pc' = "process" => pc = "process"
      /\ pc = "process" /\ pc' # "process" => batch = <<>>
  BY DEF consume_input_buffer_for_console_read, prepare_console_input_events, ReplyConsoleInput, BufferFull, NothingTyped, InputEnded,
     BatchDone, HandlerDone, Returns, on_idle, IdleFindsEof, wait_for_pending_vt_input, Type,
     CloseVt, vars, BridgeInv, StreamInv
<1>2. \/ UNCHANGED <<kind, buf, line>>
      \/ kind = "ConsoleRead" /\ kind' = "ConsoleRead"
      \/ kind' \in {"None", "ConsoleInput"} /\ line' = <<>>
  BY DEF consume_input_buffer_for_console_read, prepare_console_input_events, ReplyConsoleInput, BufferFull, NothingTyped, InputEnded,
     BatchDone, HandlerDone, Returns, on_idle, IdleFindsEof, wait_for_pending_vt_input, Type,
     CloseVt, vars, CompletePending, BridgeInv, StreamInv, HoldsInv, TypeInv, ModeInv
<1>3. QED
  BY <1>1, <1>2 DEF BridgeInv, StreamInv

\* A raw read goes on in its batch, and the line of a ReadConsole ends with it.
LEMMA StreamByte ==
  ASSUME BridgeInv, CtrlC \/ CtrlZ \/ Text \/ SpecialKey \/ LineEnd \/ EnterKey \/ Win32Enter
  PROVE  StreamInv'
<1>1. /\ pc = "process" /\ pc' = pc /\ batch # <<>> /\ cap' = cap /\ TypeOK
  BY ByteIs DEF CtrlC, CtrlZ, Text, SpecialKey, LineEnd, EnterKey, Win32Enter
<1>2. /\ batch \in Seq(AllBytes) /\ Head(batch) \in AllBytes
      /\ Tail(batch) \in Seq(AllBytes) /\ batch = <<Head(batch)>> \o Tail(batch)
  BY <1>1, Types, HeadAndTail
<1>3. kind' # "ConsoleRead" => line' = <<>>
  <2>1. CASE kind = "ConsoleRead"
    BY <2>1 DEF CtrlC, CtrlZ, Text, SpecialKey, LineEnd, EnterKey, Win32Enter, LineKinds,
       CompletePending, QueueKey
  <2>2. CASE kind # "ConsoleRead"
    <3>1. line = <<>>
      BY <2>2 DEF BridgeInv, StreamInv
    <3>2. QED
      BY <2>2, <3>1 DEF CtrlC, CtrlZ, Text, SpecialKey, LineEnd, EnterKey, Win32Enter, LineKinds,
         CompletePending, QueueKey
  <2>3. QED
    BY <2>1, <2>2
<1>4. CASE kind' # "RawRead"
  BY <1>1, <1>3, <1>4 DEF StreamInv
<1>5. CASE kind' = "RawRead"
  <2>1. kind = "RawRead" /\ buf' = buf /\ batch' = Tail(batch)
    BY <1>1, <1>5 DEF CtrlC, CtrlZ, Text, SpecialKey, LineEnd, EnterKey, Win32Enter, LineKinds,
       CompletePending, QueueKey
  <2>2. PICK c \in Seq(AllBytes) : buf = c \o batch
    BY <2>1 DEF BridgeInv, StreamInv
  <2>3. Append(c, Head(batch)) \in Seq(AllBytes)
    BY <1>2, <2>2
  <2>4. buf' = Append(c, Head(batch)) \o batch'
    <3>1. Append(c, Head(batch)) \o Tail(batch) = c \o (<<Head(batch)>> \o Tail(batch))
      BY <1>2, AppendConcat, SMTT(30)
    <3>2. QED
      BY <1>2, <2>1, <2>2, <3>1, Zenon
  <2>5. Len(buf') <= cap'
    BY <1>1, <2>1 DEF BridgeInv, StreamInv
  <2>6. QED
    BY <1>1, <1>3, <1>5, <2>3, <2>4, <2>5 DEF StreamInv
<1>6. QED
  BY <1>4, <1>5

LEMMA StreamStepInv ==
  ASSUME BridgeInv, [Next]_vars
  PROVE  StreamInv'
BY StreamRequest, StreamTake, StreamBetween, StreamByte, Zenon DEF Next, Progress

\* pipe_bridge as a whole (process_input, queue_unprocessed_vt_input, _on_line_terminator,
\* consume_input_buffer_for_console_read, complete_pending): for every size of _readbuf, every
\* capacity, every length of input and every initial text, one that ends its own read
\* included, whatever the batches, put-backs and reads that alternate, each answer is the
\* next part of what was typed as InputStream says, but for the one LF of LfOverlooked.
THEOREM AnswersFollowTheStream == Spec => StreamSpec
<1>1. Init => BridgeInv
  <2>1. Init => StreamInv
    BY DEF Init, StreamInv
  <2>2. QED
    BY <2>1, TypeInit DEF Init, HoldsInv, DrainedInv, BridgeInv
<1>2. Init => Stream!Init
  <2>1. <<>> \o <<>> \o <<>> = <<>>
    OBVIOUS
  <2>2. QED
    BY <2>1 DEF Init, Stream!Init
<1>3. BridgeInv /\ [Next]_vars => BridgeInv'
  BY TypeStep, HoldsStep, DrainedStep, StreamStepInv DEF BridgeInv
<1>4. BridgeInv /\ [Next]_vars => [Stream!Next \/ LfOverlooked]_(Stream!vars)
  BY StepMapped DEF StreamStep
<1>5. QED
  BY <1>1, <1>2, <1>3, <1>4, PTL DEF Spec, StreamSpec

=============================================================================
