---------------------------- MODULE InputStream ----------------------------
(***************************************************************************)
(* What pipe_bridge promises about the bytes typed at the terminal: a FIFO *)
(* in two stages.  `bytes' are typed and not looked at, `keys' are queued  *)
(* as key events, `line' is edited for the line read that waits.  A line   *)
(* read takes keys, then bytes, through the first line end; a raw read     *)
(* takes bytes; a record read takes keys.  Ctrl+C is never a key and drops *)
(* what a line read has collected.  Two things break the order: a key that *)
(* is no text stays behind the line a read is editing (and a raw read gets *)
(* its byte as well), and the initial text of a line read goes before the  *)
(* keys, what it has behind its own line end after them.                   *)
(***************************************************************************)
EXTENDS Naturals, Sequences

CONSTANTS Bytes,          \* what can be typed
          InitialData     \* initial texts of line reads

VARIABLES line, keys, bytes,
          own,            \* how many bytes in front are a read's initial text
          seen,           \* how many bytes in front a raw read has looked at
          answer

vars == <<line, keys, bytes, own, seen, answer>>

\* CR and LF end what a raw read takes; an Enter key ends a line as well.
IsRawEnd(b) == b \in {"CR", "LF"}
IsEnd(b) == IsRawEnd(b) \/ b = "Enter"
\* Keys that are no text.
SpecialKeys == {"Tab", "^Z"}

First(s, n) == SubSeq(s, 1, n)
After(s, n) == SubSeq(s, n + 1, Len(s))

\* The number of bytes the line end at position n of s takes: LF goes with its CR.
EndLength(s, n) == IF s[n] = "CR" /\ n < Len(s) /\ s[n + 1] = "LF" THEN 2 ELSE 1

\* What a raw read of `cap' bytes returns for the typed bytes s: a lone CR or LF
\* becomes CR LF when it fits.
Normalised(s, cap) ==
  LET d == First(s, IF Len(s) < cap THEN Len(s) ELSE cap)
      n == Len(d)
  IN  IF n = 0 \/ n = cap THEN d
      ELSE IF d[n] = "CR" THEN Append(d, "LF")
      ELSE IF d[n] = "LF" /\ (n = 1 \/ d[n - 1] # "CR") THEN First(d, n - 1) \o <<"CR", "LF">>
      ELSE d

Init ==
  /\ line = <<>> /\ keys = <<>> /\ bytes = <<>> /\ own = 0 /\ seen = 0
  /\ answer = [how |-> "none", text |-> <<>>]

Answer(how, text) == answer' = [how |-> how, text |-> text]
Typed(b) == bytes # <<>> /\ Head(bytes) = b

Type == /\ \E b \in Bytes : bytes' = Append(bytes, b)
        /\ UNCHANGED <<line, keys, own, seen, answer>>

-----------------------------------------------------------------------------
(* From stage to stage                                                     *)

\* No read has begun on what is typed.
Untouched == line = <<>> /\ own = 0 /\ seen = 0

InitialText ==
  /\ Untouched
  /\ \E t \in InitialData : bytes' = t \o bytes /\ own' = Len(t)
  /\ UNCHANGED <<line, keys, seen, answer>>

\* One byte of the initial text less.
OneLess == own' = IF own > 0 THEN own - 1 ELSE 0

ToKey ==
  /\ bytes # <<>> /\ Head(bytes) # "^C" /\ seen = 0
  /\ Untouched \/ Head(bytes) \in SpecialKeys
  /\ keys' = Append(keys, Head(bytes))
  /\ bytes' = After(bytes, EndLength(bytes, 1))
  /\ OneLess
  /\ UNCHANGED <<line, seen, answer>>

\* Ctrl+C while nobody reads a line: no key, and the keys before it stay.
Interrupt ==
  /\ Typed("^C") /\ Untouched
  /\ bytes' = Tail(bytes)
  /\ UNCHANGED <<line, keys, own, seen, answer>>

\* Keys go into the line in their order, those without a character nowhere.
EditKey ==
  /\ keys # <<>> /\ ~IsEnd(Head(keys)) /\ seen = 0
  /\ line' = IF Head(keys) = "^Z" THEN line ELSE Append(line, Head(keys))
  /\ keys' = Tail(keys)
  /\ UNCHANGED <<bytes, own, seen, answer>>

\* Text goes into the line behind all text typed before it.
LineIsNext == seen = 0 /\ (own > 0 \/ keys \in Seq(SpecialKeys))

EditByte ==
  /\ bytes # <<>> /\ LineIsNext
  /\ ~IsEnd(Head(bytes)) /\ Head(bytes) \notin SpecialKeys \cup {"^C"}
  /\ line' = Append(line, Head(bytes))
  /\ bytes' = Tail(bytes)
  /\ OneLess
  /\ UNCHANGED <<keys, seen, answer>>

\* A raw read looks at its next byte; a key that is no text is queued as well.
Look ==
  /\ line = <<>> /\ own = 0 /\ seen < Len(bytes)
  /\ ~IsRawEnd(bytes[seen + 1]) /\ bytes[seen + 1] # "^C"
  /\ seen' = seen + 1
  /\ keys' = IF bytes[seen + 1] \in SpecialKeys THEN Append(keys, bytes[seen + 1]) ELSE keys
  /\ UNCHANGED <<line, bytes, own, answer>>

-----------------------------------------------------------------------------
(* Answers                                                                 *)

GiveKeys ==
  /\ Untouched
  /\ \/ /\ \E n \in 0..Len(keys) : /\ Answer("keys", First(keys, n))
                                   /\ keys' \in {keys, After(keys, n)}
        /\ UNCHANGED bytes
     \/ /\ keys = <<>> /\ bytes # <<>> /\ Head(bytes) # "^C"
        /\ Answer("keys", <<Head(bytes)>>)
        /\ bytes' = After(bytes, EndLength(bytes, 1))
        /\ keys' \in {keys, <<Head(bytes)>>}
  /\ UNCHANGED <<line, own, seen>>

\* A line read is answered: its line is done, and what is left of an initial text is
\* typed from now on.
LineDone(how, text) == Answer(how, text) /\ line' = <<>> /\ own' = 0 /\ UNCHANGED seen

\* Its line end is a key already, or the next byte.
GiveLine ==
  /\ LineDone("line", line)
  /\ \/ /\ keys # <<>> /\ IsEnd(Head(keys))
        /\ keys' = Tail(keys) /\ UNCHANGED bytes
     \/ /\ bytes # <<>> /\ IsEnd(Head(bytes)) /\ LineIsNext
        /\ bytes' = After(bytes, EndLength(bytes, 1)) /\ UNCHANGED keys

\* Ctrl+Z, the read's buffer full, or the end of the input: the line as it is.
GiveLineEarly ==
  /\ LineDone("early", line) /\ LineIsNext
  /\ bytes' = bytes \/ (Typed("^Z") /\ bytes' = Tail(bytes))
  /\ UNCHANGED keys

AbortLine ==
  /\ Typed("^C") /\ LineIsNext
  /\ LineDone("aborted", <<>>)
  /\ bytes' = Tail(bytes)
  /\ UNCHANGED keys

\* A raw read of cap bytes takes what it has looked at and then a line end or Ctrl+Z;
\* LF may only stay behind its CR when the CR filled the capacity.
GiveRaw ==
  /\ line = <<>> /\ own = 0
  /\ \E n \in seen..Len(bytes), cap \in 1..(Len(bytes) + 2) :
       LET s == First(bytes, n) IN
       /\ n = seen \/ (n = seen + 1 /\ (IsRawEnd(s[n]) \/ s[n] = "^Z"))
            \/ (n = seen + 2 /\ s[n - 1] = "CR" /\ s[n] = "LF")
       /\ n > seen /\ s[n] = "CR" /\ n < Len(bytes) /\ bytes[n + 1] = "LF" => n = cap
       /\ n > cap => n = cap + 1 /\ s[cap] = "CR"
       /\ Answer("raw", Normalised(s, cap))
       /\ bytes' = After(bytes, n)
  /\ seen' = 0
  /\ UNCHANGED <<line, keys, own>>

AbortRaw ==
  /\ line = <<>> /\ own = 0
  /\ seen < Len(bytes) /\ bytes[seen + 1] = "^C"
  /\ Answer("aborted", <<>>)
  /\ bytes' = After(bytes, seen + 1)
  /\ seen' = 0
  /\ UNCHANGED <<line, keys, own>>

\* A read that meets the end of the input before it began.
GiveNothing == Answer("eof", <<>>) /\ UNCHANGED <<line, keys, bytes, own, seen>>

Next == Type \/ InitialText \/ ToKey \/ Interrupt \/ EditKey \/ EditByte \/ Look
          \/ GiveKeys \/ GiveLine \/ GiveLineEarly \/ AbortLine \/ GiveRaw \/ AbortRaw
          \/ GiveNothing

Spec == Init /\ [][Next]_vars
=============================================================================
