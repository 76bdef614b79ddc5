---------------------------- MODULE InputRecords ----------------------------
(***************************************************************************)
(* The console's queue of INPUT_RECORDs and the event clients wait on      *)
(* before they read it: the terminal's keys and WriteConsoleInput fill it, *)
(* GetConsoleInput, a ReadConsole that edits its line with the queued      *)
(* keys, and flushes empty it.  A record is a member of Records.           *)
(***************************************************************************)
EXTENDS Naturals, Sequences, SequencesExt

CONSTANTS MaxEvents,   \* max_events
          MaxWritten,  \* bound: records of one WriteConsoleInput
          MaxRecords   \* sizes of a reader's buffer, in records

InputRecordsAssumption == MaxEvents \in Nat \ {0} /\ MaxWritten \in Nat /\ MaxRecords \subseteq Nat

VARIABLES
  events,      \* input_buffer: the queue
  event_set,   \* input_available_event
  waiting,     \* the waiting read: NoRead, a LineRead, or a GetConsoleInput
  due,         \* history: the records that clients have coming, by what they were told
  last_read    \* history: what the latest step answered, and what was due before it

input_vars == <<events, event_set, waiting, due, last_read>>

Records == {"key", "up", "Enter", "window"}
\* Key events of WriteConsoleInputA hold bytes: a lead and a trail are one
\* character.
AnsiRecords == {"key", "lead", "trail", "window"}
NoAnswer == [records |-> <<>>, told |-> 0, before |-> <<>>]
NoRead == [for |-> "none"]
LineRead == [for |-> "line"]
Fewest(a, b) == IF a <= b THEN a ELSE b
FirstOf(s, n) == SubSeq(s, 1, Fewest(n, Len(s)))
Behind(s, n) == SubSeq(s, n + 1, Len(s))
----------------------------------------------------------------------------
(* input_buffer.  The event is set by what is stored, and reset by what    *)
(* leaves the queue empty.                                                 *)

Fits(records) == FirstOf(records, MaxEvents - Len(events))
Signalled(stored, set) == set \/ stored # <<>>
ResetIfEmpty(queue, set) == set /\ queue # <<>>

\* A mutant of the next: the records come in front one by one.
BugReversed(queue, records) == Reverse(records) \o queue

prepend_range(queue, records) == records \o queue

InputInit ==
  /\ events = <<>> /\ event_set = FALSE /\ waiting = NoRead /\ due = <<>> /\ last_read = NoAnswer
----------------------------------------------------------------------------
\* A GetConsoleInput that peeks leaves the records.
Reader == [for : {"records"}, peek : BOOLEAN, max : MaxRecords]

\* prepare_console_input_completion on a queue, with what is due before it.
Answered(reader, queue, set, owed) ==
  LET records == FirstOf(queue, reader.max)
      left == IF reader.peek THEN queue ELSE Behind(queue, Len(records))
  IN /\ last_read' = [records |-> records, told |-> Len(records), before |-> owed]
     /\ events' = left
     /\ event_set' = IF reader.peek THEN set ELSE ResetIfEmpty(left, set)
     /\ due' = IF reader.peek THEN owed ELSE Behind(owed, Len(records))

\* The terminal: a key, its release, a new window size.  It is not told
\* when the queue is full.  A waiting GetConsoleInput is completed.
emit_key ==
  \E record \in Records :
    LET stored == Fits(<<record>>)
        queue == events \o stored
        set == Signalled(stored, event_set)
        owed == due \o stored
    IN IF waiting.for = "records"
       THEN Answered(waiting, queue, set, owed) /\ waiting' = NoRead
       ELSE /\ events' = queue /\ event_set' = set /\ due' = owed
            /\ last_read' = NoAnswer /\ UNCHANGED waiting

\* GetConsoleInput, with CONSOLE_READ_NOREMOVE and CONSOLE_READ_NOWAIT or
\* without.  A read that may wait is not dispatched behind another one.
handle_console_input ==
  \E peek \in BOOLEAN, wait \in BOOLEAN, max \in MaxRecords :
    /\ wait => waiting = NoRead
    /\ IF max # 0 /\ events = <<>> /\ wait
       THEN /\ waiting' = [for |-> "records", peek |-> peek, max |-> max]
            /\ last_read' = NoAnswer /\ UNCHANGED <<events, event_set, due>>
       ELSE /\ Answered([for |-> "records", peek |-> peek \/ max = 0, max |-> max], events, event_set, due)
            /\ UNCHANGED waiting

api_get_num_input ==
  /\ last_read' = [records |-> events, told |-> Len(events), before |-> due]
  /\ UNCHANGED <<events, event_set, waiting, due>>

\* WriteConsoleInputA: a lead byte takes the key event behind it, even its
\* own release or another lead; which character comes of the two is left
\* out.  So a key is taken when an odd number of leads stand before it.
LeadsBefore(records, k) ==
  Cardinality({j \in 1..(k - 1) : \A i \in j..(k - 1) : records[i] = "lead"})
TakenByLead(records, k) == records[k] # "window" /\ LeadsBefore(records, k) % 2 = 1
NthOf(places, n) == CHOOSE k \in places : Cardinality({j \in places : j <= k}) = n
Unicode(records) ==
  LET kept == {k \in DOMAIN records : ~TakenByLead(records, k)}
  IN [n \in 1..Cardinality(kept) |->
        IF records[NthOf(kept, n)] = "window" THEN "window" ELSE "key"]

\* consume_input_buffer_for_console_read: the line takes the keys up to an
\* Enter, the other records are skipped.
TakenByLine(queue) ==
  IF \E k \in DOMAIN queue : queue[k] = "Enter" THEN SelectInSeq(queue, LAMBDA r : r = "Enter")
  ELSE Len(queue)

LineConsumes(queue, set, owed) ==
  LET n == TakenByLine(queue)
      left == Behind(queue, n)
  IN /\ events' = left /\ event_set' = ResetIfEmpty(left, set)
     /\ due' = Behind(owed, n)
     /\ waiting' = IF n > 0 /\ queue[n] = "Enter" THEN NoRead ELSE LineRead

\* WriteConsoleInput: behind the queued records, or in front of them, as
\* many as there is room for, which the caller is told.  The reader that
\* waits gets them.
api_write_console_input ==
  \E append \in BOOLEAN, unicode \in BOOLEAN :
  \E written \in UNION {[1..n -> IF unicode THEN Records ELSE AnsiRecords] : n \in 0..MaxWritten} :
    LET records == IF unicode THEN written ELSE Unicode(written)
        stored == Fits(records)
        told == Len(stored)
        queue == IF append THEN events \o stored ELSE prepend_range(events, stored)
        owed == IF append THEN due \o FirstOf(records, told) ELSE FirstOf(records, told) \o due
        set == Signalled(stored, event_set)
    IN CASE told > 0 /\ waiting.for = "records" ->
              Answered(waiting, queue, set, owed) /\ waiting' = NoRead
         [] told > 0 /\ waiting = LineRead ->
              LineConsumes(queue, set, owed) /\ last_read' = NoAnswer
         [] OTHER -> /\ events' = queue /\ event_set' = set /\ due' = owed
                     /\ last_read' = NoAnswer /\ UNCHANGED waiting

\* ReadConsole starts with what is queued.
handle_console_read ==
  /\ waiting = NoRead
  /\ LineConsumes(events, event_set, due)
  /\ last_read' = NoAnswer

\* The terminal ends the line, or Ctrl+C aborts it.
LineDone ==
  /\ waiting = LineRead /\ waiting' = NoRead
  /\ last_read' = NoAnswer /\ UNCHANGED <<events, event_set, due>>

\* FlushConsoleInputBuffer, FlushFileBuffers, Ctrl+Break, which ends a line
\* read as well.
flush ==
  \E break \in BOOLEAN :
    /\ events' = <<>> /\ event_set' = FALSE /\ due' = <<>>
    /\ waiting' = IF break /\ waiting = LineRead THEN NoRead ELSE waiting
    /\ last_read' = NoAnswer

InputNext ==
  \/ emit_key \/ handle_console_input \/ api_get_num_input \/ api_write_console_input
  \/ handle_console_read \/ LineDone \/ flush

InputSpec == InputInit /\ [][InputNext]_input_vars
----------------------------------------------------------------------------
\* What clients are told of the queue is so: the event they wait on is set
\* exactly while a read would return something, a read or a peek returns
\* what is due in the order in which it was queued (records put in front
\* keep their order), a caller's records are in the queue as far as it was
\* told, and none waits for records that are there.
InputAsTold ==
  /\ events = due
  /\ event_set <=> due # <<>>
  /\ Len(events) <= MaxEvents
  /\ waiting.for = "records" => due = <<>>
  /\ last_read.records = FirstOf(last_read.before, last_read.told)
=============================================================================
