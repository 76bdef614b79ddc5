------------------------------ MODULE MCIoLoop ------------------------------
(***************************************************************************)
(* Small instances of IoLoop for TLC.                                      *)
(***************************************************************************)
EXTENDS IoLoop

CONSTANTS t1, t2, t3, p1, p2

OneProcess   == [t \in Threads |-> p1]
TwoProcesses == [t \in Threads |-> IF t = t1 THEN p1 ELSE p2]

\* Every call; three threads may wait for input at once.
MixedCalls ==
  [t \in Threads |->
    CASE t = t1 -> {"ReadConsole", "PollInput"}
      [] t = t2 -> {"GetConsoleInput", "WriteConsole"}
      [] t = t3 -> {"RAW_READ", "WriteConsoleInput"}]

\* Two line readers and a poller.
PolledReads ==
  [t \in Threads |-> IF t = t3 THEN {"PollInput"} ELSE {"ReadConsole"}]

=============================================================================
