SPECIFICATION FairSpec
CONSTANTS
  Bytes = {"a", "CR"}
  MaxBytes = 3
  ReadBufSize = 3
  Capacities = {3}
  InitialData <- ShortTexts
INVARIANT HeldOrAnswered
CHECK_DEADLOCK FALSE
