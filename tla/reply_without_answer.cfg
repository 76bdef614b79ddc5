SPECIFICATION FairSpec
CONSTANTS
  Bytes = {"a", "CR", "Enter"}
  MaxBytes = 3
  ReadBufSize = 3
  Capacities = {3}
  InitialData <- NoText
INVARIANT RepliesAreAnswers
CHECK_DEADLOCK FALSE
