SPECIFICATION FairSpec
CONSTANTS
  Bytes = {"a"}
  MaxBytes = 3
  ReadBufSize = 2
  Capacities = {2}
  InitialData <- NoText
PROPERTY IdleTakesInput
CHECK_DEADLOCK FALSE
