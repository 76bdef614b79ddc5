SPECIFICATION BridgeSpec
CONSTANTS
  Bytes = {"a", "CR", "LF", "^C", "^Z", "Enter"}
  MaxBytes = 3
  ReadBufSize = 2
  Capacities = {1, 2}
  InitialData <- ShortTexts
  MaxWrites = 2
  MaxResizes = 2
INVARIANTS TypeOK WaitingMeansDrained CursorsAgree QueryBetweenSequences
PROPERTIES StreamSpec RequestKept LineAnswered BytesTaken ResizeSettles
CHECK_DEADLOCK FALSE
