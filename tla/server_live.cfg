SPECIFICATION ServerSpec
CONSTANTS
  t1 = t1
  t2 = t2
  t3 = t3
  p1 = p1
  MaxBytes = 2
  MaxMessages = 2
  MaxQueue = 1
INVARIANTS TypeOK CancelHitsReadIo OneUserOfPipe KeysInOrder
PROPERTIES InputTaken SignalServed ShutdownEnds WritesServed SessionEnds
