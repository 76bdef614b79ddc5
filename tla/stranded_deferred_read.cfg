CONSTANTS
  t1 = t1
  t2 = t2
  t3 = t3
  p1 = p1
  p2 = p2
  Threads = {t1, t2, t3}
  Processes = {p1}
  ProcOf <- OneProcess
  Uses <- PolledReads
  Leavers = {}
  KeyClasses = {"enter"}
  MaxKeys = 2
  MaxEvents = 1
  SignalPipe = FALSE
SPECIFICATION FairSpec
PROPERTY DeferredDispatched
