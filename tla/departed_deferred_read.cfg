CONSTANTS
  t1 = t1
  t2 = t2
  t3 = t3
  p1 = p1
  p2 = p2
  Threads = {t1, t2, t3}
  Processes = {p1, p2}
  ProcOf <- TwoProcesses
  Uses <- MixedCalls
  Leavers = {p1}
  KeyClasses = {"enter"}
  MaxKeys = 1
  MaxEvents = 1
  SignalPipe = FALSE
SPECIFICATION Spec
INVARIANT LeaverReadsDropped
