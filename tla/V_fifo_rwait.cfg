\* A reader returning while a writer walks r_wait: RWaitExclusive fails.
CONSTANTS
  p1 = p1  p2 = p2  p3 = p3
  NoProc = NoProc
  Procs <- MCProcs3
  FifoSize = 2
  Counts = {1, 2}
  Data = {1}
  Signals = FALSE
  Loading = FALSE
SPECIFICATION Spec
INVARIANT RWaitExclusive
CHECK_DEADLOCK FALSE
