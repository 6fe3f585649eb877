\* globalfifo: three processes, a 2-byte FIFO, signals, calls during init.
CONSTANTS
  p1 = p1  p2 = p2  p3 = p3
  NoProc = NoProc
  Procs <- MCProcs3
  FifoSize = 2
  Counts = {1, 2}
  Data = {1, 2}
  Signals = TRUE
  Loading = TRUE
SPECIFICATION Spec
SYMMETRY MCSymmetry3
INVARIANT TypeOK SleepingReaderHasCause
PROPERTY FifoImplemented
