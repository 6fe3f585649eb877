\* A writer asleep on the full FIFO and a FIFO_CLEAR: WriterWoken fails (no wake of w_wait).
\* Deadlock is not checked: all processes may sleep on an empty or full FIFO with no one to wake them.
CONSTANTS
  p1 = p1  p2 = p2  p3 = p3
  NoProc = NoProc
  Procs <- MCProcs3
  FifoSize = 2
  Counts = {1, 2}
  Data = {1}
  Signals = FALSE
  Loading = FALSE
SPECIFICATION FairSpec
PROPERTY WriterWoken
CHECK_DEADLOCK FALSE
