\* Two readers asleep, one write, and a second reader or FIFO_CLEAR first: NoZeroTransfer fails.
\* Deadlock is not checked: all processes may sleep on an empty or full FIFO with no one to wake them.
CONSTANTS
  p1 = p1  p2 = p2  p3 = p3
  NoProc = NoProc
  Procs <- MCProcs3
  FifoSize = 2
  Counts = {1, 2}
  Data = {1}
  Signals = FALSE
  Loading = FALSE
SPECIFICATION Spec
INVARIANT NoZeroTransfer
CHECK_DEADLOCK FALSE
