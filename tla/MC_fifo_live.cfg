\* Liveness of the globalfifo wait-ups: two processes under strong fairness
\* of their steps, no signals, no symmetry.  Deadlock is not checked: both
\* processes may sleep on an empty or full FIFO with no one left to wake them.
CONSTANTS
  p1 = p1  p2 = p2  p3 = p3
  NoProc = NoProc
  Procs <- MCProcs2
  FifoSize = 2
  Counts = {1, 2}
  Data = {1}
  Signals = FALSE
  Loading = FALSE
SPECIFICATION FairSpec
PROPERTY InputWaitersWoken
CHECK_DEADLOCK FALSE
