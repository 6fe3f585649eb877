\* Crashes (the buffer cache lost, the device kept) and -EINTR from every
\* interruptible mutex wait, on top of every interleaving: blocks are
\* still handed out once.
CONSTANTS
  t1 = t1  t2 = t2  a = a  b = b  c = c
  NoThread = NoThread  NoName = NoName
  Threads <- MCThreads
  Names <- MCNames2
  MaxObjects = 5
  IntBits = 32
  DirCap = 2
  StartIno = 2
  Icount = 16
  Sizes = {1}
  CounterMod = 8
  Signals = TRUE
SPECIFICATION CrashSpec
SYMMETRY MCSymmetry
INVARIANT BlockAccounting
