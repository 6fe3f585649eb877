\* Every call returns: two threads under strong fairness of their steps
\* (a mutex is handed to a waiter when it is released), no symmetry.
CONSTANTS
  t1 = t1  t2 = t2  a = a  b = b  c = c
  NoThread = NoThread  NoName = NoName
  Threads <- MCThreads
  Names <- MCNames2
  MaxObjects = 5
  IntBits = 32
  DirCap = 2
  StartIno = 2
  Icount = 16
  Sizes = {1}
  CounterMod = 8
  Signals = FALSE
SPECIFICATION FairSpec
PROPERTIES Termination
