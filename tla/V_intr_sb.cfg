\* -EINTR in simplefs_sb_get_a_freeblock while a write holds the lock.
CONSTANTS
  t1 = t1  t2 = t2  a = a  b = b  c = c
  NoThread = NoThread  NoName = NoName
  Threads <- MCThreads
  Names <- MCNames
  MaxObjects = 6
  IntBits = 32
  DirCap = 2
  StartIno = 2
  Icount = 16
  Sizes = {1}
  CounterMod = 8
  Signals = TRUE
SPECIFICATION Spec
SYMMETRY MCSymmetry
INVARIANT SbHeldInSection
