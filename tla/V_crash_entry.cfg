\* Power loss between the directory-block sync and the inode-store sync.
CONSTANTS
  t1 = t1  t2 = t2  a = a  b = b  c = c
  NoThread = NoThread  NoName = NoName
  Threads <- MCThreads
  Names <- MCNames
  MaxObjects = 6
  IntBits = 32
  DirCap = 2
  StartIno = 2
  Icount = 16
  Sizes = {1}
  CounterMod = 8
  Signals = FALSE
SPECIFICATION CrashSpec
SYMMETRY MCSymmetry
INVARIANT DiskConsistent
