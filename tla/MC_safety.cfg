\* Two threads, three names over a two-record directory: create, unlink,
\* lookup, readdir, write, writeback and remount in every interleaving.
CONSTANTS
  t1 = t1  t2 = t2  a = a  b = b  c = c
  NoThread = NoThread  NoName = NoName
  Threads <- MCThreads
  Names <- MCNames
  MaxObjects = 6
  IntBits = 32
  DirCap = 2
  StartIno = 2
  Icount = 16
  Sizes = {1}
  CounterMod = 8
  Signals = FALSE
SPECIFICATION Spec
SYMMETRY MCSymmetry
INVARIANTS TypeOK CacheMirrorsDisk EntryTargetsLiveInode InodeAccounting
           RootCountAccurate
PROPERTY NamespaceImplemented
