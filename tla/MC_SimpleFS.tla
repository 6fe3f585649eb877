---------------------------- MODULE MC_SimpleFS ----------------------------
(* Finite instance of SimpleFS for TLC.  simplefs.h sets                   *)
(* SIMPLEFS_MAX_FILESYSTEM_OBJECTS_SUPPORTED to 64 and a 4096-byte block   *)
(* holds 64 inode records and 16 directory records; the bounds below keep  *)
(* the same shape at a size TLC can enumerate.                              *)
EXTENDS SimpleFS, TLC

CONSTANTS t1, t2, a, b, c

MCThreads == {t1, t2}
MCNames   == {a, b, c}
MCNames2  == {a, b}

\* Threads and file names are interchangeable.
MCSymmetry == Permutations(MCThreads) \cup Permutations(MCNames)
=============================================================================
