--------------------------- MODULE MC_GlobalFifo ---------------------------
(* Model values for the processes of GlobalFifo, and the symmetry of       *)
(* processes, which behave alike.                                          *)
EXTENDS GlobalFifo, TLC

CONSTANTS p1, p2, p3

MCProcs3 == {p1, p2, p3}

MCSymmetry3 == Permutations(MCProcs3)

\* Two processes, for the liveness run (no symmetry there).
MCProcs2 == {p1, p2}

====
