----------------------------- MODULE MC_MMDebug -----------------------------
(* MMDebug with two processes and a three-byte buffer (INFO_LEN is 16).    *)
EXTENDS MMDebug, TLC

CONSTANTS p1, p2

MCProcs == {p1, p2}

\* "1\n", "22\n" (echo 1, echo 22) and three digits, which fill the buffer.
MCInputs == {<<1, NL>>, <<2, 2, NL>>, <<1, 2, 1>>}

MCSymmetry == Permutations(MCProcs)
====
