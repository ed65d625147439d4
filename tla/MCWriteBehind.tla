--------------------------- MODULE MCWriteBehind ---------------------------
(* Model-checking instances of WriteBehind. *)
EXTENDS WriteBehind, TLC

CONSTANTS t1, t2, p1, p2

MCSymmetry == Permutations(Ports) \cup Permutations(Threads)
============================================================================
