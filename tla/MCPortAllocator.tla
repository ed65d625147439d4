-------------------------- MODULE MCPortAllocator --------------------------
(* Model-checking instances of PortAllocator. *)
EXTENDS PortAllocator, TLC

CONSTANTS t1, t2, sw, k1, k2

MCThreads == {t1, t2, sw}
MCTokens == {k1, k2}

\* Request threads are interchangeable, and so are tokens; the sweeper is not.
MCSymmetry == Permutations({t1, t2}) \cup Permutations(MCTokens)
============================================================================
