--------------------------- MODULE MCRelayServer ---------------------------
(* Model-checking instances of RelayServer. *)
EXTENDS RelayServer, TLC

CONSTANTS w1, w2, c1, c2, c3

\* The two clients are on different workers and ask for the same pool.
MCHome == [c \in Clients |-> IF c = c1 THEN w1 ELSE w2]
MCPool == [c \in Clients |-> Ports]
=============================================================================
