----------------------------- MODULE MCTcpRelay -----------------------------
EXTENDS TcpRelay, TLC

CONSTANTS c1, c2, b1, b2, k1, k2

\* One client arrives over TLS, the other over plain TCP.
MCBridge == (c1 :> b1) @@ (c2 :> b2)
MCKey == (c1 :> k1) @@ (c2 :> k2)

\* The other client makes no allocation of its own, it only sends ConnectionBinds.
MCOpens == (c1 :> 2) @@ (c2 :> 0)
=============================================================================
