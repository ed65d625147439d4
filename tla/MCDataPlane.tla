---------------------------- MODULE MCDataPlane ----------------------------
(* One client with two peers on two IPs, one worker and one relay pump.     *)
EXTENDS DataPlane, TLC

CONSTANTS t1, t2, c1, p1, p2, i1, i2, n1, n2

MCIpOf(p) == IF p = p1 THEN i1 ELSE i2

MCNumbers == n1 :> n2 @@ n2 :> n1

MCPeers == p1 :> p2 @@ p2 :> p1 @@ i1 :> i2 @@ i2 :> i1

\* The channel numbers are interchangeable, and so are the two peers together
\* with their IPs.
MCSymmetry == {MCNumbers, MCPeers, MCNumbers @@ MCPeers}
=============================================================================
