----------------------------- MODULE MCFailover -----------------------------
(* Model-checking instances of Failover. *)
EXTENDS Failover, TLC

CONSTANTS a, b, c, p1, p2

\* Clients of node a only; the others adopt.
MCOneNode == (a :> Ports) @@ [n \in Nodes |-> {}]

\* Two nodes serve clients on different ports.
MCApart == (a :> {p1}) @@ (b :> {p2}) @@ [n \in Nodes |-> {}]

=============================================================================
