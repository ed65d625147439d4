------------------------- MODULE MCAllocationStore -------------------------
(* Model-checking instances of AllocationStore. *)
EXTENDS AllocationStore, TLC

CONSTANTS t1, t2, t3, c1, c2, c3, u1, u2, ten, p1, p2, p3

MCTenantOf == [u \in Users |-> IF u = u1 THEN ten ELSE NoTenant]

\* The tenant of u1 has at most one allocation, all users together two.
MCCap == [s \in Scopes |-> CASE s = ten -> 1 [] s = Global -> 2 [] OTHER -> 0]

MCNoCap == [s \in Scopes |-> 0]

Row(c, i, e, p, u) ==
    [client |-> c,
     draft |-> [id |-> i, epoch |-> e, port |-> p, user |-> u, expired |-> FALSE]]

\* A row of a previous owner, whose ids were minted from 1 as ours are.
MCRows == {Row(c1, 1, 0, p1, u2)}

\* No action reads gauge, moved, closed, made or relayIx, nor a ticket of the last
\* epoch: states that differ only in them have the same futures, and the properties
\* of a run with a view read none of what it leaves out, but for its type.
Usable == {k \in tickets : k[2] < MaxEpoch}
MCCountView == <<alloc, idIx, count, nextId, used, rows, Usable, pc, args, hand, held>>
MCView == <<MCCountView, relayIx, closed, made>>

MCThreadSymmetry == Permutations(Threads)
MCSymmetry == Permutations(Threads) \cup Permutations(Clients) \cup Permutations(Ports)
============================================================================
