--------------------------- MODULE CommandContract ---------------------------
(***************************************************************************)
(* What the management plane promises for versioned commands, without its  *)
(* mechanism (docs/MANAGEMENT_API.md, 11.2 and 11.4): an idempotency key is *)
(* one intent.  It is accepted once, it gets one outcome, the outcome never *)
(* changes while the key is remembered, and a document's version moves by  *)
(* one exactly when some key's outcome becomes "applied".                  *)
(***************************************************************************)
EXTENDS Naturals

CONSTANTS
    Keys,        \* idempotency keys
    Documents,   \* the versioned documents of the node
    Outcomes     \* business outcomes

VARIABLES
    fate,        \* per key: "new", "open" or its outcome
    version      \* per document: its observed version

vars == <<fate, version>>

Init ==
    /\ fate = [k \in Keys |-> "new"]
    /\ version = [d \in Documents |-> 0]

\* A call with a new key is accepted.
Accept(k) ==
    /\ fate[k] = "new"
    /\ fate' = [fate EXCEPT ![k] = "open"]
    /\ UNCHANGED version

\* The intent takes effect: one document moves by one version.
Apply(k) ==
    /\ fate[k] = "open"
    /\ fate' = [fate EXCEPT ![k] = "applied"]
    /\ \E d \in Documents : version' = [version EXCEPT ![d] = @ + 1]

\* Intents end without effect, several at once when one sweep gives up on them.
Refuse(K) ==
    /\ K # {} /\ \A k \in K : fate[k] = "open"
    /\ \E o \in [K -> Outcomes \ {"applied"}] :
          fate' = [k \in Keys |-> IF k \in K THEN o[k] ELSE fate[k]]
    /\ UNCHANGED version

\* The retention of a finished key is over.
Forget(k) ==
    /\ fate[k] \notin {"new", "open"}
    /\ fate' = [fate EXCEPT ![k] = "new"]
    /\ UNCHANGED version

Next ==
    \/ \E k \in Keys : Accept(k) \/ Apply(k) \/ Forget(k)
    \/ \E K \in SUBSET Keys : Refuse(K)

Spec == Init /\ [][Next]_vars
==============================================================================
