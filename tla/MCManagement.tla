---------------------------- MODULE MCManagement ----------------------------
EXTENDS Management, TLC

CONSTANTS c1, c2, ka, kb

Update(expect, value) == [op |-> "update_config", doc |-> "config",
                          expect |-> expect, value |-> value, valid |-> TRUE]
SetLimits(expect, value) == [op |-> "set_user_limits", doc |-> "u",
                             expect |-> expect, value |-> value, valid |-> TRUE]
Plain(op) == [op |-> op, doc |-> "none", expect |-> 0, value |-> 0, valid |-> TRUE]

\* c1 makes a change.  c2 retries it, uses its key for something malformed, makes the
\* next change, limits a user, or moves the node.
MCMenu ==
    (c1 :> {[key |-> ka, cmd |-> Update(0, 1)]}) @@
    (c2 :> {[key |-> ka, cmd |-> Update(0, 1)],
            [key |-> ka, cmd |-> [Update(0, 1) EXCEPT !.valid = FALSE]]}
           \cup {[key |-> kb, cmd |-> m] : m \in
               {Update(1, 2), SetLimits(0, 1), Plain("undrain"), Plain("shutdown")}})
\* One command that moves the node.
MCDrain == c1 :> {[key |-> ka, cmd |-> Plain("drain")]}

\* What may be lost.  A lost reply to the confirmation and a failed look into the
\* journal during the sweep are left out: with them AnswerTruthful or
\* RunningIsObserved fails, as the README tells.
MCReads == {"get_idempotency", "get_state", "list", "stale_state"}
MCWrites == {"claim", "cas", "rollback", "record", "complete", "finalize"}
MCFaults == ((MCReads \cup MCWrites \cup {"confirm"}) \X {"request"})
            \cup (MCWrites \X {"reply"})
====
