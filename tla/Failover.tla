------------------------------ MODULE Failover ------------------------------
(***************************************************************************)
(* Ownership of persisted allocations in a cluster: the failover task of   *)
(* services/node/src/failover.rs, the heartbeat of heartbeat.rs and the    *)
(* bulk load of bulk_load.rs, over the backend of                          *)
(* crates/state-backend/src/memory.rs.                                     *)
(*                                                                         *)
(* Every node sweeps on its own: it lists the nodes whose last heartbeat is *)
(* too old, and moves their rows to itself one compare-and-swap at a time. *)
(* Each backend call is one step, so sweeps of several nodes, crashes and  *)
(* restarts interleave between any two calls.  Time is abstract: a         *)
(* heartbeat that is not renewed goes stale at any later moment.           *)
(*                                                                         *)
(* The write-behind log is one pending operation per port (the coalesced   *)
(* batch of WriteBehind); a write that fails is counted and forgotten.     *)
(*                                                                         *)
(* A node that is told to stop sends its last heartbeat at once, and its   *)
(* writer and its failover task end there; its datapath drains on, and     *)
(* serves what it holds until the process exits.                           *)
(***************************************************************************)
EXTENDS Integers, FiniteSets

CONSTANTS
    Nodes,
    Ports,           \* relay ports, the key of a row
    Pick,            \* the ports a node's own allocations happen to get
    SuspicionTicks,  \* suspicion_ticks
    Limit,           \* max_allocations of a node
    Faults,          \* backend calls that may fail
    Stallers,        \* bound: nodes whose heartbeat may go stale while they run
    Drainers,        \* bound: nodes that are drained and told to stop
    Returners,       \* bound: nodes that are restarted
    MaxId,           \* bound: allocations ever created
    MaxCrashes,      \* bound: crashes
    MaxRestarts,     \* bound: restarts
    MaxErrors,       \* bound: backend errors
    MaxTouches,      \* bound: refreshes, permissions and channels
    None

ASSUME FailoverAssumption ==
    /\ IsFiniteSet(Nodes) /\ IsFiniteSet(Ports)
    /\ Pick \in [Nodes -> SUBSET Ports]
    /\ SuspicionTicks \in Nat \ {0} /\ Limit \in Nat
    /\ Faults \subseteq {"flush", "beat", "load", "list", "find", "claim", "refetch",
                        "remove", "revert"}
    /\ Stallers \subseteq Nodes /\ Drainers \subseteq Nodes /\ Returners \subseteq Nodes
    /\ MaxId \in Nat /\ MaxCrashes \in Nat /\ MaxRestarts \in Nat /\ MaxErrors \in Nat
    /\ MaxTouches \in Nat
    /\ None \notin Nodes /\ None \notin [owner : Nodes, id : 1 .. MaxId]
    /\ None \notin [port : Ports, id : 0 .. MaxId]

VARIABLES
    up,         \* "up", "leaving" (told to stop), "drain" (and the writer is gone),
                \* "down", or "load" (bulk load under way)
    draining,   \* metrics.is_draining
    mem,        \* per node: port -> the allocation's id, or 0
    wq,         \* per node: port -> pending write: "create", "touch", "remove" or "none"
    got,        \* per node: the row a touched write has read and will write back
    rows,       \* the backend: port -> [owner, id], or None
    beat,       \* a node's last heartbeat: "fresh" or "stale"
    bye,        \* its draining flag
    expired,    \* ids whose lifetime has passed
    suspicion,  \* per node: peer -> consecutive stale sweeps
    pc,         \* step of a node's sweep
    dead,       \* confirmed-dead nodes this sweep has yet to visit
    from,       \* the dead node being visited
    orphans,    \* what find_by_node returned and is yet to do: [port, id]
    cur,        \* the row being claimed
    nextId, crashes, restarts, errors, touches,
    lost,       \* history: ports whose last create or remove was lost to an error
    shaken      \* history: ports that were ever Shaky (below)

node == <<up, draining, mem, wq, got>>
backend == <<rows, beat, bye, expired>>
sweep == <<suspicion, pc, dead, from, orphans, cur>>
bounds == <<nextId, crashes, restarts, touches>>
counts == <<bounds, errors, lost>>
vars == <<node, backend, sweep, counts, shaken>>

Idle == [p \in Ports |-> "none"]
Empty == [p \in Ports |-> 0]
Row(n, i) == [owner |-> n, id |-> i]
RowsOf(n) ==
    {[port |-> p, id |-> rows[p].id] :
        p \in {q \in Ports : rows[q] # None /\ rows[q].owner = n}}
Held(n) == {p \in Ports : mem[n][p] # 0}

Init ==
    /\ up = [n \in Nodes |-> "up"] /\ draining = [n \in Nodes |-> FALSE]
    /\ mem = [n \in Nodes |-> Empty] /\ wq = [n \in Nodes |-> Idle]
    /\ got = [n \in Nodes |-> None]
    /\ rows = [p \in Ports |-> None]
    /\ beat = [n \in Nodes |-> "fresh"] /\ bye = [n \in Nodes |-> FALSE]
    /\ expired = {}
    /\ suspicion = [n \in Nodes |-> [m \in Nodes |-> 0]]
    /\ pc = [n \in Nodes |-> "idle"] /\ dead = [n \in Nodes |-> {}]
    /\ from = [n \in Nodes |-> None] /\ orphans = [n \in Nodes |-> {}]
    /\ cur = [n \in Nodes |-> None]
    /\ nextId = 1 /\ crashes = 0 /\ restarts = 0 /\ errors = 0 /\ touches = 0
    /\ lost = {} /\ shaken = {}

----------------------------------------------------------------------------
(* What takes a port out of the protection of ownership.  Nothing in the   *)
(* code prevents it, and the properties below speak of the other ports.    *)

\* Node n serves p, is about to write its row, or has it in its name.
Uses(n, p) ==
    \/ mem[n][p] # 0 \/ wq[n][p] # "none"
    \/ rows[p] # None /\ rows[p].owner = n

\* A sweep of m has confirmed d as dead and is not done with it.
Visits(m, d) ==
    \/ d \in dead[m]
    \/ pc[m] \in {"claim", "fetch", "apply", "remove", "revert"} /\ from[m] = d

\* A process that lives and is taken for dead, or may be: it stalled, it drains
\* longer than its last heartbeat lasts, or it came back too late.
Doubted(n) == up[n] # "down" /\ (beat[n] = "stale" \/ \E m \in Nodes : Visits(m, n))

\* Ports that a doubted node uses, and ports that one node uses while another that
\* lives may pick them too: shared ranges, or the return of a node whose rows
\* were adopted.
Shaky ==
    {p \in Ports : \E n \in Nodes :
        /\ Uses(n, p)
        /\ Doubted(n) \/ \E m \in Nodes \ {n} : up[m] # "down" /\ p \in Pick[m]}

\* The history of every step; the last conjunct of every action.
Noted == shaken' = shaken \cup Shaky'

----------------------------------------------------------------------------
(* The node's own allocations and its writer.                              *)

\* A backend call returns an error and has had no effect.
Fails(call) == call \in Faults /\ errors < MaxErrors /\ errors' = errors + 1

\* A port is not used again within one batch (that case is WriteBehind's).
Create(n, p) ==
    /\ up[n] = "up" /\ ~draining[n] /\ p \in Pick[n] /\ mem[n][p] = 0 /\ wq[n][p] = "none"
    /\ nextId <= MaxId /\ Cardinality(Held(n)) < Limit
    /\ mem' = [mem EXCEPT ![n][p] = nextId] /\ nextId' = nextId + 1
    /\ wq' = [wq EXCEPT ![n][p] = "create"]
    /\ UNCHANGED <<up, draining, got, backend, sweep, crashes, restarts, touches, errors, lost>>
    /\ Noted

\* A refresh, permission or channel of an allocation whose row was written.
Touch(n, p) ==
    /\ up[n] \in {"up", "leaving"} /\ mem[n][p] # 0 /\ wq[n][p] = "none"
    /\ touches < MaxTouches /\ touches' = touches + 1
    /\ wq' = [wq EXCEPT ![n][p] = "touch"]
    /\ UNCHANGED <<up, draining, mem, got, backend, sweep, nextId, crashes, restarts, errors, lost>>
    /\ Noted

\* A release, or the sweep of an expired allocation; a pending Create is
\* cancelled, and without the writer the backend hears nothing of it.
Remove(n, p) ==
    /\ up[n] \in {"up", "leaving", "drain"} /\ mem[n][p] # 0
    /\ mem' = [mem EXCEPT ![n][p] = 0]
    /\ wq' = [wq EXCEPT ![n][p] =
                 IF @ = "create" \/ up[n] = "drain" THEN "none" ELSE "remove"]
    /\ UNCHANGED <<up, draining, got, backend, sweep, counts>> /\ Noted

\* The writer writes one port at a time; rows are keyed by port alone, and a
\* write does not look at the owner.
Flush(n, p) ==
    /\ up[n] \in {"up", "leaving"} /\ wq[n][p] \in {"create", "remove"} /\ got[n] = None
    /\ wq' = [wq EXCEPT ![n][p] = "none"]
    /\ \/ /\ rows' = [rows EXCEPT ![p] = IF wq[n][p] = "create" THEN Row(n, mem[n][p]) ELSE None]
          /\ lost' = lost \ {p} /\ UNCHANGED errors
       \/ Fails("flush") /\ lost' = lost \cup {p} /\ UNCHANGED rows
    /\ UNCHANGED <<up, draining, mem, got, beat, bye, expired, sweep, bounds>> /\ Noted

\* A touched batch reads the row that it will merge into; without one it is done.
FlushTouched(n, p) ==
    /\ up[n] \in {"up", "leaving"} /\ wq[n][p] = "touch" /\ got[n] = None
    /\ wq' = [wq EXCEPT ![n][p] = "none"]
    /\ \/ /\ got' = [got EXCEPT ![n] = IF rows[p] = None THEN None
                                       ELSE [port |-> p, row |-> rows[p]]]
          /\ UNCHANGED errors
       \/ Fails("flush") /\ UNCHANGED got
    /\ UNCHANGED <<up, draining, mem, backend, sweep, bounds, lost>> /\ Noted

\* ... and writes it back as it was read, owner and all.
StoreMerged(n) ==
    /\ up[n] \in {"up", "leaving"} /\ got[n] # None
    /\ got' = [got EXCEPT ![n] = None]
    /\ \/ rows' = [rows EXCEPT ![got[n].port] = got[n].row] /\ UNCHANGED errors
       \/ Fails("flush") /\ UNCHANGED rows
    /\ UNCHANGED <<up, draining, mem, wq, beat, bye, expired, sweep, bounds, lost>> /\ Noted

Expire(i) ==
    /\ i \in 1 .. nextId - 1 /\ i \notin expired
    /\ expired' = expired \cup {i}
    /\ UNCHANGED <<node, rows, beat, bye, sweep, counts>> /\ Noted

----------------------------------------------------------------------------
(* Heartbeats, shutdown, crash and restart.                                *)

\* A failed heartbeat changes nothing, the next one is due soon.
Beat(n) ==
    /\ up[n] = "up"
    /\ beat' = [beat EXCEPT ![n] = "fresh"] /\ bye' = [bye EXCEPT ![n] = draining[n]]
    /\ UNCHANGED <<node, rows, expired, sweep, counts>> /\ Noted

\* live_window passes without a heartbeat.
GoStale(n) ==
    /\ beat[n] = "fresh" /\ (up[n] # "up" \/ n \in Stallers)
    /\ beat' = [beat EXCEPT ![n] = "stale"]
    /\ UNCHANGED <<node, rows, bye, expired, sweep, counts>> /\ Noted

\* Drain or undrain; a draining node takes no new allocations.
SetDraining(n) ==
    /\ up[n] = "up" /\ n \in Drainers
    /\ draining' = [draining EXCEPT ![n] = ~@]
    /\ UNCHANGED <<up, mem, wq, got, backend, sweep, counts>> /\ Noted

\* What the process held in memory is gone.
Stop(n) ==
    /\ up' = [up EXCEPT ![n] = "down"] /\ draining' = [draining EXCEPT ![n] = FALSE]
    /\ mem' = [mem EXCEPT ![n] = Empty] /\ wq' = [wq EXCEPT ![n] = Idle]
    /\ got' = [got EXCEPT ![n] = None]
    /\ suspicion' = [suspicion EXCEPT ![n] = [m \in Nodes |-> 0]]
    /\ pc' = [pc EXCEPT ![n] = "idle"] /\ dead' = [dead EXCEPT ![n] = {}]
    /\ from' = [from EXCEPT ![n] = None] /\ orphans' = [orphans EXCEPT ![n] = {}]
    /\ cur' = [cur EXCEPT ![n] = None]

Crash(n) ==
    /\ up[n] # "down" /\ crashes < MaxCrashes
    /\ Stop(n)
    /\ crashes' = crashes + 1
    /\ UNCHANGED <<backend, nextId, restarts, touches, errors, lost>> /\ Noted

\* The signal, after the grace period of a drain: one last heartbeat that says
\* draining, and no other; no sweep begins any more, one under way goes on.
Shutdown(n) ==
    /\ up[n] = "up" /\ draining[n] /\ crashes < MaxCrashes
    /\ up' = [up EXCEPT ![n] = "leaving"]
    /\ \/ /\ beat' = [beat EXCEPT ![n] = "fresh"] /\ bye' = [bye EXCEPT ![n] = TRUE]
          /\ UNCHANGED errors
       \/ Fails("beat") /\ UNCHANGED <<beat, bye>>
    /\ crashes' = crashes + 1
    /\ UNCHANGED <<draining, mem, wq, got, rows, expired, sweep, nextId, restarts, touches, lost>>
    /\ Noted

\* The writer has flushed what it had and is gone; the datapath drains on.
WriterExit(n) ==
    /\ up[n] = "leaving" /\ wq[n] = Idle /\ got[n] = None
    /\ up' = [up EXCEPT ![n] = "drain"]
    /\ UNCHANGED <<draining, mem, wq, got, backend, sweep, counts>> /\ Noted

\* The process ends: drained, stalled or out of time, whatever is left to write.
Exit(n) ==
    /\ up[n] \in {"leaving", "drain"}
    /\ Stop(n)
    /\ UNCHANGED <<backend, counts>> /\ Noted

\* bulk_load lists this node's rows, or starts empty; it runs before the heartbeat.
Restart(n) ==
    /\ up[n] = "down" /\ n \in Returners /\ restarts < MaxRestarts
    /\ up' = [up EXCEPT ![n] = "load"]
    /\ \/ orphans' = [orphans EXCEPT ![n] = RowsOf(n)] /\ UNCHANGED errors
       \/ Fails("load") /\ UNCHANGED orphans
    /\ restarts' = restarts + 1
    /\ UNCHANGED <<draining, mem, wq, got, backend, suspicion, pc, dead, from, cur,
                   nextId, crashes, touches, lost>> /\ Noted

\* rehydrate: an expired row is skipped, a taken port or a full store refuses.
Rehydrates(n, r) ==
    r.id \notin expired /\ mem[n][r.port] = 0 /\ Cardinality(Held(n)) < Limit

\* One listed row is applied as it was listed.
LoadRow(n, r) ==
    /\ up[n] = "load" /\ r \in orphans[n]
    /\ mem' = IF Rehydrates(n, r) THEN [mem EXCEPT ![n][r.port] = r.id] ELSE mem
    /\ orphans' = [orphans EXCEPT ![n] = @ \ {r}]
    /\ UNCHANGED <<up, draining, wq, got, backend, suspicion, pc, dead, from, cur, counts>> /\ Noted

\* The load is done: the tasks start, the heartbeat with an immediate beat.
Loaded(n) ==
    /\ up[n] = "load" /\ orphans[n] = {}
    /\ up' = [up EXCEPT ![n] = "up"]
    /\ beat' = [beat EXCEPT ![n] = "fresh"] /\ bye' = [bye EXCEPT ![n] = FALSE]
    /\ UNCHANGED <<draining, mem, wq, got, rows, expired, sweep, counts>> /\ Noted

----------------------------------------------------------------------------
(* The failover sweep of node n.                                           *)

\* Nodes whose last heartbeat is too old.
Stale(n) == {m \in Nodes \ {n} : beat[m] = "stale"}

\* The counters start again with every sweep.
SuspectAfresh(n) == [m \in Nodes |-> IF m \in Stale(n) THEN 1 ELSE 0]

\* Consecutive stale sweeps; a peer that recovered starts from zero.
Suspect(n) == [m \in Nodes |-> IF m \in Stale(n) THEN suspicion[n][m] + 1 ELSE 0]

\* List the nodes, count the stale ones, and confirm as dead those that were
\* stale often enough in a row or said goodbye.  A count at the threshold is kept
\* just below it: the next stale sweep reaches it again, as a higher count would.
StartSweep(n) ==
    /\ up[n] = "up" /\ pc[n] = "idle"
    /\ LET s == Suspect(n)
           d == {m \in Stale(n) : bye[m] \/ s[m] >= SuspicionTicks}
       IN  /\ suspicion' = [suspicion EXCEPT ![n] =
                   [m \in Nodes |-> IF s[m] < SuspicionTicks THEN s[m] ELSE SuspicionTicks - 1]]
           /\ dead' = [dead EXCEPT ![n] = d]
           /\ pc' = [pc EXCEPT ![n] = IF d = {} THEN "idle" ELSE "node"]
    /\ UNCHANGED <<node, backend, from, orphans, cur, counts>> /\ Noted

\* The end of the orphans is not noticed.
OnwardBlindly(n, left) == "claim"

\* Nothing left to do for this node: the next one, or the end of the sweep.
Onward(n, left) == IF left # {} THEN "claim" ELSE IF dead[n] # {} THEN "node" ELSE "idle"

\* The end of one claim, with these orphans left.
Next1(n, left) ==
    /\ pc' = [pc EXCEPT ![n] = Onward(n, left)]
    /\ from' = [from EXCEPT ![n] = IF left # {} THEN @ ELSE None]
    /\ cur' = [cur EXCEPT ![n] = None]

FindByNode(n, d) ==
    /\ pc[n] = "node" /\ d \in dead[n]
    /\ dead' = [dead EXCEPT ![n] = @ \ {d}]
    /\ \/ orphans' = [orphans EXCEPT ![n] = RowsOf(d)] /\ UNCHANGED errors
       \/ Fails("find") /\ UNCHANGED orphans
    /\ from' = [from EXCEPT ![n] = IF orphans'[n] # {} THEN d ELSE None]
    /\ pc' = [pc EXCEPT ![n] = IF orphans'[n] # {} THEN "claim"
                               ELSE IF dead'[n] # {} THEN "node" ELSE "idle"]
    /\ UNCHANGED <<node, backend, suspicion, cur, bounds, lost>> /\ Noted

\* The row goes to the caller whoever owns it.
CasUnchecked(p, expected, new) == rows[p] # None

\* claim_allocation: succeeds only if the row still has the expected owner.
Cas(p, expected, new) == rows[p] # None /\ rows[p].owner = expected

\* A claim that was lost is tried again.
ClaimInsists(n, r) ==
    /\ pc[n] = "claim" /\ r \in orphans[n]
    /\ Cas(r.port, from[n], n)
    /\ orphans' = [orphans EXCEPT ![n] = @ \ {r}]
    /\ rows' = [rows EXCEPT ![r.port].owner = n]
    /\ cur' = [cur EXCEPT ![n] = r]
    /\ pc' = [pc EXCEPT ![n] = "fetch"]
    /\ UNCHANGED <<node, beat, bye, expired, suspicion, dead, from, counts>> /\ Noted

\* The claim of one orphan: won, lost, or an error without effect.
Claim(n, r) ==
    /\ pc[n] = "claim" /\ r \in orphans[n]
    /\ orphans' = [orphans EXCEPT ![n] = @ \ {r}]
    /\ \/ /\ Cas(r.port, from[n], n)
          /\ rows' = [rows EXCEPT ![r.port].owner = n]
          /\ cur' = [cur EXCEPT ![n] = r]
          /\ pc' = [pc EXCEPT ![n] = "fetch"]
          /\ UNCHANGED <<from, errors>>
       \/ /\ \/ ~Cas(r.port, from[n], n) /\ UNCHANGED errors
             \/ Fails("claim")
          /\ Next1(n, orphans[n] \ {r})
          /\ UNCHANGED rows
    /\ UNCHANGED <<node, beat, bye, expired, suspicion, dead, bounds, lost>> /\ Noted

\* Read the row back; a row that vanished and an error both end this claim.
Refetch(n) ==
    /\ pc[n] = "fetch"
    /\ LET p == cur[n].port
       IN  \/ /\ rows[p] # None
              /\ cur' = [cur EXCEPT ![n] = [port |-> p, id |-> rows[p].id]]
              /\ pc' = [pc EXCEPT ![n] = "apply"]
              /\ UNCHANGED <<from, errors>>
           \/ rows[p] = None /\ Next1(n, orphans[n]) /\ UNCHANGED errors
           \/ Fails("refetch") /\ Next1(n, orphans[n])
    /\ UNCHANGED <<node, backend, suspicion, dead, orphans, bounds, lost>> /\ Noted

ApplyOne(n) ==
    /\ pc[n] = "apply"
    /\ IF Rehydrates(n, cur[n])
       THEN mem' = [mem EXCEPT ![n][cur[n].port] = cur[n].id] /\ Next1(n, orphans[n])
       ELSE /\ UNCHANGED <<mem, from, cur>>
            /\ pc' = [pc EXCEPT ![n] = IF cur[n].id \in expired THEN "remove" ELSE "revert"]
    /\ UNCHANGED <<up, draining, wq, got, backend, suspicion, dead, orphans, counts>> /\ Noted

\* The claimed row had expired: delete it, ignoring an error.
RemoveExpired(n) ==
    /\ pc[n] = "remove"
    /\ \/ rows' = [rows EXCEPT ![cur[n].port] = None] /\ UNCHANGED errors
       \/ Fails("remove") /\ UNCHANGED rows
    /\ Next1(n, orphans[n])
    /\ UNCHANGED <<node, beat, bye, expired, suspicion, dead, orphans, bounds, lost>> /\ Noted

\* Refused: the row is given back to the dead node, unless that fails.
Revert(n) ==
    /\ pc[n] = "revert"
    /\ \/ /\ rows' = IF Cas(cur[n].port, n, from[n])
                     THEN [rows EXCEPT ![cur[n].port].owner = from[n]] ELSE rows
          /\ UNCHANGED errors
       \/ Fails("revert") /\ UNCHANGED rows
    /\ Next1(n, orphans[n])
    /\ UNCHANGED <<node, beat, bye, expired, suspicion, dead, orphans, bounds, lost>> /\ Noted

\* The listing itself fails: nothing happens this tick.
SweepFails(n) ==
    /\ up[n] = "up" /\ pc[n] = "idle" /\ Fails("list")
    /\ UNCHANGED <<node, backend, sweep, bounds, lost>> /\ Noted

----------------------------------------------------------------------------
SweepStep(n) ==
    \/ Refetch(n) \/ ApplyOne(n) \/ RemoveExpired(n) \/ Revert(n)
    \/ \E d \in dead[n] : FindByNode(n, d)
    \/ \E r \in orphans[n] : Claim(n, r)

Next ==
    \/ \E n \in Nodes :
         \/ Beat(n) \/ GoStale(n) \/ SetDraining(n) \/ Crash(n)
         \/ Shutdown(n) \/ WriterExit(n) \/ Exit(n) \/ StoreMerged(n)
         \/ Restart(n) \/ Loaded(n) \/ StartSweep(n) \/ SweepFails(n) \/ SweepStep(n)
         \/ \E p \in Ports :
              Create(n, p) \/ Touch(n, p) \/ Remove(n, p) \/ Flush(n, p) \/ FlushTouched(n, p)
         \/ \E r \in orphans[n] : LoadRow(n, r)
    \/ \E i \in 1 .. MaxId : Expire(i)

Spec == Init /\ [][Next]_vars

\* The sweep timer of a running node, its writer and its bulk load keep running,
\* a node that was told to stop does so, and time passes; nobody has to create,
\* release, crash or restart.
FairSpec ==
    /\ Spec
    /\ \A n \in Nodes :
         /\ WF_vars(StartSweep(n)) /\ WF_vars(SweepStep(n))
         /\ WF_vars(up[n] = "down" /\ GoStale(n)) /\ WF_vars(Loaded(n)) /\ WF_vars(Exit(n))
         /\ \A p \in Ports : WF_vars(Flush(n, p) \/ FlushTouched(n, p))
         /\ WF_vars(StoreMerged(n))
         /\ WF_vars(\E r \in orphans[n] : LoadRow(n, r))

----------------------------------------------------------------------------
(* Properties                                                              *)

Ids == 0 .. MaxId
Listed == [port : Ports, id : Ids]
Rows == [owner : Nodes, id : 1 .. MaxId]

\* Every variable has its type, and a sweep's step agrees with what it holds.
TypeOK ==
    /\ up \in [Nodes -> {"up", "leaving", "drain", "load", "down"}]
    /\ draining \in [Nodes -> BOOLEAN]
    /\ mem \in [Nodes -> [Ports -> Ids]]
    /\ wq \in [Nodes -> [Ports -> {"none", "create", "touch", "remove"}]]
    /\ \A n \in Nodes : got[n] # None => got[n].port \in Ports /\ got[n].row \in Rows
    /\ rows \in [Ports -> Rows \cup {None}]
    /\ beat \in [Nodes -> {"fresh", "stale"}] /\ bye \in [Nodes -> BOOLEAN]
    /\ expired \subseteq 1 .. MaxId /\ lost \subseteq Ports /\ shaken \subseteq Ports
    /\ suspicion \in [Nodes -> [Nodes -> 0 .. SuspicionTicks - 1]]
    /\ pc \in [Nodes -> {"idle", "node", "claim", "fetch", "apply", "remove", "revert"}]
    /\ \A n \in Nodes :
         /\ dead[n] \subseteq Nodes \ {n} /\ orphans[n] \subseteq Listed
         /\ pc[n] = "claim" => orphans[n] # {} /\ from[n] \in Nodes \ {n}
         /\ pc[n] \in {"fetch", "apply", "remove", "revert"} => cur[n] \in Listed

\* No allocation is served by two running nodes, whatever crashes, restarts, drains
\* and errors there are, unless its port was shaken: a node that used it lived on
\* while sweep_once took it for dead, or shared it with a node that may pick it.
OneHolder ==
    \A n, m \in Nodes : \A p \in Ports \ shaken : \A q \in Ports :
        n # m /\ mem[n][p] # 0 => mem[m][q] # mem[n][p]

\* What a node serves and has nothing left to create is in the backend under its
\* own name, so that the next failover finds it and no other takes it, unless the
\* port was shaken or flush_port's write of it was lost.
HolderOwnsRow ==
    \A n \in Nodes : \A p \in Held(n) \ (shaken \cup lost) :
        wq[n][p] # "create" => rows[p] = Row(n, mem[n][p])

\* A row whose lifetime has not passed and that no node serves.
Orphan(p) ==
    rows[p] # None /\ rows[p].id \notin expired /\ \A n \in Nodes : mem[n][p] # rows[p].id

\* Failover keeps its promise: an orphan is served again, by a survivor or by its
\* restarted node, or is replaced, removed or expired in the end, whatever node
\* lists, finds or claims in vain.
OrphansAdopted == \A p \in Ports : Orphan(p) ~> ~Orphan(p)

\* A sweep comes to its end whatever is lost or fails on the way, so that the node
\* goes on looking for dead peers, unless the node itself goes down.
SweepsEnd == \A n \in Nodes : pc[n] # "idle" ~> pc[n] = "idle"
=============================================================================
