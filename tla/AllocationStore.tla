-------------------------- MODULE AllocationStore --------------------------
(***************************************************************************)
(* AllocationStore of crates/session/src/lib.rs with the handlers that     *)
(* drive it: relay/src/processor.rs (Allocate, Refresh, migration),        *)
(* relay/src/server.rs (cleanup task), control/src/turn_core_impl.rs       *)
(* (forced removal) and services/node (bulk load and failover).            *)
(*                                                                         *)
(* The store is a set of concurrent maps and atomics.  Each is atomic by   *)
(* itself; nothing spans two of them except what the code does under the   *)
(* Entry guard of an allocations slot.  A thread step is one access that   *)
(* another step can tell apart.  The pool of relay ports is the set of the *)
(* used ports: module PortAllocator is about how one is taken.             *)
(*                                                                         *)
(* Permissions, channels, byte counters and the two write-only indices     *)
(* (user_allocations, channel_to_client) are left out.                     *)
(***************************************************************************)
EXTENDS Integers, FiniteSets

CONSTANTS
    Threads,      \* receive workers, the sweep, management calls, failover
    Clients,      \* client transport addresses
    Users,        \* (realm, tenant, username) keys
    Tenants,
    TenantOf,     \* the tenant of a user, or NoTenant
    NoTenant,
    Global,       \* the scope of global_count
    Cap,          \* limit of a scope; 0 is unlimited
    Ports,        \* relay ports
    MaxId,        \* bound: allocation ids
    MaxEpoch,     \* bound: migrations of one allocation
    Ops,          \* the operations that run
    Rows,         \* persisted rows this node may load
    None          \* Option::None

Scopes == Users \cup Tenants \cup {Global}
Ids == 1 .. MaxId
Epochs == 0 .. MaxEpoch
AllOps == {"allocate", "release", "refresh", "sweep", "force", "migrate", "quic",
           "rehydrate"}

Allocations == [id : Ids, epoch : Epochs, port : Ports, user : Users, expired : BOOLEAN]

\* An allocation in hand; one under construction has no id yet (0), perhaps no port.
Drafts == [id : Nat, epoch : Nat, port : Ports \cup {None}, user : Users, expired : BOOLEAN]

ASSUME StoreAssumption ==
    /\ TenantOf \in [Users -> Tenants \cup {NoTenant}]
    /\ NoTenant \notin Scopes
    /\ Users \cap Tenants = {} /\ Global \notin Users \cup Tenants
    /\ Cap \in [Scopes -> Nat]
    /\ MaxId \in Nat /\ MaxEpoch \in Nat
    /\ Ops \subseteq AllOps
    /\ None \notin Drafts \cup Clients \cup Ports
    /\ Threads \cap Clients = {}
    /\ IsFiniteSet(Threads) /\ IsFiniteSet(Clients)
    /\ Rows \subseteq [client : Clients, draft : {d \in Drafts : d.port # None}]
    /\ \A r \in Rows : r.draft.id <= MaxId /\ r.draft.epoch <= MaxEpoch

VARIABLES
    alloc,     \* allocations: client -> Allocation or None
    relayIx,   \* relay_to_client: port -> client or None
    idIx,      \* id_to_client: id -> client or None
    count,     \* user_counts, tenant_counts, global_count
    nextId,    \* next_id
    used,      \* relay ports marked used in their pool
    rows,      \* persisted rows not loaded yet
    gauge,     \* metrics.active_allocations
    closed,    \* usage Stop records per id
    made,      \* history: ids that entered the map
    tickets,   \* MOBILITY-TICKETs handed out: <<id, epoch>>
    moved,     \* history: <<ticket, <<id, epoch>> it re-keyed>>
    pc,        \* per thread: next step
    op,        \* per thread: the operation it runs
    client,    \* per thread: client_addr, or re_key's old_addr
    target,    \* per thread: re_key's new_addr
    rport,     \* per thread: remove's relay_addr argument
    hand,      \* per thread: the Allocation it owns outside the map
    held,      \* per thread: counters reserved for that Allocation
    ticket     \* per thread: the ticket it presents

index == <<relayIx, idIx>>
trace == <<gauge, closed, made, tickets, moved>>
args == <<op, client, target, rport, ticket>>
vars == <<alloc, index, count, nextId, used, rows, trace, pc, args, hand, held>>

Steps == {"idle", "port", "reserve", "rowPort", "insert", "undo", "dropPort",
          "created", "recheck", "rmTake", "rmCounters", "rmIndex", "rmPort",
          "rmDone", "epoch", "rkTake", "rkClaim", "rkBack", "mgRefresh", "mgTicket"}

ScopesOf(u) == {u, TenantOf[u], Global} \ {NoTenant}

\* reserve_counters: user, then tenant, then global.
NextScope(u, got) ==
    CASE u \notin got                           -> u
      [] u \in got /\ ScopesOf(u) \ got # {Global} -> TenantOf[u]
      [] OTHER                                  -> Global

\* release_counters and CounterReservation::drop: global, then tenant, then user.
FirstScope(got) ==
    CASE Global \in got           -> Global
      [] Global \notin got /\ got \cap Tenants # {} -> CHOOSE s \in got : s \in Tenants
      [] OTHER                    -> CHOOSE s \in got : TRUE

\* The limit admits one too many.
FullOffByOne(s) == Cap[s] > 0 /\ count[s] > Cap[s]

\* fetch_add(1) >= cap, with 0 = unlimited
Full(s) == Cap[s] > 0 /\ count[s] >= Cap[s]

Goto(t, step) == pc' = [pc EXCEPT ![t] = step]

Init ==
    /\ alloc = [c \in Clients |-> None]
    /\ relayIx = [p \in Ports |-> None]
    /\ idIx = [i \in Ids |-> None]
    /\ count = [s \in Scopes |-> 0]
    /\ nextId = 1 /\ used = {} /\ rows = Rows
    /\ gauge = 0 /\ made = {} /\ tickets = {} /\ moved = {}
    /\ closed = [i \in Ids |-> 0]
    /\ pc = [t \in Threads |-> "idle"]
    /\ op = [t \in Threads |-> None]
    /\ client = [t \in Threads |-> None]
    /\ target = [t \in Threads |-> None]
    /\ rport = [t \in Threads |-> None]
    /\ ticket = [t \in Threads |-> None]
    /\ hand = [t \in Threads |-> None]
    /\ held = [t \in Threads |-> {}]

\* An operation of kind o begins at its step on client c with the given locals.
Begin(t, o, c, n, p, k, step) ==
    /\ pc[t] = "idle" /\ o \in Ops
    /\ op' = [op EXCEPT ![t] = o]
    /\ client' = [client EXCEPT ![t] = c]
    /\ target' = [target EXCEPT ![t] = n]
    /\ rport' = [rport EXCEPT ![t] = p]
    /\ ticket' = [ticket EXCEPT ![t] = k]
    /\ Goto(t, step)

\* The operation returns: its locals are gone.
Finish(t) ==
    /\ Goto(t, "idle")
    /\ op' = [op EXCEPT ![t] = None]
    /\ client' = [client EXCEPT ![t] = None]
    /\ target' = [target EXCEPT ![t] = None]
    /\ rport' = [rport EXCEPT ![t] = None]
    /\ ticket' = [ticket EXCEPT ![t] = None]

----------------------------------------------------------------------------
(* Allocate: get, take a port, reserve_counters, insert-if-vacant.          *)

\* Room for the ids of the drafts already under way.
MayMint ==
    nextId + Cardinality({t \in Threads : hand[t] # None /\ hand[t].id = 0}) <= MaxId

\* handle_allocate answers 437 unless get(src) is None.
StartAllocate(t, c, u) ==
    /\ alloc[c] = None /\ MayMint
    /\ Begin(t, "allocate", c, None, None, None, "port")
    /\ hand' = [hand EXCEPT ![t] = [id |-> 0, epoch |-> 0, port |-> None, user |-> u,
                                    expired |-> FALSE]]
    /\ UNCHANGED <<alloc, index, count, nextId, used, rows, trace, held>>

TakePort(t) ==
    /\ pc[t] = "port"
    /\ \E p \in Ports \ used :
         /\ used' = used \cup {p}
         /\ hand' = [hand EXCEPT ![t].port = p]
    /\ Goto(t, "reserve")
    /\ UNCHANGED <<alloc, index, count, nextId, rows, trace, args, held>>

\* 508: every port is taken.
NoPort(t) ==
    /\ pc[t] = "port" /\ Ports \subseteq used
    /\ Finish(t)
    /\ hand' = [hand EXCEPT ![t] = None]
    /\ UNCHANGED <<alloc, index, count, nextId, used, rows, trace, held>>

\* The counter is below its limit: it is taken, and the next one follows.
Reserve(t) ==
    LET u == hand[t].user
        s == NextScope(u, held[t])
    IN  /\ pc[t] = "reserve" /\ ~Full(s)
        /\ count' = [count EXCEPT ![s] = @ + 1]
        /\ held' = [held EXCEPT ![t] = @ \cup {s}]
        /\ Goto(t, CASE s # Global -> "reserve"
                     [] s = Global /\ op[t] = "rehydrate" -> "rowPort"
                     [] OTHER -> "insert")
        /\ UNCHANGED <<alloc, index, nextId, used, rows, trace, args, hand>>

\* The overshoot of global_count is never taken back.
ReserveFailsKeepsGlobal(t) ==
    LET s == NextScope(hand[t].user, held[t])
    IN  /\ pc[t] = "reserve" /\ Full(s)
        /\ count' = IF s = Global THEN [count EXCEPT ![s] = @ + 1] ELSE count
        /\ Goto(t, "undo")
        /\ UNCHANGED <<alloc, index, nextId, used, rows, trace, args, hand, held>>

\* At its limit.  The user and tenant counters are undone under the guard of
\* their map entry; global_count is an atomic, and others see it overshoot
\* until the fetch_sub.
ReserveFails(t) ==
    LET s == NextScope(hand[t].user, held[t])
    IN  /\ pc[t] = "reserve" /\ Full(s)
        /\ IF s = Global
           THEN /\ count' = [count EXCEPT ![s] = @ + 1]
                /\ held' = [held EXCEPT ![t] = @ \cup {s}]
           ELSE UNCHANGED <<count, held>>
        /\ Goto(t, "undo")
        /\ UNCHANGED <<alloc, index, nextId, used, rows, trace, args, hand>>

\* A counter is handed back more than once.
ReleaseCounterTwice(t) ==
    LET s == FirstScope(held[t])
    IN  /\ pc[t] \in {"undo", "rmCounters"} /\ held[t] # {}
        /\ count' = [count EXCEPT ![s] = @ - 2]
        /\ held' = [held EXCEPT ![t] = @ \ {s}]
        /\ UNCHANGED <<alloc, index, nextId, used, rows, trace, pc, args, hand>>

\* One counter is handed back: CounterReservation::drop, release_counters.
ReleaseCounter(t) ==
    LET s == FirstScope(held[t])
    IN  /\ pc[t] \in {"undo", "rmCounters"} /\ held[t] # {}
        /\ count' = [count EXCEPT ![s] = @ - 1]
        /\ held' = [held EXCEPT ![t] = @ \ {s}]
        /\ UNCHANGED <<alloc, index, nextId, used, rows, trace, pc, args, hand>>

\* The reservation is undone.  An Allocate then drops its PortReservationGuard;
\* rehydrate, which declared it later, has dropped it before.
Undone(t) ==
    /\ pc[t] = "undo" /\ held[t] = {}
    /\ IF op[t] = "allocate"
       THEN Goto(t, "dropPort") /\ UNCHANGED <<args, hand>>
       ELSE Finish(t) /\ hand' = [hand EXCEPT ![t] = None]
    /\ UNCHANGED <<alloc, index, count, nextId, used, rows, trace, held>>

DropPort(t) ==
    /\ pc[t] = "dropPort"
    /\ used' = used \ {hand[t].port}
    /\ IF op[t] = "allocate"
       THEN Finish(t) /\ hand' = [hand EXCEPT ![t] = None]
       ELSE Goto(t, "undo") /\ UNCHANGED <<args, hand>>
    /\ UNCHANGED <<alloc, index, count, nextId, rows, trace, held>>

\* The Entry guard: under it the indices are set, then the slot is filled.
Insert(t) ==
    LET c == client[t]
        minted == hand[t].id = 0
        a == [hand[t] EXCEPT !.id = IF minted THEN nextId ELSE @]
    IN  /\ pc[t] = "insert" /\ alloc[c] = None
        /\ nextId' = IF minted THEN nextId + 1 ELSE nextId
        /\ alloc' = [alloc EXCEPT ![c] = a]
        /\ relayIx' = [relayIx EXCEPT ![a.port] = c]
        /\ idIx' = [idIx EXCEPT ![a.id] = c]
        /\ made' = made \cup {a.id}
        /\ hand' = [hand EXCEPT ![t] = None]
        /\ held' = [held EXCEPT ![t] = {}]
        /\ IF op[t] = "allocate" THEN Goto(t, "created") /\ UNCHANGED args ELSE Finish(t)
        /\ UNCHANGED <<count, used, rows, gauge, closed, tickets, moved>>

\* AllocationExists: another thread won the slot; the id is lost.
InsertLost(t) ==
    /\ pc[t] = "insert" /\ alloc[client[t]] # None
    /\ nextId' = IF hand[t].id = 0 THEN nextId + 1 ELSE nextId
    /\ hand' = [hand EXCEPT ![t].id = IF @ = 0 THEN nextId ELSE @]
    /\ Goto(t, IF op[t] = "allocate" THEN "undo" ELSE "dropPort")
    /\ UNCHANGED <<alloc, index, count, used, rows, trace, args, held>>

\* The handler counts the allocation and mints a ticket for what get(src) now finds.
Created(t) ==
    LET a == alloc[client[t]]
    IN  /\ pc[t] = "created"
        /\ gauge' = gauge + 1
        /\ tickets' = IF a = None THEN tickets ELSE tickets \cup {<<a.id, a.epoch>>}
        /\ Finish(t)
        /\ UNCHANGED <<alloc, index, count, nextId, used, rows, closed, made, moved,
                       hand, held>>

----------------------------------------------------------------------------
(* rehydrate: counters, then the row's own port, then the slot.             *)

StartRehydrate(t, r) ==
    /\ r \in rows
    /\ r.draft.id = 0 => MayMint
    /\ Begin(t, "rehydrate", r.client, None, None, None, "reserve")
    /\ rows' = rows \ {r}
    /\ hand' = [hand EXCEPT ![t] = r.draft]
    /\ UNCHANGED <<alloc, index, count, nextId, used, trace, held>>

ReserveRowPort(t) ==
    /\ pc[t] = "rowPort"
    /\ IF hand[t].port \in used
       THEN Goto(t, "undo") /\ UNCHANGED used
       ELSE Goto(t, "insert") /\ used' = used \cup {hand[t].port}
    /\ UNCHANGED <<alloc, index, count, nextId, rows, trace, args, hand, held>>

----------------------------------------------------------------------------
(* Lifetime, and the four ways an allocation is removed.                    *)

Expire(c) ==
    /\ alloc[c] # None /\ ~alloc[c].expired
    /\ alloc' = [alloc EXCEPT ![c].expired = TRUE]
    /\ UNCHANGED <<index, count, nextId, used, rows, trace, pc, args, hand, held>>

\* refresh(client, lifetime > 0)
Refresh(c) ==
    /\ "refresh" \in Ops /\ alloc[c] # None
    /\ alloc' = [alloc EXCEPT ![c].expired = FALSE]
    /\ UNCHANGED <<index, count, nextId, used, rows, trace, pc, args, hand, held>>

\* refresh(client, 0): relay_addr is read, the guard is dropped, remove follows.
StartRelease(t, c) ==
    /\ alloc[c] # None
    /\ Begin(t, "release", c, None, alloc[c].port, None, "rmTake")
    /\ UNCHANGED <<alloc, index, count, nextId, used, rows, trace, hand, held>>

\* cleanup_expired_budget's read-only pass puts (client, relay_addr) on its list.
StartSweep(t, c) ==
    /\ alloc[c] # None /\ alloc[c].expired
    /\ Begin(t, "sweep", c, None, alloc[c].port, None, "recheck")
    /\ UNCHANGED <<alloc, index, count, nextId, used, rows, trace, hand, held>>

\* Its re-check of one entry of the list.
SweepRecheck(t) ==
    LET a == alloc[client[t]]
    IN  /\ pc[t] = "recheck"
        /\ IF a # None /\ a.expired THEN Goto(t, "rmTake") /\ UNCHANGED args ELSE Finish(t)
        /\ UNCHANGED <<alloc, index, count, nextId, used, rows, trace, hand, held>>

\* A management call has listed the allocation; force_remove follows.
StartForce(t, c) ==
    /\ alloc[c] # None
    /\ Begin(t, "force", c, None, None, None, "rmTake")
    /\ UNCHANGED <<alloc, index, count, nextId, used, rows, trace, hand, held>>

\* allocations.remove(client).  remove keeps the relay_addr it was called with;
\* force_remove uses that of the allocation it took.
RmTake(t) ==
    LET a == alloc[client[t]]
    IN  /\ pc[t] = "rmTake" /\ a # None
        /\ alloc' = [alloc EXCEPT ![client[t]] = None]
        /\ hand' = [hand EXCEPT ![t] = a]
        /\ held' = [held EXCEPT ![t] = ScopesOf(a.user)]
        /\ rport' = [rport EXCEPT ![t] = IF op[t] = "force" THEN a.port ELSE @]
        /\ Goto(t, "rmCounters")
        /\ UNCHANGED <<index, count, nextId, used, rows, trace, op, client, target, ticket>>

\* Somebody else took it: nothing to do, and still Ok(()).
RmNothing(t) ==
    /\ pc[t] = "rmTake" /\ alloc[client[t]] = None
    /\ Goto(t, "rmDone")
    /\ UNCHANGED <<alloc, index, count, nextId, used, rows, trace, args, hand, held>>

\* on_allocation_closed, then the indices.
RmIndex(t) ==
    /\ pc[t] = "rmCounters" /\ held[t] = {}
    /\ closed' = [closed EXCEPT ![hand[t].id] = @ + 1]
    /\ relayIx' = [relayIx EXCEPT ![rport[t]] = None]
    /\ idIx' = [idIx EXCEPT ![hand[t].id] = None]
    /\ Goto(t, "rmPort")
    /\ UNCHANGED <<alloc, count, nextId, used, rows, gauge, made, tickets, moved, args,
                   hand, held>>

\* The port of an orphan of re_key is not released.
RmPortLeaksOrphan(t) ==
    /\ pc[t] = "rmPort"
    /\ used' = IF op[t] = "orphan" THEN used ELSE used \ {rport[t]}
    /\ hand' = [hand EXCEPT ![t] = None]
    /\ IF op[t] = "orphan" THEN Finish(t) ELSE Goto(t, "rmDone") /\ UNCHANGED args
    /\ UNCHANGED <<alloc, index, count, nextId, rows, trace, held>>

\* The pool gets the port back; an orphan of re_key is not counted by anyone.
RmPort(t) ==
    /\ pc[t] = "rmPort"
    /\ used' = used \ {rport[t]}
    /\ hand' = [hand EXCEPT ![t] = None]
    /\ IF op[t] = "orphan" THEN Finish(t) ELSE Goto(t, "rmDone") /\ UNCHANGED args
    /\ UNCHANGED <<alloc, index, count, nextId, rows, trace, held>>

\* The caller decrements the gauge, removed or not.
RmDone(t) ==
    /\ pc[t] = "rmDone"
    /\ gauge' = gauge - 1
    /\ IF op[t] = "migrate" THEN Goto(t, "mgTicket") /\ UNCHANGED args ELSE Finish(t)
    /\ UNCHANGED <<alloc, index, count, nextId, used, rows, closed, made, tickets, moved,
                   hand, held>>

----------------------------------------------------------------------------
(* Migration: re_key, from a Refresh with a ticket or from QUIC.            *)

\* No allocation at src, a ticket that verifies, and id_to_client names old_addr.
StartMigrate(t, c, k) ==
    /\ k \in tickets /\ k[2] < MaxEpoch
    /\ alloc[c] = None /\ idIx[k[1]] \in Clients
    /\ Begin(t, "migrate", idIx[k[1]], c, None, k, "epoch")
    /\ UNCHANGED <<alloc, index, count, nextId, used, rows, trace, hand, held>>

\* The anti-replay check reads whatever lives at old_addr.
CheckEpoch(t) ==
    LET a == alloc[client[t]]
    IN  /\ pc[t] = "epoch"
        /\ IF a # None /\ a.epoch = ticket[t][2]
           THEN Goto(t, "rkTake") /\ UNCHANGED args
           ELSE Finish(t)
        /\ UNCHANGED <<alloc, index, count, nextId, used, rows, trace, hand, held>>

\* migrate_quic_allocation: the path is validated, there is no ticket.
StartQuic(t, o, n) ==
    /\ o # n /\ alloc[o] # None
    /\ Begin(t, "quic", o, n, None, None, "rkTake")
    /\ UNCHANGED <<alloc, index, count, nextId, used, rows, trace, hand, held>>

\* re_key: the same address is a no-op, a missing allocation is NotFound.
RkNothing(t) ==
    /\ pc[t] = "rkTake"
    /\ \/ alloc[client[t]] = None /\ Finish(t)
       \/ alloc[client[t]] # None /\ client[t] = target[t]
          /\ Goto(t, "mgRefresh") /\ UNCHANGED args
    /\ UNCHANGED <<alloc, index, count, nextId, used, rows, trace, hand, held>>

RkTake(t) ==
    LET a == alloc[client[t]]
    IN  /\ pc[t] = "rkTake" /\ client[t] # target[t]
        /\ a # None /\ a.epoch < MaxEpoch
        /\ alloc' = [alloc EXCEPT ![client[t]] = None]
        /\ hand' = [hand EXCEPT ![t] = a]
        /\ held' = [held EXCEPT ![t] = ScopesOf(a.user)]
        /\ Goto(t, "rkClaim")
        /\ UNCHANGED <<index, count, nextId, used, rows, trace, args>>

\* The slot is overwritten: contains_key and insert instead of the Entry.
RkClaimClobbers(t) ==
    LET n == target[t]
        a == hand[t]
    IN  /\ pc[t] = "rkClaim"
        /\ alloc' = [alloc EXCEPT ![n] = [a EXCEPT !.epoch = a.epoch + 1]]
        /\ relayIx' = [relayIx EXCEPT ![a.port] = n]
        /\ idIx' = [idIx EXCEPT ![a.id] = n]
        /\ moved' = IF op[t] = "migrate" THEN moved \cup {<<ticket[t], <<a.id, a.epoch>>>>}
                                         ELSE moved
        /\ hand' = [hand EXCEPT ![t] = None]
        /\ held' = [held EXCEPT ![t] = {}]
        /\ IF op[t] = "migrate" THEN Goto(t, "mgRefresh") /\ UNCHANGED args ELSE Finish(t)
        /\ UNCHANGED <<count, nextId, used, rows, gauge, closed, made, tickets>>

\* id_to_client is not moved.
RkClaimKeepsId(t) ==
    LET n == target[t]
        a == hand[t]
    IN  /\ pc[t] = "rkClaim" /\ alloc[n] = None
        /\ alloc' = [alloc EXCEPT ![n] = [a EXCEPT !.epoch = a.epoch + 1]]
        /\ relayIx' = [relayIx EXCEPT ![a.port] = n]
        /\ moved' = IF op[t] = "migrate" THEN moved \cup {<<ticket[t], <<a.id, a.epoch>>>>}
                                         ELSE moved
        /\ hand' = [hand EXCEPT ![t] = None]
        /\ held' = [held EXCEPT ![t] = {}]
        /\ IF op[t] = "migrate" THEN Goto(t, "mgRefresh") /\ UNCHANGED args ELSE Finish(t)
        /\ UNCHANGED <<idIx, count, nextId, used, rows, gauge, closed, made, tickets>>

\* relay_to_client is not moved.
RkClaimKeepsRelay(t) ==
    LET n == target[t]
        a == hand[t]
    IN  /\ pc[t] = "rkClaim" /\ alloc[n] = None
        /\ alloc' = [alloc EXCEPT ![n] = [a EXCEPT !.epoch = a.epoch + 1]]
        /\ idIx' = [idIx EXCEPT ![a.id] = n]
        /\ moved' = IF op[t] = "migrate" THEN moved \cup {<<ticket[t], <<a.id, a.epoch>>>>}
                                         ELSE moved
        /\ hand' = [hand EXCEPT ![t] = None]
        /\ held' = [held EXCEPT ![t] = {}]
        /\ IF op[t] = "migrate" THEN Goto(t, "mgRefresh") /\ UNCHANGED args ELSE Finish(t)
        /\ UNCHANGED <<relayIx, count, nextId, used, rows, gauge, closed, made, tickets>>

\* The Entry of new_addr is vacant: indices, then the slot, one epoch later.
RkClaim(t) ==
    LET n == target[t]
        a == hand[t]
    IN  /\ pc[t] = "rkClaim" /\ alloc[n] = None
        /\ alloc' = [alloc EXCEPT ![n] = [a EXCEPT !.epoch = a.epoch + 1]]
        /\ relayIx' = [relayIx EXCEPT ![a.port] = n]
        /\ idIx' = [idIx EXCEPT ![a.id] = n]
        /\ moved' = IF op[t] = "migrate" THEN moved \cup {<<ticket[t], <<a.id, a.epoch>>>>}
                                         ELSE moved
        /\ hand' = [hand EXCEPT ![t] = None]
        /\ held' = [held EXCEPT ![t] = {}]
        /\ IF op[t] = "migrate" THEN Goto(t, "mgRefresh") /\ UNCHANGED args ELSE Finish(t)
        /\ UNCHANGED <<count, nextId, used, rows, gauge, closed, made, tickets>>

RkRefused(t) ==
    /\ pc[t] = "rkClaim" /\ alloc[target[t]] # None
    /\ Goto(t, "rkBack")
    /\ UNCHANGED <<alloc, index, count, nextId, used, rows, trace, args, hand, held>>

\* Rollback under old_addr, the indices untouched.
RkBack(t) ==
    /\ pc[t] = "rkBack" /\ alloc[client[t]] = None
    /\ alloc' = [alloc EXCEPT ![client[t]] = hand[t]]
    /\ hand' = [hand EXCEPT ![t] = None]
    /\ held' = [held EXCEPT ![t] = {}]
    /\ Finish(t)
    /\ UNCHANGED <<index, count, nextId, used, rows, trace>>

\* Both keys lost: torn down the way remove does.
RkOrphan(t) ==
    /\ pc[t] = "rkBack" /\ alloc[client[t]] # None
    /\ op' = [op EXCEPT ![t] = "orphan"]
    /\ rport' = [rport EXCEPT ![t] = hand[t].port]
    /\ Goto(t, "rmCounters")
    /\ UNCHANGED <<alloc, index, count, nextId, used, rows, trace, client, target, ticket,
                   hand, held>>

\* refresh(src, lifetime) of the migrated allocation: extended, or released.
MigrateRefresh(t) ==
    LET n == target[t]
        found == alloc[n] # None
    IN  /\ pc[t] = "mgRefresh"
        /\ \/ /\ Goto(t, "mgTicket")
              /\ alloc' = IF found THEN [alloc EXCEPT ![n].expired = FALSE] ELSE alloc
              /\ UNCHANGED <<client, rport>>
           \/ /\ Goto(t, IF found THEN "rmTake" ELSE "rmDone")
              /\ client' = [client EXCEPT ![t] = n]
              /\ rport' = [rport EXCEPT ![t] = IF found THEN alloc[n].port ELSE @]
              /\ UNCHANGED alloc
        /\ UNCHANGED <<index, count, nextId, used, rows, trace, op, target, ticket, hand, held>>

\* A fresh ticket at the epoch now found at src, or one past the old ticket's.
MigrateTicket(t) ==
    LET a == alloc[target[t]]
        e == IF a # None THEN a.epoch ELSE ticket[t][2] + 1
    IN  /\ pc[t] = "mgTicket"
        /\ tickets' = tickets \cup {<<ticket[t][1], e>>}
        /\ Finish(t)
        /\ UNCHANGED <<alloc, index, count, nextId, used, rows, gauge, closed, made, moved,
                       hand, held>>

----------------------------------------------------------------------------
Next ==
    \/ \E c \in Clients : Expire(c) \/ Refresh(c)
    \/ \E t \in Threads :
         \/ \E c \in Clients, u \in Users : StartAllocate(t, c, u)
         \/ TakePort(t) \/ NoPort(t) \/ Reserve(t) \/ ReserveFails(t)
         \/ ReleaseCounter(t) \/ Undone(t) \/ DropPort(t)
         \/ Insert(t) \/ InsertLost(t) \/ Created(t)
         \/ \E r \in Rows : StartRehydrate(t, r)
         \/ ReserveRowPort(t)
         \/ \E c \in Clients : StartRelease(t, c) \/ StartSweep(t, c) \/ StartForce(t, c)
         \/ SweepRecheck(t)
         \/ RmTake(t) \/ RmNothing(t) \/ RmIndex(t) \/ RmPort(t) \/ RmDone(t)
         \/ \E c \in Clients, k \in tickets : StartMigrate(t, c, k)
         \/ CheckEpoch(t)
         \/ \E o, n \in Clients : StartQuic(t, o, n)
         \/ RkNothing(t) \/ RkTake(t) \/ RkClaim(t) \/ RkRefused(t)
         \/ RkBack(t) \/ RkOrphan(t)
         \/ MigrateRefresh(t) \/ MigrateTicket(t)

Spec == Init /\ [][Next]_vars

----------------------------------------------------------------------------
(* Properties                                                              *)

\* Every variable has its type; in particular no counter underflows, which the
\* debug_assert!s of release_counters say.
TypeOK ==
    /\ alloc \in [Clients -> Allocations \cup {None}]
    /\ relayIx \in [Ports -> Clients \cup {None}]
    /\ idIx \in [Ids -> Clients \cup {None}]
    /\ count \in [Scopes -> Nat]
    /\ nextId \in Nat /\ used \subseteq Ports /\ rows \subseteq Rows
    /\ gauge \in Int /\ closed \in [Ids -> Nat] /\ made \subseteq Ids
    /\ tickets \subseteq Ids \X Epochs
    /\ moved \subseteq (Ids \X Epochs) \X (Ids \X Epochs)
    /\ pc \in [Threads -> Steps]
    /\ op \in [Threads -> AllOps \cup {"orphan", None}]
    /\ client \in [Threads -> Clients \cup {None}]
    /\ target \in [Threads -> Clients \cup {None}]
    /\ rport \in [Threads -> Ports \cup {None}]
    /\ ticket \in [Threads -> (Ids \X Epochs) \cup {None}]
    /\ hand \in [Threads -> Drafts \cup {None}]
    /\ held \in [Threads -> SUBSET Scopes]

Live(s) == {c \in Clients : alloc[c] # None /\ s \in ScopesOf(alloc[c].user)}
Holding(s) == {t \in Threads : s \in held[t]}

\* Each admission counter is the number of live allocations of its scope plus
\* the threads that hold a unit of it: no path leaks one or hands one back twice.
CountsExact == \A s \in Scopes : count[s] = Cardinality(Live(s) \cup Holding(s))

\* However many Allocates race, no scope ever has more allocations than its limit.
WithinLimits == \A s \in Scopes : Cap[s] > 0 => Cardinality(Live(s)) <= Cap[s]

\* Who has allocation i: clients in the map, threads with it in hand not closed yet.
Places(i) ==
    {c \in Clients : alloc[c] # None /\ alloc[c].id = i} \cup
    {t \in Threads : pc[t] \in {"rmCounters", "rkClaim", "rkBack"} /\ hand[t].id = i}

\* An allocation that entered the map is in exactly one place until it is closed,
\* and it is closed once: one usage Stop record, whatever removals race.
BilledOnce == \A i \in made : Cardinality(Places(i)) + closed[i] = 1

\* id_to_client is in lock-step with allocations: it names the client of a live
\* id, the old one while the allocation is in a thread's hand, and nothing else.
IdIndexExact ==
    \A i \in Ids, c \in Clients :
        idIx[i] = c <=> \/ alloc[c] # None /\ alloc[c].id = i
                        \/ \E t \in Threads : /\ pc[t] \in {"rmCounters", "rkClaim", "rkBack"}
                                              /\ hand[t].id = i /\ client[t] = c

\* The owner of a relay port: the client, or the thread that carries the allocation.
PortOwners(p) ==
    {c \in Clients : alloc[c] # None /\ alloc[c].port = p} \cup
    {t \in Threads : hand[t] # None /\ hand[t].port = p
                     /\ ~(op[t] = "rehydrate" /\ pc[t] \in {"reserve", "rowPort", "undo"})}

\* A port marked used has exactly one owner and an owner's port is marked used.
PortsOwned ==
    \A p \in Ports : Cardinality(PortOwners(p)) = IF p \in used THEN 1 ELSE 0

\* Packets from peers find their client: the relay address of a live allocation
\* maps to its client, and no free port maps to anyone.
RelayIndexExact ==
    /\ \A c \in Clients : alloc[c] # None => relayIx[alloc[c].port] = c
    /\ \A p \in Ports \ used : relayIx[p] = None

\* is_allocated: a live allocation's port is marked used.
LivePortUsed == \A c \in Clients : alloc[c] # None => alloc[c].port \in used

\* When nothing is under way, active_allocations is the number of allocations.
GaugeHonest ==
    (\A t \in Threads : pc[t] = "idle") =>
        gauge = Cardinality({c \in Clients : alloc[c] # None})

\* The sweep removes an allocation only if it has expired.
SweepTakesExpired ==
    [][\A t \in Threads :
          op[t] = "sweep" /\ pc[t] = "rmTake" /\ pc'[t] = "rmCounters"
             => alloc[client[t]].expired]_vars

\* A ticket moves the allocation it was minted for, at the epoch it names.
MovesTicketed == \A m \in moved : m[1] = m[2]
============================================================================
