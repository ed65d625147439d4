--------------------------- MODULE PortAllocator ---------------------------
(***************************************************************************)
(* The relay-port pool of crates/session/src/lib.rs (PortAllocator) as the *)
(* request threads and the maintenance sweep use it.                       *)
(*                                                                         *)
(* A pool has three mutexes, next_port, used and reservations.  A thread   *)
(* step is what the code does between two lock acquisitions; the mutexes a *)
(* thread holds between two of its steps are a function of its pc (Holds). *)
(* Time is relative: a reservation carries what is left of its lifetime.   *)
(***************************************************************************)
EXTENDS Integers, FiniteSets

CONSTANTS
    Threads,              \* concurrent users of the pool
    Sweeper,              \* the maintenance task, which only sweeps
    Tokens,               \* RESERVATION-TOKENs, 8 random bytes: never drawn twice
    MinPort, MaxPort,     \* the pool's range, inclusive
    ReservationLifetime,  \* RESERVATION_LIFETIME in clock ticks
    MaxTries,             \* bind attempts per Allocate (64 in the code)
    MayFail,              \* may bind_relay_socket and create_for_identity fail?
    NoPort, NoToken       \* Option::None

Ports == MinPort .. MaxPort

ASSUME PortAssumption ==
    /\ Sweeper \in Threads
    /\ MinPort \in Nat /\ MaxPort \in Nat /\ MinPort <= MaxPort
    /\ NoPort \notin Ports /\ NoToken \notin Tokens
    /\ ReservationLifetime \in Nat \ {0} /\ MaxTries \in Nat \ {0}
    /\ MayFail \in BOOLEAN

VARIABLES
    used,          \* ports marked used
    nextPort,      \* the rotating cursor
    reservations,  \* token -> [port, ttl] for the issued, unclaimed tokens
    live,          \* ports of committed allocations (owned by the store)
    issued,        \* tokens drawn so far
    echoed,        \* tokens sent to a client in an Allocate response
    pc,            \* per thread: the next step of the operation it runs
    port,          \* per thread: the port it must commit or release
    odd,           \* per thread: the reserved port it is cancelling
    token,         \* per thread: the token it issued or is claiming
    tries,         \* per thread: bind attempts so far
    kind,          \* per thread: which of the bind paths it is on
    due            \* per thread: the tokens expired when its sweep read the clock

vars == <<used, nextPort, reservations, live, issued, echoed,
          pc, port, odd, token, tries, kind, due>>
pool == <<used, nextPort, reservations>>
owners == <<live, issued, echoed>>
locals == <<port, odd, token, tries, kind, due>>

\* Which retry loop, or the claim path, a thread is in.
Kinds == {"none", "any", "even", "pair", "claim"}

\* Where a thread stands between two steps.
Steps == {"idle", "allocUsed", "pairRes", "bind", "bindFailed",
          "undoPair", "nextTry", "sweepUsed", "sweepRes", "take", "create",
          "cancel", "cancelOdd", "drop"}

----------------------------------------------------------------------------
\* The mutexes a thread holds while it waits for its next one.
Holds(t, l) ==
    CASE l = "next_port"    -> pc[t] = "allocUsed"
      [] l = "used"         -> pc[t] \in {"pairRes", "sweepRes"}
      [] l = "reservations" -> pc[t] = "cancelOdd"

Free(l) == \A t \in Threads : ~Holds(t, l)

\* The ports the walk from the cursor passes before it reaches p.
Passed(p) ==
    IF p >= nextPort THEN nextPort .. (p - 1)
                     ELSE (nextPort .. MaxPort) \cup (MinPort .. (p - 1))

EvenPorts == {p \in Ports : p % 2 = 0}
FreeEven == EvenPorts \ used
FreePairs == {p \in EvenPorts : p < MaxPort /\ p \notin used /\ p + 1 \notin used}
Lowest(p, S) == p \in S /\ \A q \in S : p <= q

\* The cursor runs past the end of the range.
AdvanceNoWrap(p) == p + 1

\* The step after p in the cyclic walk of the range.
Advance(p) == IF p >= MaxPort THEN MinPort ELSE p + 1

Goto(t, step) == pc' = [pc EXCEPT ![t] = step]

\* The operation returns: its locals are gone.
Return(t) ==
    /\ Goto(t, "idle")
    /\ port' = [port EXCEPT ![t] = NoPort]
    /\ token' = [token EXCEPT ![t] = NoToken]
    /\ tries' = [tries EXCEPT ![t] = 0]
    /\ kind' = [kind EXCEPT ![t] = "none"]
    /\ UNCHANGED <<odd, due>>

Init ==
    /\ used = {}
    /\ nextPort \in Ports                    \* random_start_port
    /\ reservations = << >>
    /\ live = {} /\ issued = {} /\ echoed = {}
    /\ pc = [t \in Threads |-> "idle"]
    /\ port = [t \in Threads |-> NoPort]
    /\ odd = [t \in Threads |-> NoPort]
    /\ token = [t \in Threads |-> NoToken]
    /\ tries = [t \in Threads |-> 0]
    /\ kind = [t \in Threads |-> "none"]
    /\ due = [t \in Threads |-> {}]

----------------------------------------------------------------------------
(* allocate() and its bind loop: next_port, then used.                     *)

\* lock next_port
StartAllocate(t) ==
    /\ \/ pc[t] = "idle" /\ kind' = [kind EXCEPT ![t] = "any"]
       \/ pc[t] = "nextTry" /\ kind[t] = "any" /\ UNCHANGED kind
    /\ Free("next_port")
    /\ Goto(t, "allocUsed")
    /\ UNCHANGED <<pool, owners, port, odd, token, tries, due>>

\* The walk does not notice that it came round.
AllocateScanForever(t) ==
    /\ pc[t] = "allocUsed"
    /\ Free("used")
    /\ \E p \in Ports \ used :
         /\ used' = used \cup {p}
         /\ nextPort' = Advance(p)
         /\ port' = [port EXCEPT ![t] = p]
    /\ Goto(t, "bind")
    /\ UNCHANGED <<reservations, owners, odd, token, tries, kind, due>>

\* lock used, walk to the first free port, mark it, advance the cursor
AllocateScan(t) ==
    /\ pc[t] = "allocUsed"
    /\ Free("used")
    /\ \/ \E p \in Ports \ used :
            /\ Passed(p) \subseteq used         \* the first free one
            /\ used' = used \cup {p}
            /\ nextPort' = Advance(p)
            /\ port' = [port EXCEPT ![t] = p]
            /\ Goto(t, "bind")
            /\ UNCHANGED <<reservations, odd, token, tries, kind, due>>
       \/ /\ Ports \subseteq used             \* NoPortsAvailable
          /\ Return(t)
          /\ UNCHANGED pool
    /\ UNCHANGED owners

(* allocate_even() and allocate_even_with_reservation().                   *)

\* EVEN-PORT, R = 0: lowest free even port
AllocateEven(t) ==
    /\ \/ pc[t] = "idle"
       \/ pc[t] = "nextTry" /\ kind[t] = "even"
    /\ Free("used")
    /\ IF FreeEven = {}
         THEN Return(t) /\ UNCHANGED pool
         ELSE /\ \E p \in FreeEven :
                   /\ Lowest(p, FreeEven)
                   /\ used' = used \cup {p}
                   /\ port' = [port EXCEPT ![t] = p]
              /\ kind' = [kind EXCEPT ![t] = "even"]
              /\ Goto(t, "bind")
              /\ UNCHANGED <<nextPort, reservations, odd, token, tries, due>>
    /\ UNCHANGED owners

\* EVEN-PORT, R = 1: lock used and find a pair; reservations is locked only
\* when there is one
PairLockUsed(t) ==
    /\ \/ pc[t] = "idle"
       \/ pc[t] = "nextTry" /\ kind[t] = "pair"
    /\ issued # Tokens                         \* bound: tokens drawn in a run
    /\ Free("used")
    /\ IF FreePairs = {}
         THEN Return(t)
         ELSE /\ Goto(t, "pairRes")
              /\ kind' = [kind EXCEPT ![t] = "pair"]
              /\ UNCHANGED <<port, odd, token, tries, due>>
    /\ UNCHANGED <<pool, owners>>

\* lock reservations (used still held) and insert the odd port's reservation
PairReserve(t) ==
    /\ pc[t] = "pairRes"
    /\ Free("reservations")
    /\ \E tok \in Tokens \ issued, p \in FreePairs :
         /\ Lowest(p, FreePairs)
         /\ used' = used \cup {p, p + 1}
         /\ reservations' =
              [x \in DOMAIN reservations \cup {tok} |->
                 IF x = tok THEN [port |-> p + 1, ttl |-> ReservationLifetime]
                            ELSE reservations[x]]
         /\ port' = [port EXCEPT ![t] = p]
         /\ token' = [token EXCEPT ![t] = tok]
         /\ issued' = issued \cup {tok}
    /\ Goto(t, "bind")
    /\ UNCHANGED <<nextPort, live, echoed, odd, tries, kind, due>>

----------------------------------------------------------------------------
(* bind_relay_socket(port) and what each caller does when it fails.        *)

BindOk(t) ==
    /\ pc[t] = "bind"
    /\ Goto(t, "create")
    /\ UNCHANGED <<pool, owners, locals>>

BindFails(t) ==
    /\ pc[t] = "bind" /\ MayFail
    /\ Goto(t, "bindFailed")
    /\ UNCHANGED <<pool, owners, locals>>

\* release(port); claim_and_bind_family gives up, the allocate loops go on
BindFailedRelease(t) ==
    /\ pc[t] = "bindFailed"
    /\ Free("used")
    /\ used' = used \ {port[t]}
    /\ IF kind[t] = "claim"
         THEN Return(t)
         ELSE /\ port' = [port EXCEPT ![t] = NoPort]
              /\ Goto(t, IF token[t] = NoToken THEN "nextTry" ELSE "undoPair")
              /\ tries' = [tries EXCEPT ![t] = @ + 1]
              /\ UNCHANGED <<odd, token, kind, due>>
    /\ UNCHANGED <<nextPort, reservations, owners>>

\* the for-loop over the attempts is exhausted
GiveUp(t) ==
    /\ pc[t] = "nextTry"
    /\ \/ tries[t] = MaxTries
       \/ kind[t] = "pair" /\ issued = Tokens   \* bound: tokens drawn in a run
    /\ Return(t)
    /\ UNCHANGED <<pool, owners>>

\* reservations.lock().remove(tok): the guard lives to the end of the if-let,
\* so the thread goes on to lock used while it holds reservations
RemoveToken(t, from, next) ==
    /\ pc[t] = from
    /\ Free("reservations")
    /\ token' = [token EXCEPT ![t] = NoToken]
    /\ IF token[t] \in DOMAIN reservations
         THEN /\ odd' = [odd EXCEPT ![t] = reservations[token[t]].port]
              /\ reservations' =
                   [x \in DOMAIN reservations \ {token[t]} |-> reservations[x]]
              /\ Goto(t, "cancelOdd")
         ELSE /\ Goto(t, next)                \* already swept
              /\ UNCHANGED <<odd, reservations>>
    /\ UNCHANGED <<used, nextPort, owners, port, tries, kind, due>>

UndoPair(t) == RemoveToken(t, "undoPair", "nextTry")
CancelReservation(t) == RemoveToken(t, "cancel", "drop")

\* release(r.port), then both guards are dropped
CancelOdd(t) ==
    /\ pc[t] = "cancelOdd"
    /\ Free("used")
    /\ used' = used \ {odd[t]}
    /\ odd' = [odd EXCEPT ![t] = NoPort]
    /\ Goto(t, IF port[t] = NoPort THEN "nextTry" ELSE "drop")
    /\ UNCHANGED <<nextPort, reservations, owners, port, token, tries, kind, due>>

----------------------------------------------------------------------------
(* sweep_expired_reservations() and claim_reservation().                   *)

\* Never due.
ExpiredNever == {tok \in DOMAIN reservations : reservations[tok].ttl < 0}

\* expires_at <= now
Expired == {tok \in DOMAIN reservations : reservations[tok].ttl = 0}

\* Instant::now() is read before any lock is taken
ReadClock(t) ==
    /\ pc[t] = "idle"
    /\ due' = [due EXCEPT ![t] = Expired]
    /\ Goto(t, "sweepUsed")
    /\ UNCHANGED <<pool, owners, port, odd, tries>>

StartSweep(t) ==
    /\ ReadClock(t)
    /\ UNCHANGED <<token, kind>>

\* a client presents a token it was sent; nothing stops it presenting it twice
StartClaim(t) ==
    /\ ReadClock(t)
    /\ \E tok \in echoed : token' = [token EXCEPT ![t] = tok]
    /\ kind' = [kind EXCEPT ![t] = "claim"]

SweepLockUsed(t) ==
    /\ pc[t] = "sweepUsed"
    /\ Free("used")
    /\ Goto(t, "sweepRes")
    /\ UNCHANGED <<pool, owners, locals>>

\* The token is dropped and its port stays used.
SweepExpiredKeepsPort(t) ==
    /\ pc[t] = "sweepRes"
    /\ Free("reservations")
    /\ reservations' =
         [tok \in DOMAIN reservations \ due[t] |-> reservations[tok]]
    /\ due' = [due EXCEPT ![t] = {}]
    /\ Goto(t, IF kind[t] = "claim" THEN "take" ELSE "idle")
    /\ UNCHANGED <<used, nextPort, owners, port, odd, token, tries, kind>>

\* lock reservations and drop what had expired, with its port
SweepExpired(t) ==
    /\ pc[t] = "sweepRes"
    /\ Free("reservations")
    /\ LET gone == due[t] \cap DOMAIN reservations IN
         /\ used' = used \ {reservations[tok].port : tok \in gone}
         /\ reservations' =
              [tok \in DOMAIN reservations \ gone |-> reservations[tok]]
    /\ due' = [due EXCEPT ![t] = {}]
    /\ Goto(t, IF kind[t] = "claim" THEN "take" ELSE "idle")
    /\ UNCHANGED <<nextPort, owners, port, odd, token, tries, kind>>

\* The token is looked up but stays valid.
ClaimTakeKeepsToken(t) ==
    /\ pc[t] = "take"
    /\ Free("reservations")
    /\ token[t] \in DOMAIN reservations
    /\ port' = [port EXCEPT ![t] = reservations[token[t]].port]
    /\ token' = [token EXCEPT ![t] = NoToken]
    /\ Goto(t, "bind")
    /\ UNCHANGED <<pool, owners, odd, tries, kind, due>>

\* claim_reservation: whoever removes the token owns the port
ClaimTake(t) ==
    /\ pc[t] = "take"
    /\ Free("reservations")
    /\ IF token[t] \in DOMAIN reservations
         THEN /\ port' = [port EXCEPT ![t] = reservations[token[t]].port]
              /\ reservations' =
                   [x \in DOMAIN reservations \ {token[t]} |-> reservations[x]]
              /\ token' = [token EXCEPT ![t] = NoToken]
              /\ Goto(t, "bind")
              /\ UNCHANGED <<odd, tries, kind, due>>
         ELSE Return(t) /\ UNCHANGED reservations
    /\ UNCHANGED <<used, nextPort, owners>>

----------------------------------------------------------------------------
(* The owners of a port: handle_allocate, rehydrate and remove.            *)

\* create_for_identity succeeded: the guard is committed, the token echoed
CreateOk(t) ==
    /\ pc[t] = "create"
    /\ live' = live \cup {port[t]}
    /\ echoed' = echoed \cup ({token[t]} \ {NoToken})
    /\ Return(t)
    /\ UNCHANGED <<pool, issued>>

\* a quota, a lost race or a disabled lifetime: cancel_reservation first, the
\* PortReservationGuard is dropped on return
CreateFails(t) ==
    /\ pc[t] = "create" /\ MayFail
    /\ Goto(t, IF token[t] = NoToken THEN "drop" ELSE "cancel")
    /\ UNCHANGED <<pool, owners, locals>>

\* PortReservationGuard::drop and AllocationStore::remove: release(port)
Release(t) ==
    /\ pc[t] = "drop"
    /\ Free("used")
    /\ used' = used \ {port[t]}
    /\ Return(t)
    /\ UNCHANGED <<nextPort, reservations, owners>>

\* an allocation left the store's map; its remover releases the port
RemoveAllocation(t) ==
    /\ pc[t] = "idle"
    /\ \E p \in live :
         /\ live' = live \ {p}
         /\ port' = [port EXCEPT ![t] = p]
    /\ Goto(t, "drop")
    /\ UNCHANGED <<pool, issued, echoed, odd, token, tries, kind, due>>

\* reserve(port) for a record loaded from the store's backend
Reserve(t) ==
    /\ pc[t] = "idle"
    /\ Free("used")
    /\ \E p \in Ports \ used :
         /\ used' = used \cup {p}
         /\ port' = [port EXCEPT ![t] = p]
    /\ Goto(t, "create")
    /\ UNCHANGED <<nextPort, reservations, owners, odd, token, tries, kind, due>>

Tick ==
    /\ \E tok \in DOMAIN reservations : reservations[tok].ttl > 0
    /\ reservations' =
         [tok \in DOMAIN reservations |->
            [reservations[tok] EXCEPT !.ttl = IF @ > 0 THEN @ - 1 ELSE 0]]
    /\ UNCHANGED <<used, nextPort, owners, pc, locals>>

\* What a thread does once it is inside an operation.
Continue(t) ==
    \/ pc[t] = "nextTry" /\ tries[t] < MaxTries
         /\ (StartAllocate(t) \/ AllocateEven(t) \/ PairLockUsed(t))
    \/ AllocateScan(t) \/ PairReserve(t)
    \/ BindOk(t) \/ BindFails(t) \/ BindFailedRelease(t) \/ GiveUp(t)
    \/ UndoPair(t) \/ CancelReservation(t) \/ CancelOdd(t)
    \/ SweepLockUsed(t) \/ SweepExpired(t) \/ ClaimTake(t)
    \/ CreateOk(t) \/ CreateFails(t) \/ Release(t)

\* What an idle request thread may begin.
Begin(t) ==
    /\ pc[t] = "idle" /\ t # Sweeper
    /\ \/ StartAllocate(t) \/ AllocateEven(t) \/ PairLockUsed(t)
       \/ StartClaim(t) \/ RemoveAllocation(t) \/ Reserve(t)

Next ==
    \/ Tick
    \/ StartSweep(Sweeper)
    \/ \E t \in Threads : Begin(t) \/ Continue(t)

Spec == Init /\ [][Next]_vars

\* Time passes, the maintenance task runs every five seconds, and a thread
\* inside an operation finishes it: parking_lot mutexes are eventually fair, so
\* a thread that finds a lock free again and again gets it.
Fairness ==
    /\ WF_vars(Tick)
    /\ WF_vars(StartSweep(Sweeper))
    /\ \A t \in Threads : SF_vars(Continue(t))

FairSpec == Spec /\ Fairness

----------------------------------------------------------------------------
Reserved == {reservations[tok].port : tok \in DOMAIN reservations}
InHand(t) == {port[t], odd[t]} \ {NoPort}

\* Every variable has its type: next_port and each port handed out are in the range
\* of the pool (PortAllocator::new), and a reservation is a port and its lifetime.
TypeOK ==
    /\ used \subseteq Ports
    /\ nextPort \in Ports
    /\ DOMAIN reservations \subseteq Tokens
    /\ reservations \in [DOMAIN reservations ->
                           [port : Ports, ttl : 0 .. ReservationLifetime]]
    /\ live \subseteq Ports
    /\ issued \subseteq Tokens
    /\ echoed \subseteq Tokens
    /\ pc \in [Threads -> Steps]
    /\ port \in [Threads -> Ports \cup {NoPort}]
    /\ odd \in [Threads -> Ports \cup {NoPort}]
    /\ token \in [Threads -> Tokens \cup {NoToken}]
    /\ tries \in [Threads -> 0 .. MaxTries]
    /\ kind \in [Threads -> Kinds]
    /\ due \in [Threads -> SUBSET Tokens]

\* A port has one holder: a live allocation, an unclaimed reservation or one
\* thread between taking it and committing or releasing it.  Two Allocates never
\* hand out one port, whatever sweeps, claims, cancellations and bind failures
\* run in between (PortAllocator::allocate, claim_reservation and the if-lets
\* that remove a token before they release its port).
PortHeldOnce ==
    /\ \A t, u \in Threads : t # u => InHand(t) \cap InHand(u) = {}
    /\ \A t \in Threads :
         /\ InHand(t) \cap (live \cup Reserved) = {}
         /\ port[t] = odd[t] => port[t] = NoPort
    /\ live \cap Reserved = {}
    /\ \A a, b \in DOMAIN reservations :
         reservations[a].port = reservations[b].port => a = b

\* Every port marked used is accounted for: nothing the threads do in any order
\* leaves a port used with no one left to release it, and no holder's port is
\* free for another to take.
NoPortLeak ==
    used = live \cup Reserved \cup UNION {InHand(t) : t \in Threads}

\* The mutex order documented on PortAllocator, "always `used` then
\* `reservations`": no two threads hold the two locks in opposite orders, each
\* waiting for the other's.
LockOrder ==
    ~ \E t, u \in Threads : Holds(t, "used") /\ Holds(u, "reservations")

\* An EVEN-PORT reservation nobody claims is given back by the maintenance
\* sweep (sweep_expired_reservations), unless the pool is deadlocked: no token is
\* held for ever.
ReservationsExpire ==
    \A tok \in Tokens :
        tok \in DOMAIN reservations ~> tok \notin DOMAIN reservations \/ ~LockOrder

\* An operation that was begun returns: the inversion of LockOrder is the only way
\* in which a thread waits for a lock for ever, and no retry loop runs for ever.
OperationsReturn ==
    \A t \in Threads : pc[t] # "idle" ~> pc[t] = "idle" \/ ~LockOrder
============================================================================
