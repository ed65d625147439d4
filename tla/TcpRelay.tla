------------------------------- MODULE TcpRelay -------------------------------
(***************************************************************************)
(* TCP allocations (RFC 6062): the connection manager of                   *)
(* crates/relay/src/tcp_relay.rs, the bridges that drive it                *)
(* (crates/relay/src/tls_bridge.rs, one event loop each for TLS and plain  *)
(* TCP) and the parking lot of crates/relay/src/stream_retry.rs.           *)
(*                                                                         *)
(* conns and alloc_peers are two maps with a lock each.  Handlers, hand-   *)
(* offs and relays take one lock at a time and await between them, so      *)
(* every step here is one critical section; the idle timer alone removes   *)
(* from the second map while it holds the first.  The two reads before a   *)
(* dial or an insert (limit, then duplicate) are one step: both may be out *)
(* of date by the time of the insert anyway.  Bridges, listeners, idle     *)
(* timers, hand-offs and relays are tasks of their own.  An allocation is  *)
(* named by its port.                                                      *)
(* A peer without permission is closed at once and changes nothing, so     *)
(* only permitted peers occur.                                             *)
(***************************************************************************)
EXTENDS Integers, FiniteSets

CONSTANTS
    Clients,    \* addresses of control connections
    Bridge,     \* the bridge a client's connection arrives at
    Keys,       \* long-term keys of the users
    Key,        \* the key a client authenticates with
    Peers,
    Ports,      \* the relay port pool
    MaxTotal,   \* TcpRelayConfig.max_total
    Cut,        \* may abort() end a listener while it registers a peer?
    MaxIds,     \* bound: connection ids given out
    MaxOpens,   \* bound: times each client connects
    None

Bridges == {Bridge[c] : c \in Clients}
Ids == 1 .. MaxIds

ASSUME TcpRelayAssumption ==
    /\ IsFiniteSet(Clients) /\ IsFiniteSet(Peers) /\ IsFiniteSet(Ports)
    /\ MaxTotal \in Nat \ {0} /\ MaxIds \in Nat /\ MaxOpens \in [Clients -> Nat]
    /\ Cut \in BOOLEAN /\ \A c \in Clients : Key[c] \in Keys
    /\ None \notin Ports \cup Clients

VARIABLES
    live,     \* per client: the number of its control connection in the bridge's
              \* set of live ones, or 0
    sinks,    \* client_sinks: clients with a writer to a connection of theirs
    opens,    \* per client: connections so far
    waiting,  \* parked requests: [client, conn, ready]; ready once re-injected
    alloc,    \* per client: the port of its TCP allocation, or None
    lstn,     \* per port: its listener task [client, aborted, job], or None
    job,      \* per bridge: the handler that awaits, or None
    conns,    \* connection id -> [st, port, peer, owner], or None
    index,    \* alloc_peers: <<port, peer>> -> connection id, or None
    nextId,   \* counter
    timers,   \* connections whose idle timer runs
    handoff,  \* detach requests and detached streams on their way:
              \* [bridge, id, key, client]; client is None for a fresh connection
    attach,   \* per bridge: the connection attach_bound holds in its hands, or None
    relays    \* relay tasks: [id, port, peer, owner, key, client, ended]

front == <<live, sinks, opens, waiting>>
manager == <<conns, index, nextId, timers>>
splice == <<handoff, attach, relays>>
vars == <<live, sinks, opens, waiting, alloc, lstn, job, conns, index, nextId, timers,
          handoff, attach, relays>>

Sockets == {id \in Ids : conns[id] # None}
Pending(id) == conns[id] # None /\ conns[id].st \in {"waiting", "claimed"}
Claimed(id) == conns[id] # None /\ conns[id].st = "claimed"

Init ==
    /\ live = [c \in Clients |-> 0] /\ sinks = {} /\ opens = [c \in Clients |-> 0]
    /\ waiting = {}
    /\ alloc = [c \in Clients |-> None]
    /\ lstn = [p \in Ports |-> None]
    /\ job = [b \in Bridges |-> None]
    /\ conns = [id \in Ids |-> None]
    /\ index = [a \in Ports \X Peers |-> None]
    /\ nextId = 1 /\ timers = {}
    /\ handoff = {} /\ attach = [b \in Bridges |-> None] /\ relays = {}

----------------------------------------------------------------------------
(* Registering a peer connection: handle_connect and register_incoming *)

Job(step, port, peer, owner) ==
    [step |-> step, port |-> port, peer |-> peer, owner |-> owner, id |-> None, ids |-> {}]

Listener(p, step) == lstn[p] # None /\ lstn[p].job # None /\ lstn[p].job.step = step

\* The tasks between check and insert.
Underway ==
    Cardinality({b \in Bridges : job[b] # None /\ job[b].step \in {"dial", "insert"}})
    + Cardinality({p \in Ports : Listener(p, "insert")})
IdLeft == nextId + Underway <= MaxIds   \* bound

\* The limit, then the duplicate check.
MayRegister(port, peer) ==
    Cardinality(Sockets) < MaxTotal /\ index[<<port, peer>>] = None

\* The first insert: the connection waits for its ConnectionBind.
Inserted(j) ==
    /\ j.step = "insert"
    /\ conns' = [conns EXCEPT ![nextId] =
          [st |-> "waiting", port |-> j.port, peer |-> j.peer, owner |-> j.owner]]
    /\ nextId' = nextId + 1
    /\ UNCHANGED <<index, timers>>

\* The counter is read a second time.
IndexedNext(j) ==
    /\ j.step = "index"
    /\ index' = [index EXCEPT ![<<j.port, j.peer>>] = nextId]
    /\ timers' = timers \cup {j.id}
    /\ UNCHANGED <<conns, nextId>>

\* The second one, and the idle timer is started.
Indexed(j) ==
    /\ j.step = "index"
    /\ index' = [index EXCEPT ![<<j.port, j.peer>>] = j.id]
    /\ timers' = timers \cup {j.id}
    /\ UNCHANGED <<conns, nextId>>

\* cleanup_allocation: the ids under one lock, the removal under the next.
IdsOf(port) == {id \in Sockets : conns[id].port = port}
Cleaned(ids) == conns' = [id \in Ids |-> IF id \in ids THEN None ELSE conns[id]]

----------------------------------------------------------------------------
(* A bridge's event loop: control connections and allocations *)

Idle(c) == job[Bridge[c]] = None

\* The connection of client c lives on as a data connection: it waits for its
\* detach, or is detached and spliced to a peer.
Detached(c) ==
    \/ \E h \in handoff : h.client = c
    \/ \E b \in Bridges : attach[b] # None /\ attach[b].client = c
    \/ \E r \in relays : r.client = c /\ ~r.ended

\* An address connects again when its last connection is gone.
Open(c) ==
    /\ Idle(c) /\ live[c] = 0 /\ ~Detached(c) /\ opens[c] < MaxOpens[c]
    /\ opens' = [opens EXCEPT ![c] = @ + 1]
    /\ live' = [live EXCEPT ![c] = opens[c] + 1]
    /\ sinks' = sinks \cup {c}
    /\ UNCHANGED <<waiting, alloc, lstn, job, manager, splice>>

\* CloseRelay: the accept loop of the port is aborted; it ends where it awaits.
Aborted(port) ==
    CASE lstn[port] = None -> lstn
      [] lstn[port] # None /\ lstn[port].job = None -> [lstn EXCEPT ![port] = None]
      [] OTHER -> [lstn EXCEPT ![port].aborted = TRUE]

\* ConnectionClosed: parked requests are forgotten, the allocation is released
\* with its listener, and its connections are cleaned up.  A connection that waits
\* for its detach reports its close, a detached one does not.
Close(c) ==
    /\ Idle(c)
    /\ live[c] # 0 \/ \E h \in handoff : h.client = c
    /\ live' = [live EXCEPT ![c] = 0] /\ sinks' = sinks \ {c}
    /\ handoff' = {h \in handoff : h.client # c}
    /\ waiting' = {w \in waiting : w.client # c \/ w.ready}
    /\ alloc' = [alloc EXCEPT ![c] = None]
    /\ IF alloc[c] = None
       THEN UNCHANGED <<lstn, job>>
       ELSE /\ lstn' = Aborted(alloc[c])
            /\ job' = [job EXCEPT ![Bridge[c]] =
                  [Job("clean", alloc[c], None, None) EXCEPT !.ids = IdsOf(alloc[c])]]
    /\ UNCHANGED <<opens, manager, attach, relays>>

\* handle_allocate_tcp: a port of the pool and its listener, which must bind.  The
\* bridge may fail to adopt the listener.
Allocated(c) ==
    /\ alloc[c] = None
    /\ \E p \in Ports :
          /\ lstn[p] = None /\ \A d \in Clients : alloc[d] # p
          /\ alloc' = [alloc EXCEPT ![c] = p]
          /\ \/ lstn' = [lstn EXCEPT ![p] = [client |-> c, aborted |-> FALSE, job |-> None]]
             \/ UNCHANGED lstn

Allocate(c) ==
    /\ Idle(c) /\ live[c] # 0
    /\ Allocated(c)
    /\ UNCHANGED <<front, job, manager, splice>>

\* The request waits for a credential lookup.
Park(c) ==
    /\ Idle(c) /\ live[c] # 0 /\ alloc[c] = None
    /\ \A w \in waiting : w.client # c
    /\ waiting' = waiting \cup {[client |-> c, conn |-> live[c], ready |-> FALSE]}
    /\ UNCHANGED <<live, sinks, opens, alloc, lstn, job, manager, splice>>

\* The lookup is over: the request is put into the bridge's queue again.
Reinject(w) ==
    /\ ~w.ready
    /\ waiting' = (waiting \ {w}) \cup {[w EXCEPT !.ready = TRUE]}
    /\ UNCHANGED <<live, sinks, opens, alloc, lstn, job, manager, splice>>

\* Every packet of the queue is processed.
FromLiveAny(w) == TRUE

\* A packet of a connection that was closed is dropped.
FromLive(w) == live[w.client] = w.conn

Retry(w) ==
    /\ w.ready /\ Idle(w.client)
    /\ waiting' = waiting \ {w}
    /\ \/ FromLive(w) /\ Allocated(w.client)
       \/ UNCHANGED <<alloc, lstn>>   \* dropped, refused or timed out
    /\ UNCHANGED <<live, sinks, opens, job, manager, splice>>

\* Refresh with lifetime 0: the listener goes, the connections are not cleaned up.
Refresh0(c) ==
    /\ Idle(c) /\ live[c] # 0 /\ alloc[c] # None
    /\ alloc' = [alloc EXCEPT ![c] = None]
    /\ lstn' = Aborted(alloc[c])
    /\ UNCHANGED <<front, job, manager, splice>>

\* The expiry sweep of the server.
Expire(c) ==
    /\ alloc[c] # None
    /\ alloc' = [alloc EXCEPT ![c] = None]
    /\ UNCHANGED <<front, lstn, job, manager, splice>>

----------------------------------------------------------------------------
(* CONNECT and ConnectionBind *)

\* connect_decision and the checks of handle_connect.  The loop awaits the dial.
Connect(c) ==
    /\ Idle(c) /\ live[c] # 0 /\ alloc[c] # None /\ IdLeft
    /\ \E peer \in Peers :
          /\ MayRegister(alloc[c], peer)
          /\ job' = [job EXCEPT ![Bridge[c]] = Job("dial", alloc[c], peer, Key[c])]
    /\ UNCHANGED <<front, alloc, lstn, manager, splice>>

\* The dial succeeds, or fails or times out (447).
Dialled(b) ==
    /\ job[b] # None /\ job[b].step = "dial"
    /\ \/ job' = [job EXCEPT ![b].step = "insert"]
       \/ job' = [job EXCEPT ![b] = None]
    /\ UNCHANGED <<front, alloc, lstn, manager, splice>>

BridgeInsert(b) ==
    /\ job[b] # None /\ Inserted(job[b])
    /\ job' = [job EXCEPT ![b].step = "index", ![b].id = nextId]
    /\ UNCHANGED <<front, alloc, lstn, splice>>

BridgeIndex(b) ==
    /\ job[b] # None /\ Indexed(job[b])
    /\ job' = [job EXCEPT ![b] = None]
    /\ UNCHANGED <<front, alloc, lstn, splice>>

BridgeClean(b) ==
    /\ job[b] # None /\ job[b].step = "clean"
    /\ Cleaned(job[b].ids)
    /\ job' = [job EXCEPT ![b] = None]
    /\ UNCHANGED <<front, alloc, lstn, index, nextId, timers, splice>>

\* A connection that is claimed already may be claimed again.
ClaimsAgain(id, key) ==
    /\ conns[id] # None
    /\ \/ conns[id].st = "waiting" /\ conns[id].owner = key
       \/ conns[id].st = "claimed"

\* claim: once, and by the key that opened the connection.
Claims(id, key) ==
    /\ conns[id] # None
    /\ conns[id].st = "waiting" /\ conns[id].owner = key

\* ConnectionBind on a connection to bridge b, naming any id: the connection of the
\* peer is claimed and the detach requested.  The connection is a fresh one (None)
\* or a client's control connection, which is none any more; its allocation and its
\* sink are left as they are.
Bind(b, client, key, id) ==
    /\ job[b] = None
    /\ client # None => live[client] # 0 /\ Bridge[client] = b
    /\ Claims(id, key)
    /\ conns' = [conns EXCEPT ![id].st = "claimed"]
    /\ handoff' = handoff \cup {[bridge |-> b, id |-> id, key |-> key, client |-> client]}
    /\ live' = [c \in Clients |-> IF c = client THEN 0 ELSE live[c]]
    /\ waiting' = {w \in waiting : w.client # client \/ w.ready}
    /\ UNCHANGED <<sinks, opens, alloc, lstn, job, index, nextId, timers, attach, relays>>

\* A fresh data connection closed before it was detached.
DetachLost(h) ==
    /\ h.client = None
    /\ handoff' = handoff \ {h}
    /\ UNCHANGED <<front, alloc, lstn, job, manager, attach, relays>>

\* attach_bound: the claimed connection is taken out; one that is gone closes the
\* client's stream.
Attach(h) ==
    /\ attach[h.bridge] = None
    /\ handoff' = handoff \ {h}
    /\ \/ /\ Claimed(h.id)
          /\ attach' = [attach EXCEPT ![h.bridge] = [id |-> h.id, key |-> h.key, client |-> h.client,
                port |-> conns[h.id].port, peer |-> conns[h.id].peer,
                owner |-> conns[h.id].owner]]
          /\ conns' = [conns EXCEPT ![h.id] = None]
       \/ /\ ~Claimed(h.id)
          /\ UNCHANGED <<attach, conns>>
    /\ UNCHANGED <<front, alloc, lstn, job, index, nextId, timers, relays>>

\* It is put back as bound, and its relay starts.
Bound(b) ==
    /\ attach[b] # None
    /\ LET a == attach[b] IN
       /\ conns' = [conns EXCEPT ![a.id] =
             [st |-> "bound", port |-> a.port, peer |-> a.peer, owner |-> a.owner]]
       /\ relays' = relays \cup {[id |-> a.id, port |-> a.port, peer |-> a.peer,
                                  owner |-> a.owner, key |-> a.key, client |-> a.client,
                                  ended |-> FALSE]}
    /\ attach' = [attach EXCEPT ![b] = None]
    /\ UNCHANGED <<front, alloc, lstn, job, index, nextId, timers, handoff>>

\* bidirectional_relay is over, then its two entries are removed.
RelayEnds(r) ==
    /\ \/ /\ ~r.ended
          /\ conns' = [conns EXCEPT ![r.id] = None]
          /\ relays' = (relays \ {r}) \cup {[r EXCEPT !.ended = TRUE]}
          /\ UNCHANGED index
       \/ /\ r.ended
          /\ index' = [index EXCEPT ![<<r.port, r.peer>>] = None]
          /\ relays' = relays \ {r}
          /\ UNCHANGED conns
    /\ UNCHANGED <<front, alloc, lstn, job, nextId, timers, handoff, attach>>

\* Only a connection that was never claimed is reaped.
ReapableWaiting(id) == conns[id] # None /\ conns[id].st = "waiting"

\* The idle timer reaps what was not bound.
Reapable(id) == Pending(id)

IdleTimeout(id) ==
    /\ id \in timers
    /\ timers' = timers \ {id}
    /\ IF Reapable(id)
       THEN /\ conns' = [conns EXCEPT ![id] = None]
            /\ index' = [index EXCEPT ![<<conns[id].port, conns[id].peer>>] = None]
       ELSE UNCHANGED <<conns, index>>
    /\ UNCHANGED <<front, alloc, lstn, job, nextId, splice>>

----------------------------------------------------------------------------
(* The relayed listener of a port *)

Accepting(p) == lstn[p] # None /\ lstn[p].job = None

\* The listener lives as long as the client's control connection.
ListenerLiveConnected(p) == live[lstn[p].client] # 0

\* tcp_listener_live, and the same test of peer_connection_permitted.
ListenerLive(p) == alloc[lstn[p].client] = p

\* Back to the accept; an abort ends the task there.
AcceptAgain(p) ==
    lstn' = [lstn EXCEPT ![p] = IF @.aborted THEN None ELSE [@ EXCEPT !.job = None]]

\* A peer connects: handle_peer_initiated and the checks of register_incoming.
PeerConnects(p) ==
    /\ Accepting(p) /\ ListenerLive(p) /\ IdLeft
    /\ \E peer \in Peers :
          /\ MayRegister(p, peer)
          /\ lstn' = [lstn EXCEPT ![p].job = Job("insert", p, peer, Key[lstn[p].client])]
    /\ UNCHANGED <<front, alloc, job, manager, splice>>

ListenerInsert(p) ==
    /\ Listener(p, "insert") /\ Inserted(lstn[p].job)
    /\ lstn' = [lstn EXCEPT ![p].job.step = "index", ![p].job.id = nextId]
    /\ UNCHANGED <<front, alloc, job, splice>>

ListenerIndex(p) ==
    /\ Listener(p, "index") /\ Indexed(lstn[p].job)
    /\ lstn' = [lstn EXCEPT ![p].job.step = "tell"]
    /\ UNCHANGED <<front, alloc, job, splice>>

\* The ConnectionAttempt goes to the client's sink.  If the client has none or its
\* queue is full, release takes the connection out again; a bound one is put back.
Tell(p) ==
    /\ Listener(p, "tell")
    /\ LET id == lstn[p].job.id IN
       \/ lstn[p].client \in sinks /\ AcceptAgain(p) /\ UNCHANGED conns
       \/ /\ conns' = [conns EXCEPT ![id] = None]
          /\ CASE conns[id] = None -> AcceptAgain(p)
               [] Pending(id) -> lstn' = [lstn EXCEPT ![p].job.step = "unindex"]
               [] OTHER -> lstn' = [lstn EXCEPT ![p].job.step = "restore"]
    /\ UNCHANGED <<front, alloc, job, index, nextId, timers, splice>>

Unindex(p) ==
    /\ Listener(p, "unindex")
    /\ index' = [index EXCEPT ![<<p, lstn[p].job.peer>>] = None]
    /\ AcceptAgain(p)
    /\ UNCHANGED <<front, alloc, job, conns, nextId, timers, splice>>

Restore(p) ==
    /\ Listener(p, "restore")
    /\ LET j == lstn[p].job IN
       conns' = [conns EXCEPT ![j.id] =
          [st |-> "bound", port |-> j.port, peer |-> j.peer, owner |-> j.owner]]
    /\ AcceptAgain(p)
    /\ UNCHANGED <<front, alloc, job, index, nextId, timers, splice>>

\* The periodic check: a listener whose allocation is gone cleans up and ends.
ListenerTick(p) ==
    /\ Accepting(p) /\ ~ListenerLive(p)
    /\ lstn' = [lstn EXCEPT ![p].job =
          [Job("clean", p, None, None) EXCEPT !.ids = IdsOf(p)]]
    /\ UNCHANGED <<front, alloc, job, manager, splice>>

ListenerClean(p) ==
    /\ Listener(p, "clean")
    /\ Cleaned(lstn[p].job.ids)
    /\ lstn' = [lstn EXCEPT ![p] = None]
    /\ UNCHANGED <<front, alloc, job, index, nextId, timers, splice>>

\* accept() fails, or an abort takes effect at a lock that is taken.
ListenerFails(p) ==
    /\ Accepting(p) \/ (Cut /\ lstn[p] # None /\ lstn[p].aborted)
    /\ lstn' = [lstn EXCEPT ![p] = None]
    /\ UNCHANGED <<front, alloc, job, manager, splice>>

----------------------------------------------------------------------------
BridgeStep(b) == Dialled(b) \/ BridgeInsert(b) \/ BridgeIndex(b) \/ BridgeClean(b)

ListenerStep(p) ==
    \/ ListenerInsert(p) \/ ListenerIndex(p) \/ Tell(p) \/ Unindex(p) \/ Restore(p)
    \/ ListenerTick(p) \/ ListenerClean(p)

Next ==
    \/ \E c \in Clients : \/ Open(c) \/ Close(c) \/ Allocate(c) \/ Park(c)
                          \/ Refresh0(c) \/ Expire(c) \/ Connect(c)
    \/ \E w \in waiting : Reinject(w) \/ Retry(w)
    \/ \E b \in Bridges : \/ BridgeStep(b) \/ Bound(b)
                          \/ \E c \in Clients \cup {None}, k \in Keys, id \in Ids : Bind(b, c, k, id)
    \/ \E h \in handoff : DetachLost(h) \/ Attach(h)
    \/ \E r \in relays : RelayEnds(r)
    \/ \E id \in Ids : IdleTimeout(id)
    \/ \E p \in Ports : PeerConnects(p) \/ ListenerStep(p) \/ ListenerFails(p)

Spec == Init /\ [][Next]_vars

\* Tasks are scheduled, timers and the periodic check fire, a dial ends within
\* connect_timeout.  Clients, peers and relays promise nothing.
Fairness ==
    /\ \A b \in Bridges : WF_vars(BridgeStep(b)) /\ WF_vars(Bound(b))
    /\ \A p \in Ports : WF_vars(ListenerStep(p))
    /\ \A id \in Ids : WF_vars(IdleTimeout(id))

FairSpec == Spec /\ Fairness

----------------------------------------------------------------------------
(* Properties *)

TypeOK ==
    /\ \A c \in Clients : live[c] \in {0, opens[c]} /\ opens[c] \in 0 .. MaxOpens[c]
    /\ \A c \in Clients : alloc[c] \in Ports \cup {None}
    /\ sinks \subseteq Clients
    /\ nextId \in 1 .. MaxIds + 1
    /\ \A id \in Sockets : id < nextId /\ conns[id].st \in {"waiting", "claimed", "bound"}
    /\ timers \subseteq 1 .. nextId - 1
    /\ \A a \in Ports \X Peers : index[a] \in (1 .. nextId - 1) \cup {None}
    /\ \A h \in handoff : h.id < nextId

\* A peer's stream is relayed only to a data connection that authenticated with the
\* key of the allocation it was opened for, whatever ids others name (claim, then
\* attach_bound, tcp_relay.rs).
OwnerOnly == \A r \in relays : r.key = r.owner

\* A TCP allocation never outlives the close of its client's connection: a request
\* that is processed again after its lookup creates none for a connection that has
\* closed (the live set of the bridge, ParkingLot::forget), and every close that is
\* reported releases the one there is.  A client without a sink is one whose last
\* connection closed; one that was detached keeps its sink, and its allocation.
ReleasedOnClose == \A c \in Clients : alloc[c] # None => c \in sinks

\* Every peer connection that waits for its client is bound or closed in the end: no
\* stream is stranded by a lost detach or a client that is gone (spawn_idle_timeout).
PendingEnds == \A id \in Ids : Pending(id) ~> ~Pending(id)

\* A listener ends when its allocation is gone or was replaced by one on another
\* port (run_relayed_listener).
ListenersEnd ==
    \A p \in Ports : lstn[p] # None /\ alloc[lstn[p].client] # p ~> lstn[p] = None

\* A stream that is being relayed is known to the manager.
RelayIsKnown == \A r \in relays : ~r.ended => conns[r.id] # None

\* A connection that is gone blocks its peer for a while only.
PeerFreed ==
    \A a \in Ports \X Peers : [](index[a] # None => <>(index[a] = None \/ index[a] \in Sockets))
===============================================================================
