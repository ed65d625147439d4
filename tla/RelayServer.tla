---------------------------- MODULE RelayServer ----------------------------
(***************************************************************************)
(* The tokio relay server (crates/relay/src/server.rs): recv workers that  *)
(* run the packet processor, the egress task that owns the relay sockets   *)
(* and their peer-to-client pumps, the cleanup task that expires           *)
(* allocations and closes orphaned sockets, and the supervision of all of  *)
(* them down to the drain.                                                 *)
(*                                                                         *)
(* An allocation is identified with the relay socket that was bound for    *)
(* it: both are created by handle_allocate, and a number that is never     *)
(* used twice names them.  relay_sockets and relay_tasks are two maps      *)
(* keyed by port only, which the egress and the cleanup task change one    *)
(* after the other: every access to one of them is a step of its own.      *)
(***************************************************************************)
EXTENDS Naturals, Sequences, FiniteSets

CONSTANTS
    Workers,       \* the recv workers (SO_REUSEPORT sockets, bridges)
    Tasks,         \* the other tasks run() waits on: "egress", "cleanup", bridges
    Clients,       \* client addresses
    Home,          \* the worker the kernel hashes a client to
    Ports,         \* relay ports
    TenantPorts,   \* the ports of tenant pools; the others are the base pool's
    Pool,          \* the ports of the pool a client's realm selects
    QueueCap,      \* capacity of the egress channel (8192)
    StallPolls,    \* STALL_POLLS of the drain
    EarlyEnd,      \* may an allocation end before its socket is registered
    MaxBinds,      \* bound: allocations made in a behaviour
    MaxDeaths,     \* bound: workers and tasks that die
    MaxFaults      \* bound: sockets that fail

ASSUME ServerAssumption ==
    /\ "egress" \in Tasks /\ "cleanup" \in Tasks
    /\ IsFiniteSet(Clients) /\ Home \in [Clients -> Workers]
    /\ TenantPorts \subseteq Ports
    /\ Pool \in [Clients -> SUBSET Ports]
    /\ QueueCap \in Nat \ {0} /\ StallPolls \in Nat \ {0}
    /\ EarlyEnd \in BOOLEAN
    /\ MaxBinds \in Nat /\ MaxDeaths \in Nat /\ MaxFaults \in Nat

VARIABLES
    alloc,     \* the store: the allocation of each client, 0 for none
    portOf,    \* the relay ports of the allocations made so far
    tcp,       \* those that are RFC 6062 allocations
    out,       \* actions a worker's process() returned and it has not sent yet
    queue,     \* the egress channel
    egress,    \* where the egress task is, in the message it handles
    sockets,   \* relay_sockets
    tasks,     \* relay_tasks: the pump whose abort handle is kept
    pumps,     \* pumps that have not ended; each holds its socket open
    aborted,   \* pumps whose abort was asked for
    reaper,    \* where the cleanup task is, and the orphans it still has to close
    server,    \* phase of run(), and the drain's stall detection
    dead,      \* workers and tasks that have exited
    failed,    \* sockets lost to an I/O error
    raced      \* sockets bound while a close in flight still named their port

vars == <<alloc, portOf, tcp, out, queue, egress, sockets, tasks, pumps, aborted,
          reaper, server, dead, failed, raced>>

Ids == 1 .. MaxBinds
Kinds == {"register", "close", "relay"}

\* OutMsg: RegisterRelay carries a socket, CloseRelay and Relay a port alone.
Msg(kind, p, s) == [kind |-> kind, port |-> p, sock |-> s]
Msgs == [kind : Kinds, port : Ports, sock : 0 .. MaxBinds]

Live == {c \in Clients : alloc[c] # 0}
Used == {portOf[alloc[c]] : c \in Live}
Mine(s) == \E c \in Clients : alloc[c] = s

\* PortAllocator::is_allocated of store.ports, the base pool.
IsAllocated(p) == p \in Used \ TenantPorts

InFlight == {queue[i] : i \in DOMAIN queue}
            \cup UNION {{out[w][i] : i \in DOMAIN out[w]} : w \in Workers}

\* A socket is open while a message, a map or a pump has it.
Open == {m.sock : m \in {m \in InFlight : m.kind = "register"}}
        \cup {sockets[p] : p \in Ports} \cup pumps \cup {0}

\* UdpSocket::bind: no reuse options, so EADDRINUSE while an older one is open.
CanBind(p) == \A s \in Open \ {0} : portOf[s] # p

\* A close in flight, which names the port by its number alone.
Named(p) ==
    \/ \E m \in InFlight : m.kind = "close" /\ m.port = p
    \/ egress.pc # "recv" /\ egress.port = p
    \/ p \in reaper.todo
    \/ reaper.pc = "abort" /\ reaper.port = p

Registering(s) ==
    \/ \E m \in InFlight : m.kind = "register" /\ m.sock = s
    \/ egress.pc = "task" /\ egress.sock = s

Running == server.phase # "stopped"
Up(t) == Running /\ t \notin dead
Sleeping == [pc |-> "sleep", todo |-> {}, port |-> 0]
Receiving == [pc |-> "recv", port |-> 0, sock |-> 0]

Init ==
    /\ alloc = [c \in Clients |-> 0]
    /\ portOf = <<>> /\ tcp = {}
    /\ out = [w \in Workers |-> <<>>]
    /\ queue = <<>>
    /\ egress = Receiving
    /\ sockets = [p \in Ports |-> 0]
    /\ tasks = [p \in Ports |-> 0]
    /\ pumps = {} /\ aborted = {}
    /\ reaper = Sleeping
    /\ server = [phase |-> "serving", stalled |-> 0, last |-> 0]
    /\ dead = {} /\ failed = {} /\ raced = {}

-----------------------------------------------------------------------------
(* Recv workers *)

Process(c, kind, p, s) ==
    /\ Up(Home[c])
    /\ out[Home[c]] = <<>>
    /\ out' = [out EXCEPT ![Home[c]] = <<Msg(kind, p, s)>>]

\* Allocate: a free port of the pool whose socket can be bound, the allocation in
\* the store and a RegisterRelay.  A draining node refuses.
Allocate(c) ==
    /\ server.phase = "serving"
    /\ alloc[c] = 0
    /\ Len(portOf) < MaxBinds
    /\ \E p \in Pool[c] \ Used :
        LET s == Len(portOf) + 1 IN
        /\ CanBind(p)
        /\ portOf' = Append(portOf, p)
        /\ alloc' = [alloc EXCEPT ![c] = s]
        /\ raced' = IF Named(p) THEN raced \cup {s} ELSE raced
        /\ Process(c, "register", p, s)
    /\ UNCHANGED <<tcp, queue, egress, sockets, tasks, pumps, aborted, reaper, server, dead,
                   failed>>

\* Allocate with REQUESTED-TRANSPORT TCP: a port without a UDP socket.
AllocateTcp(c) ==
    /\ server.phase = "serving"
    /\ Up(Home[c]) /\ out[Home[c]] = <<>>
    /\ alloc[c] = 0
    /\ Len(portOf) < MaxBinds
    /\ \E p \in Pool[c] \ Used :
        LET s == Len(portOf) + 1 IN
        /\ portOf' = Append(portOf, p)
        /\ tcp' = tcp \cup {s}
        /\ alloc' = [alloc EXCEPT ![c] = s]
    /\ UNCHANGED <<out, queue, egress, sockets, tasks, pumps, aborted, reaper, server,
                   dead, failed, raced>>

\* Refresh with lifetime 0, or a control connection that closed: the allocation
\* ends, then a CloseRelay for its port.
Release(c) ==
    /\ alloc[c] # 0
    /\ alloc' = [alloc EXCEPT ![c] = 0]
    /\ Process(c, "close", portOf[alloc[c]], 0)
    /\ UNCHANGED <<portOf, tcp, queue, egress, sockets, tasks, pumps, aborted, reaper, server,
                   dead, failed, raced>>

\* ChannelData or a Send indication of a client with an allocation.
Media(c) ==
    /\ alloc[c] # 0
    /\ Process(c, "relay", portOf[alloc[c]], 0)
    /\ UNCHANGED <<alloc, portOf, tcp, queue, egress, sockets, tasks, pumps, aborted, reaper,
                   server, dead, failed, raced>>

\* A full channel drops every message.
WaitsNever(m) == FALSE

\* Control messages wait for the channel, media is dropped when it is full; with
\* the egress gone every send fails and the worker goes on.
Waits(m) == m.kind # "relay"

Post(w) ==
    /\ Up(w) /\ out[w] # <<>>
    /\ LET m == Head(out[w]) IN
        \/ /\ Up("egress")
           /\ Len(queue) < QueueCap
           /\ queue' = Append(queue, m)
        \/ /\ Up("egress")
           /\ Len(queue) = QueueCap
           /\ ~Waits(m)
           /\ UNCHANGED queue
        \/ /\ ~Up("egress")
           /\ UNCHANGED queue
    /\ out' = [out EXCEPT ![w] = Tail(@)]
    /\ UNCHANGED <<alloc, portOf, tcp, egress, sockets, tasks, pumps, aborted, reaper, server,
                   dead, failed, raced>>

-----------------------------------------------------------------------------
(* The egress task *)

Take(kind) ==
    /\ Up("egress")
    /\ egress.pc = "recv"
    /\ queue # <<>>
    /\ Head(queue).kind = kind
    /\ queue' = Tail(queue)

SendRelay ==
    /\ Take("relay")
    /\ UNCHANGED <<alloc, portOf, tcp, out, egress, sockets, tasks, pumps, aborted, reaper,
                   server, dead, failed, raced>>

\* CloseRelay, first map.
CloseRelay ==
    /\ Take("close")
    /\ sockets' = [sockets EXCEPT ![Head(queue).port] = 0]
    /\ egress' = [pc |-> "abort", port |-> Head(queue).port, sock |-> 0]
    /\ UNCHANGED <<alloc, portOf, tcp, out, tasks, pumps, aborted, reaper, server, dead, failed,
                   raced>>

\* RegisterRelay: the socket into the first map, its pump spawned.
RegisterRelay ==
    /\ Take("register")
    /\ LET m == Head(queue) IN
        /\ sockets' = [sockets EXCEPT ![m.port] = m.sock]
        /\ pumps' = pumps \cup {m.sock}
        /\ egress' = [pc |-> "task", port |-> m.port, sock |-> m.sock]
    /\ UNCHANGED <<alloc, portOf, tcp, out, tasks, aborted, reaper, server, dead, failed, raced>>

\* UdpSocket::from_std fails: the socket is dropped.
AdoptFails ==
    /\ Take("register")
    /\ Cardinality(failed) < MaxFaults
    /\ failed' = failed \cup {Head(queue).sock}
    /\ UNCHANGED <<alloc, portOf, tcp, out, egress, sockets, tasks, pumps, aborted, reaper, server,
                   dead, raced>>

\* The second map: the abort handle of the pump that was spawned.
KeepHandle ==
    /\ Up("egress")
    /\ egress.pc = "task"
    /\ tasks' = [tasks EXCEPT ![egress.port] = egress.sock]
    /\ egress' = Receiving
    /\ UNCHANGED <<alloc, portOf, tcp, out, queue, sockets, pumps, aborted, reaper, server, dead,
                   failed, raced>>

AbortTaskDetached(p) ==
    /\ tasks' = [tasks EXCEPT ![p] = 0]
    /\ UNCHANGED aborted

\* relay_tasks.remove and abort, by the egress or by the cleanup task.  A pump
\* that has ended already is not hurt.
AbortTask(p) ==
    /\ aborted' = aborted \cup ({tasks[p]} \cap pumps)
    /\ tasks' = [tasks EXCEPT ![p] = 0]

StopPump ==
    /\ Up("egress")
    /\ egress.pc = "abort"
    /\ AbortTask(egress.port)
    /\ egress' = Receiving
    /\ UNCHANGED <<alloc, portOf, tcp, out, queue, sockets, pumps, reaper, server, dead, failed,
                   raced>>

-----------------------------------------------------------------------------
(* Pumps *)

\* The runtime drops an aborted task, and its socket with it.
PumpDropped(s) ==
    /\ s \in aborted
    /\ pumps' = pumps \ {s}
    /\ aborted' = aborted \ {s}
    /\ UNCHANGED <<alloc, portOf, tcp, out, queue, egress, sockets, tasks, reaper, server, dead,
                   failed, raced>>

\* recv_from fails: the pump removes the entry of its port and ends.
PumpFails(s) ==
    /\ s \in pumps \ aborted
    /\ Cardinality(failed) < MaxFaults
    /\ sockets' = [sockets EXCEPT ![portOf[s]] = 0]
    /\ pumps' = pumps \ {s}
    /\ failed' = failed \cup {s}
    /\ UNCHANGED <<alloc, portOf, tcp, out, queue, egress, tasks, aborted, reaper, server, dead,
                   raced>>

-----------------------------------------------------------------------------
(* Ends of allocations without a CloseRelay, and the cleanup task *)

MayEnd(c) == c \in Live /\ (EarlyEnd \/ ~Registering(alloc[c]))
End(gone) == alloc' = [c \in Clients |-> IF c \in gone THEN 0 ELSE alloc[c]]

\* force_remove: DeleteAllocation and the node's delete command.
ForceRemove(c) ==
    /\ Running
    /\ MayEnd(c)
    /\ End({c})
    /\ UNCHANGED <<portOf, tcp, out, queue, egress, sockets, tasks, pumps, aborted, reaper, server,
                   dead, failed, raced>>

\* A tick of the cleanup task: the store's expired allocations, whichever they are.
Expire ==
    /\ Up("cleanup")
    /\ reaper.pc = "sleep"
    /\ \E gone \in SUBSET {c \in Clients : MayEnd(c)} : End(gone)
    /\ reaper' = [reaper EXCEPT !.pc = "list"]
    /\ UNCHANGED <<portOf, tcp, out, queue, egress, sockets, tasks, pumps, aborted, server, dead,
                   failed, raced>>

Orphans == {p \in Ports : sockets[p] # 0 /\ ~IsAllocated(p)}

\* The tick goes on with the orphans, collected before any of them is closed.
ListOrphans ==
    /\ Up("cleanup")
    /\ reaper.pc = "list"
    /\ reaper' = IF Orphans = {} THEN Sleeping
                 ELSE [pc |-> "close", todo |-> Orphans, port |-> 0]
    /\ UNCHANGED <<alloc, portOf, tcp, out, queue, egress, sockets, tasks, pumps, aborted, server,
                   dead, failed, raced>>

CloseOrphan(p) ==
    /\ Up("cleanup")
    /\ reaper.pc = "close"
    /\ p \in reaper.todo
    /\ sockets' = [sockets EXCEPT ![p] = 0]
    /\ reaper' = [pc |-> "abort", todo |-> reaper.todo \ {p}, port |-> p]
    /\ UNCHANGED <<alloc, portOf, tcp, out, queue, egress, tasks, pumps, aborted, server, dead,
                   failed, raced>>

StopOrphanLoops ==
    /\ Up("cleanup")
    /\ reaper.pc = "abort"
    /\ AbortTask(reaper.port)
    /\ reaper' = [reaper EXCEPT !.pc = "close", !.port = 0]
    /\ UNCHANGED <<alloc, portOf, tcp, out, queue, egress, sockets, pumps, server, dead,
                   failed, raced>>

StopOrphan ==
    /\ Up("cleanup")
    /\ reaper.pc = "abort"
    /\ AbortTask(reaper.port)
    /\ reaper' = IF reaper.todo = {} THEN Sleeping
                 ELSE [reaper EXCEPT !.pc = "close", !.port = 0]
    /\ UNCHANGED <<alloc, portOf, tcp, out, queue, egress, sockets, pumps, server, dead, failed,
                   raced>>

-----------------------------------------------------------------------------
(* Supervision and drain *)

\* A worker's recv fails, or a task panics.  A worker fails between two packets.
Dies(t) ==
    /\ Up(t)
    /\ Cardinality(dead) < MaxDeaths
    /\ t \in Workers => out[t] = <<>>
    /\ dead' = dead \cup {t}
    /\ UNCHANGED <<alloc, portOf, tcp, out, queue, egress, sockets, tasks, pumps, aborted, reaper,
                   server, failed, raced>>

\* What the five-second watchdog stops for: no worker left, or any other task gone.
Fatal == Workers \subseteq dead \/ Tasks \cap dead # {}

StartDrain ==
    server' = [phase |-> "draining", stalled |-> 0, last |-> Cardinality(Live)]

WatchdogWorkersOnly ==
    /\ server.phase = "serving"
    /\ Workers \subseteq dead
    /\ StartDrain
    /\ UNCHANGED <<alloc, portOf, tcp, out, queue, egress, sockets, tasks, pumps, aborted,
                   reaper, dead, failed, raced>>

Watchdog ==
    /\ server.phase = "serving"
    /\ Fatal
    /\ StartDrain
    /\ UNCHANGED <<alloc, portOf, tcp, out, queue, egress, sockets, tasks, pumps, aborted, reaper,
                   dead, failed, raced>>

Shutdown ==
    /\ server.phase = "serving"
    /\ StartDrain
    /\ UNCHANGED <<alloc, portOf, tcp, out, queue, egress, sockets, tasks, pumps, aborted, reaper,
                   dead, failed, raced>>

\* One poll of the drain: expired allocations go; a store that has not moved for
\* StallPolls polls ends it.
DrainPoll ==
    /\ server.phase = "draining"
    /\ Live # {}
    /\ \E gone \in SUBSET {c \in Clients : MayEnd(c)} :
        LET left == Cardinality(Live \ gone)
            still == gone = {} /\ left = server.last
        IN  /\ End(gone)
            /\ server' =
                IF ~still THEN [server EXCEPT !.stalled = 0, !.last = left]
                ELSE IF server.stalled + 1 >= StallPolls
                     THEN [phase |-> "stopped", stalled |-> 0, last |-> 0]
                ELSE [server EXCEPT !.stalled = @ + 1]
    /\ UNCHANGED <<portOf, tcp, out, queue, egress, sockets, tasks, pumps, aborted, reaper, dead,
                   failed, raced>>

\* The store is empty, or drain_timeout_secs have passed.
DrainDone ==
    /\ server.phase = "draining"
    /\ server' = [phase |-> "stopped", stalled |-> 0, last |-> 0]
    /\ UNCHANGED <<alloc, portOf, tcp, out, queue, egress, sockets, tasks, pumps, aborted, reaper,
                   dead, failed, raced>>

-----------------------------------------------------------------------------
Worker(w) ==
    \/ Post(w)
    \/ \E c \in Clients :
        Home[c] = w /\ (Allocate(c) \/ AllocateTcp(c) \/ Release(c) \/ Media(c))

Egress ==
    SendRelay \/ CloseRelay \/ RegisterRelay \/ AdoptFails \/ KeepHandle \/ StopPump

Cleanup ==
    Expire \/ ListOrphans \/ (\E p \in Ports : CloseOrphan(p)) \/ StopOrphan

Drain == DrainPoll \/ DrainDone

Next ==
    \/ \E w \in Workers : Worker(w)
    \/ Egress
    \/ Cleanup
    \/ \E s \in Ids : PumpDropped(s) \/ PumpFails(s)
    \/ \E c \in Clients : ForceRemove(c)
    \/ \E t \in Workers \cup Tasks : Dies(t)
    \/ Watchdog \/ Shutdown \/ Drain

Spec == Init /\ [][Next]_vars

\* Tokio polls every ready task and its timers fire: a worker sends what it has
\* (strongly, since the channel's waiters are served in order), the egress and the
\* cleanup task go on, an aborted pump is dropped, the watchdog looks and the drain
\* polls.  Clients and operators owe nothing.
FairSpec ==
    /\ Spec
    /\ \A w \in Workers : SF_vars(Post(w))
    /\ WF_vars(Egress) /\ WF_vars(Cleanup)
    /\ \A s \in Ids : WF_vars(PumpDropped(s))
    /\ WF_vars(Watchdog) /\ WF_vars(Drain)

-----------------------------------------------------------------------------
TypeOK ==
    /\ alloc \in [Clients -> 0 .. Len(portOf)]
    /\ portOf \in Seq(Ports) /\ Len(portOf) <= MaxBinds
    /\ \A w \in Workers : out[w] \in Seq(Msgs) /\ Len(out[w]) <= 1
    /\ queue \in Seq(Msgs) /\ Len(queue) <= QueueCap
    /\ egress.pc \in {"recv", "task", "abort"}
    /\ \A p \in Ports : \A f \in {sockets, tasks} :
        f[p] # 0 => f[p] \in DOMAIN portOf /\ portOf[f[p]] = p
    /\ aborted \subseteq pumps /\ pumps \subseteq DOMAIN portOf
    /\ reaper.pc \in {"sleep", "list", "close", "abort"}
    /\ reaper.pc = "close" => reaper.todo # {}
    /\ server.phase \in {"serving", "draining", "stopped"}
    /\ server.stalled < StallPolls
    /\ dead \subseteq Workers \cup Tasks

\* The socket of an allocation is on its way to the egress, or is registered with a
\* pump nobody has aborted and whose handle is kept.
Served(s) ==
    LET p == portOf[s] IN
    \/ Registering(s)
    \/ sockets[p] = s /\ s \in pumps \ aborted /\ tasks[p] = s

\* A live UDP allocation of the base pool is served: registration is never lost in
\* a full channel, and neither CloseRelay nor the cleanup task closes another
\* allocation's socket, unless a close that named the port was still in flight
\* when it was bound again.
BaseIsServed ==
    \A c \in Live :
        LET s == alloc[c] IN
        \/ s \in tcp \/ portOf[s] \in TenantPorts
        \/ s \in failed \cup raced
        \/ "egress" \in dead \/ ~Running
        \/ Served(s)

\* The sockets of allocations that have ended are closed, so that their ports can
\* be bound again: by the CloseRelay or by the cleanup task, with the same
\* exception; an RFC 6062 allocation on the port keeps the cleanup task off it.
Ended(s) == s \in Open /\ ~Mine(s)
TcpHolds(p) == \E c \in Live : alloc[c] \in tcp /\ portOf[alloc[c]] = p
OrphansClosed ==
    \A s \in Ids :
        Ended(s) ~> \/ s \notin Open \/ s \in raced
                    \/ s \in DOMAIN portOf /\ TcpHolds(portOf[s])
                    \/ ~Running

\* A node that has lost its datapath stops: when every worker or any other task is
\* gone, the watchdog starts the drain, and the drain ends, however long the
\* lifetimes of the allocations that are left.
DeadDatapathStops == Fatal ~> ~Running

\* close relay sockets whose port is no longer a live allocation: every live UDP
\* allocation keeps its socket, tenants' too.
LiveIsServed ==
    \A c \in Live :
        LET s == alloc[c] IN
        s \in tcp \cup failed \cup raced \/ "egress" \in dead \/ ~Running \/ Served(s)
=============================================================================
