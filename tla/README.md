# TLA+ models of turna

turna is a TURN server: clients allocate relay ports on a node and exchange UDP
with peers through them. A node keeps its allocations in concurrent maps, writes
them behind to a shared backend, takes over the rows of dead nodes and executes
commands of a control plane. These modules model the parts where several threads,
tasks or nodes meet. TLC checks them on small instances; TLAPS proves what section 5
lists for every instance.

Source paths are relative to the repository (`src/` in `PROJECT.json`).

## 1. The system

| Component | State it keeps | Operations | Correct when |
|---|---|---|---|
| Relay port pool (`crates/session/src/lib.rs`, `PortAllocator`) | `used`, `next_port`, `reservations`, three mutexes | `allocate`, `allocate_even`, `allocate_even_with_reservation`, `claim_reservation`, `cancel_reservation`, `sweep_expired_reservations`, `release`, `reserve`, and the bind loops around them | a port has one holder; none is lost; unclaimed reservations expire; no operation blocks for ever |
| Allocation store (`AllocationStore`, same file) | `allocations`, `relay_to_client`, `id_to_client`, `user_counts`, `tenant_counts`, `global_count`, `next_id`; permissions, channels, byte counters inside an allocation | `create_for_identity`, `refresh`, `remove`, `force_remove`, `re_key`, `rehydrate`, `cleanup_expired_budget`; permission and channel calls | counters and indices agree with the map; limits hold; an allocation is closed once |
| Relay processor (`crates/relay/src/processor.rs`) | the `active_allocations` gauge; otherwise stateless over the store | Allocate, Refresh, CreatePermission, ChannelBind, Send, ChannelData, datagrams from peers, mobility, QUIC moves | it never trusts what it read before another thread changed it; usage is billed exactly; the quota holds |
| Relay server and egress (`crates/relay/src/server.rs`) | `relay_sockets`, `relay_tasks`, the out channel, task handles | RegisterRelay, Relay, CloseRelay, pumps, orphan reaper, cleanup ticker, watchdog, drain | a live port has its socket; a freed port's socket is closed; a dead datapath stops the node |
| TCP allocations, RFC 6062 (`crates/relay/src/tcp_relay.rs`, `tls_bridge.rs`, `stream_retry.rs`) | `conns`, `alloc_peers`, listeners, parked requests, the bridge's `live` set | CONNECT, ConnectionBind (claim, detach, attach), peer-initiated connections, idle timer, cleanup | a peer's stream goes to its owner; nothing that waits waits for ever |
| Write-behind writer (`services/node/src/writer.rs`) | channel, batch, deadline, counters, `reconcile_ack` | recv, coalesce, flush, barrier, `reconcile` | the backend ends up equal to the live state |
| Readiness monitor (`services/node/src/main.rs`) | last drop count seen, `backend_diverged` | tick, reconcile, barrier wait | Ready means persisted; Degraded ends |
| Failover, heartbeat, bulk load (`services/node/src/failover.rs`, `heartbeat.rs`, `bulk_load.rs`) | suspicion counters; the backend's node and allocation rows | `sweep_once`, `run_heartbeat`, `bulk_load`, `apply_one` | every row of a dead node is served again, by one node |
| State backend (`crates/state-backend`) | allocation, node, room, user rows; command log, idempotency records, desired state | store, get, remove, find, claim (compare-and-swap); commands with leases and fencing tokens | claims have one winner; a stale claimant changes nothing |
| Runtime management (`services/node/src/runtime_management.rs`, command loop of `main.rs`) | the published limits and their versions | claim, replay, prepare, confirm, roll back, journal, complete, sweep, restore | a command has one outcome, the caller is told it, and the node runs the version it reports |
| Control plane (`crates/control`, `services/control-plane`) | none of its own; rows in the backend | enqueue and await, collection of old rows and records | an answer is what happened |
| Cluster gossip (`crates/cluster`) | member table with tombstones, hash ring | merge, suspect, leave | views converge |
| Relay routes, transports, auth, QoS, config, health | see `PROJECT.json` | | |

How they interact. Receive workers (one per `SO_REUSEPORT` socket) call the
processor, which calls the pool and the store; nothing orders two workers. The
cleanup ticker and management calls run on the same maps. Every change of the
store emits a `WriteOp` *after* the change and outside its guard, with `try_send`
into a bounded channel that drops when full. The writer task coalesces by relay
port and calls the backend. The monitor reads the drop counter the writer
publishes, and repairs by re-emitting the live state through the same channel.
Heartbeats make a node visible; the failover task of every other node reads them
and moves rows with a compare-and-swap per row. Workers hand sockets to the egress
task over a channel; the cleanup task changes the same two maps without it. The
control plane writes commands into the backend and polls for their outcome; the node
claims them once a second.

What is hard here: three mutexes taken in several orders; check-then-act over maps
that are only atomic one key at a time; values read before another removal and used
after it; events of two owners of one port in one channel; a repair that shares its
channel with what it repairs; sweeps of several nodes interleaved call by call with
crashes, restarts and late heartbeats; sockets named by a port number that is used
again; commands whose backend calls fail, or succeed and lose their reply, on a node
that crashes between any two of them; packets that count themselves while the
allocation they belong to is pruned, persisted and closed. `PROJECT.json` lists these as hazards, each
at its line, with the properties that would catch it going wrong.

## 2. Modules

| Module | Models | Instances | Proofs |
|---|---|---|---|
| `PortAllocator` | the pool, at the granularity of its mutexes | `MCPortAllocator` | `PortAllocatorProofs` |
| `AllocationStore` | the store and the handlers that change it, one map or atomic access per step | `MCAllocationStore` | `AllocationStoreProofs` |
| `WriteBehind` | emission, channel, writer, reconcile, monitor of one node | `MCWriteBehind` | `WriteBehindProofs` |
| `Failover` | heartbeats, sweeps, claims, crashes, restarts of several nodes over one backend | `MCFailover` | `FailoverProofs` |
| `Management` | command log, desired state, the waiting call, the node's command loop, crashes and restarts | `MCManagement` | `ManagementProofs` |
| `CommandContract` | what the management plane promises, without its mechanism; `Management` implements it | (by `Management`) | |
| `RelayServer` | workers, egress, pumps, cleanup task, watchdog and drain of the tokio server | `MCRelayServer` | `RelayServerProofs` |
| `TcpRelay` | RFC 6062 connections, listeners and the two bridges | `MCTcpRelay` | `TcpRelayProofs` |
| `DataPlane` | permissions, channels, counters of an allocation, the packets that use them, a restart | `MCDataPlane` | `DataPlaneProofs` |

The modules meet at narrow interfaces: `AllocationStore` has the pool as the set of
used ports (what `PortAllocator` shows of its own state), `WriteBehind` has the
store as "the live allocation of a port", `Failover` has the writer as one pending
write per port, `RelayServer` and `TcpRelay` have the pool and the store as "the port
of a client's allocation", `DataPlane` has creation and removal as single steps and
the row as written at once. Definitions that begin a mutation test (`...KeepsToken`,
`...Unchecked`, `...Twice`, `...Never` and so on) stand directly before the definition they
vary and are used by nothing in `Next`.

### PortAllocator

A thread's `pc` is the lock it wants next or the call it is in. `allocate` scans
under `next_port` and `used`; an EVEN-PORT pair takes `used` then `reservations`;
`sweep` takes the same two; `cancel_reservation` and the bind-failure path remove a
token under `reservations` and, because the guard of an `if let` lives to the end of
its block, lock `used` while they hold it. `Holds` says which locks a `pc` implies.
`bind_relay_socket` succeeds or fails; so does the `create_for_identity` that
follows (`MayFail`), whose failure drops the `PortReservationGuard`. `live` are the
ports the store owns. Time is a countdown `ttl` of each reservation; `due` is what a
sweep found expired when it read the clock, before it got its locks. The 64 bind
attempts are `MaxTries`.

### AllocationStore

`alloc`, `relayIx`, `idIx`, `count`, `used` are the shared maps; `hand`, `held`,
`client`, `rport`, `target`, `ticket` are a thread's locals. `Insert` and `RkClaim`
are one step because the code does them under the `Entry` guard of the slot.
`RmTake`, `ReleaseCounter`, `RmIndex`, `RmPort`, `RmDone` are the separate accesses
of `remove`; `release`, `sweep` and `force` differ in where the relay address comes
from. `MigrateRefresh` covers both lifetimes of a migrating Refresh. `gauge` is the
handlers' `active_allocations`; `closed` counts usage Stop records; `made` and
`moved` are history.

Left out: permissions, channels and byte counters (`DataPlane`); the write-only indices
`user_allocations` and `channel_to_client`; separate tenant pools; limits that
change at run time. The `retain` that drops zero entries of `user_counts` is
invisible: an entry at zero and no entry mean the same to every reader, and the
increment happens under the entry's guard. `bulk_load`'s addition to the gauge is
left out too (failover's `apply_one` adds nothing); `GaugeHonest` is not meant for runs with
`rehydrate`.

### WriteBehind

An allocation is an id and a revision; Refresh, Permission, Channel and ReKey are
one event that carries the new revision. `CreateAlloc`, `TouchAlloc`, `RemoveAlloc`
change `live` and leave the event in `pend`; `Emit` is the later `try_send`.
`Apply` is the coalescing table. A flush is one step per backend call, and a Touched
entry is a read (`got`) and a write. The monitor is `Tick`, `FindByNode`,
`DeleteZombie`, `StartResync`, `ResyncEntry` (the map is walked while threads
change it), `EndResync`, then the wait of `await_reconcile_barrier`. `last = now` of
the loop, the pass that may confirm and the pass that may not, the refused barrier,
the timeout and the error counter are all there; so is the drain flag, at whose
sight the monitor ends. `missed` is history: the ports whose event was dropped, or
failed where the code does not watch, after the last resync visited them.

Left out: the drain of the channel at shutdown and its close; `live_relay_ports`
is taken in one step.

### Failover

Each backend call of `sweep_once` is a step: list, find, claim, re-fetch, rehydrate,
remove or revert, with the `continue` of every error branch. Suspicion counters,
`suspicion_ticks` and the draining short-cut are those of the code. `Restart` lists
the node's rows and `LoadRow` rehydrates them one by one. Time is abstract: a
heartbeat goes stale at any moment after the last one, for a running node only if it
is among the `Stallers`. `Limit` makes a rehydrate refuse. `Pick` is the set of ports a
node's own allocations happen to get: disjoint for distinct nodes, or the same.

A node stops in stages. `Shutdown` is the signal: one last heartbeat that says draining,
and none after it; no sweep begins any more. The node is then "leaving": its datapath
drains and serves what it holds. At `WriterExit` the writer has flushed its queue and is
gone ("drain"): what is released from here on is not written. `Exit` ends the process,
drained or out of time. Meanwhile its heartbeat may go stale, and a node that said
draining is claimed at the first stale sweep.

A write of the writer (`Flush`) may fail, which is counted and forgotten; a touched
entry is a read (`FlushTouched`) and a write (`StoreMerged`) and either may fail.

Two histories say where ownership ends. `lost` are the ports whose last create or
remove was lost to an error. `shaken` are the ports that were ever `Shaky`: used by a
node that lives and is taken for dead, or may be (`Doubted`: its heartbeat is stale, or
a sweep that confirmed it as dead is not done with it), or used by one node while
another that lives may pick them too. Every action ends with `Noted`, which keeps the
second history. Nothing in the code keeps a node from losing a shaken port to another
and serving it on; section 4 has the behaviours, and the properties are about the other
ports.

Every node is known to the backend from the start. A heartbeat that fails while the
node runs is no step: the next one is due soon.

### Management

`log`, `idem` and `doc` are the command log, the idempotency records and the two
kinds of versioned documents (run-time configuration, limits of a subject) of the
backend; every stored procedure is one step. `pc`, `batch`, `cur`, `prev` and `out`
are the command loop: `Claim`, then per command `Replay` (the journal first), `Load`,
`Lookup` (the journal again, before a verdict of conflict), `Prepare` (the
compare-and-swap and the publication), `Confirm`, `Rollback`, `Record`, `ReadBack`,
`Complete`, and after the batch `ListStale`, `StaleResult`, `Finalize`.
`update_config` and `set_user_limits` are one protocol and share the actions; where
their handlers differ the action says so. A backend call may fail before it took
effect or take effect and lose its reply (`Replies`, limited by `Faults`). `ListStale`
returns at most `MaxStale` stale rows, in no order (`MAX_STALE_SWEEP`, 64 in the code; a
`HashMap` has none), of which `StaleResult` passes over those without a version. A command
is a document, the version it expects and a value; `Verdict` is
`RuntimeSnapshot::apply`. `Restart` makes a new incarnation and runs `restore`.
`applied` is history: how often the operation of a key took effect.

`CommandContract` says what a caller may rely on: a key is accepted once, gets one
outcome, keeps it as long as it is remembered, and a document's version moves by one
exactly with the outcome "applied". `Contract` maps a key's fate to its journal entry
and a document's version to its observed one; `OneFate` is the refinement.

Left out: the migration of rows older than the idempotency records; how a patch
merges with the override it changes.

### RelayServer

An allocation is the socket bound for it, named by a number; `portOf` gives its port.
`Allocate` and the others leave the action in `out`, `Post` sends it: a control
message waits for the channel, media is dropped when it is full. The egress handles
one message in the order of its map accesses: `RegisterRelay` inserts the socket and
starts the pump, `KeepHandle` keeps its abort handle; `CloseRelay` removes the socket,
`StopPump` the handle. A pump keeps its socket open until it ends (`pumps`). The
cleanup task lists orphans and closes them one by one, in the same two maps.
`Dies`, `Watchdog`, `Shutdown`, `DrainPoll`, `DrainDone` are the supervision: a
worker or another task exits, all workers or one other task gone starts the drain,
and a store that has not moved for `StallPolls` polls ends it.

`raced` is history: sockets bound while a close in flight named their port.
Left out: readiness values, the bridges' own traffic, RTP sampling.

### TcpRelay

`conns` and `alloc_peers` (`index`) have a lock each; handlers, hand-offs and relays
take one at a time, so a step is one critical section. The idle timer alone holds both
(`tcp_relay.rs:582-589`) and is one step. The limit and the duplicate check before a
dial or an insert are two reads under two locks and one step here (`MayRegister`): either
may be out of date at the insert anyway. A bridge is one event loop: while `job` is set (a
dial, the two inserts, a cleanup) it handles nothing else. `Open` and `Close` are the
control connection; `Park`, `Reinject`, `Retry` a request that waits for a credential
lookup. A listener (`lstn`) accepts, registers, tells its client and checks every few
seconds whether its allocation is still there; an abort takes effect where it awaits
an accept, or with `Cut` also at a lock. `Bind` claims and requests the detach, on a
fresh connection or on a client's control connection, which nothing refuses
(`processor.rs:2853-2897`): that connection leaves the bridge's `live` set and its parked
requests are forgotten, but its allocation and its entry in `client_sinks` (`sinks`) stay,
and once detached it reports no close (`tls_bridge.rs:233-238`);
`Attach` and `Bound` are the two critical sections of `attach_bound`; `relays` are
the running relays. The second client opens no control connection in the run: it
sends ConnectionBinds with any id and its own key.

Left out: the copying of bytes; peers without permission (they change nothing); the
release of everything when a transport goes away.

### DataPlane

A packet holds a `Ref` on its allocation from the lookup to its last counter
(`Readers`); a change of the maps waits for it (`Writable`). `Admit` is
`check_bandwidth`, which rolls the window; `add_bytes` and `add_bytes_to_client` are
separate steps, because the counters are separate atomics. `get_by_relay` and
`process_relay_recv` are two steps: the client is resolved before its allocation is
read. CreatePermission adds its peers one call at a time. The sweep classifies,
prunes and removes as `cleanup_expired_budget` does. Any entry may expire at any
moment and stays in its map until refreshed or pruned. `Crash` and `Restart` bring the
allocation back from its row. `passed` is history: the packets that passed the checks
of an allocation, per direction; it grows in `Admit`, before the counters do.

Left out: packet sizes (all are equal, and the quota is counted in packets; in the
run it is smaller than one packet, so that one counted packet exceeds it), limits that
change, `channel_to_client` (write-only), the delay and loss of row writes
(`WriteBehind`). A binding and its stored copy expire together, on one wall clock.

## 3. Runs

Passing runs:

| Run | Instance | States | Shows |
|---|---|---|---|
| `port_pool` | 2 request threads, the sweeper, 2 ports (one EVEN-PORT pair), 1 token, failing binds and creates | 54 k | `PortHeldOnce`, `NoPortLeak`, `ReservationsExpire`, `OperationsReturn` |
| `store_counts` | 2 threads, 2 addresses, 2 ports, 2 users (one with a tenant), a tenant and a global limit, a row to load; allocate, release, sweep, ticket migration, rehydrate | 1.8 M | `CountsExact`, `WithinLimits`, no underflow (`TypeOK`) |
| `store_maps` | 2 threads, 2 addresses, 3 ports; allocate, refresh, forced removal, QUIC moves | 255 k | `PortsOwned`, `RelayIndexExact`, `BilledOnce`, `IdIndexExact` |
| `writer` | 1 store thread, 1 port with two owners in turn, channel of 2, batch of 2, 2 drops, 1 fault, 1 drain | 705 k | `ReadyIsPersisted`, `SelfHealing` |
| `failover_claims` | 3 nodes, 2 of them with clients, 1 crash or shutdown, 1 restart, 1 refresh, an error in a write, load, claim, re-fetch, remove or revert | 2.4 M | `HolderOwnsRow`, `OneHolder` |
| `failover_adopts` | 2 nodes, 1 crash or shutdown, 1 restart, an error in the last heartbeat, list, find or claim | 50 k | `OrphansAdopted`, `SweepsEnd` |
| `management` | 2 calls (a change; its retry, a misuse of its key, the next change, a limit, undrain, shutdown), 2 claims per row, 2 faults, 2 incarnations, a listing of 1 | 237 k | `OneFate`, `AnswerTruthful`, `RunningIsObserved`, `VersionedEnds` |
| `relay_sockets` | 2 workers with a client each, 1 port bound twice, channel of 1, 1 dying task, 1 failing socket | 146 k | `BaseIsServed`, `OrphansClosed`, `DeadDatapathStops` |
| `tcp_connections` | 2 bridges, 2 keys, 1 port, 1 peer, 2 connection ids, 2 control connections of one client | 355 k | `OwnerOnly`, `ReleasedOnClose`, `PendingEnds`, `ListenersEnd` |
| `data_plane` | 1 worker, 1 pump, 2 peers, 2 channels, 3 packets, 1 restart | 3.9 M | `ChannelsInverse`, `ChannelsPersisted`, `UsageExact`, `QuotaBounded` |

Violation runs. Each states what the repository says and shows a behaviour of the
code that differs; `PROJECT.json` quotes the lines under "findings".

| Run | Property | What happens |
|---|---|---|
| `port_pool_lock_order` | `LockOrder` | A cancelled reservation holds `reservations` and waits for `used`; a sweep or EVEN-PORT Allocate holds `used` and waits for `reservations`. |
| `relay_tenant` | `LiveIsServed` | The reaper asks the base pool whether a port is allocated; a port of a tenant pool never is, so the socket of a live tenant allocation is closed at the next tick. |

Which passing runs depend on a restriction:

- `port_pool`: `ReservationsExpire` and `OperationsReturn` say "unless the locks are
  held in opposite orders"; they show that the inversion of `port_pool_lock_order` is
  the only way to wait for ever.
- `store_maps` has no `release`, `sweep` and `migrate`, which pass a relay address that
  may be stale (section 4), and loads no rows (section 4, id reuse).
- `writer` has one store thread (with two, section 4) and one drain without undrain.
- `failover_claims` and `failover_adopts` have no stalls of a running node; drains that
  outlast the heartbeat and restarts reach the same states. `OneHolder` and
  `HolderOwnsRow` excuse shaken ports and `HolderOwnsRow` lost ones, as the theorems do,
  which have stalls and shared ranges too. `failover_adopts` has no failing re-fetch, no
  failing write and no touched entry (section 4).
- `management` leaves out a lost reply to `confirm` and a failed look into the journal
  by the sweep, and no key is forgotten while its command is unfinished (section 4).
  `VersionedEnds` excuses a listing that commands without a version fill (`Crowded`).
- `data_plane`: `UsageExact` is about packets that passed the checks, not about packets
  that left (section 4).
- `relay_sockets` has no tenant ports (`relay_tenant`), and no allocation ends before
  its socket is registered (`EarlyEnd`, section 4).
- `tcp_connections` has `Cut = FALSE` (section 4).

### Bounds

Bounds are named constants: `MaxTries`, `MaxId`, `MaxEpoch`, `MaxRev`, `MaxDrops`,
`MaxFaults`, `MaxToggles`, `MaxCrashes`, `MaxRestarts`, `MaxErrors`, `MaxTouches`, `MaxInc`,
`MaxBinds`, `MaxDeaths`, `MaxIds`, `MaxOpens`, `MaxPackets`, `MaxAge`, `MaxAllocs`.
Two threads are the fewest that race, and the races above need two; the third thread
of the pool is the sweeper. Two ports are one EVEN-PORT pair, let the cursor wrap and
run out; what holds of larger pools is proved (section 5). In `store_counts` a tenant limit of 1 refuses an Allocate in the middle
of its reservation and a global limit of 2 at the end of it, where the counter
overshoots; the two ports can run out. The three ports of `store_maps` let a `re_key`
lose its new and its old address.
A channel of 2 is filled by an event and the barrier that follows it, so that either
can be refused. With two ids a port has two owners in turn. Three nodes are a node that
goes away and two survivors that sweep it at once; each of the two that serve clients can
be the one. Two nodes are enough for `failover_adopts`, where the dead one may come back.

Two claims per row are a retry and a dead letter; two incarnations make a command
stale; a listing of one (`MaxStale`) is full with one stale command, versioned or not;
the menu of `MCManagement` holds a retry of the same key, the same key with
another payload, and a second change that expects the first. One relay port that is
bound twice has a close, a registration and an orphan of the same number in one
channel of one slot. Two connection ids are a connection and its successor on the
same port and peer; two control connections of one client are an allocation that is
released and made again while a request of the first is parked. One permission
allowed and two asked for exceed the bound; two channels and two peers can be bound
crosswise; three packets are one more than the quota allows two racing threads.

Symmetry is used only in runs without temporal properties. `MCView` and `MCCountView`
leave out what no action and no property of their run reads (`gauge`, `moved` and
tickets of the last epoch; in `store_counts` also `relayIx`, `closed` and `made`, of which `TypeOK` says
only that they have their type).

CHECK_DEADLOCK is off where the bounds let a behaviour end (ids, faults, crashes
used up) or the node stops, and in `port_pool`, where the lock inversion is a real
deadlock and `port_pool_lock_order` is the run about it. `data_plane` checks deadlock:
no set of Refs blocks the rest for ever.

### Fairness

- `PortAllocator`: weak for the clock and for the maintenance ticker; strong for a
  thread inside an operation, because it waits for mutexes that others take again and
  again and `parking_lot` hands a contended lock over eventually.
- `WriteBehind`: weak for the writer task, for the monitor task and for a thread that
  has yet to emit. No fairness for clients, drains or faults.
- `Failover`: weak for the sweep timer, each sweep step, the writer, bulk load, the exit
  of a node that was told to stop (its drain is bounded), and for a down node's heartbeat
  going stale. No fairness for crashes, restarts, errors
  or expiry.
- `Management`: weak for the command loop (a one-second ticker), for the restart by
  the supervisor and for leases running out. None for callers, crashes, faults or the
  collections.
- `RelayServer`: weak for the egress, the cleanup ticker, dropped pumps, the watchdog
  and the drain; strong for a worker that waits for the channel, whose waiters tokio
  serves in order. None for clients, operators or failures.
- `TcpRelay`: weak for a bridge's step (a dial ends within `connect_timeout`), for a
  listener's step and periodic check, and for idle timers. None for clients, peers or
  the end of a relay.
- `DataPlane`: only safety is checked.

## 4. Other behaviours the models reach

The restrictions of section 3 are there because of the behaviours below. The modules
define the properties named here; no run checks them on these instances. "Instance"
names the run whose constants are used and what is changed.

The store, the writer, failover:

| Behaviour | Property | Instance |
|---|---|---|
| A release passes a relay address it read before another removal; the port it frees may be in use again (`session/src/lib.rs:2774`; line 831 promises "True if the port is currently held by a live allocation"). | `LivePortUsed` | `store_maps`, two ports, all operations |
| A rehydrated row keeps its id, and `next_id` starts at 1 in every process (`session/src/lib.rs:2318`): two live allocations can share an id, and `id_to_client` names one of them. | `IdIndexExact` | `store_counts` |
| Two releases of one allocation both decrement `active_allocations`, though one of them removed nothing; the gauge can wrap (`relay/src/processor.rs:3021`). | `GaugeHonest` | `store_maps`, `Ops = {"allocate", "release"}` |
| A Refresh between the sweep's re-check and its remove is answered with success, and the allocation is removed (`session/src/lib.rs:2942`). | `SweepTakesExpired` | `store_maps`, `Ops = {"allocate", "refresh", "sweep"}`, no symmetry |
| The old address gets another allocation between `get_by_id` and `re_key`: the ticket moves that one (`relay/src/processor.rs:3071`). | `MovesTicketed` | `store_maps`, three threads, `Ops = {"allocate", "force", "migrate"}` |
| Two threads emit the events of one port in the other order than they changed it: the port is freed before the Remove is emitted (`session/src/lib.rs:2789`), the writer takes Create then Remove for nothing (`writer.rs:335-336`), and a Ready node has a live allocation that is not persisted (`docs/CLUSTER.md:110`). | `ReadyIsPersisted` | `writer`, two threads, capacity 3, no drops, faults or drain |
| A resync re-emits Create for a row the backend has; a Remove in the same batch cancels both, and the row stays (`writer.rs:337`). | `NoZombieRows` | `writer`, capacity 4 |
| The drop counter is published only when a batch is flushed; a batch that coalesced to nothing never publishes it (`writer.rs:709`). | `DropsSurface` | `writer` |
| The monitor ends at the first tick that sees a drain, and an undrain does not start it again (`main.rs:2507`). | `SelfHealing` | `writer`, `MaxToggles = 2` |
| A node that is told to stop sends its last heartbeat at once (`heartbeat.rs:114-122`) and serves on while it drains (`server.rs:962`, `983-1043`). If the drain outlasts `live_window`, the first sweep that finds the heartbeat stale claims its rows (`failover.rs:217-223`), and two nodes serve one allocation; the comment at `failover.rs:183-186` says there is no false-positive risk. | `OneHolder` without `shaken` | `failover_adopts`, no restart |
| A node that only stalls loses its rows to a survivor and goes on serving them (`failover.rs:245`; compare `failover.rs:32` and `docs/COMPLIANCE.md:134`). | `OneHolder` without `shaken` | `failover_adopts`, `Stallers = {a}`, no crash |
| A sweep computes its dead set once; a node that comes back meanwhile loses its rows and serves them still (`failover.rs:232`). | `OneHolder` without `shaken` | `failover_adopts` |
| Rows are keyed by port alone: nodes with one port range overwrite each other (`writer.rs:428`). | `HolderOwnsRow` without `shaken` | `failover_claims`, `Pick` all ports for all nodes |
| A write that fails is counted and not repeated (`writer.rs:560-566`): the allocation is served without a row, or its row stays after it. | `HolderOwnsRow` without `lost` | `failover_claims` |
| A node's row was adopted, the node comes back and uses the port again. The adopter refreshes its allocation, reads the row that is now the other's, and writes it back after the other removed it: a row that nobody serves, in the name of a live node (`writer.rs:433-466`). | `OrphansAdopted` | `failover_adopts`, `MaxTouches = 1`, no drain or errors |
| A failed re-fetch leaves the row in the name of the live claimer, whose rows no sweep visits (`failover.rs:279`). | `OrphansAdopted` | `failover_adopts`, `Faults = {"refetch"}` |

A restarted node skips its expired rows and nothing deletes them
(`session/src/lib.rs:2234`; `find_expired` has no caller), which is why
`OrphansAdopted` is about rows whose lifetime has not passed. What a client releases
while its node drains, after the writer is gone, keeps its row; a survivor adopts it and
serves it until it expires.

The management plane (`runtime_management.rs` unless another file is named):

| Behaviour | Property | Instance |
|---|---|---|
| A drain or another command without a version, addressed to an incarnation that is gone, is claimed by nobody, and the sweep leaves it alone (lines 1011-1012; `turn_core_impl.rs:160`; `docs/command-log-lease.md:10-13` says there is "no stuck `in_progress`"). | `CommandsEnd` | `management`, `Calls = {c1}`, `MCDrain`, no faults |
| These commands fill the listing of the sweep, which is capped at `MAX_STALE_SWEEP = 64` (lines 34, 997; `memory.rs:713-716`) and skips them (line 1013): with 64 of them a stale versioned command may never be listed. The comment at 1011-1012 says that they never carry a target incarnation; every command does (`turn_core_impl.rs:160`). | `VersionedEnds` without `Crowded` | `management` |
| The reply to `confirm` is lost: the node rolls its limits back while the backend has the new version as observed. | `RunningIsObserved` | `management` with `<<"confirm", "reply">>` in `Faults` |
| The sweep takes a failed look into the journal for "no entry" (line 1151) and reports a command as failed that was applied (lines 988-993 promise otherwise). | `AnswerTruthful` | `management` with `<<"stale_lookup", "request">>` in `Faults` |
| A look into the journal that fails counts as "not found" (lines 1147-1152): a command whose load failed, and whose completion was lost, is applied on its second claim although its key says "failed". Four faults: the load, the completion, the replay and the look before the verdict. | `OneFate` | `management`, `Calls = {c1}`, `MaxFaults = 4` |
| A key is collected while its command is unfinished; a retry is then a new command. | `AnswerTruthful`, `OneFate` | `management`, `Outlived = TRUE` |

A command whose completion is lost on every claim is dead-lettered and its row says
"failed" although its key says "applied". A waiting call reads the row first
(`turn_core_impl.rs:188-195`) and is told so; the key answers only when the row was
collected. Commands
without a version have no journal and are applied again after a lost completion
(`memory.rs:503` says a command "runs at most once").

The relay server and RFC 6062:

| Behaviour | Property | Instance |
|---|---|---|
| `CloseRelay` and the reaper name a port number: one that arrives after the port was bound again closes the new socket (`relay/src/server.rs:121`, `627`). `BaseIsServed` leaves out these sockets. | `BaseIsServed` without `raced` | `relay_sockets` |
| An allocation that ends between its creation and the post of its RegisterRelay leaves a socket that the reaper cannot see while the port is used again. | `OrphansClosed` | `relay_sockets`, `EarlyEnd = TRUE` |
| `cleanup_allocation` removes the entry of a connection whose relay goes on. | `RelayIsKnown` | `tcp_connections` |
| The same cleanup leaves the peer's `alloc_peers` entry, and the peer is refused with 447 from then on (`relay/src/tcp_relay.rs:543`). | `PeerFreed` | `tcp_connections` |
| An abort of the listener between its two inserts leaves a pending connection without a timer. | `PendingEnds` | `tcp_connections`, `Cut = TRUE` |
| A client binds a data connection on its control connection: nothing refuses it (`processor.rs:2853-2897`), and the allocation goes on without a control connection until it is released or expires (`tls_bridge.rs:233-238`). | an allocation has an entry in `live` | `tcp_connections` |

Read in the source on the way, and stated by no property:

- A detached connection reports no close, so its entry of `client_sinks` and the task that
  forwards to it stay until the address connects again (`tls_bridge.rs:155-179`, `233-238`).
- The byte counters are what passed the checks. A packet is counted and may then be
  dropped: on a full sink of its client (`server.rs:176`), on a full egress queue
  (`server.rs:241`, `1121`), or because it cannot be encoded (`processor.rs:1389`, `1408`);
  `usage.rs:17-20` says that the numbers are what left on the other leg.

- A worker that is preempted between its lookup and the egress sends through the socket
  of the port's next owner.
- A pump that meets a receive error, or a socket that tokio refuses, leaves its
  allocation live and unserved.
- The egress holds a map guard across `send_to().await` (`server.rs:117-118`).
- `refresh_readiness` overwrites Degraded (`health/src/lib.rs:843-852`).
- `server.rs:663` says the node is not force-killed when its datapath dies; the watchdog
  at 917-952 starts the drain.
- `max_per_allocation` of `docs/CONFIGURATION.md:417` is enforced nowhere; `max_total` is
  checked before the insert, under another lock; two CONNECTs to one peer can both pass.
- A CONNECT keeps its bridge from every other client for up to `connect_timeout`, and may
  register under a port that was allocated again.
- `delete_allocation` calls `force_remove` under the guard of its own iterator
  (`main.rs:904`).
- The permission bound is not applied by ChannelBind (`session/src/lib.rs:2673-2680`;
  the comment at 2613), and a CreatePermission that exceeds it keeps the peers it added
  before (`relay/src/processor.rs:3204`).
- `process_relay_recv` resolves the client of a relay port and does not compare the
  relay address of the allocation it then reads (`relay/src/processor.rs:1328`).
- Stored permissions are never pruned and live five minutes more after a restart
  (`writer.rs:517`); a binding that has expired and is not yet swept refuses a new one
  with 400; ChannelData looks at no permission.
- A restart on a node whose clock lags can load two bindings of one peer, of which one had
  expired where they were written.

## 5. Proofs

Checked by TLAPS with the SMT backend, Zenon and, for the temporal steps, LS4.

`PortAllocatorProofs`, from `PortAssumption` (a non-empty range of naturals, at least
one try, the sweeper is a thread; any sets of threads and tokens):

- `PoolTypeCorrect`: `Spec => []TypeOK`
- `PoolPortHeldOnce`: `Spec => []PortHeldOnce`
- `PoolNoLeak`: `Spec => []NoPortLeak`

The inductive invariant `IInv` adds three facts to the type. `PcInv` ties a thread's
step to the ports it has in hand: a thread at "bind" has one, a thread at
"cancelOdd" has the odd port and nobody else. `HeldIsUsed` and `UsedIsHeld` are the
two halves of `NoPortLeak`. `Disjoint` is `PortHeldOnce` as inequalities between
single ports, which the solvers handle better than intersections. Neither half is
inductive alone: that a fresh port is nobody's follows from `HeldIsUsed`, that
releasing it takes it from nobody else from `Disjoint`. There is one lemma per action.

`AllocationStoreProofs`, from `StoreAssumption` (finite sets of threads and clients,
any users, tenants, caps, ports; rows whose ids and epochs are within the bounds):

- `StoreCountsExact`: `Spec => []CountsExact`
- `StoreWithinLimits`: `Spec => []WithinLimits`
- `StoreTypeCorrect`: `Spec => []TypeOK`
- `StoreBillsOnce`, `StoreIdsIndexed`: `Spec => []BilledOnce`, `Spec => []IdIndexExact`,
  for all operations, if no loaded row brings an id of another process (`Minted`)
- `StorePortsOwned`, `StoreRelaysIndexed`: `Spec /\ []TakesAsRead => []PortsOwned`,
  `Spec /\ []TakesAsRead => []RelayIndexExact`, for all operations, release, sweep and
  migration included. `TakesAsRead` says of every state that a removal about to take the
  allocation of a client finds there, if anything, one on the relay address it was called
  with. Section 4 has the behaviour in which it does not: the theorems say that this is the
  only way to lose a port, to share one, or to mislead the relay index.

`WithinLimits` is not inductive, nor is it with `CountsExact`: `global_count`
overshoots while a refused thread takes its unit back, so a counter may be above its
limit. `AdmittedOK` bounds instead the live allocations together with the threads
that hold a unit they were *granted*; `Admitted` leaves out threads at "undo" that
were refused. `StepsOK` says which counters a thread holds at each step (all those of
its user at "insert", "rkClaim" and "rmCounters" on entry, a prefix of them at
"reserve"). Four lemmas about the change of a cardinality, `TakeUnit`, `GiveUnit`,
`EnterMap`, `LeaveMap`, and `QuietStep` for steps that change none of it, carry all
actions. `StoreInvariant` is the theorem that `CInv` is invariant.

`TInv` adds what a thread has in hand at each step (`PlaceOK`) and `RoomOK`: the ids
left suffice for the drafts that have none yet, without which the bound on ids is not
inductive. `BInv` says where an id is: an id that was given is in the map, in the hand
of one thread that took it out, or was closed, and in only one of the three (`OnePlace`,
`Billed`), and `id_to_client` leads to the address it is or was under (`IdIndexed`). `PInv` says the same of ports: `OneOwner`,
`UsedOwned` and `Relayed`, with `OwnPorts` saying that each removal works on the port of
the allocation it took, which follows from `TakesAsRead` at the moment of the taking. Lemmas
about a port or an id that does not move, moves, is taken or is given back carry the actions.

`TcpRelayProofs`, from `TcpRelayAssumption`, for `Cut` either way:

- `TypeCorrect`: `Spec => []TypeOK`
- `StreamsReachTheirOwner`: `Spec => []OwnerOnly`
- `ClosedIsReleased`: `Spec => []ReleasedOnClose`

`Shapes` gives the tables and the handlers that await their types; `IdsGiven` says that a
connection id in a table or a handler was drawn; `IdsLeft`, that the registrations under
way fit into the ids that are left. `OwnerOnly` needs what `Owned` says of the hand-off
between the bridges: a claim is never undone, so what a hand-off names is gone, bound or
still claimed by the key it was claimed for. `Connected` numbers control connections by
the opens of their client and gives each its sink, from which `ReleasedOnClose` follows for
a parked request that runs late: it is let through only for a connection that is live.

`DataPlaneProofs`, from `DataPlaneAssumption` (finite sets of workers and pumps; any
clients, peers, channels and quota):

- `TypeCorrect`, `MapsAreInverse`, `RestartKeepsChannels`, `UsageIsExact`, `QuotaHolds`:
  `Spec => []P` for `P` each of `TypeOK`, `ChannelsInverse`, `ChannelsPersisted`,
  `UsageExact`, `QuotaBounded`

`QuotaBounded` is not inductive: the window may be anything unless the threads that have
passed the quota check and not counted yet are limited too. `WindowBounded` adds their
number to the window; `RefsHeld` (a Ref keeps its allocation in the map) and `Counted`
(what passed is in the totals or about to be counted, in the sum until `add_bytes` and, from
a peer, in the share until `add_bytes_to_client`) make `UsageExact` inductive. For the
channels, `RowOwned` and `RowsInjective` say which row belongs to which allocation, so that a restart gives nobody the channels of another.

`FailoverProofs`, from `FailoverAssumption`:

- `TypeCorrect`: `Spec => []TypeOK`
- `ServedRowsAreOwned`, `NobodySharesAnAllocation`: `Spec => []HolderOwnsRow`,
  `Spec => []OneHolder`, without hypotheses: any number of nodes, crashes, restarts,
  shutdowns and stalls, errors in any backend call, any port ranges. What cannot be
  promised is in the properties, as the ports that are shaken or lost.

Two steps of the argument. A node that is not doubted is in nobody's dead set, so no claim
expects it as the owner, and only its own writer and its own sweeps touch what it uses. And
a port that is not shaken is used by one node at a time. `Safe` says this of a node and a
port: what the node serves or will write is its own by range or by row (`Entitled`); what
it serves is in the backend under its name (`ServesOwn`); a row between its claim and its
rehydrate is the claimer's, who does not serve it yet (`ClaimHeld`); a row that the bulk
load has listed, or the writer has read, is still as it was (`LoadHeld`, `MergeHeld`).
`IdsTied` says that an id belongs to one port, from which `OneHolder` follows.

`ManagementProofs`, from `ManagementAssumption`, for any calls, menu, documents, number
of claims, faults and incarnations:

- `TypeCorrect`: `Spec => []TypeOK`
- `RunsWhatIsObserved`: `Spec => []RunningIsObserved` if no reply to a confirmation is
  lost (`ConfirmHeard`)
- `AnswersAreTrue`: `Spec => []AnswerTruthful`, and
- `ImplementsContract`: `Spec => OneFate`, which is `Contract!Spec`, both under
  `JournalSound`: looks into the journal do not fail, and no key is collected while its
  command is unfinished. All other calls may fail, before or after they took effect.

`JournalSound` is stronger than the restriction of the run `management`, which lets
looks into the journal by the loop fail, within two faults. The attempt to prove
`OneFate` with such faults led to the behaviour with four of them in section 4.
`Typed` ties the tables to the loop (a command at hand is a claimed call with a document).
`Running` says which of the two versions the process runs between the compare-and-swap and
the confirmation. `Journaling` has the books (`RowKeyed`: a call's row and its key's record belong together;
`PollSane`: a waiting call waits for the request its key remembers; `AppliedSane`: an
operation was confirmed once if its key says so, otherwise never; `LastSane`: the last
operation of a document is in the journal; `KeysSpent`: a collected key is not used
again), `Claimed` (the commands the loop has are open, and distinct) and `AtHand` (a
command at the compare-and-swap is undecided, and the result at the end is the
journal's). The refinement is a lemma per action: it is a step of `CommandContract` or
leaves fates and versions as they are.

`RelayServerProofs`, from `ServerAssumption` (finitely many clients; any workers, tasks,
ports, pools, channel capacity and bounds), without further hypotheses:

- `TypeCorrect`: `Spec => []TypeOK`
- `BaseAllocationsAreServed`: `Spec => []BaseIsServed`

A close names a port and no socket, so that an allocation is served is inductive only
together with the closes under way: `Serving` says that no message, no step of the egress
and no entry of the reaper's list is about to close the port of an allocation that ought
to be served (`Closing`), that nobody has aborted its pump, and that its socket is in a
register message (`Posted`) or in the map with its pump, the handle kept or about to be
(`Pumped`). A close that is under way when the port is bound again is what `raced` records.
`OneOpen` (a port has one open socket, from `CanBind`) and `OneLive` (and one allocation)
give that a registration, a failing pump or a Release of another allocation is of another
port; `Sited` has every socket under its own port, `Standing` the two tasks in the middle
of a change. The lemmas `Returned`, `Delivered` and `Taken` say what happens to the
messages in flight when a worker processes a packet, sends, and when the egress receives.

`WriteBehindProofs`, from `WriteBehindAssumption` (finitely many ports; any threads,
capacity, batch size and bounds):

- `TypeCorrect`: `Spec => []TypeOK`
- `ReadyRowsAreCurrent`: `Spec /\ []PortSerial => []ReadyIsPersisted`

`PortSerial` says that no two threads have yet to emit an event of the same port; without
it the property is false (section 4). Packets of one client are handled by one worker, so
it is the sweep, a forced removal or another client on a port just freed that break it.

That a row will be right is a statement about everything between the store and the
backend: the row, a row read to be merged, the batch being flushed, the batch being
filled, the channel, and what a thread has yet to emit. What all of it makes of the row
is a fold over the channel; an existential takes the place of the recursion. `Chain(p, v)`
says that `v[i]` is what is known of the row after the first `i` events, where `None` is
"nothing known", and `Flow(p)` that some chain leads to the live allocation. A send
extends the chain, a receive shifts it. `ApplyProperties` says that `apply()` coalesces
soundly: an entry makes of a row what the events it stands for would have made of it, or
nothing is known of it (Remove after Create leaves no entry, and so whatever row there
was). `Unsure(p)` is the other half: the node is Degraded, and the pass under way cannot
make it Ready before `p` is sent again, because `p` is still to be visited, the resync has
lost an event, or a flush has failed and is counted before the barrier is acknowledged.
`Delivered` (each live allocation not in `missed` flows or is unsure) is inductive with
`Current` (an event yet to be emitted agrees with the store), `Flushed`, `Passing` and
`Generations`. TLC has checked these on the run's instance and on two threads with two
ports under `PortSerial`.

Only model-checked: every liveness property (fairness and ENABLED are outside what TLAPS
1.4.5 proves), and what the hypotheses above exclude.

## 6. Not modelled

- The Tarantool client (`state-backend/src/tarantool.rs`): the in-memory backend is the
  reference the models follow.
- Socket I/O and kernel interfaces of the transports (io_uring, AF_XDP, QUIC, SCTP), the
  DTLS fork, STUN parsing, cryptographic checks, nonces and credential webhooks: the
  models begin with an authenticated request.
- Configuration parsing and validation, metrics rendering, RBAC, audit: they keep no
  state that another part races with.
- Rate limits, QoS token buckets and capacity: arithmetic over the clock.
- The accounting pipeline after the Stop record: dispatcher, file thread, webhook task.
- Gossip and the hash ring, and the relay routes between io_uring workers.

Known limits that no property states:

- A node whose live state is larger than `channel_capacity` cannot complete a resync
  in one burst and stays Degraded.
- A backend error outside a reconcile pass is counted and never makes a node Degraded.
- A Touched entry read before and written after a reconcile pass deleted its row
  brings the row back (`writer.rs:433`).
- A node that crashes before its first heartbeat is in no listing (`failover.rs:197`).

What the parts left out will have to answer, as read in the source:

- Gossip (`cluster/src/gossip.rs`): a peer that timed out gets no tombstone, and a frame
  is sent before the sender drops its own expired entries. Two survivors can hand a
  crashed third back to each other, each time with a fresh `last_seen`.
- Accounting (`services/node/src/accounting.rs`): at the end of the shutdown budget the
  webhook task is aborted and then `webhook_pending` is read; a batch that is dropped
  between the two has already been subtracted and is counted nowhere. The awaited send
  to the file thread is not bounded by the budget.
- Relay routes (`transport/src/worker.rs`): a close is executed by the worker that
  handled the request, which after a migration need not be the owner of the socket.

## 7. Plan

In this order:

1. Proofs: the refinement of item 5.
2. `Gossip`: members, tombstones and expiry over lossy datagrams; running nodes find each
   other, nodes that are gone are forgotten.
3. `Accounting`: a record is delivered or counted, a stop is the last record of its
   segment, shutdown ends within its budget.
4. `RelayRoute`: a forwarded packet leaves through the socket it was routed for.
5. `PortLifecycle`: an abstract pool (free, held, live, reserved, with the one holder
   of each port), implemented by `PortAllocator` and by the port part of
   `AllocationStore`.
