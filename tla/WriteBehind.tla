---------------------------- MODULE WriteBehind ----------------------------
(***************************************************************************)
(* Write-behind persistence of one node: emit_write and resync_all of      *)
(* crates/session/src/lib.rs, the writer task and reconcile() of           *)
(* services/node/src/writer.rs, and the readiness monitor of               *)
(* services/node/src/main.rs.                                              *)
(*                                                                         *)
(* The store's threads change the live allocations and emit an event after *)
(* the change, outside the guard; the bounded channel drops what does not  *)
(* fit.  The writer coalesces events by relay port and flushes a batch one *)
(* backend call at a time.  The monitor sees the dropped counter when the  *)
(* writer publishes it, goes Degraded and reconciles.                      *)
(*                                                                         *)
(* An allocation is its id and a revision: Refresh, Permission, Channel    *)
(* and ReKey are one event, Touch, that carries the new revision.          *)
(***************************************************************************)
EXTENDS Integers, Sequences, FiniteSets

CONSTANTS
    Threads,     \* threads that change the store
    Ports,       \* relay ports, the key of a row
    Capacity,    \* channel_capacity
    BatchMax,    \* batch_max_size
    MaxId,       \* bound: allocations ever created
    MaxRev,      \* bound: touches of one allocation
    MaxDrops,    \* bound: events dropped
    MaxFaults,   \* bound: backend errors, barrier timeouts and refusals
    MaxToggles,  \* bound: drain and undrain commands
    None

Rows == [id : 1 .. MaxId, rev : 0 .. MaxRev]

\* WriteOp, the barrier apart.
Events == [kind : {"create"}, port : Ports, row : Rows]
          \cup [kind : {"touch"}, port : Ports, rev : 0 .. MaxRev]
          \cup [kind : {"remove"}, port : Ports]
Barriers == [kind : {"barrier"}, gen : Nat]

\* PortState of a batch, and a row that was read to be written back.
Batched == [state : {"new"}, row : Rows] \cup [state : {"touched"}, rev : 0 .. MaxRev]
           \cup [state : {"removed"}]
Reads == [port : Ports, row : Rows]

ASSUME WriteBehindAssumption ==
    /\ IsFiniteSet(Ports)
    /\ Capacity \in Nat \ {0} /\ BatchMax \in Nat \ {0}
    /\ MaxId \in Nat /\ MaxRev \in Nat /\ MaxDrops \in Nat /\ MaxFaults \in Nat
    /\ MaxToggles \in Nat
    /\ None \notin Rows \cup Events \cup Batched \cup Reads

VARIABLES
    live,      \* port -> the live allocation, or None
    nextId,
    pend,      \* per thread: the event it has yet to emit, or None
    queue,     \* the channel
    dropped,   \* dropped_writes
    batch,     \* the writer's batch: port -> entry, or None
    out,       \* the batch being flushed, with the ports still to do
    got,       \* a Touched port whose row was read: [port, row], or None
    ackNext,   \* the generation to acknowledge after the flush, or 0
    errs,      \* backend errors of this flush
    flushing,  \* is a flush under way?
    rows,      \* the backend: port -> row, or None
    errors,    \* counters.backend_errors
    seen,      \* metrics.tarantool_writes_dropped
    ack,       \* reconcile_ack
    mon,       \* the monitor's step
    confirm,   \* is this the pass that may return to Ready?
    todo,      \* ports this pass has yet to delete or to re-emit
    last,      \* drops the monitor has acted on
    mark,      \* <<drops, errors>> noted before resync_all and before the pass
    gen,       \* RECONCILE_GEN
    diverged,  \* backend_diverged: the node is Degraded
    draining,  \* metrics.is_draining
    toggles,   \* drain and undrain commands so far
    faults,    \* faults so far
    missed     \* history: ports with an event the code cannot know it must repair

store == <<live, nextId, pend>>
writer == <<batch, out, got, ackNext, errs, flushing>>
drain == <<draining, toggles>>
monitor == <<mon, confirm, todo, last, mark, gen, diverged, drain>>
published == <<errors, seen, ack>>
vars == <<store, queue, dropped, writer, rows, published, monitor, faults, missed>>

Create(p, a) == [kind |-> "create", port |-> p, row |-> a]
Touch(p, r)  == [kind |-> "touch", port |-> p, rev |-> r]
Remove(p)    == [kind |-> "remove", port |-> p]
Barrier(g)   == [kind |-> "barrier", gen |-> g]

NoEntries == [p \in Ports |-> None]
Entries(b) == {p \in Ports : b[p] # None}
New(a) == [state |-> "new", row |-> a]
Touched(r) == [state |-> "touched", rev |-> r]
Removed == [state |-> "removed"]

Init ==
    /\ live = NoEntries /\ nextId = 1 /\ pend = [t \in Threads |-> None]
    /\ queue = << >> /\ dropped = 0
    /\ batch = NoEntries /\ out = NoEntries /\ got = None
    /\ ackNext = 0 /\ errs = 0 /\ flushing = FALSE
    /\ rows = NoEntries /\ errors = 0 /\ seen = 0 /\ ack = 0
    /\ mon = "idle" /\ confirm = FALSE /\ todo = {} /\ last = 0 /\ mark = <<0, 0>>
    /\ gen = 0 /\ diverged = FALSE /\ draining = FALSE /\ toggles = 0 /\ faults = 0 /\ missed = {}

----------------------------------------------------------------------------
(* The store: change, then emit.                                           *)

\* create_for_identity has filled the slot, on a node that does not drain; the
\* event follows.
CreateAlloc(t, p) ==
    /\ ~draining /\ pend[t] = None /\ live[p] = None /\ nextId <= MaxId
    /\ LET a == [id |-> nextId, rev |-> 0]
       IN  live' = [live EXCEPT ![p] = a] /\ pend' = [pend EXCEPT ![t] = Create(p, a)]
    /\ nextId' = nextId + 1 /\ missed' = missed \ {p}
    /\ UNCHANGED <<queue, dropped, writer, rows, published, monitor, faults>>

\* refresh, add_permission, add_channel or re_key
TouchAlloc(t, p) ==
    /\ pend[t] = None /\ live[p] # None /\ live[p].rev < MaxRev
    /\ live' = [live EXCEPT ![p].rev = @ + 1]
    /\ pend' = [pend EXCEPT ![t] = Touch(p, live[p].rev + 1)]
    /\ UNCHANGED <<nextId, queue, dropped, writer, rows, published, monitor, faults, missed>>

\* remove and force_remove give the port back before they emit.
RemoveAlloc(t, p) ==
    /\ pend[t] = None /\ live[p] # None
    /\ live' = [live EXCEPT ![p] = None]
    /\ pend' = [pend EXCEPT ![t] = Remove(p)]
    /\ UNCHANGED <<nextId, queue, dropped, writer, rows, published, monitor, faults, missed>>

\* A send that does not look at the room left.
EmitWriteUnbounded(op) == queue' = Append(queue, op) /\ UNCHANGED dropped

\* try_send: the event is queued, or dropped and counted.
EmitWrite(op) ==
    IF Len(queue) < Capacity
    THEN queue' = Append(queue, op) /\ UNCHANGED dropped
    ELSE dropped < MaxDrops /\ dropped' = dropped + 1 /\ UNCHANGED queue

Emit(t) ==
    /\ pend[t] # None
    /\ EmitWrite(pend[t])
    /\ pend' = [pend EXCEPT ![t] = None]
    /\ missed' = IF dropped' > dropped THEN missed \cup {pend[t].port} ELSE missed
    /\ UNCHANGED <<live, nextId, writer, rows, published, monitor, faults>>

----------------------------------------------------------------------------
(* The writer task.                                                        *)

\* apply(): Create replaces, Remove cancels a Create of the same batch, a touch
\* is folded into the entry and does not revive a Removed one.
Apply(b, op) ==
    LET p == op.port
        e == b[p]
    IN  CASE op.kind = "create" -> [b EXCEPT ![p] = New(op.row)]
          [] op.kind = "remove" ->
               [b EXCEPT ![p] = IF e # None /\ e.state = "new" THEN None ELSE Removed]
          [] op.kind = "touch" /\ e = None -> [b EXCEPT ![p] = Touched(op.rev)]
          [] op.kind = "touch" /\ e # None /\ e.state = "new" -> [b EXCEPT ![p].row.rev = op.rev]
          [] op.kind = "touch" /\ e # None /\ e.state = "touched" -> [b EXCEPT ![p].rev = op.rev]
          [] OTHER -> b

StartFlush(b, g) ==
    /\ out' = b /\ batch' = NoEntries
    /\ ackNext' = g /\ flushing' = TRUE /\ errs' = 0
    /\ UNCHANGED got

Recv ==
    /\ ~flushing /\ queue # << >> /\ Head(queue).kind # "barrier"
    /\ queue' = Tail(queue)
    /\ LET b == Apply(batch, Head(queue))
       IN  IF Cardinality(Entries(b)) >= BatchMax
           THEN StartFlush(b, 0)
           ELSE batch' = b /\ UNCHANGED <<out, got, ackNext, errs, flushing>>
    /\ UNCHANGED <<store, dropped, rows, published, monitor, faults, missed>>

\* A barrier that finds nothing to flush is not acknowledged.
RecvBarrierSilent ==
    /\ ~flushing /\ queue # << >> /\ Head(queue).kind = "barrier"
    /\ queue' = Tail(queue)
    /\ IF Entries(batch) = {} THEN UNCHANGED writer ELSE StartFlush(batch, Head(queue).gen)
    /\ UNCHANGED <<store, dropped, rows, published, monitor, faults, missed>>

\* A barrier: flush what came before it, then publish its generation.
RecvBarrier ==
    /\ ~flushing /\ queue # << >> /\ Head(queue).kind = "barrier"
    /\ queue' = Tail(queue)
    /\ IF Entries(batch) = {}
       THEN ack' = Head(queue).gen /\ UNCHANGED writer
       ELSE StartFlush(batch, Head(queue).gen) /\ UNCHANGED ack
    /\ UNCHANGED <<store, dropped, rows, errors, seen, monitor, faults, missed>>

\* batch_max_delay elapsed; the select is biased, a queued event goes first.
Deadline ==
    /\ ~flushing /\ Entries(batch) # {} /\ queue = << >>
    /\ StartFlush(batch, 0)
    /\ UNCHANGED <<store, queue, dropped, rows, published, monitor, faults, missed>>

\* flush_port: Removed and New are one call, Touched reads the row first.
FlushPort(p) ==
    /\ flushing /\ got = None /\ out[p] # None
    /\ CASE out[p].state = "removed" -> rows' = [rows EXCEPT ![p] = None] /\ UNCHANGED got
         [] out[p].state = "new" -> rows' = [rows EXCEPT ![p] = out[p].row] /\ UNCHANGED got
         [] out[p].state = "touched" /\ rows[p] = None -> UNCHANGED <<rows, got>>
         [] OTHER -> got' = [port |-> p, row |-> [rows[p] EXCEPT !.rev = out[p].rev]]
                     /\ UNCHANGED rows
    /\ out' = [out EXCEPT ![p] = None]
    /\ UNCHANGED <<store, queue, dropped, batch, ackNext, errs, flushing, published, monitor,
                   faults, missed>>

\* The merged row is written back.
FlushMerged ==
    /\ got # None
    /\ rows' = [rows EXCEPT ![got.port] = got.row] /\ got' = None
    /\ UNCHANGED <<store, queue, dropped, batch, out, ackNext, errs, flushing, published,
                   monitor, faults, missed>>

\* Between a resync and its acknowledgement the monitor checks for errors.
Watched == mon = "resync" \/ (mon = "await" /\ ack < gen)

\* A backend call fails: logged, counted, skipped.
FlushFails(p) ==
    /\ flushing /\ faults < MaxFaults
    /\ IF got # None
       THEN p = got.port /\ got' = None /\ UNCHANGED out
       ELSE out[p] # None /\ out' = [out EXCEPT ![p] = None] /\ UNCHANGED got
    /\ errs' = errs + 1 /\ faults' = faults + 1
    /\ missed' = IF Watched THEN missed ELSE missed \cup {p}
    /\ UNCHANGED <<store, queue, dropped, batch, ackNext, flushing, rows, published, monitor>>

\* The end of flush_batch: counters, sync_metrics, and a barrier's generation.
FlushEnd ==
    /\ flushing /\ got = None /\ Entries(out) = {}
    /\ errors' = errors + errs
    /\ seen' = IF dropped > 0 THEN dropped ELSE seen
    /\ ack' = IF ackNext > 0 THEN ackNext ELSE ack
    /\ flushing' = FALSE /\ ackNext' = 0 /\ errs' = 0
    /\ UNCHANGED <<store, queue, dropped, batch, out, got, rows, monitor, faults, missed>>

----------------------------------------------------------------------------
(* The readiness monitor and reconcile().                                  *)

\* A tick: new drops make the node Degraded, and both that and a Degraded node
\* without new drops start a pass, which takes its snapshot of the live ports.
Tick ==
    /\ mon = "idle" /\ ~draining /\ (seen > last \/ diverged)
    /\ diverged' = TRUE
    /\ confirm' = (seen <= last)
    /\ last' = seen
    /\ mark' = <<0, errors>>
    /\ todo' = {p \in Ports : live[p] = None}
    /\ mon' = "find"
    /\ UNCHANGED <<store, queue, dropped, writer, rows, published, drain, gen, faults, missed>>

\* The set_draining command, on or off.
SetDraining ==
    /\ toggles < MaxToggles /\ toggles' = toggles + 1
    /\ draining' = ~draining
    /\ UNCHANGED <<store, queue, dropped, writer, rows, published, mon, confirm, todo, last,
                   mark, gen, diverged, faults, missed>>

\* A tick that finds the node draining ends the task; nothing starts it again.
MonitorQuits ==
    /\ mon = "idle" /\ draining
    /\ mon' = "gone"
    /\ UNCHANGED <<store, queue, dropped, writer, rows, published, drain, confirm, todo, last,
                   mark, gen, diverged, faults, missed>>

\* find_by_node: the rows not in the snapshot are the zombies.
FindByNode ==
    /\ mon = "find"
    /\ todo' = {p \in todo : rows[p] # None}
    /\ mon' = "sweep"
    /\ UNCHANGED <<store, queue, dropped, writer, rows, published, drain, confirm, last, mark, gen,
                   diverged, faults, missed>>

DeleteZombie(p) ==
    /\ mon = "sweep" /\ p \in todo
    /\ rows' = [rows EXCEPT ![p] = None]
    /\ todo' = todo \ {p}
    /\ UNCHANGED <<store, queue, dropped, writer, published, drain, mon, confirm, last, mark, gen,
                   diverged, faults, missed>>

\* A backend error ends the pass; the node stays Degraded.
ReconcileFails ==
    /\ mon \in {"find", "sweep"} /\ faults < MaxFaults
    /\ faults' = faults + 1
    /\ mon' = "idle" /\ todo' = {}
    /\ UNCHANGED <<store, queue, dropped, writer, rows, published, drain, confirm, last, mark, gen,
                   diverged, missed>>

StartResync ==
    /\ mon = "sweep" /\ todo = {}
    /\ mark' = <<dropped, mark[2]>>
    /\ todo' = Ports /\ mon' = "resync"
    /\ UNCHANGED <<store, queue, dropped, writer, rows, published, drain, confirm, last, gen,
                   diverged, faults, missed>>

\* resync_all visits an entry under its guard and re-emits it as a Create.
ResyncEntry(p) ==
    /\ mon = "resync" /\ p \in todo
    /\ todo' = todo \ {p}
    /\ IF live[p] = None
       THEN UNCHANGED <<queue, dropped, missed>>
       ELSE EmitWrite(Create(p, live[p])) /\ missed' = missed \ {p}
    /\ UNCHANGED <<store, writer, rows, published, drain, mon, confirm, last, mark, gen, diverged,
                   faults>>

\* Drops of the resync itself do not count.
EndResyncUnchecked ==
    /\ mon = "resync" /\ todo = {} /\ Len(queue) < Capacity
    /\ gen' = gen + 1 /\ queue' = Append(queue, Barrier(gen + 1))
    /\ mon' = IF confirm THEN "await" ELSE "idle"
    /\ UNCHANGED <<store, dropped, writer, rows, published, drain, confirm, todo, last, mark,
                   diverged, faults, missed>>

\* The barrier goes through the same channel; with it and no drop since the
\* resync began, the confirming pass waits for its acknowledgement.
EndResync ==
    /\ mon = "resync" /\ todo = {} /\ Len(queue) < Capacity
    /\ gen' = gen + 1 /\ queue' = Append(queue, Barrier(gen + 1))
    /\ mon' = IF confirm /\ dropped = mark[1] THEN "await" ELSE "idle"
    /\ UNCHANGED <<store, dropped, writer, rows, published, drain, confirm, todo, last, mark,
                   diverged, faults, missed>>

\* The channel has no room for the barrier.
BarrierRefused ==
    /\ mon = "resync" /\ todo = {} /\ Len(queue) >= Capacity /\ faults < MaxFaults
    /\ faults' = faults + 1
    /\ gen' = gen + 1 /\ mon' = "idle"
    /\ UNCHANGED <<store, queue, dropped, writer, rows, published, drain, confirm, todo, last, mark,
                   diverged, missed>>

\* Acknowledged: Ready again unless a backend write failed meanwhile.
Acked ==
    /\ mon = "await" /\ ack >= gen
    /\ diverged' = (errors # mark[2])
    /\ mon' = "idle"
    /\ UNCHANGED <<store, queue, dropped, writer, rows, published, drain, confirm, todo, last, mark,
                   gen, faults, missed>>

\* RECONCILE_BARRIER_WAIT_SECS
AckTimeout ==
    /\ mon = "await" /\ ack < gen /\ faults < MaxFaults
    /\ faults' = faults + 1
    /\ mon' = "idle"
    /\ UNCHANGED <<store, queue, dropped, writer, rows, published, drain, confirm, todo, last, mark,
                   gen, diverged, missed>>

----------------------------------------------------------------------------
Writer == Recv \/ RecvBarrier \/ Deadline \/ FlushMerged \/ FlushEnd
          \/ \E p \in Ports : FlushPort(p)

Monitor == Tick \/ MonitorQuits \/ FindByNode \/ StartResync \/ EndResync \/ Acked
           \/ \E p \in Ports : DeleteZombie(p) \/ ResyncEntry(p)

Fault == ReconcileFails \/ BarrierRefused \/ AckTimeout
         \/ \E p \in Ports : FlushFails(p)

Next ==
    \/ \E t \in Threads : \/ Emit(t)
                          \/ \E p \in Ports : CreateAlloc(t, p) \/ TouchAlloc(t, p)
                                              \/ RemoveAlloc(t, p)
    \/ Writer \/ Monitor \/ SetDraining \/ Fault

Spec == Init /\ [][Next]_vars

\* The writer, the monitor and a thread with an event to emit keep running;
\* nothing makes a client come or go, or the backend fail.
FairSpec ==
    /\ Spec
    /\ WF_vars(Writer) /\ WF_vars(Monitor)
    /\ \A t \in Threads : WF_vars(Emit(t))

----------------------------------------------------------------------------
(* Properties                                                              *)

EntryType == Batched \cup {None}

\* Every variable has its type, and the channel keeps to its capacity.
TypeOK ==
    /\ live \in [Ports -> Rows \cup {None}] /\ rows \in [Ports -> Rows \cup {None}]
    /\ nextId \in 1 .. MaxId + 1
    /\ Len(queue) <= Capacity
    /\ dropped \in 0 .. MaxDrops /\ seen \in 0 .. dropped /\ last \in 0 .. seen
    /\ batch \in [Ports -> EntryType] /\ out \in [Ports -> EntryType]
    /\ Cardinality(Entries(batch)) < BatchMax
    /\ ack <= gen /\ errors + errs <= faults
    /\ mon \in {"idle", "find", "sweep", "resync", "await", "gone"}
    /\ todo \subseteq Ports
    /\ diverged \in BOOLEAN /\ draining \in BOOLEAN /\ flushing \in BOOLEAN
    /\ missed \subseteq Ports

\* Nothing on its way: every event emitted and flushed.
Quiet ==
    /\ \A t \in Threads : pend[t] = None
    /\ queue = << >> /\ Entries(batch) = {} /\ ~flushing /\ mon \in {"idle", "gone"}

\* A quiet node that is Ready has the current row of each of its allocations in
\* the backend, whatever was dropped, re-emitted, coalesced, refused or timed out
\* before.  Excused are only the ports whose event was dropped, or failed outside
\* the monitor's watch, after the last resync visited them: a resync that loses
\* its own events, or whose events fail, never makes the node Ready.
ReadyIsPersisted ==
    Quiet /\ ~diverged =>
        \A p \in Ports \ missed : live[p] # None => rows[p] = live[p]

\* In the same states no row outlives its allocation.
NoZombieRows ==
    Quiet /\ ~diverged =>
        \A p \in Ports \ missed : rows[p] # None => live[p] # None

\* A Degraded node that takes traffic heals itself: it does not stay Degraded for
\* ever (the monitor's reconcile passes), unless it is drained.
SelfHealing == diverged /\ ~draining ~> ~diverged \/ draining

\* A drop is noticed: the node acts on it.
DropsSurface == dropped > last ~> dropped = last
============================================================================
