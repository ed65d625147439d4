------------------------- MODULE WriteBehindProofs -------------------------
(***************************************************************************)
(* For any threads, ports, capacity and batch size, and any number of      *)
(* drops, faults and drains: the types, and that a quiet node that is      *)
(* Ready has its allocations in the backend, as long as no two threads     *)
(* have events of one port to emit at the same time.                       *)
(***************************************************************************)
EXTENDS WriteBehind, FiniteSetTheorems, SequenceTheorems, TLAPS

\* Every variable has its type.
Shapes ==
    /\ live \in [Ports -> Rows \cup {None}] /\ rows \in [Ports -> Rows \cup {None}]
    /\ nextId \in 1 .. MaxId + 1
    /\ pend \in [Threads -> Events \cup {None}]
    /\ queue \in Seq(Events \cup Barriers) /\ Len(queue) <= Capacity
    /\ dropped \in 0 .. MaxDrops /\ seen \in 0 .. dropped /\ last \in 0 .. seen
    /\ batch \in [Ports -> EntryType] /\ out \in [Ports -> EntryType]
    /\ got \in Reads \cup {None}
    /\ Cardinality(Entries(batch)) < BatchMax
    /\ errors \in Nat /\ errs \in Nat /\ faults \in Nat /\ errors + errs <= faults
    /\ mark \in Nat \X Nat
    /\ mon \in {"idle", "find", "sweep", "resync", "await", "gone"}
    /\ todo \subseteq Ports /\ missed \subseteq Ports
    /\ confirm \in BOOLEAN /\ diverged \in BOOLEAN
    /\ draining \in BOOLEAN /\ flushing \in BOOLEAN

\* No barrier is ahead of the generations.
Generations ==
    /\ ack \in Nat /\ gen \in Nat /\ ackNext \in Nat /\ ack <= gen /\ ackNext <= gen
    /\ \A i \in DOMAIN queue : queue[i].kind = "barrier" => queue[i].gen <= gen

\* Between flushes there is nothing left of one.
Flushed == ~flushing => out = NoEntries /\ got = None /\ errs = 0

\* A pass of the monitor is one of a Degraded node, and counts up from its marks.
Passing ==
    /\ mon \in {"find", "sweep", "resync", "await"} => diverged /\ mark[2] <= errors
    /\ mon = "resync" => mark[1] <= dropped

\* No two threads have yet to emit an event of the same port.
PortSerial ==
    \A t, u \in Threads :
        pend[t] # None /\ pend[u] # None /\ pend[t].port = pend[u].port => t = u

\* What is known of the row of a port: None when nothing is.
Merge(v, r) == IF v = None THEN None ELSE [v EXCEPT !.rev = r]

\* ... after the entry e of a batch is flushed,
Over(v, e) ==
    IF e = None THEN v
    ELSE IF e.state = "new" THEN e.row
    ELSE IF e.state = "touched" THEN Merge(v, e.rev)
    ELSE None

\* ... after the event op has gone through the writer,
After(v, op, p) ==
    IF op.kind = "barrier" THEN v
    ELSE IF op.port # p THEN v
    ELSE IF op.kind = "create" THEN op.row
    ELSE IF op.kind = "touch" THEN Merge(v, op.rev)
    ELSE None

\* ... after the write-back under way, and after the writer's batches.
Stored(p) == IF got = None THEN rows[p] ELSE IF got.port = p THEN got.row ELSE rows[p]
Base(p) == Over(Over(Stored(p), out[p]), batch[p])

\* v[i] is what is known of the row of p once the first i events of the channel
\* have been flushed.
Chain(p, v) ==
    /\ v \in [0 .. Len(queue) -> Rows \cup {None}]
    /\ v[0] \in {Base(p), None}
    /\ \A i \in 1 .. Len(queue) : v[i] \in {After(v[i - 1], queue[i], p), None}

\* What a thread has yet to emit agrees with the live allocation.
Current ==
    \A t \in Threads, p \in Ports :
        pend[t] # None /\ pend[t].port = p /\ live[p] # None =>
            live[p] = After(live[p], pend[t], p)

\* The channel leaves x in the row of p, as far as is known.
Ends(p, x) == \E v \in [0 .. Len(queue) -> Rows \cup {None}] : Chain(p, v) /\ v[Len(queue)] = x

\* From x the event that a thread has yet to emit leads to the live allocation.
Reaches(p, x) ==
    /\ \A t \in Threads :
        pend[t] # None /\ pend[t].port = p => live[p] = After(x, pend[t], p)
    /\ (\A t \in Threads : pend[t] = None \/ pend[t].port # p) => live[p] = x

Flow(p) == \E x \in Rows \cup {None} : Ends(p, x) /\ Reaches(p, x)

\* The monitor will not declare the node Ready before it has visited p again.
Unsure(p) ==
    /\ diverged
    /\ \/ mon \in {"idle", "gone", "find", "sweep"}
       \/ mon = "resync" /\ (p \in todo \/ dropped > mark[1] \/ errors + errs > mark[2])
       \/ mon = "await" /\ ack < gen /\ errors + errs > mark[2]
       \/ mon = "await" /\ ack >= gen /\ errors > mark[2]

\* A live allocation is on its way to the backend, or will be sent again.
Delivered == \A p \in Ports \ missed : live[p] # None => Flow(p) \/ Unsure(p)

----------------------------------------------------------------------------
(* Rows, events and entries *)

\* What an event carries; no event is None or a barrier.
LEMMA EventFields ==
    ASSUME NEW op \in Events
    PROVE  /\ op # None /\ op.kind \in {"create", "touch", "remove"} /\ op.port \in Ports
           /\ op.kind = "create" => op.row \in Rows
           /\ op.kind = "touch" => op.rev \in 0 .. MaxRev
<1>1. op # None
  BY WriteBehindAssumption
<1> QED
  BY <1>1 DEF Events

\* The events there are.
LEMMA EventForms ==
    ASSUME NEW p \in Ports
    PROVE  /\ \A a \in Rows : /\ Create(p, a) \in Events /\ Create(p, a).kind = "create"
                              /\ Create(p, a).port = p /\ Create(p, a).row = a
           /\ \A r \in 0 .. MaxRev : /\ Touch(p, r) \in Events /\ Touch(p, r).kind = "touch"
                                     /\ Touch(p, r).port = p /\ Touch(p, r).rev = r
           /\ Remove(p) \in Events /\ Remove(p).kind = "remove" /\ Remove(p).port = p
  BY DEF Events, Create, Touch, Remove

\* What an entry of a batch carries.
LEMMA EntryFields ==
    ASSUME NEW e \in EntryType, e # None
    PROVE  /\ e.state \in {"new", "touched", "removed"}
           /\ e.state = "new" => e.row \in Rows
           /\ e.state = "touched" => e.rev \in 0 .. MaxRev
  BY DEF EntryType, Batched

\* The entries there are; none is None.
LEMMA EntryForms ==
    /\ \A a \in Rows : /\ New(a) \in EntryType /\ New(a) # None
                       /\ New(a).state = "new" /\ New(a).row = a
    /\ \A r \in 0 .. MaxRev : /\ Touched(r) \in EntryType /\ Touched(r) # None
                              /\ Touched(r).state = "touched" /\ Touched(r).rev = r
    /\ Removed \in EntryType /\ Removed # None /\ Removed.state = "removed"
    /\ None \in EntryType
<1>1. ASSUME NEW a \in Rows
      PROVE  New(a) \in Batched /\ New(a).state = "new" /\ New(a).row = a
  BY DEF Batched, New
<1>2. ASSUME NEW r \in 0 .. MaxRev
      PROVE  Touched(r) \in Batched /\ Touched(r).state = "touched" /\ Touched(r).rev = r
  BY DEF Batched, Touched
<1>3. Removed \in Batched /\ Removed.state = "removed"
  BY DEF Batched, Removed
<1> QED
  BY <1>1, <1>2, <1>3, WriteBehindAssumption DEF EntryType

\* A row under another revision.
LEMMA Revised ==
    ASSUME NEW a \in Rows, NEW r \in 0 .. MaxRev
    PROVE  /\ a # None /\ [a EXCEPT !.rev = r] \in Rows /\ [a EXCEPT !.rev = r] # None
           /\ \A q \in 0 .. MaxRev : [[a EXCEPT !.rev = q] EXCEPT !.rev = r] = [a EXCEPT !.rev = r]
<1>1. [a EXCEPT !.rev = r] \in Rows
  BY DEF Rows
<1>2. \A q \in 0 .. MaxRev : [[a EXCEPT !.rev = q] EXCEPT !.rev = r] = [a EXCEPT !.rev = r]
  BY DEF Rows
<1> QED
  BY <1>1, <1>2, WriteBehindAssumption

\* A second revision replaces the first, and nothing known stays nothing known.
LEMMA MergeProperties ==
    ASSUME NEW v \in Rows \cup {None}, NEW r \in 0 .. MaxRev
    PROVE  /\ Merge(v, r) \in Rows \cup {None} /\ (Merge(v, r) = None <=> v = None)
           /\ \A q \in 0 .. MaxRev : Merge(Merge(v, q), r) = Merge(v, r)
<1>1. CASE v = None
  BY <1>1 DEF Merge
<1>2. CASE v # None
  <2>1. v \in Rows
    BY <1>2
  <2>2. Merge(v, r) = [v EXCEPT !.rev = r] /\ Merge(v, r) \in Rows /\ Merge(v, r) # None
    BY <1>2, <2>1, Revised DEF Merge
  <2>3. ASSUME NEW q \in 0 .. MaxRev PROVE Merge(Merge(v, q), r) = Merge(v, r)
    <3>1. /\ Merge(v, q) = [v EXCEPT !.rev = q] /\ Merge(v, q) # None
          /\ [[v EXCEPT !.rev = q] EXCEPT !.rev = r] = [v EXCEPT !.rev = r]
      BY <1>2, <2>1, Revised DEF Merge
    <3> QED
      BY <2>2, <3>1 DEF Merge
  <2> QED
    BY <1>2, <2>2, <2>3
<1> QED
  BY <1>1, <1>2

\* What is known stays a row, or nothing.
LEMMA KnownRows ==
    ASSUME NEW v \in Rows \cup {None}
    PROVE  /\ \A e \in EntryType : Over(v, e) \in Rows \cup {None}
           /\ \A op \in Events \cup Barriers, p \in Ports : After(v, op, p) \in Rows \cup {None}
<1>1. ASSUME NEW e \in EntryType PROVE Over(v, e) \in Rows \cup {None}
  BY EntryFields, MergeProperties DEF Over
<1>2. ASSUME NEW op \in Events, NEW p \in Ports PROVE After(v, op, p) \in Rows \cup {None}
  BY EventFields, MergeProperties DEF After
<1>3. ASSUME NEW op \in Barriers, NEW p \in Ports PROVE After(v, op, p) = v
  BY DEF After, Barriers
<1> QED
  BY <1>1, <1>2, <1>3

\* apply() of one event: another port's entry stays, and the entry of its own makes of
\* a row what the event would have made of it after the old entry.
LEMMA ApplyProperties ==
    ASSUME NEW b \in [Ports -> EntryType], NEW op \in Events
    PROVE  /\ Apply(b, op) \in [Ports -> EntryType]
           /\ \A q \in Ports : q # op.port => Apply(b, op)[q] = b[q]
           /\ \A v \in Rows \cup {None} :
                After(Over(v, b[op.port]), op, op.port) # None =>
                  Over(v, Apply(b, op)[op.port]) = After(Over(v, b[op.port]), op, op.port)
<1> DEFINE p == op.port
           e == b[op.port]
<1>1. /\ p \in Ports /\ e \in EntryType /\ op.kind \in {"create", "touch", "remove"}
      /\ op.kind = "create" => op.row \in Rows
      /\ op.kind = "touch" => op.rev \in 0 .. MaxRev
  BY EventFields
<1>2. SUFFICES \E f \in EntryType :
          /\ Apply(b, op) = [b EXCEPT ![p] = f]
          /\ \A v \in Rows \cup {None} :
               After(Over(v, e), op, p) # None => Over(v, f) = After(Over(v, e), op, p)
  BY <1>1
<1>3. CASE op.kind = "create"
  <2>1. Apply(b, op) = [b EXCEPT ![p] = New(op.row)]
    BY <1>3 DEF Apply
  <2>2. \A v \in Rows \cup {None} : Over(v, New(op.row)) = After(Over(v, e), op, p)
    BY <1>1, <1>3, EntryForms DEF Over, After
  <2> QED
    BY <1>1, <1>3, <2>1, <2>2, EntryForms
<1>4. CASE op.kind = "remove"
  <2>1. \A v \in Rows \cup {None} : After(Over(v, e), op, p) = None
    BY <1>4 DEF After
  <2>2. \/ Apply(b, op) = [b EXCEPT ![p] = None]
        \/ Apply(b, op) = [b EXCEPT ![p] = Removed]
    BY <1>4 DEF Apply
  <2> QED
    BY <2>1, <2>2, EntryForms
<1>5. CASE op.kind = "touch"
  <2>1. \A v \in Rows \cup {None} : After(Over(v, e), op, p) = Merge(Over(v, e), op.rev)
    BY <1>5 DEF After
  <2>2. CASE e = None
    <3>1. Apply(b, op) = [b EXCEPT ![p] = Touched(op.rev)]
      BY <1>5, <2>2 DEF Apply
    <3>2. \A v \in Rows \cup {None} : Over(v, e) = v /\ Over(v, Touched(op.rev)) = Merge(v, op.rev)
      BY <1>1, <1>5, <2>2, EntryForms DEF Over
    <3>3. PICK f \in EntryType : f = Touched(op.rev)
      BY <1>1, <1>5, EntryForms
    <3>4. \A v \in Rows \cup {None} : Over(v, f) = After(Over(v, e), op, p)
      BY <2>1, <3>2, <3>3
    <3> QED
      BY <3>1, <3>3, <3>4
  <2>3. CASE e # None /\ e.state = "new"
    <3>1. PICK a \in Rows : e = New(a)
      BY <1>1, <2>3 DEF EntryType, Batched, New
    <3>2. PICK c \in Rows : c = [a EXCEPT !.rev = op.rev]
      BY <1>1, <1>5, Revised
    <3>3. Apply(b, op) = [b EXCEPT ![p].row.rev = op.rev]
      BY <1>5, <2>3 DEF Apply
    <3>4. [b EXCEPT ![p].row.rev = op.rev] = [b EXCEPT ![p] = New(c)]
      <4>1. [b[p] EXCEPT !.row.rev = op.rev] = New(c)
        BY <3>1, <3>2 DEF New
      <4>2. [b EXCEPT ![p].row.rev = op.rev] = [b EXCEPT ![p] = [b[p] EXCEPT !.row.rev = op.rev]]
        BY <1>1, Zenon
      <4> QED
        BY <4>1, <4>2
    <3>5. \A v \in Rows \cup {None} : Over(v, e) = a /\ Over(v, New(c)) = c
      BY <2>3, <3>1, EntryForms DEF Over
    <3>6. Merge(a, op.rev) = c
      BY <1>1, <1>5, <3>2, Revised DEF Merge
    <3>7. PICK f \in EntryType : f = New(c)
      BY EntryForms
    <3> QED
      BY <2>1, <3>3, <3>4, <3>5, <3>6, <3>7
  <2>4. CASE e # None /\ e.state = "touched"
    <3>1. PICK q \in 0 .. MaxRev : e = Touched(q)
      BY <1>1, <2>4 DEF EntryType, Batched, Touched
    <3>2. Apply(b, op) = [b EXCEPT ![p].rev = op.rev]
      BY <1>5, <2>4 DEF Apply
    <3>3. [b EXCEPT ![p].rev = op.rev] = [b EXCEPT ![p] = Touched(op.rev)]
      <4>1. [b[p] EXCEPT !.rev = op.rev] = Touched(op.rev)
        BY <3>1 DEF Touched
      <4>2. [b EXCEPT ![p].rev = op.rev] = [b EXCEPT ![p] = [b[p] EXCEPT !.rev = op.rev]]
        BY <1>1, Zenon
      <4> QED
        BY <4>1, <4>2
    <3>4. \A v \in Rows \cup {None} :
            Over(v, e) = Merge(v, q) /\ Over(v, Touched(op.rev)) = Merge(v, op.rev)
      BY <1>1, <1>5, <2>4, <3>1, EntryForms DEF Over
    <3>5. PICK f \in EntryType : f = Touched(op.rev)
      BY <1>1, <1>5, EntryForms
    <3>6. \A v \in Rows \cup {None} : Merge(Merge(v, q), op.rev) = Merge(v, op.rev)
      BY <1>1, <1>5, MergeProperties
    <3>7. \A v \in Rows \cup {None} : Over(v, f) = After(Over(v, e), op, p)
      BY <2>1, <3>4, <3>5, <3>6
    <3> QED
      BY <3>2, <3>3, <3>5, <3>7
  <2>5. CASE e # None /\ e.state = "removed"
    <3>1. Apply(b, op) = [b EXCEPT ![p] = e]
      BY <1>1, <1>5, <2>5 DEF Apply
    <3>2. \A v \in Rows \cup {None} : Over(v, e) = None
      BY <2>5 DEF Over
    <3> QED
      BY <1>1, <2>1, <3>1, <3>2 DEF Merge
  <2> QED
    BY <1>1, <2>2, <2>3, <2>4, <2>5, EntryFields
<1> QED
  BY <1>1, <1>3, <1>4, <1>5

----------------------------------------------------------------------------
(* The channel *)

\* A send puts its message last.
LEMMA Sent ==
    ASSUME Shapes, NEW op \in Events \cup Barriers, Len(queue) < Capacity,
           queue' = Append(queue, op)
    PROVE  /\ queue' \in Seq(Events \cup Barriers) /\ Len(queue) \in Nat
           /\ Len(queue') = Len(queue) + 1 /\ Len(queue') <= Capacity
           /\ DOMAIN queue = 1 .. Len(queue) /\ DOMAIN queue' = 1 .. Len(queue) + 1
           /\ \A i \in 1 .. Len(queue) : queue'[i] = queue[i]
           /\ queue'[Len(queue) + 1] = op
<1>1. /\ queue \in Seq(Events \cup Barriers) /\ Len(queue) \in Nat
      /\ DOMAIN queue = 1 .. Len(queue) /\ Capacity \in Nat
  BY LenProperties, WriteBehindAssumption DEF Shapes
<1>2. /\ queue' \in Seq(Events \cup Barriers) /\ Len(queue') = Len(queue) + 1
      /\ \A i \in 1 .. Len(queue) : queue'[i] = queue[i]
      /\ queue'[Len(queue) + 1] = op
  BY <1>1, AppendProperties
<1>3. DOMAIN queue' = 1 .. Len(queue')
  BY <1>2, LenProperties
<1> QED
  BY <1>1, <1>2, <1>3

\* A receive takes the first.
LEMMA Taken ==
    ASSUME Shapes, queue # << >>, queue' = Tail(queue)
    PROVE  /\ queue' \in Seq(Events \cup Barriers) /\ Len(queue') <= Capacity
           /\ Head(queue) = queue[1] /\ queue[1] \in Events \cup Barriers
           /\ Len(queue) \in Nat /\ Len(queue) >= 1 /\ Len(queue') = Len(queue) - 1
           /\ DOMAIN queue = 1 .. Len(queue) /\ DOMAIN queue' = 1 .. Len(queue) - 1
           /\ \A i \in 1 .. Len(queue) - 1 : queue'[i] = queue[i + 1]
<1>1. /\ queue \in Seq(Events \cup Barriers) /\ Len(queue) \in Nat
      /\ DOMAIN queue = 1 .. Len(queue) /\ Capacity \in Nat
  BY LenProperties, WriteBehindAssumption DEF Shapes
<1>2. Len(queue) >= 1
  BY <1>1, EmptySeq
<1>3. /\ queue' \in Seq(Events \cup Barriers) /\ Len(queue') = Len(queue) - 1
      /\ \A i \in 1 .. Len(queue') : queue'[i] = queue[i + 1]
      /\ Head(queue) = queue[1] /\ queue[1] \in Events \cup Barriers
  BY <1>1, <1>2, HeadTailProperties, ElementOfSeq
<1>4. DOMAIN queue' = 1 .. Len(queue')
  BY <1>3, LenProperties
<1> QED
  BY <1>1, <1>2, <1>3, <1>4 DEF Shapes

\* emit_write queues an event or counts a drop.
LEMMA Emitted ==
    ASSUME Shapes, NEW op \in Events, EmitWrite(op)
    PROVE  /\ queue' \in Seq(Events \cup Barriers) /\ Len(queue') <= Capacity
           /\ dropped' \in 0 .. MaxDrops /\ dropped <= dropped'
           /\ \/ Len(queue) < Capacity /\ queue' = Append(queue, op) /\ UNCHANGED dropped
              \/ dropped' = dropped + 1 /\ UNCHANGED queue
<1>1. Len(queue) \in Nat /\ Capacity \in Nat /\ dropped \in Nat /\ MaxDrops \in Nat
  BY LenProperties, WriteBehindAssumption DEF Shapes
<1>2. CASE Len(queue) < Capacity
  BY <1>1, <1>2, Sent DEF EmitWrite, Shapes
<1>3. CASE ~(Len(queue) < Capacity)
  BY <1>1, <1>3 DEF EmitWrite, Shapes
<1> QED
  BY <1>2, <1>3

\* The empty batch.
LEMMA NoBatch ==
    /\ NoEntries \in [Ports -> EntryType]
    /\ Entries(NoEntries) = {} /\ Cardinality(Entries(NoEntries)) < BatchMax
<1>1. NoEntries \in [Ports -> EntryType] /\ Entries(NoEntries) = {}
  BY EntryForms DEF NoEntries, Entries
<1>2. Cardinality({}) = 0
  BY FS_EmptySet
<1> QED
  BY <1>1, <1>2, WriteBehindAssumption

\* A batch without entries is the empty one.
LEMMA EmptyBatch ==
    ASSUME NEW b \in [Ports -> EntryType], Entries(b) = {}
    PROVE  b = NoEntries
  BY DEF Entries, NoEntries

----------------------------------------------------------------------------
(* Types *)

\* Every action keeps the types.
LEMMA ShapesNext ==
    ASSUME Shapes, Generations, Next
    PROVE  Shapes'
<1>1. ASSUME NEW t \in Threads, NEW p \in Ports, CreateAlloc(t, p) PROVE Shapes'
  <2>1. nextId \in 1 .. MaxId /\ MaxId \in Nat /\ MaxRev \in Nat
    BY <1>1, WriteBehindAssumption DEF Shapes, CreateAlloc
  <2>2. PICK a \in Rows : a = [id |-> nextId, rev |-> 0]
    <3>1. 0 \in 0 .. MaxRev
      BY <2>1
    <3>2. [id |-> nextId, rev |-> 0] \in Rows
      BY <2>1, <3>1 DEF Rows
    <3> QED
      BY <3>2
  <2>3. /\ live' = [live EXCEPT ![p] = a] /\ pend' = [pend EXCEPT ![t] = Create(p, a)]
        /\ nextId' = nextId + 1 /\ missed' = missed \ {p}
    BY <1>1, <2>2 DEF CreateAlloc
  <2>4. Create(p, a) \in Events
    BY EventForms
  <2>5. /\ live' \in [Ports -> Rows \cup {None}] /\ pend' \in [Threads -> Events \cup {None}]
        /\ nextId' \in 1 .. MaxId + 1 /\ missed' \subseteq Ports
    BY <2>1, <2>3, <2>4 DEF Shapes
  <2>6. UNCHANGED <<rows, queue, dropped, seen, last, batch, out, got, errors, errs, faults,
                     mark, mon, todo, confirm, diverged, draining, flushing>>
    BY <1>1 DEF CreateAlloc, store, writer, drain, monitor, published
  <2> QED
    BY <2>5, <2>6 DEF Shapes
<1>2. ASSUME NEW t \in Threads, NEW p \in Ports, TouchAlloc(t, p) PROVE Shapes'
  <2>1. live[p] \in Rows /\ live[p].rev + 1 \in 0 .. MaxRev
    <3>1. live[p] \in Rows /\ live[p].rev < MaxRev /\ MaxRev \in Nat
      BY <1>2, WriteBehindAssumption DEF Shapes, TouchAlloc
    <3>2. live[p].rev \in 0 .. MaxRev
      BY <3>1 DEF Rows
    <3> QED
      BY <3>1, <3>2
  <2>2. PICK a \in Rows : a = [live[p] EXCEPT !.rev = live[p].rev + 1]
    BY <2>1, Revised
  <2>3. live' = [live EXCEPT ![p] = a]
    BY <1>2, <2>2 DEF TouchAlloc
  <2>4. Touch(p, live[p].rev + 1) \in Events
    BY <2>1, EventForms
  <2>5. live' \in [Ports -> Rows \cup {None}] /\ pend' \in [Threads -> Events \cup {None}]
    BY <1>2, <2>3, <2>4 DEF Shapes, TouchAlloc
  <2>6. UNCHANGED <<rows, nextId, queue, dropped, seen, last, batch, out, got, errors, errs,
                     faults, mark, mon, todo, missed, confirm, diverged, draining,
                     flushing>>
    BY <1>2 DEF TouchAlloc, store, writer, drain, monitor, published
  <2> QED
    BY <2>5, <2>6 DEF Shapes
<1>3. ASSUME NEW t \in Threads, NEW p \in Ports, RemoveAlloc(t, p) PROVE Shapes'
  <2>1. live' \in [Ports -> Rows \cup {None}] /\ pend' \in [Threads -> Events \cup {None}]
    BY <1>3, EventForms DEF Shapes, RemoveAlloc
  <2>2. UNCHANGED <<rows, nextId, queue, dropped, seen, last, batch, out, got, errors, errs,
                     faults, mark, mon, todo, missed, confirm, diverged, draining,
                     flushing>>
    BY <1>3 DEF RemoveAlloc, store, writer, drain, monitor, published
  <2> QED
    BY <2>1, <2>2 DEF Shapes
<1>4. ASSUME NEW t \in Threads, Emit(t) PROVE Shapes'
  <2>1. pend[t] \in Events /\ EmitWrite(pend[t]) /\ pend[t].port \in Ports
    BY <1>4, EventFields DEF Shapes, Emit
  <2>2. /\ queue' \in Seq(Events \cup Barriers) /\ Len(queue') <= Capacity
        /\ dropped' \in 0 .. MaxDrops /\ dropped <= dropped'
    BY <2>1, Emitted
  <2>3. pend' \in [Threads -> Events \cup {None}] /\ missed' \subseteq Ports
    BY <1>4, <2>1 DEF Shapes, Emit
  <2>4. seen \in 0 .. dropped'
    BY <2>2 DEF Shapes
  <2>5. UNCHANGED <<live, rows, nextId, seen, last, batch, out, got, errors, errs, faults,
                     mark, mon, todo, confirm, diverged, draining, flushing>>
    BY <1>4 DEF Emit, store, writer, drain, monitor, published
  <2> QED
    BY <2>2, <2>3, <2>4, <2>5 DEF Shapes
<1>5. ASSUME Recv PROVE Shapes'
  <2>1. /\ queue' \in Seq(Events \cup Barriers) /\ Len(queue') <= Capacity
        /\ Head(queue) \in Events \cup Barriers
    BY <1>5, Taken DEF Recv
  <2>2. PICK op \in Events : op = Head(queue)
    BY <1>5, <2>1 DEF Recv, Barriers
  <2>3. PICK b \in [Ports -> EntryType] : b = Apply(batch, op)
    BY ApplyProperties DEF Shapes
  <2>4. /\ batch' \in [Ports -> EntryType] /\ out' \in [Ports -> EntryType]
        /\ Cardinality(Entries(batch')) < BatchMax
    <3>1. CASE Cardinality(Entries(b)) >= BatchMax
      BY <1>5, <2>2, <2>3, <3>1, NoBatch DEF Recv, StartFlush
    <3>2. CASE ~(Cardinality(Entries(b)) >= BatchMax)
      <4>1. IsFiniteSet(Entries(b))
        BY WriteBehindAssumption, FS_Subset DEF Entries
      <4>2. Cardinality(Entries(b)) < BatchMax
        BY <3>2, <4>1, FS_CardinalityType, WriteBehindAssumption
      <4> QED
        BY <1>5, <2>2, <2>3, <3>2, <4>2 DEF Recv, Shapes
    <3> QED
      BY <3>1, <3>2
  <2>5. /\ got' = got /\ flushing' \in BOOLEAN
        /\ errs' \in Nat /\ errors + errs' <= faults
    <3>1. got' = got /\ flushing' \in {flushing, TRUE} /\ errs' \in {errs, 0}
      BY <1>5 DEF Recv, StartFlush
    <3>2. /\ flushing \in BOOLEAN /\ errs \in Nat /\ errors \in Nat /\ faults \in Nat
          /\ errors + errs <= faults
      BY DEF Shapes
    <3>3. flushing' \in BOOLEAN
      BY <3>1, <3>2, Zenon
    <3>4. errs' \in Nat /\ errors + errs' <= faults
      <4>1. CASE errs' = errs
        BY <3>2, <4>1
      <4>2. CASE errs' = 0
        BY <3>2, <4>2
      <4> QED
        BY <3>1, <4>1, <4>2
    <3> QED
      BY <3>1, <3>3, <3>4
  <2>6. UNCHANGED <<live, rows, nextId, pend, dropped, seen, last, errors, faults, mark,
                     mon, todo, missed, confirm, diverged, draining>>
    BY <1>5 DEF Recv, store, writer, drain, monitor, published
  <2> QED
    BY <2>1, <2>4, <2>5, <2>6 DEF Shapes
<1>6. ASSUME RecvBarrier PROVE Shapes'
  <2>1. queue' \in Seq(Events \cup Barriers) /\ Len(queue') <= Capacity
    BY <1>6, Taken DEF RecvBarrier
  <2>2. UNCHANGED <<live, rows, nextId, pend, dropped, seen, last, errors, faults, mark,
                     mon, todo, missed, confirm, diverged, draining>>
    BY <1>6 DEF RecvBarrier, store, writer, drain, monitor, published
  <2>3. CASE UNCHANGED writer
    BY <2>1, <2>2, <2>3 DEF Shapes, writer
  <2>4. CASE StartFlush(batch, Head(queue).gen)
    BY <2>1, <2>2, <2>4, NoBatch DEF Shapes, StartFlush
  <2> QED
    BY <1>6, <2>3, <2>4 DEF RecvBarrier
<1>7. ASSUME Deadline PROVE Shapes'
  <2>1. StartFlush(batch, 0)
    BY <1>7 DEF Deadline
  <2>2. UNCHANGED <<live, rows, nextId, pend, queue, dropped, seen, last, errors, faults,
                     mark, mon, todo, missed, confirm, diverged, draining>>
    BY <1>7 DEF Deadline, store, writer, drain, monitor, published
  <2> QED
    BY <2>1, <2>2, NoBatch DEF Shapes, StartFlush
<1>8. ASSUME NEW p \in Ports, FlushPort(p) PROVE Shapes'
  <2>1. out[p] \in EntryType /\ out[p] # None /\ rows[p] \in Rows \cup {None}
    BY <1>8 DEF FlushPort, Shapes
  <2>2. /\ out[p].state \in {"new", "touched", "removed"}
        /\ out[p].state = "new" => out[p].row \in Rows
        /\ out[p].state = "touched" => out[p].rev \in 0 .. MaxRev
    BY <2>1, EntryFields
  <2>3. rows' \in [Ports -> Rows \cup {None}] /\ got' \in Reads \cup {None}
    <3>1. CASE out[p].state = "removed"
      BY <1>8, <3>1 DEF FlushPort, Shapes
    <3>2. CASE out[p].state = "new"
      BY <1>8, <2>2, <3>2 DEF FlushPort, Shapes
    <3>3. CASE out[p].state = "touched" /\ rows[p] = None
      BY <1>8, <3>3 DEF FlushPort, Shapes
    <3>4. CASE out[p].state = "touched" /\ rows[p] # None
      <4>1. PICK a \in Rows : a = [rows[p] EXCEPT !.rev = out[p].rev]
        BY <2>1, <2>2, <3>4, Revised
      <4>2. got' = [port |-> p, row |-> a] /\ UNCHANGED rows
        BY <1>8, <3>4, <4>1 DEF FlushPort
      <4> QED
        BY <4>2 DEF Reads, Shapes
    <3> QED
      BY <2>2, <3>1, <3>2, <3>3, <3>4
  <2>4. out' \in [Ports -> EntryType]
    BY <1>8, EntryForms DEF FlushPort, Shapes
  <2>5. UNCHANGED <<live, nextId, pend, queue, dropped, seen, last, batch, errors, errs,
                     faults, mark, mon, todo, missed, confirm, diverged, draining,
                     flushing>>
    BY <1>8 DEF FlushPort, store, writer, drain, monitor, published
  <2> QED
    BY <2>3, <2>4, <2>5 DEF Shapes
<1>9. ASSUME FlushMerged PROVE Shapes'
  <2>1. got.port \in Ports /\ got.row \in Rows
    BY <1>9 DEF FlushMerged, Shapes, Reads
  <2>2. rows' \in [Ports -> Rows \cup {None}] /\ got' = None
    BY <1>9, <2>1 DEF FlushMerged, Shapes
  <2>3. UNCHANGED <<live, nextId, pend, queue, dropped, seen, last, batch, out, errors,
                     errs, faults, mark, mon, todo, missed, confirm, diverged,
                     draining, flushing>>
    BY <1>9 DEF FlushMerged, store, writer, drain, monitor, published
  <2> QED
    BY <2>2, <2>3 DEF Shapes
<1>10. ASSUME NEW p \in Ports, FlushFails(p) PROVE Shapes'
  <2>1. out' \in [Ports -> EntryType] /\ got' \in {got, None} /\ missed' \subseteq Ports
    BY <1>10, EntryForms DEF FlushFails, Shapes
  <2>2. /\ errs' = errs + 1 /\ faults' = faults + 1
        /\ UNCHANGED <<live, rows, nextId, pend, queue, dropped, seen, last, batch, errors,
                        mark, mon, todo, confirm, diverged, draining, flushing>>
    BY <1>10 DEF FlushFails, store, writer, drain, monitor, published
  <2> QED
    BY <2>1, <2>2 DEF Shapes
<1>11. ASSUME FlushEnd PROVE Shapes'
  <2>1. /\ seen' \in 0 .. dropped /\ last \in 0 .. seen'
        /\ errs' = 0 /\ errors' \in Nat /\ errors' + errs' <= faults /\ flushing' = FALSE
    BY <1>11 DEF FlushEnd, Shapes
  <2>2. UNCHANGED <<live, rows, nextId, pend, queue, dropped, last, batch, out, got, faults,
                     mark, mon, todo, missed, confirm, diverged, draining>>
    BY <1>11 DEF FlushEnd, store, writer, drain, monitor, published
  <2> QED
    BY <2>1, <2>2 DEF Shapes
<1>12. ASSUME Tick PROVE Shapes'
  <2>1. /\ last' \in 0 .. seen /\ mark' \in Nat \X Nat /\ mon' = "find" /\ todo' \subseteq Ports
        /\ confirm' \in BOOLEAN /\ diverged' = TRUE
    BY <1>12 DEF Tick, Shapes
  <2>2. UNCHANGED <<live, rows, nextId, pend, queue, dropped, seen, batch, out, got, errors,
                     errs, faults, missed, draining, flushing>>
    BY <1>12 DEF Tick, store, writer, drain, monitor, published
  <2> QED
    BY <2>1, <2>2 DEF Shapes
<1>13. ASSUME SetDraining PROVE Shapes'
  <2>1. draining' \in BOOLEAN
    BY <1>13 DEF SetDraining, Shapes
  <2>2. UNCHANGED <<live, rows, nextId, pend, queue, dropped, seen, last, batch, out, got,
                     errors, errs, faults, mark, mon, todo, missed, confirm,
                     diverged, flushing>>
    BY <1>13 DEF SetDraining, store, writer, drain, monitor, published
  <2> QED
    BY <2>1, <2>2 DEF Shapes
<1>14. ASSUME MonitorQuits PROVE Shapes'
  <2>1. mon' = "gone"
    BY <1>14 DEF MonitorQuits, Shapes
  <2>2. UNCHANGED <<live, rows, nextId, pend, queue, dropped, seen, last, batch, out, got,
                     errors, errs, faults, mark, todo, missed, confirm, diverged,
                     draining, flushing>>
    BY <1>14 DEF MonitorQuits, store, writer, drain, monitor, published
  <2> QED
    BY <2>1, <2>2 DEF Shapes
<1>15. ASSUME FindByNode PROVE Shapes'
  <2>1. mon' = "sweep" /\ todo' \subseteq Ports
    BY <1>15 DEF FindByNode, Shapes
  <2>2. UNCHANGED <<live, rows, nextId, pend, queue, dropped, seen, last, batch, out, got,
                     errors, errs, faults, mark, missed, confirm, diverged,
                     draining, flushing>>
    BY <1>15 DEF FindByNode, store, writer, drain, monitor, published
  <2> QED
    BY <2>1, <2>2 DEF Shapes
<1>16. ASSUME NEW p \in Ports, DeleteZombie(p) PROVE Shapes'
  <2>1. rows' \in [Ports -> Rows \cup {None}] /\ todo' \subseteq Ports
    BY <1>16 DEF DeleteZombie, Shapes
  <2>2. UNCHANGED <<live, nextId, pend, queue, dropped, seen, last, batch, out, got, errors,
                     errs, faults, mark, mon, missed, confirm, diverged, draining,
                     flushing>>
    BY <1>16 DEF DeleteZombie, store, writer, drain, monitor, published
  <2> QED
    BY <2>1, <2>2 DEF Shapes
<1>17. ASSUME ReconcileFails PROVE Shapes'
  <2>1. faults' = faults + 1 /\ mon' = "idle" /\ todo' = {}
    BY <1>17 DEF ReconcileFails, Shapes
  <2>2. UNCHANGED <<live, rows, nextId, pend, queue, dropped, seen, last, batch, out, got,
                     errors, errs, mark, missed, confirm, diverged, draining,
                     flushing>>
    BY <1>17 DEF ReconcileFails, store, writer, drain, monitor, published
  <2> QED
    BY <2>1, <2>2 DEF Shapes
<1>18. ASSUME StartResync PROVE Shapes'
  <2>1. mark' \in Nat \X Nat /\ mon' = "resync" /\ todo' = Ports
    BY <1>18 DEF StartResync, Shapes
  <2>2. UNCHANGED <<live, rows, nextId, pend, queue, dropped, seen, last, batch, out, got,
                     errors, errs, faults, missed, confirm, diverged, draining,
                     flushing>>
    BY <1>18 DEF StartResync, store, writer, drain, monitor, published
  <2> QED
    BY <2>1, <2>2 DEF Shapes
<1>19. ASSUME NEW p \in Ports, ResyncEntry(p) PROVE Shapes'
  <2>1. /\ queue' \in Seq(Events \cup Barriers) /\ Len(queue') <= Capacity
        /\ dropped' \in 0 .. MaxDrops /\ seen \in 0 .. dropped'
    <3>1. CASE live[p] = None
      BY <1>19, <3>1 DEF Shapes, ResyncEntry
    <3>2. CASE live[p] # None
      <4>1. Create(p, live[p]) \in Events
        BY <3>2, EventForms DEF Shapes
      <4> QED
        BY <1>19, <3>2, <4>1, Emitted DEF Shapes, ResyncEntry
    <3> QED
      BY <3>1, <3>2
  <2>2. todo' \subseteq Ports /\ missed' \subseteq Ports
    BY <1>19 DEF Shapes, ResyncEntry
  <2>3. UNCHANGED <<live, rows, nextId, pend, seen, last, batch, out, got, errors, errs,
                     faults, mark, mon, confirm, diverged, draining, flushing>>
    BY <1>19 DEF ResyncEntry, store, writer, drain, monitor, published
  <2> QED
    BY <2>1, <2>2, <2>3 DEF Shapes
<1>20. ASSUME EndResync PROVE Shapes'
  <2>1. Barrier(gen + 1) \in Barriers
    BY DEF Generations, Barrier, Barriers
  <2>2. queue' \in Seq(Events \cup Barriers) /\ Len(queue') <= Capacity
    BY <1>20, <2>1, Sent DEF EndResync
  <2>3. mon' \in {"idle", "await"}
    BY <1>20 DEF EndResync
  <2>4. UNCHANGED <<live, rows, nextId, pend, dropped, seen, last, batch, out, got, errors,
                     errs, faults, mark, todo, missed, confirm, diverged, draining,
                     flushing>>
    BY <1>20 DEF EndResync, store, writer, drain, monitor, published
  <2> QED
    BY <2>2, <2>3, <2>4 DEF Shapes
<1>21. ASSUME BarrierRefused PROVE Shapes'
  <2>1. faults' = faults + 1 /\ mon' = "idle"
    BY <1>21 DEF BarrierRefused, Shapes
  <2>2. UNCHANGED <<live, rows, nextId, pend, queue, dropped, seen, last, batch, out, got,
                     errors, errs, mark, todo, missed, confirm, diverged, draining,
                     flushing>>
    BY <1>21 DEF BarrierRefused, store, writer, drain, monitor, published
  <2> QED
    BY <2>1, <2>2 DEF Shapes
<1>22. ASSUME Acked PROVE Shapes'
  <2>1. mon' = "idle" /\ diverged' \in BOOLEAN
    BY <1>22 DEF Acked, Shapes
  <2>2. UNCHANGED <<live, rows, nextId, pend, queue, dropped, seen, last, batch, out, got,
                     errors, errs, faults, mark, todo, missed, confirm, draining,
                     flushing>>
    BY <1>22 DEF Acked, store, writer, drain, monitor, published
  <2> QED
    BY <2>1, <2>2 DEF Shapes
<1>23. ASSUME AckTimeout PROVE Shapes'
  <2>1. faults' = faults + 1 /\ mon' = "idle"
    BY <1>23 DEF AckTimeout, Shapes
  <2>2. UNCHANGED <<live, rows, nextId, pend, queue, dropped, seen, last, batch, out, got,
                     errors, errs, mark, todo, missed, confirm, diverged, draining,
                     flushing>>
    BY <1>23 DEF AckTimeout, store, writer, drain, monitor, published
  <2> QED
    BY <2>1, <2>2 DEF Shapes
<1> QED
  BY <1>1, <1>2, <1>3, <1>4, <1>5, <1>6, <1>7, <1>8, <1>9, <1>10, <1>11, <1>12, <1>13,
     <1>14, <1>15, <1>16, <1>17, <1>18, <1>19, <1>20, <1>21, <1>22, <1>23
  DEF Next, Writer, Monitor, Fault

\* Every action keeps barriers and acknowledgements behind the generations.
LEMMA GenerationsNext ==
    ASSUME Shapes, Generations, Next
    PROVE  Generations'
<1>1. ASSUME NEW t \in Threads, NEW p \in Ports, CreateAlloc(t, p) PROVE Generations'
  <2>1. UNCHANGED <<ack, gen, ackNext, queue>>
    BY <1>1 DEF CreateAlloc, store, writer, drain, monitor, published
  <2> QED
    BY <2>1 DEF Generations
<1>2. ASSUME NEW t \in Threads, NEW p \in Ports, TouchAlloc(t, p) PROVE Generations'
  <2>1. UNCHANGED <<ack, gen, ackNext, queue>>
    BY <1>2 DEF TouchAlloc, store, writer, drain, monitor, published
  <2> QED
    BY <2>1 DEF Generations
<1>3. ASSUME NEW t \in Threads, NEW p \in Ports, RemoveAlloc(t, p) PROVE Generations'
  <2>1. UNCHANGED <<ack, gen, ackNext, queue>>
    BY <1>3 DEF RemoveAlloc, store, writer, drain, monitor, published
  <2> QED
    BY <2>1 DEF Generations
<1>4. ASSUME NEW t \in Threads, Emit(t) PROVE Generations'
  <2>1. PICK op \in Events : EmitWrite(op) /\ UNCHANGED <<ack, gen, ackNext>>
    BY <1>4 DEF Emit, Shapes, store, writer, drain, monitor, published
  <2>2. CASE Len(queue) < Capacity /\ queue' = Append(queue, op)
    <3>1. /\ DOMAIN queue' = 1 .. Len(queue) + 1 /\ DOMAIN queue = 1 .. Len(queue)
          /\ Len(queue) \in Nat
          /\ \A i \in 1 .. Len(queue) : queue'[i] = queue[i]
          /\ queue'[Len(queue) + 1] = op
      BY <2>2, Sent
    <3> QED
      BY <2>1, <3>1, EventFields DEF Generations
  <2>3. CASE UNCHANGED queue
    BY <2>1, <2>3 DEF Generations
  <2> QED
    BY <2>1, <2>2, <2>3, Emitted
<1>5. ASSUME Recv PROVE Generations'
  <2>1. /\ DOMAIN queue = 1 .. Len(queue) /\ DOMAIN queue' = 1 .. Len(queue) - 1
        /\ Len(queue) \in Nat
        /\ \A i \in 1 .. Len(queue) - 1 : queue'[i] = queue[i + 1]
        /\ Head(queue) = queue[1] /\ Len(queue) >= 1 /\ queue[1] \in Events \cup Barriers
    BY <1>5, Taken DEF Recv
  <2>2. gen' = gen
    BY <1>5 DEF Recv, monitor
  <2>3. \A i \in DOMAIN queue' : queue'[i].kind = "barrier" => queue'[i].gen <= gen'
    BY <2>1, <2>2 DEF Generations
  <2>4. ack' = ack /\ ackNext' \in {ackNext, 0}
    BY <1>5 DEF Recv, StartFlush, published
  <2> QED
    BY <2>2, <2>3, <2>4 DEF Generations
<1>6. ASSUME RecvBarrier PROVE Generations'
  <2>1. /\ DOMAIN queue = 1 .. Len(queue) /\ DOMAIN queue' = 1 .. Len(queue) - 1
        /\ Len(queue) \in Nat
        /\ \A i \in 1 .. Len(queue) - 1 : queue'[i] = queue[i + 1]
        /\ Head(queue) = queue[1] /\ Len(queue) >= 1 /\ queue[1] \in Events \cup Barriers
    BY <1>6, Taken DEF RecvBarrier
  <2>2. gen' = gen
    BY <1>6 DEF RecvBarrier, monitor
  <2>3. \A i \in DOMAIN queue' : queue'[i].kind = "barrier" => queue'[i].gen <= gen'
    BY <2>1, <2>2 DEF Generations
  <2>4. Head(queue).gen \in Nat /\ Head(queue).gen <= gen
    BY <1>6, <2>1, EventFields DEF RecvBarrier, Generations, Barriers
  <2>5. ack' \in {ack, Head(queue).gen} /\ ackNext' \in {ackNext, Head(queue).gen}
    BY <1>6 DEF RecvBarrier, StartFlush, writer
  <2> QED
    BY <2>2, <2>3, <2>4, <2>5 DEF Generations
<1>7. ASSUME Deadline PROVE Generations'
  <2>1. UNCHANGED <<ack, gen, queue>> /\ ackNext' = 0
    BY <1>7 DEF Deadline, StartFlush, published, monitor
  <2> QED
    BY <2>1 DEF Generations
<1>8. ASSUME NEW p \in Ports, FlushPort(p) PROVE Generations'
  <2>1. UNCHANGED <<ack, gen, ackNext, queue>>
    BY <1>8 DEF FlushPort, store, writer, drain, monitor, published
  <2> QED
    BY <2>1 DEF Generations
<1>9. ASSUME FlushMerged PROVE Generations'
  <2>1. UNCHANGED <<ack, gen, ackNext, queue>>
    BY <1>9 DEF FlushMerged, store, writer, drain, monitor, published
  <2> QED
    BY <2>1 DEF Generations
<1>10. ASSUME NEW p \in Ports, FlushFails(p) PROVE Generations'
  <2>1. UNCHANGED <<ack, gen, ackNext, queue>>
    BY <1>10 DEF FlushFails, store, writer, drain, monitor, published
  <2> QED
    BY <2>1 DEF Generations
<1>11. ASSUME FlushEnd PROVE Generations'
  <2>1. UNCHANGED <<gen, queue>> /\ ackNext' = 0 /\ ack' \in {ack, ackNext}
    BY <1>11 DEF FlushEnd, monitor
  <2> QED
    BY <2>1 DEF Generations
<1>12. ASSUME Tick PROVE Generations'
  <2>1. UNCHANGED <<ack, gen, ackNext, queue>>
    BY <1>12 DEF Tick, store, writer, drain, monitor, published
  <2> QED
    BY <2>1 DEF Generations
<1>13. ASSUME SetDraining PROVE Generations'
  <2>1. UNCHANGED <<ack, gen, ackNext, queue>>
    BY <1>13 DEF SetDraining, store, writer, drain, monitor, published
  <2> QED
    BY <2>1 DEF Generations
<1>14. ASSUME MonitorQuits PROVE Generations'
  <2>1. UNCHANGED <<ack, gen, ackNext, queue>>
    BY <1>14 DEF MonitorQuits, store, writer, drain, monitor, published
  <2> QED
    BY <2>1 DEF Generations
<1>15. ASSUME FindByNode PROVE Generations'
  <2>1. UNCHANGED <<ack, gen, ackNext, queue>>
    BY <1>15 DEF FindByNode, store, writer, drain, monitor, published
  <2> QED
    BY <2>1 DEF Generations
<1>16. ASSUME NEW p \in Ports, DeleteZombie(p) PROVE Generations'
  <2>1. UNCHANGED <<ack, gen, ackNext, queue>>
    BY <1>16 DEF DeleteZombie, store, writer, drain, monitor, published
  <2> QED
    BY <2>1 DEF Generations
<1>17. ASSUME ReconcileFails PROVE Generations'
  <2>1. UNCHANGED <<ack, gen, ackNext, queue>>
    BY <1>17 DEF ReconcileFails, store, writer, drain, monitor, published
  <2> QED
    BY <2>1 DEF Generations
<1>18. ASSUME StartResync PROVE Generations'
  <2>1. UNCHANGED <<ack, gen, ackNext, queue>>
    BY <1>18 DEF StartResync, store, writer, drain, monitor, published
  <2> QED
    BY <2>1 DEF Generations
<1>19. ASSUME NEW p \in Ports, ResyncEntry(p) PROVE Generations'
  <2>1. UNCHANGED <<ack, gen, ackNext>>
    BY <1>19 DEF ResyncEntry, store, writer, drain, monitor, published
  <2>2. CASE UNCHANGED queue
    BY <2>1, <2>2 DEF Generations
  <2>3. CASE live[p] # None
    <3>1. PICK op \in Events : EmitWrite(op)
      BY <1>19, <2>3, EventForms DEF ResyncEntry, Shapes
    <3>2. CASE Len(queue) < Capacity /\ queue' = Append(queue, op)
      <4>1. /\ DOMAIN queue' = 1 .. Len(queue) + 1 /\ DOMAIN queue = 1 .. Len(queue)
            /\ Len(queue) \in Nat
            /\ \A i \in 1 .. Len(queue) : queue'[i] = queue[i]
            /\ queue'[Len(queue) + 1] = op
        BY <3>2, Sent
      <4> QED
        BY <2>1, <4>1, EventFields DEF Generations
    <3> QED
      BY <2>2, <3>1, <3>2, Emitted
  <2> QED
    BY <1>19, <2>2, <2>3 DEF ResyncEntry
<1>20. ASSUME EndResync PROVE Generations'
  <2>1. gen \in Nat /\ gen' = gen + 1 /\ UNCHANGED <<ack, ackNext>>
    BY <1>20 DEF EndResync, Generations, store, writer, drain, monitor, published
  <2>2. PICK op \in Barriers : op = Barrier(gen + 1) /\ op.kind = "barrier" /\ op.gen = gen + 1
    <3>1. /\ Barrier(gen + 1) \in Barriers /\ Barrier(gen + 1).kind = "barrier"
          /\ Barrier(gen + 1).gen = gen + 1
      BY <2>1 DEF Barrier, Barriers
    <3> QED
      BY <3>1
  <2>3. /\ DOMAIN queue' = 1 .. Len(queue) + 1 /\ DOMAIN queue = 1 .. Len(queue)
        /\ Len(queue) \in Nat
        /\ \A i \in 1 .. Len(queue) : queue'[i] = queue[i] /\ queue[i] \in Events \cup Barriers
        /\ queue'[Len(queue) + 1] = op
    BY <1>20, <2>2, Sent, ElementOfSeq DEF EndResync, Shapes
  <2>4. ASSUME NEW i \in DOMAIN queue', queue'[i].kind = "barrier" PROVE queue'[i].gen <= gen'
    <3>1. CASE i = Len(queue) + 1
      BY <2>1, <2>2, <2>3, <3>1
    <3>2. CASE i # Len(queue) + 1
      <4>1. i \in DOMAIN queue /\ queue[i].gen <= gen /\ queue[i] \in Barriers
        BY <2>3, <2>4, <3>2, EventFields DEF Generations
      <4>2. queue[i].gen \in Nat
        BY <4>1 DEF Barriers
      <4> QED
        BY <2>1, <2>3, <4>1, <4>2
    <3> QED
      BY <3>1, <3>2
  <2> QED
    BY <2>1, <2>4 DEF Generations
<1>21. ASSUME BarrierRefused PROVE Generations'
  <2>1. gen \in Nat /\ gen' = gen + 1 /\ UNCHANGED <<ack, ackNext, queue>>
    BY <1>21 DEF BarrierRefused, Generations, store, writer, drain, monitor, published
  <2>2. \A i \in DOMAIN queue : queue[i].kind = "barrier" => queue[i].gen \in Nat
    BY EventFields, LenProperties, ElementOfSeq DEF Shapes, Barriers
  <2> QED
    BY <2>1, <2>2 DEF Generations
<1>22. ASSUME Acked PROVE Generations'
  <2>1. UNCHANGED <<ack, gen, ackNext, queue>>
    BY <1>22 DEF Acked, store, writer, drain, monitor, published
  <2> QED
    BY <2>1 DEF Generations
<1>23. ASSUME AckTimeout PROVE Generations'
  <2>1. UNCHANGED <<ack, gen, ackNext, queue>>
    BY <1>23 DEF AckTimeout, store, writer, drain, monitor, published
  <2> QED
    BY <2>1 DEF Generations
<1> QED
  BY <1>1, <1>2, <1>3, <1>4, <1>5, <1>6, <1>7, <1>8, <1>9, <1>10, <1>11, <1>12, <1>13,
     <1>14, <1>15, <1>16, <1>17, <1>18, <1>19, <1>20, <1>21, <1>22, <1>23
  DEF Next, Writer, Monitor, Fault

\* Every action leaves nothing of a flush that has ended.
LEMMA FlushedNext ==
    ASSUME Shapes, Flushed, Next
    PROVE  Flushed'
<1>1. ASSUME NEW t \in Threads, NEW p \in Ports, CreateAlloc(t, p) PROVE Flushed'
  <2>1. UNCHANGED <<flushing, out, got, errs>>
    BY <1>1 DEF CreateAlloc, store, writer, drain, monitor, published
  <2> QED
    BY <2>1 DEF Flushed
<1>2. ASSUME NEW t \in Threads, NEW p \in Ports, TouchAlloc(t, p) PROVE Flushed'
  <2>1. UNCHANGED <<flushing, out, got, errs>>
    BY <1>2 DEF TouchAlloc, store, writer, drain, monitor, published
  <2> QED
    BY <2>1 DEF Flushed
<1>3. ASSUME NEW t \in Threads, NEW p \in Ports, RemoveAlloc(t, p) PROVE Flushed'
  <2>1. UNCHANGED <<flushing, out, got, errs>>
    BY <1>3 DEF RemoveAlloc, store, writer, drain, monitor, published
  <2> QED
    BY <2>1 DEF Flushed
<1>4. ASSUME NEW t \in Threads, Emit(t) PROVE Flushed'
  <2>1. UNCHANGED <<flushing, out, got, errs>>
    BY <1>4 DEF Emit, store, writer, drain, monitor, published
  <2> QED
    BY <2>1 DEF Flushed
<1>5. ASSUME Recv PROVE Flushed'
  <2>1. UNCHANGED <<flushing, out, got, errs>> \/ flushing' = TRUE
    BY <1>5 DEF Recv, StartFlush, writer
  <2> QED
    BY <2>1 DEF Flushed
<1>6. ASSUME RecvBarrier PROVE Flushed'
  <2>1. UNCHANGED <<flushing, out, got, errs>> \/ flushing' = TRUE
    BY <1>6 DEF RecvBarrier, StartFlush, writer
  <2> QED
    BY <2>1 DEF Flushed
<1>7. ASSUME Deadline PROVE Flushed'
  BY <1>7 DEF Deadline, StartFlush, Flushed
<1>8. ASSUME NEW p \in Ports, FlushPort(p) PROVE Flushed'
  BY <1>8 DEF FlushPort, Flushed
<1>9. ASSUME FlushMerged PROVE Flushed'
  BY <1>9 DEF FlushMerged, Flushed
<1>10. ASSUME NEW p \in Ports, FlushFails(p) PROVE Flushed'
  BY <1>10 DEF FlushFails, Flushed
<1>11. ASSUME FlushEnd PROVE Flushed'
  BY <1>11, EmptyBatch DEF FlushEnd, Flushed, Shapes
<1>12. ASSUME Tick PROVE Flushed'
  <2>1. UNCHANGED <<flushing, out, got, errs>>
    BY <1>12 DEF Tick, store, writer, drain, monitor, published
  <2> QED
    BY <2>1 DEF Flushed
<1>13. ASSUME SetDraining PROVE Flushed'
  <2>1. UNCHANGED <<flushing, out, got, errs>>
    BY <1>13 DEF SetDraining, store, writer, drain, monitor, published
  <2> QED
    BY <2>1 DEF Flushed
<1>14. ASSUME MonitorQuits PROVE Flushed'
  <2>1. UNCHANGED <<flushing, out, got, errs>>
    BY <1>14 DEF MonitorQuits, store, writer, drain, monitor, published
  <2> QED
    BY <2>1 DEF Flushed
<1>15. ASSUME FindByNode PROVE Flushed'
  <2>1. UNCHANGED <<flushing, out, got, errs>>
    BY <1>15 DEF FindByNode, store, writer, drain, monitor, published
  <2> QED
    BY <2>1 DEF Flushed
<1>16. ASSUME NEW p \in Ports, DeleteZombie(p) PROVE Flushed'
  <2>1. UNCHANGED <<flushing, out, got, errs>>
    BY <1>16 DEF DeleteZombie, store, writer, drain, monitor, published
  <2> QED
    BY <2>1 DEF Flushed
<1>17. ASSUME ReconcileFails PROVE Flushed'
  <2>1. UNCHANGED <<flushing, out, got, errs>>
    BY <1>17 DEF ReconcileFails, store, writer, drain, monitor, published
  <2> QED
    BY <2>1 DEF Flushed
<1>18. ASSUME StartResync PROVE Flushed'
  <2>1. UNCHANGED <<flushing, out, got, errs>>
    BY <1>18 DEF StartResync, store, writer, drain, monitor, published
  <2> QED
    BY <2>1 DEF Flushed
<1>19. ASSUME NEW p \in Ports, ResyncEntry(p) PROVE Flushed'
  <2>1. UNCHANGED <<flushing, out, got, errs>>
    BY <1>19 DEF ResyncEntry, store, writer, drain, monitor, published
  <2> QED
    BY <2>1 DEF Flushed
<1>20. ASSUME EndResync PROVE Flushed'
  <2>1. UNCHANGED <<flushing, out, got, errs>>
    BY <1>20 DEF EndResync, store, writer, drain, monitor, published
  <2> QED
    BY <2>1 DEF Flushed
<1>21. ASSUME BarrierRefused PROVE Flushed'
  <2>1. UNCHANGED <<flushing, out, got, errs>>
    BY <1>21 DEF BarrierRefused, store, writer, drain, monitor, published
  <2> QED
    BY <2>1 DEF Flushed
<1>22. ASSUME Acked PROVE Flushed'
  <2>1. UNCHANGED <<flushing, out, got, errs>>
    BY <1>22 DEF Acked, store, writer, drain, monitor, published
  <2> QED
    BY <2>1 DEF Flushed
<1>23. ASSUME AckTimeout PROVE Flushed'
  <2>1. UNCHANGED <<flushing, out, got, errs>>
    BY <1>23 DEF AckTimeout, store, writer, drain, monitor, published
  <2> QED
    BY <2>1 DEF Flushed
<1> QED
  BY <1>1, <1>2, <1>3, <1>4, <1>5, <1>6, <1>7, <1>8, <1>9, <1>10, <1>11, <1>12, <1>13,
     <1>14, <1>15, <1>16, <1>17, <1>18, <1>19, <1>20, <1>21, <1>22, <1>23
  DEF Next, Writer, Monitor, Fault

\* Every action keeps the marks of a pass behind the counters.
LEMMA PassingNext ==
    ASSUME Shapes, Passing, Next
    PROVE  Passing'
<1>1. ASSUME NEW t \in Threads, NEW p \in Ports, CreateAlloc(t, p) PROVE Passing'
  <2>1. UNCHANGED <<mon, diverged, mark, errors, dropped>>
    BY <1>1 DEF CreateAlloc, store, writer, drain, monitor, published
  <2> QED
    BY <2>1 DEF Passing
<1>2. ASSUME NEW t \in Threads, NEW p \in Ports, TouchAlloc(t, p) PROVE Passing'
  <2>1. UNCHANGED <<mon, diverged, mark, errors, dropped>>
    BY <1>2 DEF TouchAlloc, store, writer, drain, monitor, published
  <2> QED
    BY <2>1 DEF Passing
<1>3. ASSUME NEW t \in Threads, NEW p \in Ports, RemoveAlloc(t, p) PROVE Passing'
  <2>1. UNCHANGED <<mon, diverged, mark, errors, dropped>>
    BY <1>3 DEF RemoveAlloc, store, writer, drain, monitor, published
  <2> QED
    BY <2>1 DEF Passing
<1>4. ASSUME NEW t \in Threads, Emit(t) PROVE Passing'
  <2>1. dropped <= dropped' /\ dropped' \in Nat /\ UNCHANGED <<mon, diverged, mark, errors>>
    BY <1>4, Emitted DEF Emit, Shapes, store, writer, drain, monitor, published
  <2> QED
    BY <2>1 DEF Passing, Shapes
<1>5. ASSUME Recv PROVE Passing'
  <2>1. UNCHANGED <<mon, diverged, mark, errors, dropped>>
    BY <1>5 DEF Recv, store, writer, drain, monitor, published
  <2> QED
    BY <2>1 DEF Passing
<1>6. ASSUME RecvBarrier PROVE Passing'
  <2>1. UNCHANGED <<mon, diverged, mark, errors, dropped>>
    BY <1>6 DEF RecvBarrier, store, writer, drain, monitor, published
  <2> QED
    BY <2>1 DEF Passing
<1>7. ASSUME Deadline PROVE Passing'
  <2>1. UNCHANGED <<mon, diverged, mark, errors, dropped>>
    BY <1>7 DEF Deadline, store, writer, drain, monitor, published
  <2> QED
    BY <2>1 DEF Passing
<1>8. ASSUME NEW p \in Ports, FlushPort(p) PROVE Passing'
  <2>1. UNCHANGED <<mon, diverged, mark, errors, dropped>>
    BY <1>8 DEF FlushPort, store, writer, drain, monitor, published
  <2> QED
    BY <2>1 DEF Passing
<1>9. ASSUME FlushMerged PROVE Passing'
  <2>1. UNCHANGED <<mon, diverged, mark, errors, dropped>>
    BY <1>9 DEF FlushMerged, store, writer, drain, monitor, published
  <2> QED
    BY <2>1 DEF Passing
<1>10. ASSUME NEW p \in Ports, FlushFails(p) PROVE Passing'
  <2>1. UNCHANGED <<mon, diverged, mark, errors, dropped>>
    BY <1>10 DEF FlushFails, store, writer, drain, monitor, published
  <2> QED
    BY <2>1 DEF Passing
<1>11. ASSUME FlushEnd PROVE Passing'
  <2>1. errors' = errors + errs /\ UNCHANGED <<mon, diverged, mark, dropped>>
    BY <1>11 DEF FlushEnd, store, writer, drain, monitor, published
  <2> QED
    BY <2>1 DEF Passing, Shapes
<1>12. ASSUME Tick PROVE Passing'
  BY <1>12 DEF Tick, Passing, Shapes, published
<1>13. ASSUME SetDraining PROVE Passing'
  <2>1. UNCHANGED <<mon, diverged, mark, errors, dropped>>
    BY <1>13 DEF SetDraining, store, writer, drain, monitor, published
  <2> QED
    BY <2>1 DEF Passing
<1>14. ASSUME MonitorQuits PROVE Passing'
  BY <1>14 DEF MonitorQuits, Passing
<1>15. ASSUME FindByNode PROVE Passing'
  BY <1>15 DEF FindByNode, Passing, Shapes, published
<1>16. ASSUME NEW p \in Ports, DeleteZombie(p) PROVE Passing'
  <2>1. UNCHANGED <<mon, diverged, mark, errors, dropped>>
    BY <1>16 DEF DeleteZombie, store, writer, drain, monitor, published
  <2> QED
    BY <2>1 DEF Passing
<1>17. ASSUME ReconcileFails PROVE Passing'
  BY <1>17 DEF ReconcileFails, Passing
<1>18. ASSUME StartResync PROVE Passing'
  BY <1>18 DEF StartResync, Passing, Shapes, published
<1>19. ASSUME NEW p \in Ports, ResyncEntry(p) PROVE Passing'
  <2>1. dropped <= dropped' /\ dropped' \in Nat
    BY <1>19, Emitted, EventForms DEF ResyncEntry, Shapes
  <2>2. UNCHANGED <<mon, diverged, mark, errors>>
    BY <1>19 DEF ResyncEntry, store, writer, drain, monitor, published
  <2> QED
    BY <2>1, <2>2 DEF Passing, Shapes
<1>20. ASSUME EndResync PROVE Passing'
  BY <1>20 DEF EndResync, Passing, Shapes, published
<1>21. ASSUME BarrierRefused PROVE Passing'
  BY <1>21 DEF BarrierRefused, Passing
<1>22. ASSUME Acked PROVE Passing'
  BY <1>22 DEF Acked, Passing
<1>23. ASSUME AckTimeout PROVE Passing'
  BY <1>23 DEF AckTimeout, Passing
<1> QED
  BY <1>1, <1>2, <1>3, <1>4, <1>5, <1>6, <1>7, <1>8, <1>9, <1>10, <1>11, <1>12, <1>13,
     <1>14, <1>15, <1>16, <1>17, <1>18, <1>19, <1>20, <1>21, <1>22, <1>23
  DEF Next, Writer, Monitor, Fault

----------------------------------------------------------------------------
(* What becomes of a row *)

\* What is known is a row or nothing.
LEMMA BaseKnown ==
    ASSUME Shapes, NEW p \in Ports
    PROVE  Stored(p) \in Rows \cup {None} /\ Base(p) \in Rows \cup {None}
<1>1. Stored(p) \in Rows \cup {None}
  BY DEF Stored, Shapes, Reads
<1>2. out[p] \in EntryType /\ batch[p] \in EntryType
  BY DEF Shapes
<1> QED
  BY <1>1, <1>2, KnownRows DEF Base

\* It is always sound to know nothing.
LEMMA EndsNone ==
    ASSUME Shapes, NEW p \in Ports
    PROVE  Ends(p, None)
<1> DEFINE v == [i \in 0 .. Len(queue) |-> None]
<1>1. Len(queue) \in Nat
  BY LenProperties DEF Shapes
<1>2. v \in [0 .. Len(queue) -> Rows \cup {None}] /\ \A i \in 0 .. Len(queue) : v[i] = None
  OBVIOUS
<1> HIDE DEF v
<1>3. Chain(p, v) /\ v[Len(queue)] = None
  BY <1>1, <1>2 DEF Chain
<1> QED
  BY <1>2, <1>3 DEF Ends

\* The channel does not move, and what the writer makes of the row is what it was.
LEMMA EndsStay ==
    ASSUME NEW p \in Ports, NEW x, Ends(p, x), UNCHANGED queue,
           Base(p) = None \/ Base(p)' = Base(p)
    PROVE  Ends(p, x)'
<1>1. PICK v \in [0 .. Len(queue) -> Rows \cup {None}] : Chain(p, v) /\ v[Len(queue)] = x
  BY DEF Ends
<1>2. v[0] \in {Base(p)', None}
  BY <1>1 DEF Chain
<1>3. Chain(p, v)'
  BY <1>1, <1>2 DEF Chain
<1> QED
  BY <1>1, <1>3 DEF Ends

\* A message is sent.
LEMMA EndsSent ==
    ASSUME Shapes, NEW p \in Ports, NEW x \in Rows \cup {None}, Ends(p, x),
           NEW op \in Events \cup Barriers, Len(queue) < Capacity, queue' = Append(queue, op),
           Base(p)' = Base(p)
    PROVE  Ends(p, After(x, op, p))'
<1>1. PICK v \in [0 .. Len(queue) -> Rows \cup {None}] : Chain(p, v) /\ v[Len(queue)] = x
  BY DEF Ends
<1>2. PICK y \in Rows \cup {None} : y = After(x, op, p)
  BY KnownRows
<1>3. PICK n \in Nat : n = Len(queue)
  BY LenProperties DEF Shapes
<1>4. /\ Len(queue') = n + 1 /\ queue'[n + 1] = op
      /\ \A i \in 1 .. n : queue'[i] = queue[i]
  BY <1>3, Sent
<1> DEFINE w == [i \in 0 .. n + 1 |-> IF i = n + 1 THEN y ELSE v[i]]
<1>5. /\ w \in [0 .. n + 1 -> Rows \cup {None}] /\ w[n + 1] = y
      /\ \A i \in 0 .. n : w[i] = v[i]
  BY <1>3
<1> HIDE DEF w
<1>6. /\ v[0] \in {Base(p), None} /\ v[n] = x
      /\ \A i \in 1 .. n : v[i] \in {After(v[i - 1], queue[i], p), None}
  BY <1>1, <1>3 DEF Chain
<1>7. w[0] \in {Base(p)', None}
  BY <1>5, <1>6
<1>8. ASSUME NEW i \in 1 .. n + 1 PROVE w[i] \in {After(w[i - 1], queue'[i], p), None}
  <2>1. CASE i = n + 1
    BY <1>2, <1>4, <1>5, <1>6, <2>1
  <2>2. CASE i # n + 1
    <3>1. i \in 1 .. n /\ i - 1 \in 0 .. n /\ i \in 0 .. n
      BY <2>2
    <3> QED
      BY <1>4, <1>5, <1>6, <3>1
  <2> QED
    BY <2>1, <2>2
<1>9. Chain(p, w)'
  BY <1>4, <1>5, <1>7, <1>8 DEF Chain
<1>10. Ends(p, y)'
  BY <1>4, <1>5, <1>9 DEF Ends
<1> QED
  BY <1>2, <1>10

\* A message is received, and the writer does what it says.
LEMMA EndsTaken ==
    ASSUME Shapes, NEW p \in Ports, NEW x, Ends(p, x), queue # << >>, queue' = Tail(queue),
           \/ After(Base(p), Head(queue), p) = None
           \/ Base(p)' = After(Base(p), Head(queue), p)
    PROVE  Ends(p, x)'
<1>1. PICK v \in [0 .. Len(queue) -> Rows \cup {None}] : Chain(p, v) /\ v[Len(queue)] = x
  BY DEF Ends
<1>2. PICK n \in Nat : n + 1 = Len(queue)
  <2>1. Len(queue) \in Nat /\ Len(queue) >= 1
    BY Taken
  <2>2. Len(queue) - 1 \in Nat /\ (Len(queue) - 1) + 1 = Len(queue)
    BY <2>1
  <2> QED
    BY <2>2
<1>3. /\ Len(queue') = n /\ \A i \in 1 .. n : queue'[i] = queue[i + 1]
      /\ Head(queue) = queue[1] /\ queue[1] \in Events \cup Barriers
  BY <1>2, Taken
<1>4. /\ v[0] \in {Base(p), None} /\ v[n + 1] = x
      /\ \A i \in 1 .. n + 1 : v[i] \in {After(v[i - 1], queue[i], p), None}
      /\ v \in [0 .. n + 1 -> Rows \cup {None}]
  BY <1>1, <1>2 DEF Chain
<1>5. v[1] \in {Base(p)', None} \/ (v[0] = None /\ v[1] = After(None, queue[1], p))
  <2>1. v[1] \in {After(v[0], queue[1], p), None}
    <3>1. 1 \in 1 .. n + 1 /\ 1 - 1 = 0
      OBVIOUS
    <3> QED
      BY <1>4, <3>1
  <2> QED
    BY <1>3, <1>4, <2>1
<1>6. v[1] \in {Base(p)', None}
  <2>1. CASE v[0] = None /\ v[1] = After(None, queue[1], p)
    <3>1. \/ After(None, queue[1], p) = None
          \/ After(None, queue[1], p) = After(Base(p), queue[1], p)
      BY DEF After, Merge
    <3> QED
      BY <1>3, <2>1, <3>1
  <2> QED
    BY <1>5, <2>1
<1> DEFINE w == [i \in 0 .. n |-> v[i + 1]]
<1>7. w \in [0 .. n -> Rows \cup {None}] /\ \A i \in 0 .. n : w[i] = v[i + 1]
  BY <1>4
<1> HIDE DEF w
<1>8. ASSUME NEW i \in 1 .. n PROVE w[i] \in {After(w[i - 1], queue'[i], p), None}
  <2>1. /\ i \in 0 .. n /\ i - 1 \in 0 .. n /\ i + 1 \in 1 .. n + 1
        /\ (i + 1) - 1 = i /\ (i - 1) + 1 = i
    OBVIOUS
  <2>2. v[i + 1] \in {After(v[i], queue[i + 1], p), None}
    BY <1>4, <2>1
  <2> QED
    BY <1>3, <1>7, <2>1, <2>2
<1>9. w[0] \in {Base(p)', None} /\ w[n] = x
  BY <1>4, <1>6, <1>7
<1>10. Chain(p, w)'
  BY <1>3, <1>7, <1>8, <1>9 DEF Chain
<1> QED
  BY <1>3, <1>7, <1>9, <1>10 DEF Ends

----------------------------------------------------------------------------
(* Events that are yet to be emitted *)

\* A new allocation and its event.
LEMMA Created ==
    ASSUME Shapes, NEW t \in Threads, NEW p \in Ports, CreateAlloc(t, p)
    PROVE  \E op \in Events :
             /\ op.kind = "create" /\ op.port = p /\ op # None
             /\ pend[t] = None /\ pend'[t] = op /\ live'[p] = op.row
             /\ \A u \in Threads : u # t => pend'[u] = pend[u]
             /\ \A q \in Ports : q # p => live'[q] = live[q]
<1>1. nextId \in 1 .. MaxId /\ 0 \in 0 .. MaxRev
  BY WriteBehindAssumption DEF Shapes, CreateAlloc
<1>2. PICK a \in Rows : a = [id |-> nextId, rev |-> 0]
  <2>1. [id |-> nextId, rev |-> 0] \in Rows
    BY <1>1 DEF Rows
  <2> QED
    BY <2>1
<1>3. PICK op \in Events : /\ op = Create(p, a) /\ op.kind = "create" /\ op.port = p
                           /\ op.row = a /\ op # None
  BY EventForms, EventFields
<1>4. live' = [live EXCEPT ![p] = a] /\ pend' = [pend EXCEPT ![t] = op] /\ pend[t] = None
  BY <1>2, <1>3 DEF CreateAlloc
<1>5. live \in [Ports -> Rows \cup {None}] /\ pend \in [Threads -> Events \cup {None}]
  BY DEF Shapes
<1> QED
  BY <1>3, <1>4, <1>5

\* A new revision and its event.
LEMMA Revises ==
    ASSUME Shapes, NEW t \in Threads, NEW p \in Ports, TouchAlloc(t, p)
    PROVE  \E op \in Events :
             /\ op.kind = "touch" /\ op.port = p /\ op # None /\ op.rev \in 0 .. MaxRev
             /\ live[p] \in Rows
             /\ pend[t] = None /\ pend'[t] = op /\ live'[p] = Merge(live[p], op.rev)
             /\ \A u \in Threads : u # t => pend'[u] = pend[u]
             /\ \A q \in Ports : q # p => live'[q] = live[q]
<1>1. live[p] \in Rows /\ live[p].rev < MaxRev /\ MaxRev \in Nat /\ live[p] # None
  BY WriteBehindAssumption DEF Shapes, TouchAlloc
<1>2. live[p].rev \in 0 .. MaxRev
  BY <1>1 DEF Rows
<1>3. PICK r \in 0 .. MaxRev : r = live[p].rev + 1
  BY <1>1, <1>2
<1>4. PICK op \in Events : /\ op = Touch(p, r) /\ op.kind = "touch" /\ op.port = p
                           /\ op.rev = r /\ op # None
  BY EventForms, EventFields
<1>5. /\ live' = [live EXCEPT ![p] = [live[p] EXCEPT !.rev = r]]
      /\ pend' = [pend EXCEPT ![t] = op] /\ pend[t] = None
  BY <1>3, <1>4 DEF TouchAlloc
<1>6. live \in [Ports -> Rows \cup {None}] /\ pend \in [Threads -> Events \cup {None}]
  BY DEF Shapes
<1> QED
  BY <1>1, <1>4, <1>5, <1>6 DEF Merge

\* An allocation that ends and its event.
LEMMA Removes ==
    ASSUME Shapes, NEW t \in Threads, NEW p \in Ports, RemoveAlloc(t, p)
    PROVE  /\ pend[t] = None /\ pend'[t].port = p /\ pend'[t] # None /\ live'[p] = None
           /\ \A u \in Threads : u # t => pend'[u] = pend[u]
           /\ \A q \in Ports : q # p => live'[q] = live[q]
  BY EventForms, EventFields DEF RemoveAlloc, Shapes

\* Every action keeps what is yet to be emitted in agreement with the store, as long as no
\* two threads have events of one port.
LEMMA CurrentNext ==
    ASSUME Shapes, Current, PortSerial, PortSerial', Next
    PROVE  Current'
<1>1. ASSUME NEW t \in Threads, NEW p \in Ports, CreateAlloc(t, p) PROVE Current'
  <2>1. PICK op \in Events :
          /\ op.kind = "create" /\ op.port = p /\ op # None
          /\ pend'[t] = op /\ live'[p] = op.row
          /\ \A u \in Threads : u # t => pend'[u] = pend[u]
          /\ \A q \in Ports : q # p => live'[q] = live[q]
    BY <1>1, Created
  <2> SUFFICES ASSUME NEW u \in Threads, NEW q \in Ports, pend'[u] # None, pend'[u].port = q,
                      live'[q] # None
               PROVE  live'[q] = After(live'[q], pend'[u], q)
    BY DEF Current
  <2>2. CASE u = t
    BY <2>1, <2>2 DEF After
  <2>3. CASE u # t
    <3>1. pend'[u] = pend[u] /\ q # p
      BY <1>1, <2>1, <2>3 DEF PortSerial
    <3> QED
      BY <2>1, <3>1 DEF Current
  <2> QED
    BY <2>2, <2>3
<1>2. ASSUME NEW t \in Threads, NEW p \in Ports, TouchAlloc(t, p) PROVE Current'
  <2>1. PICK op \in Events :
          /\ op.kind = "touch" /\ op.port = p /\ op # None /\ op.rev \in 0 .. MaxRev
          /\ live[p] \in Rows /\ pend'[t] = op /\ live'[p] = Merge(live[p], op.rev)
          /\ \A u \in Threads : u # t => pend'[u] = pend[u]
          /\ \A q \in Ports : q # p => live'[q] = live[q]
    BY <1>2, Revises
  <2> SUFFICES ASSUME NEW u \in Threads, NEW q \in Ports, pend'[u] # None, pend'[u].port = q,
                      live'[q] # None
               PROVE  live'[q] = After(live'[q], pend'[u], q)
    BY DEF Current
  <2>2. CASE u = t
    <3>1. Merge(Merge(live[p], op.rev), op.rev) = Merge(live[p], op.rev)
      BY <2>1, MergeProperties
    <3> QED
      BY <2>1, <2>2, <3>1 DEF After
  <2>3. CASE u # t
    <3>1. pend'[u] = pend[u] /\ q # p
      BY <1>2, <2>1, <2>3 DEF PortSerial
    <3> QED
      BY <2>1, <3>1 DEF Current
  <2> QED
    BY <2>2, <2>3
<1>3. ASSUME NEW t \in Threads, NEW p \in Ports, RemoveAlloc(t, p) PROVE Current'
  <2>1. /\ pend'[t].port = p /\ pend'[t] # None /\ live'[p] = None
        /\ \A u \in Threads : u # t => pend'[u] = pend[u]
        /\ \A q \in Ports : q # p => live'[q] = live[q]
    BY <1>3, Removes
  <2> SUFFICES ASSUME NEW u \in Threads, NEW q \in Ports, pend'[u] # None, pend'[u].port = q,
                      live'[q] # None
               PROVE  live'[q] = After(live'[q], pend'[u], q)
    BY DEF Current
  <2>2. CASE u = t
    BY <2>1, <2>2
  <2>3. CASE u # t
    <3>1. pend'[u] = pend[u] /\ q # p
      BY <1>3, <2>1, <2>3 DEF PortSerial
    <3> QED
      BY <2>1, <3>1 DEF Current
  <2> QED
    BY <2>2, <2>3
<1>4. ASSUME NEW t \in Threads, Emit(t) PROVE Current'
  <2>1. /\ UNCHANGED live /\ pend'[t] = None
        /\ \A u \in Threads : u # t => pend'[u] = pend[u]
    BY <1>4 DEF Emit, Shapes
  <2> QED
    BY <2>1 DEF Current
<1>5. ASSUME Recv PROVE Current'
  <2>1. UNCHANGED <<pend, live>>
    BY <1>5 DEF Recv, store, writer, drain, monitor, published
  <2> QED
    BY <2>1 DEF Current
<1>6. ASSUME RecvBarrier PROVE Current'
  <2>1. UNCHANGED <<pend, live>>
    BY <1>6 DEF RecvBarrier, store, writer, drain, monitor, published
  <2> QED
    BY <2>1 DEF Current
<1>7. ASSUME Deadline PROVE Current'
  <2>1. UNCHANGED <<pend, live>>
    BY <1>7 DEF Deadline, store, writer, drain, monitor, published
  <2> QED
    BY <2>1 DEF Current
<1>8. ASSUME NEW p \in Ports, FlushPort(p) PROVE Current'
  <2>1. UNCHANGED <<pend, live>>
    BY <1>8 DEF FlushPort, store, writer, drain, monitor, published
  <2> QED
    BY <2>1 DEF Current
<1>9. ASSUME FlushMerged PROVE Current'
  <2>1. UNCHANGED <<pend, live>>
    BY <1>9 DEF FlushMerged, store, writer, drain, monitor, published
  <2> QED
    BY <2>1 DEF Current
<1>10. ASSUME NEW p \in Ports, FlushFails(p) PROVE Current'
  <2>1. UNCHANGED <<pend, live>>
    BY <1>10 DEF FlushFails, store, writer, drain, monitor, published
  <2> QED
    BY <2>1 DEF Current
<1>11. ASSUME FlushEnd PROVE Current'
  <2>1. UNCHANGED <<pend, live>>
    BY <1>11 DEF FlushEnd, store, writer, drain, monitor, published
  <2> QED
    BY <2>1 DEF Current
<1>12. ASSUME Tick PROVE Current'
  <2>1. UNCHANGED <<pend, live>>
    BY <1>12 DEF Tick, store, writer, drain, monitor, published
  <2> QED
    BY <2>1 DEF Current
<1>13. ASSUME SetDraining PROVE Current'
  <2>1. UNCHANGED <<pend, live>>
    BY <1>13 DEF SetDraining, store, writer, drain, monitor, published
  <2> QED
    BY <2>1 DEF Current
<1>14. ASSUME MonitorQuits PROVE Current'
  <2>1. UNCHANGED <<pend, live>>
    BY <1>14 DEF MonitorQuits, store, writer, drain, monitor, published
  <2> QED
    BY <2>1 DEF Current
<1>15. ASSUME FindByNode PROVE Current'
  <2>1. UNCHANGED <<pend, live>>
    BY <1>15 DEF FindByNode, store, writer, drain, monitor, published
  <2> QED
    BY <2>1 DEF Current
<1>16. ASSUME NEW p \in Ports, DeleteZombie(p) PROVE Current'
  <2>1. UNCHANGED <<pend, live>>
    BY <1>16 DEF DeleteZombie, store, writer, drain, monitor, published
  <2> QED
    BY <2>1 DEF Current
<1>17. ASSUME ReconcileFails PROVE Current'
  <2>1. UNCHANGED <<pend, live>>
    BY <1>17 DEF ReconcileFails, store, writer, drain, monitor, published
  <2> QED
    BY <2>1 DEF Current
<1>18. ASSUME StartResync PROVE Current'
  <2>1. UNCHANGED <<pend, live>>
    BY <1>18 DEF StartResync, store, writer, drain, monitor, published
  <2> QED
    BY <2>1 DEF Current
<1>19. ASSUME NEW p \in Ports, ResyncEntry(p) PROVE Current'
  <2>1. UNCHANGED <<pend, live>>
    BY <1>19 DEF ResyncEntry, store, writer, drain, monitor, published
  <2> QED
    BY <2>1 DEF Current
<1>20. ASSUME EndResync PROVE Current'
  <2>1. UNCHANGED <<pend, live>>
    BY <1>20 DEF EndResync, store, writer, drain, monitor, published
  <2> QED
    BY <2>1 DEF Current
<1>21. ASSUME BarrierRefused PROVE Current'
  <2>1. UNCHANGED <<pend, live>>
    BY <1>21 DEF BarrierRefused, store, writer, drain, monitor, published
  <2> QED
    BY <2>1 DEF Current
<1>22. ASSUME Acked PROVE Current'
  <2>1. UNCHANGED <<pend, live>>
    BY <1>22 DEF Acked, store, writer, drain, monitor, published
  <2> QED
    BY <2>1 DEF Current
<1>23. ASSUME AckTimeout PROVE Current'
  <2>1. UNCHANGED <<pend, live>>
    BY <1>23 DEF AckTimeout, store, writer, drain, monitor, published
  <2> QED
    BY <2>1 DEF Current
<1> QED
  BY <1>1, <1>2, <1>3, <1>4, <1>5, <1>6, <1>7, <1>8, <1>9, <1>10, <1>11, <1>12, <1>13,
     <1>14, <1>15, <1>16, <1>17, <1>18, <1>19, <1>20, <1>21, <1>22, <1>23
  DEF Next, Writer, Monitor, Fault

----------------------------------------------------------------------------
(* What is on its way *)

\* The types and the bookkeeping of the writer and of the monitor.
Typed == Shapes /\ Generations /\ Flushed /\ Passing

\* The inductive invariant.
Kept == Typed /\ Current /\ Delivered

\* A step that leaves the writer alone.
LEMMA BaseSame ==
    ASSUME UNCHANGED <<batch, out, got, rows>>, NEW p \in Ports
    PROVE  Base(p)' = Base(p)
  BY DEF Base, Stored

\* A step that leaves the monitor and the counters alone.
LEMMA UnsureSame ==
    ASSUME UNCHANGED <<diverged, mon, todo, dropped, mark, errors, errs, ack, gen>>,
           NEW p \in Ports, Unsure(p)
    PROVE  Unsure(p)'
  BY DEF Unsure

\* What thread t does concerns another port than q.
LEMMA ReachesOther ==
    ASSUME NEW q \in Ports, NEW x, Reaches(q, x), NEW t \in Threads, live'[q] = live[q],
           \A u \in Threads : u # t => pend'[u] = pend[u],
           pend[t] = None \/ pend[t].port # q, pend'[t] = None \/ pend'[t].port # q
    PROVE  Reaches(q, x)'
<1>1. \A u \in Threads :
        pend'[u] # None /\ pend'[u].port = q => pend'[u] = pend[u] /\ u # t
  OBVIOUS
<1>2. (\A u \in Threads : pend'[u] = None \/ pend'[u].port # q)
        => (\A u \in Threads : pend[u] = None \/ pend[u].port # q)
  OBVIOUS
<1>3. live[q] = x \/ ~(\A u \in Threads : pend[u] = None \/ pend[u].port # q)
  BY DEF Reaches
<1>4. \A u \in Threads : pend[u] # None /\ pend[u].port = q => live[q] = After(x, pend[u], q)
  BY DEF Reaches
<1>5. \A u \in Threads : pend'[u] # None /\ pend'[u].port = q => live'[q] = After(x, pend'[u], q)
  BY <1>1, <1>4
<1>6. (\A u \in Threads : pend'[u] = None \/ pend'[u].port # q) => live'[q] = x
  BY <1>2, <1>3
<1> QED
  BY <1>5, <1>6 DEF Reaches

\* So what flows to q still does.
LEMMA FlowOther ==
    ASSUME Shapes, NEW q \in Ports, Flow(q), NEW t \in Threads, live'[q] = live[q],
           UNCHANGED <<queue, batch, out, got, rows>>,
           \A u \in Threads : u # t => pend'[u] = pend[u],
           pend[t] = None \/ pend[t].port # q, pend'[t] = None \/ pend'[t].port # q
    PROVE  Flow(q)'
<1>1. PICK x \in Rows \cup {None} : Ends(q, x) /\ Reaches(q, x)
  BY DEF Flow
<1>2. Ends(q, x)'
  BY <1>1, BaseSame, EndsStay
<1>3. Reaches(q, x)'
  BY <1>1, ReachesOther
<1> QED
  BY <1>2, <1>3 DEF Flow

\* A step of the writer or of the monitor that leaves what is on its way to p.
Spares(p) ==
    \/ Unsure(p)'
    \/ (Base(p) = None \/ Base(p)' = Base(p)) /\ (Unsure(p) => Unsure(p)')

\* When it does so for every port, the invariant is kept.
LEMMA DeliveredStay ==
    ASSUME Delivered, UNCHANGED <<queue, pend, live>>, missed \subseteq missed',
           \A p \in Ports \ missed' : live[p] # None => Spares(p)
    PROVE  Delivered'
<1> SUFFICES ASSUME NEW p \in Ports, p \notin missed', live'[p] # None
             PROVE  Flow(p)' \/ Unsure(p)'
  BY DEF Delivered
<1>1. p \notin missed /\ live[p] # None /\ Spares(p) /\ (Flow(p) \/ Unsure(p))
  BY DEF Delivered
<1>2. CASE Unsure(p)'
  BY <1>2
<1>3. CASE Flow(p) /\ (Base(p) = None \/ Base(p)' = Base(p))
  <2>1. PICK x \in Rows \cup {None} : Ends(p, x) /\ Reaches(p, x)
    BY <1>3 DEF Flow
  <2>2. Ends(p, x)'
    BY <1>3, <2>1, EndsStay
  <2>3. Reaches(p, x)'
    BY <2>1 DEF Reaches
  <2> QED
    BY <2>2, <2>3 DEF Flow
<1> QED
  BY <1>1, <1>2, <1>3 DEF Spares

\* An event or a barrier is sent: what flows to another port, or past a barrier, does
\* so behind it.
LEMMA FlowBehind ==
    ASSUME Shapes, NEW q \in Ports, Flow(q), NEW op \in Events \cup Barriers,
           Len(queue) < Capacity, queue' = Append(queue, op), UNCHANGED <<batch, out, got, rows>>,
           op.kind = "barrier" \/ op.port # q, \A x : Reaches(q, x) => Reaches(q, x)'
    PROVE  Flow(q)'
<1>1. PICK x \in Rows \cup {None} : Ends(q, x) /\ Reaches(q, x)
  BY DEF Flow
<1>2. Base(q)' = Base(q) /\ After(x, op, q) = x
  BY BaseSame DEF After
<1>3. Ends(q, x)'
  BY <1>1, <1>2, EndsSent
<1> QED
  BY <1>1, <1>3 DEF Flow

\* The row of a port after the writer has received an event.
LEMMA RecvBase ==
    ASSUME Shapes, Flushed, Recv, NEW p \in Ports
    PROVE  \/ After(Base(p), Head(queue), p) = None
           \/ Base(p)' = After(Base(p), Head(queue), p)
<1>1. Head(queue) \in Events \cup Barriers /\ Head(queue).kind # "barrier"
  BY Taken DEF Recv
<1>2. PICK op \in Events : op = Head(queue)
  BY <1>1 DEF Barriers
<1>3. PICK b \in [Ports -> EntryType] : b = Apply(batch, op)
  BY ApplyProperties DEF Shapes
<1>4. out = NoEntries /\ out[p] = None /\ got = None /\ got' = None /\ rows' = rows
  BY DEF Recv, Flushed, NoEntries, StartFlush
<1>5. Stored(p)' = Stored(p)
  BY <1>4 DEF Stored
<1>6. \/ out' = b /\ batch' = NoEntries
      \/ out' = out /\ batch' = b
  BY <1>2, <1>3 DEF Recv, StartFlush
<1>7. PICK s \in Rows \cup {None} : s = Stored(p)
  BY BaseKnown
<1>8. Base(p) = Over(s, batch[p])
  BY <1>4, <1>7 DEF Base, Over
<1>9. Base(p)' = Over(s, b[p])
  <2>1. CASE out' = b /\ batch' = NoEntries
    BY <1>5, <1>7, <2>1 DEF Base, Over, NoEntries
  <2>2. CASE out' = out /\ batch' = b
    BY <1>4, <1>5, <1>7, <2>2 DEF Base, Over
  <2> QED
    BY <1>6, <2>1, <2>2
<1>10. CASE op.port = p
  <2>1. After(Over(s, batch[p]), op, p) # None => Over(s, b[p]) = After(Over(s, batch[p]), op, p)
    BY <1>3, <1>10, ApplyProperties DEF Shapes
  <2> QED
    BY <1>2, <1>8, <1>9, <2>1
<1>11. CASE op.port # p
  <2>1. b[p] = batch[p]
    BY <1>3, <1>11, ApplyProperties DEF Shapes
  <2>2. After(Base(p), op, p) = Base(p)
    BY <1>11 DEF After
  <2> QED
    BY <1>2, <1>8, <1>9, <2>1, <2>2
<1> QED
  BY <1>10, <1>11

\* Every action leaves each live allocation on its way to the backend, or with a monitor
\* that will send it again.
LEMMA DeliveredNext ==
    ASSUME Kept, PortSerial, PortSerial', Next
    PROVE  Delivered'
<1>1. ASSUME NEW t \in Threads, NEW p \in Ports, CreateAlloc(t, p) PROVE Delivered'
  <2>1. /\ UNCHANGED <<queue, batch, out, got, rows>> /\ missed' \in {missed, missed \ {p}}
        /\ UNCHANGED <<diverged, mon, todo, dropped, mark, errors, errs, ack, gen>>
    BY <1>1 DEF CreateAlloc, store, writer, drain, monitor, published
  <2>2. PICK op \in Events :
          /\ op.kind = "create" /\ op.port = p /\ op # None
          /\ pend[t] = None /\ pend'[t] = op /\ live'[p] = op.row
          /\ \A u \in Threads : u # t => pend'[u] = pend[u]
          /\ \A q \in Ports : q # p => live'[q] = live[q]
    BY <1>1, Created DEF Kept, Typed
  <2> SUFFICES ASSUME NEW q \in Ports, q \notin missed', live'[q] # None
               PROVE  Flow(q)' \/ Unsure(q)'
    BY DEF Delivered
  <2>3. CASE q # p
    <3>1. live'[q] = live[q] /\ q \notin missed /\ (Flow(q) \/ Unsure(q))
      BY <2>1, <2>2, <2>3 DEF Kept, Delivered
    <3>2. CASE Unsure(q)
      BY <2>1, <3>2, UnsureSame
    <3>3. CASE Flow(q)
      BY <2>1, <2>2, <2>3, <3>1, <3>3, FlowOther DEF Kept, Typed
    <3> QED
      BY <3>1, <3>2, <3>3
  <2>4. CASE q = p
    <3>1. Ends(p, None)'
      BY <2>1, EndsNone, EndsStay, BaseSame DEF Kept, Typed
    <3>2. \A u \in Threads : pend'[u] # None /\ pend'[u].port = p => u = t
      BY <2>2 DEF PortSerial
    <3>3. Reaches(p, None)'
      BY <2>2, <3>2 DEF Reaches, After
    <3> QED
      BY <2>4, <3>1, <3>3 DEF Flow
  <2> QED
    BY <2>3, <2>4
<1>2. ASSUME NEW t \in Threads, NEW p \in Ports, TouchAlloc(t, p) PROVE Delivered'
  <2>1. /\ UNCHANGED <<queue, batch, out, got, rows>> /\ missed' \in {missed, missed \ {p}}
        /\ UNCHANGED <<diverged, mon, todo, dropped, mark, errors, errs, ack, gen>>
    BY <1>2 DEF TouchAlloc, store, writer, drain, monitor, published
  <2>2. PICK op \in Events :
          /\ op.kind = "touch" /\ op.port = p /\ op # None /\ op.rev \in 0 .. MaxRev
          /\ live[p] \in Rows
          /\ pend[t] = None /\ pend'[t] = op /\ live'[p] = Merge(live[p], op.rev)
          /\ \A u \in Threads : u # t => pend'[u] = pend[u]
          /\ \A q \in Ports : q # p => live'[q] = live[q]
    BY <1>2, Revises DEF Kept, Typed
  <2> SUFFICES ASSUME NEW q \in Ports, q \notin missed', live'[q] # None
               PROVE  Flow(q)' \/ Unsure(q)'
    BY DEF Delivered
  <2>3. CASE q # p
    <3>1. live'[q] = live[q] /\ q \notin missed /\ (Flow(q) \/ Unsure(q))
      BY <2>1, <2>2, <2>3 DEF Kept, Delivered
    <3>2. CASE Unsure(q)
      BY <2>1, <3>2, UnsureSame
    <3>3. CASE Flow(q)
      BY <2>1, <2>2, <2>3, <3>1, <3>3, FlowOther DEF Kept, Typed
    <3> QED
      BY <3>1, <3>2, <3>3
  <2>4. CASE q = p
    <3>1. missed' = missed /\ live[p] # None
      BY <1>2 DEF TouchAlloc
    <3>2. Flow(p) \/ Unsure(p)
      BY <2>4, <3>1 DEF Kept, Delivered
    <3>3. CASE Unsure(p)
      BY <2>1, <2>4, <3>3, UnsureSame
    <3>4. CASE Flow(p)
      <4>1. \A u \in Threads : pend'[u] # None /\ pend'[u].port = p => u = t
        BY <2>2 DEF PortSerial
      <4>2. \A u \in Threads : pend[u] = None \/ pend[u].port # p
        BY <2>2, <4>1
      <4>3. Ends(p, live[p])
        BY <3>4, <4>2 DEF Flow, Reaches
      <4>4. PICK x \in Rows \cup {None} : x = live[p]
        BY <2>2
      <4>5. Ends(p, x)'
        BY <2>1, <4>3, <4>4, EndsStay, BaseSame
      <4>6. Reaches(p, x)'
        BY <2>2, <4>1, <4>4 DEF Reaches, After
      <4> QED
        BY <2>4, <4>5, <4>6 DEF Flow
    <3> QED
      BY <3>2, <3>3, <3>4
  <2> QED
    BY <2>3, <2>4
<1>3. ASSUME NEW t \in Threads, NEW p \in Ports, RemoveAlloc(t, p) PROVE Delivered'
  <2>1. /\ UNCHANGED <<queue, batch, out, got, rows>> /\ missed' \in {missed, missed \ {p}}
        /\ UNCHANGED <<diverged, mon, todo, dropped, mark, errors, errs, ack, gen>>
    BY <1>3 DEF RemoveAlloc, store, writer, drain, monitor, published
  <2>2. /\ pend[t] = None /\ pend'[t].port = p /\ pend'[t] # None /\ live'[p] = None
        /\ \A u \in Threads : u # t => pend'[u] = pend[u]
        /\ \A q \in Ports : q # p => live'[q] = live[q]
    BY <1>3, Removes DEF Kept, Typed
  <2> SUFFICES ASSUME NEW q \in Ports, q \notin missed', live'[q] # None
               PROVE  Flow(q)' \/ Unsure(q)'
    BY DEF Delivered
  <2>3. CASE q # p
    <3>1. live'[q] = live[q] /\ q \notin missed /\ (Flow(q) \/ Unsure(q))
      BY <2>1, <2>2, <2>3 DEF Kept, Delivered
    <3>2. CASE Unsure(q)
      BY <2>1, <3>2, UnsureSame
    <3>3. CASE Flow(q)
      BY <2>1, <2>2, <2>3, <3>1, <3>3, FlowOther DEF Kept, Typed
    <3> QED
      BY <3>1, <3>2, <3>3
  <2>4. CASE q = p
    BY <2>2, <2>4
  <2> QED
    BY <2>3, <2>4
<1>4. ASSUME NEW t \in Threads, Emit(t) PROVE Delivered'
  <2>1. /\ UNCHANGED <<batch, out, got, rows, live>>
        /\ UNCHANGED <<diverged, mon, todo, mark, errors, errs, ack, gen>>
        /\ pend' = [pend EXCEPT ![t] = None]
        /\ missed' = IF dropped' > dropped THEN missed \cup {pend[t].port} ELSE missed
    BY <1>4 DEF Emit, store, writer, drain, monitor, published
  <2>2. PICK op \in Events : op = pend[t] /\ op # None /\ EmitWrite(op) /\ op.port \in Ports
    BY <1>4, EventFields DEF Emit, Kept, Typed, Shapes
  <2>3. /\ pend'[t] = None /\ \A u \in Threads : u # t => pend'[u] = pend[u]
        /\ dropped \in Nat /\ dropped' \in Nat /\ mark[1] \in Nat
        /\ \/ Len(queue) < Capacity /\ queue' = Append(queue, op) /\ UNCHANGED dropped
           \/ dropped' = dropped + 1 /\ UNCHANGED queue
    BY <2>1, <2>2, Emitted DEF Kept, Typed, Shapes
  <2> SUFFICES ASSUME NEW q \in Ports, q \notin missed', live'[q] # None
               PROVE  Flow(q)' \/ Unsure(q)'
    BY DEF Delivered
  <2>4. q \notin missed /\ live[q] # None /\ (Flow(q) \/ Unsure(q))
    BY <2>1, <2>3 DEF Kept, Delivered
  <2>5. CASE Unsure(q)
    BY <2>1, <2>3, <2>5 DEF Unsure
  <2>6. CASE Flow(q) /\ dropped' = dropped + 1 /\ UNCHANGED queue
    <3>1. op.port # q
      BY <2>1, <2>2, <2>3, <2>6
    <3> QED
      BY <2>1, <2>2, <2>3, <2>6, <3>1, FlowOther DEF Kept, Typed
  <2>7. CASE Flow(q) /\ Len(queue) < Capacity /\ queue' = Append(queue, op)
    <3>1. CASE op.port # q
      <4>1. \A x : Reaches(q, x) => Reaches(q, x)'
        BY <2>1, <2>2, <2>3, <3>1, ReachesOther
      <4> QED
        BY <2>1, <2>7, <3>1, <4>1, FlowBehind DEF Kept, Typed
    <3>2. CASE op.port = q
      <4>1. PICK x \in Rows \cup {None} : Ends(q, x) /\ Reaches(q, x)
        BY <2>7 DEF Flow
      <4>2. live[q] = After(x, op, q)
        BY <2>2, <3>2, <4>1 DEF Reaches
      <4>3. PICK y \in Rows \cup {None} : y = After(x, op, q)
        BY KnownRows
      <4>4. Base(q)' = Base(q)
        BY <2>1, BaseSame
      <4>5. Ends(q, y)'
        BY <2>7, <4>1, <4>3, <4>4, EndsSent DEF Kept, Typed
      <4>6. \A u \in Threads : pend'[u] = None \/ pend'[u].port # q
        BY <2>2, <2>3, <3>2 DEF PortSerial
      <4>7. Reaches(q, y)'
        BY <2>1, <4>2, <4>3, <4>6 DEF Reaches
      <4> QED
        BY <4>5, <4>7 DEF Flow
    <3> QED
      BY <3>1, <3>2
  <2> QED
    BY <2>3, <2>4, <2>5, <2>6, <2>7
<1>5. ASSUME Recv PROVE Delivered'
  <2>1. /\ UNCHANGED <<pend, live, missed, diverged, mon, todo, dropped, mark, errors, ack, gen>>
        /\ queue # << >> /\ queue' = Tail(queue) /\ errs' = errs
    BY <1>5 DEF Recv, StartFlush, Kept, Typed, Flushed, store, writer, drain, monitor, published
  <2> SUFFICES ASSUME NEW q \in Ports, q \notin missed', live'[q] # None
               PROVE  Flow(q)' \/ Unsure(q)'
    BY DEF Delivered
  <2>2. Flow(q) \/ Unsure(q)
    BY <2>1 DEF Kept, Delivered
  <2>3. CASE Unsure(q)
    BY <2>1, <2>3, UnsureSame
  <2>4. CASE Flow(q)
    <3>1. PICK x \in Rows \cup {None} : Ends(q, x) /\ Reaches(q, x)
      BY <2>4 DEF Flow
    <3>2. Ends(q, x)'
      BY <1>5, <2>1, <3>1, RecvBase, EndsTaken DEF Kept, Typed
    <3>3. Reaches(q, x)'
      BY <2>1, <3>1 DEF Reaches
    <3> QED
      BY <3>2, <3>3 DEF Flow
  <2> QED
    BY <2>2, <2>3, <2>4
<1>6. ASSUME RecvBarrier PROVE Delivered'
  <2>1. /\ UNCHANGED <<pend, live, missed, diverged, mon, todo, dropped, mark, errors, gen>>
        /\ queue # << >> /\ queue' = Tail(queue) /\ errs' = 0 /\ errs = 0
        /\ Head(queue).kind = "barrier"
    BY <1>6 DEF RecvBarrier, StartFlush, Kept, Typed, Flushed, store, writer, drain, monitor,
                published
  <2>2. /\ out = NoEntries /\ UNCHANGED <<got, rows>>
        /\ UNCHANGED <<out, batch>> \/ (out' = batch /\ batch' = NoEntries)
    BY <1>6 DEF RecvBarrier, StartFlush, Kept, Typed, Flushed, store, writer, drain, monitor,
                published
  <2> SUFFICES ASSUME NEW q \in Ports, q \notin missed', live'[q] # None
               PROVE  Flow(q)' \/ Unsure(q)'
    BY DEF Delivered
  <2>3. Flow(q) \/ Unsure(q)
    BY <2>1 DEF Kept, Delivered
  <2>4. CASE Unsure(q)
    <3>1. /\ ack' \in Nat /\ gen \in Nat /\ errors \in Nat /\ mark[2] \in Nat
      <4>1. Generations'
        BY GenerationsNext, <1>6 DEF Kept, Typed, Next, Writer
      <4> QED
        BY <4>1 DEF Generations, Kept, Typed, Shapes
    <3> QED
      BY <2>1, <2>4, <3>1 DEF Unsure
  <2>5. CASE Flow(q)
    <3>1. PICK x \in Rows \cup {None} : Ends(q, x) /\ Reaches(q, x)
      BY <2>5 DEF Flow
    <3>2. Base(q)' = Base(q) /\ After(Base(q), Head(queue), q) = Base(q)
      BY <2>1, <2>2 DEF Base, Stored, Over, NoEntries, After
    <3>3. Ends(q, x)'
      BY <2>1, <3>1, <3>2, EndsTaken DEF Kept, Typed
    <3>4. Reaches(q, x)'
      BY <2>1, <3>1 DEF Reaches
    <3> QED
      BY <3>3, <3>4 DEF Flow
  <2> QED
    BY <2>3, <2>4, <2>5
<1>7. ASSUME Deadline PROVE Delivered'
  <2>1. /\ UNCHANGED <<queue, pend, live, missed, got, rows, errs>>
        /\ UNCHANGED <<diverged, mon, todo, dropped, mark, errors, ack, gen>>
        /\ out = NoEntries /\ out' = batch /\ batch' = NoEntries
    BY <1>7 DEF Deadline, StartFlush, Kept, Typed, Flushed, store, writer, drain, monitor, published
  <2>2. ASSUME NEW p \in Ports PROVE Spares(p)
    <3>1. Base(p)' = Base(p)
      BY <2>1 DEF Base, Stored, Over, NoEntries
    <3> QED
      BY <2>1, <3>1, UnsureSame DEF Spares
  <2> QED
    BY <2>1, <2>2, DeliveredStay DEF Kept
<1>8. ASSUME NEW p \in Ports, FlushPort(p) PROVE Delivered'
  <2>1. /\ UNCHANGED <<queue, pend, live, missed, batch>> /\ got = None
        /\ UNCHANGED <<diverged, mon, todo, dropped, mark, errors, errs, ack, gen>>
        /\ out' = [out EXCEPT ![p] = None] /\ out[p] # None /\ out[p] \in EntryType
        /\ rows[p] \in Rows \cup {None}
    BY <1>8 DEF FlushPort, Kept, Typed, Shapes, store, writer, drain, monitor, published
  <2>2. out'[p] = None /\ Stored(p) = rows[p] /\ Base(p) = Over(Over(rows[p], out[p]), batch[p])
    BY <2>1 DEF Kept, Typed, Shapes, Stored, Base
  <2>3. Stored(p)' = Over(rows[p], out[p]) \/ Over(rows[p], out[p]) = None
    <3>1. CASE out[p].state = "removed"
      BY <2>1, <3>1 DEF Over
    <3>2. CASE out[p].state = "new"
      <4>1. rows' = [rows EXCEPT ![p] = out[p].row] /\ got' = None
        BY <1>8, <2>1, <3>2 DEF FlushPort
      <4> QED
        BY <2>1, <3>2, <4>1 DEF Over, Stored, Kept, Typed, Shapes
    <3>3. CASE out[p].state = "touched" /\ rows[p] = None
      BY <2>1, <3>3 DEF Over, Merge
    <3>4. CASE out[p].state = "touched" /\ rows[p] # None
      <4>1. out[p].rev \in 0 .. MaxRev /\ rows[p] \in Rows
        BY <2>1, <3>4, EntryFields
      <4>2. PICK a \in Rows : a = [rows[p] EXCEPT !.rev = out[p].rev]
        BY <4>1, Revised
      <4>3. PICK g \in Reads : g = [port |-> p, row |-> a] /\ g.port = p /\ g.row = a
        <5>1. [port |-> p, row |-> a] \in Reads
          BY DEF Reads
        <5> QED
          BY <5>1
      <4>4. got' = g
        BY <1>8, <3>4, <4>2, <4>3 DEF FlushPort
      <4>5. g # None
        BY WriteBehindAssumption
      <4> QED
        BY <2>1, <3>4, <4>2, <4>3, <4>4, <4>5 DEF Over, Merge, Stored
    <3> QED
      BY <2>1, <3>1, <3>2, <3>3, <3>4, EntryFields
  <2>4. ASSUME NEW q \in Ports, q # p PROVE Stored(q)' = Stored(q) /\ out'[q] = out[q]
    <3>1. /\ rows'[q] = rows[q]
          /\ \/ got' = None
             \/ got' = [port |-> p, row |-> [rows[p] EXCEPT !.rev = out[p].rev]]
      BY <1>8, <2>1, <2>4 DEF FlushPort, Kept, Typed, Shapes
    <3>2. got' = None \/ got'.port = p
      BY <3>1
    <3>3. Stored(q)' = rows'[q] /\ Stored(q) = rows[q]
      BY <2>1, <2>4, <3>2 DEF Stored
    <3> QED
      BY <2>1, <2>4, <3>1, <3>3 DEF Kept, Typed, Shapes
  <2>5. ASSUME NEW q \in Ports PROVE Spares(q)
    <3>1. Base(q) = None \/ Base(q)' = Base(q) \/ (q = p /\ Over(rows[p], out[p]) = None)
      BY <2>1, <2>2, <2>3, <2>4 DEF Base, Over
    <3>2. Unsure(q) => Unsure(q)'
      BY <2>1, UnsureSame
    <3>3. CASE q = p /\ Over(rows[p], out[p]) = None
      <4>1. Base(p) = Over(None, batch[p]) /\ Base(p)' = Over(Stored(p)', batch[p])
        BY <2>1, <2>2, <3>3 DEF Base, Over
      <4>2. Base(p) = None \/ Base(p)' = Base(p)
        BY <4>1 DEF Over, Merge
      <4> QED
        BY <3>2, <3>3, <4>2 DEF Spares
    <3> QED
      BY <3>1, <3>2, <3>3 DEF Spares
  <2> QED
    BY <2>1, <2>5, DeliveredStay DEF Kept
<1>9. ASSUME FlushMerged PROVE Delivered'
  <2>1. /\ UNCHANGED <<queue, pend, live, missed, batch, out>>
        /\ UNCHANGED <<diverged, mon, todo, dropped, mark, errors, errs, ack, gen>>
        /\ got # None /\ got' = None /\ rows' = [rows EXCEPT ![got.port] = got.row]
    BY <1>9 DEF FlushMerged, store, writer, drain, monitor, published
  <2>2. ASSUME NEW p \in Ports PROVE Spares(p)
    <3>1. Stored(p)' = Stored(p)
      BY <2>1 DEF Stored, Kept, Typed, Shapes
    <3>2. Base(p)' = Base(p)
      BY <2>1, <3>1 DEF Base
    <3> QED
      BY <2>1, <3>2, UnsureSame DEF Spares
  <2> QED
    BY <2>1, <2>2, DeliveredStay DEF Kept
<1>10. ASSUME NEW p \in Ports, FlushFails(p) PROVE Delivered'
  <2>1. /\ UNCHANGED <<queue, pend, live, batch, rows>>
        /\ UNCHANGED <<diverged, mon, todo, dropped, mark, errors, ack, gen>>
        /\ errs' = errs + 1 /\ missed' = IF Watched THEN missed ELSE missed \cup {p}
    BY <1>10 DEF FlushFails, store, writer, drain, monitor, published
  <2>2. /\ errors \in Nat /\ errs \in Nat /\ ack \in Nat /\ gen \in Nat /\ mark[2] \in Nat
    BY DEF Kept, Typed, Shapes, Generations
  <2>3. ASSUME NEW q \in Ports, q \notin missed' PROVE Spares(q)
    <3>1. CASE q # p
      <4>1. Stored(q)' = Stored(q) /\ out'[q] = out[q]
        BY <1>10, <2>1, <3>1 DEF FlushFails, Stored, Kept, Typed, Shapes
      <4>2. Base(q)' = Base(q)
        BY <2>1, <4>1 DEF Base
      <4>3. Unsure(q) => Unsure(q)'
        BY <2>1, <2>2 DEF Unsure
      <4> QED
        BY <4>2, <4>3 DEF Spares
    <3>2. CASE q = p
      <4>1. Watched
        BY <2>1, <2>3, <3>2
      <4>2. diverged /\ mark[2] <= errors
        BY <4>1 DEF Watched, Kept, Typed, Passing
      <4>3. Unsure(q)'
        BY <2>1, <2>2, <4>1, <4>2 DEF Unsure, Watched
      <4> QED
        BY <4>3 DEF Spares
    <3> QED
      BY <3>1, <3>2
  <2> QED
    BY <2>1, <2>3, DeliveredStay DEF Kept
<1>11. ASSUME FlushEnd PROVE Delivered'
  <2>1. /\ UNCHANGED <<queue, pend, live, missed, batch, out, got, rows>>
        /\ UNCHANGED <<diverged, mon, todo, dropped, mark, gen>>
        /\ errors' = errors + errs /\ errs' = 0 /\ ack' \in {ack, ackNext}
    BY <1>11 DEF FlushEnd, store, writer, drain, monitor, published
  <2>2. /\ errors \in Nat /\ errs \in Nat /\ ack' \in Nat /\ gen \in Nat /\ mark[2] \in Nat
    BY <2>1 DEF Kept, Typed, Shapes, Generations
  <2>3. ASSUME NEW p \in Ports PROVE Spares(p)
    <3>1. Base(p)' = Base(p)
      BY <2>1, BaseSame
    <3>2. Unsure(p) => Unsure(p)'
      BY <2>1, <2>2 DEF Unsure
    <3> QED
      BY <3>1, <3>2 DEF Spares
  <2> QED
    BY <2>1, <2>3, DeliveredStay DEF Kept
<1>12. ASSUME Tick PROVE Delivered'
  <2>1. UNCHANGED <<queue, pend, live, batch, out, got, rows>> /\ missed' = missed
    BY <1>12 DEF Tick, store, writer, drain, monitor, published
  <2>2. ASSUME NEW p \in Ports PROVE Spares(p)
    BY <1>12 DEF Tick, Kept, Typed, Passing, Spares, Unsure
  <2> QED
    BY <2>1, <2>2, DeliveredStay DEF Kept
<1>13. ASSUME SetDraining PROVE Delivered'
  <2>1. UNCHANGED <<queue, pend, live, batch, out, got, rows>> /\ missed' = missed
    BY <1>13 DEF SetDraining, store, writer, drain, monitor, published
  <2>2. ASSUME NEW p \in Ports PROVE Spares(p)
    <3>1. Base(p)' = Base(p)
      BY <2>1, BaseSame
    <3>2. Unsure(p) => Unsure(p)'
      BY <1>13, UnsureSame DEF SetDraining, writer, published
    <3> QED
      BY <3>1, <3>2 DEF Spares
  <2> QED
    BY <2>1, <2>2, DeliveredStay DEF Kept
<1>14. ASSUME MonitorQuits PROVE Delivered'
  <2>1. UNCHANGED <<queue, pend, live, batch, out, got, rows>> /\ missed' = missed
    BY <1>14 DEF MonitorQuits, store, writer, drain, monitor, published
  <2>2. ASSUME NEW p \in Ports PROVE Spares(p)
    BY <1>14, <2>1, BaseSame DEF MonitorQuits, Spares, Unsure
  <2> QED
    BY <2>1, <2>2, DeliveredStay DEF Kept
<1>15. ASSUME FindByNode PROVE Delivered'
  <2>1. UNCHANGED <<queue, pend, live, batch, out, got, rows>> /\ missed' = missed
    BY <1>15 DEF FindByNode, store, writer, drain, monitor, published
  <2>2. ASSUME NEW p \in Ports PROVE Spares(p)
    BY <1>15 DEF FindByNode, Kept, Typed, Passing, Spares, Unsure
  <2> QED
    BY <2>1, <2>2, DeliveredStay DEF Kept
<1>16. ASSUME NEW p \in Ports, DeleteZombie(p) PROVE Delivered'
  <2>1. UNCHANGED <<queue, pend, live>> /\ missed' = missed
    BY <1>16 DEF DeleteZombie, store, writer, drain, monitor, published
  <2>2. ASSUME NEW q \in Ports PROVE Spares(q)
    BY <1>16 DEF DeleteZombie, Kept, Typed, Passing, Spares, Unsure
  <2> QED
    BY <2>1, <2>2, DeliveredStay DEF Kept
<1>17. ASSUME ReconcileFails PROVE Delivered'
  <2>1. UNCHANGED <<queue, pend, live, batch, out, got, rows>> /\ missed' = missed
    BY <1>17 DEF ReconcileFails, store, writer, drain, monitor, published
  <2>2. ASSUME NEW p \in Ports PROVE Spares(p)
    BY <1>17 DEF ReconcileFails, Kept, Typed, Passing, Spares, Unsure
  <2> QED
    BY <2>1, <2>2, DeliveredStay DEF Kept
<1>18. ASSUME StartResync PROVE Delivered'
  <2>1. UNCHANGED <<queue, pend, live, batch, out, got, rows>> /\ missed' = missed
    BY <1>18 DEF StartResync, store, writer, drain, monitor, published
  <2>2. ASSUME NEW p \in Ports PROVE Spares(p)
    BY <1>18 DEF StartResync, Kept, Typed, Passing, Spares, Unsure
  <2> QED
    BY <2>1, <2>2, DeliveredStay DEF Kept
<1>19. ASSUME NEW p \in Ports, ResyncEntry(p) PROVE Delivered'
  <2>1. /\ UNCHANGED <<batch, out, got, rows, live, pend>> /\ mon = "resync"
        /\ UNCHANGED <<diverged, mon, mark, errors, errs, ack, gen>>
        /\ todo' = todo \ {p}
    BY <1>19 DEF ResyncEntry, store, writer, drain, monitor, published
  <2>2. /\ diverged /\ dropped \in Nat /\ mark[1] \in Nat /\ mark[1] <= dropped
    BY <2>1 DEF Kept, Typed, Passing, Shapes
  <2>3. CASE live[p] = None
    <3>1. UNCHANGED <<queue, dropped, missed>>
      BY <1>19, <2>3 DEF ResyncEntry
    <3>2. ASSUME NEW q \in Ports, live[q] # None PROVE Spares(q)
      <4>1. q # p /\ Base(q)' = Base(q)
        BY <2>1, <2>3, <3>2, BaseSame
      <4>2. Unsure(q) => Unsure(q)'
        BY <2>1, <3>1, <4>1 DEF Unsure
      <4> QED
        BY <4>1, <4>2 DEF Spares
    <3> QED
      BY <2>1, <3>1, <3>2, DeliveredStay DEF Kept
  <2>4. CASE live[p] # None
    <3>1. PICK op \in Events :
            op = Create(p, live[p]) /\ op.kind = "create" /\ op.port = p /\ op.row = live[p]
      BY <2>4, EventForms DEF Kept, Typed, Shapes
    <3>2. EmitWrite(op) /\ missed' = missed \ {p}
      BY <1>19, <2>4, <3>1 DEF ResyncEntry
    <3>3. /\ dropped' \in Nat
          /\ \/ Len(queue) < Capacity /\ queue' = Append(queue, op) /\ UNCHANGED dropped
             \/ dropped' = dropped + 1 /\ UNCHANGED queue
      BY <3>2, Emitted DEF Kept, Typed, Shapes
    <3> SUFFICES ASSUME NEW q \in Ports, q \notin missed', live'[q] # None
                 PROVE  Flow(q)' \/ Unsure(q)'
      BY DEF Delivered
    <3>4. CASE q # p
      <4>1. Flow(q) \/ Unsure(q)
        BY <2>1, <3>2, <3>4 DEF Kept, Delivered
      <4>2. CASE Unsure(q)
        BY <2>1, <2>2, <3>3, <3>4, <4>2 DEF Unsure
      <4>3. \A x : Reaches(q, x) => Reaches(q, x)'
        BY <2>1 DEF Reaches
      <4>4. CASE Flow(q) /\ UNCHANGED queue
        <5>1. PICK x \in Rows \cup {None} : Ends(q, x) /\ Reaches(q, x)
          BY <4>4 DEF Flow
        <5>2. Ends(q, x)'
          BY <2>1, <4>4, <5>1, EndsStay, BaseSame
        <5> QED
          BY <4>3, <5>1, <5>2 DEF Flow
      <4>5. CASE Flow(q) /\ Len(queue) < Capacity /\ queue' = Append(queue, op)
        BY <2>1, <3>1, <3>4, <4>3, <4>5, FlowBehind DEF Kept, Typed
      <4> QED
        BY <3>3, <4>1, <4>2, <4>4, <4>5
    <3>5. CASE q = p /\ dropped' = dropped + 1
      BY <2>1, <2>2, <3>3, <3>5 DEF Unsure
    <3>6. CASE q = p /\ Len(queue) < Capacity /\ queue' = Append(queue, op)
      <4>1. PICK y \in Rows \cup {None} : y = live[p]
        BY DEF Kept, Typed, Shapes
      <4>2. After(None, op, p) = y /\ None \in Rows \cup {None} /\ Base(p)' = Base(p)
        BY <2>1, <3>1, <4>1, BaseSame DEF After
      <4>3. Ends(p, y)'
        BY <3>6, <4>2, EndsNone, EndsSent DEF Kept, Typed
      <4>4. Reaches(p, y)'
        BY <2>1, <2>4, <4>1 DEF Reaches, Kept, Current
      <4> QED
        BY <3>6, <4>3, <4>4 DEF Flow
    <3> QED
      BY <3>3, <3>4, <3>5, <3>6
  <2> QED
    BY <2>3, <2>4
<1>20. ASSUME EndResync PROVE Delivered'
  <2>1. /\ UNCHANGED <<batch, out, got, rows, live, pend, missed, dropped>>
        /\ UNCHANGED <<diverged, mark, errors, errs, ack>>
        /\ mon = "resync" /\ todo = {} /\ gen' = gen + 1 /\ Len(queue) < Capacity
        /\ queue' = Append(queue, Barrier(gen + 1))
        /\ mon' = "idle" \/ (mon' = "await" /\ dropped = mark[1])
    BY <1>20 DEF EndResync, store, writer, drain, monitor, published
  <2>2. /\ diverged /\ dropped \in Nat /\ mark[1] \in Nat /\ ack \in Nat /\ gen \in Nat
        /\ ack <= gen
    BY <2>1 DEF Kept, Typed, Passing, Shapes, Generations
  <2>3. PICK op \in Barriers : op = Barrier(gen + 1) /\ op.kind = "barrier"
    <3>1. Barrier(gen + 1) \in Barriers /\ Barrier(gen + 1).kind = "barrier"
      BY <2>2 DEF Barrier, Barriers
    <3> QED
      BY <3>1
  <2> SUFFICES ASSUME NEW q \in Ports, q \notin missed', live'[q] # None
               PROVE  Flow(q)' \/ Unsure(q)'
    BY DEF Delivered
  <2>4. Flow(q) \/ Unsure(q)
    BY <2>1 DEF Kept, Delivered
  <2>5. CASE Unsure(q)
    BY <2>1, <2>2, <2>5 DEF Unsure
  <2>6. CASE Flow(q)
    <3>1. \A x : Reaches(q, x) => Reaches(q, x)'
      BY <2>1 DEF Reaches
    <3> QED
      BY <2>1, <2>3, <2>6, <3>1, FlowBehind DEF Kept, Typed
  <2> QED
    BY <2>4, <2>5, <2>6
<1>21. ASSUME BarrierRefused PROVE Delivered'
  <2>1. UNCHANGED <<queue, pend, live, batch, out, got, rows>> /\ missed' = missed
    BY <1>21 DEF BarrierRefused, store, writer, drain, monitor, published
  <2>2. ASSUME NEW p \in Ports PROVE Spares(p)
    BY <1>21 DEF BarrierRefused, Kept, Typed, Passing, Spares, Unsure
  <2> QED
    BY <2>1, <2>2, DeliveredStay DEF Kept
<1>22. ASSUME Acked PROVE Delivered'
  <2>1. UNCHANGED <<queue, pend, live, batch, out, got, rows>> /\ missed' = missed
    BY <1>22 DEF Acked, store, writer, drain, monitor, published
  <2>2. ASSUME NEW p \in Ports PROVE Spares(p)
    <3>1. Base(p)' = Base(p)
      BY <2>1, BaseSame
    <3>2. ASSUME Unsure(p) PROVE Unsure(p)'
      <4>1. errors > mark[2] /\ errors \in Nat /\ mark[2] \in Nat
        BY <1>22, <3>2 DEF Acked, Unsure, Kept, Typed, Shapes, Generations
      <4>2. errors # mark[2]
        BY <4>1
      <4>3. diverged' /\ mon' = "idle"
        BY <1>22, <4>2 DEF Acked
      <4> QED
        BY <4>3 DEF Unsure
    <3> QED
      BY <3>1, <3>2 DEF Spares
  <2> QED
    BY <2>1, <2>2, DeliveredStay DEF Kept
<1>23. ASSUME AckTimeout PROVE Delivered'
  <2>1. UNCHANGED <<queue, pend, live, batch, out, got, rows>> /\ missed' = missed
    BY <1>23 DEF AckTimeout, store, writer, drain, monitor, published
  <2>2. ASSUME NEW p \in Ports PROVE Spares(p)
    BY <1>23 DEF AckTimeout, Kept, Typed, Passing, Spares, Unsure
  <2> QED
    BY <2>1, <2>2, DeliveredStay DEF Kept
<1> QED
  BY <1>1, <1>2, <1>3, <1>4, <1>5, <1>6, <1>7, <1>8, <1>9, <1>10, <1>11, <1>12, <1>13,
     <1>14, <1>15, <1>16, <1>17, <1>18, <1>19, <1>20, <1>21, <1>22, <1>23
  DEF Next, Writer, Monitor, Fault

----------------------------------------------------------------------------
(* The theorems *)

\* A node that has just started has nothing to persist.
LEMMA InitKept == Init => Kept
<1> SUFFICES ASSUME Init PROVE Kept
  OBVIOUS
<1>1. /\ << >> \in Seq(Events \cup Barriers) /\ Len(<< >>) = 0 /\ DOMAIN << >> = {}
      /\ Capacity \in Nat /\ 1 \in 1 .. MaxId + 1 /\ 0 \in 0 .. MaxDrops /\ 0 \in 0 .. 0
  BY WriteBehindAssumption
<1>2. /\ NoEntries \in [Ports -> Rows \cup {None}]
      /\ \A p \in Ports : NoEntries[p] = None
  BY DEF NoEntries
<1>3. /\ live \in [Ports -> Rows \cup {None}] /\ rows \in [Ports -> Rows \cup {None}]
      /\ pend \in [Threads -> Events \cup {None}]
      /\ batch \in [Ports -> EntryType] /\ out \in [Ports -> EntryType]
      /\ Cardinality(Entries(batch)) < BatchMax
  BY <1>2, NoBatch DEF Init
<1>4. /\ queue \in Seq(Events \cup Barriers) /\ Len(queue) <= Capacity
      /\ mark \in Nat \X Nat
  BY <1>1 DEF Init
<1>5. Shapes
  <2>1. /\ nextId \in 1 .. MaxId + 1 /\ dropped \in 0 .. MaxDrops /\ seen \in 0 .. dropped
        /\ last \in 0 .. seen /\ errors \in Nat /\ errs \in Nat /\ faults \in Nat
        /\ errors + errs <= faults
    BY <1>1 DEF Init
  <2>2. /\ confirm \in BOOLEAN /\ diverged \in BOOLEAN /\ draining \in BOOLEAN
        /\ flushing \in BOOLEAN
    BY DEF Init
  <2>3. /\ got \in Reads \cup {None} /\ todo \subseteq Ports /\ missed \subseteq Ports
        /\ mon \in {"idle", "find", "sweep", "resync", "await", "gone"}
    BY DEF Init
  <2> QED
    BY <1>3, <1>4, <2>1, <2>2, <2>3 DEF Shapes
<1>6. Generations /\ Flushed /\ Passing
  BY <1>1 DEF Init, Generations, Flushed, Passing
<1>7. Current /\ Delivered
  BY <1>2 DEF Init, Current, Delivered
<1> QED
  BY <1>5, <1>6, <1>7 DEF Kept, Typed

\* The types are inductive by themselves.
LEMMA NextTyped == Typed /\ [Next]_vars => Typed'
<1>1. ASSUME Typed, Next PROVE Typed'
  BY <1>1, ShapesNext, GenerationsNext, FlushedNext, PassingNext DEF Typed
<1>2. ASSUME Typed, UNCHANGED vars PROVE Typed'
  <2> USE DEF vars, store, writer, published, monitor, drain
  <2>1. Shapes'
    BY <1>2 DEF Typed, Shapes
  <2>2. Generations'
    BY <1>2 DEF Typed, Generations
  <2>3. Flushed' /\ Passing'
    BY <1>2 DEF Typed, Flushed, Passing
  <2> QED
    BY <2>1, <2>2, <2>3 DEF Typed
<1> QED
  BY <1>1, <1>2

\* The rest is, while threads do not have events of one port together.
LEMMA NextKept == Kept /\ PortSerial /\ PortSerial' /\ [Next]_vars => Kept'
<1>1. ASSUME Kept, PortSerial, PortSerial', Next PROVE Kept'
  BY <1>1, NextTyped, CurrentNext, DeliveredNext DEF Kept, Typed
<1>2. ASSUME Kept, UNCHANGED vars PROVE Kept'
  <2>1. UNCHANGED <<queue, pend, live, batch, out, got, rows, missed>>
    BY <1>2 DEF vars, store, writer
  <2>2. UNCHANGED <<diverged, mon, todo, dropped, mark, errors, errs, ack, gen>>
    BY <1>2 DEF vars, writer, monitor, published
  <2>3. \A p \in Ports : Spares(p)
    BY <2>1, <2>2, BaseSame, UnsureSame DEF Spares
  <2>4. Delivered'
    BY <1>2, <2>1, <2>3, DeliveredStay DEF Kept
  <2>5. Current'
    BY <1>2, <2>1 DEF Kept, Current
  <2> QED
    BY <1>2, <2>4, <2>5, NextTyped DEF Kept
<1> QED
  BY <1>1, <1>2

\* Nothing on its way, and nothing to send again: the row is the allocation.
LEMMA KeptPersisted == Kept => ReadyIsPersisted
<1> SUFFICES ASSUME Kept, Quiet, ~diverged, NEW p \in Ports, p \notin missed, live[p] # None
             PROVE  rows[p] = live[p]
  BY DEF ReadyIsPersisted
<1>1. Flow(p)
  BY DEF Kept, Delivered, Unsure
<1>2. /\ queue = << >> /\ Len(queue) = 0 /\ batch[p] = None /\ out[p] = None /\ got = None
      /\ \A t \in Threads : pend[t] = None
  BY DEF Quiet, Kept, Typed, Flushed, Entries, NoEntries
<1>3. PICK x \in Rows \cup {None} : Ends(p, x) /\ Reaches(p, x)
  BY <1>1 DEF Flow
<1>4. x = live[p]
  BY <1>2, <1>3 DEF Reaches
<1>5. x \in {Base(p), None}
  BY <1>2, <1>3 DEF Ends, Chain
<1>6. Base(p) = rows[p]
  BY <1>2 DEF Base, Stored, Over
<1> QED
  BY <1>4, <1>5, <1>6

\* Every variable of the store, the channel, the writer and the monitor keeps its type
\* for any number of threads: the channel keeps to its capacity, a batch stays below its
\* size, and no acknowledgement is ahead of the barrier it answers.
THEOREM TypeCorrect == Spec => []TypeOK
<1>1. Init => Typed
  BY InitKept DEF Kept
<1>2. Typed => TypeOK
  BY DEF Typed, Shapes, Generations, TypeOK
<1> QED
  BY <1>1, <1>2, NextTyped, PTL DEF Spec

\* While no two threads have yet to emit events of one port (the order in which the
\* channel gets them is then the order of the changes), a quiet node that is Ready has
\* the current row of each of its allocations in the backend: whatever the channel
\* dropped, the writer coalesced, or failed, timed out or was refused in a reconcile.
THEOREM ReadyRowsAreCurrent == Spec /\ []PortSerial => []ReadyIsPersisted
<1> QED
  BY InitKept, NextKept, KeptPersisted, PTL DEF Spec
============================================================================
