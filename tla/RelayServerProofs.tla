-------------------------- MODULE RelayServerProofs --------------------------
(***************************************************************************)
(* For any workers, clients, ports, pools and channel capacity, and any    *)
(* number of deaths and failing sockets: the types, and that a live UDP    *)
(* allocation of the base pool is served, unless its socket failed or was  *)
(* bound while a close of its port was in flight.                          *)
(***************************************************************************)
EXTENDS RelayServer, FiniteSetTheorems, SequenceTheorems, TLAPS

\* TypeOK, and the ranges of what it leaves open.
Shapes ==
    /\ portOf \in Seq(Ports) /\ Len(portOf) <= MaxBinds
    /\ alloc \in [Clients -> 0 .. Len(portOf)]
    /\ out \in [Workers -> Seq(Msgs)] /\ \A w \in Workers : Len(out[w]) <= 1
    /\ queue \in Seq(Msgs) /\ Len(queue) <= QueueCap
    /\ egress \in [pc : {"recv", "task", "abort"}, port : Ports \cup {0}, sock : 0 .. MaxBinds]
    /\ sockets \in [Ports -> 0 .. Len(portOf)] /\ tasks \in [Ports -> 0 .. Len(portOf)]
    /\ pumps \subseteq DOMAIN portOf /\ aborted \subseteq pumps
    /\ reaper \in [pc : {"sleep", "list", "close", "abort"}, todo : SUBSET Ports,
                   port : Ports \cup {0}]
    /\ server \in [phase : {"serving", "draining", "stopped"}, stalled : Nat, last : Nat]
    /\ server.stalled < StallPolls
    /\ dead \subseteq Workers \cup Tasks

\* A socket is where its port says.
Sited ==
    /\ \A m \in InFlight : m.kind = "register" =>
         m.sock \in DOMAIN portOf /\ portOf[m.sock] = m.port
    /\ \A p \in Ports : sockets[p] # 0 => portOf[sockets[p]] = p
    /\ \A p \in Ports : tasks[p] # 0 => portOf[tasks[p]] = p

\* Where the two tasks that change the maps stand.
Standing ==
    /\ egress.pc # "recv" => egress.port \in Ports
    /\ egress.pc = "task" => egress.sock \in DOMAIN portOf /\ portOf[egress.sock] = egress.port
    /\ reaper.pc = "close" => reaper.todo # {}
    /\ reaper.pc = "abort" => reaper.port \in Ports

\* A port has one open socket, ...
OneOpen == \A s, t \in Open \ {0} : portOf[s] = portOf[t] => s = t

\* ... and one allocation.
OneLive == \A c, d \in Live : portOf[alloc[c]] = portOf[alloc[d]] => c = d

\* A close of port p is under way.
Closing(p) ==
    \/ \E m \in InFlight : m.kind = "close" /\ m.port = p
    \/ egress.pc = "abort" /\ egress.port = p
    \/ p \in reaper.todo
    \/ reaper.pc = "abort" /\ reaper.port = p

\* The allocation of c ought to be served.
Due(c) ==
    /\ c \in Live /\ "egress" \notin dead /\ Running
    /\ alloc[c] \notin tcp \cup failed \cup raced /\ portOf[alloc[c]] \notin TenantPorts

\* Its socket is on its way, or pumped with its handle kept or about to be.
Posted(s) == \E m \in InFlight : m.kind = "register" /\ m.sock = s
Pumped(s) ==
    /\ sockets[portOf[s]] = s /\ s \in pumps
    /\ tasks[portOf[s]] = s \/ (egress.pc = "task" /\ egress.sock = s)

\* Nobody is about to close it, or to keep another handle for its port.
Secure(s) ==
    /\ ~Closing(portOf[s]) /\ s \notin aborted
    /\ egress.pc = "task" /\ egress.port = portOf[s] => egress.sock = s
    /\ Posted(s) \/ Pumped(s)

Serving == \A c \in Clients : Due(c) => Secure(alloc[c])


----------------------------------------------------------------------------
(* Messages *)

\* What a message carries.
LEMMA MsgFields ==
    /\ \A m \in Msgs : m.kind \in Kinds /\ m.port \in Ports /\ m.sock \in 0 .. MaxBinds
    /\ \A k \in Kinds, p \in Ports, s \in 0 .. MaxBinds :
         /\ Msg(k, p, s) \in Msgs /\ Msg(k, p, s).kind = k
         /\ Msg(k, p, s).port = p /\ Msg(k, p, s).sock = s
  BY DEF Msg, Msgs

\* What a sequence holds.
Held(q) == {q[i] : i \in DOMAIN q}

\* A send adds its message, ...
LEMMA HeldSent ==
    ASSUME NEW q \in Seq(Msgs), NEW m \in Msgs
    PROVE  /\ Append(q, m) \in Seq(Msgs) /\ Len(Append(q, m)) = Len(q) + 1
           /\ Held(Append(q, m)) = Held(q) \cup {m}
<1> DEFINE r == Append(q, m)
<1>1. /\ r \in Seq(Msgs) /\ Len(r) = Len(q) + 1 /\ Len(q) \in Nat
      /\ \A i \in 1 .. Len(q) : r[i] = q[i]
      /\ r[Len(q) + 1] = m
  BY AppendProperties, LenProperties
<1>2. DOMAIN r = 1 .. Len(q) + 1 /\ DOMAIN q = 1 .. Len(q)
  BY <1>1, LenProperties
<1> HIDE DEF r
<1>3. Held(r) = Held(q) \cup {m}
  <2>1. ASSUME NEW x \in Held(r) PROVE x \in Held(q) \cup {m}
    <3>1. PICK i \in DOMAIN r : x = r[i]
      BY DEF Held
    <3>2. CASE i = Len(q) + 1
      BY <1>1, <3>1, <3>2
    <3>3. CASE i # Len(q) + 1
      BY <1>1, <1>2, <3>1, <3>3 DEF Held
    <3> QED
      BY <3>2, <3>3
  <2>2. ASSUME NEW x \in Held(q) \cup {m} PROVE x \in Held(r)
    <3>1. CASE x = m
      BY <1>1, <1>2, <3>1 DEF Held
    <3>2. CASE x # m
      BY <1>1, <1>2, <3>2 DEF Held
    <3> QED
      BY <3>1, <3>2
  <2> QED
    BY <2>1, <2>2
<1> QED
  BY <1>1, <1>3 DEF r

\* ... and a receive takes the first.
LEMMA HeldTaken ==
    ASSUME NEW q \in Seq(Msgs), q # <<>>
    PROVE  /\ Head(q) \in Msgs /\ Tail(q) \in Seq(Msgs) /\ Len(Tail(q)) = Len(q) - 1
           /\ Held(q) = {Head(q)} \cup Held(Tail(q))
<1> DEFINE r == Tail(q)
<1>1. /\ Head(q) \in Msgs /\ r \in Seq(Msgs) /\ Len(r) = Len(q) - 1
      /\ \A i \in 1 .. Len(r) : r[i] = q[i + 1]
  BY HeadTailProperties
<1>2. /\ DOMAIN q = 1 .. Len(q) /\ DOMAIN r = 1 .. Len(r)
      /\ Len(q) \in Nat \ {0} /\ Head(q) = q[1]
  BY <1>1, LenProperties, EmptySeq
<1> HIDE DEF r
<1>3. ASSUME NEW x \in Held(q) PROVE x \in {Head(q)} \cup Held(r)
  <2>1. PICK i \in DOMAIN q : x = q[i]
    BY DEF Held
  <2>2. CASE i = 1
    BY <1>2, <2>1, <2>2
  <2>3. CASE i # 1
    <3>1. i - 1 \in DOMAIN r /\ r[i - 1] = q[i - 1 + 1]
      BY <1>1, <1>2, <2>1, <2>3
    <3> QED
      BY <1>2, <2>1, <3>1 DEF Held
  <2> QED
    BY <2>2, <2>3
<1>4. ASSUME NEW x \in {Head(q)} \cup Held(r) PROVE x \in Held(q)
  <2>1. CASE x = Head(q)
    BY <1>2, <2>1 DEF Held
  <2>2. CASE x \in Held(r)
    <3>1. PICK i \in DOMAIN r : x = r[i]
      BY <2>2 DEF Held
    <3>2. i + 1 \in DOMAIN q /\ x = q[i + 1]
      BY <1>1, <1>2, <3>1
    <3> QED
      BY <3>2 DEF Held
  <2> QED
    BY <2>1, <2>2
<1> QED
  BY <1>1, <1>3, <1>4 DEF r

\* A worker's packet and the channel are the messages in flight.
LEMMA InFlightIs ==
    /\ \A m : m \in InFlight <=> m \in Held(queue) \/ \E w \in Workers : m \in Held(out[w])
    /\ \A m : m \in InFlight' <=> m \in Held(queue') \/ \E w \in Workers : m \in Held(out'[w])
  BY DEF InFlight, Held

\* Every message in flight is one.
LEMMA FlightTyped == ASSUME Shapes PROVE \A m \in InFlight : m \in Msgs
<1>1. \A q \in Seq(Msgs) : \A m \in Held(q) : m \in Msgs
  BY LenProperties, ElementOfSeq DEF Held
<1>2. queue \in Seq(Msgs) /\ \A w \in Workers : out[w] \in Seq(Msgs)
  BY DEF Shapes
<1> QED
  BY <1>1, <1>2, InFlightIs

\* A worker holds nothing, or the one message of its packet.
LEMMA OneMessage ==
    /\ Held(<<>>) = {}
    /\ \A m \in Msgs : <<m>> \in Seq(Msgs) /\ Len(<<m>>) = 1 /\ Held(<<m>>) = {m}
<1>1. Held(<<>>) = {}
  BY DEF Held
<1>2. ASSUME NEW m \in Msgs PROVE <<m>> \in Seq(Msgs) /\ Len(<<m>>) = 1 /\ Held(<<m>>) = {m}
  <2>1. DOMAIN <<m>> = {1} /\ <<m>>[1] = m
    OBVIOUS
  <2> QED
    BY <2>1 DEF Held
<1> QED
  BY <1>1, <1>2

\* What process() returns is in flight.
LEMMA Returned ==
    ASSUME Shapes, NEW c \in Clients, NEW k \in Kinds, NEW p \in Ports, NEW s \in 0 .. MaxBinds,
           Process(c, k, p, s), UNCHANGED queue
    PROVE  /\ out' \in [Workers -> Seq(Msgs)] /\ \A w \in Workers : Len(out'[w]) <= 1
           /\ InFlight' = InFlight \cup {Msg(k, p, s)}
<1> DEFINE h == Home[c]
           m == Msg(k, p, s)
<1>1. h \in Workers /\ m \in Msgs /\ out[h] = <<>> /\ out' = [out EXCEPT ![h] = <<m>>]
  BY MsgFields, ServerAssumption DEF Process
<1>2. /\ \A w \in Workers : out'[w] = IF w = h THEN <<m>> ELSE out[w]
      /\ out \in [Workers -> Seq(Msgs)]
  BY <1>1 DEF Shapes
<1> HIDE DEF h, m
<1>3. out' \in [Workers -> Seq(Msgs)] /\ \A w \in Workers : Len(out'[w]) <= 1
  BY <1>1, <1>2, OneMessage DEF Shapes
<1>4. \A w \in Workers : Held(out'[w]) = IF w = h THEN {m} ELSE Held(out[w])
  BY <1>1, <1>2, OneMessage
<1>5. Held(out[h]) = {} /\ Held(queue') = Held(queue)
  BY <1>1, OneMessage
<1>6. InFlight' = InFlight \cup {m}
  BY <1>1, <1>4, <1>5, InFlightIs
<1> QED
  BY <1>3, <1>6 DEF m

\* Only media, or what is sent to an egress that is gone, is dropped.
LEMMA Delivered ==
    ASSUME Shapes, NEW w \in Workers, Post(w)
    PROVE  /\ out' \in [Workers -> Seq(Msgs)] /\ \A x \in Workers : Len(out'[x]) <= 1
           /\ queue' \in Seq(Msgs) /\ Len(queue') <= QueueCap
           /\ InFlight' \subseteq InFlight
           /\ Up("egress") => \A m \in InFlight : m.kind # "relay" => m \in InFlight'
<1> DEFINE m == Head(out[w])
<1>1. /\ out[w] \in Seq(Msgs) /\ out[w] # <<>> /\ out \in [Workers -> Seq(Msgs)]
      /\ out' = [out EXCEPT ![w] = Tail(out[w])] /\ queue \in Seq(Msgs)
      /\ Len(queue) \in Nat /\ Len(queue) <= QueueCap /\ QueueCap \in Nat
  BY ServerAssumption, LenProperties DEF Shapes, Post
<1>2. /\ m \in Msgs /\ Tail(out[w]) \in Seq(Msgs) /\ Len(Tail(out[w])) = Len(out[w]) - 1
      /\ Held(out[w]) = {m} \cup Held(Tail(out[w])) /\ Len(out[w]) \in Nat
  BY <1>1, HeldTaken, LenProperties
<1>3. \A x \in Workers : out'[x] = IF x = w THEN Tail(out[w]) ELSE out[x]
  BY <1>1
<1>4. out' \in [Workers -> Seq(Msgs)] /\ \A x \in Workers : Len(out'[x]) <= 1
  BY <1>1, <1>2, <1>3 DEF Shapes
<1>5. \/ /\ Len(queue) < QueueCap /\ queue' = Append(queue, m)
      \/ queue' = queue /\ (Up("egress") => m.kind = "relay")
  BY DEF Post, Waits
<1> HIDE DEF m
<1>6. CASE Len(queue) < QueueCap /\ queue' = Append(queue, m)
  <2>1. /\ queue' \in Seq(Msgs) /\ Len(queue') = Len(queue) + 1
        /\ Held(queue') = Held(queue) \cup {m}
    BY <1>1, <1>2, <1>6, HeldSent
  <2>2. \A x \in Workers : Held(out[x]) = IF x = w THEN {m} \cup Held(out'[w]) ELSE Held(out'[x])
    BY <1>2, <1>3
  <2>3. \A x : x \in InFlight' <=> x \in InFlight
    BY <2>1, <2>2, InFlightIs
  <2> QED
    BY <1>1, <1>4, <1>6, <2>1, <2>3
<1>7. CASE queue' = queue /\ (Up("egress") => m.kind = "relay")
  <2>1. InFlight' \subseteq InFlight /\ \A x \in InFlight : x # m => x \in InFlight'
    BY <1>2, <1>3, <1>7, InFlightIs
  <2> QED
    BY <1>1, <1>4, <1>7, <2>1
<1> QED
  BY <1>5, <1>6, <1>7

\* The egress takes one message.
LEMMA Taken ==
    ASSUME Shapes, NEW k, Take(k), UNCHANGED out
    PROVE  /\ queue' \in Seq(Msgs) /\ Len(queue') <= QueueCap
           /\ Head(queue) \in InFlight /\ Head(queue) \in Msgs /\ Head(queue).kind = k
           /\ InFlight = InFlight' \cup {Head(queue)}
<1>1. queue \in Seq(Msgs) /\ queue # <<>> /\ queue' = Tail(queue) /\ Head(queue).kind = k
  BY DEF Shapes, Take
<1>2. /\ Head(queue) \in Msgs /\ queue' \in Seq(Msgs) /\ Len(queue') = Len(queue) - 1
      /\ Held(queue) = {Head(queue)} \cup Held(queue') /\ Len(queue) \in Nat
  BY <1>1, HeldTaken, LenProperties
<1>3. Len(queue') <= QueueCap
  BY <1>2, ServerAssumption DEF Shapes
<1>4. \A x : x \in InFlight <=> x \in InFlight' \/ x = Head(queue)
  <2>1. \A w \in Workers : Held(out'[w]) = Held(out[w])
    OBVIOUS
  <2> QED
    BY <1>2, <2>1, InFlightIs
<1> QED
  BY <1>1, <1>2, <1>3, <1>4

----------------------------------------------------------------------------
(* Steps that several actions share *)

\* Messages that nobody touches stay in flight.
LEMMA FlightKept == UNCHANGED <<out, queue>> => InFlight' = InFlight
  BY DEF InFlight

\* The next allocation gets the next number.
LEMMA Numbered ==
    ASSUME Shapes, NEW p \in Ports, portOf' = Append(portOf, p)
    PROVE  /\ portOf' \in Seq(Ports) /\ Len(portOf) \in Nat /\ Len(portOf') = Len(portOf) + 1
           /\ \A i \in DOMAIN portOf : portOf'[i] = portOf[i]
           /\ portOf'[Len(portOf) + 1] = p
           /\ DOMAIN portOf = 1 .. Len(portOf) /\ DOMAIN portOf' = 1 .. Len(portOf) + 1
<1>1. /\ portOf' \in Seq(Ports) /\ Len(portOf') = Len(portOf) + 1
      /\ \A i \in 1 .. Len(portOf) : portOf'[i] = portOf[i]
      /\ portOf'[Len(portOf) + 1] = p
  BY AppendProperties DEF Shapes
<1>2. Len(portOf) \in Nat /\ DOMAIN portOf = 1 .. Len(portOf) /\ DOMAIN portOf' = 1 .. Len(portOf')
  BY <1>1, LenProperties DEF Shapes
<1> QED
  BY <1>1, <1>2

\* What the numbers of sockets range over.
LEMMA Numbers ==
    ASSUME Shapes
    PROVE  /\ Len(portOf) \in Nat /\ DOMAIN portOf = 1 .. Len(portOf)
           /\ \A s \in DOMAIN portOf : s \in Nat \ {0} /\ s <= MaxBinds /\ portOf[s] \in Ports
           /\ MaxBinds \in Nat
<1>1. /\ portOf \in Seq(Ports) /\ Len(portOf) \in Nat /\ DOMAIN portOf = 1 .. Len(portOf)
      /\ Len(portOf) <= MaxBinds /\ MaxBinds \in Nat
  BY LenProperties, ServerAssumption DEF Shapes
<1>2. \A s \in DOMAIN portOf : portOf[s] \in Ports
  BY <1>1, ElementOfSeq
<1> QED
  BY <1>1, <1>2

\* Ending some allocations leaves the numbers of the others.
LEMMA Ends ==
    ASSUME Shapes, NEW gone, End(gone)
    PROVE  /\ alloc' \in [Clients -> 0 .. Len(portOf)]
           /\ \A c \in Clients : alloc'[c] \in {alloc[c], 0}
<1>1. Len(portOf) \in Nat
  BY Numbers
<1> QED
  BY <1>1 DEF Shapes, End

\* Every action keeps the types.
LEMMA ShapesNext ==
    ASSUME Shapes, Sited, Standing, Next
    PROVE  Shapes'
<1>1. ASSUME NEW w \in Workers, Post(w) PROVE Shapes'
  BY <1>1, Delivered DEF Shapes, Post
<1>2. ASSUME NEW c \in Clients, Allocate(c) PROVE Shapes'
  <2>1. PICK p \in Pool[c] : /\ portOf' = Append(portOf, p)
                             /\ alloc' = [alloc EXCEPT ![c] = Len(portOf) + 1]
                             /\ Process(c, "register", p, Len(portOf) + 1)
    BY <1>2 DEF Allocate
  <2>2. p \in Ports
    BY <2>1, ServerAssumption
  <2>3. /\ portOf' \in Seq(Ports) /\ Len(portOf) \in Nat /\ Len(portOf') = Len(portOf) + 1
        /\ DOMAIN portOf = 1 .. Len(portOf) /\ DOMAIN portOf' = 1 .. Len(portOf')
        /\ Len(portOf') <= MaxBinds /\ Len(portOf) + 1 \in 0 .. MaxBinds
    BY <1>2, <2>1, <2>2, Numbered, ServerAssumption DEF Allocate
  <2>4. out' \in [Workers -> Seq(Msgs)] /\ \A w \in Workers : Len(out'[w]) <= 1
    BY <1>2, <2>1, <2>2, <2>3, Returned DEF Allocate, Kinds
  <2>5. alloc' \in [Clients -> 0 .. Len(portOf')]
    BY <2>1, <2>3 DEF Shapes
  <2>6. /\ sockets \in [Ports -> 0 .. Len(portOf')] /\ tasks \in [Ports -> 0 .. Len(portOf')]
        /\ pumps \subseteq DOMAIN portOf'
    BY <2>3 DEF Shapes
  <2>7. UNCHANGED <<queue, egress, sockets, tasks, pumps, aborted, reaper, server, dead>>
    BY <1>2 DEF Allocate
  <2> QED
    BY <2>3, <2>4, <2>5, <2>6, <2>7 DEF Shapes
<1>3. ASSUME NEW c \in Clients, AllocateTcp(c) PROVE Shapes'
  <2>1. PICK p \in Pool[c] : /\ portOf' = Append(portOf, p)
                             /\ alloc' = [alloc EXCEPT ![c] = Len(portOf) + 1]
                             /\ UNCHANGED out
    BY <1>3 DEF AllocateTcp
  <2>2. p \in Ports
    BY <2>1, ServerAssumption
  <2>3. /\ portOf' \in Seq(Ports) /\ Len(portOf) \in Nat /\ Len(portOf') = Len(portOf) + 1
        /\ DOMAIN portOf = 1 .. Len(portOf) /\ DOMAIN portOf' = 1 .. Len(portOf')
        /\ Len(portOf') <= MaxBinds /\ Len(portOf) + 1 \in 0 .. MaxBinds
    BY <1>3, <2>1, <2>2, Numbered, ServerAssumption DEF AllocateTcp
  <2>4. out' \in [Workers -> Seq(Msgs)] /\ \A w \in Workers : Len(out'[w]) <= 1
    BY <2>1 DEF Shapes
  <2>5. alloc' \in [Clients -> 0 .. Len(portOf')]
    BY <2>1, <2>3 DEF Shapes
  <2>6. /\ sockets \in [Ports -> 0 .. Len(portOf')] /\ tasks \in [Ports -> 0 .. Len(portOf')]
        /\ pumps \subseteq DOMAIN portOf'
    BY <2>3 DEF Shapes
  <2>7. UNCHANGED <<queue, egress, sockets, tasks, pumps, aborted, reaper, server, dead>>
    BY <1>3 DEF AllocateTcp
  <2> QED
    BY <2>3, <2>4, <2>5, <2>6, <2>7 DEF Shapes
<1>4. ASSUME NEW c \in Clients, Release(c) PROVE Shapes'
  <2>1. /\ alloc[c] \in DOMAIN portOf /\ portOf[alloc[c]] \in Ports /\ 0 \in 0 .. MaxBinds
    BY <1>4, Numbers DEF Shapes, Release
  <2>2. out' \in [Workers -> Seq(Msgs)] /\ \A w \in Workers : Len(out'[w]) <= 1
    BY <1>4, <2>1, Returned DEF Release, Kinds
  <2>3. alloc' \in [Clients -> 0 .. Len(portOf)]
    BY <1>4, Numbers DEF Shapes, Release
  <2>4. UNCHANGED <<portOf, queue, egress, sockets, tasks, pumps, aborted, reaper, server, dead>>
    BY <1>4 DEF Release
  <2> QED
    BY <2>2, <2>3, <2>4 DEF Shapes
<1>5. ASSUME NEW c \in Clients, Media(c) PROVE Shapes'
  <2>1. /\ alloc[c] \in DOMAIN portOf /\ portOf[alloc[c]] \in Ports /\ 0 \in 0 .. MaxBinds
    BY <1>5, Numbers DEF Shapes, Media
  <2>2. out' \in [Workers -> Seq(Msgs)] /\ \A w \in Workers : Len(out'[w]) <= 1
    BY <1>5, <2>1, Returned DEF Media, Kinds
  <2> QED
    BY <1>5, <2>1, <2>2 DEF Shapes, Media
<1>6. ASSUME SendRelay PROVE Shapes'
  BY <1>6, Taken DEF Shapes, SendRelay
<1>7. ASSUME CloseRelay PROVE Shapes'
  <2>1. /\ queue' \in Seq(Msgs) /\ Len(queue') <= QueueCap /\ Head(queue).port \in Ports
        /\ Len(portOf) \in Nat /\ MaxBinds \in Nat
    BY <1>7, Taken, MsgFields, Numbers DEF CloseRelay
  <2> QED
    BY <1>7, <2>1 DEF Shapes, CloseRelay
<1>8. ASSUME RegisterRelay PROVE Shapes'
  <2>1. /\ queue' \in Seq(Msgs) /\ Len(queue') <= QueueCap /\ Head(queue) \in InFlight
        /\ Head(queue).port \in Ports /\ Head(queue).sock \in 0 .. MaxBinds
        /\ Head(queue).kind = "register"
    BY <1>8, Taken, MsgFields DEF RegisterRelay
  <2>2. Head(queue).sock \in DOMAIN portOf /\ Head(queue).sock \in 0 .. Len(portOf)
    BY <2>1, Numbers DEF Sited
  <2> QED
    BY <1>8, <2>1, <2>2 DEF Shapes, RegisterRelay
<1>9. ASSUME AdoptFails PROVE Shapes'
  BY <1>9, Taken DEF Shapes, AdoptFails
<1>10. ASSUME KeepHandle PROVE Shapes'
  <2>1. egress.port \in Ports /\ egress.sock \in 0 .. Len(portOf)
    BY <1>10, Numbers DEF Standing, KeepHandle
  <2>2. tasks' \in [Ports -> 0 .. Len(portOf)]
    BY <1>10, <2>1 DEF Shapes, KeepHandle
  <2>3. Receiving \in [pc : {"recv", "task", "abort"}, port : Ports \cup {0}, sock : 0 .. MaxBinds]
    BY Numbers DEF Receiving
  <2> QED
    BY <1>10, <2>2, <2>3 DEF Shapes, KeepHandle
<1>11. ASSUME StopPump PROVE Shapes'
  <2>1. egress.port \in Ports /\ Len(portOf) \in Nat
    BY <1>11, Numbers DEF Standing, StopPump
  <2>2. /\ tasks' \in [Ports -> 0 .. Len(portOf)] /\ aborted' \subseteq pumps
        /\ UNCHANGED <<portOf, alloc, out, queue, reaper, sockets, pumps, server, dead>>
    BY <1>11, <2>1 DEF Shapes, AbortTask, StopPump
  <2>3. Receiving \in [pc : {"recv", "task", "abort"}, port : Ports \cup {0}, sock : 0 .. MaxBinds]
    BY Numbers DEF Receiving
  <2> QED
    BY <1>11, <2>2, <2>3 DEF Shapes, StopPump
<1>12. ASSUME Expire PROVE Shapes'
  BY <1>12, Ends DEF Shapes, Expire
<1>13. ASSUME ListOrphans PROVE Shapes'
  BY <1>13 DEF Shapes, ListOrphans, Sleeping, Orphans
<1>14. ASSUME NEW p \in Ports, CloseOrphan(p) PROVE Shapes'
  <2>1. sockets' \in [Ports -> 0 .. Len(portOf)]
    BY <1>14, Numbers DEF Shapes, CloseOrphan
  <2> QED
    BY <1>14, <2>1 DEF Shapes, CloseOrphan
<1>15. ASSUME StopOrphan PROVE Shapes'
  <2>1. reaper.port \in Ports /\ Len(portOf) \in Nat
    BY <1>15, Numbers DEF Standing, StopOrphan
  <2>2. /\ tasks' \in [Ports -> 0 .. Len(portOf)] /\ aborted' \subseteq pumps
        /\ UNCHANGED <<portOf, alloc, out, queue, egress, sockets, pumps, server, dead>>
    BY <1>15, <2>1 DEF Shapes, AbortTask, StopOrphan
  <2>3. reaper' \in [pc : {"sleep", "list", "close", "abort"}, todo : SUBSET Ports,
                     port : Ports \cup {0}]
    <3>1. CASE reaper' = Sleeping
      BY <3>1 DEF Sleeping
    <3>2. CASE reaper' = [reaper EXCEPT !.pc = "close", !.port = 0]
      BY <3>2 DEF Shapes
    <3> QED
      BY <1>15, <3>1, <3>2 DEF StopOrphan
  <2> QED
    BY <2>2, <2>3 DEF Shapes
<1>16. ASSUME NEW s \in Ids, PumpDropped(s) PROVE Shapes'
  BY <1>16 DEF Shapes, PumpDropped
<1>17. ASSUME NEW s \in Ids, PumpFails(s) PROVE Shapes'
  <2>1. portOf[s] \in Ports /\ 0 \in 0 .. Len(portOf)
    BY <1>17, Numbers DEF Shapes, PumpFails
  <2>2. sockets' \in [Ports -> 0 .. Len(portOf)] /\ pumps' \subseteq DOMAIN portOf
    BY <1>17, <2>1 DEF Shapes, PumpFails
  <2>3. aborted \subseteq pumps'
    BY <1>17 DEF Shapes, PumpFails
  <2> QED
    BY <1>17, <2>2, <2>3 DEF Shapes, PumpFails
<1>18. ASSUME NEW c \in Clients, ForceRemove(c) PROVE Shapes'
  BY <1>18, Ends DEF Shapes, ForceRemove
<1>19. ASSUME NEW t \in Workers \cup Tasks, Dies(t) PROVE Shapes'
  BY <1>19 DEF Shapes, Dies
<1>20. ASSUME Watchdog PROVE Shapes'
  <2>1. \A S \in SUBSET Clients : Cardinality(S) \in Nat
    BY ServerAssumption, FS_Subset, FS_CardinalityType
  <2>2. Cardinality(Live) \in Nat
    BY <2>1 DEF Live
  <2> QED
    BY <1>20, <2>2, ServerAssumption DEF Shapes, StartDrain, Watchdog
<1>21. ASSUME Shutdown PROVE Shapes'
  <2>1. \A S \in SUBSET Clients : Cardinality(S) \in Nat
    BY ServerAssumption, FS_Subset, FS_CardinalityType
  <2>2. Cardinality(Live) \in Nat
    BY <2>1 DEF Live
  <2> QED
    BY <1>21, <2>2, ServerAssumption DEF Shapes, StartDrain, Shutdown
<1>22. ASSUME DrainPoll PROVE Shapes'
  <2>1. \A S \in SUBSET Clients : Cardinality(S) \in Nat
    BY ServerAssumption, FS_Subset, FS_CardinalityType
  <2>2. PICK gone : /\ End(gone) /\ Cardinality(Live \ gone) \in Nat
                    /\ \/ server' = [server EXCEPT !.stalled = 0, !.last = Cardinality(Live \ gone)]
                       \/ server' = [phase |-> "stopped", stalled |-> 0, last |-> 0]
                       \/ /\ server.stalled + 1 < StallPolls
                          /\ server' = [server EXCEPT !.stalled = @ + 1]
    <3>1. PICK gone \in SUBSET {c \in Clients : MayEnd(c)} :
            LET left == Cardinality(Live \ gone)
                still == gone = {} /\ left = server.last
            IN  /\ End(gone)
                /\ server' =
                    IF ~still THEN [server EXCEPT !.stalled = 0, !.last = left]
                    ELSE IF server.stalled + 1 >= StallPolls
                         THEN [phase |-> "stopped", stalled |-> 0, last |-> 0]
                    ELSE [server EXCEPT !.stalled = @ + 1]
      BY <1>22 DEF DrainPoll
    <3>2. Cardinality(Live \ gone) \in Nat
      BY <2>1 DEF Live
    <3>3. server.stalled \in Nat /\ StallPolls \in Nat
      BY ServerAssumption DEF Shapes
    <3>4. CASE gone = {} /\ Cardinality(Live \ gone) = server.last
      <4>1. CASE server.stalled + 1 >= StallPolls
        BY <3>1, <3>2, <3>4, <4>1
      <4>2. CASE ~(server.stalled + 1 >= StallPolls)
        <5>1. server.stalled + 1 < StallPolls
          BY <3>3, <4>2
        <5> QED
          BY <3>1, <3>2, <3>4, <4>2, <5>1
      <4> QED
        BY <4>1, <4>2
    <3>5. CASE ~(gone = {} /\ Cardinality(Live \ gone) = server.last)
      BY <3>1, <3>2, <3>5
    <3> QED
      BY <3>4, <3>5
  <2>3. alloc' \in [Clients -> 0 .. Len(portOf)]
    BY <2>2, Ends
  <2>4. /\ server' \in [phase : {"serving", "draining", "stopped"}, stalled : Nat, last : Nat]
        /\ server'.stalled < StallPolls
    <3> DEFINE n == Cardinality(Live \ gone)
    <3>1. /\ server \in [phase : {"serving", "draining", "stopped"}, stalled : Nat, last : Nat]
          /\ n \in Nat /\ StallPolls \in Nat \ {0}
      BY <2>2, ServerAssumption DEF Shapes
    <3> HIDE DEF n
    <3>2. CASE server' = [server EXCEPT !.stalled = 0, !.last = n]
      <4>1. server' = [phase |-> server.phase, stalled |-> 0, last |-> n]
        BY <3>1, <3>2
      <4> QED
        BY <3>1, <4>1
    <3>3. CASE server' = [phase |-> "stopped", stalled |-> 0, last |-> 0]
      BY <3>1, <3>3
    <3>4. CASE server.stalled + 1 < StallPolls /\ server' = [server EXCEPT !.stalled = @ + 1]
      BY <3>1, <3>4
    <3> QED
      BY <2>2, <3>2, <3>3, <3>4 DEF n
  <2>5. UNCHANGED <<portOf, tcp, out, queue, egress, sockets, tasks, pumps, aborted, reaper, dead>>
    BY <1>22 DEF DrainPoll
  <2> QED
    BY <2>3, <2>4, <2>5 DEF Shapes
<1>23. ASSUME DrainDone PROVE Shapes'
  BY <1>23, ServerAssumption DEF Shapes, DrainDone
<1> QED
  BY <1>1, <1>2, <1>3, <1>4, <1>5, <1>6, <1>7, <1>8, <1>9, <1>10, <1>11, <1>12, <1>13,
     <1>14, <1>15, <1>16, <1>17, <1>18, <1>19, <1>20, <1>21, <1>22, <1>23
  DEF Next, Worker, Egress, Cleanup, Drain

----------------------------------------------------------------------------
(* Where sockets are *)

\* Sockets and allocations, one per port.
Places == Sited /\ OneOpen /\ OneLive

\* Nothing is bound, registered or recorded: what there is stays apart.
LEMMA Steady ==
    ASSUME Shapes, Places, UNCHANGED portOf,
           \A m \in InFlight' : m \in InFlight \/ m.kind # "register",
           \A p \in Ports : sockets'[p] \in {sockets[p], 0} /\ tasks'[p] \in {tasks[p], 0},
           pumps' \subseteq pumps, \A c \in Clients : alloc'[c] \in {alloc[c], 0}
    PROVE  Places'
<1>1. Sited'
  BY DEF Places, Sited
<1>2. Open' \subseteq Open
  BY DEF Open
<1>3. OneOpen'
  BY <1>2 DEF Places, OneOpen
<1>4. OneLive'
  BY DEF Places, OneLive, Live
<1> QED
  BY <1>1, <1>3, <1>4 DEF Places

\* A socket that is open has a number.
LEMMA OpenNumbered == ASSUME Shapes, Sited PROVE Open \ {0} \subseteq DOMAIN portOf
<1>1. \A m \in InFlight : m.kind = "register" => m.sock \in DOMAIN portOf
  BY DEF Sited
<1>2. \A p \in Ports : sockets[p] # 0 => sockets[p] \in DOMAIN portOf
  BY Numbers DEF Shapes
<1>3. pumps \subseteq DOMAIN portOf
  BY DEF Shapes
<1> QED
  BY <1>1, <1>2, <1>3 DEF Open

\* Every action keeps sockets and allocations of one port apart.
LEMMA PlacesNext ==
    ASSUME Shapes, Places, Standing, Next
    PROVE  Places'
<1>1. ASSUME NEW w \in Workers, Post(w) PROVE Places'
  <2>1. UNCHANGED portOf /\ \A m \in InFlight' : m \in InFlight \/ m.kind # "register"
    BY <1>1, Delivered DEF Post
  <2>2. /\ \A q \in Ports : sockets'[q] \in {sockets[q], 0} /\ tasks'[q] \in {tasks[q], 0}
        /\ pumps' \subseteq pumps /\ \A d \in Clients : alloc'[d] \in {alloc[d], 0}
    BY <1>1 DEF Shapes, AbortTask, Post
  <2> QED
    BY <2>1, <2>2, Steady
<1>2. ASSUME NEW c \in Clients, Allocate(c) PROVE Places'
  <2>1. PICK p \in Pool[c] \ Used : /\ portOf' = Append(portOf, p)
                                    /\ alloc' = [alloc EXCEPT ![c] = Len(portOf) + 1]
                                    /\ CanBind(p) /\ Process(c, "register", p, Len(portOf) + 1)
    BY <1>2 DEF Allocate
  <2>2. p \in Ports /\ alloc[c] = 0 /\ UNCHANGED <<queue, sockets, tasks, pumps>>
    BY <1>2, <2>1, ServerAssumption DEF Allocate
  <2>3. /\ Len(portOf) \in Nat /\ DOMAIN portOf = 1 .. Len(portOf)
        /\ \A i \in DOMAIN portOf : portOf'[i] = portOf[i]
        /\ portOf'[Len(portOf) + 1] = p /\ DOMAIN portOf' = 1 .. Len(portOf) + 1
        /\ Len(portOf) + 1 \in 0 .. MaxBinds
    BY <1>2, <2>1, <2>2, Numbered, ServerAssumption DEF Allocate
  <2>4. LET m == Msg("register", p, Len(portOf) + 1)
        IN  InFlight' = InFlight \cup {m} /\ m.kind = "register" /\ m.port = p
            /\ m.sock = Len(portOf) + 1
    BY <2>1, <2>2, <2>3, Returned, MsgFields DEF Kinds
  <2>5. Sited'
    <3>1. \A q \in Ports : (sockets[q] # 0 => sockets[q] \in DOMAIN portOf)
                            /\ (tasks[q] # 0 => tasks[q] \in DOMAIN portOf)
      BY Numbers DEF Shapes
    <3> QED
      BY <2>2, <2>3, <2>4, <3>1 DEF Places, Sited
  <2>6. OneOpen'
    <3>1. Open' = Open \cup {Len(portOf) + 1}
      BY <2>2, <2>4 DEF Open
    <3>2. \A s \in Open \ {0} : s \in DOMAIN portOf /\ portOf[s] # p
      BY <2>1, OpenNumbered DEF CanBind, Places
    <3> QED
      BY <2>3, <3>1, <3>2 DEF Places, OneOpen
  <2>7. OneLive'
    <3>1. \A d \in Clients : alloc'[d] = IF d = c THEN Len(portOf) + 1 ELSE alloc[d]
      BY <2>1 DEF Shapes
    <3>2. \A d \in Live : alloc[d] \in DOMAIN portOf
      BY <2>3 DEF Shapes, Live
    <3>3. \A d \in Live : portOf[alloc[d]] # p
      BY <2>1 DEF Used
    <3> QED
      BY <2>2, <2>3, <3>1, <3>2, <3>3 DEF Places, OneLive, Live
  <2> QED
    BY <2>5, <2>6, <2>7 DEF Places
<1>3. ASSUME NEW c \in Clients, AllocateTcp(c) PROVE Places'
  <2>1. PICK p \in Pool[c] \ Used : /\ portOf' = Append(portOf, p)
                                    /\ alloc' = [alloc EXCEPT ![c] = Len(portOf) + 1]
                                    /\ UNCHANGED out
    BY <1>3 DEF AllocateTcp
  <2>2. p \in Ports /\ alloc[c] = 0 /\ UNCHANGED <<queue, sockets, tasks, pumps>>
    BY <1>3, <2>1, ServerAssumption DEF AllocateTcp
  <2>3. /\ Len(portOf) \in Nat /\ DOMAIN portOf = 1 .. Len(portOf)
        /\ \A i \in DOMAIN portOf : portOf'[i] = portOf[i]
        /\ portOf'[Len(portOf) + 1] = p /\ DOMAIN portOf' = 1 .. Len(portOf) + 1
        /\ Len(portOf) + 1 \in 0 .. MaxBinds
    BY <1>3, <2>1, <2>2, Numbered, ServerAssumption DEF AllocateTcp
  <2>4. InFlight' = InFlight
    BY <2>1, <2>2, FlightKept
  <2>5. Sited'
    <3>1. \A q \in Ports : (sockets[q] # 0 => sockets[q] \in DOMAIN portOf)
                            /\ (tasks[q] # 0 => tasks[q] \in DOMAIN portOf)
      BY Numbers DEF Shapes
    <3> QED
      BY <2>2, <2>3, <2>4, <3>1 DEF Places, Sited
  <2>6. OneOpen'
    <3>1. Open' = Open
      BY <2>2, <2>4 DEF Open
    <3>2. \A s \in Open \ {0} : s \in DOMAIN portOf
      BY OpenNumbered DEF Places
    <3> QED
      BY <2>3, <3>1, <3>2 DEF Places, OneOpen
  <2>7. OneLive'
    <3>1. \A d \in Clients : alloc'[d] = IF d = c THEN Len(portOf) + 1 ELSE alloc[d]
      BY <2>1 DEF Shapes
    <3>2. \A d \in Live : alloc[d] \in DOMAIN portOf
      BY <2>3 DEF Shapes, Live
    <3>3. \A d \in Live : portOf[alloc[d]] # p
      BY <2>1 DEF Used
    <3> QED
      BY <2>2, <2>3, <3>1, <3>2, <3>3 DEF Places, OneLive, Live
  <2> QED
    BY <2>5, <2>6, <2>7 DEF Places
<1>4. ASSUME NEW c \in Clients, Release(c) PROVE Places'
  <2>1. UNCHANGED portOf /\ \A m \in InFlight' : m \in InFlight \/ m.kind # "register"
    <3> DEFINE p == portOf[alloc[c]]
    <3>1. p \in Ports /\ 0 \in 0 .. MaxBinds /\ "close" \in Kinds
      BY <1>4, Numbers DEF Shapes, Kinds, Release
    <3>2. /\ InFlight' = InFlight \cup {Msg("close", p, 0)} /\ Msg("close", p, 0).kind = "close"
      BY <1>4, <3>1, Returned, MsgFields DEF Release
    <3> QED
      BY <1>4, <3>2 DEF Release
  <2>2. /\ \A q \in Ports : sockets'[q] \in {sockets[q], 0} /\ tasks'[q] \in {tasks[q], 0}
        /\ pumps' \subseteq pumps /\ \A d \in Clients : alloc'[d] \in {alloc[d], 0}
    BY <1>4 DEF Shapes, AbortTask, Release
  <2> QED
    BY <2>1, <2>2, Steady
<1>5. ASSUME NEW c \in Clients, Media(c) PROVE Places'
  <2>1. UNCHANGED portOf /\ \A m \in InFlight' : m \in InFlight \/ m.kind # "register"
    <3> DEFINE p == portOf[alloc[c]]
    <3>1. p \in Ports /\ 0 \in 0 .. MaxBinds /\ "relay" \in Kinds
      BY <1>5, Numbers DEF Shapes, Kinds, Media
    <3>2. /\ InFlight' = InFlight \cup {Msg("relay", p, 0)} /\ Msg("relay", p, 0).kind = "relay"
      BY <1>5, <3>1, Returned, MsgFields DEF Media
    <3> QED
      BY <1>5, <3>2 DEF Media
  <2>2. /\ \A q \in Ports : sockets'[q] \in {sockets[q], 0} /\ tasks'[q] \in {tasks[q], 0}
        /\ pumps' \subseteq pumps /\ \A d \in Clients : alloc'[d] \in {alloc[d], 0}
    BY <1>5 DEF Shapes, AbortTask, Media
  <2> QED
    BY <2>1, <2>2, Steady
<1>6. ASSUME SendRelay PROVE Places'
  <2>1. UNCHANGED portOf /\ \A m \in InFlight' : m \in InFlight \/ m.kind # "register"
    BY <1>6, Taken DEF SendRelay
  <2>2. /\ \A q \in Ports : sockets'[q] \in {sockets[q], 0} /\ tasks'[q] \in {tasks[q], 0}
        /\ pumps' \subseteq pumps /\ \A d \in Clients : alloc'[d] \in {alloc[d], 0}
    BY <1>6 DEF Shapes, AbortTask, SendRelay
  <2> QED
    BY <2>1, <2>2, Steady
<1>7. ASSUME CloseRelay PROVE Places'
  <2>1. UNCHANGED portOf /\ \A m \in InFlight' : m \in InFlight \/ m.kind # "register"
    BY <1>7, Taken DEF CloseRelay
  <2>2. /\ \A q \in Ports : sockets'[q] \in {sockets[q], 0} /\ tasks'[q] \in {tasks[q], 0}
        /\ pumps' \subseteq pumps /\ \A d \in Clients : alloc'[d] \in {alloc[d], 0}
    BY <1>7 DEF Shapes, AbortTask, CloseRelay
  <2> QED
    BY <2>1, <2>2, Steady
<1>8. ASSUME RegisterRelay PROVE Places'
  <2> DEFINE m == Head(queue)
  <2>1. /\ UNCHANGED <<portOf, tasks, alloc>> /\ m \in InFlight /\ m.kind = "register"
        /\ InFlight' \subseteq InFlight /\ m.port \in Ports
        /\ sockets' = [sockets EXCEPT ![m.port] = m.sock] /\ pumps' = pumps \cup {m.sock}
    BY <1>8, Taken, MsgFields DEF RegisterRelay
  <2> HIDE DEF m
  <2>2. m.sock \in DOMAIN portOf /\ portOf[m.sock] = m.port /\ m.sock \in Open
    BY <2>1 DEF Places, Sited, Open
  <2>3. Sited'
    BY <2>1, <2>2 DEF Places, Sited, Shapes
  <2>4. Open' \subseteq Open
    BY <2>1, <2>2 DEF Open, Shapes
  <2>5. OneOpen' /\ OneLive'
    BY <2>1, <2>4 DEF Places, OneOpen, OneLive, Live
  <2> QED
    BY <2>3, <2>5 DEF Places
<1>9. ASSUME AdoptFails PROVE Places'
  <2>1. UNCHANGED portOf /\ \A m \in InFlight' : m \in InFlight \/ m.kind # "register"
    BY <1>9, Taken DEF AdoptFails
  <2>2. /\ \A q \in Ports : sockets'[q] \in {sockets[q], 0} /\ tasks'[q] \in {tasks[q], 0}
        /\ pumps' \subseteq pumps /\ \A d \in Clients : alloc'[d] \in {alloc[d], 0}
    BY <1>9 DEF Shapes, AbortTask, AdoptFails
  <2> QED
    BY <2>1, <2>2, Steady
<1>10. ASSUME KeepHandle PROVE Places'
  <2>1. /\ UNCHANGED <<portOf, sockets, pumps, alloc>> /\ InFlight' = InFlight
        /\ tasks' = [tasks EXCEPT ![egress.port] = egress.sock]
    BY <1>10, FlightKept DEF KeepHandle
  <2>2. portOf[egress.sock] = egress.port
    BY <1>10 DEF KeepHandle, Standing
  <2>3. Sited'
    BY <2>1, <2>2 DEF Places, Sited, Shapes
  <2>4. OneOpen' /\ OneLive'
    BY <2>1 DEF Places, OneOpen, Open, OneLive, Live
  <2> QED
    BY <2>3, <2>4 DEF Places
<1>11. ASSUME StopPump PROVE Places'
  <2>1. UNCHANGED portOf /\ \A m \in InFlight' : m \in InFlight \/ m.kind # "register"
    BY <1>11, FlightKept DEF StopPump
  <2>2. /\ \A q \in Ports : sockets'[q] \in {sockets[q], 0} /\ tasks'[q] \in {tasks[q], 0}
        /\ pumps' \subseteq pumps /\ \A d \in Clients : alloc'[d] \in {alloc[d], 0}
    BY <1>11 DEF Shapes, AbortTask, StopPump
  <2> QED
    BY <2>1, <2>2, Steady
<1>12. ASSUME Expire PROVE Places'
  <2>1. UNCHANGED portOf /\ \A m \in InFlight' : m \in InFlight \/ m.kind # "register"
    BY <1>12, FlightKept DEF Expire
  <2>2. /\ \A q \in Ports : sockets'[q] \in {sockets[q], 0} /\ tasks'[q] \in {tasks[q], 0}
        /\ pumps' \subseteq pumps /\ \A d \in Clients : alloc'[d] \in {alloc[d], 0}
    BY <1>12, Ends DEF Shapes, Expire
  <2> QED
    BY <2>1, <2>2, Steady
<1>13. ASSUME ListOrphans PROVE Places'
  <2>1. UNCHANGED portOf /\ \A m \in InFlight' : m \in InFlight \/ m.kind # "register"
    BY <1>13, FlightKept DEF ListOrphans
  <2>2. /\ \A q \in Ports : sockets'[q] \in {sockets[q], 0} /\ tasks'[q] \in {tasks[q], 0}
        /\ pumps' \subseteq pumps /\ \A d \in Clients : alloc'[d] \in {alloc[d], 0}
    BY <1>13 DEF Shapes, AbortTask, ListOrphans
  <2> QED
    BY <2>1, <2>2, Steady
<1>14. ASSUME NEW p \in Ports, CloseOrphan(p) PROVE Places'
  <2>1. UNCHANGED portOf /\ \A m \in InFlight' : m \in InFlight \/ m.kind # "register"
    BY <1>14, FlightKept DEF CloseOrphan
  <2>2. /\ \A q \in Ports : sockets'[q] \in {sockets[q], 0} /\ tasks'[q] \in {tasks[q], 0}
        /\ pumps' \subseteq pumps /\ \A d \in Clients : alloc'[d] \in {alloc[d], 0}
    BY <1>14 DEF Shapes, AbortTask, CloseOrphan
  <2> QED
    BY <2>1, <2>2, Steady
<1>15. ASSUME StopOrphan PROVE Places'
  <2>1. UNCHANGED portOf /\ \A m \in InFlight' : m \in InFlight \/ m.kind # "register"
    BY <1>15, FlightKept DEF StopOrphan
  <2>2. /\ \A q \in Ports : sockets'[q] \in {sockets[q], 0} /\ tasks'[q] \in {tasks[q], 0}
        /\ pumps' \subseteq pumps /\ \A d \in Clients : alloc'[d] \in {alloc[d], 0}
    BY <1>15 DEF Shapes, AbortTask, StopOrphan
  <2> QED
    BY <2>1, <2>2, Steady
<1>16. ASSUME NEW s \in Ids, PumpDropped(s) PROVE Places'
  <2>1. UNCHANGED portOf /\ \A m \in InFlight' : m \in InFlight \/ m.kind # "register"
    BY <1>16, FlightKept DEF PumpDropped
  <2>2. /\ \A q \in Ports : sockets'[q] \in {sockets[q], 0} /\ tasks'[q] \in {tasks[q], 0}
        /\ pumps' \subseteq pumps /\ \A d \in Clients : alloc'[d] \in {alloc[d], 0}
    BY <1>16 DEF Shapes, AbortTask, PumpDropped
  <2> QED
    BY <2>1, <2>2, Steady
<1>17. ASSUME NEW s \in Ids, PumpFails(s) PROVE Places'
  <2>1. UNCHANGED portOf /\ \A m \in InFlight' : m \in InFlight \/ m.kind # "register"
    BY <1>17, FlightKept DEF PumpFails
  <2>2. /\ \A q \in Ports : sockets'[q] \in {sockets[q], 0} /\ tasks'[q] \in {tasks[q], 0}
        /\ pumps' \subseteq pumps /\ \A d \in Clients : alloc'[d] \in {alloc[d], 0}
    BY <1>17 DEF Shapes, AbortTask, PumpFails
  <2> QED
    BY <2>1, <2>2, Steady
<1>18. ASSUME NEW c \in Clients, ForceRemove(c) PROVE Places'
  <2>1. UNCHANGED portOf /\ \A m \in InFlight' : m \in InFlight \/ m.kind # "register"
    BY <1>18, FlightKept DEF ForceRemove
  <2>2. /\ \A q \in Ports : sockets'[q] \in {sockets[q], 0} /\ tasks'[q] \in {tasks[q], 0}
        /\ pumps' \subseteq pumps /\ \A d \in Clients : alloc'[d] \in {alloc[d], 0}
    BY <1>18, Ends DEF Shapes, ForceRemove
  <2> QED
    BY <2>1, <2>2, Steady
<1>19. ASSUME NEW t \in Workers \cup Tasks, Dies(t) PROVE Places'
  <2>1. UNCHANGED portOf /\ \A m \in InFlight' : m \in InFlight \/ m.kind # "register"
    BY <1>19, FlightKept DEF Dies
  <2>2. /\ \A q \in Ports : sockets'[q] \in {sockets[q], 0} /\ tasks'[q] \in {tasks[q], 0}
        /\ pumps' \subseteq pumps /\ \A d \in Clients : alloc'[d] \in {alloc[d], 0}
    BY <1>19 DEF Shapes, AbortTask, Dies
  <2> QED
    BY <2>1, <2>2, Steady
<1>20. ASSUME Watchdog PROVE Places'
  <2>1. UNCHANGED portOf /\ \A m \in InFlight' : m \in InFlight \/ m.kind # "register"
    BY <1>20, FlightKept DEF Watchdog
  <2>2. /\ \A q \in Ports : sockets'[q] \in {sockets[q], 0} /\ tasks'[q] \in {tasks[q], 0}
        /\ pumps' \subseteq pumps /\ \A d \in Clients : alloc'[d] \in {alloc[d], 0}
    BY <1>20 DEF Shapes, AbortTask, Watchdog
  <2> QED
    BY <2>1, <2>2, Steady
<1>21. ASSUME Shutdown PROVE Places'
  <2>1. UNCHANGED portOf /\ \A m \in InFlight' : m \in InFlight \/ m.kind # "register"
    BY <1>21, FlightKept DEF Shutdown
  <2>2. /\ \A q \in Ports : sockets'[q] \in {sockets[q], 0} /\ tasks'[q] \in {tasks[q], 0}
        /\ pumps' \subseteq pumps /\ \A d \in Clients : alloc'[d] \in {alloc[d], 0}
    BY <1>21 DEF Shapes, AbortTask, Shutdown
  <2> QED
    BY <2>1, <2>2, Steady
<1>22. ASSUME DrainPoll PROVE Places'
  <2>1. UNCHANGED portOf /\ \A m \in InFlight' : m \in InFlight \/ m.kind # "register"
    BY <1>22, FlightKept DEF DrainPoll
  <2>2. /\ \A q \in Ports : sockets'[q] \in {sockets[q], 0} /\ tasks'[q] \in {tasks[q], 0}
        /\ pumps' \subseteq pumps /\ \A d \in Clients : alloc'[d] \in {alloc[d], 0}
    BY <1>22, Ends DEF Shapes, DrainPoll
  <2> QED
    BY <2>1, <2>2, Steady
<1>23. ASSUME DrainDone PROVE Places'
  <2>1. UNCHANGED portOf /\ \A m \in InFlight' : m \in InFlight \/ m.kind # "register"
    BY <1>23, FlightKept DEF DrainDone
  <2>2. /\ \A q \in Ports : sockets'[q] \in {sockets[q], 0} /\ tasks'[q] \in {tasks[q], 0}
        /\ pumps' \subseteq pumps /\ \A d \in Clients : alloc'[d] \in {alloc[d], 0}
    BY <1>23 DEF Shapes, AbortTask, DrainDone
  <2> QED
    BY <2>1, <2>2, Steady
<1> QED
  BY <1>1, <1>2, <1>3, <1>4, <1>5, <1>6, <1>7, <1>8, <1>9, <1>10, <1>11, <1>12, <1>13,
     <1>14, <1>15, <1>16, <1>17, <1>18, <1>19, <1>20, <1>21, <1>22, <1>23
  DEF Next, Worker, Egress, Cleanup, Drain

\* Every action keeps what the egress and the cleanup task stand at.
LEMMA StandingNext ==
    ASSUME Shapes, Places, Standing, Next
    PROVE  Standing'
<1>1. ASSUME NEW w \in Workers, Post(w) PROVE Standing'
  BY <1>1 DEF Standing, Sleeping, Receiving, Post
<1>2. ASSUME NEW c \in Clients, Allocate(c) PROVE Standing'
  <2>1. PICK p \in Ports : portOf' = Append(portOf, p)
    BY <1>2, ServerAssumption DEF Allocate
  <2>2. /\ UNCHANGED <<egress, reaper>>
        /\ \A i \in DOMAIN portOf : i \in DOMAIN portOf' /\ portOf'[i] = portOf[i]
    BY <1>2, <2>1, Numbered DEF Allocate
  <2> QED
    BY <2>2 DEF Standing
<1>3. ASSUME NEW c \in Clients, AllocateTcp(c) PROVE Standing'
  <2>1. PICK p \in Ports : portOf' = Append(portOf, p)
    BY <1>3, ServerAssumption DEF AllocateTcp
  <2>2. /\ UNCHANGED <<egress, reaper>>
        /\ \A i \in DOMAIN portOf : i \in DOMAIN portOf' /\ portOf'[i] = portOf[i]
    BY <1>3, <2>1, Numbered DEF AllocateTcp
  <2> QED
    BY <2>2 DEF Standing
<1>4. ASSUME NEW c \in Clients, Release(c) PROVE Standing'
  BY <1>4 DEF Standing, Sleeping, Receiving, Release
<1>5. ASSUME NEW c \in Clients, Media(c) PROVE Standing'
  BY <1>5 DEF Standing, Sleeping, Receiving, Media
<1>6. ASSUME SendRelay PROVE Standing'
  BY <1>6 DEF Standing, Sleeping, Receiving, SendRelay
<1>7. ASSUME CloseRelay PROVE Standing'
  BY <1>7, Taken, MsgFields DEF Standing, CloseRelay
<1>8. ASSUME RegisterRelay PROVE Standing'
  <2>1. /\ Head(queue) \in InFlight /\ Head(queue).kind = "register" /\ Head(queue).port \in Ports
    BY <1>8, Taken, MsgFields DEF RegisterRelay
  <2>2. Head(queue).sock \in DOMAIN portOf /\ portOf[Head(queue).sock] = Head(queue).port
    BY <2>1 DEF Places, Sited
  <2> QED
    BY <1>8, <2>1, <2>2 DEF Standing, RegisterRelay
<1>9. ASSUME AdoptFails PROVE Standing'
  BY <1>9 DEF Standing, Sleeping, Receiving, AdoptFails
<1>10. ASSUME KeepHandle PROVE Standing'
  BY <1>10 DEF Standing, Sleeping, Receiving, KeepHandle
<1>11. ASSUME StopPump PROVE Standing'
  BY <1>11 DEF Standing, Sleeping, Receiving, StopPump
<1>12. ASSUME Expire PROVE Standing'
  BY <1>12 DEF Standing, Shapes, Expire
<1>13. ASSUME ListOrphans PROVE Standing'
  BY <1>13 DEF Standing, Sleeping, Receiving, ListOrphans
<1>14. ASSUME NEW p \in Ports, CloseOrphan(p) PROVE Standing'
  BY <1>14 DEF Standing, Sleeping, Receiving, CloseOrphan
<1>15. ASSUME StopOrphan PROVE Standing'
  BY <1>15 DEF Standing, Shapes, Sleeping, StopOrphan
<1>16. ASSUME NEW s \in Ids, PumpDropped(s) PROVE Standing'
  BY <1>16 DEF Standing, Sleeping, Receiving, PumpDropped
<1>17. ASSUME NEW s \in Ids, PumpFails(s) PROVE Standing'
  BY <1>17 DEF Standing, Sleeping, Receiving, PumpFails
<1>18. ASSUME NEW c \in Clients, ForceRemove(c) PROVE Standing'
  BY <1>18 DEF Standing, Sleeping, Receiving, ForceRemove
<1>19. ASSUME NEW t \in Workers \cup Tasks, Dies(t) PROVE Standing'
  BY <1>19 DEF Standing, Sleeping, Receiving, Dies
<1>20. ASSUME Watchdog PROVE Standing'
  BY <1>20 DEF Standing, Sleeping, Receiving, Watchdog
<1>21. ASSUME Shutdown PROVE Standing'
  BY <1>21 DEF Standing, Sleeping, Receiving, Shutdown
<1>22. ASSUME DrainPoll PROVE Standing'
  BY <1>22 DEF Standing, Sleeping, Receiving, DrainPoll
<1>23. ASSUME DrainDone PROVE Standing'
  BY <1>23 DEF Standing, Sleeping, Receiving, DrainDone
<1> QED
  BY <1>1, <1>2, <1>3, <1>4, <1>5, <1>6, <1>7, <1>8, <1>9, <1>10, <1>11, <1>12, <1>13,
     <1>14, <1>15, <1>16, <1>17, <1>18, <1>19, <1>20, <1>21, <1>22, <1>23
  DEF Next, Worker, Egress, Cleanup, Drain

----------------------------------------------------------------------------
(* Who is served *)

\* The inductive invariant.
Kept == Shapes /\ Places /\ Standing /\ Serving

\* An allocation that ought to be served after a step that binds nothing ought to have
\* been before.
LEMMA StillDue ==
    ASSUME NEW c \in Clients, Due(c)', UNCHANGED portOf, alloc'[c] \in {alloc[c], 0},
           tcp \subseteq tcp', failed \subseteq failed', raced \subseteq raced',
           dead \subseteq dead', Running' => Running, Serving
    PROVE  Due(c) /\ alloc'[c] = alloc[c] /\ Secure(alloc[c])
<1>1. Due(c) /\ alloc'[c] = alloc[c]
  BY DEF Due, Live
<1> QED
  BY <1>1 DEF Serving

\* A step that binds nothing, and revives nothing.
Onward ==
    /\ UNCHANGED portOf /\ \A d \in Clients : alloc'[d] \in {alloc[d], 0}
    /\ tcp \subseteq tcp' /\ failed \subseteq failed' /\ raced \subseteq raced'
    /\ dead \subseteq dead' /\ (Running' => Running)

\* A step that leaves client d everything its allocation s is served by.
Spares(d, s) ==
    Due(d) /\ Due(d)' /\ alloc[d] = s /\ alloc'[d] = s /\ Secure(s) => Secure(s)'

\* When a step does so for every client, the invariant is kept.
LEMMA LeftAlone ==
    ASSUME Kept, Onward, \A d \in Clients, s \in DOMAIN portOf : Spares(d, s)
    PROVE  Serving'
<1> SUFFICES ASSUME NEW c \in Clients, Due(c)' PROVE Secure(alloc[c])'
  BY DEF Serving
<1>1. Due(c) /\ alloc'[c] = alloc[c] /\ Secure(alloc[c])
  BY StillDue DEF Kept, Onward
<1>2. PICK s \in DOMAIN portOf : s = alloc[c]
  BY <1>1, Numbers DEF Kept, Shapes, Due, Live
<1>3. Secure(s)'
  BY <1>1, <1>2 DEF Spares
<1> QED
  BY <1>1, <1>2, <1>3 DEF Secure, Posted, Pumped

\* The socket of an allocation that ought to be served is open, under its own port.
LEMMA DueOpen ==
    ASSUME Kept, NEW c \in Clients, Due(c)
    PROVE  /\ alloc[c] \in DOMAIN portOf /\ alloc[c] \in Open \ {0} /\ portOf[alloc[c]] \in Ports
           /\ \A s \in Open \ {0} : portOf[s] = portOf[alloc[c]] => s = alloc[c]
<1> DEFINE s == alloc[c]
<1>1. s \in DOMAIN portOf /\ s # 0 /\ portOf[s] \in Ports
  BY Numbers DEF Kept, Due, Live, Shapes
<1>2. Posted(s) \/ Pumped(s)
  BY DEF Kept, Serving, Secure
<1> HIDE DEF s
<1>3. s \in Open
  BY <1>2 DEF Posted, Pumped, Open
<1> QED
  BY <1>1, <1>3 DEF Kept, Places, OneOpen, s

\* Every action leaves each allocation that ought to be served with its socket.
LEMMA ServingNext ==
    ASSUME Kept, Next
    PROVE  Serving'
<1>1. ASSUME NEW w \in Workers, Post(w) PROVE Serving'
  <2>1. Onward
    BY <1>1 DEF Onward, Kept, Shapes, Running, StartDrain, Post
  <2>2. ASSUME NEW d \in Clients, NEW s \in DOMAIN portOf, Due(d), Due(d)', alloc[d] = s,
               alloc'[d] = s, Secure(s)
        PROVE  Secure(s)'
    <3>1. /\ InFlight' \subseteq InFlight
          /\ \A m \in InFlight : m.kind # "relay" => m \in InFlight'
      BY <1>1, <2>2, Delivered DEF Kept, Due, Up
    <3> QED
      BY <1>1, <2>1, <2>2, <3>1 DEF Secure, Closing, Posted, Pumped, Post
  <2>3. \A d \in Clients, s \in DOMAIN portOf : Spares(d, s)
    BY <2>2 DEF Spares
  <2> QED
    BY <2>1, <2>3, LeftAlone
<1>2. ASSUME NEW c \in Clients, Allocate(c) PROVE Serving'
  <2>1. PICK p \in Pool[c] \ Used : /\ portOf' = Append(portOf, p)
                                    /\ alloc' = [alloc EXCEPT ![c] = Len(portOf) + 1]
                                    /\ raced' = IF Named(p) THEN raced \cup {Len(portOf) + 1}
                                               ELSE raced
                                    /\ Process(c, "register", p, Len(portOf) + 1)
                                    /\ UNCHANGED tcp
    BY <1>2 DEF Allocate
  <2>2. /\ p \in Ports
        /\ UNCHANGED <<queue, sockets, tasks, pumps, aborted, egress, reaper, server, dead, failed>>
    BY <1>2, <2>1, ServerAssumption DEF Allocate
  <2>3. /\ Len(portOf) \in Nat /\ DOMAIN portOf = 1 .. Len(portOf)
        /\ \A i \in DOMAIN portOf : portOf'[i] = portOf[i]
        /\ portOf'[Len(portOf) + 1] = p /\ Len(portOf) + 1 \in 0 .. MaxBinds
    BY <1>2, <2>1, <2>2, Numbered, ServerAssumption DEF Kept, Allocate
  <2>4. PICK n \in Nat : n = Len(portOf) + 1 /\ n \notin DOMAIN portOf
    BY <2>3
  <2>5. PICK m \in Msgs : /\ InFlight' = InFlight \cup {m} /\ m.kind = "register"
                            /\ m.port = p /\ m.sock = n
    BY <2>1, <2>2, <2>3, <2>4, Returned, MsgFields DEF Kept, Kinds
  <2> SUFFICES ASSUME NEW d \in Clients, Due(d)' PROVE Secure(alloc[d])'
    BY DEF Serving
  <2>6. CASE d = c
    <3>1. alloc'[d] = n /\ n \notin raced'
      BY <2>1, <2>4, <2>6 DEF Due, Kept, Shapes
    <3>2. ~Named(p)
      BY <2>1, <2>4, <3>1
    <3>3. n \notin aborted
      BY <2>4 DEF Kept, Shapes
    <3>4. portOf'[n] = p
      BY <2>3, <2>4
    <3>5. Secure(n)'
      BY <2>2, <2>5, <3>2, <3>3, <3>4 DEF Secure, Closing, Named, Posted
    <3> QED
      BY <3>1, <3>5 DEF Secure, Posted, Pumped
  <2>7. CASE d # c
    <3>1. PICK s \in DOMAIN portOf : s = alloc[d] /\ s = alloc'[d]
      BY <2>1, <2>3, <2>7 DEF Kept, Shapes, Due, Live
    <3>2. Due(d)
      BY <2>1, <2>2, <2>3, <3>1 DEF Due, Live, Running
    <3>3. Secure(s)
      BY <3>1, <3>2 DEF Kept, Serving
    <3>4. Secure(s)'
      BY <2>2, <2>3, <2>5, <3>3 DEF Secure, Closing, Posted, Pumped
    <3> QED
      BY <3>1, <3>4 DEF Secure, Posted, Pumped
  <2> QED
    BY <2>6, <2>7
<1>3. ASSUME NEW c \in Clients, AllocateTcp(c) PROVE Serving'
  <2>1. PICK p \in Pool[c] \ Used : /\ portOf' = Append(portOf, p)
                                    /\ alloc' = [alloc EXCEPT ![c] = Len(portOf) + 1]
                                    /\ tcp' = tcp \cup {Len(portOf) + 1} /\ UNCHANGED <<out, raced>>
    BY <1>3 DEF AllocateTcp
  <2>2. /\ p \in Ports
        /\ UNCHANGED <<queue, sockets, tasks, pumps, aborted, egress, reaper, server, dead, failed>>
    BY <1>3, <2>1, ServerAssumption DEF AllocateTcp
  <2>3. /\ Len(portOf) \in Nat /\ DOMAIN portOf = 1 .. Len(portOf)
        /\ \A i \in DOMAIN portOf : portOf'[i] = portOf[i]
        /\ portOf'[Len(portOf) + 1] = p /\ Len(portOf) + 1 \in 0 .. MaxBinds
    BY <1>3, <2>1, <2>2, Numbered, ServerAssumption DEF Kept, AllocateTcp
  <2>4. PICK n \in Nat : n = Len(portOf) + 1 /\ n \notin DOMAIN portOf
    BY <2>3
  <2>5. InFlight' = InFlight
    BY <2>1, <2>2, FlightKept
  <2> SUFFICES ASSUME NEW d \in Clients, Due(d)' PROVE Secure(alloc[d])'
    BY DEF Serving
  <2>6. CASE d = c
    BY <2>1, <2>6 DEF Due, Kept, Shapes
  <2>7. CASE d # c
    <3>1. PICK s \in DOMAIN portOf : s = alloc[d] /\ s = alloc'[d]
      BY <2>1, <2>3, <2>7 DEF Kept, Shapes, Due, Live
    <3>2. Due(d)
      BY <2>1, <2>2, <2>3, <3>1 DEF Due, Live, Running
    <3>3. Secure(s)
      BY <3>1, <3>2 DEF Kept, Serving
    <3>4. Secure(s)'
      BY <2>2, <2>3, <2>5, <3>3 DEF Secure, Closing, Posted, Pumped
    <3> QED
      BY <3>1, <3>4 DEF Secure, Posted, Pumped
  <2> QED
    BY <2>6, <2>7
<1>4. ASSUME NEW c \in Clients, Release(c) PROVE Serving'
  <2>1. Onward
    BY <1>4 DEF Onward, Kept, Shapes, Running, StartDrain, Release
  <2>2. ASSUME NEW d \in Clients, NEW s \in DOMAIN portOf, Due(d), Due(d)', alloc[d] = s,
               alloc'[d] = s, Secure(s)
        PROVE  Secure(s)'
    <3> DEFINE q == portOf[alloc[c]]
    <3>0. alloc[c] \in DOMAIN portOf /\ MaxBinds \in Nat
      BY <1>4, Numbers, ServerAssumption DEF Kept, Shapes, Release
    <3>1. q \in Ports /\ 0 \in 0 .. MaxBinds /\ "close" \in Kinds
      BY <3>0 DEF Kept, Shapes, Kinds
    <3>2. /\ InFlight' = InFlight \cup {Msg("close", q, 0)}
          /\ Msg("close", q, 0).kind = "close" /\ Msg("close", q, 0).port = q
      BY <1>4, <3>1, Returned, MsgFields DEF Kept, Release
    <3>3. UNCHANGED <<portOf, egress, sockets, tasks, pumps, aborted, reaper>>
      BY <1>4 DEF Release
    <3>4. q # portOf[s]
      BY <1>4, <2>2 DEF Kept, Places, OneLive, Live, Due, Release, Shapes
    <3> HIDE DEF q
    <3> QED
      BY <2>2, <3>2, <3>3, <3>4 DEF Secure, Closing, Posted, Pumped
  <2>3. \A d \in Clients, s \in DOMAIN portOf : Spares(d, s)
    BY <2>2 DEF Spares
  <2> QED
    BY <2>1, <2>3, LeftAlone
<1>5. ASSUME NEW c \in Clients, Media(c) PROVE Serving'
  <2>1. Onward
    BY <1>5 DEF Onward, Kept, Shapes, Running, StartDrain, Media
  <2>2. ASSUME NEW d \in Clients, NEW s \in DOMAIN portOf, Due(d), Due(d)', alloc[d] = s,
               alloc'[d] = s, Secure(s)
        PROVE  Secure(s)'
    <3> DEFINE q == portOf[alloc[c]]
    <3>0. alloc[c] \in DOMAIN portOf /\ MaxBinds \in Nat
      BY <1>5, Numbers, ServerAssumption DEF Kept, Shapes, Media
    <3>1. q \in Ports /\ 0 \in 0 .. MaxBinds /\ "relay" \in Kinds
      BY <3>0 DEF Kept, Shapes, Kinds
    <3>2. /\ InFlight' = InFlight \cup {Msg("relay", q, 0)}
          /\ Msg("relay", q, 0).kind = "relay" /\ Msg("relay", q, 0).port = q
      BY <1>5, <3>1, Returned, MsgFields DEF Kept, Media
    <3>3. UNCHANGED <<portOf, egress, sockets, tasks, pumps, aborted, reaper>>
      BY <1>5 DEF Media
    <3> HIDE DEF q
    <3> QED
      BY <2>2, <3>2, <3>3 DEF Secure, Closing, Posted, Pumped
  <2>3. \A d \in Clients, s \in DOMAIN portOf : Spares(d, s)
    BY <2>2 DEF Spares
  <2> QED
    BY <2>1, <2>3, LeftAlone
<1>6. ASSUME SendRelay PROVE Serving'
  <2>1. Onward
    BY <1>6 DEF Onward, Kept, Shapes, Running, StartDrain, SendRelay
  <2>2. ASSUME NEW d \in Clients, NEW s \in DOMAIN portOf, Due(d), Due(d)', alloc[d] = s,
               alloc'[d] = s, Secure(s)
        PROVE  Secure(s)'
    <3>1. Head(queue).kind = "relay" /\ InFlight = InFlight' \cup {Head(queue)}
      BY <1>6, Taken DEF Kept, SendRelay
    <3> QED
      BY <1>6, <2>1, <2>2, <3>1 DEF Secure, Closing, Posted, Pumped, SendRelay
  <2>3. \A d \in Clients, s \in DOMAIN portOf : Spares(d, s)
    BY <2>2 DEF Spares
  <2> QED
    BY <2>1, <2>3, LeftAlone
<1>7. ASSUME CloseRelay PROVE Serving'
  <2>1. Onward
    BY <1>7 DEF Onward, Kept, Shapes, Running, StartDrain, CloseRelay
  <2>2. ASSUME NEW d \in Clients, NEW s \in DOMAIN portOf, Due(d), Due(d)', alloc[d] = s,
               alloc'[d] = s, Secure(s)
        PROVE  Secure(s)'
    <3>1. PICK m \in InFlight : /\ m = Head(queue) /\ m.kind = "close" /\ m.port \in Ports
                                /\ InFlight = InFlight' \cup {m}
      BY <1>7, Taken, MsgFields DEF Kept, CloseRelay
    <3>2. /\ sockets' = [sockets EXCEPT ![m.port] = 0]
          /\ egress' = [pc |-> "abort", port |-> m.port, sock |-> 0] /\ egress.pc = "recv"
          /\ UNCHANGED <<portOf, tasks, pumps, aborted, reaper>>
      BY <1>7, <3>1 DEF CloseRelay, Take
    <3>3. m.port # portOf[s] /\ portOf[s] \in Ports
      BY <2>2, <3>1, Numbers DEF Kept, Secure, Closing
    <3>4. ~Closing(portOf[s])' /\ s \notin aborted'
      BY <2>2, <3>1, <3>2, <3>3 DEF Secure, Closing
    <3>5. Posted(s) => Posted(s)'
      BY <3>1 DEF Posted
    <3>6. Pumped(s) => Pumped(s)'
      BY <3>2, <3>3 DEF Pumped, Kept, Shapes
    <3> QED
      BY <2>2, <3>2, <3>4, <3>5, <3>6 DEF Secure
  <2>3. \A d \in Clients, s \in DOMAIN portOf : Spares(d, s)
    BY <2>2 DEF Spares
  <2> QED
    BY <2>1, <2>3, LeftAlone
<1>8. ASSUME RegisterRelay PROVE Serving'
  <2>1. Onward
    BY <1>8 DEF Onward, Kept, Shapes, Running, StartDrain, RegisterRelay
  <2>2. ASSUME NEW d \in Clients, NEW s \in DOMAIN portOf, Due(d), Due(d)', alloc[d] = s,
               alloc'[d] = s, Secure(s)
        PROVE  Secure(s)'
    <3>1. PICK m \in InFlight : /\ m = Head(queue) /\ m.kind = "register" /\ m.port \in Ports
                                /\ InFlight = InFlight' \cup {m}
      BY <1>8, Taken, MsgFields DEF Kept, RegisterRelay
    <3>2. /\ sockets' = [sockets EXCEPT ![m.port] = m.sock] /\ pumps' = pumps \cup {m.sock}
          /\ egress' = [pc |-> "task", port |-> m.port, sock |-> m.sock] /\ egress.pc = "recv"
          /\ UNCHANGED <<portOf, tasks, aborted, reaper>>
      BY <1>8, <3>1 DEF RegisterRelay, Take
    <3>3. portOf[m.sock] = m.port /\ m.sock \in Open \ {0}
      BY <3>1, Numbers DEF Kept, Places, Sited, Open
    <3>4. ~Closing(portOf[s])' /\ s \notin aborted'
      BY <2>2, <3>1, <3>2 DEF Secure, Closing
    <3>5. CASE m.sock = s
      <4>1. Pumped(s)'
        BY <3>1, <3>2, <3>3, <3>5 DEF Pumped, Kept, Shapes
      <4> QED
        BY <3>2, <3>4, <3>5, <4>1 DEF Secure
    <3>6. CASE m.sock # s
      <4>1. m.port # portOf[s] /\ portOf[s] \in Ports
        BY <2>2, <3>3, <3>6, DueOpen
      <4>2. Posted(s) => Posted(s)'
        BY <3>1, <3>6 DEF Posted
      <4>3. Pumped(s) => Pumped(s)'
        BY <3>2, <4>1 DEF Pumped, Kept, Shapes
      <4> QED
        BY <2>2, <3>2, <3>4, <4>1, <4>2, <4>3 DEF Secure
    <3> QED
      BY <3>5, <3>6
  <2>3. \A d \in Clients, s \in DOMAIN portOf : Spares(d, s)
    BY <2>2 DEF Spares
  <2> QED
    BY <2>1, <2>3, LeftAlone
<1>9. ASSUME AdoptFails PROVE Serving'
  <2>1. Onward
    BY <1>9 DEF Onward, Kept, Shapes, Running, StartDrain, AdoptFails
  <2>2. ASSUME NEW d \in Clients, NEW s \in DOMAIN portOf, Due(d), Due(d)', alloc[d] = s,
               alloc'[d] = s, Secure(s)
        PROVE  Secure(s)'
    <3>1. PICK m \in InFlight : /\ m = Head(queue) /\ m.kind = "register"
                                /\ InFlight = InFlight' \cup {m}
      BY <1>9, Taken DEF Kept, AdoptFails
    <3>2. m.sock # s
      BY <1>9, <2>2, <3>1 DEF AdoptFails, Due
    <3>3. Posted(s) => Posted(s)'
      BY <3>1, <3>2 DEF Posted
    <3> QED
      BY <1>9, <2>1, <2>2, <3>1, <3>3 DEF Secure, Closing, Pumped, AdoptFails
  <2>3. \A d \in Clients, s \in DOMAIN portOf : Spares(d, s)
    BY <2>2 DEF Spares
  <2> QED
    BY <2>1, <2>3, LeftAlone
<1>10. ASSUME KeepHandle PROVE Serving'
  <2>1. Onward
    BY <1>10 DEF Onward, Kept, Shapes, Running, StartDrain, KeepHandle
  <2>2. ASSUME NEW d \in Clients, NEW s \in DOMAIN portOf, Due(d), Due(d)', alloc[d] = s,
               alloc'[d] = s, Secure(s)
        PROVE  Secure(s)'
    <3>1. /\ InFlight' = InFlight /\ UNCHANGED <<portOf, sockets, pumps, aborted, reaper>>
          /\ egress.pc = "task" /\ egress' = Receiving
          /\ tasks' = [tasks EXCEPT ![egress.port] = egress.sock]
      BY <1>10, FlightKept DEF KeepHandle
    <3>2. portOf[s] \in Ports /\ (egress.sock = s => egress.port = portOf[s])
      BY <2>2, <3>1, Numbers DEF Kept, Standing
    <3>3. Pumped(s) => Pumped(s)'
      BY <2>2, <3>1, <3>2 DEF Pumped, Kept, Shapes, Secure
    <3> QED
      BY <2>2, <3>1, <3>3 DEF Secure, Closing, Posted, Receiving
  <2>3. \A d \in Clients, s \in DOMAIN portOf : Spares(d, s)
    BY <2>2 DEF Spares
  <2> QED
    BY <2>1, <2>3, LeftAlone
<1>11. ASSUME StopPump PROVE Serving'
  <2>1. Onward
    BY <1>11 DEF Onward, Kept, Shapes, Running, StartDrain, StopPump
  <2>2. ASSUME NEW d \in Clients, NEW s \in DOMAIN portOf, Due(d), Due(d)', alloc[d] = s,
               alloc'[d] = s, Secure(s)
        PROVE  Secure(s)'
    <3>1. /\ InFlight' = InFlight /\ UNCHANGED <<portOf, sockets, pumps>>
          /\ egress.pc = "abort" /\ egress.port \in Ports
          /\ tasks' = [tasks EXCEPT ![egress.port] = 0]
          /\ aborted' = aborted \cup ({tasks[egress.port]} \cap pumps)
      BY <1>11, FlightKept DEF StopPump, AbortTask, Kept, Standing
    <3>2. portOf[s] \in Ports /\ portOf[s] # egress.port
      BY <2>2, <3>1, Numbers DEF Kept, Secure, Closing
    <3>3. tasks[egress.port] # s /\ tasks'[portOf[s]] = tasks[portOf[s]]
      BY <2>2, <3>1, <3>2, Numbers DEF Kept, Places, Sited, Shapes
    <3>4. UNCHANGED reaper /\ egress'.pc = "recv"
      BY <1>11 DEF StopPump, Receiving, Sleeping, Kept, Shapes
    <3> QED
      BY <2>2, <3>1, <3>3, <3>4 DEF Secure, Closing, Posted, Pumped
  <2>3. \A d \in Clients, s \in DOMAIN portOf : Spares(d, s)
    BY <2>2 DEF Spares
  <2> QED
    BY <2>1, <2>3, LeftAlone
<1>12. ASSUME Expire PROVE Serving'
  <2>1. Onward
    BY <1>12, Ends DEF Onward, Kept, Shapes, Running, StartDrain, Expire
  <2>2. ASSUME NEW d \in Clients, NEW s \in DOMAIN portOf, Due(d), Due(d)', alloc[d] = s,
               alloc'[d] = s, Secure(s)
        PROVE  Secure(s)'
    BY <1>12, <2>1, <2>2, FlightKept DEF Kept, Secure, Closing, Posted, Pumped, Expire
  <2>3. \A d \in Clients, s \in DOMAIN portOf : Spares(d, s)
    BY <2>2 DEF Spares
  <2> QED
    BY <2>1, <2>3, LeftAlone
<1>13. ASSUME ListOrphans PROVE Serving'
  <2>1. Onward
    BY <1>13 DEF Onward, Kept, Shapes, Running, StartDrain, ListOrphans
  <2>2. ASSUME NEW d \in Clients, NEW s \in DOMAIN portOf, Due(d), Due(d)', alloc[d] = s,
               alloc'[d] = s, Secure(s)
        PROVE  Secure(s)'
    <3>1. portOf[s] \in Used \ TenantPorts
      BY <2>2 DEF Due, Used
    <3>2. /\ portOf[s] \notin reaper'.todo /\ reaper'.pc # "abort" /\ InFlight' = InFlight
          /\ UNCHANGED <<portOf, sockets, pumps, tasks, aborted, egress>>
      BY <1>13, <3>1, FlightKept DEF ListOrphans, Orphans, IsAllocated, Sleeping
    <3> QED
      BY <2>2, <3>2 DEF Secure, Closing, Posted, Pumped
  <2>3. \A d \in Clients, s \in DOMAIN portOf : Spares(d, s)
    BY <2>2 DEF Spares
  <2> QED
    BY <2>1, <2>3, LeftAlone
<1>14. ASSUME NEW p \in Ports, CloseOrphan(p) PROVE Serving'
  <2>1. Onward
    BY <1>14 DEF Onward, Kept, Shapes, Running, StartDrain, CloseOrphan
  <2>2. ASSUME NEW d \in Clients, NEW s \in DOMAIN portOf, Due(d), Due(d)', alloc[d] = s,
               alloc'[d] = s, Secure(s)
        PROVE  Secure(s)'
    BY <1>14, <2>1, <2>2, FlightKept DEF Kept, Secure, Closing, Posted, Pumped, CloseOrphan
  <2>3. \A d \in Clients, s \in DOMAIN portOf : Spares(d, s)
    BY <2>2 DEF Spares
  <2> QED
    BY <2>1, <2>3, LeftAlone
<1>15. ASSUME StopOrphan PROVE Serving'
  <2>1. Onward
    BY <1>15 DEF Onward, Kept, Shapes, Running, StartDrain, StopOrphan
  <2>2. ASSUME NEW d \in Clients, NEW s \in DOMAIN portOf, Due(d), Due(d)', alloc[d] = s,
               alloc'[d] = s, Secure(s)
        PROVE  Secure(s)'
    <3>1. /\ InFlight' = InFlight /\ UNCHANGED <<portOf, sockets, pumps>>
          /\ reaper.pc = "abort" /\ reaper.port \in Ports
          /\ tasks' = [tasks EXCEPT ![reaper.port] = 0]
          /\ aborted' = aborted \cup ({tasks[reaper.port]} \cap pumps)
      BY <1>15, FlightKept DEF StopOrphan, AbortTask, Kept, Standing
    <3>2. portOf[s] \in Ports /\ portOf[s] # reaper.port
      BY <2>2, <3>1, Numbers DEF Kept, Secure, Closing
    <3>3. tasks[reaper.port] # s /\ tasks'[portOf[s]] = tasks[portOf[s]]
      BY <2>2, <3>1, <3>2, Numbers DEF Kept, Places, Sited, Shapes
    <3>4. UNCHANGED egress /\ reaper'.pc # "abort" /\ reaper'.todo \subseteq reaper.todo
      BY <1>15 DEF StopOrphan, Receiving, Sleeping, Kept, Shapes
    <3> QED
      BY <2>2, <3>1, <3>3, <3>4 DEF Secure, Closing, Posted, Pumped
  <2>3. \A d \in Clients, s \in DOMAIN portOf : Spares(d, s)
    BY <2>2 DEF Spares
  <2> QED
    BY <2>1, <2>3, LeftAlone
<1>16. ASSUME NEW s \in Ids, PumpDropped(s) PROVE Serving'
  <2>1. Onward
    BY <1>16 DEF Onward, Kept, Shapes, Running, StartDrain, PumpDropped
  <2>2. ASSUME NEW d \in Clients, NEW x \in DOMAIN portOf, Due(d), Due(d)', alloc[d] = x,
               alloc'[d] = x, Secure(x)
        PROVE  Secure(x)'
    BY <1>16, <2>1, <2>2, FlightKept DEF Kept, Secure, Closing, Posted, Pumped, PumpDropped
  <2>3. \A d \in Clients, x \in DOMAIN portOf : Spares(d, x)
    BY <2>2 DEF Spares
  <2> QED
    BY <2>1, <2>3, LeftAlone
<1>17. ASSUME NEW s \in Ids, PumpFails(s) PROVE Serving'
  <2>1. Onward
    BY <1>17 DEF Onward, Kept, Shapes, Running, StartDrain, PumpFails
  <2>2. ASSUME NEW d \in Clients, NEW x \in DOMAIN portOf, Due(d), Due(d)', alloc[d] = x,
               alloc'[d] = x, Secure(x)
        PROVE  Secure(x)'
    <3>1. x # s /\ s \in Open \ {0} /\ portOf[s] \in Ports
      BY <1>17, <2>2, Numbers DEF Due, PumpFails, Open, Kept, Shapes
    <3>2. portOf[s] # portOf[x] /\ portOf[x] \in Ports
      BY <2>2, <3>1, DueOpen
    <3>3. /\ InFlight' = InFlight /\ UNCHANGED <<portOf, tasks, aborted, egress, reaper>>
          /\ sockets' = [sockets EXCEPT ![portOf[s]] = 0] /\ pumps' = pumps \ {s}
      BY <1>17, FlightKept DEF PumpFails
    <3> QED
      BY <2>2, <3>1, <3>2, <3>3 DEF Secure, Closing, Posted, Pumped, Kept, Shapes
  <2>3. \A d \in Clients, x \in DOMAIN portOf : Spares(d, x)
    BY <2>2 DEF Spares
  <2> QED
    BY <2>1, <2>3, LeftAlone
<1>18. ASSUME NEW c \in Clients, ForceRemove(c) PROVE Serving'
  <2>1. Onward
    BY <1>18, Ends DEF Onward, Kept, Shapes, Running, StartDrain, ForceRemove
  <2>2. ASSUME NEW d \in Clients, NEW s \in DOMAIN portOf, Due(d), Due(d)', alloc[d] = s,
               alloc'[d] = s, Secure(s)
        PROVE  Secure(s)'
    BY <1>18, <2>1, <2>2, FlightKept DEF Kept, Secure, Closing, Posted, Pumped, ForceRemove
  <2>3. \A d \in Clients, s \in DOMAIN portOf : Spares(d, s)
    BY <2>2 DEF Spares
  <2> QED
    BY <2>1, <2>3, LeftAlone
<1>19. ASSUME NEW t \in Workers \cup Tasks, Dies(t) PROVE Serving'
  <2>1. Onward
    BY <1>19 DEF Onward, Kept, Shapes, Running, StartDrain, Dies
  <2>2. ASSUME NEW d \in Clients, NEW s \in DOMAIN portOf, Due(d), Due(d)', alloc[d] = s,
               alloc'[d] = s, Secure(s)
        PROVE  Secure(s)'
    BY <1>19, <2>1, <2>2, FlightKept DEF Kept, Secure, Closing, Posted, Pumped, Dies
  <2>3. \A d \in Clients, s \in DOMAIN portOf : Spares(d, s)
    BY <2>2 DEF Spares
  <2> QED
    BY <2>1, <2>3, LeftAlone
<1>20. ASSUME Watchdog PROVE Serving'
  <2>1. Onward
    BY <1>20 DEF Onward, Kept, Shapes, Running, StartDrain, Watchdog
  <2>2. ASSUME NEW d \in Clients, NEW s \in DOMAIN portOf, Due(d), Due(d)', alloc[d] = s,
               alloc'[d] = s, Secure(s)
        PROVE  Secure(s)'
    BY <1>20, <2>1, <2>2, FlightKept DEF Kept, Secure, Closing, Posted, Pumped, Watchdog
  <2>3. \A d \in Clients, s \in DOMAIN portOf : Spares(d, s)
    BY <2>2 DEF Spares
  <2> QED
    BY <2>1, <2>3, LeftAlone
<1>21. ASSUME Shutdown PROVE Serving'
  <2>1. Onward
    BY <1>21 DEF Onward, Kept, Shapes, Running, StartDrain, Shutdown
  <2>2. ASSUME NEW d \in Clients, NEW s \in DOMAIN portOf, Due(d), Due(d)', alloc[d] = s,
               alloc'[d] = s, Secure(s)
        PROVE  Secure(s)'
    BY <1>21, <2>1, <2>2, FlightKept DEF Kept, Secure, Closing, Posted, Pumped, Shutdown
  <2>3. \A d \in Clients, s \in DOMAIN portOf : Spares(d, s)
    BY <2>2 DEF Spares
  <2> QED
    BY <2>1, <2>3, LeftAlone
<1>22. ASSUME DrainPoll PROVE Serving'
  <2>1. Onward
    BY <1>22, Ends DEF Onward, Kept, Shapes, Running, StartDrain, DrainPoll
  <2>2. ASSUME NEW d \in Clients, NEW s \in DOMAIN portOf, Due(d), Due(d)', alloc[d] = s,
               alloc'[d] = s, Secure(s)
        PROVE  Secure(s)'
    BY <1>22, <2>1, <2>2, FlightKept DEF Kept, Secure, Closing, Posted, Pumped, DrainPoll
  <2>3. \A d \in Clients, s \in DOMAIN portOf : Spares(d, s)
    BY <2>2 DEF Spares
  <2> QED
    BY <2>1, <2>3, LeftAlone
<1>23. ASSUME DrainDone PROVE Serving'
  <2>1. Onward
    BY <1>23 DEF Onward, Kept, Shapes, Running, StartDrain, DrainDone
  <2>2. ASSUME NEW d \in Clients, NEW s \in DOMAIN portOf, Due(d), Due(d)', alloc[d] = s,
               alloc'[d] = s, Secure(s)
        PROVE  Secure(s)'
    BY <1>23, <2>1, <2>2, FlightKept DEF Kept, Secure, Closing, Posted, Pumped, DrainDone
  <2>3. \A d \in Clients, s \in DOMAIN portOf : Spares(d, s)
    BY <2>2 DEF Spares
  <2> QED
    BY <2>1, <2>3, LeftAlone
<1> QED
  BY <1>1, <1>2, <1>3, <1>4, <1>5, <1>6, <1>7, <1>8, <1>9, <1>10, <1>11, <1>12, <1>13,
     <1>14, <1>15, <1>16, <1>17, <1>18, <1>19, <1>20, <1>21, <1>22, <1>23
  DEF Next, Worker, Egress, Cleanup, Drain

----------------------------------------------------------------------------
(* The theorems *)

\* A server that has just started has bound nothing.
LEMMA InitKept == Init => Kept
<1> SUFFICES ASSUME Init PROVE Kept
  OBVIOUS
<1>1. /\ 0 \in 0 .. MaxBinds /\ 0 < StallPolls /\ 0 <= QueueCap /\ 0 <= MaxBinds
      /\ 0 \in 0 .. 0 /\ 0 <= 1
  BY ServerAssumption
<1>2. /\ <<>> \in Seq(Ports) /\ <<>> \in Seq(Msgs) /\ Len(<<>>) = 0
      /\ DOMAIN <<>> = {}
  OBVIOUS
<1>3. Shapes
  BY <1>1, <1>2 DEF Init, Shapes, Receiving, Sleeping
<1>4. InFlight = {}
  <2>1. {queue[i] : i \in DOMAIN queue} = {}
    BY <1>2 DEF Init
  <2>2. \A w \in Workers : {out[w][i] : i \in DOMAIN out[w]} = {}
    BY <1>2 DEF Init
  <2> QED
    BY <2>1, <2>2 DEF InFlight
<1>5. Open = {0} \/ Open = {}
  BY <1>4 DEF Init, Open
<1>6. Live = {}
  BY DEF Init, Live
<1>7. Places
  BY <1>4, <1>5, <1>6 DEF Init, Places, Sited, OneOpen, OneLive
<1>8. Standing
  BY DEF Init, Standing, Receiving, Sleeping
<1>9. Serving
  BY <1>6 DEF Serving, Due
<1> QED
  BY <1>3, <1>7, <1>8, <1>9 DEF Kept

\* The four parts are inductive together.
LEMMA NextKept == Kept /\ [Next]_vars => Kept'
<1>1. ASSUME Kept, Next PROVE Kept'
  BY <1>1, ShapesNext, PlacesNext, StandingNext, ServingNext DEF Kept, Places
<1>2. ASSUME Kept, UNCHANGED vars PROVE Kept'
  <2>1. Live' = Live /\ InFlight' = InFlight
    BY <1>2, FlightKept DEF vars, Live
  <2>2. Open' = Open
    BY <1>2, <2>1 DEF vars, Open
  <2>3. Shapes' /\ Standing'
    BY <1>2 DEF Kept, Shapes, Standing, vars
  <2>4. Places'
    BY <1>2, <2>1, <2>2 DEF Kept, Places, Sited, OneOpen, OneLive, vars
  <2>5. Serving'
    BY <1>2, <2>1 DEF Kept, Serving, Due, Running, Secure, Closing, Posted, Pumped, vars
  <2> QED
    BY <2>3, <2>4, <2>5 DEF Kept
<1> QED
  BY <1>1, <1>2

\* So they hold in every state.
LEMMA AlwaysKept == Spec => []Kept
<1> QED
  BY InitKept, NextKept, PTL DEF Spec

\* The state of the server keeps its types: no worker holds more than the action it
\* sends, the channel never exceeds its capacity, the two maps hold a socket under
\* the port it was bound to, and the drain stops before it has counted StallPolls.
THEOREM TypeCorrect == Spec => []TypeOK
<1>1. ASSUME Kept PROVE TypeOK
  <2>1. Len(portOf) \in Nat /\ DOMAIN portOf = 1 .. Len(portOf)
    BY <1>1, Numbers DEF Kept
  <2>2. ASSUME NEW p \in Ports, NEW f \in {sockets, tasks}, f[p] # 0
        PROVE  f[p] \in DOMAIN portOf /\ portOf[f[p]] = p
    <3>1. f \in [Ports -> 0 .. Len(portOf)] /\ portOf[f[p]] = p
      BY <1>1, <2>2 DEF Kept, Shapes, Places, Sited
    <3> QED
      BY <2>1, <2>2, <3>1
  <2>3. aborted \subseteq pumps /\ pumps \subseteq DOMAIN portOf
    BY <1>1 DEF Kept, Shapes
  <2>4. /\ egress.pc \in {"recv", "task", "abort"}
        /\ reaper.pc \in {"sleep", "list", "close", "abort"}
        /\ server.phase \in {"serving", "draining", "stopped"}
    BY <1>1 DEF Kept, Shapes
  <2> QED
    BY <1>1, <2>2, <2>3, <2>4 DEF Kept, Shapes, Standing, TypeOK
<1> QED
  BY <1>1, AlwaysKept, PTL

\* Neither a full channel, a CloseRelay nor the cleanup task takes a live UDP
\* allocation of the base pool off the wire, however many workers, clients, ports,
\* deaths and failures there are, unless its own socket failed, the egress task or
\* the server is gone, or the port was bound while a close still named it.
THEOREM BaseAllocationsAreServed == Spec => []BaseIsServed
<1>1. ASSUME Kept PROVE BaseIsServed
  <2> SUFFICES ASSUME NEW c \in Live, Due(c) PROVE Served(alloc[c])
    BY DEF BaseIsServed, Due
  <2>1. Secure(alloc[c])
    BY <1>1 DEF Kept, Serving, Live
  <2> QED
    BY <2>1 DEF Secure, Posted, Pumped, Served, Registering
<1> QED
  BY <1>1, AlwaysKept, PTL
=============================================================================
