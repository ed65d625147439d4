--------------------------- MODULE DataPlaneProofs ---------------------------
(***************************************************************************)
(* For every set of workers, pumps, clients, addresses and channels, and   *)
(* every quota: the two channel maps are inverse, rows restore what        *)
(* clients believe in, usage records are exact and the quota is overshot   *)
(* by at most one packet a thread.                                         *)
(***************************************************************************)
EXTENDS DataPlane, FiniteSetTheorems, TLAPS

\* A packet before add_bytes, one of them from a peer, and one before
\* add_bytes_to_client.
Counting(c) == {t \in Threads : job[t].op \in {"out", "in"} /\ job[t].client = c}
Incoming(c) == {t \in Threads : job[t].op = "in" /\ job[t].client = c}
Sharing(c) == {t \in Threads : job[t].op = "share" /\ job[t].client = c}

\* The Ref keeps the allocation, and a node that is down has none.
RefsHeld ==
  /\ \A t \in Threads : job[t].op \in {"out", "in", "share"} => Has(job[t].client)
  /\ up \/ \A c \in Clients : ~Has(c)

\* What passed is in the totals or about to be: in the sum until add_bytes, and, from a
\* peer, in the share until add_bytes_to_client.
CountedAt(c) ==
  /\ alloc[c].passed.to
       = alloc[c].share + Cardinality(Sharing(c)) + Cardinality(Incoming(c))
  /\ alloc[c].passed.from + alloc[c].passed.to = alloc[c].total + Cardinality(Counting(c))
  /\ alloc[c].win <= alloc[c].total
  /\ alloc[c].total + Cardinality(Counting(c)) <= MaxPackets

Counted == \A c \in Clients : Has(c) => CountedAt(c)

\* A packet past its quota check is as good as counted in the window.
WindowAt(c) ==
  alloc[c].win + Cardinality(Counting(c)) <= Quota + Cardinality(Threads)

WindowBounded == \A c \in Clients : Has(c) => WindowAt(c)

\* An allocation has a row of its own.
RowOwned ==
  \A c \in Clients : Has(c) =>
    row[alloc[c].relay] # None /\ row[alloc[c].relay].client = c

\* The live channels of a row have peers of their own.
RowsInjective ==
  \A r \in Relays : row[r] # None =>
    \A x, y \in Channels :
      /\ row[r].chans[x] # None /\ row[r].chans[x].time = "live"
      /\ row[r].chans[y] # None /\ row[r].chans[y].time = "live"
      /\ row[r].chans[x].peer = row[r].chans[y].peer
      => x = y

Counters == RefsHeld /\ Counted /\ WindowBounded /\ UsageExact
Bound == RowOwned /\ RowsInjective /\ ChannelsInverse /\ ChannelsPersisted

IInv == TypeOK /\ Counters /\ Bound

----------------------------------------------------------------------------
(* Records *)

\* An allocation stays one whatever field an operation writes.
LEMMA AllocationUpdates ==
  ASSUME NEW a \in Allocation
  PROVE  /\ \A x \in Times : [a EXCEPT !.time = x] \in Allocation
         /\ \A n \in 0..MaxAge : [a EXCEPT !.age = n] \in Allocation
         /\ \A ip \in Ips, x \in Times : [a EXCEPT !.perms[ip] = x] \in Allocation
         /\ \A ch \in Channels, b \in Bindings \cup {None} :
              [a EXCEPT !.chans[ch] = b] \in Allocation
         /\ \A p \in Peers, ch \in Channels : [a EXCEPT !.rev[p] = ch] \in Allocation
<1> USE DEF Allocation
<1>1. \A ip \in Ips, x \in Times : [a.perms EXCEPT ![ip] = x] \in [Ips -> Times \cup {None}]
  OBVIOUS
<1>2. \A ch \in Channels, b \in Bindings \cup {None} :
        [a.chans EXCEPT ![ch] = b] \in [Channels -> Bindings \cup {None}]
  OBVIOUS
<1>3. \A p \in Peers, ch \in Channels : [a.rev EXCEPT ![p] = ch] \in [Peers -> Channels \cup {None}]
  OBVIOUS
<1>4. \A x \in Times : [a EXCEPT !.time = x] \in Allocation
  OBVIOUS
<1>5. \A n \in 0..MaxAge : [a EXCEPT !.age = n] \in Allocation
  OBVIOUS
<1>6. \A f \in [Ips -> Times \cup {None}] : [a EXCEPT !.perms = f] \in Allocation
  OBVIOUS
<1>7. \A f \in [Channels -> Bindings \cup {None}] : [a EXCEPT !.chans = f] \in Allocation
  OBVIOUS
<1>8. \A f \in [Peers -> Channels \cup {None}] : [a EXCEPT !.rev = f] \in Allocation
  OBVIOUS
<1> HIDE DEF Allocation
<1> QED  BY <1>1, <1>2, <1>3, <1>4, <1>5, <1>6, <1>7, <1>8

\* The helpers of the allocation's methods return allocations.
LEMMA HelpersShape ==
  ASSUME NEW a \in Allocation
  PROVE  /\ Rolled(a) \in Allocation
         /\ \A ip \in Ips : Permitted(a, ip) \in Allocation
         /\ cleanup_expired_entries(a) \in Allocation
<1>1. Rolled(a) \in Allocation
  <2>1. 0 \in 0..MaxPackets /\ 0 \in 0..MaxAge
    BY DataPlaneAssumption
  <2> QED  BY <2>1 DEF Rolled, Allocation
<1>2. \A ip \in Ips : Permitted(a, ip) \in Allocation
  BY AllocationUpdates DEF Permitted, Times
<1>3. cleanup_expired_entries(a) \in Allocation
  BY DEF cleanup_expired_entries, Allocation
<1> QED  BY <1>1, <1>2, <1>3

\* Fields that an operation leaves alone.
SameCounts(a, b) == /\ a.total = b.total /\ a.share = b.share
                    /\ a.win = b.win /\ a.passed = b.passed
SameMaps(a, b) == a.relay = b.relay /\ a.chans = b.chans /\ a.rev = b.rev

\* The helpers leave the counters alone (the roll writes one), and but for the pruning
\* the channel maps.
LEMMA HelpersFrame ==
  ASSUME NEW a \in Allocation
  PROVE  /\ SameMaps(Rolled(a), a)
         /\ \A ip \in Ips : SameMaps(Permitted(a, ip), a) /\ SameCounts(Permitted(a, ip), a)
         /\ SameCounts(cleanup_expired_entries(a), a)
         /\ \A x \in Times : LET b == [a EXCEPT !.time = x] IN SameMaps(b, a) /\ SameCounts(b, a)
         /\ \A n \in 0..MaxAge : LET b == [a EXCEPT !.age = n] IN SameMaps(b, a) /\ SameCounts(b, a)
         /\ \A ip \in Ips, x \in Times :
              LET b == [a EXCEPT !.perms[ip] = x] IN SameMaps(b, a) /\ SameCounts(b, a)
<1>1. SameMaps(Rolled(a), a)
  BY DEF Rolled, Allocation, SameMaps
<1>2. \A ip \in Ips : SameMaps(Permitted(a, ip), a) /\ SameCounts(Permitted(a, ip), a)
  BY DEF Permitted, Allocation, SameMaps, SameCounts
<1>3. SameCounts(cleanup_expired_entries(a), a)
  BY DEF cleanup_expired_entries, Allocation, SameCounts
<1>4. \A x \in Times : LET b == [a EXCEPT !.time = x] IN SameMaps(b, a) /\ SameCounts(b, a)
  BY DEF Allocation, SameMaps, SameCounts
<1>5. \A n \in 0..MaxAge : LET b == [a EXCEPT !.age = n] IN SameMaps(b, a) /\ SameCounts(b, a)
  BY DEF Allocation, SameMaps, SameCounts
<1>6. \A ip \in Ips, x \in Times :
        LET b == [a EXCEPT !.perms[ip] = x] IN SameMaps(b, a) /\ SameCounts(b, a)
  BY DEF Allocation, SameMaps, SameCounts
<1> QED  BY <1>1, <1>2, <1>3, <1>4, <1>5, <1>6

\* A row stays one whatever is written to it.
LEMMA RowUpdates ==
  ASSUME NEW w \in Rows
  PROVE  /\ \A x \in Times : [w EXCEPT !.time = x] \in Rows
         /\ \A ips \in SUBSET Ips : [w EXCEPT !.perms = ips] \in Rows
         /\ \A f \in [Channels -> Bindings \cup {None}] : [w EXCEPT !.chans = f] \in Rows
  BY DEF Rows

\* A binding that runs out is still a binding.
LEMMA BindingEnds ==
  ASSUME NEW b \in Bindings
  PROVE  /\ [b EXCEPT !.time = "expired"] \in Bindings
         /\ [b EXCEPT !.time = "expired"].peer = b.peer
         /\ [b EXCEPT !.time = "expired"].time = "expired"
         /\ [b EXCEPT !.time = "live"] = [peer |-> b.peer, time |-> "live"]
         /\ [peer |-> b.peer, time |-> "live"] \in Bindings
  BY DEF Bindings, Times

\* What a ChannelBind makes of an allocation: the binding is live and its own inverse.
WithChannel(a, ch, p) ==
  IF ch \in Known(a.chans)
  THEN [Permitted(a, IpOf(p)) EXCEPT !.chans[ch].time = "live"]
  ELSE [Permitted(a, IpOf(p)) EXCEPT !.chans[ch] = [peer |-> p, time |-> "live"],
                                     !.rev[p] = ch]

\* add_channel writes the binding and, if it is new, its inverse, and no counter.
LEMMA ChannelAdded ==
  ASSUME NEW a \in Allocation, NEW ch \in Channels, NEW p \in Peers, MayBind(a, ch, p)
  PROVE  LET b == WithChannel(a, ch, p) IN
         /\ b \in Allocation /\ SameCounts(b, a) /\ b.relay = a.relay
         /\ b.chans = [a.chans EXCEPT ![ch] = [peer |-> p, time |-> "live"]]
         /\ b.rev = IF ch \in Known(a.chans) THEN a.rev ELSE [a.rev EXCEPT ![p] = ch]
<1> DEFINE e == Permitted(a, IpOf(p))
           new == [peer |-> p, time |-> "live"]
<1>1. e \in Allocation /\ SameCounts(e, a) /\ SameMaps(e, a)
  BY DataPlaneAssumption, HelpersShape, HelpersFrame
<1>2. new \in Bindings
  BY DEF Bindings, Times
<1> HIDE DEF e
<1>3. CASE ch \in Known(a.chans)
  <2>1. e.chans[ch] \in Bindings /\ e.chans[ch].peer = p
    BY <1>1, <1>3 DEF Known, SameMaps, Allocation, MayBind
  <2>2. [e.chans[ch] EXCEPT !.time = "live"] = new
    BY <2>1, BindingEnds
  <2>3. [e EXCEPT !.chans[ch].time = "live"] = [e EXCEPT !.chans[ch] = new]
    BY <2>2
  <2>4. [e EXCEPT !.chans[ch] = new] \in Allocation
    BY <1>1, <1>2, AllocationUpdates
  <2>5. LET b == [e EXCEPT !.chans[ch] = new] IN
        /\ SameCounts(b, e) /\ b.relay = e.relay
        /\ b.chans = [e.chans EXCEPT ![ch] = new] /\ b.rev = e.rev
    BY <1>1 DEF Allocation, SameCounts
  <2> QED  BY <1>1, <1>3, <2>3, <2>4, <2>5 DEF WithChannel, SameCounts, SameMaps, e
<1>4. CASE ch \notin Known(a.chans)
  <2> DEFINE f == [e EXCEPT !.chans[ch] = new]
             b == [f EXCEPT !.rev[p] = ch]
  <2>1. f \in Allocation
    BY <1>1, <1>2, AllocationUpdates
  <2>2. b \in Allocation
    BY <2>1, AllocationUpdates
  <2>3. /\ SameCounts(f, e) /\ f.relay = e.relay
        /\ f.chans = [e.chans EXCEPT ![ch] = new] /\ f.rev = e.rev
    BY <1>1 DEF Allocation, SameCounts
  <2> HIDE DEF f
  <2>4. /\ SameCounts(b, f) /\ b.relay = f.relay
        /\ b.chans = f.chans /\ b.rev = [f.rev EXCEPT ![p] = ch]
    BY <2>1 DEF Allocation, SameCounts
  <2>5. WithChannel(a, ch, p) = b
    BY <1>4 DEF WithChannel, e, f
  <2> HIDE DEF b
  <2> QED  BY <1>1, <1>4, <2>2, <2>3, <2>4, <2>5 DEF SameCounts, SameMaps
<1> QED  BY <1>3, <1>4

\* An allocation one of whose bindings runs out.
Expired(a, ch) == [a EXCEPT !.chans[ch].time = "expired"]

\* A binding that runs out keeps its place in both maps.
LEMMA ChannelExpired ==
  ASSUME NEW a \in Allocation, NEW ch \in Known(a.chans)
  PROVE  LET b == Expired(a, ch) IN
         /\ b \in Allocation /\ SameCounts(b, a) /\ b.relay = a.relay /\ b.rev = a.rev
         /\ b.chans = [a.chans EXCEPT ![ch] = b.chans[ch]]
         /\ b.chans[ch] \in Bindings /\ b.chans[ch].time = "expired"
         /\ b.chans[ch].peer = a.chans[ch].peer
<1> DEFINE x == [a.chans[ch] EXCEPT !.time = "expired"]
<1>1. ch \in Channels /\ a.chans[ch] \in Bindings
  BY DEF Known, Allocation
<1>2. x \in Bindings /\ x.time = "expired" /\ x.peer = a.chans[ch].peer
  BY <1>1, BindingEnds
<1>3. Expired(a, ch) = [a EXCEPT !.chans[ch] = x]
  BY DEF Expired
<1> HIDE DEF x
<1>4. [a EXCEPT !.chans[ch] = x] \in Allocation
  BY <1>1, <1>2, AllocationUpdates
<1>5. LET b == [a EXCEPT !.chans[ch] = x] IN
      /\ SameCounts(b, a) /\ b.relay = a.relay /\ b.rev = a.rev
      /\ b.chans = [a.chans EXCEPT ![ch] = x] /\ b.chans[ch] = x
  BY <1>1 DEF Allocation, SameCounts
<1> QED  BY <1>2, <1>3, <1>4, <1>5

----------------------------------------------------------------------------
(* Types *)

\* A new allocation, and one read back from its row.
LEMMA FreshShape ==
  ASSUME NEW r \in Relays, NEW perms \in [Ips -> Times \cup {None}],
         NEW chans \in [Channels -> Bindings \cup {None}],
         NEW rev \in [Peers -> Channels \cup {None}]
  PROVE  [relay |-> r, time |-> "live", perms |-> perms, chans |-> chans, rev |-> rev,
          total |-> 0, share |-> 0, win |-> 0, age |-> 0,
          passed |-> [from |-> 0, to |-> 0]] \in Allocation
<1>1. 0 \in 0..MaxPackets /\ 0 \in 0..MaxAge
  BY DataPlaneAssumption
<1> QED  BY <1>1 DEF Allocation, Usage, Times

\* Rehydrating a row gives an allocation.
LEMMA RehydratedShape ==
  ASSUME NEW r \in Relays, row[r] \in Rows
  PROVE  /\ Rehydrated(r) \in Allocation
         /\ Kept(row[r].chans) \in [Channels -> Bindings \cup {None}]
<1> DEFINE chans == Kept(row[r].chans)
           perms == [ip \in Ips |-> IF ip \in row[r].perms THEN "live" ELSE None]
<1>1. chans \in [Channels -> Bindings \cup {None}]
  BY DEF Kept, Rows
<1>2. perms \in [Ips -> Times \cup {None}]
  BY DEF Times
<1>3. Reversed(chans) \in [Peers -> Channels \cup {None}]
  <2>1. \A p \in Peers : {ch \in Known(chans) : chans[ch].peer = p} \subseteq Channels
    BY <1>1 DEF Known
  <2> HIDE DEF chans
  <2> QED  BY <2>1 DEF Reversed
<1> HIDE DEF chans, perms
<1>4. [relay |-> r, time |-> "live", perms |-> perms, chans |-> chans,
       rev |-> Reversed(chans), total |-> 0, share |-> 0, win |-> 0, age |-> 0,
       passed |-> [from |-> 0, to |-> 0]] \in Allocation
  BY <1>1, <1>2, <1>3, FreshShape
<1> QED  BY <1>1, <1>4 DEF Rehydrated, chans, perms

\* The numbers of packets on their way, which are no more than there are threads.
LEMMA CountTypes ==
  ASSUME NEW c
  PROVE  /\ IsFiniteSet(Threads) /\ Cardinality(Threads) \in Nat
         /\ IsFiniteSet(Counting(c)) /\ Cardinality(Counting(c)) \in Nat
         /\ IsFiniteSet(Sharing(c)) /\ Cardinality(Sharing(c)) \in Nat
         /\ IsFiniteSet(Incoming(c)) /\ Cardinality(Incoming(c)) \in Nat
         /\ Cardinality(Counting(c)) <= Cardinality(Threads)
         /\ Cardinality(Counting(c)) <= Cardinality(Readers(c))
         /\ Cardinality(Readers(c)) \in Nat
<1>1. IsFiniteSet(Threads)
  BY DataPlaneAssumption, FS_Union DEF Threads
<1>2. /\ Counting(c) \subseteq Threads /\ Sharing(c) \subseteq Threads
      /\ Readers(c) \subseteq Threads /\ Counting(c) \subseteq Readers(c)
      /\ Incoming(c) \subseteq Threads
  BY DEF Counting, Sharing, Incoming, Readers
<1>3. /\ IsFiniteSet(Counting(c)) /\ IsFiniteSet(Sharing(c)) /\ IsFiniteSet(Readers(c))
      /\ IsFiniteSet(Incoming(c))
  BY <1>1, <1>2, FS_Subset
<1> QED  BY <1>1, <1>2, <1>3, FS_Subset, FS_CardinalityType

\* A packet that is counted next has room in every counter it writes.
LEMMA CountsAdd ==
  ASSUME TypeOK, Counted, NEW c \in Clients, Has(c), NEW t \in Counting(c)
  PROVE  alloc[c].total + 1 \in 0..MaxPackets /\ alloc[c].win + 1 \in 0..MaxPackets
<1> DEFINE a == alloc[c]
<1>1. a.total \in Nat /\ a.win \in Nat /\ MaxPackets \in Nat
  BY DataPlaneAssumption DEF TypeOK, Has, Allocation
<1>2. Cardinality(Counting(c)) \in Nat /\ Cardinality(Counting(c)) # 0
  BY CountTypes, FS_EmptySet
<1>3. a.win <= a.total /\ a.total + Cardinality(Counting(c)) <= MaxPackets
  BY DEF Counted, CountedAt
<1> HIDE DEF a
<1>4. a.total + 1 \in 0..MaxPackets /\ a.win + 1 \in 0..MaxPackets
  BY <1>1, <1>2, <1>3
<1> QED  BY <1>4 DEF a

\* A packet from a peer that is in the total has room in the client's share.
LEMMA CountsShare ==
  ASSUME TypeOK, Counted, NEW c \in Clients, Has(c), NEW t \in Sharing(c)
  PROVE  alloc[c].share + 1 \in 0..MaxPackets
<1> DEFINE a == alloc[c]
<1>1. a.share \in Nat /\ a.passed.to \in 0..MaxPackets
  BY DataPlaneAssumption DEF TypeOK, Has, Allocation, Usage
<1>2. /\ Cardinality(Sharing(c)) \in Nat /\ Cardinality(Sharing(c)) # 0
      /\ Cardinality(Incoming(c)) \in Nat
  BY CountTypes, FS_EmptySet
<1>3. a.passed.to = a.share + Cardinality(Sharing(c)) + Cardinality(Incoming(c))
  BY DEF Counted, CountedAt
<1> HIDE DEF a
<1>4. a.share + 1 \in 0..MaxPackets
  BY <1>1, <1>2, <1>3, DataPlaneAssumption
<1> QED  BY <1>4 DEF a

\* A packet that passes its checks has room in the history of its direction.
LEMMA PassedShape ==
  ASSUME TypeOK, Counted, NEW c \in Clients, Has(c), Room(c), NEW d \in {"out", "in"}
  PROVE  LET a == Rolled(alloc[c])
             b == Passed(a, d) IN
         /\ a \in Allocation /\ b \in Allocation /\ SameMaps(b, alloc[c])
         /\ b.total = a.total /\ b.share = a.share /\ b.win = a.win
         /\ b.passed.from = IF d = "out" THEN a.passed.from + 1 ELSE a.passed.from
         /\ b.passed.to = IF d = "out" THEN a.passed.to ELSE a.passed.to + 1
<1> DEFINE a == Rolled(alloc[c])
<1>1. alloc[c] \in Allocation /\ a \in Allocation /\ SameMaps(a, alloc[c])
  BY HelpersShape, HelpersFrame DEF Has, TypeOK
<1>2. alloc[c].total = a.total /\ alloc[c].passed = a.passed
  BY <1>1 DEF Rolled, Allocation
<1>3. a.total \in Nat /\ a.passed.from \in 0..MaxPackets /\ a.passed.to \in 0..MaxPackets
  BY <1>1, DataPlaneAssumption DEF Allocation, Usage
<1>4. a.passed.from + a.passed.to = a.total + Cardinality(Counting(c))
  BY <1>2 DEF Counted, CountedAt
<1>5. a.total + Cardinality(Readers(c)) < MaxPackets
  BY <1>2 DEF Room
<1>6. /\ Cardinality(Counting(c)) \in Nat /\ Cardinality(Readers(c)) \in Nat
      /\ Cardinality(Counting(c)) <= Cardinality(Readers(c)) /\ MaxPackets \in Nat
  BY CountTypes, DataPlaneAssumption
<1> HIDE DEF a
<1>7. a.passed.from + 1 \in 0..MaxPackets /\ a.passed.to + 1 \in 0..MaxPackets
  BY <1>3, <1>4, <1>5, <1>6
<1>8. CASE d = "out"
  <2> DEFINE b == [a EXCEPT !.passed.from = a.passed.from + 1]
  <2>1. b \in Allocation
    BY <1>1, <1>7 DEF Allocation, Usage
  <2>2. /\ SameMaps(b, a) /\ b.total = a.total /\ b.share = a.share /\ b.win = a.win
        /\ b.passed.from = a.passed.from + 1 /\ b.passed.to = a.passed.to
    BY <1>1 DEF Allocation, Usage, SameMaps
  <2>3. Passed(a, d) = b
    BY <1>8 DEF Passed
  <2> HIDE DEF b
  <2> QED  BY <1>1, <1>8, <2>1, <2>2, <2>3 DEF a, SameMaps
<1>9. CASE d = "in"
  <2> DEFINE b == [a EXCEPT !.passed.to = a.passed.to + 1]
  <2>1. b \in Allocation
    BY <1>1, <1>7 DEF Allocation, Usage
  <2>2. /\ SameMaps(b, a) /\ b.total = a.total /\ b.share = a.share /\ b.win = a.win
        /\ b.passed.from = a.passed.from /\ b.passed.to = a.passed.to + 1
    BY <1>1 DEF Allocation, Usage, SameMaps
  <2>3. Passed(a, d) = b
    BY <1>9 DEF Passed
  <2> HIDE DEF b
  <2> QED  BY <1>1, <1>9, <2>1, <2>2, <2>3 DEF a, SameMaps
<1> QED  BY <1>8, <1>9

\* What AllocationStore::remove leaves: the usage record has its type because, once no
\* packet is on its way, the counters agree with what passed.
LEMMA RemovedShape ==
  ASSUME TypeOK, Counted, NEW c \in Clients, Has(c), Writable(c), Removed(c)
  PROVE  /\ alloc' \in [Clients -> Allocation \cup {None}]
         /\ row' \in [Relays -> Rows \cup {None}]
         /\ bill' \in [Clients -> [usage : Usage, passed : Usage] \cup {None}]
         /\ Reported(alloc[c]) = alloc[c].passed
<1> DEFINE a == alloc[c]
<1>1. a \in Allocation
  BY DEF TypeOK, Has
<1>2. a.share = a.passed.to /\ a.total - a.share = a.passed.from
  <2>1. Sharing(c) = {} /\ Incoming(c) = {} /\ Counting(c) = {}
    BY DEF Writable, Readers, Sharing, Incoming, Counting
  <2>2. /\ a.passed.from \in Int /\ a.passed.to \in Int
        /\ a.total \in Int /\ a.share \in Int
    BY <1>1, DataPlaneAssumption DEF Allocation, Usage
  <2>3. /\ a.passed.to = a.share + Cardinality(Sharing(c)) + Cardinality(Incoming(c))
        /\ a.passed.from + a.passed.to = a.total + Cardinality(Counting(c))
    BY DEF Counted, CountedAt
  <2>4. /\ Cardinality(Sharing(c)) = 0 /\ Cardinality(Incoming(c)) = 0
        /\ Cardinality(Counting(c)) = 0
    BY <2>1, FS_EmptySet
  <2> HIDE DEF a
  <2> QED  BY <2>2, <2>3, <2>4
<1>3. Reported(a) = a.passed /\ a.passed \in Usage
  BY <1>1, <1>2 DEF Reported, Allocation, Usage
<1>4. [usage |-> Reported(a), passed |-> a.passed] \in [usage : Usage, passed : Usage]
  BY <1>3
<1> QED  BY <1>3, <1>4 DEF Removed, TypeOK

\* What a thread may go on to do.
LEMMA JobShapes ==
  /\ Idle \in Jobs
  /\ \A c \in Clients, ips \in SUBSET Ips : [op |-> "perm", client |-> c, rest |-> ips] \in Jobs
  /\ \A c \in Clients, r \in Relays, p \in Peers :
       [op |-> "found", client |-> c, relay |-> r, peer |-> p] \in Jobs
  /\ \A c \in Clients, x \in {"out", "in", "share"} : [op |-> x, client |-> c] \in Jobs
  BY DEF Jobs

\* What the kind of a job says of its fields.
LEMMA JobFields ==
  ASSUME NEW j \in Jobs
  PROVE  /\ j.op \in {"idle", "perm", "found", "out", "in", "share"}
         /\ j.op = "idle" <=> j = Idle
         /\ j.op # "idle" => j.client \in Clients
         /\ j.op = "perm" => j \in [op : {"perm"}, client : Clients, rest : SUBSET Ips]
         /\ j.op \in {"out", "in", "share"} =>
              j \in [op : {"out", "in", "share"}, client : Clients]
  BY DEF Jobs, Idle

\* The counters after add_bytes.
LEMMA BytesAdded ==
  ASSUME TypeOK, Counted, RefsHeld, NEW t \in Threads, add_bytes(t)
  PROVE  LET c == job[t].client
             a == alloc[c]
             b == alloc'[c] IN
         /\ job[t] \in [op : {"out", "in", "share"}, client : Clients]
         /\ c \in Clients /\ Has(c) /\ a \in Allocation /\ b \in Allocation
         /\ alloc' = [alloc EXCEPT ![c] = b]
         /\ SameMaps(b, a)
         /\ b.total = a.total + 1 /\ b.win = a.win + 1 /\ b.share = a.share
         /\ b.passed = a.passed
<1> DEFINE c == job[t].client
           a == alloc[c]
           b == [a EXCEPT !.total = a.total + 1, !.win = a.win + 1]
<1>1. /\ job[t] \in [op : {"out", "in", "share"}, client : Clients]
      /\ Has(c) /\ a \in Allocation /\ c \in Clients
  BY JobFields DEF add_bytes, TypeOK, RefsHeld, Has
<1>2. a.total + 1 \in 0..MaxPackets /\ a.win + 1 \in 0..MaxPackets
  BY <1>1, CountsAdd DEF add_bytes, Counting
<1>3. b \in Allocation
  BY <1>1, <1>2 DEF Allocation, Usage
<1>4. alloc' = [alloc EXCEPT ![c] = b]
  BY <1>1 DEF add_bytes, TypeOK, Allocation
<1>5. /\ SameMaps(b, a)
      /\ b.total = a.total + 1 /\ b.win = a.win + 1 /\ b.share = a.share
      /\ b.passed = a.passed
  BY <1>1 DEF Allocation, Usage, SameMaps
<1> HIDE DEF b
<1>6. alloc'[c] = b
  BY <1>1, <1>4 DEF TypeOK
<1> QED  BY <1>1, <1>3, <1>4, <1>5, <1>6

\* The counters after add_bytes_to_client.
LEMMA ShareAdded ==
  ASSUME TypeOK, Counted, RefsHeld, NEW t \in Threads, add_bytes_to_client(t)
  PROVE  LET c == job[t].client
             a == alloc[c]
             b == alloc'[c] IN
         /\ c \in Clients /\ Has(c) /\ a \in Allocation /\ b \in Allocation
         /\ alloc' = [alloc EXCEPT ![c] = b]
         /\ SameMaps(b, a)
         /\ b.total = a.total /\ b.win = a.win /\ b.share = a.share + 1
         /\ b.passed = a.passed
<1> DEFINE c == job[t].client
           a == alloc[c]
           b == [a EXCEPT !.share = a.share + 1]
<1>1. Has(c) /\ a \in Allocation /\ c \in Clients
  BY JobFields DEF add_bytes_to_client, TypeOK, RefsHeld, Has
<1>2. a.share + 1 \in 0..MaxPackets
  BY <1>1, CountsShare DEF add_bytes_to_client, Sharing
<1>3. b \in Allocation
  BY <1>1, <1>2 DEF Allocation, Usage
<1>4. alloc' = [alloc EXCEPT ![c] = b]
  BY <1>1 DEF add_bytes_to_client, TypeOK, Allocation
<1>5. /\ SameMaps(b, a)
      /\ b.total = a.total /\ b.win = a.win /\ b.share = a.share + 1
      /\ b.passed = a.passed
  BY <1>1 DEF Allocation, Usage, SameMaps
<1> HIDE DEF b
<1>6. alloc'[c] = b
  BY <1>1, <1>4 DEF TypeOK
<1> QED  BY <1>1, <1>3, <1>4, <1>5, <1>6

\* A packet that is admitted or dropped leaves a typed state.
LEMMA AdmitShape ==
  ASSUME TypeOK, Counted, NEW t \in Threads, NEW c \in Clients, NEW d \in {"out", "in"},
         Admit(t, c, d)
  PROVE  TypeOK'
<1>1. /\ Rolled(alloc[c]) \in Allocation
      /\ Room(c) => Passed(Rolled(alloc[c]), d) \in Allocation
  BY HelpersShape, PassedShape DEF Admit, Has, TypeOK
<1>2. alloc' \in [Clients -> Allocation \cup {None}]
  BY <1>1 DEF Admit, TypeOK
<1>3. job' \in [Threads -> Jobs]
  <2>1. Idle \in Jobs /\ [op |-> d, client |-> c] \in Jobs
    BY JobShapes
  <2> QED  BY <2>1 DEF Admit, TypeOK
<1> QED  BY <1>2, <1>3 DEF Admit, TypeOK

\* Every step keeps the types: a packet finds room when it is admitted (Room), so the
\* counters stay within their bound.
LEMMA TypeStep == TypeOK /\ Counted /\ RefsHeld /\ RowOwned /\ Next => TypeOK'
<1> SUFFICES ASSUME TypeOK, Counted, RefsHeld, RowOwned, Next PROVE TypeOK'
  OBVIOUS
<1> DEFINE Allocs == [Clients -> Allocation \cup {None}]
           Table == [Relays -> Rows \cup {None}]
<1>a. ASSUME NEW c \in Clients, Has(c)
      PROVE  /\ alloc[c] \in Allocation /\ alloc[c].relay \in Relays
             /\ row[alloc[c].relay] \in Rows
  BY <1>a DEF Has, TypeOK, RowOwned, Allocation
<1>1. ASSUME NEW c \in Clients, NEW r \in Relays, Allocate(c, r) PROVE TypeOK'
  <2>1. alloc' \in Allocs
    <3>1. /\ [ip \in Ips |-> None] \in [Ips -> Times \cup {None}]
          /\ [ch \in Channels |-> None] \in [Channels -> Bindings \cup {None}]
          /\ [p \in Peers |-> None] \in [Peers -> Channels \cup {None}]
      OBVIOUS
    <3>2. alloc'[c] \in Allocation /\ alloc' = [alloc EXCEPT ![c] = alloc'[c]]
      BY <1>1, <3>1, FreshShape DEF Allocate, TypeOK
    <3> QED  BY <3>2 DEF TypeOK
  <2>2. row' \in Table
    <3>1. [client |-> c, time |-> "live", perms |-> {},
           chans |-> [ch \in Channels |-> None]] \in Rows
      BY DEF Rows, Times
    <3> QED  BY <1>1, <3>1 DEF Allocate, TypeOK
  <2>3. spent' \in [allocs : 0..MaxAllocs, crashes : 0..MaxCrashes]
    BY <1>1, DataPlaneAssumption DEF Allocate, TypeOK
  <2> QED  BY <1>1, <2>1, <2>2, <2>3 DEF Allocate, TypeOK
<1>2. ASSUME NEW c \in Clients, Refresh(c) PROVE TypeOK'
  <2>1. [alloc[c] EXCEPT !.time = "live"] \in Allocation
    BY <1>a, <1>2, AllocationUpdates DEF Refresh, Times
  <2>2. [row[alloc[c].relay] EXCEPT !.time = "live"] \in Rows
    BY <1>a, <1>2, RowUpdates DEF Refresh, Times
  <2>3. alloc' \in Allocs
    BY <1>2, <2>1 DEF Refresh, TypeOK
  <2>4. row' \in Table
    BY <1>2, <2>2 DEF Refresh, TypeOK
  <2> QED  BY <1>2, <2>3, <2>4 DEF Refresh, TypeOK
<1>3. ASSUME NEW c \in Clients, Release(c) PROVE TypeOK'
  BY <1>3, RemovedShape DEF Release, TypeOK
<1>4. ASSUME NEW c \in Clients, Sweep(c) PROVE TypeOK'
  <2>1. sweep' \in [stale : SUBSET Clients, expired : SUBSET Clients]
    BY <1>4 DEF Sweep, TypeOK
  <2>3. CASE Has(c) /\ alloc[c].time = "expired"
    BY <1>4, <2>1, <2>3, RemovedShape DEF Sweep, TypeOK
  <2>4. CASE ~(Has(c) /\ alloc[c].time = "expired")
    BY <1>4, <2>1, <2>4 DEF Sweep, TypeOK
  <2> QED  BY <2>3, <2>4
<1>5. ASSUME NEW t \in Workers, NEW c \in Clients, NEW ips \in SUBSET Ips,
             CreatePermission(t, c, ips)
      PROVE  TypeOK'
  BY <1>5, JobShapes DEF CreatePermission, TypeOK, Threads
<1>6. ASSUME NEW t \in Workers, NEW ip \in Ips, add_permission(t, ip) PROVE TypeOK'
  <2> DEFINE c == job[t].client
  <2>1. t \in Threads /\ c \in Clients
    BY <1>6, JobFields DEF add_permission, TypeOK, Threads
  <2>2. job' \in [Threads -> Jobs]
    <3>1. [job[t] EXCEPT !.rest = job[t].rest \ {ip}] \in Jobs
      BY <1>6, <2>1, JobFields DEF add_permission, TypeOK, Jobs
    <3>2. Idle \in Jobs
      BY JobShapes
    <3> HIDE DEF c
    <3> DEFINE rest == [job[t] EXCEPT !.rest = job[t].rest \ {ip}]
    <3>3. \/ job' = [job EXCEPT ![t] = Idle]
          \/ job' = [job EXCEPT ![t] = IF job[t].rest = {ip} THEN Idle ELSE rest]
      BY <1>6, <2>1 DEF add_permission
    <3> QED  BY <2>1, <3>1, <3>2, <3>3 DEF TypeOK
  <2>3. CASE Has(c) /\ PermRoom(alloc[c], ip)
    <3>1. Permitted(alloc[c], ip) \in Allocation
      BY <1>a, <2>1, <2>3, HelpersShape
    <3>2. [row[alloc[c].relay] EXCEPT !.perms = @ \cup {ip}] \in Rows
      BY <1>a, <2>1, <2>3 DEF Rows
    <3>3. alloc' \in Allocs
      BY <1>6, <2>3, <3>1 DEF add_permission, TypeOK
    <3>4. row' \in Table
      BY <1>6, <2>3, <3>2 DEF add_permission, TypeOK
    <3> QED  BY <1>6, <2>2, <3>3, <3>4 DEF add_permission, TypeOK
  <2>4. CASE ~(Has(c) /\ PermRoom(alloc[c], ip))
    BY <1>6, <2>2, <2>4 DEF add_permission, TypeOK
  <2> QED  BY <2>3, <2>4
<1>7. ASSUME NEW c \in Clients, NEW ch \in Channels, NEW p \in Peers, add_channel(c, ch, p)
      PROVE  TypeOK'
  <2>1. /\ alloc[c] \in Allocation /\ Has(c) /\ IpOf(p) \in Ips
        /\ alloc[c].relay \in Relays /\ row[alloc[c].relay] \in Rows
    BY <1>a, <1>7, DataPlaneAssumption DEF add_channel
  <2>3. [peer |-> p, time |-> "live"] \in Bindings
    BY DEF Bindings, Times
  <2>4. alloc' \in Allocs
    <3>1. WithChannel(alloc[c], ch, p) \in Allocation
      BY <1>7, <2>1, ChannelAdded DEF add_channel
    <3>2. alloc' = [alloc EXCEPT ![c] = WithChannel(alloc[c], ch, p)]
      BY <1>7 DEF add_channel, WithChannel
    <3> QED  BY <3>1, <3>2 DEF TypeOK
  <2>5. row' \in Table
    <3> DEFINE w == row[alloc[c].relay]
               v == [w EXCEPT !.perms = @ \cup {IpOf(p)}, !.chans = StoredChans(@, ch, p)]
    <3>1. w.chans \in [Channels -> Bindings \cup {None}] /\ w.perms \in SUBSET Ips
      BY <2>1 DEF Rows
    <3>2. StoredChans(w.chans, ch, p) \in [Channels -> Bindings \cup {None}]
      BY <2>3, <3>1 DEF StoredChans
    <3>3. v \in Rows
      BY <2>1, <3>1, <3>2 DEF Rows
    <3>4. row' = [row EXCEPT ![alloc[c].relay] = v]
      BY <1>7, <2>1 DEF add_channel, TypeOK
    <3> QED  BY <2>1, <3>3, <3>4 DEF TypeOK
  <2> QED  BY <1>7, <2>4, <2>5 DEF add_channel, TypeOK
<1>8. ASSUME NEW t \in Workers, NEW c \in Clients, NEW ch \in Channels,
             channel_data_decision(t, c, ch)
      PROVE  TypeOK'
  BY <1>8, AdmitShape DEF channel_data_decision, Threads
<1>9. ASSUME NEW t \in Workers, NEW c \in Clients, NEW p \in Peers,
             handle_send_indication(t, c, p)
      PROVE  TypeOK'
  BY <1>9, AdmitShape DEF handle_send_indication, Threads
<1>10. ASSUME NEW t \in Pumps, NEW r \in Relays, NEW p \in Peers, get_by_relay(t, r, p)
       PROVE  TypeOK'
  <2>1. \A c \in Clients : [op |-> "found", client |-> c, relay |-> r, peer |-> p] \in Jobs
    BY JobShapes
  <2> QED  BY <1>10, <2>1 DEF get_by_relay, TypeOK, Threads
<1>11. ASSUME NEW t \in Pumps, process_relay_recv(t) PROVE TypeOK'
  <2>1. t \in Threads /\ job[t].client \in Clients
    BY <1>11, JobFields DEF process_relay_recv, TypeOK, Threads
  <2>2. CASE Admit(t, job[t].client, "in")
    BY <2>1, <2>2, AdmitShape
  <2>3. CASE /\ job' = [job EXCEPT ![t] = Idle]
             /\ UNCHANGED <<alloc, row, sweep, bill, up, spent>>
    BY <2>3, JobShapes DEF TypeOK
  <2> QED  BY <1>11, <2>2, <2>3 DEF process_relay_recv
<1>12. ASSUME NEW t \in Threads, add_bytes(t) PROVE TypeOK'
  <2>1. /\ job[t] \in [op : {"out", "in", "share"}, client : Clients]
        /\ alloc' \in Allocs
    BY <1>12, BytesAdded DEF TypeOK
  <2>2. Idle \in Jobs /\ [job[t] EXCEPT !.op = "share"] \in Jobs
    BY <2>1, JobShapes DEF Jobs
  <2>3. job' \in {[job EXCEPT ![t] = Idle],
                 [job EXCEPT ![t] = [job[t] EXCEPT !.op = "share"]]}
    BY <1>12 DEF add_bytes, TypeOK
  <2>4. job' \in [Threads -> Jobs]
    BY <2>2, <2>3 DEF TypeOK
  <2> QED  BY <1>12, <2>1, <2>4 DEF add_bytes, TypeOK
<1>13. ASSUME NEW t \in Pumps, add_bytes_to_client(t) PROVE TypeOK'
  <2>1. alloc' \in Allocs
    BY <1>13, ShareAdded DEF TypeOK, Threads
  <2>2. job' \in [Threads -> Jobs]
    BY <1>13, JobShapes DEF add_bytes_to_client, TypeOK
  <2> QED  BY <1>13, <2>1, <2>2 DEF add_bytes_to_client, TypeOK
<1>14. ASSUME NEW c \in Clients, Second(c) PROVE TypeOK'
  <2>1. [alloc[c] EXCEPT !.age = @ + 1] \in Allocation
    <3>1. alloc[c] \in Allocation /\ alloc[c].age + 1 \in 0..MaxAge
      BY <1>a, <1>14, DataPlaneAssumption DEF Second, Allocation
    <3> QED  BY <3>1, AllocationUpdates
  <2> QED  BY <1>14, <2>1 DEF Second, TypeOK
<1>15. ASSUME NEW c \in Clients, NEW ip \in Ips, PermissionEnds(c, ip) PROVE TypeOK'
  <2>1. [alloc[c] EXCEPT !.perms[ip] = "expired"] \in Allocation
    BY <1>a, <1>15, AllocationUpdates DEF PermissionEnds, Times
  <2> QED  BY <1>15, <2>1 DEF PermissionEnds, TypeOK
<1>16. ASSUME NEW r \in Relays, AllocationEnds(r) PROVE TypeOK'
  <2>1. \A c \in Clients : Has(c) => [alloc[c] EXCEPT !.time = "expired"] \in Allocation
    BY <1>a, AllocationUpdates DEF Times
  <2>2. [row[r] EXCEPT !.time = "expired"] \in Rows
    BY <1>16, RowUpdates DEF AllocationEnds, TypeOK, Times
  <2>3. alloc' \in Allocs
    BY <1>16, <2>1 DEF AllocationEnds, TypeOK
  <2>4. row' \in Table
    BY <1>16, <2>2 DEF AllocationEnds, TypeOK
  <2> QED  BY <1>16, <2>3, <2>4 DEF AllocationEnds, TypeOK
<1>17. ASSUME NEW r \in Relays, NEW ch \in Channels, ChannelEnds(r, ch) PROVE TypeOK'
  <2>1. \A c \in Clients : Has(c) /\ ch \in Known(alloc[c].chans) =>
          Expired(alloc[c], ch) \in Allocation
    <3> SUFFICES ASSUME NEW c \in Clients, Has(c), ch \in Known(alloc[c].chans)
                 PROVE  Expired(alloc[c], ch) \in Allocation
      OBVIOUS
    <3> QED  BY <1>a, ChannelExpired
  <2>2. [row[r] EXCEPT !.chans[ch].time = "expired"] \in Rows
    <3>1. row[r] \in Rows /\ row[r].chans[ch] \in Bindings
      BY <1>17 DEF ChannelEnds, Known, TypeOK, Rows
    <3>2. [row[r].chans[ch] EXCEPT !.time = "expired"] \in Bindings
      BY <3>1, BindingEnds
    <3>3. [row[r].chans EXCEPT ![ch].time = "expired"] \in [Channels -> Bindings \cup {None}]
      BY <3>1, <3>2 DEF Rows
    <3> QED  BY <3>1, <3>3, RowUpdates
  <2>3. alloc' \in Allocs
    BY <1>17, <2>1 DEF ChannelEnds, TypeOK, Expired
  <2>4. row' \in Table
    BY <1>17, <2>2 DEF ChannelEnds, TypeOK
  <2> QED  BY <1>17, <2>3, <2>4 DEF ChannelEnds, TypeOK
<1>18. ASSUME Classify PROVE TypeOK'
  BY <1>18 DEF Classify, TypeOK
<1>19. ASSUME NEW c \in Clients, Prune(c) PROVE TypeOK'
  <2>1. Has(c) => cleanup_expired_entries(alloc[c]) \in Allocation
    BY <1>a, HelpersShape
  <2>2. alloc' \in Allocs
    BY <1>19, <2>1 DEF Prune, TypeOK
  <2>3. sweep' \in [stale : SUBSET Clients, expired : SUBSET Clients]
    BY <1>19 DEF Prune, TypeOK
  <2> QED  BY <1>19, <2>2, <2>3 DEF Prune, TypeOK
<1>20. ASSUME Crash PROVE TypeOK'
  <2>1. spent' \in [allocs : 0..MaxAllocs, crashes : 0..MaxCrashes]
    BY <1>20, DataPlaneAssumption DEF Crash, TypeOK
  <2> QED  BY <1>20, <2>1, JobShapes DEF Crash, TypeOK, NoSweep
<1>21. ASSUME Restart PROVE TypeOK'
  <2>1. \A r \in Relays : row[r] # None => Rehydrated(r) \in Allocation
    BY RehydratedShape DEF TypeOK
  <2>2. alloc' \in Allocs
    <3>1. ASSUME NEW c \in Clients PROVE alloc'[c] \in Allocation \cup {None}
      <4> DEFINE of == {r \in Relays : row[r] # None /\ row[r].client = c /\ row[r].time = "live"}
      <4>1. alloc'[c] = IF of = {} THEN None ELSE Rehydrated(CHOOSE r \in of : TRUE)
        BY <1>21 DEF Restart
      <4>2. of # {} => (CHOOSE r \in of : TRUE) \in of
        OBVIOUS
      <4> QED  BY <2>1, <4>1, <4>2
    <3> QED  BY <1>21, <3>1 DEF Restart
  <2> QED  BY <1>21, <2>2 DEF Restart, TypeOK
<1> QED
  BY <1>1, <1>2, <1>3, <1>4, <1>5, <1>6, <1>7, <1>8, <1>9, <1>10, <1>11, <1>12, <1>13,
     <1>14, <1>15, <1>16, <1>17, <1>18, <1>19, <1>20, <1>21
  DEF Next, WorkerNext, PumpNext, ClientNext, TimeNext

----------------------------------------------------------------------------
(* Counters *)

\* A step that changes no packet's job.
PacketsKept ==
  \A t \in Threads : \/ job'[t] = job[t]
                     \/ /\ job[t].op \notin {"out", "in", "share"}
                        /\ job'[t].op \notin {"out", "in", "share"}

\* The packets of a client on their way are the same.
SamePackets(c) ==
  Counting(c)' = Counting(c) /\ Sharing(c)' = Sharing(c) /\ Incoming(c)' = Incoming(c)

\* Then the packets on their way are the same.
LEMMA PacketsFrame ==
  ASSUME PacketsKept, NEW c
  PROVE  SamePackets(c)
  BY DEF PacketsKept, Counting, Sharing, Incoming, SamePackets

\* An allocation whose counters and packets are left alone stays counted.
LEMMA CountsKept ==
  ASSUME NEW c, SameCounts(alloc'[c], alloc[c]), SamePackets(c)
  PROVE  (CountedAt(c) => CountedAt(c)') /\ (WindowAt(c) => WindowAt(c)')
  BY DEF SameCounts, CountedAt, WindowAt, SamePackets

\* A step that touches neither a packet nor a counter keeps the account.
LEMMA CountersFrame ==
  ASSUME Counters, PacketsKept, bill' = bill, up' = up,
         \A c \in Clients : \/ alloc'[c] = alloc[c]
                            \/ Has(c) /\ Has(c)' /\ SameCounts(alloc'[c], alloc[c]),
         TypeOK
  PROVE  Counters'
<1>1. \A c \in Clients : Has(c)' <=> Has(c)
  BY DEF Has
<1>2. \A c \in Clients : SameCounts(alloc'[c], alloc[c])
  BY DEF SameCounts
<1>3. RefsHeld'
  BY <1>1, JobFields DEF Counters, RefsHeld, PacketsKept, TypeOK
<1>4. Counted' /\ WindowBounded'
  BY <1>1, <1>2, PacketsFrame, CountsKept DEF Counters, Counted, WindowBounded
<1>5. UsageExact'
  BY DEF Counters, UsageExact
<1> QED  BY <1>3, <1>4, <1>5 DEF Counters

\* A client without an allocation has no packets on their way.
LEMMA NoPackets ==
  ASSUME RefsHeld, NEW c, ~Has(c)
  PROVE  /\ Cardinality(Counting(c)) = 0 /\ Cardinality(Sharing(c)) = 0
         /\ Cardinality(Incoming(c)) = 0
<1>1. Counting(c) = {} /\ Sharing(c) = {} /\ Incoming(c) = {}
  BY DEF RefsHeld, Counting, Sharing, Incoming
<1> QED  BY <1>1, FS_EmptySet

\* A new allocation starts at zero (AllocationStore::create).
LEMMA FreshCounted ==
  ASSUME NEW c, alloc'[c].total = 0, alloc'[c].share = 0, alloc'[c].win = 0,
         alloc'[c].passed.from = 0, alloc'[c].passed.to = 0, job' = job, ~Has(c), RefsHeld
  PROVE  CountedAt(c)' /\ WindowAt(c)'
<1>1. /\ Cardinality(Counting(c)') = 0 /\ Cardinality(Sharing(c)') = 0
      /\ Cardinality(Incoming(c)') = 0
  <2>1. SamePackets(c)
    BY DEF Counting, Sharing, Incoming, SamePackets
  <2> QED  BY <2>1, NoPackets DEF SamePackets
<1> QED  BY <1>1, CountTypes, DataPlaneAssumption DEF CountedAt, WindowAt

\* The removal waits for the Refs, so its usage record misses no packet.
LEMMA RemovedCounters ==
  ASSUME TypeOK, Counters, NEW c \in Clients, Has(c), Writable(c), Removed(c),
         job' = job, up' = up
  PROVE  Counters'
<1>2. UsageExact'
  BY RemovedShape DEF Counters, Removed, UsageExact, TypeOK
<1>3. \A d \in Clients : IF d = c THEN ~Has(d)' ELSE alloc'[d] = alloc[d]
  BY DEF Removed, TypeOK, Has
<1>4. RefsHeld'
  BY <1>3, JobFields DEF Counters, RefsHeld, Writable, Readers, Has, TypeOK
<1>5. PacketsKept
  BY DEF PacketsKept
<1>6. Counted' /\ WindowBounded'
  <2> SUFFICES ASSUME NEW d \in Clients, Has(d)' PROVE CountedAt(d)' /\ WindowAt(d)'
    BY DEF Counted, WindowBounded
  <2>1. Has(d) /\ SameCounts(alloc'[d], alloc[d])
    BY <1>3 DEF Has, SameCounts
  <2> QED  BY <1>5, <2>1, PacketsFrame, CountsKept DEF Counters, Counted, WindowBounded
<1> QED  BY <1>2, <1>4, <1>6 DEF Counters

\* The packet of an idle thread that is admitted is one more on its way, and it was
\* within the quota when it was.
LEMMA AdmitCounters ==
  ASSUME TypeOK, Counters, NEW t \in Threads, NEW c \in Clients, NEW d \in {"out", "in"},
         job[t].op \notin {"out", "in", "share"}, Admit(t, c, d)
  PROVE  Counters'
<1> DEFINE a == alloc[c]
           b == Rolled(a)
           p == Passed(b, d)
<1>1. a \in Allocation /\ b \in Allocation /\ Has(c)
  BY HelpersShape DEF Admit, Has, TypeOK
<1>2. \/ /\ ~Exceeded(a) /\ Room(c) /\ alloc' = [alloc EXCEPT ![c] = p]
         /\ job' = [job EXCEPT ![t] = [op |-> d, client |-> c]]
      \/ alloc' = [alloc EXCEPT ![c] = b] /\ job' = [job EXCEPT ![t] = Idle]
  BY DEF Admit
<1>3. /\ a.total \in Nat /\ a.win \in Nat /\ a.age \in Nat /\ a.share \in Nat
      /\ a.passed.from \in Nat /\ a.passed.to \in Nat
      /\ b.total = a.total /\ b.share = a.share /\ b.passed = a.passed
      /\ b.win = IF a.age = 0 THEN a.win ELSE 0
  BY <1>1, DataPlaneAssumption DEF Rolled, Allocation, Usage
<1>4. /\ \A e \in Clients : Has(e)' <=> Has(e)
      /\ \A e \in Clients : e # c => SameCounts(alloc'[e], alloc[e])
  <2>1. Room(c) => p \in Allocation
    BY <1>1, PassedShape DEF Counters
  <2>2. PICK q \in Allocation : alloc' = [alloc EXCEPT ![c] = q]
    BY <1>1, <1>2, <2>1
  <2> QED  BY <1>1, <2>2, DataPlaneAssumption DEF Has, TypeOK, SameCounts
<1>5. UsageExact'
  BY DEF Counters, UsageExact, Admit
<1>6. /\ Cardinality(Counting(c)) \in Nat /\ Cardinality(Readers(c)) \in Nat
      /\ Cardinality(Sharing(c)) \in Nat /\ Cardinality(Incoming(c)) \in Nat
      /\ Cardinality(Threads) \in Nat
      /\ Cardinality(Counting(c)) <= Cardinality(Readers(c))
      /\ Quota \in Nat /\ MaxPackets \in Nat
  BY CountTypes, DataPlaneAssumption
<1>7. CountedAt(c) /\ WindowAt(c)
  BY <1>1 DEF Counters, Counted, WindowBounded
<1>8. CASE alloc' = [alloc EXCEPT ![c] = b] /\ job' = [job EXCEPT ![t] = Idle]
  <2>1. PacketsKept
    BY <1>8 DEF PacketsKept, TypeOK, Idle
  <2>2. RefsHeld'
    BY <1>4, <1>8, JobFields DEF Counters, RefsHeld, TypeOK, Idle, Admit
  <2>3. \A e : SamePackets(e)
    BY <2>1, PacketsFrame
  <2>4. CountedAt(c)' /\ WindowAt(c)'
    <3>1. alloc'[c] = b /\ SamePackets(c)
      BY <1>8, <2>3 DEF TypeOK
    <3> HIDE DEF a, b
    <3>2. CountedAt(c)'
      BY <1>3, <1>6, <1>7, <3>1 DEF CountedAt, SamePackets, a
    <3>3. WindowAt(c)'
      BY <1>3, <1>6, <1>7, <3>1 DEF WindowAt, SamePackets, a
    <3> QED  BY <3>2, <3>3
  <2>5. Counted' /\ WindowBounded'
    BY <1>4, <2>3, <2>4, CountsKept DEF Counters, Counted, WindowBounded
  <2> QED  BY <1>5, <2>2, <2>5 DEF Counters
<1>9. CASE /\ ~Exceeded(a) /\ Room(c) /\ alloc' = [alloc EXCEPT ![c] = p]
           /\ job' = [job EXCEPT ![t] = [op |-> d, client |-> c]]
  <2>1. RefsHeld'
    BY <1>4, <1>1, <1>9, JobFields DEF Counters, RefsHeld, TypeOK, Admit
  <2>2. /\ Counting(c)' = Counting(c) \cup {t} /\ t \notin Counting(c)
        /\ Incoming(c)' = IF d = "in" THEN Incoming(c) \cup {t} ELSE Incoming(c)
        /\ t \notin Incoming(c) /\ Sharing(c)' = Sharing(c)
        /\ \A e : e # c => SamePackets(e)
    BY <1>9 DEF Counting, Sharing, Incoming, SamePackets, TypeOK
  <2>3. /\ Cardinality(Counting(c)') = Cardinality(Counting(c)) + 1
        /\ Cardinality(Incoming(c)')
             = IF d = "in" THEN Cardinality(Incoming(c)) + 1 ELSE Cardinality(Incoming(c))
    BY <2>2, CountTypes, FS_AddElement
  <2>4. Cardinality(Counting(c)') <= Cardinality(Threads)
    <3>1. Counting(c)' \subseteq Threads
      BY DEF Counting
    <3> QED  BY <3>1, CountTypes, FS_Subset
  <2>5. a.age = 0 => a.win <= Quota
    BY <1>3, <1>6, <1>9 DEF Exceeded, Rate
  <2>6. a.total + Cardinality(Readers(c)) < MaxPackets
    BY <1>9 DEF Room
  <2>7. alloc'[c] = p
    BY <1>9 DEF TypeOK
  <2>8. /\ p.total = b.total /\ p.share = b.share /\ p.win = b.win
        /\ p.passed.from = IF d = "out" THEN b.passed.from + 1 ELSE b.passed.from
        /\ p.passed.to = IF d = "out" THEN b.passed.to ELSE b.passed.to + 1
    BY <1>1, <1>9, PassedShape DEF Counters
  <2>9. CountedAt(c)' /\ WindowAt(c)'
    <3> HIDE DEF a, b, p
    <3>1. CountedAt(c)'
      <4>1. CASE d = "out"
        BY <1>3, <1>6, <1>7, <2>2, <2>3, <2>6, <2>7, <2>8, <4>1 DEF CountedAt, a
      <4>2. CASE d = "in"
        BY <1>3, <1>6, <1>7, <2>2, <2>3, <2>6, <2>7, <2>8, <4>2 DEF CountedAt, a
      <4> QED  BY <4>1, <4>2
    <3>2. WindowAt(c)'
      BY <1>3, <1>6, <2>3, <2>4, <2>5, <2>7, <2>8 DEF WindowAt
    <3> QED  BY <3>1, <3>2
  <2>10. Counted' /\ WindowBounded'
    BY <1>4, <2>2, <2>9, CountsKept DEF Counters, Counted, WindowBounded
  <2> QED  BY <1>5, <2>1, <2>10 DEF Counters
<1> QED  BY <1>2, <1>8, <1>9

\* A packet moves from those on their way into the totals and the window; one from a
\* peer is then missing from the client's share (add_bytes).
LEMMA AddBytesCounters ==
  ASSUME TypeOK, Counters, NEW t \in Threads, add_bytes(t), NEW c, c = job[t].client
  PROVE  Counters'
<1> DEFINE a == alloc[c]
           b == alloc'[c]
           n == Cardinality(Counting(c))
           m == Cardinality(Sharing(c))
           k == Cardinality(Incoming(c))
<1>1. /\ job[t] \in [op : {"out", "in", "share"}, client : Clients]
      /\ c \in Clients /\ Has(c) /\ a \in Allocation /\ b \in Allocation
      /\ alloc' = [alloc EXCEPT ![c] = b]
      /\ b.total = a.total + 1 /\ b.win = a.win + 1 /\ b.share = a.share
      /\ b.passed = a.passed
  BY BytesAdded DEF Counters
<1>2. /\ t \in Counting(c) /\ t \notin Sharing(c) /\ job[t].op \in {"out", "in"}
  BY <1>1 DEF Counting, Sharing, add_bytes
<1>2a. t \in Incoming(c) <=> job[t].op # "out"
  BY <1>2 DEF Incoming, Counting
<1>3. /\ \A e \in Clients : Has(e)' <=> Has(e)
      /\ \A e \in Clients : e # c => SameCounts(alloc'[e], alloc[e])
  BY <1>1, DataPlaneAssumption DEF Has, TypeOK, SameCounts
<1>4. /\ job[t].op = "out" => job' = [job EXCEPT ![t] = Idle]
      /\ job[t].op # "out" => job' = [job EXCEPT ![t] = [job[t] EXCEPT !.op = "share"]]
  BY DEF add_bytes
<1>5. /\ Counting(c)' = Counting(c) \ {t}
      /\ Sharing(c)' = IF job[t].op = "out" THEN Sharing(c) ELSE Sharing(c) \cup {t}
      /\ Incoming(c)' = IF job[t].op = "out" THEN Incoming(c) ELSE Incoming(c) \ {t}
      /\ \A e : e # c => SamePackets(e)
  BY <1>1, <1>2, <1>4 DEF Counting, Sharing, Incoming, SamePackets, TypeOK, Idle
<1>6. /\ Cardinality(Counting(c)') = n - 1
      /\ Cardinality(Sharing(c)') = IF job[t].op = "out" THEN m ELSE m + 1
      /\ Cardinality(Incoming(c)') = IF job[t].op = "out" THEN k ELSE k - 1
      /\ n \in Nat /\ m \in Nat /\ k \in Nat /\ MaxPackets \in Nat
  <2>1. n \in Nat /\ m \in Nat /\ k \in Nat /\ MaxPackets \in Nat
    BY CountTypes, DataPlaneAssumption
  <2>2. Cardinality(Counting(c)') = n - 1
    BY <1>2, <1>5, CountTypes, FS_RemoveElement
  <2>3. Cardinality(Sharing(c)') = IF job[t].op = "out" THEN m ELSE m + 1
    <3>1. job[t].op = "out" => Sharing(c)' = Sharing(c)
      BY <1>5
    <3>2. job[t].op # "out" => Sharing(c)' = Sharing(c) \cup {t}
      BY <1>5
    <3> QED  BY <1>2, <3>1, <3>2, CountTypes, FS_AddElement
  <2>4. Cardinality(Incoming(c)') = IF job[t].op = "out" THEN k ELSE k - 1
    <3>1. job[t].op = "out" => Incoming(c)' = Incoming(c)
      BY <1>5
    <3>2. job[t].op # "out" => Incoming(c)' = Incoming(c) \ {t} /\ t \in Incoming(c)
      BY <1>2a, <1>5
    <3> QED  BY <3>1, <3>2, CountTypes, FS_RemoveElement
  <2> QED  BY <2>1, <2>2, <2>3, <2>4
<1>7. /\ a.total \in Nat /\ a.win \in Nat /\ a.share \in Nat
      /\ a.passed.from \in Nat /\ a.passed.to \in Nat
  BY <1>1, DataPlaneAssumption DEF Allocation, Usage
<1>8. CountedAt(c) /\ WindowAt(c)
  BY <1>1 DEF Counters, Counted, WindowBounded
<1>9. /\ a.passed.to = a.share + m + k /\ a.passed.from + a.passed.to = a.total + n
      /\ a.win <= a.total /\ a.total + n <= MaxPackets
      /\ a.win + n <= Quota + Cardinality(Threads)
  BY <1>8 DEF CountedAt, WindowAt
<1>10. CountedAt(c)' /\ WindowAt(c)'
  <2> SUFFICES /\ b.passed.to
                    = b.share + Cardinality(Sharing(c)') + Cardinality(Incoming(c)')
               /\ b.passed.from + b.passed.to = b.total + Cardinality(Counting(c)')
               /\ b.win <= b.total /\ b.total + Cardinality(Counting(c)') <= MaxPackets
               /\ b.win + Cardinality(Counting(c)') <= Quota + Cardinality(Threads)
    BY DEF CountedAt, WindowAt
  <2>1. Quota \in Nat /\ Cardinality(Threads) \in Nat
    BY CountTypes, DataPlaneAssumption
  <2> HIDE DEF a, b, n, m, k
  <2> QED  BY <1>1, <1>6, <1>7, <1>9, <2>1
<1>11. Counted' /\ WindowBounded'
  BY <1>3, <1>5, <1>10, CountsKept DEF Counters, Counted, WindowBounded
<1>12. RefsHeld'
  <2>1. \A u \in Threads : job'[u].op \in {"out", "in", "share"} =>
          job[u].op \in {"out", "in", "share"} /\ job'[u].client = job[u].client
    BY <1>1, <1>2, <1>4 DEF TypeOK, Idle
  <2> QED  BY <1>3, <2>1, JobFields DEF Counters, RefsHeld, TypeOK, add_bytes
<1> QED  BY <1>11, <1>12 DEF Counters, UsageExact, add_bytes

\* The packet of a peer moves into the client's share (add_bytes_to_client).
LEMMA AddShareCounters ==
  ASSUME TypeOK, Counters, NEW t \in Threads, add_bytes_to_client(t), NEW c, c = job[t].client
  PROVE  Counters'
<1> DEFINE a == alloc[c]
           b == alloc'[c]
           n == Cardinality(Counting(c))
           m == Cardinality(Sharing(c))
           k == Cardinality(Incoming(c))
<1>1. /\ c \in Clients /\ Has(c) /\ a \in Allocation /\ b \in Allocation
      /\ alloc' = [alloc EXCEPT ![c] = b]
      /\ b.total = a.total /\ b.win = a.win /\ b.share = a.share + 1
      /\ b.passed = a.passed
  BY ShareAdded DEF Counters
<1>2. t \notin Counting(c) /\ t \in Sharing(c)
  BY DEF Counting, Sharing, add_bytes_to_client
<1>3. /\ \A e \in Clients : Has(e)' <=> Has(e)
      /\ \A e \in Clients : e # c => SameCounts(alloc'[e], alloc[e])
  BY <1>1, DataPlaneAssumption DEF Has, TypeOK, SameCounts
<1>4. job' = [job EXCEPT ![t] = Idle]
  BY DEF add_bytes_to_client
<1>5. /\ Counting(c)' = Counting(c) /\ Sharing(c)' = Sharing(c) \ {t}
      /\ Incoming(c)' = Incoming(c)
      /\ \A e : e # c => SamePackets(e)
  BY <1>2, <1>4 DEF Counting, Sharing, Incoming, SamePackets, TypeOK, Idle,
                    add_bytes_to_client
<1>6. /\ Cardinality(Counting(c)') = n /\ Cardinality(Sharing(c)') = m - 1
      /\ Cardinality(Incoming(c)') = k /\ n \in Nat /\ m \in Nat /\ k \in Nat
  BY <1>2, <1>5, CountTypes, FS_RemoveElement
<1>7. /\ a.total \in Nat /\ a.share \in Nat
      /\ a.passed.from \in Nat /\ a.passed.to \in Nat
  BY <1>1, DataPlaneAssumption DEF Allocation, Usage
<1>8. CountedAt(c) /\ WindowAt(c)
  BY <1>1 DEF Counters, Counted, WindowBounded
<1>9. /\ a.passed.to = a.share + m + k /\ a.passed.from + a.passed.to = a.total + n
      /\ a.win <= a.total /\ a.total + n <= MaxPackets
      /\ a.win + n <= Quota + Cardinality(Threads)
  BY <1>8 DEF CountedAt, WindowAt
<1>10. CountedAt(c)' /\ WindowAt(c)'
  <2> SUFFICES /\ b.passed.to
                    = b.share + Cardinality(Sharing(c)') + Cardinality(Incoming(c)')
               /\ b.passed.from + b.passed.to = b.total + Cardinality(Counting(c)')
               /\ b.win <= b.total /\ b.total + Cardinality(Counting(c)') <= MaxPackets
               /\ b.win + Cardinality(Counting(c)') <= Quota + Cardinality(Threads)
    BY DEF CountedAt, WindowAt
  <2> HIDE DEF a, b, n, m, k
  <2> QED  BY <1>1, <1>6, <1>7, <1>9
<1>11. Counted' /\ WindowBounded'
  BY <1>3, <1>5, <1>10, CountsKept DEF Counters, Counted, WindowBounded
<1>12. RefsHeld'
  BY <1>3, <1>4, JobFields DEF Counters, RefsHeld, TypeOK, Idle, add_bytes_to_client
<1> QED  BY <1>11, <1>12 DEF Counters, UsageExact, add_bytes_to_client

\* Every step keeps the account.
LEMMA CountersStep == TypeOK /\ Counters /\ TypeOK' /\ Next => Counters'
<1> SUFFICES ASSUME TypeOK, Counters, TypeOK', Next PROVE Counters'
  OBVIOUS
<1>a. ASSUME NEW c \in Clients, Has(c) PROVE alloc[c] \in Allocation
  BY <1>a DEF Has, TypeOK
<1>b. ASSUME NEW c \in Clients, alloc'[c] \in Allocation PROVE Has(c)'
  BY <1>b, DataPlaneAssumption DEF Has
<1>c. job' = job => PacketsKept
  BY DEF PacketsKept
<1>d. ASSUME NEW c \in Clients, NEW a \in Allocation, Has(c), SameCounts(a, alloc[c]),
             alloc' = [alloc EXCEPT ![c] = a], PacketsKept, bill' = bill, up' = up
      PROVE  Counters'
  <2>1. \A e \in Clients : \/ alloc'[e] = alloc[e]
                           \/ Has(e) /\ Has(e)' /\ SameCounts(alloc'[e], alloc[e])
    BY <1>b, <1>d DEF TypeOK
  <2> QED  BY <1>d, <2>1, CountersFrame
<1>1. ASSUME NEW c \in Clients, NEW r \in Relays, Allocate(c, r) PROVE Counters'
  <2>1. job' = job /\ bill' = bill /\ up /\ up' = up /\ ~Has(c)
    BY <1>1 DEF Allocate
  <2>2. /\ \A e \in Clients : e # c => alloc'[e] = alloc[e]
        /\ alloc'[c].total = 0 /\ alloc'[c].share = 0 /\ alloc'[c].win = 0
        /\ alloc'[c].passed.from = 0 /\ alloc'[c].passed.to = 0
    BY <1>1 DEF Allocate, TypeOK
  <2>3. CountedAt(c)' /\ WindowAt(c)'
    BY <2>1, <2>2, FreshCounted DEF Counters
  <2>4. \A e \in Clients : e # c => SameCounts(alloc'[e], alloc[e]) /\ (Has(e)' <=> Has(e))
    BY <2>2 DEF SameCounts, Has
  <2>5. Counted' /\ WindowBounded'
    BY <1>c, <2>1, <2>3, <2>4, PacketsFrame, CountsKept DEF Counters, Counted, WindowBounded
  <2>6. RefsHeld'
    BY <2>1, <2>4, JobFields DEF Counters, RefsHeld, TypeOK
  <2> QED  BY <2>1, <2>5, <2>6 DEF Counters, UsageExact
<1>2. ASSUME NEW c \in Clients, Refresh(c) PROVE Counters'
  <2>1. alloc[c] \in Allocation /\ Has(c)
    BY <1>2, <1>a DEF Refresh
  <2>2. LET a == [alloc[c] EXCEPT !.time = "live"]
        IN  a \in Allocation /\ SameCounts(a, alloc[c])
    BY <2>1, AllocationUpdates, HelpersFrame DEF Times
  <2> QED  BY <1>2, <1>c, <1>d, <2>1, <2>2 DEF Refresh
<1>3. ASSUME NEW c \in Clients, Release(c) PROVE Counters'
  BY <1>3, RemovedCounters DEF Release
<1>4. ASSUME NEW c \in Clients, Sweep(c) PROVE Counters'
  <2>1. CASE Has(c) /\ alloc[c].time = "expired"
    BY <1>4, <2>1, RemovedCounters DEF Sweep
  <2>2. CASE ~(Has(c) /\ alloc[c].time = "expired")
    BY <1>4, <1>c, <2>2, CountersFrame DEF Sweep
  <2> QED  BY <2>1, <2>2
<1>5. ASSUME NEW t \in Workers, NEW c \in Clients, NEW ips \in SUBSET Ips,
             CreatePermission(t, c, ips)
      PROVE  Counters'
  <2>1. PacketsKept
    BY <1>5 DEF CreatePermission, PacketsKept, TypeOK, Idle, Threads
  <2> QED  BY <1>5, <2>1, CountersFrame DEF CreatePermission
<1>6. ASSUME NEW t \in Workers, NEW ip \in Ips, add_permission(t, ip) PROVE Counters'
  <2> DEFINE c == job[t].client
  <2>1. t \in Threads /\ c \in Clients /\ bill' = bill /\ up' = up
    BY <1>6, JobFields DEF add_permission, TypeOK, Threads
  <2>2. PacketsKept
    <3>1. job[t] \in [op : {"perm"}, client : Clients, rest : SUBSET Ips]
      BY <1>6, <2>1, JobFields DEF add_permission, TypeOK
    <3>2. [job[t] EXCEPT !.rest = job[t].rest \ {ip}].op = "perm" /\ Idle.op = "idle"
      BY <3>1 DEF Idle
    <3> HIDE DEF c
    <3> DEFINE rest == [job[t] EXCEPT !.rest = job[t].rest \ {ip}]
    <3>3. \/ job' = [job EXCEPT ![t] = Idle]
          \/ job' = [job EXCEPT ![t] = IF job[t].rest = {ip} THEN Idle ELSE rest]
      BY <1>6, <2>1 DEF add_permission
    <3> HIDE DEF rest
    <3> QED  BY <1>6, <2>1, <3>2, <3>3 DEF PacketsKept, TypeOK, add_permission, rest
  <2>3. CASE Has(c) /\ PermRoom(alloc[c], ip)
    <3>1. Permitted(alloc[c], ip) \in Allocation /\ SameCounts(Permitted(alloc[c], ip), alloc[c])
      BY <1>a, <2>1, <2>3, HelpersShape, HelpersFrame
    <3>2. alloc' = [alloc EXCEPT ![c] = Permitted(alloc[c], ip)]
      BY <1>6, <2>3 DEF add_permission
    <3> QED  BY <1>d, <2>1, <2>2, <2>3, <3>1, <3>2
  <2>4. CASE ~(Has(c) /\ PermRoom(alloc[c], ip))
    BY <1>6, <2>1, <2>2, <2>4, CountersFrame DEF add_permission
  <2> QED  BY <2>3, <2>4
<1>7. ASSUME NEW c \in Clients, NEW ch \in Channels, NEW p \in Peers, add_channel(c, ch, p)
      PROVE  Counters'
  <2> DEFINE b == WithChannel(alloc[c], ch, p)
  <2>1. Has(c) /\ alloc[c] \in Allocation /\ MayBind(alloc[c], ch, p)
    BY <1>7, <1>a DEF add_channel
  <2>2. b \in Allocation /\ SameCounts(b, alloc[c])
    BY <2>1, ChannelAdded
  <2>3. alloc' = [alloc EXCEPT ![c] = b] /\ job' = job /\ bill' = bill /\ up' = up
    BY <1>7 DEF add_channel, WithChannel
  <2> HIDE DEF b
  <2> QED  BY <1>c, <1>d, <2>1, <2>2, <2>3
<1>8. ASSUME NEW t \in Workers, NEW c \in Clients, NEW ch \in Channels,
             channel_data_decision(t, c, ch)
      PROVE  Counters'
  BY <1>8, AdmitCounters DEF channel_data_decision, Threads, Idle
<1>9. ASSUME NEW t \in Workers, NEW c \in Clients, NEW p \in Peers,
             handle_send_indication(t, c, p)
      PROVE  Counters'
  BY <1>9, AdmitCounters DEF handle_send_indication, Threads, Idle
<1>10. ASSUME NEW t \in Pumps, NEW r \in Relays, NEW p \in Peers, get_by_relay(t, r, p)
       PROVE  Counters'
  <2>1. PacketsKept
    BY <1>10 DEF get_by_relay, PacketsKept, TypeOK, Idle, Threads
  <2> QED  BY <1>10, <2>1, CountersFrame DEF get_by_relay
<1>11. ASSUME NEW t \in Pumps, process_relay_recv(t) PROVE Counters'
  <2>1. t \in Threads /\ job[t].client \in Clients /\ job[t].op = "found"
    BY <1>11, JobFields DEF process_relay_recv, TypeOK, Threads
  <2>2. CASE Admit(t, job[t].client, "in")
    BY <2>1, <2>2, AdmitCounters
  <2>3. CASE /\ job' = [job EXCEPT ![t] = Idle]
             /\ UNCHANGED <<alloc, row, sweep, bill, up, spent>>
    <3>1. PacketsKept
      BY <2>1, <2>3 DEF PacketsKept, TypeOK, Idle
    <3> QED  BY <2>3, <3>1, CountersFrame
  <2> QED  BY <1>11, <2>2, <2>3 DEF process_relay_recv
<1>12. ASSUME NEW t \in Threads, add_bytes(t) PROVE Counters'
  BY <1>12, AddBytesCounters
<1>13. ASSUME NEW t \in Pumps, add_bytes_to_client(t) PROVE Counters'
  BY <1>13, AddShareCounters DEF Threads
<1>14. ASSUME NEW c \in Clients, Second(c) PROVE Counters'
  <2>1. alloc[c] \in Allocation /\ Has(c) /\ alloc[c].age + 1 \in 0..MaxAge
    BY <1>14, <1>a, DataPlaneAssumption DEF Second, Allocation
  <2>2. LET a == [alloc[c] EXCEPT !.age = alloc[c].age + 1]
        IN  a \in Allocation /\ SameCounts(a, alloc[c])
    BY <2>1, AllocationUpdates, HelpersFrame
  <2> QED  BY <1>14, <1>c, <1>d, <2>1, <2>2 DEF Second
<1>15. ASSUME NEW c \in Clients, NEW ip \in Ips, PermissionEnds(c, ip) PROVE Counters'
  <2>1. alloc[c] \in Allocation /\ Has(c)
    BY <1>15, <1>a DEF PermissionEnds
  <2>2. LET a == [alloc[c] EXCEPT !.perms[ip] = "expired"]
        IN  a \in Allocation /\ SameCounts(a, alloc[c])
    BY <2>1, AllocationUpdates, HelpersFrame DEF Times
  <2> QED  BY <1>15, <1>c, <1>d, <2>1, <2>2 DEF PermissionEnds
<1>16. ASSUME NEW r \in Relays, AllocationEnds(r) PROVE Counters'
  <2>1. ASSUME NEW c \in Clients
        PROVE  \/ alloc'[c] = alloc[c]
               \/ Has(c) /\ Has(c)' /\ SameCounts(alloc'[c], alloc[c])
    <3>1. CASE Has(c) /\ alloc[c].relay = r
      <4>1. alloc'[c] = [alloc[c] EXCEPT !.time = "expired"]
        BY <1>16, <3>1 DEF AllocationEnds
      <4> QED  BY <1>a, <1>b, <3>1, <4>1, AllocationUpdates, HelpersFrame DEF Times
    <3>2. CASE ~(Has(c) /\ alloc[c].relay = r)
      BY <1>16, <3>2 DEF AllocationEnds
    <3> QED  BY <3>1, <3>2
  <2> QED  BY <1>16, <1>c, <2>1, CountersFrame DEF AllocationEnds
<1>17. ASSUME NEW r \in Relays, NEW ch \in Channels, ChannelEnds(r, ch) PROVE Counters'
  <2>1. ASSUME NEW c \in Clients
        PROVE  \/ alloc'[c] = alloc[c]
               \/ Has(c) /\ Has(c)' /\ SameCounts(alloc'[c], alloc[c])
    <3>1. CASE Has(c) /\ alloc[c].relay = r /\ ch \in Known(alloc[c].chans)
      <4>1. alloc'[c] = Expired(alloc[c], ch)
        BY <1>17, <3>1 DEF ChannelEnds, Expired
      <4>2. alloc[c] \in Allocation
        BY <1>a, <3>1
      <4>3. alloc'[c] \in Allocation /\ SameCounts(alloc'[c], alloc[c])
        BY <3>1, <4>1, <4>2, ChannelExpired
      <4> QED  BY <1>b, <3>1, <4>3
    <3>2. CASE ~(Has(c) /\ alloc[c].relay = r /\ ch \in Known(alloc[c].chans))
      BY <1>17, <3>2 DEF ChannelEnds
    <3> QED  BY <3>1, <3>2
  <2> QED  BY <1>17, <1>c, <2>1, CountersFrame DEF ChannelEnds
<1>18. ASSUME Classify PROVE Counters'
  BY <1>18, <1>c, CountersFrame DEF Classify
<1>19. ASSUME NEW c \in Clients, Prune(c) PROVE Counters'
  <2>1. CASE Has(c)
    <3> DEFINE a == cleanup_expired_entries(alloc[c])
    <3>1. a \in Allocation /\ SameCounts(a, alloc[c])
      BY <1>a, <2>1, HelpersShape, HelpersFrame
    <3>2. alloc' = [alloc EXCEPT ![c] = a] /\ job' = job /\ bill' = bill /\ up' = up
      BY <1>19, <2>1 DEF Prune
    <3> HIDE DEF a
    <3> QED  BY <1>c, <1>d, <2>1, <3>1, <3>2
  <2>2. CASE ~Has(c)
    BY <1>19, <1>c, <2>2, CountersFrame DEF Prune
  <2> QED  BY <2>1, <2>2
<1>20. ASSUME Crash PROVE Counters'
  <2>1. \A c \in Clients : ~Has(c)' /\ bill'[c] = None
    BY <1>20 DEF Crash, Has
  <2>2. \A t \in Threads : job'[t].op = "idle"
    BY <1>20 DEF Crash, Idle
  <2> QED  BY <2>1, <2>2 DEF Counters, RefsHeld, Counted, WindowBounded, UsageExact
<1>21. ASSUME Restart PROVE Counters'
  <2>1. (\A c \in Clients : ~Has(c)) /\ job' = job /\ bill' = bill /\ up'
    BY <1>21 DEF Restart, Counters, RefsHeld
  <2>2. RefsHeld'
    BY <2>1, JobFields DEF Counters, RefsHeld, TypeOK
  <2>3. ASSUME NEW c \in Clients, Has(c)' PROVE CountedAt(c)' /\ WindowAt(c)'
    <3>1. \E r : alloc'[c] = Rehydrated(r)
      BY <1>21, <2>3 DEF Restart, Has
    <3>2. /\ alloc'[c].total = 0 /\ alloc'[c].share = 0 /\ alloc'[c].win = 0
          /\ alloc'[c].passed.from = 0 /\ alloc'[c].passed.to = 0
      BY <3>1 DEF Rehydrated
    <3> QED  BY <2>1, <3>2, FreshCounted DEF Counters
  <2> QED  BY <2>1, <2>2, <2>3 DEF Counters, Counted, WindowBounded, UsageExact
<1> QED
  BY <1>1, <1>2, <1>3, <1>4, <1>5, <1>6, <1>7, <1>8, <1>9, <1>10, <1>11, <1>12, <1>13,
     <1>14, <1>15, <1>16, <1>17, <1>18, <1>19, <1>20, <1>21
  DEF Next, WorkerNext, PumpNext, ClientNext, TimeNext

----------------------------------------------------------------------------
(* Channels *)

\* ChannelsInverse of one allocation, RowsInjective of one row.
InverseMaps(a) ==
  \A ch \in Channels, p \in Peers :
    (a.chans[ch] # None /\ a.chans[ch].peer = p) <=> a.rev[p] = ch

InjectiveChans(f) ==
  \A x, y \in Channels :
    /\ f[x] # None /\ f[x].time = "live" /\ f[y] # None /\ f[y].time = "live"
    /\ f[x].peer = f[y].peer
    => x = y

\* What rehydrate keeps of a map of channels.
LEMMA KeptPoints ==
  ASSUME NEW f, NEW g
  PROVE  Kept(f) = Kept(g) <=>
           \A ch \in Channels :
             (IF f[ch] # None /\ f[ch].time = "live" THEN f[ch] ELSE None)
               = (IF g[ch] # None /\ g[ch].time = "live" THEN g[ch] ELSE None)
<1>1. Kept(f) = [ch \in Channels |-> IF f[ch] # None /\ f[ch].time = "live" THEN f[ch] ELSE None]
  BY DEF Kept
<1>2. Kept(g) = [ch \in Channels |-> IF g[ch] # None /\ g[ch].time = "live" THEN g[ch] ELSE None]
  BY DEF Kept
<1> QED  BY <1>1, <1>2

\* Writing one channel the same way, or making it expired, in both of two maps.
LEMMA KeptUpdate ==
  ASSUME NEW f \in [Channels -> Bindings \cup {None}],
         NEW g \in [Channels -> Bindings \cup {None}],
         Kept(f) = Kept(g), NEW ch \in Channels, NEW x, NEW y,
         x = y \/ ((x = None \/ x.time = "expired") /\ (y = None \/ y.time = "expired"))
  PROVE  Kept([f EXCEPT ![ch] = x]) = Kept([g EXCEPT ![ch] = y])
<1> DEFINE F == [f EXCEPT ![ch] = x]
           G == [g EXCEPT ![ch] = y]
<1>1. \A k \in Channels : F[k] = (IF k = ch THEN x ELSE f[k]) /\ G[k] = (IF k = ch THEN y ELSE g[k])
  OBVIOUS
<1>2. \A k \in Channels :
        (IF f[k] # None /\ f[k].time = "live" THEN f[k] ELSE None)
          = (IF g[k] # None /\ g[k].time = "live" THEN g[k] ELSE None)
  BY KeptPoints
<1> HIDE DEF F, G
<1>3. \A k \in Channels :
        (IF F[k] # None /\ F[k].time = "live" THEN F[k] ELSE None)
          = (IF G[k] # None /\ G[k].time = "live" THEN G[k] ELSE None)
  BY <1>1, <1>2
<1>4. Kept(F) = Kept(G)
  BY <1>3, KeptPoints
<1> QED  BY <1>4 DEF F, G

\* A binding that passes the checks of add_channel leaves the maps inverse.
LEMMA ChannelAddedInverse ==
  ASSUME NEW a \in Allocation, InverseMaps(a), NEW ch \in Channels, NEW p \in Peers,
         MayBind(a, ch, p)
  PROVE  InverseMaps(WithChannel(a, ch, p))
<1> DEFINE b == WithChannel(a, ch, p)
           new == [peer |-> p, time |-> "live"]
<1>1. /\ b.chans = [a.chans EXCEPT ![ch] = new]
      /\ b.rev = IF ch \in Known(a.chans) THEN a.rev ELSE [a.rev EXCEPT ![p] = ch]
  BY ChannelAdded
<1>2. a.chans \in [Channels -> Bindings \cup {None}] /\ a.rev \in [Peers -> Channels \cup {None}]
  BY DEF Allocation
<1>3. new # None /\ new.peer = p /\ None \notin Channels
  BY DataPlaneAssumption DEF Bindings, Times
<1>4. /\ a.chans[ch] # None => a.chans[ch].peer = p
      /\ a.rev[p] # None => a.rev[p] = ch
  BY <1>2 DEF MayBind, Known
<1> HIDE DEF b, new
<1>5. \A k \in Channels : b.chans[k] = IF k = ch THEN new ELSE a.chans[k]
  BY <1>1, <1>2
<1>6. CASE a.chans[ch] # None
  <2>1. b.rev = a.rev /\ a.chans[ch].peer = p
    BY <1>1, <1>2, <1>4, <1>6 DEF Known
  <2> SUFFICES ASSUME NEW k \in Channels, NEW q \in Peers
               PROVE  (b.chans[k] # None /\ b.chans[k].peer = q) <=> a.rev[q] = k
    BY <2>1 DEF InverseMaps, b
  <2>2. (a.chans[k] # None /\ a.chans[k].peer = q) <=> a.rev[q] = k
    BY DEF InverseMaps
  <2> QED  BY <1>3, <1>5, <1>6, <2>1, <2>2
<1>7. CASE a.chans[ch] = None
  <2>1. \A q \in Peers : b.rev[q] = IF q = p THEN ch ELSE a.rev[q]
    BY <1>1, <1>2, <1>7 DEF Known
  <2>2. a.rev[p] = None
    BY <1>2, <1>4, <1>7 DEF InverseMaps
  <2>3. \A k \in Channels : a.chans[k] # None => a.chans[k].peer # p
    BY <1>3, <2>2 DEF InverseMaps
  <2>4. \A q \in Peers : a.rev[q] # ch
    BY <1>7 DEF InverseMaps
  <2> SUFFICES ASSUME NEW k \in Channels, NEW q \in Peers
               PROVE  (b.chans[k] # None /\ b.chans[k].peer = q) <=> b.rev[q] = k
    BY DEF InverseMaps, b
  <2>5. (a.chans[k] # None /\ a.chans[k].peer = q) <=> a.rev[q] = k
    BY DEF InverseMaps
  <2> QED  BY <1>3, <1>5, <2>1, <2>3, <2>4, <2>5
<1> QED  BY <1>6, <1>7 DEF b

\* Pruning takes a binding out of both maps, and none that a restart would keep.
LEMMA PrunedInverse ==
  ASSUME NEW a \in Allocation, InverseMaps(a)
  PROVE  LET b == cleanup_expired_entries(a) IN
         InverseMaps(b) /\ b.relay = a.relay /\ Kept(b.chans) = Kept(a.chans)
<1> DEFINE b == cleanup_expired_entries(a)
           gone == {a.chans[ch].peer : ch \in StaleChans(a)}
<1>1. a.chans \in [Channels -> Bindings \cup {None}] /\ a.rev \in [Peers -> Channels \cup {None}]
  BY DEF Allocation
<1>2. /\ b.relay = a.relay
      /\ b.chans = [ch \in Channels |-> IF ch \in StaleChans(a) THEN None ELSE a.chans[ch]]
      /\ b.rev = [p \in Peers |-> IF p \in gone THEN None ELSE a.rev[p]]
  BY DEF cleanup_expired_entries, Allocation
<1>3. \A ch \in Channels :
        ch \in StaleChans(a) <=> a.chans[ch] # None /\ a.chans[ch].time = "expired"
  BY <1>1 DEF StaleChans, Known
<1>4. \A p : p \in gone <=> \E ch \in Channels : /\ a.chans[ch] # None
                                                /\ a.chans[ch].time = "expired"
                                                /\ a.chans[ch].peer = p
  BY <1>1 DEF StaleChans, Known
<1> HIDE DEF b, gone
<1>5. InverseMaps(b)
  BY <1>1, <1>2, <1>3, <1>4, DataPlaneAssumption DEF InverseMaps
<1>6. Kept(b.chans) = Kept(a.chans)
  <2>1. \A ch \in Channels :
          (IF b.chans[ch] # None /\ b.chans[ch].time = "live" THEN b.chans[ch] ELSE None)
            = (IF a.chans[ch] # None /\ a.chans[ch].time = "live" THEN a.chans[ch] ELSE None)
    BY <1>2, <1>3
  <2> QED  BY <2>1, KeptPoints
<1> QED  BY <1>2, <1>5, <1>6 DEF b

\* A row whose live channels have peers of their own is read back into inverse maps.
LEMMA RehydratedInverse ==
  ASSUME NEW r \in Relays, row[r] \in Rows, InjectiveChans(row[r].chans)
  PROVE  /\ InverseMaps(Rehydrated(r)) /\ Rehydrated(r).relay = r
         /\ Kept(Rehydrated(r).chans) = Kept(row[r].chans)
<1> DEFINE f == row[r].chans
           k == Kept(f)
<1>1. /\ Rehydrated(r).relay = r /\ Rehydrated(r).chans = k
      /\ Rehydrated(r).rev = Reversed(k)
  BY DEF Rehydrated
<1>2. f \in [Channels -> Bindings \cup {None}]
  BY DEF Rows
<1>3. \A ch \in Channels : k[ch] = IF f[ch] # None /\ f[ch].time = "live" THEN f[ch] ELSE None
  BY DEF Kept
<1>4. DOMAIN k = Channels
  BY DEF Kept
<1> HIDE DEF f, k
<1>5. \A x, y \in Channels : k[x] # None /\ k[y] # None /\ k[x].peer = k[y].peer => x = y
  BY <1>3 DEF InjectiveChans, f
<1>6. \A p \in Peers, ch \in Channels : (k[ch] # None /\ k[ch].peer = p) <=> Reversed(k)[p] = ch
  <2> SUFFICES ASSUME NEW p \in Peers, NEW ch \in Channels
               PROVE  (k[ch] # None /\ k[ch].peer = p) <=> Reversed(k)[p] = ch
    OBVIOUS
  <2> DEFINE of == {x \in Known(k) : k[x].peer = p}
  <2>1. Reversed(k)[p] = IF of = {} THEN None ELSE CHOOSE x \in of : TRUE
    BY DEF Reversed
  <2>2. \A x : x \in of <=> x \in Channels /\ k[x] # None /\ k[x].peer = p
    BY <1>4 DEF Known
  <2>3. \A x, y \in of : x = y
    BY <1>5, <2>2
  <2>4. of # {} => (CHOOSE x \in of : TRUE) \in of
    OBVIOUS
  <2> HIDE DEF of
  <2> QED  BY <2>1, <2>2, <2>3, <2>4, DataPlaneAssumption
<1>7. Kept(k) = Kept(f)
  <2>1. \A ch \in Channels :
          (IF k[ch] # None /\ k[ch].time = "live" THEN k[ch] ELSE None)
            = (IF f[ch] # None /\ f[ch].time = "live" THEN f[ch] ELSE None)
    BY <1>3
  <2> QED  BY <2>1, KeptPoints
<1> QED  BY <1>1, <1>6, <1>7 DEF InverseMaps, f

\* A step that writes no channel map, neither of an allocation nor of a row.
LEMMA BoundFrame ==
  ASSUME Bound, TypeOK,
         \A c \in Clients : \/ alloc'[c] = alloc[c]
                            \/ Has(c) /\ Has(c)' /\ SameMaps(alloc'[c], alloc[c]),
         \A r \in Relays : \/ row'[r] = row[r]
                           \/ /\ row[r] # None /\ row'[r] # None
                              /\ row'[r].client = row[r].client
                              /\ row'[r].chans = row[r].chans
  PROVE  Bound'
<1>1. \A c \in Clients : (Has(c)' <=> Has(c)) /\ SameMaps(alloc'[c], alloc[c])
  BY DEF Has, SameMaps
<1>2. \A c \in Clients : Has(c) => alloc[c].relay \in Relays
  BY DEF Has, TypeOK, Allocation
<1>3. \A r \in Relays : /\ row'[r] = None <=> row[r] = None
                        /\ row'[r].client = row[r].client /\ row'[r].chans = row[r].chans
  OBVIOUS
<1>4. RowOwned'
  BY <1>1, <1>2, <1>3 DEF Bound, RowOwned, SameMaps
<1>5. RowsInjective'
  BY <1>3 DEF Bound, RowsInjective
<1>6. ChannelsInverse'
  BY <1>1 DEF Bound, ChannelsInverse, SameMaps
<1>7. ChannelsPersisted'
  BY <1>1, <1>2, <1>3 DEF Bound, ChannelsPersisted, SameMaps
<1> QED  BY <1>4, <1>5, <1>6, <1>7 DEF Bound

\* Bound, point by point.
LEMMA BoundPoints ==
  Bound <=> /\ \A r \in Relays : row[r] # None => InjectiveChans(row[r].chans)
            /\ \A c \in Clients : Has(c) =>
                 /\ row[alloc[c].relay] # None /\ row[alloc[c].relay].client = c
                 /\ InverseMaps(alloc[c])
                 /\ Kept(alloc[c].chans) = Kept(row[alloc[c].relay].chans)
  BY DEF Bound, RowOwned, RowsInjective, ChannelsInverse, ChannelsPersisted, InverseMaps,
         InjectiveChans

\* The same for the next state.
LEMMA BoundAgain ==
  ASSUME \A r \in Relays : row'[r] # None => InjectiveChans(row'[r].chans),
         \A c \in Clients : Has(c)' =>
           /\ row'[alloc'[c].relay] # None /\ row'[alloc'[c].relay].client = c
           /\ InverseMaps(alloc'[c])
           /\ Kept(alloc'[c].chans) = Kept(row'[alloc'[c].relay].chans)
  PROVE  Bound'
  BY DEF Bound, RowOwned, RowsInjective, ChannelsInverse, ChannelsPersisted, InverseMaps,
         InjectiveChans

\* The removal of an allocation takes its row with it, and no other client's.
LEMMA RemovedBound ==
  ASSUME TypeOK, Bound, NEW c \in Clients, Has(c), Removed(c)
  PROVE  Bound'
<1>1. \A d \in Clients : Has(d) => alloc[d].relay \in Relays
  BY DEF Has, TypeOK, Allocation
<1>2. \A d \in Clients : Has(d) => row[alloc[d].relay].client = d
  BY BoundPoints
<1>3. \A d \in Clients : Has(d)' => /\ d # c /\ Has(d) /\ alloc'[d] = alloc[d]
                                   /\ row'[alloc[d].relay] = row[alloc[d].relay]
  BY <1>1, <1>2 DEF Removed, TypeOK, Has
<1>4. \A r \in Relays : row'[r] = None \/ row'[r] = row[r]
  BY <1>1 DEF Removed, TypeOK
<1>5. \A r \in Relays : row'[r] # None => InjectiveChans(row'[r].chans)
  BY <1>4, BoundPoints
<1>6. \A d \in Clients : Has(d)' =>
        /\ row'[alloc'[d].relay] # None /\ row'[alloc'[d].relay].client = d
        /\ InverseMaps(alloc'[d])
        /\ Kept(alloc'[d].chans) = Kept(row'[alloc'[d].relay].chans)
  BY <1>3, BoundPoints
<1> QED  BY <1>5, <1>6, BoundAgain

\* A packet's roll of the window writes no channel.
LEMMA AdmitBound ==
  ASSUME TypeOK, Counted, Bound, NEW t, NEW c \in Clients, NEW d \in {"out", "in"},
         Admit(t, c, d)
  PROVE  Bound'
<1>1. alloc[c] \in Allocation /\ Has(c)
  BY DEF Admit, Has, TypeOK
<1>2. /\ Rolled(alloc[c]) \in Allocation /\ SameMaps(Rolled(alloc[c]), alloc[c])
      /\ Room(c) => /\ Passed(Rolled(alloc[c]), d) \in Allocation
                    /\ SameMaps(Passed(Rolled(alloc[c]), d), alloc[c])
  BY <1>1, HelpersShape, HelpersFrame, PassedShape
<1>3. /\ \E a \in Allocation : SameMaps(a, alloc[c]) /\ alloc' = [alloc EXCEPT ![c] = a]
      /\ row' = row
  BY <1>2 DEF Admit
<1>4. \A e \in Clients : \/ alloc'[e] = alloc[e]
                         \/ Has(e) /\ Has(e)' /\ SameMaps(alloc'[e], alloc[e])
  BY <1>1, <1>2, <1>3, DataPlaneAssumption DEF TypeOK, Has
<1> QED  BY <1>3, <1>4, BoundFrame

\* A binding is written to both maps and to the row at once (add_channel).
LEMMA AddChannelBound ==
  ASSUME TypeOK, Bound, NEW c \in Clients, NEW ch \in Channels, NEW p \in Peers,
         add_channel(c, ch, p)
  PROVE  Bound'
<1> DEFINE a == alloc[c]
           b == WithChannel(a, ch, p)
           r == alloc[c].relay
           new == [peer |-> p, time |-> "live"]
<1>1. Has(c) /\ a \in Allocation /\ r \in Relays /\ MayBind(a, ch, p)
  BY DEF add_channel, Has, TypeOK, Allocation
<1>2. /\ row[r] # None /\ row[r] \in Rows /\ row[r].client = c
      /\ InverseMaps(a) /\ Kept(a.chans) = Kept(row[r].chans)
  BY <1>1, BoundPoints DEF TypeOK
<1>3. /\ b \in Allocation /\ b.relay = r
      /\ b.chans = [a.chans EXCEPT ![ch] = new]
  <2> HIDE DEF a, b, r, new
  <2>1. a \in Allocation /\ MayBind(a, ch, p)
    BY <1>1
  <2>2. LET w == WithChannel(a, ch, p)
        IN  /\ w \in Allocation /\ SameCounts(w, a) /\ w.relay = a.relay
            /\ w.chans = [a.chans EXCEPT ![ch] = [peer |-> p, time |-> "live"]]
            /\ w.rev = IF ch \in Known(a.chans) THEN a.rev ELSE [a.rev EXCEPT ![p] = ch]
    BY <2>1, ChannelAdded, Zenon
  <2> QED  BY <2>2 DEF b, r, new, a
<1>4. InverseMaps(b)
  BY <1>1, <1>2, ChannelAddedInverse
<1>5. alloc' = [alloc EXCEPT ![c] = b]
  BY DEF add_channel, WithChannel
<1>6. /\ row'[r] # None /\ row'[r].client = c
      /\ row'[r].chans = [row[r].chans EXCEPT ![ch] = new]
      /\ \A s \in Relays : s # r => row'[s] = row[s]
  <2> DEFINE v == [row[r] EXCEPT !.perms = @ \cup {IpOf(p)}, !.chans = StoredChans(@, ch, p)]
  <2>1. row' = [row EXCEPT ![r] = v]
    BY <1>1, <1>2 DEF add_channel, TypeOK, Rows
  <2>2. v.client = c /\ v.chans = [row[r].chans EXCEPT ![ch] = new]
    BY <1>2 DEF StoredChans, Rows
  <2>3. v # None
    <3>1. new \in Bindings /\ IpOf(p) \in Ips
      BY DataPlaneAssumption DEF Bindings, Times
    <3>2. /\ row[r].perms \cup {IpOf(p)} \in SUBSET Ips
          /\ StoredChans(row[r].chans, ch, p) \in [Channels -> Bindings \cup {None}]
      BY <1>2, <3>1 DEF StoredChans, Rows
    <3>3. v \in Rows
      BY <1>2, <3>2 DEF Rows
    <3> QED  BY <3>3, DataPlaneAssumption
  <2> HIDE DEF v
  <2> QED  BY <1>1, <2>1, <2>2, <2>3 DEF TypeOK
<1>7. \A d \in Clients : d # c /\ Has(d) => alloc[d].relay # r /\ alloc[d].relay \in Relays
  BY <1>2, BoundPoints DEF Has, TypeOK, Allocation
<1>8. \A d \in Clients : IF d = c THEN alloc'[d] = b ELSE alloc'[d] = alloc[d]
  BY <1>5 DEF TypeOK
<1>9. Kept([a.chans EXCEPT ![ch] = new]) = Kept([row[r].chans EXCEPT ![ch] = new])
  <2>1. /\ a.chans \in [Channels -> Bindings \cup {None}]
        /\ row[r].chans \in [Channels -> Bindings \cup {None}]
    BY <1>1, <1>2 DEF Allocation, Rows
  <2> QED  BY <1>2, <2>1, KeptUpdate
<1>10. InjectiveChans(row'[r].chans)
  <2> DEFINE f == row[r].chans
  <2>1. f \in [Channels -> Bindings \cup {None}] /\ a.rev \in [Peers -> Channels \cup {None}]
    BY <1>1, <1>2 DEF Rows, Allocation
  <2>2. \A x \in Channels : f[x] # None /\ f[x].time = "live" => a.chans[x] = f[x]
    BY <1>2, KeptPoints
  <2>3. \A x \in Channels : f[x] # None /\ f[x].time = "live" /\ f[x].peer = p => x = ch
    <3> SUFFICES ASSUME NEW x \in Channels, f[x] # None, f[x].time = "live", f[x].peer = p
                 PROVE  x = ch
      OBVIOUS
    <3>1. a.rev[p] = x
      BY <1>2, <2>2 DEF InverseMaps
    <3>2. x # None
      BY DataPlaneAssumption
    <3> QED  BY <1>1, <2>1, <3>1, <3>2 DEF MayBind, Known
  <2>4. InjectiveChans(f)
    BY <1>1, <1>2, BoundPoints
  <2>5. \A x \in Channels : row'[r].chans[x] = IF x = ch THEN new ELSE f[x]
    BY <1>6, <2>1
  <2>6. new.peer = p
    OBVIOUS
  <2> HIDE DEF f, new
  <2> QED  BY <2>3, <2>4, <2>5, <2>6 DEF InjectiveChans
<1> HIDE DEF b, new
<1>11. \A s \in Relays : row'[s] # None => InjectiveChans(row'[s].chans)
  BY <1>6, <1>10, BoundPoints
<1>12. \A d \in Clients : Has(d)' =>
         /\ row'[alloc'[d].relay] # None /\ row'[alloc'[d].relay].client = d
         /\ InverseMaps(alloc'[d])
         /\ Kept(alloc'[d].chans) = Kept(row'[alloc'[d].relay].chans)
  <2>1. /\ row'[alloc'[c].relay] # None /\ row'[alloc'[c].relay].client = c
        /\ InverseMaps(alloc'[c])
        /\ Kept(alloc'[c].chans) = Kept(row'[alloc'[c].relay].chans)
    BY <1>3, <1>4, <1>6, <1>8, <1>9
  <2>2. ASSUME NEW d \in Clients, d # c, Has(d)'
        PROVE  /\ Has(d) /\ alloc'[d] = alloc[d]
               /\ row'[alloc[d].relay] = row[alloc[d].relay]
    BY <1>6, <1>7, <1>8, <2>2 DEF Has
  <2> QED  BY <2>1, <2>2, BoundPoints
<1> QED  BY <1>11, <1>12, BoundAgain


\* An allocation is created with empty maps and a row of its own (Allocate).
LEMMA AllocateBound ==
  ASSUME TypeOK, TypeOK', Bound, NEW c \in Clients, NEW r \in Relays, Allocate(c, r)
  PROVE  Bound'
<1>1. /\ ~Has(c) /\ \A d \in Clients : Has(d) => alloc[d].relay # r /\ alloc[d].relay \in Relays
  BY DEF Allocate, Has, TypeOK, Allocation
<1>2. /\ \A d \in Clients : d # c => alloc'[d] = alloc[d]
      /\ alloc'[c].relay = r
      /\ \A k \in Channels : alloc'[c].chans[k] = None
      /\ \A q \in Peers : alloc'[c].rev[q] = None
  BY DEF Allocate, TypeOK
<1>3. /\ \A s \in Relays : s # r => row'[s] = row[s]
      /\ row'[r].client = c /\ \A k \in Channels : row'[r].chans[k] = None
  BY DEF Allocate, TypeOK
<1>4. row'[r] # None
  <2>1. [ch \in Channels |-> None] \in [Channels -> Bindings \cup {None}]
    OBVIOUS
  <2> DEFINE w == [client |-> c, time |-> "live", perms |-> {},
                   chans |-> [ch \in Channels |-> None]]
  <2>2. w \in Rows
    BY <2>1 DEF Rows, Times
  <2>3. row'[r] = w
    BY DEF Allocate, TypeOK
  <2> QED  BY <2>2, <2>3, DataPlaneAssumption
<1>5. \A s \in Relays : row'[s] # None => InjectiveChans(row'[s].chans)
  BY <1>3, BoundPoints DEF InjectiveChans
<1>6. InverseMaps(alloc'[c])
  BY <1>2, DataPlaneAssumption DEF InverseMaps
<1>7. Kept(alloc'[c].chans) = Kept(row'[r].chans)
  BY <1>2, <1>3, KeptPoints
<1>8. ASSUME NEW d \in Clients, Has(d)'
      PROVE  /\ row'[alloc'[d].relay] # None /\ row'[alloc'[d].relay].client = d
             /\ InverseMaps(alloc'[d])
             /\ Kept(alloc'[d].chans) = Kept(row'[alloc'[d].relay].chans)
  <2>1. CASE d = c
    BY <1>2, <1>3, <1>4, <1>6, <1>7, <2>1
  <2>2. CASE d # c
    <3>1. Has(d) /\ alloc'[d] = alloc[d] /\ row'[alloc[d].relay] = row[alloc[d].relay]
      BY <1>1, <1>2, <1>3, <1>8, <2>2 DEF Has
    <3> QED  BY <3>1, BoundPoints
  <2> QED  BY <2>1, <2>2
<1> QED  BY <1>5, <1>8, BoundAgain

\* A binding runs out in the row and in the allocation that holds it.
LEMMA ChannelEndsBound ==
  ASSUME TypeOK, Bound, NEW r \in Relays, NEW ch \in Channels, ChannelEnds(r, ch)
  PROVE  Bound'
<1> DEFINE f == row[r].chans
           old == [f[ch] EXCEPT !.time = "expired"]
<1>1. /\ row[r] \in Rows /\ f \in [Channels -> Bindings \cup {None}] /\ f[ch] \in Bindings
      /\ old \in Bindings /\ old.time = "expired"
  <2>1. row[r] \in Rows /\ ch \in Known(f)
    BY DEF ChannelEnds, TypeOK
  <2>2. f \in [Channels -> Bindings \cup {None}]
    BY <2>1 DEF Rows
  <2>3. f[ch] \in Bindings
    BY <2>1, <2>2 DEF Known
  <2> HIDE DEF f
  <2> QED  BY <2>1, <2>2, <2>3, BindingEnds
<1>2. /\ row'[r] # None /\ row'[r].client = row[r].client
      /\ row'[r].chans = [f EXCEPT ![ch] = old]
      /\ \A s \in Relays : s # r => row'[s] = row[s]
  <2> DEFINE w == [row[r] EXCEPT !.chans = [f EXCEPT ![ch] = old]]
  <2>1. row' = [row EXCEPT ![r] = w]
    BY <1>1 DEF ChannelEnds, TypeOK, Rows
  <2>2. [f EXCEPT ![ch] = old] \in [Channels -> Bindings \cup {None}]
    BY <1>1
  <2>3. w \in Rows
    BY <1>1, <2>2, RowUpdates
  <2>4. w.client = row[r].client /\ w.chans = [f EXCEPT ![ch] = old]
    BY <1>1 DEF Rows
  <2> HIDE DEF w, f, old
  <2> QED  BY <2>1, <2>3, <2>4, DataPlaneAssumption DEF TypeOK
<1> HIDE DEF old
<1>3. InjectiveChans(f)
  BY BoundPoints DEF ChannelEnds
<1>4. InjectiveChans([f EXCEPT ![ch] = old])
  <2> HIDE DEF f
  <2>1. \A x \in Channels : [f EXCEPT ![ch] = old][x] = IF x = ch THEN old ELSE f[x]
    BY <1>1
  <2> QED  BY <1>1, <1>3, <2>1 DEF InjectiveChans
<1>5. \A s \in Relays : row'[s] # None => InjectiveChans(row'[s].chans)
  BY <1>2, <1>4, BoundPoints
<1>6. ASSUME NEW c \in Clients, Has(c)'
      PROVE  /\ row'[alloc'[c].relay] # None /\ row'[alloc'[c].relay].client = c
             /\ InverseMaps(alloc'[c])
             /\ Kept(alloc'[c].chans) = Kept(row'[alloc'[c].relay].chans)
  <2> DEFINE a == alloc[c]
             b == alloc'[c]
  <2>1. /\ Has(c) /\ a \in Allocation /\ a.relay \in Relays
        /\ a.chans \in [Channels -> Bindings \cup {None}]
        /\ a.rev \in [Peers -> Channels \cup {None}]
    BY <1>6 DEF ChannelEnds, Has, TypeOK, Allocation
  <2>2. /\ row[a.relay] # None /\ row[a.relay].client = c /\ InverseMaps(a)
        /\ Kept(a.chans) = Kept(row[a.relay].chans)
    BY <2>1, BoundPoints
  <2>3. CASE a.relay # r
    <3>1. b = a
      BY <2>3 DEF ChannelEnds
    <3> QED  BY <1>2, <2>1, <2>2, <2>3, <3>1
  <2>4. CASE a.relay = r /\ ch \notin Known(a.chans)
    <3>1. b = a /\ a.chans[ch] = None
      BY <2>1, <2>4 DEF ChannelEnds, Known
    <3>2. Kept(a.chans) = Kept([f EXCEPT ![ch] = old])
      <4> DEFINE g == [f EXCEPT ![ch] = old]
      <4>1. Kept(a.chans) = Kept(f)
        BY <2>2, <2>4
      <4>2. \A k \in Channels : g[k] = IF k = ch THEN old ELSE f[k]
        BY <1>1
      <4> HIDE DEF a, f, g
      <4>3. \A k \in Channels :
              (IF a.chans[k] # None /\ a.chans[k].time = "live" THEN a.chans[k] ELSE None)
                = (IF g[k] # None /\ g[k].time = "live" THEN g[k] ELSE None)
        BY <1>1, <3>1, <4>1, <4>2, KeptPoints
      <4> QED  BY <4>3, KeptPoints DEF g
    <3> QED  BY <1>2, <2>2, <2>4, <3>1, <3>2
  <2>5. CASE a.relay = r /\ ch \in Known(a.chans)
    <3>1. b = Expired(a, ch)
      BY <2>1, <2>5 DEF ChannelEnds, Expired
    <3>2. /\ b.relay = a.relay /\ b.rev = a.rev
          /\ b.chans = [a.chans EXCEPT ![ch] = b.chans[ch]]
          /\ b.chans[ch] \in Bindings /\ b.chans[ch].time = "expired"
          /\ b.chans[ch].peer = a.chans[ch].peer
      <4> HIDE DEF a, b
      <4>1. LET w == Expired(a, ch) IN
            /\ w.relay = a.relay /\ w.rev = a.rev
            /\ w.chans = [a.chans EXCEPT ![ch] = w.chans[ch]]
            /\ w.chans[ch] \in Bindings /\ w.chans[ch].time = "expired"
            /\ w.chans[ch].peer = a.chans[ch].peer
        BY <2>1, <2>5, ChannelExpired
      <4> QED  BY <3>1, <4>1
    <3> DEFINE x == b.chans[ch]
    <3> HIDE DEF a, b, x
    <3>3. b.chans = [a.chans EXCEPT ![ch] = x] /\ x \in Bindings /\ x.time = "expired"
          /\ x.peer = a.chans[ch].peer
      BY <3>2 DEF x
    <3>4. InverseMaps(b)
      <4>1. \A k \in Channels : b.chans[k] = IF k = ch THEN x ELSE a.chans[k]
        BY <2>1, <3>3
      <4>2. a.chans[ch] # None /\ x # None
        BY <2>1, <2>5, <3>3, DataPlaneAssumption DEF Known
      <4> QED  BY <2>2, <3>2, <3>3, <4>1, <4>2 DEF InverseMaps
    <3>5. Kept([a.chans EXCEPT ![ch] = x]) = Kept([f EXCEPT ![ch] = old])
      BY <1>1, <2>1, <2>2, <2>5, <3>3, KeptUpdate
    <3>6. b.relay = r /\ Kept(b.chans) = Kept(row'[r].chans)
      BY <1>2, <2>5, <3>2, <3>3, <3>5
    <3> QED  BY <1>2, <2>2, <2>5, <3>4, <3>6 DEF b
  <2> QED  BY <2>3, <2>4, <2>5
<1> QED  BY <1>5, <1>6, BoundAgain

\* Every step keeps the channel maps and the rows together.
LEMMA BoundStep == TypeOK /\ Counters /\ Bound /\ TypeOK' /\ Next => Bound'
<1> SUFFICES ASSUME TypeOK, Counters, Bound, TypeOK', Next PROVE Bound'
  OBVIOUS
<1>a. ASSUME NEW c \in Clients, Has(c)
      PROVE  /\ alloc[c] \in Allocation /\ alloc[c].relay \in Relays
             /\ row[alloc[c].relay] \in Rows /\ row[alloc[c].relay] # None
  BY <1>a, BoundPoints DEF Has, TypeOK, Allocation
<1>b. ASSUME NEW c \in Clients, alloc'[c] \in Allocation PROVE Has(c)'
  BY <1>b, DataPlaneAssumption DEF Has
<1>c. alloc' = alloc /\ row' = row => Bound'
  BY BoundFrame
<1>d. ASSUME NEW c \in Clients, NEW a \in Allocation, Has(c), SameMaps(a, alloc[c]),
             alloc' = [alloc EXCEPT ![c] = a]
      PROVE  \A e \in Clients : \/ alloc'[e] = alloc[e]
                                \/ Has(e) /\ Has(e)' /\ SameMaps(alloc'[e], alloc[e])
  BY <1>b, <1>d DEF TypeOK
<1>e. ASSUME NEW r \in Relays, NEW w \in Rows, row[r] # None, row' = [row EXCEPT ![r] = w],
             w.client = row[r].client, w.chans = row[r].chans
      PROVE  \A s \in Relays : \/ row'[s] = row[s]
                               \/ /\ row[s] # None /\ row'[s] # None
                                  /\ row'[s].client = row[s].client
                                  /\ row'[s].chans = row[s].chans
  BY <1>e, DataPlaneAssumption DEF TypeOK
<1>1. ASSUME NEW c \in Clients, NEW r \in Relays, Allocate(c, r) PROVE Bound'
  BY <1>1, AllocateBound
<1>2. ASSUME NEW c \in Clients, Refresh(c) PROVE Bound'
  <2> DEFINE a == [alloc[c] EXCEPT !.time = "live"]
             r == alloc[c].relay
             w == [row[r] EXCEPT !.time = "live"]
  <2>1. Has(c) /\ alloc' = [alloc EXCEPT ![c] = a] /\ row' = [row EXCEPT ![r] = w]
    BY <1>2 DEF Refresh
  <2>2. a \in Allocation /\ SameMaps(a, alloc[c])
    BY <1>a, <2>1, AllocationUpdates, HelpersFrame DEF Times
  <2>3. r \in Relays /\ row[r] \in Rows /\ row[r] # None
    BY <1>a, <2>1
  <2>4. w \in Rows /\ w.client = row[r].client /\ w.chans = row[r].chans
    BY <2>3 DEF Rows, Times
  <2> HIDE DEF a, r, w
  <2> QED  BY <1>d, <1>e, <2>1, <2>2, <2>3, <2>4, BoundFrame
<1>3. ASSUME NEW c \in Clients, Release(c) PROVE Bound'
  BY <1>3, RemovedBound DEF Release
<1>4. ASSUME NEW c \in Clients, Sweep(c) PROVE Bound'
  BY <1>4, <1>c, RemovedBound DEF Sweep
<1>5. ASSUME NEW t \in Workers, NEW c \in Clients, NEW ips \in SUBSET Ips,
             CreatePermission(t, c, ips)
      PROVE  Bound'
  BY <1>5, <1>c DEF CreatePermission
<1>6. ASSUME NEW t \in Workers, NEW ip \in Ips, add_permission(t, ip) PROVE Bound'
  <2> DEFINE c == job[t].client
             r == alloc[c].relay
             w == [row[r] EXCEPT !.perms = row[r].perms \cup {ip}]
  <2>1. t \in Threads /\ c \in Clients
    BY <1>6, JobFields DEF add_permission, TypeOK, Threads
  <2>2. CASE Has(c) /\ PermRoom(alloc[c], ip)
    <3>1. Permitted(alloc[c], ip) \in Allocation /\ SameMaps(Permitted(alloc[c], ip), alloc[c])
      BY <1>a, <2>1, <2>2, HelpersShape, HelpersFrame
    <3>2. /\ alloc' = [alloc EXCEPT ![c] = Permitted(alloc[c], ip)]
          /\ row' = [row EXCEPT ![r] = w]
      BY <1>6, <2>2 DEF add_permission
    <3>3. r \in Relays /\ row[r] \in Rows /\ row[r] # None
      BY <1>a, <2>1, <2>2
    <3>4. w \in Rows /\ w.client = row[r].client /\ w.chans = row[r].chans
      BY <3>3 DEF Rows
    <3> HIDE DEF c, r, w
    <3>5. \A e \in Clients : \/ alloc'[e] = alloc[e]
                             \/ Has(e) /\ Has(e)' /\ SameMaps(alloc'[e], alloc[e])
      BY <1>d, <2>1, <2>2, <3>1, <3>2
    <3> QED  BY <1>e, <3>2, <3>3, <3>4, <3>5, BoundFrame
  <2>3. CASE ~(Has(c) /\ PermRoom(alloc[c], ip))
    BY <1>6, <1>c, <2>3 DEF add_permission
  <2> QED  BY <2>2, <2>3
<1>7. ASSUME NEW c \in Clients, NEW ch \in Channels, NEW p \in Peers, add_channel(c, ch, p)
      PROVE  Bound'
  BY <1>7, AddChannelBound
<1>8. ASSUME NEW t \in Workers, NEW c \in Clients, NEW ch \in Channels,
             channel_data_decision(t, c, ch)
      PROVE  Bound'
  BY <1>8, AdmitBound DEF channel_data_decision, Counters
<1>9. ASSUME NEW t \in Workers, NEW c \in Clients, NEW p \in Peers,
             handle_send_indication(t, c, p)
      PROVE  Bound'
  BY <1>9, AdmitBound DEF handle_send_indication, Counters
<1>10. ASSUME NEW t \in Pumps, NEW r \in Relays, NEW p \in Peers, get_by_relay(t, r, p)
       PROVE  Bound'
  BY <1>10, <1>c DEF get_by_relay
<1>11. ASSUME NEW t \in Pumps, process_relay_recv(t) PROVE Bound'
  <2>1. t \in Threads /\ job[t].client \in Clients
    BY <1>11, JobFields DEF process_relay_recv, TypeOK, Threads
  <2> QED  BY <1>11, <1>c, <2>1, AdmitBound DEF process_relay_recv, Counters
<1>12. ASSUME NEW t \in Threads, add_bytes(t) PROVE Bound'
  <2>1. LET c == job[t].client IN
        /\ c \in Clients /\ Has(c) /\ alloc'[c] \in Allocation /\ SameMaps(alloc'[c], alloc[c])
        /\ alloc' = [alloc EXCEPT ![c] = alloc'[c]] /\ row' = row
    BY <1>12, BytesAdded DEF Counters, add_bytes
  <2>2. \A e \in Clients : \/ alloc'[e] = alloc[e]
                           \/ Has(e) /\ Has(e)' /\ SameMaps(alloc'[e], alloc[e])
    BY <1>d, <2>1
  <2> QED  BY <2>1, <2>2, BoundFrame
<1>13. ASSUME NEW t \in Pumps, add_bytes_to_client(t) PROVE Bound'
  <2>1. LET c == job[t].client IN
        /\ c \in Clients /\ Has(c) /\ alloc'[c] \in Allocation /\ SameMaps(alloc'[c], alloc[c])
        /\ alloc' = [alloc EXCEPT ![c] = alloc'[c]] /\ row' = row
    BY <1>13, ShareAdded DEF Counters, add_bytes_to_client, Threads
  <2>2. \A e \in Clients : \/ alloc'[e] = alloc[e]
                           \/ Has(e) /\ Has(e)' /\ SameMaps(alloc'[e], alloc[e])
    BY <1>d, <2>1
  <2> QED  BY <2>1, <2>2, BoundFrame
<1>14. ASSUME NEW c \in Clients, Second(c) PROVE Bound'
  <2> DEFINE a == [alloc[c] EXCEPT !.age = alloc[c].age + 1]
  <2>1. alloc[c] \in Allocation /\ Has(c) /\ alloc[c].age + 1 \in 0..MaxAge
    BY <1>14, <1>a, DataPlaneAssumption DEF Second, Allocation
  <2>2. a \in Allocation /\ SameMaps(a, alloc[c])
    BY <2>1, AllocationUpdates, HelpersFrame
  <2>3. alloc' = [alloc EXCEPT ![c] = a] /\ row' = row
    BY <1>14 DEF Second
  <2> HIDE DEF a
  <2> QED  BY <1>d, <2>1, <2>2, <2>3, BoundFrame
<1>15. ASSUME NEW c \in Clients, NEW ip \in Ips, PermissionEnds(c, ip) PROVE Bound'
  <2> DEFINE a == [alloc[c] EXCEPT !.perms[ip] = "expired"]
  <2>1. alloc[c] \in Allocation /\ Has(c)
    BY <1>15, <1>a DEF PermissionEnds
  <2>2. a \in Allocation /\ SameMaps(a, alloc[c])
    BY <2>1, AllocationUpdates, HelpersFrame DEF Times
  <2>3. alloc' = [alloc EXCEPT ![c] = a] /\ row' = row
    BY <1>15 DEF PermissionEnds
  <2> HIDE DEF a
  <2> QED  BY <1>d, <2>1, <2>2, <2>3, BoundFrame
<1>16. ASSUME NEW r \in Relays, AllocationEnds(r) PROVE Bound'
  <2>1. ASSUME NEW c \in Clients
        PROVE  \/ alloc'[c] = alloc[c]
               \/ Has(c) /\ Has(c)' /\ SameMaps(alloc'[c], alloc[c])
    <3>1. CASE Has(c) /\ alloc[c].relay = r
      <4>1. alloc'[c] = [alloc[c] EXCEPT !.time = "expired"]
        BY <1>16, <3>1 DEF AllocationEnds
      <4>2. alloc[c] \in Allocation
        BY <1>a, <3>1
      <4>3. alloc'[c] \in Allocation
        BY <4>1, <4>2, AllocationUpdates DEF Times
      <4>4. SameMaps(alloc'[c], alloc[c])
        BY <4>1, <4>2, HelpersFrame DEF Times
      <4> QED  BY <1>b, <3>1, <4>3, <4>4
    <3>2. CASE ~(Has(c) /\ alloc[c].relay = r)
      BY <1>16, <3>2 DEF AllocationEnds
    <3> QED  BY <3>1, <3>2
  <2> DEFINE w == [row[r] EXCEPT !.time = "expired"]
  <2>2. row[r] # None /\ row[r] \in Rows /\ row' = [row EXCEPT ![r] = w]
    BY <1>16 DEF AllocationEnds, TypeOK
  <2>3. w \in Rows /\ w.client = row[r].client /\ w.chans = row[r].chans
    BY <2>2 DEF Rows, Times
  <2> HIDE DEF w
  <2> QED  BY <1>e, <2>1, <2>2, <2>3, BoundFrame
<1>17. ASSUME NEW r \in Relays, NEW ch \in Channels, ChannelEnds(r, ch) PROVE Bound'
  BY <1>17, ChannelEndsBound
<1>18. ASSUME Classify PROVE Bound'
  BY <1>18, <1>c DEF Classify
<1>19. ASSUME NEW c \in Clients, Prune(c) PROVE Bound'
  <2>1. CASE Has(c)
    <3> DEFINE a == cleanup_expired_entries(alloc[c])
    <3>1. InverseMaps(alloc[c]) /\ alloc[c] \in Allocation
      BY <1>a, <2>1, BoundPoints
    <3>2. InverseMaps(a) /\ a.relay = alloc[c].relay /\ Kept(a.chans) = Kept(alloc[c].chans)
      BY <3>1, PrunedInverse
    <3>3. row' = row /\ \A d \in Clients : alloc'[d] = IF d = c THEN a ELSE alloc[d]
      BY <1>19, <2>1 DEF Prune, TypeOK
    <3> HIDE DEF a
    <3>4. \A d \in Clients : Has(d)' =>
            /\ row'[alloc'[d].relay] # None /\ row'[alloc'[d].relay].client = d
            /\ InverseMaps(alloc'[d])
            /\ Kept(alloc'[d].chans) = Kept(row'[alloc'[d].relay].chans)
      BY <2>1, <3>2, <3>3, BoundPoints DEF Has
    <3> QED  BY <3>3, <3>4, BoundPoints, BoundAgain
  <2>2. CASE ~Has(c)
    BY <1>19, <1>c, <2>2 DEF Prune
  <2> QED  BY <2>1, <2>2
<1>20. ASSUME Crash PROVE Bound'
  <2>1. row' = row /\ \A c \in Clients : ~Has(c)'
    BY <1>20 DEF Crash, Has
  <2> QED  BY <2>1, BoundPoints, BoundAgain
<1>21. ASSUME Restart PROVE Bound'
  <2>1. row' = row
    BY <1>21 DEF Restart
  <2>2. ASSUME NEW c \in Clients, Has(c)'
        PROVE  /\ row'[alloc'[c].relay] # None /\ row'[alloc'[c].relay].client = c
               /\ InverseMaps(alloc'[c])
               /\ Kept(alloc'[c].chans) = Kept(row'[alloc'[c].relay].chans)
    <3> DEFINE of == {r \in Relays : row[r] # None /\ row[r].client = c /\ row[r].time = "live"}
               s == CHOOSE r \in of : TRUE
    <3>1. alloc'[c] = IF of = {} THEN None ELSE Rehydrated(s)
      BY <1>21 DEF Restart
    <3>2. of # {} /\ alloc'[c] = Rehydrated(s)
      BY <2>2, <3>1 DEF Has
    <3>3. s \in of
      BY <3>2
    <3>4. s \in Relays /\ row[s] # None /\ row[s].client = c /\ row[s] \in Rows
      BY <3>3 DEF TypeOK
    <3> HIDE DEF s, of
    <3>5. InjectiveChans(row[s].chans)
      BY <3>4, BoundPoints
    <3>6. /\ InverseMaps(Rehydrated(s)) /\ Rehydrated(s).relay = s
          /\ Kept(Rehydrated(s).chans) = Kept(row[s].chans)
      BY <3>4, <3>5, RehydratedInverse
    <3> QED  BY <2>1, <3>2, <3>4, <3>6
  <2> QED  BY <2>1, <2>2, BoundPoints, BoundAgain
<1> QED
  BY <1>1, <1>2, <1>3, <1>4, <1>5, <1>6, <1>7, <1>8, <1>9, <1>10, <1>11, <1>12, <1>13,
     <1>14, <1>15, <1>16, <1>17, <1>18, <1>19, <1>20, <1>21
  DEF Next, WorkerNext, PumpNext, ClientNext, TimeNext

-----------------------------------------------------------------------------
(* Theorems *)

\* Nothing is allocated yet.
LEMMA InitInv == Init => IInv
<1> SUFFICES ASSUME Init PROVE IInv
  OBVIOUS
<1>1. \A c \in Clients : ~Has(c) /\ bill[c] = None
  BY DEF Init, Has
<1>2. \A r \in Relays : row[r] = None
  BY DEF Init
<1>3. TypeOK
  <2>1. spent \in [allocs : 0..MaxAllocs, crashes : 0..MaxCrashes]
    BY DataPlaneAssumption DEF Init
  <2> QED  BY <2>1, JobShapes DEF Init, TypeOK, NoSweep
<1>4. \A t \in Threads : job[t].op = "idle"
  BY DEF Init, Idle
<1>5. Counters
  BY <1>1, <1>4 DEF Counters, RefsHeld, Counted, WindowBounded, UsageExact
<1>6. Bound
  BY <1>1, <1>2, BoundPoints
<1> QED  BY <1>3, <1>5, <1>6 DEF IInv

\* A step of no variable.
LEMMA StutterInv == IInv /\ UNCHANGED vars => IInv'
<1> SUFFICES ASSUME IInv, UNCHANGED vars PROVE IInv'
  OBVIOUS
<1>1. TypeOK'
  BY DEF IInv, vars, TypeOK
<1>2. Counters'
  BY CountersFrame DEF IInv, vars, PacketsKept
<1>3. Bound'
  BY BoundFrame DEF IInv, vars
<1> QED  BY <1>1, <1>2, <1>3 DEF IInv

\* The induction: the types need the account (a counter has room for the packet that holds
\* the Ref), the account and the maps need the types.
LEMMA Inductive == Spec => []IInv
<1>1. IInv /\ Next => IInv'
  <2> SUFFICES ASSUME IInv, Next PROVE IInv'
    OBVIOUS
  <2>1. TypeOK'
    BY TypeStep DEF IInv, Counters, Bound
  <2> QED  BY <2>1, CountersStep, BoundStep DEF IInv
<1> QED  BY <1>1, InitInv, StutterInv, PTL DEF Spec

(***************************************************************************)
(* Every field keeps its range: no counter of an allocation passes its     *)
(* bound and no usage record is negative.                                  *)
(***************************************************************************)
THEOREM TypeCorrect == Spec => []TypeOK
<1>1. IInv => TypeOK
  BY DEF IInv
<1> QED  BY <1>1, Inductive, PTL

(***************************************************************************)
(* channels_reverse is the inverse of channel_bindings in every            *)
(* allocation, through ChannelBind, expiry, the sweep's pruning and a      *)
(* restart from the rows.                                                  *)
(***************************************************************************)
THEOREM MapsAreInverse == Spec => []ChannelsInverse
<1>1. IInv => ChannelsInverse
  BY DEF IInv, Bound
<1> QED  BY <1>1, Inductive, PTL

(***************************************************************************)
(* The live channels of an allocation are those a restart would read back  *)
(* from its row, although add_channel overwrites the row by number and the *)
(* sweep never prunes it.                                                  *)
(***************************************************************************)
THEOREM RestartKeepsChannels == Spec => []ChannelsPersisted
<1>1. IInv => ChannelsPersisted
  BY DEF IInv, Bound
<1> QED  BY <1>1, Inductive, PTL

(***************************************************************************)
(* The usage record of a removed allocation splits its bytes exactly by    *)
(* direction: the removal waits for every packet that counted in one       *)
(* counter and not yet in the other.                                       *)
(***************************************************************************)
THEOREM UsageIsExact == Spec => []UsageExact
<1>1. IInv => UsageExact
  BY DEF IInv, Counters
<1> QED  BY <1>1, Inductive, PTL

(***************************************************************************)
(* check_bandwidth lets at most one packet of each thread past a full      *)
(* window, however many workers and pumps there are.                       *)
(***************************************************************************)
THEOREM QuotaHolds == Spec => []QuotaBounded
<1>1. IInv => QuotaBounded
  <2> SUFFICES ASSUME IInv, NEW c \in Clients, Has(c)
               PROVE  alloc[c].win <= Quota + Cardinality(Threads)
    BY DEF QuotaBounded
  <2>1. alloc[c].win + Cardinality(Counting(c)) <= Quota + Cardinality(Threads)
    BY DEF IInv, Counters, WindowBounded, WindowAt
  <2>2. alloc[c].win \in Nat
    BY DataPlaneAssumption DEF IInv, TypeOK, Has, Allocation
  <2>3. Quota \in Nat /\ Cardinality(Threads) \in Nat /\ Cardinality(Counting(c)) \in Nat
    BY DataPlaneAssumption, CountTypes
  <2> QED  BY <2>1, <2>2, <2>3
<1> QED  BY <1>1, Inductive, PTL
==============================================================================
