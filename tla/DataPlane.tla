----------------------------- MODULE DataPlane -----------------------------
(***************************************************************************)
(* The permissions, channel bindings and byte counters inside one          *)
(* allocation, and the packets that read them: add_permission, add_channel *)
(* and cleanup_expired_budget (crates/session/src/lib.rs), and the data    *)
(* path of crates/relay/src/processor.rs (ChannelData, Send indications,   *)
(* datagrams from peers).                                                  *)
(*                                                                         *)
(* A packet holds a DashMap Ref on its allocation from the lookup to the   *)
(* last counter it writes.  Refs are shared: the packets of several        *)
(* workers and of the relay pump overlap, and the counters are atomics     *)
(* they update without a lock.  A RefMut (a new permission or channel, the *)
(* sweep's pruning, the removal) waits until no packet holds the Ref.      *)
(*                                                                         *)
(* Time is abstract: any entry may run out at any moment, and stays in its *)
(* map as expired until it is refreshed or pruned.  Packets have one size, *)
(* and bytes are counted in packets: a Quota of 0 is a quota smaller than  *)
(* one packet (the code's 0, no quota at all, refuses nothing and is not   *)
(* modelled).  Creating and removing an allocation are single steps here:  *)
(* AllocationStore has their detail; WriteBehind has the detail of writing *)
(* the row, which is written at once here.                                 *)
(***************************************************************************)
EXTENDS Integers, FiniteSets

CONSTANTS
  Workers,     \* receive workers: they process what clients send
  Pumps,       \* relay pumps: they process what peers send
  Clients,     \* client addresses
  Relays,      \* relayed addresses
  Ips, Peers,  \* peer IPs and transport addresses
  Channels,    \* channel numbers
  Quota,       \* max_bytes_per_sec_per_allocation, in whole packets
  MaxPerms,    \* MAX_PERMISSIONS_PER_ALLOCATION
  MaxChans,    \* MAX_CHANNELS_PER_ALLOCATION
  MaxPackets,  \* bound: packets of one allocation
  MaxAge,      \* bound: seconds a bandwidth window is told apart
  MaxCrashes,  \* bound: restarts of the node
  MaxAllocs,   \* bound: Allocate requests granted
  IpOf(_),     \* the IP of a peer address
  None

VARIABLES
  alloc,    \* client -> its Allocation
  row,      \* relayed address -> its row in the backend
  job,      \* what each thread is doing
  sweep,    \* cleanup_expired_budget: the clients it classified
  bill,     \* client -> usage record of its last closed allocation
  up,       \* the node is serving
  spent     \* allocations granted and crashes so far (bounds)

vars == <<alloc, row, job, sweep, bill, up, spent>>

Threads == Workers \cup Pumps

Times == {"live", "expired"}

Bindings == [peer : Peers, time : Times]

Usage == [from : 0..MaxPackets, to : 0..MaxPackets]

\* total, share: bytes_relayed and bytes_to_client; win: bandwidth_window_bytes;
\* age: seconds since bandwidth_window_start; passed: the packets of each
\* direction that passed every check of the data path (history).
Allocation ==
  [relay : Relays, time : Times,
   perms : [Ips -> Times \cup {None}],
   chans : [Channels -> Bindings \cup {None}],
   rev   : [Peers -> Channels \cup {None}],
   total : 0..MaxPackets, share : 0..MaxPackets,
   win   : 0..MaxPackets, age : 0..MaxAge, passed : Usage]

\* StoredAllocation: permissions are IPs without an expiry.
Rows == [client : Clients, time : Times, perms : SUBSET Ips,
         chans : [Channels -> Bindings \cup {None}]]

Idle == [op |-> "idle"]

Jobs ==
  {Idle}
    \cup [op : {"perm"}, client : Clients, rest : SUBSET Ips]
    \cup [op : {"found"}, client : Clients, relay : Relays, peer : Peers]
    \cup [op : {"out", "in", "share"}, client : Clients]

NoSweep == [stale |-> {}, expired |-> {}]

ASSUME DataPlaneAssumption ==
  /\ IsFiniteSet(Workers) /\ IsFiniteSet(Pumps)
  /\ \A p \in Peers : IpOf(p) \in Ips
  /\ Quota \in Nat
  /\ MaxPackets \in Nat /\ MaxAge \in Nat /\ MaxCrashes \in Nat /\ MaxAllocs \in Nat
  /\ None \notin Times /\ None \notin Channels
  /\ None \notin Bindings /\ None \notin Allocation /\ None \notin Rows

Init ==
  /\ alloc = [c \in Clients |-> None]
  /\ row = [r \in Relays |-> None]
  /\ job = [t \in Threads |-> Idle]
  /\ sweep = NoSweep
  /\ bill = [c \in Clients |-> None]
  /\ up = TRUE
  /\ spent = [allocs |-> 0, crashes |-> 0]

-----------------------------------------------------------------------------
(* The allocation's own methods *)

Has(c) == alloc[c] # None

\* The Ref is dropped before the direction share is counted.
ReadersEarly(c) == {t \in Threads : job[t].op \in {"out", "in"} /\ job[t].client = c}

\* The packets that hold a Ref on c's allocation.
Readers(c) == {t \in Threads : job[t].op \in {"out", "in", "share"} /\ job[t].client = c}

\* get_mut waits for the Refs.
Writable(c) == Readers(c) = {}

Known(m) == {x \in DOMAIN m : m[x] # None}

has_permission(a, p) == a.perms[IpOf(p)] = "live"

get_channel_peer(a, ch) == a.chans[ch] # None /\ a.chans[ch].time = "live"

\* check_bandwidth: what the window shows per second.
Rate(a) == IF a.age = 0 THEN a.win ELSE a.win \div a.age

\* Only a completed window is enforced.
ExceededRolled(a) == a.age # 0 /\ Rate(a) > Quota

Exceeded(a) == Rate(a) > Quota

\* check_bandwidth rolls a window that is a second old.
Rolled(a) == IF a.age = 0 THEN a ELSE [a EXCEPT !.win = 0, !.age = 0]

StaleChans(a) == {ch \in Known(a.chans) : a.chans[ch].time = "expired"}

has_stale_entries(a) == StaleChans(a) # {} \/ \E ip \in Ips : a.perms[ip] = "expired"

\* A pruned binding leaves its peer in the reverse map.
CleanupForward(a) ==
  [a EXCEPT !.perms = [ip \in Ips |-> IF @[ip] = "expired" THEN None ELSE @[ip]],
            !.chans = [ch \in Channels |-> IF ch \in StaleChans(a) THEN None ELSE @[ch]]]

cleanup_expired_entries(a) ==
  LET gone == {a.chans[ch].peer : ch \in StaleChans(a)}
  IN  [a EXCEPT !.perms = [ip \in Ips |-> IF @[ip] = "expired" THEN None ELSE @[ip]],
                !.chans = [ch \in Channels |-> IF ch \in StaleChans(a) THEN None ELSE @[ch]],
                !.rev   = [p \in Peers |-> IF p \in gone THEN None ELSE @[p]]]

Permitted(a, ip) == [a EXCEPT !.perms[ip] = "live"]

\* A stored channel is kept, not overwritten.
StoredOnce(stored, ch, p) ==
  IF stored[ch] = None THEN [stored EXCEPT ![ch] = [peer |-> p, time |-> "live"]] ELSE stored

\* A row's entry is overwritten by channel number.
StoredChans(stored, ch, p) == [stored EXCEPT ![ch] = [peer |-> p, time |-> "live"]]

-----------------------------------------------------------------------------
(* Allocations come and go *)

Allocate(c, r) ==
  /\ up
  /\ ~Has(c)
  /\ \A d \in Clients : Has(d) => alloc[d].relay # r
  /\ spent.allocs < MaxAllocs
  /\ alloc' = [alloc EXCEPT ![c] =
       [relay |-> r, time |-> "live", perms |-> [ip \in Ips |-> None],
        chans |-> [ch \in Channels |-> None], rev |-> [p \in Peers |-> None],
        total |-> 0, share |-> 0, win |-> 0, age |-> 0,
        passed |-> [from |-> 0, to |-> 0]]]
  /\ row' = [row EXCEPT ![r] = [client |-> c, time |-> "live", perms |-> {},
                                chans |-> [ch \in Channels |-> None]]]
  /\ spent' = [spent EXCEPT !.allocs = @ + 1]
  /\ UNCHANGED <<job, sweep, bill, up>>

Refresh(c) ==
  /\ Has(c)
  /\ Writable(c)
  /\ alloc' = [alloc EXCEPT ![c].time = "live"]
  /\ row' = [row EXCEPT ![alloc[c].relay].time = "live"]
  /\ UNCHANGED <<job, sweep, bill, up, spent>>

\* The difference of the two counters is taken the wrong way round.
ReportedSwapped(a) == [from |-> a.share - a.total, to |-> a.share]

\* What usage() reports of an allocation.
Reported(a) == [from |-> a.total - a.share, to |-> a.share]

\* AllocationStore::remove: the usage record is cut from the removed value.
Removed(c) ==
  /\ alloc' = [alloc EXCEPT ![c] = None]
  /\ row' = [row EXCEPT ![alloc[c].relay] = None]
  /\ bill' = [bill EXCEPT ![c] = [usage |-> Reported(alloc[c]), passed |-> alloc[c].passed]]

Release(c) ==
  /\ Has(c)
  /\ Writable(c)
  /\ Removed(c)
  /\ UNCHANGED <<job, sweep, up, spent>>

-----------------------------------------------------------------------------
(* CreatePermission and ChannelBind *)

\* handle_create_permission: the request passed its checks; its peers are then
\* added one call at a time.
CreatePermission(t, c, ips) ==
  /\ job[t] = Idle
  /\ job' = [job EXCEPT ![t] = [op |-> "perm", client |-> c, rest |-> ips]]
  /\ UNCHANGED <<alloc, row, sweep, bill, up, spent>>

\* B5: only a new IP counts against the bound.
PermRoom(a, ip) == ip \in Known(a.perms) \/ Cardinality(Known(a.perms)) < MaxPerms

\* One call of add_permission. A refusal (437, 486) ends the request and keeps
\* what earlier calls added.
add_permission(t, ip) ==
  LET c == job[t].client IN
  /\ job[t].op = "perm"
  /\ ip \in job[t].rest
  /\ Writable(c)
  /\ \/ /\ Has(c)
        /\ PermRoom(alloc[c], ip)
        /\ alloc' = [alloc EXCEPT ![c] = Permitted(@, ip)]
        /\ row' = [row EXCEPT ![alloc[c].relay].perms = @ \cup {ip}]
        /\ job' = [job EXCEPT ![t] = IF @.rest = {ip} THEN Idle
                                     ELSE [@ EXCEPT !.rest = job[t].rest \ {ip}]]
     \/ /\ ~(Has(c) /\ PermRoom(alloc[c], ip))
        /\ job' = [job EXCEPT ![t] = Idle]
        /\ UNCHANGED <<alloc, row>>
  /\ UNCHANGED <<sweep, bill, up, spent>>

\* RFC 8656 uniqueness, and B5 for a new channel. An entry that expired but is
\* not pruned yet still counts.
MayBind(a, ch, p) ==
  /\ ch \in Known(a.chans) => a.chans[ch].peer = p
  /\ p \in Known(a.rev) => a.rev[p] = ch
  /\ ch \in Known(a.chans) \/ Cardinality(Known(a.chans)) < MaxChans

\* ChannelBind; the permission it implies is not counted against MaxPerms.
add_channel(c, ch, p) ==
  /\ Has(c)
  /\ Writable(c)
  /\ MayBind(alloc[c], ch, p)
  /\ alloc' = [alloc EXCEPT ![c] =
       IF ch \in Known(@.chans)
       THEN [Permitted(@, IpOf(p)) EXCEPT !.chans[ch].time = "live"]
       ELSE [Permitted(@, IpOf(p)) EXCEPT !.chans[ch] = [peer |-> p, time |-> "live"],
                                          !.rev[p] = ch]]
  /\ row' = [row EXCEPT ![alloc[c].relay].perms = @ \cup {IpOf(p)},
                        ![alloc[c].relay].chans = StoredChans(@, ch, p)]
  /\ UNCHANGED <<job, sweep, bill, up, spent>>

-----------------------------------------------------------------------------
(* Packets *)

Room(c) == alloc[c].total + Cardinality(Readers(c)) < MaxPackets

\* One more packet of its direction passed.
Passed(a, dir) ==
  IF dir = "out" THEN [a EXCEPT !.passed.from = @ + 1] ELSE [a EXCEPT !.passed.to = @ + 1]

\* A packet that passed its lookups reads the window; it goes on to the
\* counters or is dropped (quota, or the node's capacity cap).
Admit(t, c, dir) ==
  /\ Has(c)
  /\ alloc[c].time = "live"
  /\ \/ /\ ~Exceeded(alloc[c])
        /\ Room(c)
        /\ alloc' = [alloc EXCEPT ![c] = Passed(Rolled(@), dir)]
        /\ job' = [job EXCEPT ![t] = [op |-> dir, client |-> c]]
     \/ /\ alloc' = [alloc EXCEPT ![c] = Rolled(@)]
        /\ job' = [job EXCEPT ![t] = Idle]
  /\ UNCHANGED <<row, sweep, bill, up, spent>>

channel_data_decision(t, c, ch) ==
  /\ job[t] = Idle
  /\ Has(c) /\ get_channel_peer(alloc[c], ch)
  /\ Admit(t, c, "out")

handle_send_indication(t, c, p) ==
  /\ job[t] = Idle
  /\ Has(c) /\ has_permission(alloc[c], p)
  /\ Admit(t, c, "out")

\* process_relay_recv finds the client of the relayed address first ...
get_by_relay(t, r, p) ==
  /\ job[t] = Idle
  /\ \E c \in Clients :
       /\ Has(c) /\ alloc[c].relay = r
       /\ job' = [job EXCEPT ![t] = [op |-> "found", client |-> c, relay |-> r, peer |-> p]]
  /\ UNCHANGED <<alloc, row, sweep, bill, up, spent>>

\* ... and then that client's allocation, whatever it is by now.
process_relay_recv(t) ==
  LET c == job[t].client IN
  /\ job[t].op = "found"
  /\ \/ /\ Has(c) /\ has_permission(alloc[c], job[t].peer)
        /\ Admit(t, c, "in")
     \/ /\ ~(Has(c) /\ alloc[c].time = "live" /\ has_permission(alloc[c], job[t].peer))
        /\ job' = [job EXCEPT ![t] = Idle]
        /\ UNCHANGED <<alloc, row, sweep, bill, up, spent>>

\* add_bytes: the totals and the window. The client's packet is then queued for
\* its peer, or dropped when the queue is full: the count stays.
add_bytes(t) ==
  LET c == job[t].client IN
  /\ job[t].op \in {"out", "in"}
  /\ alloc' = [alloc EXCEPT ![c].total = @ + 1, ![c].win = @ + 1]
  /\ job' = [job EXCEPT ![t] = IF @.op = "out" THEN Idle ELSE [@ EXCEPT !.op = "share"]]
  /\ UNCHANGED <<row, sweep, bill, up, spent>>

\* add_bytes_to_client: the direction share. The peer's packet is then encoded
\* and put in the client's sink, or dropped when that fails: the count stays.
add_bytes_to_client(t) ==
  LET c == job[t].client IN
  /\ job[t].op = "share"
  /\ job' = [job EXCEPT ![t] = Idle]
  /\ alloc' = [alloc EXCEPT ![c].share = @ + 1]
  /\ UNCHANGED <<row, sweep, bill, up, spent>>

-----------------------------------------------------------------------------
(* Time and the sweep *)

\* A second passes for the bandwidth window.
Second(c) ==
  /\ Has(c)
  /\ alloc[c].age < MaxAge
  /\ alloc' = [alloc EXCEPT ![c].age = @ + 1]
  /\ UNCHANGED <<row, job, sweep, bill, up, spent>>

\* An allocation and its row carry the same expiry, on one wall clock, and so
\* do a binding and its stored copy.
AllocationEnds(r) ==
  /\ row[r] # None
  /\ row' = [row EXCEPT ![r].time = "expired"]
  /\ alloc' = [c \in Clients |-> IF Has(c) /\ alloc[c].relay = r
                                 THEN [alloc[c] EXCEPT !.time = "expired"] ELSE alloc[c]]
  /\ UNCHANGED <<job, sweep, bill, up, spent>>

ChannelEnds(r, ch) ==
  /\ row[r] # None /\ ch \in Known(row[r].chans)
  /\ row' = [row EXCEPT ![r].chans[ch].time = "expired"]
  /\ alloc' = [c \in Clients |->
       IF Has(c) /\ alloc[c].relay = r /\ ch \in Known(alloc[c].chans)
       THEN [alloc[c] EXCEPT !.chans[ch].time = "expired"] ELSE alloc[c]]
  /\ UNCHANGED <<job, sweep, bill, up, spent>>

PermissionEnds(c, ip) ==
  /\ Has(c) /\ alloc[c].perms[ip] = "live"
  /\ alloc' = [alloc EXCEPT ![c].perms[ip] = "expired"]
  /\ UNCHANGED <<row, job, sweep, bill, up, spent>>

\* cleanup_expired_budget, pass 1: short read locks.
Classify ==
  LET expired == {c \in Clients : Has(c) /\ alloc[c].time = "expired"}
      stale   == {c \in Clients \ expired : Has(c) /\ has_stale_entries(alloc[c])}
  IN  /\ sweep = NoSweep
      /\ expired \cup stale # {}
      /\ sweep' = [stale |-> stale, expired |-> expired]
      /\ UNCHANGED <<alloc, row, job, bill, up, spent>>

\* Pass 2: prune one allocation that is still there.
Prune(c) ==
  /\ c \in sweep.stale
  /\ Writable(c)
  /\ alloc' = IF Has(c) THEN [alloc EXCEPT ![c] = cleanup_expired_entries(@)] ELSE alloc
  /\ sweep' = [sweep EXCEPT !.stale = @ \ {c}]
  /\ UNCHANGED <<row, job, bill, up, spent>>

\* Pass 3: remove one allocation that is still expired.
Sweep(c) ==
  /\ sweep.stale = {}
  /\ c \in sweep.expired
  /\ Writable(c)
  /\ sweep' = [sweep EXCEPT !.expired = @ \ {c}]
  /\ IF Has(c) /\ alloc[c].time = "expired"
     THEN Removed(c)
     ELSE UNCHANGED <<alloc, row, bill>>
  /\ UNCHANGED <<job, up, spent>>

-----------------------------------------------------------------------------
(* Restart *)

Crash ==
  /\ up
  /\ spent.crashes < MaxCrashes
  /\ up' = FALSE
  /\ alloc' = [c \in Clients |-> None]
  /\ job' = [t \in Threads |-> Idle]
  /\ sweep' = NoSweep
  /\ bill' = [c \in Clients |-> None]
  /\ spent' = [spent EXCEPT !.crashes = @ + 1]
  /\ UNCHANGED row

\* rehydrate skips the channels whose stored expiry has passed.
Kept(stored) ==
  [ch \in Channels |-> IF stored[ch] # None /\ stored[ch].time = "live"
                       THEN stored[ch] ELSE None]

\* chans_reverse is filled by the same loop; the last of two entries would win.
Reversed(chans) ==
  [p \in Peers |->
     LET of == {ch \in Known(chans) : chans[ch].peer = p}
     IN  IF of = {} THEN None ELSE CHOOSE ch \in of : TRUE]

\* apply_one and rehydrate: every stored IP gets a fresh permission.
Rehydrated(r) ==
  LET chans == Kept(row[r].chans)
  IN  [relay |-> r, time |-> "live",
       perms |-> [ip \in Ips |-> IF ip \in row[r].perms THEN "live" ELSE None],
       chans |-> chans, rev |-> Reversed(chans),
       total |-> 0, share |-> 0, win |-> 0, age |-> 0,
        passed |-> [from |-> 0, to |-> 0]]

\* bulk_load runs before the node serves; a row that expired is skipped and stays.
Restart ==
  /\ ~up
  /\ up' = TRUE
  /\ alloc' = [c \in Clients |->
       LET of == {r \in Relays : row[r] # None /\ row[r].client = c /\ row[r].time = "live"}
       IN  IF of = {} THEN None ELSE Rehydrated(CHOOSE r \in of : TRUE)]
  /\ UNCHANGED <<row, job, sweep, bill, spent>>

-----------------------------------------------------------------------------
WorkerNext(t) ==
  \/ \E c \in Clients, ips \in SUBSET Ips \ {{}} : CreatePermission(t, c, ips)
  \/ \E ip \in Ips : add_permission(t, ip)
  \/ \E c \in Clients, ch \in Channels : channel_data_decision(t, c, ch)
  \/ \E c \in Clients, p \in Peers : handle_send_indication(t, c, p)

PumpNext(t) ==
  \/ \E r \in Relays, p \in Peers : get_by_relay(t, r, p)
  \/ process_relay_recv(t)
  \/ add_bytes_to_client(t)

ClientNext(c) ==
  \/ \E r \in Relays : Allocate(c, r)
  \/ Refresh(c)
  \/ Release(c)
  \/ \E ch \in Channels, p \in Peers : add_channel(c, ch, p)

TimeNext(c) ==
  \/ Second(c)
  \/ \E ip \in Ips : PermissionEnds(c, ip)

Next ==
  \/ \E t \in Workers : WorkerNext(t)
  \/ \E t \in Pumps : PumpNext(t)
  \/ \E t \in Threads : add_bytes(t)
  \/ \E c \in Clients : ClientNext(c) \/ TimeNext(c) \/ Prune(c) \/ Sweep(c)
  \/ \E r \in Relays : AllocationEnds(r) \/ \E ch \in Channels : ChannelEnds(r, ch)
  \/ Classify
  \/ Crash
  \/ Restart

Spec == Init /\ [][Next]_vars

-----------------------------------------------------------------------------
(* Properties *)

(***************************************************************************)
(* Every field keeps its range; no counter passes its bound.               *)
(***************************************************************************)
TypeOK ==
  /\ alloc \in [Clients -> Allocation \cup {None}]
  /\ row \in [Relays -> Rows \cup {None}]
  /\ job \in [Threads -> Jobs]
  /\ sweep \in [stale : SUBSET Clients, expired : SUBSET Clients]
  /\ bill \in [Clients -> [usage : Usage, passed : Usage] \cup {None}]
  /\ up \in BOOLEAN
  /\ spent \in [allocs : 0..MaxAllocs, crashes : 0..MaxCrashes]

(***************************************************************************)
(* channels_reverse is the inverse of channel_bindings, through binding,   *)
(* expiry, pruning and restart: no peer has two channels, and no peer is   *)
(* left pointing at a channel it lost (which would refuse it for ever).    *)
(***************************************************************************)
ChannelsInverse ==
  \A c \in Clients : Has(c) =>
    \A ch \in Channels, p \in Peers :
      (alloc[c].chans[ch] # None /\ alloc[c].chans[ch].peer = p) <=> alloc[c].rev[p] = ch

(***************************************************************************)
(* A restart brings back the bindings the client believes in: the live     *)
(* channels of an allocation are those its row would give, although the    *)
(* row is never pruned.                                                    *)
(***************************************************************************)
ChannelsPersisted ==
  \A c \in Clients : Has(c) =>
    Kept(alloc[c].chans) = Kept(row[alloc[c].relay].chans)

(***************************************************************************)
(* The usage record of a closed allocation has every packet that passed    *)
(* the checks of its direction, once and in that direction, although a     *)
(* packet is checked first, updates two counters one after the other, and  *)
(* the allocation may be closing.  It does not say that the packet left: a *)
(* queue or sink that is full drops packets already counted.               *)
(***************************************************************************)
UsageExact == \A c \in Clients : bill[c] # None => bill[c].usage = bill[c].passed

(***************************************************************************)
(* Packets that checked the quota together overshoot it by at most one     *)
(* packet each.                                                            *)
(***************************************************************************)
QuotaBounded ==
  \A c \in Clients : Has(c) => alloc[c].win <= Quota + Cardinality(Threads)
=============================================================================
