---------------------------- MODULE TcpRelayProofs ----------------------------
(***************************************************************************)
(* For every set of clients, keys, peers and ports, and any number of      *)
(* bridges: a peer's stream reaches only the key it was opened for, and a  *)
(* TCP allocation never outlives the close of its client's connection.     *)
(***************************************************************************)
EXTENDS TcpRelay, FiniteSetTheorems, TLAPS

Positive == Nat \ {0}

Steps == {"dial", "insert", "index", "tell", "unindex", "restore", "clean"}

\* A registration that has drawn its id.
Numbered == {"index", "tell", "unindex", "restore"}

JobRecords == [step : Steps, port : Ports, peer : Peers \cup {None},
               owner : Keys \cup {None}, id : Positive \cup {None}, ids : SUBSET Ids]

ListenerRecords ==
    [client : Clients, aborted : BOOLEAN, job : JobRecords \cup {None}]

ConnRecords == [st : {"waiting", "claimed", "bound"}, port : Ports,
                peer : Peers \cup {None}, owner : Keys \cup {None}]

AttachRecords == [id : Positive, key : Keys, port : Ports, peer : Peers \cup {None},
                  owner : Keys \cup {None}, client : Clients \cup {None}]

RelayRecords == [id : Positive, port : Ports, peer : Peers \cup {None},
                 owner : Keys \cup {None}, key : Keys, client : Clients \cup {None},
                 ended : BOOLEAN]

\* The shape of the records, which TypeOK leaves open.
Shapes ==
    /\ live \in [Clients -> Nat] /\ sinks \subseteq Clients /\ opens \in [Clients -> Nat]
    /\ waiting \subseteq [client : Clients, conn : Positive, ready : BOOLEAN]
    /\ alloc \in [Clients -> Ports \cup {None}]
    /\ lstn \in [Ports -> ListenerRecords \cup {None}]
    /\ job \in [Bridges -> JobRecords \cup {None}]
    /\ conns \in [Ids -> ConnRecords \cup {None}]
    /\ index \in [Ports \X Peers -> Positive \cup {None}]
    /\ nextId \in Positive /\ timers \subseteq Positive
    /\ handoff \subseteq [bridge : Bridges, id : Ids, key : Keys, client : Clients \cup {None}]
    /\ attach \in [Bridges -> AttachRecords \cup {None}]
    /\ relays \subseteq RelayRecords

\* An id that is in use anywhere was given out before.
TableIds ==
    /\ \A id \in Ids : conns[id] # None => id < nextId
    /\ \A id \in timers : id < nextId
    /\ \A a \in Ports \X Peers : index[a] # None => index[a] \in 1 .. nextId - 1
    /\ \A h \in handoff : h.id < nextId
    /\ \A b \in Bridges : attach[b] # None => attach[b].id < nextId

JobIds ==
    \A b \in Bridges :
        job[b] # None /\ job[b].step \in Numbered => job[b].id \in 1 .. nextId - 1

ListenerIds ==
    \A p \in Ports :
        lstn[p] # None /\ lstn[p].job # None /\ lstn[p].job.step \in Numbered
          => lstn[p].job.id \in 1 .. nextId - 1

IdsGiven == TableIds /\ JobIds /\ ListenerIds

\* A connection is numbered by its client's count of opens and has its sink, and so has
\* an allocation.
Connected ==
    /\ \A c \in Clients : live[c] \in {0, opens[c]} /\ opens[c] <= MaxOpens[c]
    /\ \A c \in Clients : live[c] # 0 => c \in sinks
    /\ ReleasedOnClose

\* A claim is never undone: what a hand-off names is gone, claimed by its key or bound.
Owned ==
    /\ \A h \in handoff :
         conns[h.id] # None => /\ conns[h.id].st # "waiting"
                               /\ conns[h.id].st = "claimed" => conns[h.id].owner = h.key
    /\ \A b \in Bridges : attach[b] # None => attach[b].key = attach[b].owner
    /\ OwnerOnly

\* The registrations under way fit into the ids that are left.
IdsLeft == nextId + Underway <= MaxIds + 1

IInv == Shapes /\ IdsGiven /\ Connected /\ Owned /\ IdsLeft

----------------------------------------------------------------------------
(* Records and tables *)

\* A handler that goes on is still a handler.
LEMMA JobUpdates ==
  ASSUME NEW j \in JobRecords, NEW s \in Steps, NEW n \in Positive
  PROVE  /\ [j EXCEPT !.step = s] \in JobRecords
         /\ [j EXCEPT !.step = s, !.id = n] \in JobRecords
  BY DEF JobRecords

\* A fresh handler, and one that cleans up.
LEMMA JobShape ==
  ASSUME NEW s \in Steps, NEW p \in Ports, NEW q \in Peers \cup {None},
         NEW k \in Keys \cup {None}, NEW ids \in SUBSET Ids
  PROVE  /\ Job(s, p, q, k) \in JobRecords
         /\ [Job(s, p, q, k) EXCEPT !.ids = ids] \in JobRecords
  BY DEF JobRecords, Job

\* A listener that is aborted or handles a peer is still a listener.
LEMMA ListenerUpdates ==
  ASSUME NEW l \in ListenerRecords
  PROVE  /\ [l EXCEPT !.aborted = TRUE] \in ListenerRecords
         /\ \A j \in JobRecords \cup {None} : [l EXCEPT !.job = j] \in ListenerRecords
  BY DEF ListenerRecords

\* CloseRelay leaves a table of listeners behind.
LEMMA AbortedShape ==
  ASSUME lstn \in [Ports -> ListenerRecords \cup {None}], NEW p \in Ports
  PROVE  Aborted(p) \in [Ports -> ListenerRecords \cup {None}]
  BY ListenerUpdates DEF Aborted

\* A listener that accepts again is in shape.
LEMMA AcceptAgainShape ==
  ASSUME lstn \in [Ports -> ListenerRecords \cup {None}], NEW p \in Ports,
         lstn[p] # None, AcceptAgain(p)
  PROVE  lstn' \in [Ports -> ListenerRecords \cup {None}]
<1>1. lstn[p] \in ListenerRecords
  OBVIOUS
<1>2. [lstn[p] EXCEPT !.job = None] \in ListenerRecords
  BY <1>1, ListenerUpdates
<1> QED  BY <1>2 DEF AcceptAgain

\* So is one whose handler takes a step.
LEMMA HandlerShape ==
  ASSUME lstn \in [Ports -> ListenerRecords \cup {None}], NEW p \in Ports,
         lstn[p] # None, lstn[p].job # None,
         NEW s \in Steps, NEW n \in Positive
  PROVE  /\ [lstn EXCEPT ![p].job.step = s]
              \in [Ports -> ListenerRecords \cup {None}]
         /\ [lstn EXCEPT ![p].job.step = s, ![p].job.id = n]
              \in [Ports -> ListenerRecords \cup {None}]
<1> DEFINE l == lstn[p]
           j == lstn[p].job
           k == [j EXCEPT !.step = s, !.id = n]
<1>1. l \in ListenerRecords /\ j \in JobRecords
  BY DEF ListenerRecords
<1>2. [j EXCEPT !.step = s] \in JobRecords /\ k \in JobRecords
  BY <1>1, JobUpdates
<1>3. [l EXCEPT !.job = [j EXCEPT !.step = s]] \in ListenerRecords
  BY <1>1, <1>2, ListenerUpdates
<1>4. [l EXCEPT !.job = k] \in ListenerRecords
  BY <1>1, <1>2, ListenerUpdates
<1>5. [lstn EXCEPT ![p].job.step = s]
        = [lstn EXCEPT ![p] = [l EXCEPT !.job = [j EXCEPT !.step = s]]]
  OBVIOUS
<1>6. [lstn EXCEPT ![p].job.step = s, ![p].job.id = n]
        = [lstn EXCEPT ![p] = [l EXCEPT !.job = k]]
  BY <1>1 DEF ListenerRecords, JobRecords
<1> HIDE DEF l, j, k
<1> QED  BY <1>3, <1>4, <1>5, <1>6

\* Every step keeps the tables in shape.
LEMMA ShapesStep == Shapes /\ IdsGiven /\ Next => Shapes'
<1> SUFFICES ASSUME Shapes, IdsGiven, Next PROVE Shapes'
  OBVIOUS
<1> DEFINE Listeners == [Ports -> ListenerRecords \cup {None}]
           Jobs == [Bridges -> JobRecords \cup {None}]
<1>s. Steps = {"dial", "insert", "index", "tell", "unindex", "restore", "clean"}
  BY DEF Steps
<1> USE DEF Shapes, Positive, front, manager, splice
<1>1. ASSUME NEW c \in Clients, Open(c) PROVE Shapes'
  BY <1>1 DEF Open
<1>2. ASSUME NEW c \in Clients, Close(c) PROVE Shapes'
  <2>1. IdsOf(alloc[c]) \in SUBSET Ids
    BY DEF IdsOf, Sockets
  <2>2. alloc[c] # None => Aborted(alloc[c]) \in Listeners
    BY AbortedShape
  <2>3. alloc[c] # None =>
          [Job("clean", alloc[c], None, None) EXCEPT !.ids = IdsOf(alloc[c])] \in JobRecords
    BY <1>s, <2>1, JobShape
  <2>4. Bridge[c] \in Bridges
    BY DEF Bridges
  <2>5. lstn' \in Listeners /\ job' \in Jobs
    BY <1>2, <2>2, <2>3, <2>4 DEF Close
  <2> QED  BY <1>2, <2>5 DEF Close
<1>3. ASSUME NEW c \in Clients, Allocated(c)
      PROVE  alloc' \in [Clients -> Ports \cup {None}] /\ lstn' \in Listeners
  <2>1. [client |-> c, aborted |-> FALSE, job |-> None] \in ListenerRecords
    BY DEF ListenerRecords
  <2>2. PICK p \in Ports :
          /\ alloc' = [alloc EXCEPT ![c] = p]
          /\ \/ lstn' = [lstn EXCEPT ![p] = [client |-> c, aborted |-> FALSE, job |-> None]]
             \/ UNCHANGED lstn
    BY <1>3 DEF Allocated
  <2>3. lstn' \in Listeners
    BY <2>1, <2>2
  <2> QED  BY <2>2, <2>3
<1>4. ASSUME NEW c \in Clients, Allocate(c) PROVE Shapes'
  <2>1. alloc' \in [Clients -> Ports \cup {None}] /\ lstn' \in Listeners
    BY <1>3, <1>4 DEF Allocate
  <2> QED  BY <1>4, <2>1 DEF Allocate
<1>5. ASSUME NEW c \in Clients, Park(c) PROVE Shapes'
  <2>1. [client |-> c, conn |-> live[c], ready |-> FALSE]
          \in [client : Clients, conn : Positive, ready : BOOLEAN]
    BY <1>5 DEF Park
  <2> QED  BY <1>5, <2>1 DEF Park
<1>6. ASSUME NEW c \in Clients, Refresh0(c) PROVE Shapes'
  <2>1. Aborted(alloc[c]) \in Listeners
    BY <1>6, AbortedShape DEF Refresh0
  <2> QED  BY <1>6, <2>1 DEF Refresh0
<1>7. ASSUME NEW c \in Clients, Expire(c) PROVE Shapes'
  BY <1>7 DEF Expire
<1>8. ASSUME NEW c \in Clients, Connect(c) PROVE Shapes'
  <2>1. Bridge[c] \in Bridges /\ alloc[c] \in Ports /\ Key[c] \in Keys
    BY <1>8, TcpRelayAssumption DEF Bridges, Connect
  <2>2. \A peer \in Peers : Job("dial", alloc[c], peer, Key[c]) \in JobRecords
    BY <1>s, <2>1, JobShape
  <2>3. job' \in Jobs
    BY <1>8, <2>1, <2>2 DEF Connect
  <2> QED  BY <1>8, <2>3 DEF Connect
<1>9. ASSUME NEW w \in waiting, Reinject(w) PROVE Shapes'
  <2>1. waiting' \subseteq [client : Clients, conn : Positive, ready : BOOLEAN]
    BY <1>9 DEF Reinject
  <2> QED  BY <1>9, <2>1 DEF Reinject
<1>10. ASSUME NEW w \in waiting, Retry(w) PROVE Shapes'
  <2>1. w.client \in Clients
    OBVIOUS
  <2>2. alloc' \in [Clients -> Ports \cup {None}] /\ lstn' \in Listeners
    BY <1>3, <1>10, <2>1 DEF Retry
  <2> QED  BY <1>10, <2>2 DEF Retry
<1>11. ASSUME NEW b \in Bridges, Dialled(b) PROVE Shapes'
  <2>1. [job[b] EXCEPT !.step = "insert"] \in JobRecords
    BY <1>11, <1>s, JobUpdates DEF Dialled
  <2>2. job' \in Jobs
    BY <1>11, <2>1 DEF Dialled
  <2> QED  BY <1>11, <2>2 DEF Dialled
<1>12. ASSUME NEW j \in JobRecords, Inserted(j)
       PROVE  conns' \in [Ids -> ConnRecords \cup {None}] /\ nextId' \in Positive
  <2>1. [st |-> "waiting", port |-> j.port, peer |-> j.peer, owner |-> j.owner]
          \in ConnRecords
    BY DEF JobRecords, ConnRecords
  <2>2. conns' \in [Ids -> ConnRecords \cup {None}]
    BY <1>12, <2>1 DEF Inserted
  <2>3. nextId' \in Positive
    BY <1>12 DEF Inserted
  <2> QED  BY <2>2, <2>3
<1>13. ASSUME NEW j \in JobRecords, Indexed(j), j.id \in Positive
       PROVE  /\ index' \in [Ports \X Peers -> Positive \cup {None}]
              /\ timers' \subseteq Positive
  <2>1. index' \in [Ports \X Peers -> Positive \cup {None}]
    BY <1>13 DEF Indexed
  <2> QED  BY <1>13, <2>1 DEF Indexed
<1>14. ASSUME NEW b \in Bridges, BridgeInsert(b) PROVE Shapes'
  <2>1. job[b] \in JobRecords /\ Inserted(job[b])
    BY <1>14 DEF BridgeInsert
  <2>2. conns' \in [Ids -> ConnRecords \cup {None}] /\ nextId' \in Positive
    BY <1>12, <2>1
  <2>3. [job[b] EXCEPT !.step = "index", !.id = nextId] \in JobRecords
    BY <1>s, <2>1, JobUpdates
  <2>4. job' \in Jobs
    BY <1>14, <2>1, <2>3 DEF BridgeInsert
  <2> QED  BY <1>14, <2>2, <2>4 DEF BridgeInsert, Inserted
<1>15. ASSUME NEW b \in Bridges, BridgeIndex(b) PROVE Shapes'
  <2>1. job[b] \in JobRecords /\ job[b].id \in Positive /\ Indexed(job[b])
    BY <1>15 DEF BridgeIndex, Indexed, IdsGiven, JobIds, Numbered
  <2>2. /\ index' \in [Ports \X Peers -> Positive \cup {None}]
        /\ timers' \subseteq Positive
    BY <1>13, <2>1
  <2> QED  BY <1>15, <2>2 DEF BridgeIndex, Indexed
<1>16. ASSUME NEW b \in Bridges, BridgeClean(b) PROVE Shapes'
  BY <1>16 DEF BridgeClean, Cleaned
<1>17. ASSUME NEW b \in Bridges, Bound(b) PROVE Shapes'
  <2> DEFINE a == attach[b]
  <2>1. a \in AttachRecords
    BY <1>17 DEF Bound
  <2>2. /\ [st |-> "bound", port |-> a.port, peer |-> a.peer, owner |-> a.owner]
             \in ConnRecords
        /\ [id |-> a.id, port |-> a.port, peer |-> a.peer, owner |-> a.owner,
            key |-> a.key, client |-> a.client, ended |-> FALSE] \in RelayRecords
    BY <2>1 DEF AttachRecords, ConnRecords, RelayRecords
  <2>3. /\ conns' \in [Ids -> ConnRecords \cup {None}]
        /\ relays' \subseteq RelayRecords
        /\ attach' \in [Bridges -> AttachRecords \cup {None}]
    BY <1>17, <2>2 DEF Bound
  <2> QED  BY <1>17, <2>3 DEF Bound
<1>18. ASSUME NEW b \in Bridges, NEW x \in Clients \cup {None}, NEW k \in Keys,
             NEW id \in Ids, Bind(b, x, k, id)
       PROVE  Shapes'
  <2>1. conns[id] \in ConnRecords
    BY <1>18 DEF Bind, Claims
  <2>2. [conns[id] EXCEPT !.st = "claimed"] \in ConnRecords
    BY <2>1 DEF ConnRecords
  <2>3. conns' \in [Ids -> ConnRecords \cup {None}]
    BY <1>18, <2>2 DEF Bind
  <2>4. handoff' \subseteq [bridge : Bridges, id : Ids, key : Keys, client : Clients \cup {None}]
    BY <1>18 DEF Bind
  <2> QED  BY <1>18, <2>3, <2>4 DEF Bind
<1>19. ASSUME NEW h \in handoff, DetachLost(h) PROVE Shapes'
  BY <1>19 DEF DetachLost
<1>20. ASSUME NEW h \in handoff, Attach(h) PROVE Shapes'
  <2>1. h.id \in Ids /\ h.bridge \in Bridges /\ h.key \in Keys /\ Ids \subseteq Positive
        /\ h.client \in Clients \cup {None}
    BY DEF Ids
  <2>2. CASE Claimed(h.id)
    <3>1. conns[h.id] \in ConnRecords
      BY <2>1, <2>2 DEF Claimed
    <3>2. [id |-> h.id, key |-> h.key, client |-> h.client, port |-> conns[h.id].port,
           peer |-> conns[h.id].peer, owner |-> conns[h.id].owner] \in AttachRecords
      BY <2>1, <3>1 DEF AttachRecords, ConnRecords
    <3>3. /\ attach' \in [Bridges -> AttachRecords \cup {None}]
          /\ conns' \in [Ids -> ConnRecords \cup {None}]
      BY <1>20, <2>2, <3>2 DEF Attach
    <3> QED  BY <1>20, <3>3 DEF Attach
  <2>3. CASE ~Claimed(h.id)
    BY <1>20, <2>3 DEF Attach
  <2> QED  BY <2>2, <2>3
<1>21. ASSUME NEW r \in relays, RelayEnds(r) PROVE Shapes'
  <2>1. r \in RelayRecords /\ [r EXCEPT !.ended = TRUE] \in RelayRecords
    BY DEF RelayRecords
  <2>2. relays' \subseteq RelayRecords
    BY <1>21, <2>1 DEF RelayEnds
  <2>3. index' \in [Ports \X Peers -> Positive \cup {None}]
    BY <1>21 DEF RelayEnds
  <2> QED  BY <1>21, <2>2, <2>3 DEF RelayEnds
<1>22. ASSUME NEW id \in Ids, IdleTimeout(id) PROVE Shapes'
  BY <1>22 DEF IdleTimeout
<1>23. ASSUME NEW p \in Ports, PeerConnects(p) PROVE Shapes'
  <2>1. lstn[p] \in ListenerRecords /\ Key[lstn[p].client] \in Keys
    BY <1>23, TcpRelayAssumption DEF PeerConnects, Accepting, ListenerRecords
  <2>2. \A peer \in Peers : Job("insert", p, peer, Key[lstn[p].client]) \in JobRecords
    BY <1>s, <2>1, JobShape
  <2>3. \A j \in JobRecords : [lstn[p] EXCEPT !.job = j] \in ListenerRecords
    BY <2>1, ListenerUpdates
  <2>4. lstn' \in Listeners
    BY <1>23, <2>2, <2>3 DEF PeerConnects
  <2> QED  BY <1>23, <2>4 DEF PeerConnects
<1>24. ASSUME NEW p \in Ports, NEW s, Listener(p, s)
       PROVE  /\ lstn[p] # None /\ lstn[p] \in ListenerRecords
              /\ lstn[p].job # None /\ lstn[p].job \in JobRecords
  BY <1>24 DEF Listener, ListenerRecords
<1>25. ASSUME NEW p \in Ports, ListenerInsert(p) PROVE Shapes'
  <2>1. lstn[p].job \in JobRecords /\ lstn[p] # None /\ lstn[p].job # None
    BY <1>24, <1>25 DEF ListenerInsert
  <2>2. conns' \in [Ids -> ConnRecords \cup {None}] /\ nextId' \in Positive
    BY <1>12, <1>25, <2>1 DEF ListenerInsert
  <2>3. lstn' \in Listeners
    BY <1>s, <1>25, <2>1, HandlerShape DEF ListenerInsert
  <2> QED  BY <1>25, <2>2, <2>3 DEF ListenerInsert, Inserted
<1>26. ASSUME NEW p \in Ports, ListenerIndex(p) PROVE Shapes'
  <2>1. lstn[p].job \in JobRecords /\ lstn[p] # None /\ lstn[p].job # None
    BY <1>24, <1>26 DEF ListenerIndex
  <2>2. lstn[p].job.id \in Positive
    BY <1>26, <2>1 DEF ListenerIndex, Listener, IdsGiven, ListenerIds, Numbered
  <2>3. /\ index' \in [Ports \X Peers -> Positive \cup {None}]
        /\ timers' \subseteq Positive
    BY <1>13, <1>26, <2>1, <2>2 DEF ListenerIndex
  <2>4. lstn' \in Listeners
    BY <1>s, <1>26, <2>1, HandlerShape DEF ListenerIndex
  <2> QED  BY <1>26, <2>3, <2>4 DEF ListenerIndex, Indexed
<1>27. ASSUME NEW p \in Ports, Tell(p) PROVE Shapes'
  <2>1. lstn[p].job \in JobRecords /\ lstn[p] # None /\ lstn[p].job # None
    BY <1>24, <1>27 DEF Tell
  <2>2. AcceptAgain(p) => lstn' \in Listeners
    BY <2>1, AcceptAgainShape
  <2>3. \A s \in Steps : [lstn EXCEPT ![p].job.step = s] \in Listeners
    BY <2>1, HandlerShape
  <2>4. lstn' \in Listeners
    BY <1>s, <1>27, <2>2, <2>3 DEF Tell
  <2>5. conns' \in [Ids -> ConnRecords \cup {None}]
    BY <1>27 DEF Tell
  <2> QED  BY <1>27, <2>4, <2>5 DEF Tell
<1>28. ASSUME NEW p \in Ports, Unindex(p) PROVE Shapes'
  <2>1. lstn' \in Listeners
    BY <1>24, <1>28, AcceptAgainShape DEF Unindex
  <2> QED  BY <1>28, <2>1 DEF Unindex
<1>29. ASSUME NEW p \in Ports, Restore(p) PROVE Shapes'
  <2> DEFINE j == lstn[p].job
  <2>1. lstn[p] # None /\ j \in JobRecords
    BY <1>24, <1>29 DEF Restore
  <2>2. lstn' \in Listeners
    BY <1>29, <2>1, AcceptAgainShape DEF Restore
  <2>3. [st |-> "bound", port |-> j.port, peer |-> j.peer, owner |-> j.owner]
          \in ConnRecords
    BY <2>1 DEF JobRecords, ConnRecords
  <2>4. conns' \in [Ids -> ConnRecords \cup {None}]
    BY <1>29, <2>3 DEF Restore
  <2> QED  BY <1>29, <2>2, <2>4 DEF Restore
<1>30. ASSUME NEW p \in Ports, ListenerTick(p) PROVE Shapes'
  <2>1. IdsOf(p) \in SUBSET Ids
    BY DEF IdsOf, Sockets
  <2>2. [Job("clean", p, None, None) EXCEPT !.ids = IdsOf(p)] \in JobRecords
    BY <1>s, <2>1, JobShape
  <2>3. lstn[p] \in ListenerRecords
    BY <1>30 DEF ListenerTick, Accepting
  <2>4. \A j \in JobRecords : [lstn[p] EXCEPT !.job = j] \in ListenerRecords
    BY <2>3, ListenerUpdates
  <2>5. lstn' \in Listeners
    BY <1>30, <2>2, <2>4 DEF ListenerTick
  <2> QED  BY <1>30, <2>5 DEF ListenerTick
<1>31. ASSUME NEW p \in Ports, ListenerClean(p) PROVE Shapes'
  BY <1>31 DEF ListenerClean, Cleaned
<1>32. ASSUME NEW p \in Ports, ListenerFails(p) PROVE Shapes'
  BY <1>32 DEF ListenerFails
<1> QED
  BY <1>1, <1>2, <1>4, <1>5, <1>6, <1>7, <1>8, <1>9, <1>10, <1>11, <1>14, <1>15, <1>16,
     <1>17, <1>18, <1>19, <1>20, <1>21, <1>22, <1>23, <1>25, <1>26, <1>27, <1>28, <1>29,
     <1>30, <1>31, <1>32
  DEF Next, BridgeStep, ListenerStep

\* The id drawn by an insert was not in use, the others were given out before it.
LEMMA InsertedIds ==
  ASSUME Shapes, TableIds, NEW j, Inserted(j), UNCHANGED splice
  PROVE  TableIds'
<1> USE DEF Shapes, TableIds, Positive, splice
<1>1. nextId' = nextId + 1 /\ nextId \in Nat
  BY DEF Inserted
<1>2. \A id \in Ids : conns'[id] # None => id < nextId'
  BY <1>1 DEF Inserted, Ids
<1>3. \A id \in timers' : id < nextId'
  BY <1>1 DEF Inserted
<1>4. \A a \in Ports \X Peers : index'[a] # None => index'[a] \in 1 .. nextId' - 1
  BY <1>1 DEF Inserted
<1>5. \A h \in handoff' : h.id < nextId'
  BY <1>1 DEF Ids
<1>6. \A b \in Bridges : attach'[b] # None => attach'[b].id < nextId'
  BY <1>1 DEF AttachRecords
<1> QED  BY <1>2, <1>3, <1>4, <1>5, <1>6

\* An id that is in use was given out, whatever happens (next_id).
LEMMA IdsGivenStep == Shapes /\ IdsGiven /\ Next => IdsGiven'
<1> SUFFICES ASSUME Shapes, IdsGiven, Next PROVE IdsGiven'
  OBVIOUS
<1> USE DEF Shapes, IdsGiven, TableIds, JobIds, ListenerIds, Positive, Numbered,
            front, manager, splice
<1>1. ASSUME NEW c \in Clients, Open(c) PROVE IdsGiven'
  BY <1>1 DEF Open
<1>2. ASSUME NEW c \in Clients, Close(c) PROVE IdsGiven'
  <2>1. TableIds'
    BY <1>2 DEF Close
  <2>2. JobIds'
    BY <1>2 DEF Close, Job
  <2>3. ListenerIds'
    <3>1. CASE alloc[c] = None
      BY <1>2, <3>1 DEF Close
    <3>2. CASE alloc[c] # None
      <4>1. lstn' = Aborted(alloc[c]) /\ alloc[c] \in Ports
        BY <1>2, <3>2 DEF Close
      <4> QED  BY <1>2, <4>1 DEF Close, Aborted, ListenerRecords
    <3> QED  BY <3>1, <3>2
  <2> QED  BY <2>1, <2>2, <2>3
<1>3. ASSUME NEW c \in Clients, Allocate(c) PROVE IdsGiven'
  <2>1. UNCHANGED <<job, conns, timers, index, handoff, attach, nextId>>
    BY <1>3 DEF Allocate
  <2>2. TableIds' /\ JobIds'
    BY <2>1
  <2>3. \A p \in Ports : lstn'[p] = lstn[p] \/ (lstn'[p] # None => lstn'[p].job = None)
    BY <1>3 DEF Allocate, Allocated
  <2>4. ListenerIds'
    BY <2>1, <2>3
  <2> QED  BY <2>2, <2>4
<1>4. ASSUME NEW c \in Clients, Park(c) PROVE IdsGiven'
  BY <1>4 DEF Park
<1>5. ASSUME NEW c \in Clients, Refresh0(c) PROVE IdsGiven'
  BY <1>5 DEF Refresh0, Aborted
<1>6. ASSUME NEW c \in Clients, Expire(c) PROVE IdsGiven'
  BY <1>6 DEF Expire
<1>7. ASSUME NEW c \in Clients, Connect(c) PROVE IdsGiven'
  BY <1>7 DEF Connect, Job
<1>8. ASSUME NEW w \in waiting, Reinject(w) PROVE IdsGiven'
  BY <1>8 DEF Reinject
<1>9. ASSUME NEW w \in waiting, Retry(w) PROVE IdsGiven'
  BY <1>9 DEF Retry, Allocated
<1>10. ASSUME NEW b \in Bridges, Dialled(b) PROVE IdsGiven'
  <2>1. job[b] \in JobRecords
    BY <1>10 DEF Dialled
  <2>2. JobIds'
    BY <1>10, <2>1 DEF Dialled, JobRecords
  <2> QED  BY <1>10, <2>2 DEF Dialled
<1>11. ASSUME NEW b \in Bridges, BridgeInsert(b) PROVE IdsGiven'
  <2>1. job[b] \in JobRecords
    BY <1>11 DEF BridgeInsert
  <2>2. nextId' = nextId + 1
    BY <1>11 DEF BridgeInsert, Inserted
  <2>3. JobIds'
    BY <1>11, <2>1, <2>2 DEF BridgeInsert, JobRecords
  <2>4. TableIds'
    BY <1>11, InsertedIds DEF BridgeInsert
  <2>5. ListenerIds'
    BY <1>11, <2>2 DEF BridgeInsert
  <2> QED  BY <2>3, <2>4, <2>5
<1>12. ASSUME NEW b \in Bridges, BridgeIndex(b) PROVE IdsGiven'
  BY <1>12 DEF BridgeIndex, Indexed
<1>13. ASSUME NEW b \in Bridges, BridgeClean(b) PROVE IdsGiven'
  BY <1>13 DEF BridgeClean, Cleaned
<1>14. ASSUME NEW b \in Bridges, Bound(b) PROVE IdsGiven'
  BY <1>14 DEF Bound
<1>15. ASSUME NEW b \in Bridges, NEW x \in Clients \cup {None}, NEW k \in Keys,
             NEW id \in Ids, Bind(b, x, k, id)
       PROVE  IdsGiven'
  BY <1>15 DEF Bind, Claims
<1>16. ASSUME NEW h \in handoff, DetachLost(h) PROVE IdsGiven'
  BY <1>16 DEF DetachLost
<1>17. ASSUME NEW h \in handoff, Attach(h) PROVE IdsGiven'
  <2>1. \A b \in Bridges : attach'[b] # None => attach'[b].id < nextId
    BY <1>17 DEF Attach
  <2>2. TableIds'
    BY <1>17, <2>1 DEF Attach
  <2> QED  BY <1>17, <2>2 DEF Attach
<1>18. ASSUME NEW r \in relays, RelayEnds(r) PROVE IdsGiven'
  BY <1>18 DEF RelayEnds
<1>19. ASSUME NEW id \in Ids, IdleTimeout(id) PROVE IdsGiven'
  BY <1>19 DEF IdleTimeout
<1>20. ASSUME NEW p \in Ports, PeerConnects(p) PROVE IdsGiven'
  BY <1>20 DEF PeerConnects, Accepting, Job
<1>21. ASSUME NEW p \in Ports, ListenerInsert(p) PROVE IdsGiven'
  <2>1. /\ lstn[p] # None /\ lstn[p] \in ListenerRecords
        /\ lstn[p].job # None /\ lstn[p].job \in JobRecords
    BY <1>21 DEF ListenerInsert, Listener, ListenerRecords
  <2>2. nextId' = nextId + 1
    BY <1>21 DEF ListenerInsert, Inserted
  <2>3. ListenerIds'
    BY <1>21, <2>1, <2>2 DEF ListenerInsert, ListenerRecords, JobRecords
  <2>4. TableIds'
    BY <1>21, InsertedIds DEF ListenerInsert
  <2>5. JobIds'
    BY <1>21, <2>2 DEF ListenerInsert
  <2> QED  BY <2>3, <2>4, <2>5
<1>22. ASSUME NEW p \in Ports, ListenerIndex(p) PROVE IdsGiven'
  BY <1>22 DEF ListenerIndex, Listener, Indexed
<1>23. ASSUME NEW p \in Ports, Tell(p) PROVE IdsGiven'
  <2>1. /\ lstn[p] # None /\ lstn[p] \in ListenerRecords
        /\ lstn[p].job # None /\ lstn[p].job \in JobRecords
    BY <1>23 DEF Tell, Listener, ListenerRecords
  <2>2. lstn[p].job.id \in 1 .. nextId - 1
    BY <1>23, <2>1 DEF Tell, Listener
  <2>3. AcceptAgain(p) => ListenerIds'
    BY <1>23, <2>1 DEF Tell, AcceptAgain, ListenerRecords
  <2>4. ASSUME NEW s, lstn' = [lstn EXCEPT ![p].job.step = s] PROVE ListenerIds'
    BY <1>23, <2>1, <2>2, <2>4 DEF Tell, ListenerRecords, JobRecords
  <2>5. ListenerIds'
    BY <1>23, <2>3, <2>4 DEF Tell
  <2>6. TableIds'
    BY <1>23 DEF Tell
  <2> QED  BY <1>23, <2>5, <2>6 DEF Tell
<1>24. ASSUME NEW p \in Ports, Unindex(p) PROVE IdsGiven'
  BY <1>24 DEF Unindex, Listener, AcceptAgain
<1>25. ASSUME NEW p \in Ports, Restore(p) PROVE IdsGiven'
  BY <1>25 DEF Restore, Listener, AcceptAgain
<1>26. ASSUME NEW p \in Ports, ListenerTick(p) PROVE IdsGiven'
  BY <1>26 DEF ListenerTick, Accepting, Job, IdsOf, Sockets
<1>27. ASSUME NEW p \in Ports, ListenerClean(p) PROVE IdsGiven'
  BY <1>27 DEF ListenerClean, Listener, Cleaned
<1>28. ASSUME NEW p \in Ports, ListenerFails(p) PROVE IdsGiven'
  BY <1>28 DEF ListenerFails, Accepting
<1> QED
  BY <1>1, <1>2, <1>3, <1>4, <1>5, <1>6, <1>7, <1>8, <1>9, <1>10, <1>11, <1>12, <1>13,
     <1>14, <1>15, <1>16, <1>17, <1>18, <1>19, <1>20, <1>21, <1>22, <1>23, <1>24, <1>25,
     <1>26, <1>27, <1>28
  DEF Next, BridgeStep, ListenerStep

----------------------------------------------------------------------------
(* Allocations and their control connections *)

\* An allocation is made for a connection that is live and goes when it closes; a bind
\* leaves allocation and sink alone.  The bridge asks whether the connection of a
\* re-injected request is still the live one (FromLive), and a close takes the
\* allocation with it.
LEMMA ConnectedStep == Shapes /\ Connected /\ Next => Connected'
<1> SUFFICES ASSUME Shapes, Connected, Next PROVE Connected'
  OBVIOUS
<1> USE DEF Shapes, Connected, ReleasedOnClose, Positive, front
<1>1. ASSUME NEW c \in Clients, Open(c) PROVE Connected'
  <2>1. opens[c] \in Nat /\ MaxOpens[c] \in Nat /\ opens[c] < MaxOpens[c]
    BY <1>1, TcpRelayAssumption DEF Open
  <2>2. /\ opens' = [opens EXCEPT ![c] = opens[c] + 1]
        /\ live' = [live EXCEPT ![c] = opens[c] + 1]
    BY <1>1 DEF Open
  <2> QED  BY <1>1, <2>1, <2>2 DEF Open
<1>2. ASSUME NEW c \in Clients, Close(c) PROVE Connected'
  BY <1>2 DEF Close
<1>3. ASSUME NEW c \in Clients, Allocate(c) PROVE Connected'
  BY <1>3 DEF Allocate, Allocated
<1>4. ASSUME NEW c \in Clients, Refresh0(c) \/ Expire(c) PROVE Connected'
  BY <1>4 DEF Refresh0, Expire
<1>5. ASSUME NEW w \in waiting, Retry(w) PROVE Connected'
  BY <1>5 DEF Retry, Allocated, FromLive
<1>6. ASSUME NEW b \in Bridges, NEW x \in Clients \cup {None}, NEW k \in Keys,
             NEW id \in Ids, Bind(b, x, k, id)
      PROVE  Connected'
  BY <1>6 DEF Bind
<1>7. CASE UNCHANGED <<live, sinks, opens, alloc>>
  BY <1>7
<1> QED
  BY <1>1, <1>2, <1>3, <1>4, <1>5, <1>6, <1>7
  DEF Next, BridgeStep, ListenerStep, Park, Connect, Reinject, Dialled, BridgeInsert,
      BridgeIndex, BridgeClean, Bound, DetachLost, Attach, RelayEnds, IdleTimeout,
      PeerConnects, ListenerInsert, ListenerIndex, Tell, Unindex, Restore, ListenerTick,
      ListenerClean, ListenerFails

----------------------------------------------------------------------------
(* Claims *)

\* A fresh id is named by no hand-off, so its connection may wait for any claim.
LEMMA InsertedOwned ==
  ASSUME Shapes, TableIds, Owned, NEW j, Inserted(j), UNCHANGED splice
  PROVE  Owned'
<1> USE DEF Shapes, TableIds, Owned, OwnerOnly, Positive, splice
<1>1. \A h \in handoff : h.id \in Ids /\ h.id # nextId
  BY DEF Ids
<1>2. \A h \in handoff : conns'[h.id] = conns[h.id]
  BY <1>1 DEF Inserted
<1> QED  BY <1>2

\* Only the claim by the owner's key makes a hand-off, and what a hand-off names never
\* waits again: every other step closes the connection or marks it bound.
LEMMA OwnedStep == Shapes /\ IdsGiven /\ Owned /\ Next => Owned'
<1> SUFFICES ASSUME Shapes, IdsGiven, Owned, Next PROVE Owned'
  OBVIOUS
<1> USE DEF Shapes, Owned, OwnerOnly, Positive, manager, splice
<1>1. ASSUME NEW b \in Bridges, BridgeInsert(b) PROVE Owned'
  BY <1>1, InsertedOwned DEF BridgeInsert, IdsGiven
<1>2. ASSUME NEW p \in Ports, ListenerInsert(p) PROVE Owned'
  BY <1>2, InsertedOwned DEF ListenerInsert, IdsGiven
<1>3. ASSUME NEW ids, Cleaned(ids), UNCHANGED splice PROVE Owned'
  BY <1>3 DEF Cleaned
<1>4. ASSUME NEW b \in Bridges, Bound(b) PROVE Owned'
  BY <1>4 DEF Bound
<1>5. ASSUME NEW b \in Bridges, NEW x \in Clients \cup {None}, NEW k \in Keys,
             NEW id \in Ids, Bind(b, x, k, id)
      PROVE  Owned'
  BY <1>5 DEF Bind, Claims
<1>6. ASSUME NEW h \in handoff, DetachLost(h) PROVE Owned'
  BY <1>6 DEF DetachLost
<1>7. ASSUME NEW h \in handoff, Attach(h) PROVE Owned'
  BY <1>7 DEF Attach, Claimed
<1>8. ASSUME NEW r \in relays, RelayEnds(r) PROVE Owned'
  <2>1. r \in RelayRecords /\ r.key = r.owner
    OBVIOUS
  <2>2. [r EXCEPT !.ended = TRUE].key = [r EXCEPT !.ended = TRUE].owner
    BY <2>1 DEF RelayRecords
  <2>3. OwnerOnly'
    BY <1>8, <2>2 DEF RelayEnds
  <2> QED  BY <1>8, <2>3 DEF RelayEnds
<1>9. ASSUME NEW id \in Ids, IdleTimeout(id) PROVE Owned'
  BY <1>9 DEF IdleTimeout
<1>10. ASSUME NEW p \in Ports, Tell(p) \/ Restore(p) PROVE Owned'
  BY <1>10 DEF Tell, Restore
<1>11. CASE UNCHANGED <<conns, splice>>
  BY <1>11
<1> QED
  BY <1>1, <1>2, <1>3, <1>4, <1>5, <1>6, <1>7, <1>8, <1>9, <1>10, <1>11
  DEF Next, BridgeStep, ListenerStep, Open, Close, Allocate, Park, Refresh0, Expire,
      Connect, Reinject, Retry, Dialled, BridgeIndex, BridgeClean, Indexed, PeerConnects,
      ListenerIndex, Unindex, ListenerTick, ListenerClean, ListenerFails

----------------------------------------------------------------------------
(* The bound on ids *)

\* The handlers and the listeners that will draw an id.
Dialling == {b \in Bridges : job[b] # None /\ job[b].step \in {"dial", "insert"}}
Accepted == {p \in Ports : Listener(p, "insert")}

\* Each bridge serves a client.
LEMMA BridgesFinite == IsFiniteSet(Bridges)
<1> DEFINE f == [c \in Clients |-> Bridge[c]]
<1>1. f \in Surjection(Clients, Bridges)
  BY DEF Surjection, Bridges
<1> QED  BY <1>1, TcpRelayAssumption, FS_Surjection

\* The number of registrations under way.
LEMMA UnderwayNat ==
  /\ IsFiniteSet(Dialling) /\ IsFiniteSet(Accepted)
  /\ Cardinality(Dialling) \in Nat /\ Cardinality(Accepted) \in Nat
  /\ Underway = Cardinality(Dialling) + Cardinality(Accepted)
  /\ Underway \in Nat
<1>1. IsFiniteSet(Dialling) /\ IsFiniteSet(Accepted)
  BY BridgesFinite, TcpRelayAssumption, FS_Subset DEF Dialling, Accepted
<1>2. Cardinality(Dialling) \in Nat /\ Cardinality(Accepted) \in Nat
  BY <1>1, FS_CardinalityType
<1> QED  BY <1>1, <1>2 DEF Underway, Dialling, Accepted

\* A registration in fewer places leaves as many ids as before.
LEMMA UnderwayShrinks ==
  ASSUME Dialling' \subseteq Dialling, Accepted' \subseteq Accepted
  PROVE  Underway' <= Underway /\ Underway' \in Nat
<1>1. /\ Cardinality(Dialling') <= Cardinality(Dialling)
      /\ Cardinality(Accepted') <= Cardinality(Accepted)
      /\ IsFiniteSet(Dialling') /\ IsFiniteSet(Accepted')
  BY UnderwayNat, FS_Subset
<1>2. Cardinality(Dialling') \in Nat /\ Cardinality(Accepted') \in Nat
  BY <1>1, FS_CardinalityType
<1>3. Underway' = Cardinality(Dialling') + Cardinality(Accepted')
  BY DEF Underway, Dialling, Accepted
<1> QED  BY <1>1, <1>2, <1>3, UnderwayNat

\* An abort starts no registration (CloseRelay).
LEMMA AbortedAccepts ==
  ASSUME Shapes, NEW p \in Ports, lstn' = Aborted(p)
  PROVE  Accepted' \subseteq Accepted
<1>1. CASE lstn[p] = None \/ lstn[p].job = None
  BY <1>1 DEF Aborted, Accepted, Listener, Shapes
<1>2. CASE lstn[p] # None /\ lstn[p].job # None
  <2>1. lstn' = [lstn EXCEPT ![p].aborted = TRUE] /\ lstn[p] \in ListenerRecords
    BY <1>2 DEF Aborted, Shapes
  <2>2. \A q \in Ports : q # p => lstn'[q] = lstn[q]
    BY <2>1 DEF Shapes
  <2>3. lstn'[p].job = lstn[p].job
    BY <2>1 DEF Shapes, ListenerRecords
  <2> QED  BY <1>2, <2>2, <2>3 DEF Accepted, Listener
<1> QED  BY <1>1, <1>2

\* A registration draws an id only while one is left for it (IdLeft), and holds it
\* until it does.
LEMMA IdsLeftStep == Shapes /\ IdsLeft /\ Next => IdsLeft'
<1> SUFFICES ASSUME Shapes, IdsLeft, Next PROVE IdsLeft'
  OBVIOUS
<1>f. /\ IsFiniteSet(Dialling) /\ IsFiniteSet(Accepted)
      /\ Cardinality(Dialling) \in Nat /\ Cardinality(Accepted) \in Nat
      /\ Underway = Cardinality(Dialling) + Cardinality(Accepted)
      /\ nextId \in Nat /\ MaxIds \in Nat
  BY UnderwayNat, TcpRelayAssumption DEF Shapes, Positive
<1>0. ASSUME Dialling' \subseteq Dialling, Accepted' \subseteq Accepted, nextId' = nextId
      PROVE  IdsLeft'
  BY <1>0, <1>f, UnderwayShrinks DEF IdsLeft
<1>u. Underway' = Cardinality(Dialling') + Cardinality(Accepted')
  BY DEF Underway, Dialling, Accepted
<1>1. ASSUME NEW c \in Clients, Connect(c) PROVE IdsLeft'
  <2>1. Dialling' \subseteq Dialling \cup {Bridge[c]} /\ Accepted' = Accepted
    BY <1>1 DEF Connect, Dialling, Accepted, Listener, Shapes
  <2>2. /\ Cardinality(Dialling') \in Nat
        /\ Cardinality(Dialling') <= Cardinality(Dialling) + 1
    <3>1. /\ IsFiniteSet(Dialling \cup {Bridge[c]})
          /\ Cardinality(Dialling \cup {Bridge[c]}) \in
               {Cardinality(Dialling), Cardinality(Dialling) + 1}
      BY <1>f, FS_AddElement
    <3>2. /\ IsFiniteSet(Dialling')
          /\ Cardinality(Dialling') <= Cardinality(Dialling \cup {Bridge[c]})
      BY <2>1, <3>1, FS_Subset
    <3> QED  BY <1>f, <3>1, <3>2, FS_CardinalityType
  <2>3. nextId + Underway <= MaxIds /\ nextId' = nextId
    BY <1>1 DEF Connect, IdLeft, manager
  <2> QED  BY <1>f, <1>u, <2>1, <2>2, <2>3 DEF IdsLeft
<1>2. ASSUME NEW p \in Ports, PeerConnects(p) PROVE IdsLeft'
  <2>1. Accepted' \subseteq Accepted \cup {p} /\ Dialling' = Dialling
    BY <1>2 DEF PeerConnects, Dialling, Accepted, Listener, Shapes
  <2>2. /\ Cardinality(Accepted') \in Nat
        /\ Cardinality(Accepted') <= Cardinality(Accepted) + 1
    <3>1. /\ IsFiniteSet(Accepted \cup {p})
          /\ Cardinality(Accepted \cup {p}) \in
               {Cardinality(Accepted), Cardinality(Accepted) + 1}
      BY <1>f, FS_AddElement
    <3>2. /\ IsFiniteSet(Accepted')
          /\ Cardinality(Accepted') <= Cardinality(Accepted \cup {p})
      BY <2>1, <3>1, FS_Subset
    <3> QED  BY <1>f, <3>1, <3>2, FS_CardinalityType
  <2>3. nextId + Underway <= MaxIds /\ nextId' = nextId
    BY <1>2 DEF PeerConnects, IdLeft, manager
  <2> QED  BY <1>f, <1>u, <2>1, <2>2, <2>3 DEF IdsLeft
<1>3. ASSUME NEW b \in Bridges, BridgeInsert(b) PROVE IdsLeft'
  <2>1. job[b] \in JobRecords /\ b \in Dialling
    BY <1>3 DEF BridgeInsert, Inserted, Dialling, Shapes
  <2>2. Dialling' \subseteq Dialling \ {b} /\ Accepted' = Accepted
    BY <1>3, <2>1 DEF BridgeInsert, Dialling, Accepted, Listener, Shapes, JobRecords
  <2>3. /\ IsFiniteSet(Dialling \ {b})
        /\ Cardinality(Dialling \ {b}) = Cardinality(Dialling) - 1
    BY <1>f, <2>1, FS_RemoveElement
  <2>4. IsFiniteSet(Dialling') /\ Cardinality(Dialling') <= Cardinality(Dialling) - 1
    BY <2>2, <2>3, FS_Subset
  <2>5. Cardinality(Dialling') \in Nat
    BY <2>4, FS_CardinalityType
  <2>6. nextId' = nextId + 1
    BY <1>3 DEF BridgeInsert, Inserted
  <2> QED  BY <1>f, <1>u, <2>2, <2>4, <2>5, <2>6 DEF IdsLeft
<1>4. ASSUME NEW p \in Ports, ListenerInsert(p) PROVE IdsLeft'
  <2>1. /\ lstn[p] \in ListenerRecords /\ lstn[p].job \in JobRecords
        /\ p \in Accepted
    BY <1>4 DEF ListenerInsert, Listener, Accepted, Shapes, ListenerRecords
  <2>2. Accepted' \subseteq Accepted \ {p} /\ Dialling' = Dialling
    BY <1>4, <2>1
    DEF ListenerInsert, Dialling, Accepted, Listener, Shapes, ListenerRecords, JobRecords
  <2>3. /\ IsFiniteSet(Accepted \ {p})
        /\ Cardinality(Accepted \ {p}) = Cardinality(Accepted) - 1
    BY <1>f, <2>1, FS_RemoveElement
  <2>4. IsFiniteSet(Accepted') /\ Cardinality(Accepted') <= Cardinality(Accepted) - 1
    BY <2>2, <2>3, FS_Subset
  <2>5. Cardinality(Accepted') \in Nat
    BY <2>4, FS_CardinalityType
  <2>6. nextId' = nextId + 1
    BY <1>4 DEF ListenerInsert, Inserted
  <2> QED  BY <1>f, <1>u, <2>2, <2>4, <2>5, <2>6 DEF IdsLeft
<1>5. ASSUME NEW c \in Clients, Close(c) PROVE IdsLeft'
  <2>1. Dialling' \subseteq Dialling
    BY <1>5 DEF Close, Job, Dialling, Shapes
  <2>2. Accepted' \subseteq Accepted
    <3>1. lstn' = lstn \/ (alloc[c] \in Ports /\ lstn' = Aborted(alloc[c]))
      BY <1>5 DEF Close, Shapes
    <3> QED  BY <3>1, AbortedAccepts DEF Accepted, Listener
  <2> QED  BY <1>0, <1>5, <2>1, <2>2 DEF Close, manager
<1>6. ASSUME NEW c \in Clients, Refresh0(c) PROVE IdsLeft'
  <2>1. Accepted' \subseteq Accepted
    BY <1>6, AbortedAccepts DEF Refresh0, Shapes
  <2> QED  BY <1>0, <1>6, <2>1 DEF Refresh0, Dialling, manager
<1>7. ASSUME NEW c \in Clients, Allocated(c) PROVE Accepted' \subseteq Accepted
  BY <1>7 DEF Allocated, Accepted, Listener, Shapes
<1>8. ASSUME NEW c \in Clients, Allocate(c) PROVE IdsLeft'
  BY <1>0, <1>7, <1>8 DEF Allocate, Dialling, manager
<1>9. ASSUME NEW w \in waiting, Retry(w) PROVE IdsLeft'
  <2>1. Accepted' \subseteq Accepted
    BY <1>7, <1>9 DEF Retry, Accepted, Listener, Shapes
  <2> QED  BY <1>0, <1>9, <2>1 DEF Retry, Dialling, manager
<1>10. ASSUME NEW b \in Bridges, Dialled(b) PROVE IdsLeft'
  <2>1. Dialling' \subseteq Dialling
    BY <1>10 DEF Dialled, Dialling, Shapes
  <2> QED  BY <1>0, <1>10, <2>1 DEF Dialled, Accepted, Listener, manager
<1>11. ASSUME NEW b \in Bridges, BridgeIndex(b) \/ BridgeClean(b) PROVE IdsLeft'
  <2>1. Dialling' \subseteq Dialling
    BY <1>11 DEF BridgeIndex, BridgeClean, Dialling, Shapes
  <2> QED  BY <1>0, <1>11, <2>1 DEF BridgeIndex, BridgeClean, Indexed, Accepted, Listener
<1>12. ASSUME NEW p \in Ports, AcceptAgain(p), lstn[p] # None
       PROVE  Accepted' \subseteq Accepted
  BY <1>12 DEF AcceptAgain, Accepted, Listener, Shapes, ListenerRecords
<1>13. ASSUME NEW p \in Ports, NEW s, s # "insert", lstn[p] # None, lstn[p].job # None,
              lstn' = [lstn EXCEPT ![p].job.step = s]
       PROVE  Accepted' \subseteq Accepted
  <2>1. lstn[p] \in ListenerRecords /\ lstn[p].job \in JobRecords
    BY <1>13 DEF Shapes, ListenerRecords
  <2> QED  BY <1>13, <2>1 DEF Accepted, Listener, Shapes, ListenerRecords, JobRecords
<1>14. ASSUME NEW p \in Ports, ListenerIndex(p) PROVE IdsLeft'
  <2>1. Accepted' \subseteq Accepted
    BY <1>13, <1>14 DEF ListenerIndex, Listener
  <2> QED  BY <1>0, <1>14, <2>1 DEF ListenerIndex, Indexed, Dialling
<1>15. ASSUME NEW p \in Ports, Tell(p) PROVE IdsLeft'
  <2>1. Accepted' \subseteq Accepted
    BY <1>12, <1>13, <1>15 DEF Tell, Listener
  <2> QED  BY <1>0, <1>15, <2>1 DEF Tell, Dialling
<1>16. ASSUME NEW p \in Ports, Unindex(p) \/ Restore(p) PROVE IdsLeft'
  <2>1. Accepted' \subseteq Accepted
    BY <1>12, <1>16 DEF Unindex, Restore, Listener
  <2> QED  BY <1>0, <1>16, <2>1 DEF Unindex, Restore, Dialling
<1>17. ASSUME NEW p \in Ports, ListenerTick(p) PROVE IdsLeft'
  <2>1. Accepted' \subseteq Accepted
    BY <1>17 DEF ListenerTick, Accepting, Job, Accepted, Listener, Shapes, ListenerRecords
  <2> QED  BY <1>0, <1>17, <2>1 DEF ListenerTick, Dialling, manager
<1>18. ASSUME NEW p \in Ports, ListenerClean(p) \/ ListenerFails(p) PROVE IdsLeft'
  <2>1. Accepted' \subseteq Accepted
    BY <1>18 DEF ListenerClean, ListenerFails, Accepted, Listener, Shapes
  <2> QED  BY <1>0, <1>18, <2>1 DEF ListenerClean, ListenerFails, Dialling, manager
<1>19. CASE UNCHANGED <<lstn, job, nextId>>
  BY <1>0, <1>19 DEF Dialling, Accepted, Listener
<1> QED
  BY <1>1, <1>2, <1>3, <1>4, <1>5, <1>6, <1>8, <1>9, <1>10, <1>11, <1>14, <1>15, <1>16,
     <1>17, <1>18, <1>19
  DEF Next, BridgeStep, ListenerStep, Open, Park, Expire, Reinject, Bound, Bind, DetachLost,
      Attach, RelayEnds, IdleTimeout, manager

----------------------------------------------------------------------------
(* The theorems *)

\* At the start nothing is connected, claimed or under way.
LEMMA InitInv == Init => IInv
<1> SUFFICES ASSUME Init PROVE IInv
  OBVIOUS
<1>1. Shapes
  BY DEF Init, Shapes, Positive
<1>2. IdsGiven
  BY <1>1 DEF Init, IdsGiven, TableIds, JobIds, ListenerIds
<1>3. Connected /\ Owned
  BY <1>1, TcpRelayAssumption DEF Init, Connected, ReleasedOnClose, Owned, OwnerOnly
<1>4. IdsLeft
  <2>1. Dialling = {} /\ Accepted = {}
    BY DEF Init, Dialling, Accepted, Listener
  <2>2. Underway = 0
    BY <2>1, FS_EmptySet DEF Underway, Dialling, Accepted
  <2> QED  BY <2>2, TcpRelayAssumption DEF Init, IdsLeft
<1> QED  BY <1>1, <1>2, <1>3, <1>4 DEF IInv

\* Nothing the invariant speaks of changes in a stuttering step.
LEMMA StutterInv == IInv /\ UNCHANGED vars => IInv'
<1> SUFFICES ASSUME IInv, UNCHANGED vars PROVE IInv'
  OBVIOUS
<1> USE DEF vars, IInv
<1>1. Shapes' /\ IdsGiven'
  BY DEF Shapes, IdsGiven, TableIds, JobIds, ListenerIds
<1>2. Connected' /\ Owned'
  BY DEF Connected, ReleasedOnClose, Owned, OwnerOnly
<1>3. IdsLeft'
  BY DEF IdsLeft, Underway, Listener
<1> QED  BY <1>1, <1>2, <1>3

\* IInv is inductive.
LEMMA Inductive == Spec => []IInv
<1>1. IInv /\ [Next]_vars => IInv'
  BY ShapesStep, IdsGivenStep, ConnectedStep, OwnedStep, IdsLeftStep, StutterInv DEF IInv
<1> QED  BY InitInv, <1>1, PTL DEF Spec

\* The tables of the connection manager keep their types, and no id is used that the
\* counter has not given out (tcp_relay.rs).
THEOREM TypeCorrect == Spec => []TypeOK
<1>1. IInv => TypeOK
  <2> SUFFICES ASSUME IInv PROVE TypeOK
    OBVIOUS
  <2> USE DEF IInv, Shapes, Positive
  <2>1. nextId \in 1 .. MaxIds + 1
    <3>1. Underway \in Nat
      BY UnderwayNat
    <3> QED  BY <3>1, TcpRelayAssumption DEF IdsLeft
  <2>2. \A c \in Clients : live[c] \in {0, opens[c]} /\ opens[c] \in 0 .. MaxOpens[c]
    BY TcpRelayAssumption DEF Connected
  <2>3. \A id \in Sockets : id < nextId /\ conns[id].st \in {"waiting", "claimed", "bound"}
    BY DEF Sockets, IdsGiven, TableIds, ConnRecords
  <2>4. timers \subseteq 1 .. nextId - 1
    BY DEF IdsGiven, TableIds
  <2>5. \A a \in Ports \X Peers : index[a] \in (1 .. nextId - 1) \cup {None}
    BY DEF IdsGiven, TableIds
  <2> QED  BY <2>1, <2>2, <2>3, <2>4, <2>5 DEF TypeOK, IdsGiven, TableIds
<1> QED  BY Inductive, <1>1, PTL

\* Whatever ids the clients name and however hand-offs, timeouts, cleanups and the
\* listener's put-back interleave, a relay joins a peer only to the key it was opened
\* for (claim, attach_bound).
THEOREM StreamsReachTheirOwner == Spec => []OwnerOnly
<1>1. IInv => OwnerOnly
  BY DEF IInv, Owned
<1> QED  BY Inductive, <1>1, PTL

\* No allocation is left behind by a connection that closed, in whatever order its
\* parked request, the close and the retry arrive (ParkingLot::forget, the live set).
THEOREM ClosedIsReleased == Spec => []ReleasedOnClose
<1>1. IInv => ReleasedOnClose
  BY DEF IInv, Connected
<1> QED  BY Inductive, <1>1, PTL
===============================================================================
