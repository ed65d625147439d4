--------------------------- MODULE FailoverProofs ---------------------------
(***************************************************************************)
(* For any number of nodes, ports, crashes, restarts, stalls, drains and   *)
(* backend errors, and for any port ranges: the types of a sweep; and for  *)
(* every port that was never shaken, that what a node serves is in the     *)
(* backend under its name and is served by no other node.                  *)
(***************************************************************************)
EXTENDS Failover, TLAPS

InFlight(n) == pc[n] \in {"fetch", "apply", "remove", "revert"}

Merges == [port : Ports, row : Rows]

\* TypeOK with the ranges of what it leaves open between two sweeps.
Shapes ==
    /\ up \in [Nodes -> {"up", "leaving", "drain", "load", "down"}]
    /\ draining \in [Nodes -> BOOLEAN]
    /\ mem \in [Nodes -> [Ports -> Ids]]
    /\ wq \in [Nodes -> [Ports -> {"none", "create", "touch", "remove"}]]
    /\ got \in [Nodes -> Merges \cup {None}]
    /\ rows \in [Ports -> Rows \cup {None}]
    /\ beat \in [Nodes -> {"fresh", "stale"}] /\ bye \in [Nodes -> BOOLEAN]
    /\ expired \in SUBSET (1 .. MaxId) /\ lost \in SUBSET Ports /\ shaken \in SUBSET Ports
    /\ suspicion \in [Nodes -> [Nodes -> 0 .. SuspicionTicks - 1]]
    /\ pc \in [Nodes -> {"idle", "node", "claim", "fetch", "apply", "remove", "revert"}]
    /\ dead \in [Nodes -> SUBSET Nodes] /\ from \in [Nodes -> Nodes \cup {None}]
    /\ orphans \in [Nodes -> SUBSET Listed] /\ cur \in [Nodes -> Listed \cup {None}]
    /\ nextId \in 1 .. MaxId + 1

\* A sweep visits other nodes only, and holds what its step needs.
SweepSane ==
    \A n \in Nodes :
        /\ n \notin dead[n]
        /\ pc[n] = "claim" => orphans[n] # {}
        /\ pc[n] = "claim" \/ InFlight(n) => from[n] \in Nodes /\ from[n] # n
        /\ InFlight(n) => cur[n] \in Listed

\* A process that is down or loads has no writer and no sweep.
ProcessSane ==
    \A n \in Nodes :
        /\ up[n] \in {"down", "load"} =>
              pc[n] = "idle" /\ got[n] = None /\ \A p \in Ports : wq[n][p] = "none"
        /\ up[n] = "down" => orphans[n] = {} /\ \A p \in Ports : mem[n][p] = 0

\* A Create in the log is of an allocation that is still there.
CreatesLive == \A n \in Nodes, p \in Ports : wq[n][p] = "create" => mem[n][p] # 0

Typed == Shapes /\ SweepSane /\ ProcessSane /\ CreatesLive

----------------------------------------------------------------------------
(* Ownership of the ports that were never shaken. *)

Owns(n, p) == rows[p] # None /\ rows[p].owner = n

\* What node n serves or will write at p is its own, by range or by row.
Entitled(n, p) ==
    /\ mem[n][p] # 0 \/ wq[n][p] # "none" => p \in Pick[n] \/ Owns(n, p)
    /\ wq[n][p] = "create" => p \in Pick[n]
    /\ wq[n][p] = "remove" => mem[n][p] = 0

\* HolderOwnsRow of one node and one port.
ServesOwn(n, p) ==
    mem[n][p] # 0 /\ wq[n][p] # "create" /\ p \notin lost => rows[p] = Row(n, mem[n][p])

\* A claimed row is the claimer's until it is served, deleted or given back.
ClaimHeld(n, p) ==
    InFlight(n) /\ cur[n].port = p =>
        /\ Owns(n, p) /\ p \notin Pick[n]
        /\ mem[n][p] = 0 /\ wq[n][p] = "none" /\ ~(got[n] # None /\ got[n].port = p)
        /\ pc[n] # "fetch" => cur[n].id = rows[p].id

\* A listed row that the bulk load has yet to apply is as it was listed.
LoadHeld(n, p) ==
    up[n] = "load" => \A r \in orphans[n] :
        r.port = p => Owns(n, p) /\ rows[p].id = r.id /\ mem[n][p] = 0

\* A row that was read to be merged is as it was read, and the writer's own.
MergeHeld(n, p) ==
    got[n] # None /\ got[n].port = p => Owns(n, p) /\ rows[p] = got[n].row

Safe(n, p) ==
    /\ Entitled(n, p) /\ ServesOwn(n, p) /\ ClaimHeld(n, p) /\ LoadHeld(n, p) /\ MergeHeld(n, p)

Owned == Shaky \subseteq shaken /\ \A n \in Nodes : \A p \in Ports \ shaken : Safe(n, p)

\* The allocations some node, the backend or a call under way has at a port.
IdsAt(p) ==
    {i \in 1 .. MaxId :
        \/ \E n \in Nodes : \/ mem[n][p] = i
                            \/ \E r \in orphans[n] : r.port = p /\ r.id = i
                            \/ cur[n] # None /\ cur[n].port = p /\ cur[n].id = i
                            \/ got[n] # None /\ got[n].port = p /\ got[n].row.id = i
        \/ rows[p] # None /\ rows[p].id = i}

\* An id was given out, and belongs to one port for good.
IdsTied ==
    \A p \in Ports : \A i \in IdsAt(p) :
        i < nextId /\ \A q \in Ports : i \in IdsAt(q) => p = q

----------------------------------------------------------------------------
(* Types *)

\* What the provers need of the records of a listing and of the backend.
LEMMA ListedFields ==
    /\ \A r \in Listed : r.port \in Ports /\ r.id \in Ids
    /\ \A r, s \in Listed : s.port = r.port /\ s.id = r.id => s = r
    /\ \A p \in Ports, i \in 1 .. MaxId : [port |-> p, id |-> i] \in Listed
    /\ \A w \in Rows : w.owner \in Nodes /\ w.id \in 1 .. MaxId /\ w.id \in Ids /\ w.id # 0
    /\ \A n \in Nodes, i \in 1 .. MaxId : Row(n, i) \in Rows
    /\ \A w \in Rows, n \in Nodes :
         LET v == [w EXCEPT !.owner = n] IN v \in Rows /\ v.owner = n /\ v.id = w.id
    /\ \A w \in Rows : w = Row(w.owner, w.id)
    /\ \A g \in Merges : g.port \in Ports /\ g.row \in Rows
    /\ \A p \in Ports, w \in Rows : [port |-> p, row |-> w] \in Merges
    /\ None \notin Rows
  BY FailoverAssumption DEF Listed, Ids, Rows, Row, Merges

\* find_by_node returns rows of the backend.
LEMMA RowsOfListed == ASSUME Shapes, NEW n \in Nodes PROVE RowsOf(n) \in SUBSET Listed
<1>1. \A p \in Ports : rows[p] # None => [port |-> p, id |-> rows[p].id] \in Listed
  BY ListedFields DEF Shapes
<1> QED  BY <1>1 DEF RowsOf

\* The history is a set of ports.
LEMMA NotedTyped == ASSUME Shapes, Noted PROVE shaken' \in SUBSET Ports
<1>1. Shaky' \subseteq Ports
  BY DEF Shaky
<1> QED  BY <1>1 DEF Noted, Shapes

\* A crashed or stopped process is back in its first state.
LEMMA StopTyped ==
  ASSUME Typed, NEW n \in Nodes, Stop(n), Noted,
         UNCHANGED <<rows, expired, nextId, beat, bye, lost>>
  PROVE  Typed'
<1>1. Empty \in [Ports -> Ids] /\ Idle \in [Ports -> {"none", "create", "touch", "remove"}]
  BY FailoverAssumption DEF Empty, Idle, Ids
<1>2. [m \in Nodes |-> 0] \in [Nodes -> 0 .. SuspicionTicks - 1]
  BY FailoverAssumption
<1>3. Shapes'
  <2> USE <1>1, <1>2 DEF Typed, Shapes, Stop
  <2>1. shaken' \in SUBSET Ports
    BY NotedTyped
  <2>2. mem' \in [Nodes -> [Ports -> Ids]]
        /\ wq' \in [Nodes -> [Ports -> {"none", "create", "touch", "remove"}]]
        /\ got' \in [Nodes -> Merges \cup {None}]
    OBVIOUS
  <2>3. /\ suspicion' \in [Nodes -> [Nodes -> 0 .. SuspicionTicks - 1]]
        /\ pc' \in [Nodes -> {"idle", "node", "claim", "fetch", "apply", "remove", "revert"}]
        /\ dead' \in [Nodes -> SUBSET Nodes] /\ from' \in [Nodes -> Nodes \cup {None}]
        /\ orphans' \in [Nodes -> SUBSET Listed] /\ cur' \in [Nodes -> Listed \cup {None}]
    OBVIOUS
  <2> QED  BY <2>1, <2>2, <2>3
<1>4. SweepSane'
  BY DEF Typed, Shapes, SweepSane, InFlight, Stop
<1>5. CreatesLive'
  BY DEF Typed, Shapes, CreatesLive, Stop, Idle
<1>6. ProcessSane'
  BY DEF Typed, Shapes, ProcessSane, Stop, Idle, Empty
<1> QED  BY <1>3, <1>4, <1>5, <1>6 DEF Typed

\* The end of one claim.
LEMMA OnwardTyped ==
  ASSUME Typed, NEW n \in Nodes, NEW left \in SUBSET Listed, Next1(n, left),
         pc[n] = "claim" \/ InFlight(n),
         orphans' = [orphans EXCEPT ![n] = left],
         UNCHANGED <<up, dead, wq, got>>, \A m \in Nodes : up[m] = "down" => mem'[m] = mem[m]
  PROVE  /\ pc' \in [Nodes -> {"idle", "node", "claim", "fetch", "apply", "remove", "revert"}]
         /\ from' \in [Nodes -> Nodes \cup {None}]
         /\ orphans' \in [Nodes -> SUBSET Listed] /\ cur' \in [Nodes -> Listed \cup {None}]
         /\ SweepSane' /\ ProcessSane'
<1>1. /\ pc' = [pc EXCEPT ![n] = Onward(n, left)]
      /\ from' = [from EXCEPT ![n] = IF left # {} THEN from[n] ELSE None]
      /\ cur' = [cur EXCEPT ![n] = None]
  BY DEF Next1
<1>2. /\ Onward(n, left) \in {"claim", "node", "idle"}
      /\ Onward(n, left) = "claim" => left # {}
  BY DEF Onward
<1>3. from[n] \in Nodes /\ from[n] # n /\ up[n] \notin {"down", "load"}
  BY DEF Typed, SweepSane, ProcessSane, InFlight
<1> HIDE DEF Onward
<1>4. /\ pc' \in [Nodes -> {"idle", "node", "claim", "fetch", "apply", "remove", "revert"}]
      /\ from' \in [Nodes -> Nodes \cup {None}]
      /\ orphans' \in [Nodes -> SUBSET Listed] /\ cur' \in [Nodes -> Listed \cup {None}]
  BY <1>1, <1>2, <1>3 DEF Typed, Shapes
<1>5. SweepSane'
  BY <1>1, <1>2, <1>3 DEF Typed, Shapes, SweepSane, InFlight
<1>6. ProcessSane'
  BY <1>1, <1>3 DEF Typed, Shapes, ProcessSane
<1> QED  BY <1>4, <1>5, <1>6

\* Every step keeps the types.
LEMMA TypeStep == Typed /\ Next => Typed'
<1> SUFFICES ASSUME Typed, Next PROVE Typed'
  OBVIOUS
<1> USE DEF node, backend, sweep, bounds, counts
<1>n. Noted => shaken' \in SUBSET Ports
  BY NotedTyped DEF Typed
<1>s. SweepSane /\ UNCHANGED <<pc, dead, from, orphans, cur>> => SweepSane'
  BY DEF SweepSane, InFlight
<1>c. CreatesLive /\ UNCHANGED <<mem, wq>> => CreatesLive'
  BY DEF CreatesLive
<1>p. ProcessSane /\ UNCHANGED <<up, pc, orphans, mem, wq, got>> => ProcessSane'
  BY DEF ProcessSane
<1>1. ASSUME NEW n \in Nodes, Beat(n) PROVE Typed'
  BY <1>1, <1>n, <1>s, <1>c, <1>p DEF Typed, Shapes, Beat
<1>2. ASSUME NEW n \in Nodes, GoStale(n) PROVE Typed'
  BY <1>2, <1>n, <1>s, <1>c, <1>p DEF Typed, Shapes, GoStale
<1>3. ASSUME NEW n \in Nodes, SetDraining(n) PROVE Typed'
  BY <1>3, <1>n, <1>s, <1>c, <1>p DEF Typed, Shapes, SetDraining
<1>4. ASSUME NEW n \in Nodes, Crash(n) \/ Exit(n) PROVE Typed'
  <2>1. Stop(n) /\ Noted /\ UNCHANGED <<rows, expired, nextId, beat, bye, lost>>
    BY <1>4 DEF Crash, Exit
  <2> QED  BY <2>1, StopTyped
<1>5. ASSUME NEW n \in Nodes, Shutdown(n) \/ WriterExit(n) PROVE Typed'
  <2>1. /\ \E u \in {"leaving", "drain"} : up' = [up EXCEPT ![n] = u]
        /\ beat' \in [Nodes -> {"fresh", "stale"}] /\ bye' \in [Nodes -> BOOLEAN]
        /\ UNCHANGED <<draining, mem, wq, got, rows, expired, sweep, nextId, lost>> /\ Noted
    BY <1>5 DEF Shutdown, WriterExit, Typed, Shapes
  <2>2. Shapes'
    BY <2>1, <1>n DEF Typed, Shapes
  <2>3. ProcessSane'
    BY <2>1 DEF Typed, Shapes, ProcessSane
  <2> QED  BY <2>1, <2>2, <2>3, <1>s, <1>c DEF Typed
<1>6. ASSUME NEW n \in Nodes, Restart(n) PROVE Typed'
  <2>1. RowsOf(n) \in SUBSET Listed
    BY RowsOfListed DEF Typed
  <2>2. /\ up[n] = "down" /\ up' = [up EXCEPT ![n] = "load"] /\ Noted
        /\ orphans' = orphans \/ orphans' = [orphans EXCEPT ![n] = RowsOf(n)]
        /\ UNCHANGED <<draining, mem, wq, got, backend, suspicion, pc, dead, from, cur, nextId, lost>>
    BY <1>6 DEF Restart
  <2>3. pc[n] = "idle"
    BY <2>2 DEF Typed, Shapes, ProcessSane
  <2>4. orphans' \in [Nodes -> SUBSET Listed]
        /\ up' \in [Nodes -> {"up", "leaving", "drain", "load", "down"}]
    BY <2>1, <2>2 DEF Typed, Shapes
  <2>5. Shapes'
    BY <1>n, <2>2, <2>4 DEF Typed, Shapes
  <2>6. SweepSane'
    BY <2>2, <2>3 DEF Typed, Shapes, SweepSane, InFlight
  <2>7. ProcessSane'
    BY <2>2 DEF Typed, Shapes, ProcessSane
  <2> QED  BY <2>2, <2>5, <2>6, <2>7, <1>c DEF Typed
<1>7. ASSUME NEW n \in Nodes, Loaded(n) PROVE Typed'
  <2>1. /\ up' = [up EXCEPT ![n] = "up"]
        /\ beat' = [beat EXCEPT ![n] = "fresh"] /\ bye' = [bye EXCEPT ![n] = FALSE]
        /\ UNCHANGED <<draining, mem, wq, got, rows, expired, sweep, counts>> /\ Noted
    BY <1>7 DEF Loaded
  <2>2. Shapes'
    BY <2>1, <1>n DEF Typed, Shapes
  <2>3. ProcessSane'
    BY <2>1 DEF Typed, Shapes, ProcessSane
  <2> QED  BY <2>1, <2>2, <2>3, <1>s, <1>c DEF Typed
<1>8. ASSUME NEW n \in Nodes, StartSweep(n) PROVE Typed'
  <2> DEFINE s == Suspect(n)
             t == [m \in Nodes |-> IF s[m] < SuspicionTicks THEN s[m] ELSE SuspicionTicks - 1]
             d == {m \in Stale(n) : bye[m] \/ s[m] >= SuspicionTicks}
  <2>1. t \in [Nodes -> 0 .. SuspicionTicks - 1]
    <3>1. \A m \in Nodes : s[m] \in Nat
      BY FailoverAssumption DEF Typed, Shapes, Suspect
    <3> HIDE DEF s
    <3> QED  BY <3>1, FailoverAssumption
  <2>2. d \in SUBSET Nodes /\ n \notin d
    BY DEF Stale
  <2>3. /\ suspicion' = [suspicion EXCEPT ![n] = t] /\ dead' = [dead EXCEPT ![n] = d]
        /\ pc' = [pc EXCEPT ![n] = IF d = {} THEN "idle" ELSE "node"]
        /\ up[n] = "up" /\ UNCHANGED <<node, backend, from, orphans, cur, counts>> /\ Noted
    BY <1>8 DEF StartSweep
  <2> HIDE DEF s, t, d
  <2>4. Shapes'
    BY <1>n, <2>1, <2>2, <2>3 DEF Typed, Shapes
  <2>5. SweepSane'
    BY <2>2, <2>3 DEF Typed, Shapes, SweepSane, InFlight
  <2>6. ProcessSane'
    BY <2>3 DEF Typed, Shapes, ProcessSane
  <2> QED  BY <2>3, <2>4, <2>5, <2>6, <1>c DEF Typed
<1>9. ASSUME NEW n \in Nodes, SweepFails(n) PROVE Typed'
  BY <1>9, <1>n, <1>s, <1>c, <1>p DEF Typed, Shapes, SweepFails
<1>o. ASSUME NEW n \in Nodes, Next1(n, orphans[n]), InFlight(n), Noted,
             rows' \in [Ports -> Rows \cup {None}],
             mem' \in [Nodes -> [Ports -> Ids]], \A m \in Nodes : m # n => mem'[m] = mem[m],
             \A p \in Ports : mem[n][p] # 0 => mem'[n][p] = mem[n][p],
             UNCHANGED <<up, draining, wq, got, beat, bye, expired, suspicion, dead, orphans,
                         nextId, lost>>
      PROVE  Typed'
  <2>1. orphans[n] \in SUBSET Listed /\ orphans' = [orphans EXCEPT ![n] = orphans[n]]
    BY <1>o DEF Typed, Shapes
  <2>2. \A m \in Nodes : up[m] = "down" => mem'[m] = mem[m]
    BY <1>o DEF Typed, ProcessSane, InFlight
  <2>3. /\ pc' \in [Nodes -> {"idle", "node", "claim", "fetch", "apply", "remove", "revert"}]
        /\ from' \in [Nodes -> Nodes \cup {None}]
        /\ orphans' \in [Nodes -> SUBSET Listed] /\ cur' \in [Nodes -> Listed \cup {None}]
        /\ SweepSane' /\ ProcessSane'
    BY <1>o, <2>1, <2>2, OnwardTyped
  <2>4. Shapes'
    BY <1>o, <1>n, <2>3 DEF Typed, Shapes
  <2>5. CreatesLive'
    BY <1>o DEF Typed, CreatesLive
  <2> QED  BY <2>3, <2>4, <2>5 DEF Typed
<1>10. ASSUME NEW n \in Nodes, Refetch(n) PROVE Typed'
  <2>1. cur[n] \in Listed /\ cur[n].port \in Ports /\ InFlight(n) /\ Noted
        /\ UNCHANGED <<node, backend, suspicion, dead, orphans, bounds, lost>>
    BY <1>10, ListedFields DEF Refetch, Typed, SweepSane, InFlight
  <2>2. CASE Next1(n, orphans[n])
    BY <1>o, <2>1, <2>2 DEF Typed, Shapes
  <2>3. CASE ~Next1(n, orphans[n])
    <3> DEFINE new == [port |-> cur[n].port, id |-> rows[cur[n].port].id]
    <3>1. /\ rows[cur[n].port] # None /\ cur' = [cur EXCEPT ![n] = new]
          /\ pc' = [pc EXCEPT ![n] = "apply"] /\ UNCHANGED from
      BY <1>10, <2>3 DEF Refetch
    <3>2. new \in Listed
      BY <2>1, <3>1, ListedFields DEF Typed, Shapes
    <3> HIDE DEF new
    <3>3. Shapes'
      BY <1>n, <2>1, <3>1, <3>2 DEF Typed, Shapes
    <3>4. SweepSane'
      BY <2>1, <3>1, <3>2 DEF Typed, Shapes, SweepSane, InFlight
    <3>5. ProcessSane'
      BY <2>1, <3>1 DEF Typed, Shapes, ProcessSane, InFlight
    <3> QED  BY <2>1, <3>3, <3>4, <3>5, <1>c DEF Typed
  <2> QED  BY <2>2, <2>3
<1>11. ASSUME NEW n \in Nodes, ApplyOne(n) PROVE Typed'
  <2>1. /\ cur[n] \in Listed /\ cur[n].port \in Ports /\ cur[n].id \in Ids /\ InFlight(n) /\ Noted
        /\ UNCHANGED <<up, draining, wq, got, backend, suspicion, dead, orphans, counts>>
    BY <1>11, ListedFields DEF ApplyOne, Typed, SweepSane, InFlight
  <2>2. CASE Rehydrates(n, cur[n])
    <3>1. mem' = [mem EXCEPT ![n][cur[n].port] = cur[n].id] /\ Next1(n, orphans[n])
      BY <1>11, <2>2 DEF ApplyOne
    <3>2. mem[n][cur[n].port] = 0
      BY <2>2 DEF Rehydrates
    <3>3. /\ mem' \in [Nodes -> [Ports -> Ids]] /\ \A m \in Nodes : m # n => mem'[m] = mem[m]
          /\ \A p \in Ports : mem[n][p] # 0 => mem'[n][p] = mem[n][p]
      BY <2>1, <3>1, <3>2 DEF Typed, Shapes
    <3>4. rows' \in [Ports -> Rows \cup {None}]
      BY <2>1 DEF Typed, Shapes
    <3> QED  BY <1>o, <2>1, <3>1, <3>3, <3>4
  <2>3. CASE ~Rehydrates(n, cur[n])
    <3> DEFINE step == IF cur[n].id \in expired THEN "remove" ELSE "revert"
    <3>1. UNCHANGED <<mem, from, cur>> /\ pc' = [pc EXCEPT ![n] = step]
      BY <1>11, <2>3 DEF ApplyOne
    <3>2. step \in {"remove", "revert"}
      OBVIOUS
    <3> HIDE DEF step
    <3>3. Shapes'
      BY <1>n, <2>1, <3>1, <3>2 DEF Typed, Shapes
    <3>4. SweepSane'
      BY <2>1, <3>1, <3>2 DEF Typed, Shapes, SweepSane, InFlight
    <3>5. ProcessSane'
      BY <2>1, <3>1 DEF Typed, Shapes, ProcessSane, InFlight
    <3> QED  BY <2>1, <3>1, <3>3, <3>4, <3>5, <1>c DEF Typed
  <2> QED  BY <2>2, <2>3
<1>12. ASSUME NEW n \in Nodes, RemoveExpired(n) PROVE Typed'
  <2>1. /\ InFlight(n) /\ Next1(n, orphans[n]) /\ Noted
        /\ UNCHANGED <<node, beat, bye, expired, suspicion, dead, orphans, bounds, lost>>
    BY <1>12 DEF RemoveExpired, InFlight
  <2>2. rows' \in [Ports -> Rows \cup {None}] /\ mem' \in [Nodes -> [Ports -> Ids]]
    BY <1>12 DEF RemoveExpired, Typed, Shapes
  <2> QED  BY <1>o, <2>1, <2>2
<1>13. ASSUME NEW n \in Nodes, Revert(n) PROVE Typed'
  <2>1. /\ InFlight(n) /\ Next1(n, orphans[n]) /\ Noted
        /\ UNCHANGED <<node, beat, bye, expired, suspicion, dead, orphans, bounds, lost>>
    BY <1>13 DEF Revert, InFlight
  <2>2. from[n] \in Nodes /\ cur[n].port \in Ports
    BY <2>1, ListedFields DEF Typed, SweepSane
  <2>3. rows' \in [Ports -> Rows \cup {None}]
    <3>1. CASE UNCHANGED rows
      BY <3>1 DEF Typed, Shapes
    <3>2. CASE ~UNCHANGED rows
      <4>1. /\ rows' = [rows EXCEPT ![cur[n].port].owner = from[n]]
            /\ rows[cur[n].port] # None
        BY <1>13, <3>2 DEF Revert, Cas
      <4>2. [rows[cur[n].port] EXCEPT !.owner = from[n]] \in Rows
        BY <2>2, <4>1, ListedFields DEF Typed, Shapes
      <4> QED  BY <2>2, <4>1, <4>2 DEF Typed, Shapes
    <3> QED  BY <3>1, <3>2
  <2>4. mem' \in [Nodes -> [Ports -> Ids]]
    BY <2>1 DEF Typed, Shapes
  <2> QED  BY <1>o, <2>1, <2>3, <2>4
<1>14. ASSUME NEW n \in Nodes, NEW d \in dead[n], FindByNode(n, d) PROVE Typed'
  <2>1. /\ d \in Nodes /\ d # n /\ RowsOf(d) \in SUBSET Listed /\ pc[n] = "node" /\ Noted
        /\ UNCHANGED <<node, backend, suspicion, cur, bounds, lost>>
    BY <1>14, RowsOfListed DEF FindByNode, Typed, Shapes, SweepSane
  <2>2. orphans' \in [Nodes -> SUBSET Listed]
        /\ \A m \in Nodes : m # n => orphans'[m] = orphans[m]
    BY <1>14, <2>1 DEF FindByNode, Typed, Shapes
  <2>3. /\ dead' = [dead EXCEPT ![n] = dead[n] \ {d}]
        /\ from' = [from EXCEPT ![n] = IF orphans'[n] # {} THEN d ELSE None]
        /\ pc' = [pc EXCEPT ![n] = IF orphans'[n] # {} THEN "claim"
                                   ELSE IF dead'[n] # {} THEN "node" ELSE "idle"]
    BY <1>14 DEF FindByNode
  <2>4. Shapes'
    <3>1. /\ pc' \in [Nodes -> {"idle", "node", "claim", "fetch", "apply", "remove", "revert"}]
          /\ dead' \in [Nodes -> SUBSET Nodes] /\ from' \in [Nodes -> Nodes \cup {None}]
      BY <2>1, <2>3 DEF Typed, Shapes
    <3> QED  BY <1>n, <2>1, <2>2, <3>1 DEF Typed, Shapes
  <2>5. SweepSane'
    BY <2>1, <2>2, <2>3 DEF Typed, Shapes, SweepSane, InFlight
  <2>6. ProcessSane'
    BY <2>1, <2>2, <2>3 DEF Typed, Shapes, ProcessSane
  <2> QED  BY <2>1, <2>4, <2>5, <2>6, <1>c DEF Typed
<1>15. ASSUME NEW n \in Nodes, NEW r \in orphans[n], Claim(n, r) PROVE Typed'
  <2>1. /\ r \in Listed /\ r.port \in Ports /\ from[n] \in Nodes /\ from[n] # n /\ pc[n] = "claim"
        /\ orphans' = [orphans EXCEPT ![n] = orphans[n] \ {r}] /\ Noted
        /\ orphans' \in [Nodes -> SUBSET Listed]
        /\ UNCHANGED <<node, beat, bye, expired, suspicion, dead, bounds, lost>>
    BY <1>15, ListedFields DEF Claim, Typed, Shapes, SweepSane
  <2>2. CASE ~Next1(n, orphans[n] \ {r})
    <3>1. /\ Cas(r.port, from[n], n) /\ rows' = [rows EXCEPT ![r.port].owner = n]
          /\ cur' = [cur EXCEPT ![n] = r] /\ pc' = [pc EXCEPT ![n] = "fetch"] /\ UNCHANGED from
      BY <1>15, <2>2 DEF Claim
    <3>2. rows' \in [Ports -> Rows \cup {None}]
      BY <2>1, <3>1, ListedFields DEF Cas, Typed, Shapes
    <3>3. Shapes'
      BY <1>n, <2>1, <3>1, <3>2 DEF Typed, Shapes
    <3>4. SweepSane'
      BY <2>1, <3>1 DEF Typed, Shapes, SweepSane, InFlight
    <3>5. ProcessSane'
      BY <2>1, <3>1 DEF Typed, Shapes, ProcessSane
    <3> QED  BY <2>1, <3>3, <3>4, <3>5, <1>c DEF Typed
  <2>3. CASE Next1(n, orphans[n] \ {r})
    <3>1. rows' \in [Ports -> Rows \cup {None}]
      <4>1. CASE rows' = rows
        BY <4>1 DEF Typed, Shapes
      <4>2. CASE rows' # rows
        <5>1. rows[r.port] # None /\ rows' = [rows EXCEPT ![r.port].owner = n]
          BY <1>15, <4>2 DEF Claim, Cas
        <5>2. [rows[r.port] EXCEPT !.owner = n] \in Rows
          BY <2>1, <5>1, ListedFields DEF Typed, Shapes
        <5> QED  BY <2>1, <5>1, <5>2 DEF Typed, Shapes
      <4> QED  BY <4>1, <4>2
    <3>2. orphans[n] \ {r} \in SUBSET Listed
      BY DEF Typed, Shapes
    <3>3. /\ pc' \in [Nodes -> {"idle", "node", "claim", "fetch", "apply", "remove", "revert"}]
          /\ from' \in [Nodes -> Nodes \cup {None}] /\ cur' \in [Nodes -> Listed \cup {None}]
          /\ SweepSane' /\ ProcessSane'
      BY <2>1, <2>3, <3>2, OnwardTyped
    <3>4. Shapes'
      BY <1>n, <2>1, <3>1, <3>3 DEF Typed, Shapes
    <3> QED  BY <2>1, <3>3, <3>4, <1>c DEF Typed
  <2> QED  BY <2>2, <2>3
<1>16. ASSUME NEW n \in Nodes, NEW p \in Ports, Create(n, p) PROVE Typed'
  <2>1. nextId \in Ids /\ nextId # 0 /\ nextId' \in 1 .. MaxId + 1
    BY <1>16, FailoverAssumption DEF Create, Typed, Shapes, Ids
  <2>2. /\ up[n] = "up" /\ mem' = [mem EXCEPT ![n][p] = nextId]
        /\ wq' = [wq EXCEPT ![n][p] = "create"] /\ Noted
        /\ UNCHANGED <<up, draining, got, backend, sweep, lost>>
    BY <1>16 DEF Create
  <2>3. Shapes'
    BY <1>n, <2>1, <2>2 DEF Typed, Shapes
  <2>4. ProcessSane' /\ CreatesLive'
    BY <2>1, <2>2 DEF Typed, Shapes, ProcessSane, CreatesLive
  <2> QED  BY <2>2, <2>3, <2>4, <1>s DEF Typed
<1>17. ASSUME NEW n \in Nodes, NEW p \in Ports, Touch(n, p) \/ Remove(n, p) PROVE Typed'
  <2>1. 0 \in Ids
    BY FailoverAssumption DEF Ids
  <2>2. PICK w \in {"none", "touch", "remove"} :
        /\ up[n] \in {"up", "leaving", "drain"} /\ wq' = [wq EXCEPT ![n][p] = w]
        /\ mem' = mem \/ mem' = [mem EXCEPT ![n][p] = 0]
        /\ UNCHANGED <<up, draining, got, backend, sweep, nextId, lost>> /\ Noted
    BY <1>17 DEF Touch, Remove
  <2>3. Shapes'
    <3>1. mem' \in [Nodes -> [Ports -> Ids]]
      <4>1. CASE mem' = mem
        BY <4>1 DEF Typed, Shapes
      <4>2. CASE mem' = [mem EXCEPT ![n][p] = 0]
        BY <2>1, <4>2 DEF Typed, Shapes
      <4> QED  BY <2>2, <4>1, <4>2
    <3>2. wq' \in [Nodes -> [Ports -> {"none", "create", "touch", "remove"}]]
      BY <2>2 DEF Typed, Shapes
    <3> QED  BY <1>n, <2>2, <3>1, <3>2 DEF Typed, Shapes
  <2>4. ProcessSane' /\ CreatesLive'
    BY <2>1, <2>2 DEF Typed, Shapes, ProcessSane, CreatesLive
  <2> QED  BY <2>2, <2>3, <2>4, <1>s DEF Typed
<1>18. ASSUME NEW n \in Nodes, NEW p \in Ports, Flush(n, p) PROVE Typed'
  <2>1. wq[n][p] = "create" => mem[n][p] \in 1 .. MaxId
    BY FailoverAssumption DEF Typed, Shapes, CreatesLive, Ids
  <2>2. rows' \in [Ports -> Rows \cup {None}]
    <3> DEFINE w == IF wq[n][p] = "create" THEN Row(n, mem[n][p]) ELSE None
    <3>1. w \in Rows \cup {None}
      BY <2>1, ListedFields
    <3>2. rows' = rows \/ rows' = [rows EXCEPT ![p] = w]
      BY <1>18 DEF Flush
    <3> HIDE DEF w
    <3> QED  BY <3>1, <3>2 DEF Typed, Shapes
  <2>3. /\ wq' = [wq EXCEPT ![n][p] = "none"] /\ Noted /\ lost' \in SUBSET Ports
        /\ UNCHANGED <<up, draining, mem, got, beat, bye, expired, sweep, bounds>>
    BY <1>18 DEF Flush, Typed, Shapes
  <2>4. Shapes'
    BY <1>n, <2>2, <2>3 DEF Typed, Shapes
  <2>5. ProcessSane' /\ CreatesLive'
    BY <2>3 DEF Typed, Shapes, ProcessSane, CreatesLive
  <2> QED  BY <2>3, <2>4, <2>5, <1>s DEF Typed
<1>19. ASSUME NEW n \in Nodes, NEW p \in Ports, FlushTouched(n, p) PROVE Typed'
  <2>1. rows[p] # None => [port |-> p, row |-> rows[p]] \in Merges
    BY ListedFields DEF Typed, Shapes
  <2>2. /\ wq' = [wq EXCEPT ![n][p] = "none"] /\ Noted /\ up[n] \in {"up", "leaving"}
        /\ UNCHANGED <<up, draining, mem, backend, sweep, bounds, lost>>
        /\ \E g : got' = [got EXCEPT ![n] = g] /\ g \in Merges \cup {None}
    <3>1. CASE got' = got
      <4>1. got' = [got EXCEPT ![n] = got[n]] /\ got[n] \in Merges \cup {None}
        BY <3>1 DEF Typed, Shapes
      <4> QED  BY <1>19, <4>1 DEF FlushTouched
    <3>2. CASE got' # got
      BY <1>19, <2>1, <3>2 DEF FlushTouched
    <3> QED  BY <3>1, <3>2
  <2>3. Shapes'
    BY <1>n, <2>2 DEF Typed, Shapes
  <2>4. ProcessSane' /\ CreatesLive'
    BY <2>2 DEF Typed, Shapes, ProcessSane, CreatesLive
  <2> QED  BY <2>2, <2>3, <2>4, <1>s DEF Typed
<1>20. ASSUME NEW n \in Nodes, StoreMerged(n) PROVE Typed'
  <2>1. /\ got[n] \in Merges /\ got' = [got EXCEPT ![n] = None] /\ Noted
        /\ UNCHANGED <<up, draining, mem, wq, beat, bye, expired, sweep, bounds, lost>>
        /\ rows' = rows \/ rows' = [rows EXCEPT ![got[n].port] = got[n].row]
    BY <1>20 DEF StoreMerged, Typed, Shapes
  <2>2. rows' \in [Ports -> Rows \cup {None}]
    BY <2>1, ListedFields DEF Typed, Shapes
  <2>3. Shapes'
    BY <1>n, <2>1, <2>2 DEF Typed, Shapes
  <2>4. ProcessSane'
    BY <2>1 DEF Typed, Shapes, ProcessSane
  <2> QED  BY <2>1, <2>3, <2>4, <1>s, <1>c DEF Typed
<1>21. ASSUME NEW n \in Nodes, NEW r \in orphans[n], LoadRow(n, r) PROVE Typed'
  <2>1. /\ r \in Listed /\ r.port \in Ports /\ r.id \in Ids /\ up[n] = "load" /\ Noted
        /\ orphans' = [orphans EXCEPT ![n] = orphans[n] \ {r}]
        /\ mem' = mem \/ mem' = [mem EXCEPT ![n][r.port] = r.id]
        /\ UNCHANGED <<up, draining, wq, got, backend, suspicion, pc, dead, from, cur, counts>>
    BY <1>21, ListedFields DEF LoadRow, Typed, Shapes
  <2>2. orphans' \in [Nodes -> SUBSET Listed]
    BY <2>1 DEF Typed, Shapes
  <2>m. mem' \in [Nodes -> [Ports -> Ids]] /\ \A m \in Nodes : m # n => mem'[m] = mem[m]
    <3>1. CASE mem' = mem
      BY <3>1 DEF Typed, Shapes
    <3>2. CASE mem' = [mem EXCEPT ![n][r.port] = r.id]
      BY <2>1, <3>2 DEF Typed, Shapes
    <3> QED  BY <2>1, <3>1, <3>2
  <2>3. Shapes'
    BY <1>n, <2>1, <2>2, <2>m DEF Typed, Shapes
  <2>4. pc[n] = "idle" /\ \A p \in Ports : wq[n][p] = "none"
    BY <2>1 DEF Typed, ProcessSane
  <2>5. SweepSane' /\ ProcessSane'
    BY <2>1, <2>4 DEF Typed, Shapes, SweepSane, ProcessSane, InFlight
  <2>6. CreatesLive'
    BY <2>1, <2>4, <2>m DEF Typed, CreatesLive
  <2> QED  BY <2>3, <2>5, <2>6 DEF Typed
<1>22. ASSUME NEW i \in 1 .. MaxId, Expire(i) PROVE Typed'
  BY <1>22, <1>n, <1>s, <1>c, <1>p DEF Typed, Shapes, Expire
<1> QED
  BY <1>1, <1>2, <1>3, <1>4, <1>5, <1>6, <1>7, <1>8, <1>9, <1>10, <1>11, <1>12, <1>13,
     <1>14, <1>15, <1>16, <1>17, <1>18, <1>19, <1>20, <1>21, <1>22
  DEF Next, SweepStep

\* The induction over types.
LEMMA TypedAlways == Spec => []Typed
<1>1. Init => Typed
  <2> SUFFICES ASSUME Init PROVE Typed
    OBVIOUS
  <2>1. Empty \in [Ports -> Ids] /\ Idle \in [Ports -> {"none", "create", "touch", "remove"}]
    BY FailoverAssumption DEF Empty, Idle, Ids
  <2>2. [m \in Nodes |-> 0] \in [Nodes -> 0 .. SuspicionTicks - 1] /\ 1 \in 1 .. MaxId + 1
    BY FailoverAssumption
  <2>3. Shapes
    BY <2>1, <2>2 DEF Init, Shapes
  <2> QED  BY <2>3 DEF Typed, Init, SweepSane, ProcessSane, CreatesLive, InFlight, Idle
<1>2. Typed /\ UNCHANGED vars => Typed'
  BY DEF Typed, Shapes, SweepSane, ProcessSane, CreatesLive, InFlight, vars, node, backend, sweep,
         bounds, counts
<1> QED  BY <1>1, <1>2, TypeStep, PTL DEF Spec

(***************************************************************************)
(* Rows, heartbeats, sweeps and pending writes keep their types, for any   *)
(* nodes, ports and bounds: a claim is never at hand without the orphan it *)
(* is of (sweep_once).                                                     *)
(***************************************************************************)
THEOREM TypeCorrect == Spec => []TypeOK
<1>1. Typed => TypeOK
  BY ListedFields DEF Typed, Shapes, SweepSane, InFlight, TypeOK
<1> QED  BY <1>1, TypedAlways, PTL

----------------------------------------------------------------------------
(* Ownership *)

\* A call of m about port p is under way.
Busy(m, p) ==
    \/ InFlight(m) /\ cur[m].port = p
    \/ got[m] # None /\ got[m].port = p
    \/ up[m] = "load" /\ \E r \in orphans[m] : r.port = p

\* m neither serves p nor is about to do anything with it.
Away(m, p) == mem[m][p] = 0 /\ wq[m][p] = "none" /\ ~Busy(m, p)

\* What is away from a port is safe there.
LEMMA AwaySafe == ASSUME NEW m \in Nodes, NEW p \in Ports, Away(m, p)' PROVE Safe(m, p)'
<1>1. mem'[m][p] = 0 /\ wq'[m][p] = "none"
  BY DEF Away
<1>2. Entitled(m, p)' /\ ServesOwn(m, p)'
  BY <1>1 DEF Entitled, ServesOwn
<1>3. ClaimHeld(m, p)'
  BY DEF ClaimHeld, Away, Busy
<1>4. LoadHeld(m, p)'
  BY DEF LoadHeld, Away, Busy
<1>5. MergeHeld(m, p)'
  BY DEF MergeHeld, Away, Busy
<1> QED  BY <1>2, <1>3, <1>4, <1>5 DEF Safe

\* What a node serves or writes about it may pick, or has in its name; the node lives.
LEMMA UsesEntitled ==
  ASSUME Typed, NEW n \in Nodes, NEW p \in Ports, Safe(n, p), Uses(n, p)
  PROVE  Owns(n, p) \/ (up[n] # "down" /\ p \in Pick[n])
<1>1. CASE Owns(n, p)
  BY <1>1
<1>2. CASE ~Owns(n, p)
  <2>1. mem[n][p] # 0 \/ wq[n][p] # "none"
    BY <1>2 DEF Uses, Owns
  <2>2. up[n] # "down"
    BY <2>1 DEF Typed, ProcessSane
  <2>3. p \in Pick[n]
    BY <1>2, <2>1 DEF Safe, Entitled
  <2> QED  BY <2>2, <2>3
<1> QED  BY <1>1, <1>2

\* A port that was never shaken has one user at most.
LEMMA SoleUser ==
  ASSUME Typed, Owned, NEW p \in Ports, p \notin shaken,
         NEW n \in Nodes, Uses(n, p), NEW m \in Nodes, m # n
  PROVE  ~Uses(m, p) /\ ~(up[m] # "down" /\ p \in Pick[m]) /\ ~Doubted(n) /\ Away(m, p)
<1>1. p \notin Shaky
  BY DEF Owned
<1>2. ~Doubted(n) /\ ~(up[m] # "down" /\ p \in Pick[m])
  BY <1>1 DEF Shaky
<1>3. Safe(n, p) /\ Safe(m, p)
  BY DEF Owned
<1>4. ~Uses(m, p)
  <2> SUFFICES ASSUME Uses(m, p) PROVE FALSE
    OBVIOUS
  <2>1. Owns(m, p)
    BY <1>2, <1>3, UsesEntitled
  <2>2. ~Owns(n, p)
    BY <2>1 DEF Owns
  <2>3. up[n] # "down" /\ p \in Pick[n]
    BY <1>3, <2>2, UsesEntitled
  <2> QED  BY <1>1, <2>3 DEF Shaky
<1>5. mem[m][p] = 0 /\ wq[m][p] = "none" /\ ~Owns(m, p)
  BY <1>4 DEF Uses, Owns
<1>6. ~Busy(m, p)
  <2>1. ~(InFlight(m) /\ cur[m].port = p)
    BY <1>3, <1>5 DEF Safe, ClaimHeld
  <2>2. ~(got[m] # None /\ got[m].port = p)
    BY <1>3, <1>5 DEF Safe, MergeHeld
  <2>3. ~(up[m] = "load" /\ \E r \in orphans[m] : r.port = p)
    <3> SUFFICES ASSUME up[m] = "load", NEW r \in orphans[m], r.port = p PROVE FALSE
      OBVIOUS
    <3> QED  BY <1>3, <1>5 DEF Safe, LoadHeld
  <2> QED  BY <2>1, <2>2, <2>3 DEF Busy
<1> QED  BY <1>2, <1>4, <1>5, <1>6 DEF Away

\* What a step leaves alone of a node and a port.
Same(m, p) ==
    /\ mem'[m][p] = mem[m][p] /\ wq'[m][p] = wq[m][p]
    /\ got'[m] # None /\ got'[m].port = p => got'[m] = got[m]
    /\ InFlight(m)' /\ cur'[m].port = p =>
          InFlight(m) /\ cur'[m] = cur[m] /\ (pc'[m] # "fetch" => pc[m] # "fetch")
    /\ up'[m] = "load" => up[m] = "load" /\ orphans'[m] \subseteq orphans[m]

\* A node that is left alone, with its row, stays safe.
LEMMA SafeFrame ==
  ASSUME NEW m \in Nodes, NEW p \in Ports, Safe(m, p), Same(m, p), rows'[p] = rows[p],
         p \in lost => p \in lost'
  PROVE  Safe(m, p)'
<1>1. Owns(m, p)' <=> Owns(m, p)
  BY DEF Owns
<1>2. Entitled(m, p)'
  BY <1>1 DEF Safe, Entitled, Same
<1>3. ServesOwn(m, p)'
  BY DEF Safe, ServesOwn, Same, Row
<1>4. ClaimHeld(m, p)'
  BY <1>1 DEF Safe, ClaimHeld, Same
<1>5. LoadHeld(m, p)'
  BY <1>1 DEF Safe, LoadHeld, Same
<1>6. MergeHeld(m, p)'
  BY <1>1 DEF Safe, MergeHeld, Same
<1> QED  BY <1>2, <1>3, <1>4, <1>5, <1>6 DEF Safe

\* A node that is away from a port and is left alone stays away.
LEMMA AwayFrame ==
  ASSUME NEW m \in Nodes, NEW p \in Ports, Away(m, p), Same(m, p) PROVE Away(m, p)'
  BY DEF Away, Busy, Same

\* Others that are away from the site of a step stay safe there.
LEMMA AwayOthers ==
  ASSUME NEW n \in Nodes, NEW q \in Ports,
         \A m \in Nodes : m # n => Away(m, q) /\ Same(m, q)
  PROVE  \A m \in Nodes : m # n => Safe(m, q)'
  BY AwayFrame, AwaySafe

\* One node works at one port; everywhere else nothing changes.
LEMMA OneSite ==
  ASSUME Typed, Owned, Noted, NEW n \in Nodes, NEW q \in Ports,
         \A m \in Nodes, p \in Ports : m # n \/ p # q => Same(m, p),
         \A p \in Ports : p # q => rows'[p] = rows[p] /\ (p \in lost => p \in lost'),
         q \notin shaken' =>
            /\ Safe(n, q)'
            /\ \/ rows'[q] = rows[q] /\ (q \in lost => q \in lost')
               \/ \A m \in Nodes : m # n => Safe(m, q)'
  PROVE  Owned'
<1>1. shaken \subseteq shaken' /\ Shaky' \subseteq shaken'
  BY DEF Noted
<1>2. ASSUME NEW m \in Nodes, NEW p \in Ports \ shaken' PROVE Safe(m, p)'
  <2>1. p \in Ports /\ Safe(m, p)
    BY <1>1, <1>2 DEF Owned
  <2>2. CASE p # q
    BY <2>1, <2>2, SafeFrame
  <2>3. CASE p = q /\ m = n
    BY <1>2, <2>3
  <2>4. CASE p = q /\ m # n
    <3>1. Same(m, p)
      BY <2>4
    <3>2. CASE rows'[q] = rows[q] /\ (q \in lost => q \in lost')
      BY <2>1, <2>4, <3>1, <3>2, SafeFrame
    <3> QED  BY <1>2, <2>4, <3>2
  <2> QED  BY <2>2, <2>3, <2>4
<1> QED  BY <1>1, <1>2 DEF Owned

\* Steps that leave the work of every node at every port alone.
LEMMA NoSite ==
  ASSUME Typed, Owned, Noted, UNCHANGED <<rows, lost>>,
         \A m \in Nodes, p \in Ports : Same(m, p)
  PROVE  Owned'
<1>1. shaken \subseteq shaken' /\ Shaky' \subseteq shaken'
  BY DEF Noted
<1>2. ASSUME NEW m \in Nodes, NEW p \in Ports \ shaken' PROVE Safe(m, p)'
  <2>1. p \in Ports /\ Safe(m, p)
    BY <1>1, <1>2 DEF Owned
  <2> QED  BY <2>1, SafeFrame
<1> QED  BY <1>1, <1>2 DEF Owned

\* Every step keeps ownership.
LEMMA OwnedStep == ASSUME Typed, Owned, Next PROVE Owned'
<1> USE DEF node, backend, sweep, bounds, counts
<1>m. Noted => shaken \subseteq shaken' /\ Shaky' \subseteq shaken'
  BY DEF Noted
<1>1. ASSUME NEW n \in Nodes,
             \/ Beat(n) \/ GoStale(n) \/ SetDraining(n) \/ StartSweep(n) \/ SweepFails(n)
             \/ Shutdown(n) \/ WriterExit(n) \/ Loaded(n)
      PROVE  Owned'
  <2>1. Noted /\ UNCHANGED <<rows, lost, mem, wq, got, orphans, cur>>
    BY <1>1 DEF Beat, GoStale, SetDraining, StartSweep, SweepFails, Shutdown, WriterExit, Loaded
  <2>2. \A m \in Nodes : up'[m] = "load" => up[m] = "load"
    BY <1>1 DEF Beat, GoStale, SetDraining, StartSweep, SweepFails, Shutdown, WriterExit, Loaded,
                Typed, Shapes
  <2>3. \A m \in Nodes : pc'[m] = pc[m] \/ pc'[m] \in {"idle", "node"}
    BY <1>1 DEF Beat, GoStale, SetDraining, StartSweep, SweepFails, Shutdown, WriterExit, Loaded,
                Typed, Shapes
  <2>4. \A m \in Nodes, p \in Ports : Same(m, p)
    BY <2>1, <2>2, <2>3 DEF Same, InFlight
  <2> QED  BY <2>1, <2>4, NoSite
<1>2. ASSUME NEW i \in 1 .. MaxId, Expire(i) PROVE Owned'
  <2>1. Noted /\ UNCHANGED <<rows, lost, mem, wq, got, orphans, cur, up, pc>>
    BY <1>2 DEF Expire
  <2>2. \A m \in Nodes, p \in Ports : Same(m, p)
    BY <2>1 DEF Same, InFlight
  <2> QED  BY <2>1, <2>2, NoSite
<1>3. ASSUME NEW n \in Nodes, Crash(n) \/ Exit(n) PROVE Owned'
  <2>1. Stop(n) /\ Noted /\ UNCHANGED <<rows, lost>>
    BY <1>3 DEF Crash, Exit
  <2>2. ASSUME NEW p \in Ports PROVE Away(n, p)'
    BY <2>1 DEF Stop, Away, Busy, InFlight, Typed, Shapes, Empty, Idle
  <2>3. ASSUME NEW m \in Nodes, m # n, NEW p \in Ports PROVE Same(m, p)
    BY <2>1, <2>3 DEF Stop, Same, InFlight, Typed, Shapes
  <2>4. ASSUME NEW m \in Nodes, NEW p \in Ports \ shaken' PROVE Safe(m, p)'
    <3>1. p \in Ports /\ Safe(m, p)
      BY <1>m, <2>1, <2>4 DEF Owned
    <3>2. CASE m = n
      BY <2>2, <3>1, <3>2, AwaySafe
    <3>3. CASE m # n
      BY <2>1, <2>3, <3>1, <3>3, SafeFrame
    <3> QED  BY <3>2, <3>3
  <2> QED  BY <1>m, <2>1, <2>4 DEF Owned
<1>4. ASSUME NEW n \in Nodes, Restart(n) PROVE Owned'
  <2>1. /\ up[n] = "down" /\ up' = [up EXCEPT ![n] = "load"] /\ Noted
        /\ orphans' = orphans \/ orphans' = [orphans EXCEPT ![n] = RowsOf(n)]
        /\ UNCHANGED <<rows, lost, mem, wq, got, pc, cur>>
    BY <1>4 DEF Restart
  <2>2. /\ orphans[n] = {} /\ pc[n] = "idle" /\ got[n] = None
        /\ \A p \in Ports : mem[n][p] = 0 /\ wq[n][p] = "none"
    BY <2>1 DEF Typed, ProcessSane
  <2>3. orphans'[n] \subseteq RowsOf(n) /\ \A m \in Nodes : m # n => orphans'[m] = orphans[m]
    BY <2>1, <2>2 DEF Typed, Shapes
  <2>4. ASSUME NEW m \in Nodes, m # n, NEW p \in Ports PROVE Same(m, p)
    BY <2>1, <2>3, <2>4 DEF Same, InFlight, Typed, Shapes
  <2>5. ASSUME NEW p \in Ports PROVE Safe(n, p)'
    <3>1. Entitled(n, p)' /\ ServesOwn(n, p)' /\ ClaimHeld(n, p)' /\ MergeHeld(n, p)'
      BY <2>1, <2>2 DEF Entitled, ServesOwn, ClaimHeld, MergeHeld, InFlight
    <3>2. LoadHeld(n, p)'
      <4> SUFFICES ASSUME NEW r \in RowsOf(n), r.port = p
                   PROVE  Owns(n, p) /\ rows[p].id = r.id
        BY <2>1, <2>2, <2>3 DEF LoadHeld, Owns
      <4>1. PICK x \in Ports :
              rows[x] # None /\ rows[x].owner = n /\ r = [port |-> x, id |-> rows[x].id]
        BY DEF RowsOf
      <4> QED  BY <4>1 DEF Owns
    <3> QED  BY <3>1, <3>2 DEF Safe
  <2>6. ASSUME NEW m \in Nodes, NEW p \in Ports \ shaken' PROVE Safe(m, p)'
    <3>1. p \in Ports /\ Safe(m, p)
      BY <1>m, <2>1, <2>6 DEF Owned
    <3>2. CASE m # n
      BY <2>1, <2>4, <3>1, <3>2, SafeFrame
    <3> QED  BY <2>5, <3>1, <3>2
  <2> QED  BY <1>m, <2>1, <2>6 DEF Owned
<1>5. ASSUME NEW n \in Nodes, NEW r \in orphans[n], LoadRow(n, r) PROVE Owned'
  <2> DEFINE q == r.port
  <2>1. /\ r \in Listed /\ q \in Ports /\ r.id \in Ids /\ up[n] = "load" /\ Noted
        /\ orphans' = [orphans EXCEPT ![n] = orphans[n] \ {r}]
        /\ mem' = mem \/ mem' = [mem EXCEPT ![n][q] = r.id]
        /\ UNCHANGED <<up, wq, got, rows, lost, pc, cur>>
    BY <1>5, ListedFields DEF LoadRow, Typed, Shapes
  <2>2. /\ pc[n] = "idle" /\ got[n] = None /\ wq[n][q] = "none"
    BY <2>1 DEF Typed, ProcessSane
  <2> HIDE DEF q
  <2>3. /\ \A m \in Nodes, p \in Ports : m # n \/ p # q => mem'[m][p] = mem[m][p]
        /\ mem'[n][q] = mem[n][q] \/ mem'[n][q] = r.id
    <3>1. CASE mem' = mem
      BY <3>1
    <3>2. CASE mem' = [mem EXCEPT ![n][q] = r.id]
      BY <2>1, <3>2 DEF Typed, Shapes
    <3> QED  BY <2>1, <3>1, <3>2
  <2>4. \A m \in Nodes, p \in Ports : m # n \/ p # q => Same(m, p)
    BY <2>1, <2>3 DEF Same, InFlight, Typed, Shapes
  <2>5. ASSUME q \notin shaken' PROVE Safe(n, q)'
    <3>1. Owns(n, q) /\ rows[q].id = r.id /\ mem[n][q] = 0
      BY <1>m, <2>1, <2>5 DEF Owned, Safe, LoadHeld, q
    <3>2. rows[q] = Row(n, r.id)
      BY <2>1, <3>1, ListedFields DEF Owns, Typed, Shapes
    <3>3. Owns(n, q)'
      BY <2>1, <3>1 DEF Owns
    <3>4. Entitled(n, q)' /\ ServesOwn(n, q)'
      BY <2>1, <2>2, <2>3, <3>1, <3>2, <3>3 DEF Entitled, ServesOwn, Row
    <3>5. ClaimHeld(n, q)' /\ MergeHeld(n, q)'
      BY <2>1, <2>2 DEF ClaimHeld, MergeHeld, InFlight
    <3>6. LoadHeld(n, q)'
      <4> SUFFICES ASSUME NEW s \in orphans[n] \ {r}, s.port = q PROVE FALSE
        BY <2>1 DEF LoadHeld, Typed, Shapes
      <4>1. s \in Listed /\ rows[q].id = s.id
        BY <1>m, <2>1, <2>5 DEF Owned, Safe, LoadHeld, Typed, Shapes
      <4>2. s.port = r.port /\ s.id = r.id
        BY <3>1, <4>1 DEF q
      <4>3. s = r
        BY <2>1, <4>1, <4>2, ListedFields
      <4> QED  BY <4>3
    <3> QED  BY <3>4, <3>5, <3>6 DEF Safe
  <2> QED  BY <2>1, <2>4, <2>5, OneSite
<1>6. ASSUME NEW n \in Nodes, NEW d \in dead[n], FindByNode(n, d) PROVE Owned'
  <2>1. /\ pc[n] = "node" /\ Noted /\ UNCHANGED <<rows, lost, mem, wq, got, cur, up>>
        /\ \A m \in Nodes : m # n => orphans'[m] = orphans[m] /\ pc'[m] = pc[m]
        /\ pc'[n] \in {"claim", "node", "idle"}
    BY <1>6 DEF FindByNode, Typed, Shapes
  <2>2. up[n] # "load"
    BY <2>1 DEF Typed, ProcessSane
  <2>3. \A m \in Nodes, p \in Ports : Same(m, p)
    BY <2>1, <2>2 DEF Same, InFlight
  <2> QED  BY <2>1, <2>3, NoSite
<1>o. ASSUME NEW n \in Nodes, NEW left, Next1(n, left)
      PROVE  ~InFlight(n)' /\ \A m \in Nodes : m # n => pc'[m] = pc[m] /\ cur'[m] = cur[m]
  <2>1. pc'[n] = Onward(n, left) /\ \A m \in Nodes : m # n => pc'[m] = pc[m] /\ cur'[m] = cur[m]
    BY <1>o DEF Next1, Typed, Shapes
  <2>2. Onward(n, left) \in {"claim", "node", "idle"}
    BY DEF Onward
  <2> QED  BY <2>1, <2>2 DEF InFlight
\* The end of a claim, when the row of the claim is the only thing it has changed.
<1>e. ASSUME NEW n \in Nodes, InFlight(n), Next1(n, orphans[n]), Noted,
             UNCHANGED <<mem, wq, got, up, orphans, lost>>,
             \A p \in Ports : p # cur[n].port => rows'[p] = rows[p]
      PROVE  Owned'
  <2>0. cur[n].port \in Ports
    BY <1>e, ListedFields DEF Typed, SweepSane
  <2> PICK q \in Ports : q = cur[n].port
    BY <2>0
  <2>1. up[n] \notin {"down", "load"}
    BY <1>e DEF Typed, ProcessSane, InFlight
  <2>2. ~InFlight(n)' /\ \A m \in Nodes : m # n => pc'[m] = pc[m] /\ cur'[m] = cur[m]
    BY <1>e, <1>o
  <2>3. \A m \in Nodes, p \in Ports : Same(m, p)
    BY <1>e, <2>2 DEF Same, InFlight
  <2>4. ASSUME q \notin shaken' PROVE Safe(n, q)' /\ \A m \in Nodes : m # n => Safe(m, q)'
    <3>1. q \notin shaken /\ Safe(n, q)
      BY <1>e, <1>m, <2>1, <2>4 DEF Owned
    <3>2. /\ Owns(n, q) /\ mem[n][q] = 0 /\ wq[n][q] = "none"
          /\ ~(got[n] # None /\ got[n].port = q)
      BY <1>e, <3>1 DEF Safe, ClaimHeld
    <3>3. Away(n, q)'
      BY <1>e, <2>1, <2>2, <3>2 DEF Away, Busy
    <3>4. Uses(n, q)
      BY <3>2 DEF Owns, Uses
    <3>5. \A m \in Nodes : m # n => Away(m, q)
      BY <2>1, <3>1, <3>4, SoleUser
    <3>6. \A m \in Nodes : m # n => Safe(m, q)'
      BY <2>1, <2>3, <3>5, AwayOthers
    <3> QED  BY <2>1, <3>3, <3>6, AwaySafe
  <2>5. \A p \in Ports : p # q => rows'[p] = rows[p] /\ (p \in lost => p \in lost')
    BY <1>e
  <2> QED  BY <1>e, <2>1, <2>3, <2>4, <2>5, OneSite
<1>7. ASSUME NEW n \in Nodes, Refetch(n) PROVE Owned'
  <2>1. InFlight(n) /\ Noted /\ UNCHANGED <<rows, mem, wq, got, up, orphans, lost>>
    BY <1>7 DEF Refetch, InFlight
  <2>2. CASE Next1(n, orphans[n])
    BY <1>e, <2>1, <2>2
  <2>3. CASE ~Next1(n, orphans[n])
    <3>0. cur[n].port \in Ports
      BY <2>1, ListedFields DEF Typed, SweepSane
    <3> PICK q \in Ports : q = cur[n].port
      BY <3>0
    <3> DEFINE new == [port |-> q, id |-> rows[q].id]
    <3>1. /\ rows[q] # None /\ cur' = [cur EXCEPT ![n] = new] /\ pc' = [pc EXCEPT ![n] = "apply"]
      BY <1>7, <2>3 DEF Refetch
    <3>2. new.port = q /\ new.id = rows[q].id
      OBVIOUS
    <3>3. cur'[n] = new /\ pc'[n] = "apply"
          /\ \A m \in Nodes : m # n => pc'[m] = pc[m] /\ cur'[m] = cur[m]
      BY <3>1 DEF Typed, Shapes
    <3> HIDE DEF new
    <3>4. \A m \in Nodes, p \in Ports : m # n \/ p # q => Same(m, p)
      BY <2>1, <3>2, <3>3 DEF Same, InFlight
    <3>5. ASSUME q \notin shaken' PROVE Safe(n, q)'
      <4>1. Safe(n, q)
        BY <1>m, <2>1, <3>2, <3>5 DEF Owned
      <4>2. /\ Owns(n, q) /\ q \notin Pick[n] /\ mem[n][q] = 0 /\ wq[n][q] = "none"
            /\ ~(got[n] # None /\ got[n].port = q)
        BY <2>1, <4>1 DEF Safe, ClaimHeld
      <4>3. Entitled(n, q)' /\ ServesOwn(n, q)' /\ LoadHeld(n, q)' /\ MergeHeld(n, q)'
        <5>1. up[n] # "load"
          BY <2>1 DEF Typed, ProcessSane, InFlight
        <5> QED  BY <2>1, <4>2, <5>1 DEF Entitled, ServesOwn, LoadHeld, MergeHeld
      <4>4. ClaimHeld(n, q)'
        BY <2>1, <3>2, <3>3, <4>2 DEF ClaimHeld, Owns
      <4> QED  BY <4>3, <4>4 DEF Safe
    <3> QED  BY <2>1, <3>2, <3>4, <3>5, OneSite
  <2> QED  BY <2>2, <2>3
<1>8. ASSUME NEW n \in Nodes, ApplyOne(n) PROVE Owned'
  <2>0. pc[n] = "apply" /\ cur[n] \in Listed /\ cur[n].port \in Ports
    BY <1>8, ListedFields DEF ApplyOne, InFlight, Typed, SweepSane
  <2> PICK q \in Ports : q = cur[n].port
    BY <2>0
  <2>1. /\ InFlight(n) /\ pc[n] = "apply" /\ Noted /\ cur[n] \in Listed
        /\ cur[n].id \in Ids
        /\ UNCHANGED <<rows, wq, got, up, orphans, lost>>
    BY <1>8, ListedFields DEF ApplyOne, InFlight, Typed, SweepSane
  <2>2. CASE Rehydrates(n, cur[n])
    <3>1. mem' = [mem EXCEPT ![n][q] = cur[n].id] /\ Next1(n, orphans[n])
      BY <1>8, <2>2 DEF ApplyOne
    <3>2. /\ ~InFlight(n)' /\ \A m \in Nodes : m # n => pc'[m] = pc[m] /\ cur'[m] = cur[m]
      BY <3>1, <1>o
    <3>3. /\ \A m \in Nodes, p \in Ports : m # n \/ p # q => mem'[m][p] = mem[m][p]
          /\ mem'[n][q] = cur[n].id
      BY <2>1, <3>1 DEF Typed, Shapes
    <3>4. \A m \in Nodes, p \in Ports : m # n \/ p # q => Same(m, p)
      BY <2>1, <3>2, <3>3 DEF Same, InFlight
    <3>5. ASSUME q \notin shaken' PROVE Safe(n, q)'
      <4>1. Safe(n, q)
        BY <1>m, <2>1, <3>5 DEF Owned
      <4>2. /\ Owns(n, q) /\ mem[n][q] = 0 /\ wq[n][q] = "none" /\ cur[n].id = rows[q].id
            /\ ~(got[n] # None /\ got[n].port = q)
        BY <2>1, <4>1 DEF Safe, ClaimHeld
      <4>3. rows[q] = Row(n, cur[n].id)
        BY <2>1, <4>2, ListedFields DEF Owns, Typed, Shapes
      <4>4. up[n] # "load"
        BY <2>1 DEF Typed, ProcessSane, InFlight
      <4>5. Entitled(n, q)' /\ ServesOwn(n, q)'
        BY <2>1, <3>3, <4>2, <4>3 DEF Entitled, ServesOwn, Owns, Row
      <4>6. ClaimHeld(n, q)' /\ LoadHeld(n, q)' /\ MergeHeld(n, q)'
        BY <2>1, <3>2, <4>2, <4>4 DEF ClaimHeld, LoadHeld, MergeHeld
      <4> QED  BY <4>5, <4>6 DEF Safe
    <3> QED  BY <2>1, <3>4, <3>5, OneSite
  <2>3. CASE ~Rehydrates(n, cur[n])
    <3>1. /\ UNCHANGED <<mem, cur>> /\ pc'[n] \in {"remove", "revert"}
          /\ \A m \in Nodes : m # n => pc'[m] = pc[m]
      BY <1>8, <2>3 DEF ApplyOne, Typed, Shapes
    <3>2. \A m \in Nodes, p \in Ports : Same(m, p)
      BY <2>1, <3>1 DEF Same, InFlight
    <3> QED  BY <2>1, <3>2, NoSite
  <2> QED  BY <2>2, <2>3
<1>9. ASSUME NEW n \in Nodes, RemoveExpired(n) \/ Revert(n) PROVE Owned'
  <2>1. /\ InFlight(n) /\ Next1(n, orphans[n]) /\ Noted
        /\ UNCHANGED <<mem, wq, got, up, orphans, lost>>
    BY <1>9 DEF RemoveExpired, Revert, InFlight
  <2>2. \A p \in Ports : p # cur[n].port => rows'[p] = rows[p]
    <3>1. CASE RemoveExpired(n)
      BY <3>1 DEF RemoveExpired, Typed, Shapes
    <3>2. CASE Revert(n)
      BY <3>2 DEF Revert, Typed, Shapes
    <3> QED  BY <1>9, <3>1, <3>2
  <2> QED  BY <1>e, <2>1, <2>2
<1>10. ASSUME NEW n \in Nodes, NEW r \in orphans[n], Claim(n, r) PROVE Owned'
  <2> DEFINE q == r.port
             d == from[n]
  <2>1. /\ pc[n] = "claim" /\ r \in Listed /\ q \in Ports /\ d \in Nodes /\ d # n /\ Noted
        /\ orphans' = [orphans EXCEPT ![n] = orphans[n] \ {r}]
        /\ UNCHANGED <<mem, wq, got, up, lost>>
    BY <1>10, ListedFields DEF Claim, Typed, Shapes, SweepSane
  <2>2. up[n] \notin {"down", "load"}
    BY <2>1 DEF Typed, ProcessSane
  <2>3. \A m \in Nodes : orphans'[m] \subseteq orphans[m]
    BY <2>1 DEF Typed, Shapes
  <2>4. CASE ~(Next1(n, orphans[n] \ {r}) /\ UNCHANGED rows)
    <3>1. /\ rows[q] # None /\ rows[q].owner = d
          /\ rows' = [rows EXCEPT ![q].owner = n]
          /\ cur' = [cur EXCEPT ![n] = r] /\ pc' = [pc EXCEPT ![n] = "fetch"]
      BY <1>10, <2>4 DEF Claim, Cas
    <3>2. /\ cur'[n] = r /\ pc'[n] = "fetch"
          /\ \A m \in Nodes : m # n => pc'[m] = pc[m] /\ cur'[m] = cur[m]
          /\ \A p \in Ports : p # q => rows'[p] = rows[p]
      BY <2>1, <3>1 DEF Typed, Shapes
    <3>3. rows'[q] # None /\ rows'[q].owner = n
      <4>1. rows[q] \in Rows
        BY <2>1, <3>1 DEF Typed, Shapes
      <4>2. rows'[q] = [rows[q] EXCEPT !.owner = n]
        BY <2>1, <3>1 DEF Typed, Shapes
      <4> QED  BY <4>1, <4>2, ListedFields
    <3>4. \A m \in Nodes, p \in Ports : m # n \/ p # q => Same(m, p)
      BY <2>1, <2>3, <3>2 DEF Same, InFlight
    <3>5. ASSUME q \notin shaken' PROVE Safe(n, q)' /\ \A m \in Nodes : m # n => Safe(m, q)'
      <4>1. q \notin shaken
        BY <1>m, <2>1, <3>5
      <4>2. Uses(d, q)
        BY <3>1 DEF Uses
      <4>3. /\ \A m \in Nodes : m # d => Away(m, q)
            /\ ~(up[n] # "down" /\ q \in Pick[n]) /\ ~Doubted(d)
        BY <2>1, <4>1, <4>2, SoleUser
      <4>4. up[d] = "down"
        BY <2>1, <4>3 DEF Doubted, Visits
      <4>5. Away(d, q)
        BY <2>1, <4>4 DEF Away, Busy, InFlight, Typed, ProcessSane
      <4>6. \A m \in Nodes : m # n => Safe(m, q)'
        BY <2>1, <3>4, <4>3, <4>5, AwayOthers
      <4>7. Away(n, q) /\ q \notin Pick[n]
        BY <2>1, <2>2, <4>3
      <4>8. /\ mem[n][q] = 0 /\ wq[n][q] = "none" /\ ~(got[n] # None /\ got[n].port = q)
        BY <4>7 DEF Away, Busy
      <4>9. Entitled(n, q)' /\ ServesOwn(n, q)' /\ LoadHeld(n, q)' /\ MergeHeld(n, q)'
        BY <2>1, <2>2, <4>8 DEF Entitled, ServesOwn, LoadHeld, MergeHeld
      <4>10. ClaimHeld(n, q)'
        BY <2>1, <3>2, <3>3, <4>7, <4>8 DEF ClaimHeld, Owns
      <4> QED  BY <4>6, <4>9, <4>10 DEF Safe
    <3>6. \A p \in Ports : p # q => rows'[p] = rows[p] /\ (p \in lost => p \in lost')
      BY <2>1, <3>2
    <3> HIDE DEF q, d
    <3> QED  BY <2>1, <3>4, <3>5, <3>6, OneSite
  <2>5. CASE Next1(n, orphans[n] \ {r}) /\ UNCHANGED rows
    <3>1. ~InFlight(n)' /\ \A m \in Nodes : m # n => pc'[m] = pc[m] /\ cur'[m] = cur[m]
      BY <2>5, <1>o
    <3>2. \A m \in Nodes, p \in Ports : Same(m, p)
      BY <2>1, <2>3, <3>1 DEF Same, InFlight
    <3> QED  BY <2>1, <2>5, <3>2, NoSite
  <2> QED  BY <2>4, <2>5
\* One node changes its memory or its log at one port.
<1>w. ASSUME NEW n \in Nodes, NEW q \in Ports, NEW i, NEW w, Noted,
             mem' = [mem EXCEPT ![n][q] = i], wq' = [wq EXCEPT ![n][q] = w],
             UNCHANGED <<up, pc, cur, orphans>>,
             \A m \in Nodes : m # n => got'[m] = got[m],
             got'[n] # None => got'[n] = got[n] \/ got'[n].port = q
      PROVE  /\ mem'[n][q] = i /\ wq'[n][q] = w
             /\ \A m \in Nodes, p \in Ports : m # n \/ p # q => Same(m, p)
  <2>1. /\ mem'[n][q] = i /\ wq'[n][q] = w
        /\ \A m \in Nodes, p \in Ports :
             m # n \/ p # q => mem'[m][p] = mem[m][p] /\ wq'[m][p] = wq[m][p]
    BY <1>w DEF Typed, Shapes
  <2> QED  BY <1>w, <2>1 DEF Same, InFlight
\* One node changes its log only.
<1>v. ASSUME NEW n \in Nodes, NEW q \in Ports, NEW w, wq' = [wq EXCEPT ![n][q] = w],
             UNCHANGED <<mem, up, pc, cur, orphans>>,
             \A m \in Nodes : m # n => got'[m] = got[m],
             got'[n] # None => got'[n] = got[n] \/ got'[n].port = q
      PROVE  /\ mem'[n][q] = mem[n][q] /\ wq'[n][q] = w
             /\ \A m \in Nodes, p \in Ports : m # n \/ p # q => Same(m, p)
  <2>1. /\ wq'[n][q] = w
        /\ \A m \in Nodes, p \in Ports : m # n \/ p # q => wq'[m][p] = wq[m][p]
    BY <1>v DEF Typed, Shapes
  <2> QED  BY <1>v, <2>1 DEF Same, InFlight
<1>11. ASSUME NEW n \in Nodes, NEW q \in Ports, Create(n, q) PROVE Owned'
  <2>1. /\ up[n] = "up" /\ q \in Pick[n] /\ Noted
        /\ mem' = [mem EXCEPT ![n][q] = nextId] /\ wq' = [wq EXCEPT ![n][q] = "create"]
        /\ UNCHANGED <<up, got, rows, lost, pc, cur, orphans>>
    BY <1>11 DEF Create
  <2>2. /\ mem'[n][q] = nextId /\ wq'[n][q] = "create"
        /\ \A m \in Nodes, p \in Ports : m # n \/ p # q => Same(m, p)
    BY <1>w, <2>1
  <2>3. ASSUME q \notin shaken' PROVE Safe(n, q)'
    <3>1. Safe(n, q)
      BY <1>m, <2>1, <2>3 DEF Owned
    <3>2. ~(InFlight(n) /\ cur[n].port = q)
      BY <2>1, <3>1 DEF Safe, ClaimHeld
    <3>3. Entitled(n, q)' /\ ServesOwn(n, q)' /\ ClaimHeld(n, q)' /\ LoadHeld(n, q)'
      BY <2>1, <2>2, <3>2 DEF Entitled, ServesOwn, ClaimHeld, LoadHeld, InFlight
    <3>4. MergeHeld(n, q)'
      BY <2>1, <3>1 DEF Safe, MergeHeld, Owns
    <3> QED  BY <3>3, <3>4 DEF Safe
  <2> QED  BY <2>1, <2>2, <2>3, OneSite
<1>12. ASSUME NEW n \in Nodes, NEW q \in Ports, Touch(n, q) PROVE Owned'
  <2>1. /\ up[n] \in {"up", "leaving"} /\ mem[n][q] # 0 /\ wq[n][q] = "none" /\ Noted
        /\ wq' = [wq EXCEPT ![n][q] = "touch"]
        /\ UNCHANGED <<up, mem, got, rows, lost, pc, cur, orphans>>
    BY <1>12 DEF Touch
  <2>3. /\ mem'[n][q] = mem[n][q] /\ wq'[n][q] = "touch"
        /\ \A m \in Nodes, p \in Ports : m # n \/ p # q => Same(m, p)
    BY <1>v, <2>1
  <2>4. ASSUME q \notin shaken' PROVE Safe(n, q)'
    <3>1. Safe(n, q)
      BY <1>m, <2>1, <2>4 DEF Owned
    <3>2. ~(InFlight(n) /\ cur[n].port = q)
      BY <2>1, <3>1 DEF Safe, ClaimHeld
    <3>3. Entitled(n, q)' /\ ServesOwn(n, q)'
      BY <2>1, <2>3, <3>1 DEF Safe, Entitled, ServesOwn, Owns, Row
    <3>4. ClaimHeld(n, q)' /\ LoadHeld(n, q)'
      BY <2>1, <2>3, <3>2 DEF ClaimHeld, LoadHeld, InFlight
    <3>5. MergeHeld(n, q)'
      BY <2>1, <3>1 DEF Safe, MergeHeld, Owns
    <3> QED  BY <3>3, <3>4, <3>5 DEF Safe
  <2> QED  BY <2>1, <2>3, <2>4, OneSite
<1>13. ASSUME NEW n \in Nodes, NEW q \in Ports, Remove(n, q) PROVE Owned'
  <2>1. PICK w \in {"none", "remove"} :
        /\ up[n] \in {"up", "leaving", "drain"} /\ mem[n][q] # 0 /\ Noted
        /\ mem' = [mem EXCEPT ![n][q] = 0] /\ wq' = [wq EXCEPT ![n][q] = w]
        /\ UNCHANGED <<up, got, rows, lost, pc, cur, orphans>>
    BY <1>13 DEF Remove
  <2>2. /\ mem'[n][q] = 0 /\ wq'[n][q] = w
        /\ \A m \in Nodes, p \in Ports : m # n \/ p # q => Same(m, p)
    BY <1>w, <2>1
  <2>3. ASSUME q \notin shaken' PROVE Safe(n, q)'
    <3>1. Safe(n, q)
      BY <1>m, <2>1, <2>3 DEF Owned
    <3>2. ~(InFlight(n) /\ cur[n].port = q)
      BY <2>1, <3>1 DEF Safe, ClaimHeld
    <3>3. Entitled(n, q)' /\ ServesOwn(n, q)'
      BY <2>1, <2>2, <3>1 DEF Safe, Entitled, ServesOwn, Owns
    <3>4. ClaimHeld(n, q)' /\ LoadHeld(n, q)'
      BY <2>1, <2>2, <3>2 DEF ClaimHeld, LoadHeld, InFlight
    <3>5. MergeHeld(n, q)'
      BY <2>1, <3>1 DEF Safe, MergeHeld, Owns
    <3> QED  BY <3>3, <3>4, <3>5 DEF Safe
  <2> QED  BY <2>1, <2>2, <2>3, OneSite
<1>14. ASSUME NEW n \in Nodes, NEW q \in Ports, Flush(n, q) PROVE Owned'
  <2> DEFINE new == IF wq[n][q] = "create" THEN Row(n, mem[n][q]) ELSE None
  <2>1. /\ up[n] \in {"up", "leaving"} /\ wq[n][q] \in {"create", "remove"} /\ got[n] = None
        /\ wq' = [wq EXCEPT ![n][q] = "none"] /\ Noted
        /\ UNCHANGED <<up, mem, got, pc, cur, orphans>>
        /\ \/ rows' = [rows EXCEPT ![q] = new] /\ lost' = lost \ {q}
           \/ rows' = rows /\ lost' = lost \cup {q}
    BY <1>14 DEF Flush
  <2>3. /\ mem'[n][q] = mem[n][q] /\ wq'[n][q] = "none"
        /\ \A m \in Nodes, p \in Ports : m # n \/ p # q => Same(m, p)
    BY <1>v, <2>1
  <2>4. /\ \A p \in Ports : p # q => rows'[p] = rows[p] /\ (p \in lost => p \in lost')
        /\ (rows'[q] = new \/ (rows'[q] = rows[q] /\ q \in lost'))
    <3> HIDE DEF new
    <3> QED  BY <2>1 DEF Typed, Shapes
  <2>5. ASSUME q \notin shaken' PROVE Safe(n, q)' /\ \A m \in Nodes : m # n => Safe(m, q)'
    <3>1. q \notin shaken /\ Safe(n, q)
      BY <1>m, <2>1, <2>5 DEF Owned
    <3>2. Uses(n, q)
      BY <2>1 DEF Uses
    <3>3. \A m \in Nodes : m # n => Away(m, q)
      BY <3>1, <3>2, SoleUser
    <3>4. \A m \in Nodes : m # n => Safe(m, q)'
      BY <2>3, <3>3, AwayOthers
    <3>5. ~(InFlight(n) /\ cur[n].port = q)
      BY <2>1, <3>1 DEF Safe, ClaimHeld
    <3>6. ClaimHeld(n, q)' /\ LoadHeld(n, q)' /\ MergeHeld(n, q)'
      BY <2>1, <2>3, <3>5 DEF ClaimHeld, LoadHeld, MergeHeld, InFlight
    <3>7. CASE mem[n][q] = 0
      BY <2>3, <3>4, <3>6, <3>7 DEF Safe, Entitled, ServesOwn
    <3>8. CASE mem[n][q] # 0
      <4>1. wq[n][q] = "create" /\ q \in Pick[n] /\ new = Row(n, mem[n][q])
        BY <2>1, <3>1, <3>8 DEF Safe, Entitled
      <4>2. Entitled(n, q)' /\ ServesOwn(n, q)'
        BY <2>3, <2>4, <4>1 DEF Entitled, ServesOwn, Row
      <4> QED  BY <3>4, <3>6, <4>2 DEF Safe
    <3> QED  BY <3>7, <3>8
  <2> HIDE DEF new
  <2> QED  BY <2>1, <2>3, <2>4, <2>5, OneSite
<1>15. ASSUME NEW n \in Nodes, NEW q \in Ports, FlushTouched(n, q) PROVE Owned'
  <2>1. /\ up[n] \in {"up", "leaving"} /\ wq[n][q] = "touch" /\ got[n] = None
        /\ wq' = [wq EXCEPT ![n][q] = "none"] /\ Noted
        /\ UNCHANGED <<up, mem, rows, lost, pc, cur, orphans>>
    BY <1>15 DEF FlushTouched
  <2>2. /\ \A m \in Nodes : m # n => got'[m] = got[m]
        /\ got'[n] # None => /\ rows[q] # None /\ got'[n] = [port |-> q, row |-> rows[q]]
                             /\ got'[n].port = q /\ got'[n].row = rows[q]
    BY <1>15 DEF FlushTouched, Typed, Shapes
  <2>4. /\ mem'[n][q] = mem[n][q] /\ wq'[n][q] = "none"
        /\ \A m \in Nodes, p \in Ports : m # n \/ p # q => Same(m, p)
    BY <1>v, <2>1, <2>2
  <2>5. ASSUME q \notin shaken' PROVE Safe(n, q)'
    <3>1. q \notin shaken /\ Safe(n, q)
      BY <1>m, <2>1, <2>5 DEF Owned
    <3>2. ~(InFlight(n) /\ cur[n].port = q)
      BY <2>1, <3>1 DEF Safe, ClaimHeld
    <3>3. Entitled(n, q)' /\ ServesOwn(n, q)'
      BY <2>1, <2>4, <3>1 DEF Safe, Entitled, ServesOwn, Owns, Row
    <3>4. ClaimHeld(n, q)' /\ LoadHeld(n, q)'
      BY <2>1, <2>4, <3>2 DEF ClaimHeld, LoadHeld, InFlight
    <3>5. MergeHeld(n, q)'
      <4>1. Uses(n, q)
        BY <2>1 DEF Uses
      <4>2. rows[q] # None => rows[q].owner \in Nodes
        BY ListedFields DEF Typed, Shapes
      <4>3. rows[q] # None => rows[q].owner = n
        BY <3>1, <4>1, <4>2, SoleUser DEF Uses
      <4> QED  BY <2>1, <2>2, <4>3 DEF MergeHeld, Owns
    <3> QED  BY <3>3, <3>4, <3>5 DEF Safe
  <2> QED  BY <2>1, <2>4, <2>5, OneSite
<1>16. ASSUME NEW n \in Nodes, StoreMerged(n) PROVE Owned'
  <2>0. got[n].port \in Ports
    BY <1>16, ListedFields DEF StoreMerged, Typed, Shapes
  <2> PICK q \in Ports : q = got[n].port
    BY <2>0
  <2>1. /\ got[n] # None /\ got[n] \in Merges /\ got' = [got EXCEPT ![n] = None] /\ Noted
        /\ UNCHANGED <<up, mem, wq, lost, pc, cur, orphans>>
        /\ rows' = rows \/ rows' = [rows EXCEPT ![q] = got[n].row]
    BY <1>16 DEF StoreMerged, Typed, Shapes
  <2>2. got'[n] = None /\ \A m \in Nodes : m # n => got'[m] = got[m]
    BY <2>1, ListedFields DEF Typed, Shapes
  <2>3. \A m \in Nodes, p \in Ports : Same(m, p)
    BY <2>1, <2>2 DEF Same, InFlight
  <2>4. /\ \A p \in Ports : p # q => rows'[p] = rows[p] /\ (p \in lost => p \in lost')
        /\ rows'[q] = rows[q] \/ rows'[q] = got[n].row
    BY <2>1, <2>2 DEF Typed, Shapes
  <2>5. ASSUME q \notin shaken' PROVE Safe(n, q)' /\ rows'[q] = rows[q]
    <3>1. Safe(n, q)
      BY <1>m, <2>1, <2>2, <2>5 DEF Owned
    <3>2. rows[q] = got[n].row
      BY <2>1, <3>1 DEF Safe, MergeHeld
    <3> QED  BY <2>1, <2>2, <2>3, <2>4, <3>1, <3>2, SafeFrame
  <2> QED  BY <2>1, <2>2, <2>3, <2>4, <2>5, OneSite
<1> QED
  BY <1>1, <1>2, <1>3, <1>4, <1>5, <1>6, <1>7, <1>8, <1>9, <1>10, <1>11, <1>12, <1>13,
     <1>14, <1>15, <1>16
  DEF Next, SweepStep

----------------------------------------------------------------------------
(* An allocation stays at its port *)

\* A step that gives out no id leaves ids where they are.
LEMMA IdsFrame ==
  ASSUME IdsTied, nextId' = nextId, \A p \in Ports : IdsAt(p)' \subseteq IdsAt(p)
  PROVE  IdsTied'
  BY DEF IdsTied

\* What may be found at port p as an id: nothing, or an id that is there already.
Known(p) == {0} \cup IdsAt(p)

\* Where an id at port p may come from after a step: from port p.
KeptAt(p) ==
    /\ \A n \in Nodes :
         /\ mem'[n][p] \in Known(p)
         /\ \A r \in orphans'[n] : r.port = p => r.id \in Known(p)
         /\ cur'[n] # None /\ cur'[n].port = p => cur'[n].id \in Known(p)
         /\ got'[n] # None /\ got'[n].port = p => got'[n].row.id \in Known(p)
    /\ rows'[p] # None => rows'[p].id \in Known(p)

\* Ids are copied within a port only.
LEMMA IdsShrink == ASSUME NEW p \in Ports, KeptAt(p) PROVE IdsAt(p)' \subseteq IdsAt(p)
<1> SUFFICES ASSUME NEW i \in IdsAt(p)' PROVE i \in IdsAt(p)
  OBVIOUS
<1>1. i \in 1 .. MaxId /\ i # 0
  BY FailoverAssumption DEF IdsAt
<1>2. \/ \E n \in Nodes : \/ mem'[n][p] = i
                          \/ \E r \in orphans'[n] : r.port = p /\ r.id = i
                          \/ cur'[n] # None /\ cur'[n].port = p /\ cur'[n].id = i
                          \/ got'[n] # None /\ got'[n].port = p /\ got'[n].row.id = i
      \/ rows'[p] # None /\ rows'[p].id = i
  BY DEF IdsAt
<1>3. i \in Known(p)
  BY <1>1, <1>2 DEF KeptAt
<1> QED  BY <1>1, <1>3 DEF Known

\* An allocation stays at its port: no step copies an id from one port to another.
LEMMA IdsStep == ASSUME Typed, IdsTied, Next PROVE IdsTied'
<1> USE DEF node, backend, sweep, bounds, counts
\* Everything at a port is there before the step.
<1>h. ASSUME NEW p \in Ports
      PROVE  /\ \A n \in Nodes :
                  /\ mem[n][p] \in Known(p)
                  /\ \A r \in orphans[n] : r.port = p => r.id \in Known(p)
                  /\ cur[n] # None /\ cur[n].port = p => cur[n].id \in Known(p)
                  /\ got[n] # None /\ got[n].port = p => got[n].row.id \in Known(p)
             /\ rows[p] # None => rows[p].id \in Known(p)
  <2>1. \A i \in Ids : i = 0 \/ i \in 1 .. MaxId
    BY FailoverAssumption DEF Ids
  <2>2. ASSUME NEW n \in Nodes PROVE mem[n][p] \in Known(p)
    <3>1. mem[n][p] \in Ids
      BY DEF Typed, Shapes
    <3> QED  BY <2>1, <3>1 DEF Known, IdsAt
  <2>3. ASSUME NEW n \in Nodes, NEW r \in orphans[n], r.port = p PROVE r.id \in Known(p)
    <3>1. r.id \in Ids
      BY ListedFields DEF Typed, Shapes
    <3> QED  BY <2>1, <2>3, <3>1 DEF Known, IdsAt
  <2>4. ASSUME NEW n \in Nodes, cur[n] # None, cur[n].port = p PROVE cur[n].id \in Known(p)
    <3>1. cur[n].id \in Ids
      BY <2>4, ListedFields DEF Typed, Shapes
    <3> QED  BY <2>1, <2>4, <3>1 DEF Known, IdsAt
  <2>5. ASSUME NEW n \in Nodes, got[n] # None, got[n].port = p PROVE got[n].row.id \in Known(p)
    <3>1. got[n].row.id \in 1 .. MaxId
      BY <2>5, ListedFields DEF Typed, Shapes
    <3> QED  BY <2>5, <3>1 DEF Known, IdsAt
  <2>6. ASSUME rows[p] # None PROVE rows[p].id \in Known(p)
    <3>1. rows[p].id \in 1 .. MaxId
      BY <2>6, ListedFields DEF Typed, Shapes
    <3> QED  BY <2>6, <3>1 DEF Known, IdsAt
  <2> QED  BY <2>2, <2>3, <2>4, <2>5, <2>6
<1>k. ASSUME nextId' = nextId, \A p \in Ports : KeptAt(p) PROVE IdsTied'
  BY <1>k, IdsFrame, IdsShrink
<1>z. \A p \in Ports : 0 \in Known(p)
  BY DEF Known
<1>r. ASSUME NEW d \in Nodes, NEW p \in Ports, NEW r \in RowsOf(d), r.port = p
      PROVE  r.id \in Known(p)
  <2>1. PICK x \in Ports : rows[x] # None /\ r = [port |-> x, id |-> rows[x].id]
    BY DEF RowsOf
  <2> QED  BY <1>h, <1>r, <2>1
<1>1. ASSUME NEW n \in Nodes,
             \/ Beat(n) \/ GoStale(n) \/ SetDraining(n) \/ StartSweep(n) \/ SweepFails(n)
             \/ Shutdown(n) \/ WriterExit(n) \/ Loaded(n)
             \/ \E q \in Ports : Touch(n, q)
      PROVE  IdsTied'
  <2>1. UNCHANGED <<rows, mem, got, orphans, cur, nextId>>
    BY <1>1 DEF Beat, GoStale, SetDraining, StartSweep, SweepFails, Shutdown, WriterExit, Loaded,
                Touch
  <2> QED  BY <1>h, <1>k, <2>1 DEF KeptAt
<1>2. ASSUME NEW i \in 1 .. MaxId, Expire(i) PROVE IdsTied'
  <2>1. UNCHANGED <<rows, mem, got, orphans, cur, nextId>>
    BY <1>2 DEF Expire
  <2> QED  BY <1>h, <1>k, <2>1 DEF KeptAt
<1>3. ASSUME NEW n \in Nodes, Crash(n) \/ Exit(n) PROVE IdsTied'
  <2>1. Stop(n) /\ UNCHANGED <<rows, nextId>>
    BY <1>3 DEF Crash, Exit
  <2>2. /\ \A p \in Ports : mem'[n][p] = 0
        /\ orphans'[n] = {} /\ cur'[n] = None /\ got'[n] = None
        /\ \A m \in Nodes : m # n => /\ mem'[m] = mem[m] /\ orphans'[m] = orphans[m]
                                     /\ cur'[m] = cur[m] /\ got'[m] = got[m]
    BY <2>1 DEF Stop, Typed, Shapes, Empty
  <2>3. ASSUME NEW p \in Ports PROVE KeptAt(p)
    <3>1. ASSUME NEW m \in Nodes
          PROVE  /\ mem'[m][p] \in Known(p)
                 /\ \A r \in orphans'[m] : r.port = p => r.id \in Known(p)
                 /\ cur'[m] # None /\ cur'[m].port = p => cur'[m].id \in Known(p)
                 /\ got'[m] # None /\ got'[m].port = p => got'[m].row.id \in Known(p)
      <4>1. CASE m = n
        BY <1>z, <2>2, <4>1
      <4>2. CASE m # n
        BY <1>h, <2>2, <4>2
      <4> QED  BY <4>1, <4>2
    <3> QED  BY <1>h, <2>1, <3>1 DEF KeptAt
  <2> QED  BY <1>k, <2>1, <2>3
<1>4. ASSUME NEW n \in Nodes, NEW d \in Nodes, UNCHANGED <<rows, mem, got, cur, nextId>>,
             orphans' = orphans \/ orphans' = [orphans EXCEPT ![n] = RowsOf(d)]
      PROVE  IdsTied'
  <2>1. \A m \in Nodes : orphans'[m] = orphans[m] \/ orphans'[m] = RowsOf(d)
    BY <1>4 DEF Typed, Shapes
  <2>2. ASSUME NEW p \in Ports, NEW m \in Nodes, NEW r \in orphans'[m], r.port = p
        PROVE  r.id \in Known(p)
    BY <1>h, <1>r, <2>1, <2>2
  <2> QED  BY <1>4, <1>h, <1>k, <2>2 DEF KeptAt
<1>5. ASSUME NEW n \in Nodes, Restart(n) PROVE IdsTied'
  <2>1. /\ UNCHANGED <<rows, mem, got, cur, nextId>>
        /\ orphans' = orphans \/ orphans' = [orphans EXCEPT ![n] = RowsOf(n)]
    BY <1>5 DEF Restart
  <2> QED  BY <1>4, <2>1
<1>6. ASSUME NEW n \in Nodes, NEW d \in dead[n], FindByNode(n, d) PROVE IdsTied'
  <2>1. /\ d \in Nodes /\ UNCHANGED <<rows, mem, got, cur, nextId>>
        /\ orphans' = orphans \/ orphans' = [orphans EXCEPT ![n] = RowsOf(d)]
    BY <1>6 DEF FindByNode, Typed, Shapes
  <2> QED  BY <1>4, <2>1
\* One node's memory changes at one port, to what is known there.
<1>m. ASSUME NEW n \in Nodes, NEW q \in Ports, NEW i \in Known(q),
             mem' = [mem EXCEPT ![n][q] = i], UNCHANGED <<rows, got, nextId>>,
             \A m \in Nodes : orphans'[m] \subseteq orphans[m],
             \A m \in Nodes : cur'[m] = cur[m] \/ cur'[m] = None
      PROVE  IdsTied'
  <2>1. \A m \in Nodes, p \in Ports : mem'[m][p] = mem[m][p] \/ (p = q /\ mem'[m][p] = i)
    BY <1>m DEF Typed, Shapes
  <2>2. ASSUME NEW p \in Ports, NEW m \in Nodes PROVE mem'[m][p] \in Known(p)
    BY <1>h, <1>m, <2>1
  <2> QED  BY <1>h, <1>k, <1>m, <2>2 DEF KeptAt
<1>7. ASSUME NEW n \in Nodes, NEW r \in orphans[n], LoadRow(n, r) PROVE IdsTied'
  <2>1. /\ r.port \in Ports
        /\ orphans' = [orphans EXCEPT ![n] = orphans[n] \ {r}]
        /\ UNCHANGED <<rows, got, cur, nextId>>
        /\ mem' = mem \/ mem' = [mem EXCEPT ![n][r.port] = r.id]
    BY <1>7, ListedFields DEF LoadRow, Typed, Shapes
  <2>2. \A m \in Nodes : orphans'[m] \subseteq orphans[m]
    BY <2>1 DEF Typed, Shapes
  <2>3. r.id \in Known(r.port)
    BY <1>h, <2>1
  <2>4. CASE mem' = mem
    BY <1>h, <1>k, <2>1, <2>2, <2>4 DEF KeptAt
  <2>5. CASE mem' = [mem EXCEPT ![n][r.port] = r.id]
    BY <1>m, <2>1, <2>2, <2>3, <2>5
  <2> QED  BY <2>1, <2>4, <2>5
<1>n. ASSUME NEW n \in Nodes, NEW left, Next1(n, left)
      PROVE  \A m \in Nodes : cur'[m] = cur[m] \/ cur'[m] = None
  BY <1>n DEF Next1, Typed, Shapes
\* The rows keep their ids or go away.
<1>w. ASSUME UNCHANGED <<mem, got, nextId>>,
             \A m \in Nodes : orphans'[m] \subseteq orphans[m],
             \A m \in Nodes : cur'[m] = cur[m] \/ cur'[m] = None \/ cur'[m] \in orphans[m],
             \A p \in Ports : rows'[p] # None => rows[p] # None /\ rows'[p].id = rows[p].id
      PROVE  IdsTied'
  <2>1. ASSUME NEW p \in Ports, NEW m \in Nodes, cur'[m] # None, cur'[m].port = p
        PROVE  cur'[m].id \in Known(p)
    BY <1>h, <1>w, <2>1
  <2>2. ASSUME NEW p \in Ports, rows'[p] # None PROVE rows'[p].id \in Known(p)
    BY <1>h, <1>w, <2>2
  <2> QED  BY <1>h, <1>k, <1>w, <2>1, <2>2 DEF KeptAt
\* A compare-and-swap changes the owner only.
<1>c. ASSUME NEW q \in Ports, NEW n, rows[q] # None, rows' = [rows EXCEPT ![q].owner = n]
      PROVE  \A p \in Ports : rows'[p] # None => rows[p] # None /\ rows'[p].id = rows[p].id
  <2>1. rows[q] \in Rows
    BY <1>c DEF Typed, Shapes
  <2>2. rows'[q] = [rows[q] EXCEPT !.owner = n] /\ \A p \in Ports : p # q => rows'[p] = rows[p]
    BY <1>c DEF Typed, Shapes
  <2>3. rows'[q].id = rows[q].id
    BY <2>1, <2>2 DEF Rows
  <2> QED  BY <1>c, <2>2, <2>3
<1>8. ASSUME NEW n \in Nodes, NEW r \in orphans[n], Claim(n, r) PROVE IdsTied'
  <2>1. /\ r.port \in Ports /\ orphans' = [orphans EXCEPT ![n] = orphans[n] \ {r}]
        /\ UNCHANGED <<mem, got, nextId>>
    BY <1>8, ListedFields DEF Claim, Typed, Shapes
  <2>2. \A m \in Nodes : orphans'[m] \subseteq orphans[m]
    BY <2>1 DEF Typed, Shapes
  <2>3. CASE Next1(n, orphans[n] \ {r}) /\ UNCHANGED rows
    BY <1>n, <1>w, <2>1, <2>2, <2>3
  <2>4. CASE ~(Next1(n, orphans[n] \ {r}) /\ UNCHANGED rows)
    <3>1. /\ rows[r.port] # None /\ rows' = [rows EXCEPT ![r.port].owner = n]
          /\ cur' = [cur EXCEPT ![n] = r]
      BY <1>8, <2>4 DEF Claim, Cas
    <3>2. \A m \in Nodes : cur'[m] = cur[m] \/ cur'[m] \in orphans[m]
      BY <3>1 DEF Typed, Shapes
    <3> QED  BY <1>c, <1>w, <2>1, <2>2, <3>1, <3>2
  <2> QED  BY <2>3, <2>4
<1>9. ASSUME NEW n \in Nodes, Refetch(n) PROVE IdsTied'
  <2>1. cur[n].port \in Ports /\ UNCHANGED <<rows, mem, got, orphans, nextId>>
    BY <1>9, ListedFields DEF Refetch, InFlight, Typed, SweepSane
  <2>2. CASE Next1(n, orphans[n])
    BY <1>n, <1>w, <2>1, <2>2
  <2>3. CASE ~Next1(n, orphans[n])
    <3> PICK q \in Ports : q = cur[n].port
      BY <2>1
    <3> DEFINE new == [port |-> q, id |-> rows[q].id]
    <3>1. rows[q] # None /\ cur' = [cur EXCEPT ![n] = new]
      BY <1>9, <2>3 DEF Refetch
    <3>2. new.port = q /\ new.id = rows[q].id
      OBVIOUS
    <3> HIDE DEF new
    <3>3. \A m \in Nodes : cur'[m] = cur[m] \/ cur'[m] = new
      BY <3>1 DEF Typed, Shapes
    <3>4. ASSUME NEW p \in Ports, NEW m \in Nodes, cur'[m] # None, cur'[m].port = p
          PROVE  cur'[m].id \in Known(p)
      BY <1>h, <3>1, <3>2, <3>3, <3>4
    <3> QED  BY <1>h, <1>k, <2>1, <3>4 DEF KeptAt
  <2> QED  BY <2>2, <2>3
<1>10. ASSUME NEW n \in Nodes, ApplyOne(n) PROVE IdsTied'
  <2>1. /\ cur[n].port \in Ports /\ cur[n] # None /\ UNCHANGED <<rows, got, orphans, nextId>>
    BY <1>10, ListedFields, FailoverAssumption DEF ApplyOne, InFlight, Typed, SweepSane, Listed, Ids
  <2>2. CASE Rehydrates(n, cur[n])
    <3>1. mem' = [mem EXCEPT ![n][cur[n].port] = cur[n].id] /\ Next1(n, orphans[n])
      BY <1>10, <2>2 DEF ApplyOne
    <3>2. cur[n].id \in Known(cur[n].port)
      BY <1>h, <2>1
    <3> QED  BY <1>m, <1>n, <2>1, <3>1, <3>2
  <2>3. CASE ~Rehydrates(n, cur[n])
    <3>1. UNCHANGED <<mem, cur>>
      BY <1>10, <2>3 DEF ApplyOne
    <3> QED  BY <1>w, <2>1, <3>1
  <2> QED  BY <2>2, <2>3
<1>11. ASSUME NEW n \in Nodes, RemoveExpired(n) PROVE IdsTied'
  <2>1. Next1(n, orphans[n]) /\ UNCHANGED <<mem, got, orphans, nextId>>
    BY <1>11 DEF RemoveExpired
  <2>2. \A p \in Ports : rows'[p] # None => rows'[p] = rows[p]
    BY <1>11 DEF RemoveExpired, Typed, Shapes
  <2> QED  BY <1>n, <1>w, <2>1, <2>2
<1>12. ASSUME NEW n \in Nodes, Revert(n) PROVE IdsTied'
  <2>1. /\ cur[n].port \in Ports /\ Next1(n, orphans[n])
        /\ UNCHANGED <<mem, got, orphans, nextId>>
    BY <1>12, ListedFields DEF Revert, InFlight, Typed, SweepSane
  <2>2. CASE UNCHANGED rows
    BY <1>n, <1>w, <2>1, <2>2
  <2>3. CASE ~UNCHANGED rows
    <3>1. rows[cur[n].port] # None /\ rows' = [rows EXCEPT ![cur[n].port].owner = from[n]]
      BY <1>12, <2>3 DEF Revert, Cas
    <3> QED  BY <1>c, <1>n, <1>w, <2>1, <3>1
  <2> QED  BY <2>2, <2>3
<1>13. ASSUME NEW n \in Nodes, NEW q \in Ports, Remove(n, q) PROVE IdsTied'
  <2>1. mem' = [mem EXCEPT ![n][q] = 0] /\ UNCHANGED <<rows, got, nextId, orphans, cur>>
    BY <1>13 DEF Remove
  <2> QED  BY <1>m, <1>z, <2>1
\* A row is written, with what is known at its port.
<1>s. ASSUME NEW q \in Ports, NEW row, row = None \/ row.id \in Known(q),
             rows' = rows \/ rows' = [rows EXCEPT ![q] = row],
             UNCHANGED <<mem, orphans, cur, nextId>>,
             \A m \in Nodes : got'[m] = got[m] \/ got'[m] = None
      PROVE  IdsTied'
  <2>1. \A p \in Ports : rows'[p] = rows[p] \/ (p = q /\ rows'[p] = row)
    BY <1>s DEF Typed, Shapes
  <2>2. ASSUME NEW p \in Ports, rows'[p] # None PROVE rows'[p].id \in Known(p)
    BY <1>h, <1>s, <2>1, <2>2
  <2> QED  BY <1>h, <1>k, <1>s, <2>2 DEF KeptAt
<1>14. ASSUME NEW n \in Nodes, NEW q \in Ports, Flush(n, q) PROVE IdsTied'
  <2> DEFINE new == IF wq[n][q] = "create" THEN Row(n, mem[n][q]) ELSE None
  <2>1. /\ UNCHANGED <<mem, got, orphans, cur, nextId>>
        /\ rows' = rows \/ rows' = [rows EXCEPT ![q] = new]
    BY <1>14 DEF Flush
  <2>2. new = None \/ new.id \in Known(q)
    BY <1>h DEF Row
  <2> HIDE DEF new
  <2> QED  BY <1>s, <2>1, <2>2
<1>15. ASSUME NEW n \in Nodes, NEW q \in Ports, FlushTouched(n, q) PROVE IdsTied'
  <2>1. UNCHANGED <<rows, mem, orphans, cur, nextId>>
    BY <1>15 DEF FlushTouched
  <2>2. \A m \in Nodes : \/ got'[m] = got[m] \/ got'[m] = None
                         \/ /\ rows[q] # None
                            /\ got'[m].port = q /\ got'[m].row = rows[q]
    BY <1>15 DEF FlushTouched, Typed, Shapes
  <2>3. ASSUME NEW p \in Ports, NEW m \in Nodes, got'[m] # None, got'[m].port = p
        PROVE  got'[m].row.id \in Known(p)
    BY <1>h, <2>2, <2>3
  <2> QED  BY <1>h, <1>k, <2>1, <2>3 DEF KeptAt
<1>16. ASSUME NEW n \in Nodes, StoreMerged(n) PROVE IdsTied'
  <2>1. /\ got[n] # None /\ got[n].port \in Ports /\ UNCHANGED <<mem, orphans, cur, nextId>>
        /\ rows' = rows \/ rows' = [rows EXCEPT ![got[n].port] = got[n].row]
    BY <1>16, ListedFields DEF StoreMerged, Typed, Shapes
  <2>2. \A m \in Nodes : got'[m] = got[m] \/ got'[m] = None
    BY <1>16 DEF StoreMerged, Typed, Shapes
  <2>3. got[n].row.id \in Known(got[n].port)
    BY <1>h, <2>1
  <2> QED  BY <1>s, <2>1, <2>2, <2>3
\* A new allocation has an id that was never given out.
<1>17. ASSUME NEW n \in Nodes, NEW q \in Ports, Create(n, q) PROVE IdsTied'
  <2>1. /\ nextId' = nextId + 1 /\ mem' = [mem EXCEPT ![n][q] = nextId]
        /\ UNCHANGED <<rows, got, orphans, cur>>
    BY <1>17 DEF Create
  <2>2. nextId \in Nat
    BY FailoverAssumption DEF Typed, Shapes
  <2>3. \A m \in Nodes, p \in Ports : mem'[m][p] = mem[m][p] \/ (p = q /\ mem'[m][p] = nextId)
    BY <2>1 DEF Typed, Shapes
  <2>4. ASSUME NEW p \in Ports, NEW i \in IdsAt(p)'
        PROVE  i \in IdsAt(p) \/ (p = q /\ i = nextId)
    BY <2>1, <2>3 DEF IdsAt
  <2>5. \A p \in Ports : nextId \notin IdsAt(p)
    BY <2>2 DEF IdsTied
  <2>6. ASSUME NEW p \in Ports, NEW i \in IdsAt(p)' PROVE i < nextId'
    <3>1. i \in Int
      BY <2>6 DEF IdsAt
    <3>2. i < nextId \/ i = nextId
      BY <2>4, <2>6 DEF IdsTied
    <3> QED  BY <2>1, <2>2, <3>1, <3>2
  <2>7. ASSUME NEW p \in Ports, NEW i \in IdsAt(p)', NEW x \in Ports, i \in IdsAt(x)'
        PROVE  p = x
    <3>1. i \in IdsAt(p) \/ (p = q /\ i = nextId)
      BY <2>4, <2>7
    <3>2. i \in IdsAt(x) \/ (x = q /\ i = nextId)
      BY <2>4, <2>7
    <3> QED  BY <2>5, <3>1, <3>2 DEF IdsTied
  <2> QED  BY <2>6, <2>7 DEF IdsTied
<1> QED
  BY <1>1, <1>2, <1>3, <1>5, <1>6, <1>7, <1>8, <1>9, <1>10, <1>11, <1>12, <1>13,
     <1>14, <1>15, <1>16, <1>17
  DEF Next, SweepStep

----------------------------------------------------------------------------
(* The theorems *)

\* The inductive invariant, in every reachable state.
LEMMA OwnedAlways == Spec => [](Typed /\ Owned /\ IdsTied)
<1> USE DEF node, backend, sweep, bounds, counts
<1>1. Init => Owned
  <2> SUFFICES ASSUME Init PROVE Owned
    OBVIOUS
  <2>1. \A n \in Nodes, p \in Ports :
           /\ mem[n][p] = 0 /\ wq[n][p] = "none" /\ rows[p] = None
           /\ got[n] = None /\ up[n] = "up" /\ pc[n] = "idle"
    BY DEF Init, Empty, Idle
  <2>2. \A n \in Nodes, p \in Ports : ~Uses(n, p)
    BY <2>1 DEF Uses
  <2>3. Shaky \subseteq shaken
    BY <2>2 DEF Shaky
  <2>4. ASSUME NEW n \in Nodes, NEW p \in Ports PROVE Safe(n, p)
    BY <2>1 DEF Safe, Entitled, ServesOwn, ClaimHeld, LoadHeld, MergeHeld, InFlight
  <2> QED  BY <2>3, <2>4 DEF Owned
<1>2. Init => IdsTied
  <2> SUFFICES ASSUME Init, NEW p \in Ports PROVE IdsAt(p) = {}
    BY DEF IdsTied
  <2>1. /\ rows[p] = None
        /\ \A n \in Nodes : mem[n][p] = 0 /\ orphans[n] = {} /\ cur[n] = None /\ got[n] = None
    BY DEF Init, Empty
  <2>2. 0 \notin 1 .. MaxId
    BY FailoverAssumption
  <2> QED  BY <2>1, <2>2 DEF IdsAt
<1>3. Typed /\ Owned /\ IdsTied /\ UNCHANGED vars => Owned' /\ IdsTied'
  <2> SUFFICES ASSUME Typed, Owned, IdsTied, UNCHANGED vars PROVE Owned' /\ IdsTied'
    OBVIOUS
  <2>1. UNCHANGED <<up, mem, wq, got, rows, beat, pc, dead, from, orphans, cur, nextId, lost,
                    shaken>>
    BY DEF vars
  <2>2. Shaky' = Shaky
    BY <2>1 DEF Shaky, Uses, Doubted, Visits
  <2>3. \A n \in Nodes, p \in Ports : Safe(n, p)' <=> Safe(n, p)
    BY <2>1 DEF Safe, Entitled, ServesOwn, ClaimHeld, LoadHeld, MergeHeld, InFlight, Owns
  <2>4. \A p \in Ports : IdsAt(p)' = IdsAt(p)
    BY <2>1 DEF IdsAt
  <2> QED  BY <2>1, <2>2, <2>3, <2>4 DEF Owned, IdsTied
<1> HIDE DEF node, backend, sweep, bounds, counts
<1>4. Typed /\ Owned /\ IdsTied /\ [Next]_vars => Owned' /\ IdsTied'
  BY <1>3, OwnedStep, IdsStep
<1> QED  BY <1>1, <1>2, <1>4, TypedAlways, PTL DEF Spec

\* What a node serves, at a port that was never shaken and whose last write was not
\* lost, is in the backend under the node's own name.
THEOREM ServedRowsAreOwned == Spec => []HolderOwnsRow
<1>1. Owned => HolderOwnsRow
  <2> SUFFICES ASSUME Owned, NEW n \in Nodes, NEW p \in Held(n) \ (shaken \cup lost),
                      wq[n][p] # "create"
               PROVE  rows[p] = Row(n, mem[n][p])
    BY DEF HolderOwnsRow
  <2>1. p \in Ports /\ mem[n][p] # 0 /\ p \notin shaken /\ p \notin lost
    BY DEF Held
  <2>2. ServesOwn(n, p)
    BY <2>1 DEF Owned, Safe
  <2> QED  BY <2>1, <2>2 DEF ServesOwn
<1> QED  BY <1>1, OwnedAlways, PTL

\* No allocation at a port that was never shaken is served by two nodes: whoever
\* serves it is the one user of its port, and an allocation stays at its port.
THEOREM NobodySharesAnAllocation == Spec => []OneHolder
<1>1. Typed /\ Owned /\ IdsTied => OneHolder
  <2> SUFFICES ASSUME Typed, Owned, IdsTied, NEW n \in Nodes, NEW m \in Nodes,
                      NEW p \in Ports \ shaken, NEW q \in Ports, n # m, mem[n][p] # 0,
                      mem[m][q] = mem[n][p]
               PROVE  FALSE
    BY DEF OneHolder
  <2>1. mem[n][p] \in 1 .. MaxId
    BY FailoverAssumption DEF Typed, Shapes, Ids
  <2>2. mem[n][p] \in IdsAt(p) /\ mem[n][p] \in IdsAt(q)
    BY <2>1 DEF IdsAt
  <2>3. p = q
    BY <2>2 DEF IdsTied
  <2>4. Uses(n, p) /\ Uses(m, p)
    BY <2>1, <2>3 DEF Uses
  <2> QED  BY <2>4, SoleUser
<1> QED  BY <1>1, OwnedAlways, PTL
=============================================================================
