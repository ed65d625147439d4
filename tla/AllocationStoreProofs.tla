----------------------- MODULE AllocationStoreProofs -----------------------
(***************************************************************************)
(* AllocationStore for every number of threads, clients, users, ports and  *)
(* every limit: the counters are exact and no limit is exceeded; the state *)
(* has its type; every allocation has one id, is billed once and is found  *)
(* by its id; a used port has one owner, and relay_to_client names it.     *)
(***************************************************************************)
EXTENDS AllocationStore, FiniteSetTheorems, TLAPS

Holders(s) == Live(s) \cup Holding(s)

\* Those that passed the check of scope s: a thread on its way out may hold a
\* unit beyond the limit.
Admitted(s) == Live(s) \cup {t \in Threads : s \in held[t] /\ pc[t] # "undo"}

Shape ==
    /\ alloc \in [Clients -> Drafts \cup {None}]
    /\ hand \in [Threads -> Drafts \cup {None}]
    /\ held \in [Threads -> SUBSET Scopes]
    /\ count \in [Scopes -> Int]
    /\ pc \in [Threads -> Steps]
    /\ client \in [Threads -> Clients \cup {None}]
    /\ target \in [Threads -> Clients \cup {None}]
    /\ op \in [Threads -> AllOps \cup {"orphan", None}]
    /\ nextId \in Nat

\* What a thread holds follows from where it stands.
StepOK(t) ==
    /\ pc[t] = "reserve" =>
         hand[t] \in Drafts /\ held[t] \subseteq ScopesOf(hand[t].user) \ {Global}
    /\ pc[t] \in {"insert", "rowPort", "rkClaim", "rkBack"} =>
         hand[t] \in Drafts /\ held[t] = ScopesOf(hand[t].user)
    /\ pc[t] = "port" => hand[t] \in Drafts
    /\ pc[t] \in {"dropPort", "undo"} => hand[t] \in Drafts
    /\ pc[t] = "dropPort" /\ op[t] = "allocate" => held[t] = {}
    /\ pc[t] \in {"idle", "port", "created", "recheck", "rmTake", "rmPort", "rmDone",
                  "epoch", "rkTake", "mgRefresh", "mgTicket"} => held[t] = {}
    /\ pc[t] \in {"port", "reserve", "rowPort", "insert", "recheck", "rmTake", "epoch", "rkTake",
                  "rkClaim", "rkBack"} =>
         client[t] \in Clients
    /\ pc[t] \in {"epoch", "rkTake", "rkClaim", "rkBack", "mgRefresh"} => target[t] \in Clients

StepsOK == \A t \in Threads : StepOK(t)

AdmittedOK == \A s \in Scopes : Cap[s] > 0 => Cardinality(Admitted(s)) <= Cap[s]

CInv == Shape /\ StepsOK /\ CountsExact /\ AdmittedOK

----------------------------------------------------------------------------
(* The operators.                                                          *)

\* The next counter to reserve is one the thread does not hold; after the last,
\* global_count, it holds all the counters of its user.
LEMMA NextScopeFresh ==
    ASSUME NEW u \in Users, NEW got, got \subseteq ScopesOf(u) \ {Global}
    PROVE  /\ NextScope(u, got) \in Scopes
           /\ NextScope(u, got) \in ScopesOf(u)
           /\ NextScope(u, got) \notin got
           /\ NextScope(u, got) = Global => got \cup {Global} = ScopesOf(u)
<1> DEFINE g == TenantOf[u]
<1>1. u \in Scopes /\ u # Global /\ u # NoTenant /\ g \in Tenants \cup {NoTenant}
      /\ Global # NoTenant /\ g # Global /\ Global \in ScopesOf(u) /\ u \in ScopesOf(u)
  BY StoreAssumption DEF Scopes, ScopesOf
<1>2. CASE u \notin got
  <2>1. NextScope(u, got) = u
    BY <1>2 DEF NextScope
  <2> QED
    BY <1>1, <1>2, <2>1
<1>3. CASE u \in got /\ ScopesOf(u) \ got # {Global}
  <2>1. NextScope(u, got) = g
    BY <1>3 DEF NextScope
  <2>2. PICK x \in ScopesOf(u) \ got : x # Global
    BY <1>1, <1>3
  <2>3. x = g /\ g # NoTenant
    BY <1>1, <1>3, <2>2 DEF ScopesOf
  <2> QED
    BY <1>1, <1>3, <2>1, <2>2, <2>3 DEF Scopes
<1>4. CASE u \in got /\ ScopesOf(u) \ got = {Global}
  <2>1. NextScope(u, got) = Global
    BY <1>4 DEF NextScope
  <2> QED
    BY <1>1, <1>4, <2>1 DEF Scopes
<1> QED
  BY <1>2, <1>3, <1>4

\* The counter handed back is one the thread holds.
LEMMA FirstScopeHeld ==
    ASSUME NEW got, got \subseteq Scopes, got # {}
    PROVE  FirstScope(got) \in got
<1>1. CASE Global \in got
  BY <1>1 DEF FirstScope
<1>2. CASE Global \notin got /\ got \cap Tenants # {}
  <2>1. FirstScope(got) = CHOOSE s \in got : s \in Tenants
    BY <1>2 DEF FirstScope
  <2> QED
    BY <1>2, <2>1
<1>3. CASE Global \notin got /\ got \cap Tenants = {}
  <2>1. FirstScope(got) = CHOOSE s \in got : TRUE
    BY <1>3 DEF FirstScope
  <2> QED
    BY <2>1
<1> QED
  BY <1>1, <1>2, <1>3

\* The counters an Allocate of a user takes are counters of the store.
LEMMA ScopesOfType == \A u \in Users : ScopesOf(u) \subseteq Scopes
  BY StoreAssumption DEF ScopesOf, Scopes

\* One element for another: the size does not change.
LEMMA SwapCardinality ==
    ASSUME NEW S, IsFiniteSet(S), NEW x \in S, NEW y, y \notin S
    PROVE  Cardinality((S \ {x}) \cup {y}) = Cardinality(S)
<1>1. IsFiniteSet(S \ {x}) /\ Cardinality(S \ {x}) = Cardinality(S) - 1
  BY FS_RemoveElement
<1>2. Cardinality((S \ {x}) \cup {y}) = Cardinality(S \ {x}) + 1
  BY <1>1, FS_AddElement
<1>3. Cardinality(S) \in Nat
  BY FS_CardinalityType
<1> QED
  BY <1>1, <1>2, <1>3

\* Who holds a counter is a finite set, whatever the state.
LEMMA HoldersFinite ==
    \A s : /\ IsFiniteSet(Holders(s)) /\ Cardinality(Holders(s)) \in Nat
           /\ IsFiniteSet(Admitted(s)) /\ Cardinality(Admitted(s)) \in Nat
           /\ IsFiniteSet(Live(s)) /\ Cardinality(Live(s)) \in Nat
           /\ Cardinality(Admitted(s)) <= Cardinality(Holders(s))
           /\ Cardinality(Live(s)) <= Cardinality(Admitted(s))
<1> TAKE s
<1>1. IsFiniteSet(Threads \cup Clients)
  BY StoreAssumption, FS_Union
<1>2. Holders(s) \subseteq Threads \cup Clients /\ Admitted(s) \subseteq Holders(s)
      /\ Live(s) \subseteq Admitted(s)
  BY DEF Holders, Admitted, Live, Holding
<1>3. IsFiniteSet(Holders(s)) /\ IsFiniteSet(Admitted(s)) /\ IsFiniteSet(Live(s))
  BY <1>1, <1>2, FS_Subset
<1>4. /\ Cardinality(Admitted(s)) <= Cardinality(Holders(s))
      /\ Cardinality(Live(s)) <= Cardinality(Admitted(s))
  BY <1>2, <1>3, FS_Subset
<1> QED
  BY <1>3, <1>4, FS_CardinalityType

----------------------------------------------------------------------------
(* Where a thread stands.                                                  *)

\* Changing one field of a draft leaves a draft of the same user.
LEMMA DraftUpdate ==
    ASSUME NEW d \in Drafts
    PROVE  /\ \A b \in BOOLEAN : [d EXCEPT !.expired = b] \in Drafts
                /\ [d EXCEPT !.expired = b].user = d.user
           /\ \A i \in Nat : [d EXCEPT !.id = i] \in Drafts /\ [d EXCEPT !.id = i].user = d.user
           /\ \A e \in Nat : [d EXCEPT !.epoch = e] \in Drafts /\ [d EXCEPT !.epoch = e].user = d.user
           /\ d.user \in Users /\ d.id \in Nat /\ d.epoch \in Nat /\ d # None
  BY StoreAssumption DEF Drafts

\* Every action keeps the shape of the state and the meaning of the steps.
LEMMA ShapeNext ==
    ASSUME Shape, StepsOK, Next
    PROVE  Shape' /\ StepsOK'
<1>1. ASSUME NEW c \in Clients, Expire(c) PROVE Shape' /\ StepsOK'
  <2>1. [alloc[c] EXCEPT !.expired = TRUE] \in Drafts
    BY <1>1, DraftUpdate DEF Shape, Expire
  <2>2. alloc' = [alloc EXCEPT ![c] = [alloc[c] EXCEPT !.expired = TRUE]]
        /\ UNCHANGED <<pc, args, hand, held, count, nextId>>
    BY <1>1 DEF Expire
  <2> QED
    BY <2>1, <2>2 DEF Shape, StepsOK, StepOK, Goto, Finish, args, index, trace, Steps, AllOps
<1>2. ASSUME NEW c \in Clients, Refresh(c) PROVE Shape' /\ StepsOK'
  <2>1. [alloc[c] EXCEPT !.expired = FALSE] \in Drafts
    BY <1>2, DraftUpdate DEF Shape, Refresh
  <2>2. alloc' = [alloc EXCEPT ![c] = [alloc[c] EXCEPT !.expired = FALSE]]
        /\ UNCHANGED <<pc, args, hand, held, count, nextId>>
    BY <1>2 DEF Refresh
  <2> QED
    BY <2>1, <2>2 DEF Shape, StepsOK, StepOK, Goto, Finish, args, index, trace, Steps, AllOps
<1>3. ASSUME NEW t \in Threads, NEW c \in Clients, NEW u \in Users, StartAllocate(t, c, u) PROVE Shape' /\ StepsOK'
  BY <1>3 DEF Shape, StepsOK, StepOK, Goto, Finish, Begin, args, index, trace, Steps, AllOps, Drafts, StartAllocate
<1>4. ASSUME NEW t \in Threads, TakePort(t) PROVE Shape' /\ StepsOK'
  BY <1>4 DEF Shape, StepsOK, StepOK, Goto, Finish, Begin, args, index, trace, Steps, AllOps, Drafts, TakePort
<1>5. ASSUME NEW t \in Threads, NoPort(t) PROVE Shape' /\ StepsOK'
  BY <1>5 DEF Shape, StepsOK, StepOK, Goto, Finish, Begin, args, index, trace, Steps, AllOps, NoPort
<1>6. ASSUME NEW t \in Threads, Reserve(t) PROVE Shape' /\ StepsOK'
  <2> DEFINE s == NextScope(hand[t].user, held[t])
  <2>1. hand[t] \in Drafts /\ hand[t].user \in Users /\ client[t] \in Clients
        /\ held[t] \subseteq ScopesOf(hand[t].user) \ {Global}
    BY <1>6, DraftUpdate DEF Reserve, StepsOK, StepOK
  <2>2. /\ s \in Scopes /\ s \in ScopesOf(hand[t].user) /\ s \notin held[t]
        /\ s = Global => held[t] \cup {Global} = ScopesOf(hand[t].user)
    BY <2>1, NextScopeFresh
  <2>3. /\ count' = [count EXCEPT ![s] = @ + 1]
        /\ held' = [held EXCEPT ![t] = @ \cup {s}]
        /\ UNCHANGED <<alloc, args, hand, nextId>>
        /\ \/ s # Global /\ pc' = [pc EXCEPT ![t] = "reserve"]
           \/ s = Global /\ pc' = [pc EXCEPT ![t] = "rowPort"]
           \/ s = Global /\ pc' = [pc EXCEPT ![t] = "insert"]
    BY <1>6 DEF Reserve, Goto
  <2> HIDE DEF s
  <2>4. Shape'
    BY <2>2, <2>3 DEF Shape, args, Steps
  <2>5. ASSUME NEW x \in Threads PROVE StepOK(x)'
    <3>1. CASE x # t
      BY <2>3, <3>1 DEF Shape, StepsOK, StepOK, args
    <3>2. CASE x = t
      <4>1. pc[t] = "reserve" /\ client'[t] \in Clients /\ hand'[t] = hand[t]
            /\ held'[t] = held[t] \cup {s}
        BY <1>6, <2>1, <2>3 DEF Shape, args, Reserve
      <4>2. CASE s # Global
        BY <2>1, <2>2, <2>3, <3>2, <4>1, <4>2 DEF Shape, StepOK
      <4>3. CASE s = Global
        BY <2>1, <2>2, <2>3, <3>2, <4>1, <4>3 DEF Shape, StepOK
      <4> QED
        BY <4>2, <4>3
    <3> QED
      BY <3>1, <3>2
  <2> QED
    BY <2>4, <2>5 DEF StepsOK
<1>7. ASSUME NEW t \in Threads, ReserveFails(t) PROVE Shape' /\ StepsOK'
  BY <1>7, NextScopeFresh DEF Shape, StepsOK, StepOK, Goto, Finish, Begin, args, index, trace, Steps, AllOps, Drafts, ReserveFails
<1>8. ASSUME NEW t \in Threads, ReleaseCounter(t) PROVE Shape' /\ StepsOK'
  BY <1>8, FirstScopeHeld DEF Shape, StepsOK, StepOK, Goto, Finish, Begin, args, index, trace, Steps, AllOps, ReleaseCounter
<1>9. ASSUME NEW t \in Threads, Undone(t) PROVE Shape' /\ StepsOK'
  BY <1>9 DEF Shape, StepsOK, StepOK, Goto, Finish, Begin, args, index, trace, Steps, AllOps, Undone
<1>10. ASSUME NEW t \in Threads, DropPort(t) PROVE Shape' /\ StepsOK'
  BY <1>10 DEF Shape, StepsOK, StepOK, Goto, Finish, Begin, args, index, trace, Steps, AllOps, DropPort
<1>11. ASSUME NEW t \in Threads, Insert(t) PROVE Shape' /\ StepsOK'
  <2> DEFINE a == [hand[t] EXCEPT !.id = IF hand[t].id = 0 THEN nextId ELSE @]
  <2>1. hand[t] \in Drafts /\ a \in Drafts /\ client[t] \in Clients
    BY <1>11, DraftUpdate DEF Shape, StepsOK, StepOK, Insert
  <2>2. /\ alloc' = [alloc EXCEPT ![client[t]] = a] /\ nextId' \in {nextId, nextId + 1}
        /\ hand' = [hand EXCEPT ![t] = None] /\ held' = [held EXCEPT ![t] = {}]
        /\ UNCHANGED count
    BY <1>11 DEF Insert
  <2>3. \/ pc' = [pc EXCEPT ![t] = "created"] /\ UNCHANGED args
        \/ Finish(t)
    BY <1>11 DEF Insert, Goto
  <2> HIDE DEF a
  <2>4. Shape'
    BY <2>1, <2>2, <2>3 DEF Shape, Finish, Goto, args, Steps
  <2>5. StepsOK'
    BY <2>1, <2>2, <2>3 DEF Shape, StepsOK, StepOK, Finish, Goto, args
  <2> QED
    BY <2>4, <2>5
<1>12. ASSUME NEW t \in Threads, InsertLost(t) PROVE Shape' /\ StepsOK'
  BY <1>12, StoreAssumption DEF Shape, StepsOK, StepOK, Goto, Finish, Begin, args, index, trace, Steps, AllOps, Drafts, InsertLost
<1>13. ASSUME NEW t \in Threads, Created(t) PROVE Shape' /\ StepsOK'
  BY <1>13 DEF Shape, StepsOK, StepOK, Goto, Finish, Begin, args, index, trace, Steps, AllOps, Created
<1>14. ASSUME NEW t \in Threads, NEW r \in Rows, StartRehydrate(t, r) PROVE Shape' /\ StepsOK'
  BY <1>14, StoreAssumption DEF Shape, StepsOK, StepOK, Goto, Finish, Begin, args, index, trace, Steps, AllOps, StartRehydrate
<1>15. ASSUME NEW t \in Threads, ReserveRowPort(t) PROVE Shape' /\ StepsOK'
  <2>1. Shape'
    BY <1>15 DEF Shape, ReserveRowPort, Goto, args, Steps
  <2>2. StepsOK'
    BY <1>15 DEF Shape, StepsOK, StepOK, ReserveRowPort, Goto, args
  <2> QED
    BY <2>1, <2>2
<1>16. ASSUME NEW t \in Threads, NEW c \in Clients, StartRelease(t, c) PROVE Shape' /\ StepsOK'
  BY <1>16 DEF Shape, StepsOK, StepOK, Goto, Finish, Begin, args, index, trace, Steps, AllOps, StartRelease
<1>17. ASSUME NEW t \in Threads, NEW c \in Clients, StartSweep(t, c) PROVE Shape' /\ StepsOK'
  BY <1>17 DEF Shape, StepsOK, StepOK, Goto, Finish, Begin, args, index, trace, Steps, AllOps, StartSweep
<1>18. ASSUME NEW t \in Threads, NEW c \in Clients, StartForce(t, c) PROVE Shape' /\ StepsOK'
  BY <1>18 DEF Shape, StepsOK, StepOK, Goto, Finish, Begin, args, index, trace, Steps, AllOps, StartForce
<1>19. ASSUME NEW t \in Threads, SweepRecheck(t) PROVE Shape' /\ StepsOK'
  BY <1>19 DEF Shape, StepsOK, StepOK, Goto, Finish, Begin, args, index, trace, Steps, AllOps, SweepRecheck
<1>20. ASSUME NEW t \in Threads, RmTake(t) PROVE Shape' /\ StepsOK'
  BY <1>20, ScopesOfType DEF Shape, StepsOK, StepOK, Goto, Finish, Begin, args, index, trace, Steps, AllOps, Drafts, RmTake
<1>21. ASSUME NEW t \in Threads, RmNothing(t) PROVE Shape' /\ StepsOK'
  BY <1>21 DEF Shape, StepsOK, StepOK, Goto, Finish, Begin, args, index, trace, Steps, AllOps, RmNothing
<1>22. ASSUME NEW t \in Threads, RmIndex(t) PROVE Shape' /\ StepsOK'
  BY <1>22 DEF Shape, StepsOK, StepOK, Goto, Finish, Begin, args, index, trace, Steps, AllOps, RmIndex
<1>23. ASSUME NEW t \in Threads, RmPort(t) PROVE Shape' /\ StepsOK'
  BY <1>23 DEF Shape, StepsOK, StepOK, Goto, Finish, Begin, args, index, trace, Steps, AllOps, RmPort
<1>24. ASSUME NEW t \in Threads, RmDone(t) PROVE Shape' /\ StepsOK'
  BY <1>24 DEF Shape, StepsOK, StepOK, Goto, Finish, Begin, args, index, trace, Steps, AllOps, RmDone
<1>25. ASSUME NEW t \in Threads, NEW c \in Clients, NEW k \in tickets, StartMigrate(t, c, k) PROVE Shape' /\ StepsOK'
  BY <1>25 DEF Shape, StepsOK, StepOK, Goto, Finish, Begin, args, index, trace, Steps, AllOps, StartMigrate
<1>26. ASSUME NEW t \in Threads, CheckEpoch(t) PROVE Shape' /\ StepsOK'
  BY <1>26 DEF Shape, StepsOK, StepOK, Goto, Finish, Begin, args, index, trace, Steps, AllOps, CheckEpoch
<1>27. ASSUME NEW t \in Threads, NEW o \in Clients, NEW n \in Clients, StartQuic(t, o, n) PROVE Shape' /\ StepsOK'
  BY <1>27 DEF Shape, StepsOK, StepOK, Goto, Finish, Begin, args, index, trace, Steps, AllOps, StartQuic
<1>28. ASSUME NEW t \in Threads, RkNothing(t) PROVE Shape' /\ StepsOK'
  BY <1>28 DEF Shape, StepsOK, StepOK, Goto, Finish, Begin, args, index, trace, Steps, AllOps, RkNothing
<1>29. ASSUME NEW t \in Threads, RkTake(t) PROVE Shape' /\ StepsOK'
  BY <1>29, ScopesOfType DEF Shape, StepsOK, StepOK, Goto, Finish, Begin, args, index, trace, Steps, AllOps, Drafts, RkTake
<1>30. ASSUME NEW t \in Threads, RkClaim(t) PROVE Shape' /\ StepsOK'
  <2> DEFINE a == [hand[t] EXCEPT !.epoch = @ + 1]
  <2>1. hand[t] \in Drafts /\ a \in Drafts /\ target[t] \in Clients
    <3>1. hand[t] \in Drafts /\ target[t] \in Clients
      BY <1>30 DEF StepsOK, StepOK, RkClaim
    <3>2. hand[t].epoch + 1 \in Nat
      BY <3>1, DraftUpdate
    <3> QED
      BY <3>1, <3>2, DraftUpdate
  <2>2. /\ alloc' = [alloc EXCEPT ![target[t]] = a] /\ UNCHANGED <<nextId, count>>
        /\ hand' = [hand EXCEPT ![t] = None] /\ held' = [held EXCEPT ![t] = {}]
    BY <1>30 DEF RkClaim
  <2>3. \/ pc' = [pc EXCEPT ![t] = "mgRefresh"] /\ UNCHANGED args
        \/ Finish(t)
    BY <1>30 DEF RkClaim, Goto
  <2> HIDE DEF a
  <2>4. Shape'
    BY <2>1, <2>2, <2>3 DEF Shape, Finish, Goto, args, Steps
  <2>5. StepsOK'
    BY <1>30, <2>1, <2>2, <2>3 DEF Shape, StepsOK, StepOK, Finish, Goto, args, RkClaim
  <2> QED
    BY <2>4, <2>5
<1>31. ASSUME NEW t \in Threads, RkRefused(t) PROVE Shape' /\ StepsOK'
  <2>1. Shape'
    BY <1>31 DEF Shape, RkRefused, Goto, args, Steps
  <2>2. StepsOK'
    BY <1>31 DEF Shape, StepsOK, StepOK, RkRefused, Goto, args
  <2> QED
    BY <2>1, <2>2
<1>32. ASSUME NEW t \in Threads, RkBack(t) PROVE Shape' /\ StepsOK'
  BY <1>32 DEF Shape, StepsOK, StepOK, Goto, Finish, Begin, args, index, trace, Steps, AllOps, RkBack
<1>33. ASSUME NEW t \in Threads, RkOrphan(t) PROVE Shape' /\ StepsOK'
  BY <1>33 DEF Shape, StepsOK, StepOK, Goto, Finish, Begin, args, index, trace, Steps, AllOps, RkOrphan
<1>34. ASSUME NEW t \in Threads, MigrateRefresh(t) PROVE Shape' /\ StepsOK'
  <2>1. target[t] \in Clients /\ held[t] = {}
    BY <1>34 DEF MigrateRefresh, StepsOK, StepOK
  <2>2. /\ \/ alloc' = alloc
           \/ /\ alloc[target[t]] # None
              /\ alloc' = [alloc EXCEPT ![target[t]] = [alloc[target[t]] EXCEPT !.expired = FALSE]]
        /\ UNCHANGED <<count, nextId, op, target, hand, held>>
        /\ \/ pc' = [pc EXCEPT ![t] = "mgTicket"] /\ UNCHANGED client
           \/ /\ pc' = [pc EXCEPT ![t] = "rmTake"] \/ pc' = [pc EXCEPT ![t] = "rmDone"]
              /\ client' = [client EXCEPT ![t] = target[t]]
    BY <1>34 DEF MigrateRefresh, Goto
  <2>3. alloc' \in [Clients -> Drafts \cup {None}]
    <3>1. alloc[target[t]] # None => [alloc[target[t]] EXCEPT !.expired = FALSE] \in Drafts
      BY <2>1, DraftUpdate DEF Shape
    <3> QED
      BY <2>1, <2>2, <3>1 DEF Shape
  <2>4. Shape'
    BY <2>1, <2>2, <2>3 DEF Shape, Steps
  <2>5. StepsOK'
    BY <2>1, <2>2 DEF Shape, StepsOK, StepOK
  <2> QED
    BY <2>4, <2>5
<1>35. ASSUME NEW t \in Threads, MigrateTicket(t) PROVE Shape' /\ StepsOK'
  BY <1>35 DEF Shape, StepsOK, StepOK, Goto, Finish, Begin, args, index, trace, Steps, AllOps, MigrateTicket
<1> QED
  BY <1>1, <1>2, <1>3, <1>4, <1>5, <1>6, <1>7, <1>8, <1>9, <1>10, <1>11, <1>12, <1>13, <1>14, <1>15, <1>16, <1>17, <1>18, <1>19, <1>20, <1>21, <1>22, <1>23, <1>24, <1>25, <1>26, <1>27, <1>28, <1>29, <1>30, <1>31, <1>32, <1>33, <1>34, <1>35 DEF Next

----------------------------------------------------------------------------
(* The counters.                                                           *)

\* A step that moves no unit between the map, the threads and the counters.
LEMMA QuietStep ==
    ASSUME Shape, CountsExact, AdmittedOK, held' = held, count' = count,
           \A c \in Clients : /\ alloc'[c] = None <=> alloc[c] = None
                              /\ alloc[c] # None => alloc'[c].user = alloc[c].user,
           \A t \in Threads : pc[t] = "undo" => pc'[t] = "undo" \/ held[t] = {}
    PROVE  CountsExact' /\ AdmittedOK'
<1> SUFFICES ASSUME NEW s \in Scopes
             PROVE  /\ count'[s] = Cardinality(Holders(s)')
                    /\ Cap[s] > 0 => Cardinality(Admitted(s)') <= Cap[s]
  BY DEF CountsExact, AdmittedOK, Holders
<1>1. Holders(s)' = Holders(s) /\ Admitted(s)' \subseteq Admitted(s)
  BY DEF Holders, Admitted, Live, Holding
<1>2. Cardinality(Admitted(s)') <= Cardinality(Admitted(s)) /\ Cardinality(Admitted(s)') \in Nat
  BY <1>1, HoldersFinite, FS_Subset, FS_CardinalityType
<1>3. count[s] = Cardinality(Holders(s)) /\ Cap[s] \in Nat
      /\ (Cap[s] > 0 => Cardinality(Admitted(s)) <= Cap[s])
  BY StoreAssumption DEF CountsExact, AdmittedOK, Holders
<1> QED
  BY <1>1, <1>2, <1>3, HoldersFinite

\* A thread takes a unit of counter s, within the limit or on its way out.
LEMMA TakeUnit ==
    ASSUME Shape, CountsExact, AdmittedOK, NEW t \in Threads, NEW s \in Scopes,
           s \notin held[t], UNCHANGED alloc,
           held' = [held EXCEPT ![t] = @ \cup {s}],
           count' = [count EXCEPT ![s] = @ + 1],
           \A x \in Threads \ {t} : pc'[x] = pc[x],
           pc[t] # "undo",
           pc'[t] = "undo" \/ ~Full(s)
    PROVE  CountsExact' /\ AdmittedOK'
<1> SUFFICES ASSUME NEW z \in Scopes
             PROVE  /\ count'[z] = Cardinality(Holders(z)')
                    /\ Cap[z] > 0 => Cardinality(Admitted(z)') <= Cap[z]
  BY DEF CountsExact, AdmittedOK, Holders
<1>1. count[z] = Cardinality(Holders(z)) /\ Cap[z] \in Nat
      /\ (Cap[z] > 0 => Cardinality(Admitted(z)) <= Cap[z])
  BY StoreAssumption DEF CountsExact, AdmittedOK, Holders
<1>2. t \notin Holders(s) /\ t \notin Admitted(s)
  BY StoreAssumption DEF Holders, Admitted, Holding, Live
<1>3. CASE z # s
  <2>1. Holders(z)' = Holders(z) /\ Admitted(z)' \subseteq Admitted(z) /\ count'[z] = count[z]
    BY <1>3 DEF Shape, Holders, Admitted, Live, Holding
  <2>2. Cardinality(Admitted(z)') <= Cardinality(Admitted(z)) /\ Cardinality(Admitted(z)') \in Nat
    BY <2>1, HoldersFinite, FS_Subset, FS_CardinalityType
  <2> QED
    BY <1>1, <2>1, <2>2, HoldersFinite
<1>4. CASE z = s
  <2>1. Holders(s)' = Holders(s) \cup {t} /\ count'[s] = count[s] + 1
    BY DEF Shape, Holders, Live, Holding
  <2>2. Cardinality(Holders(s)') = Cardinality(Holders(s)) + 1
    BY <1>2, <2>1, HoldersFinite, FS_AddElement
  <2>3. CASE pc'[t] = "undo"
    <3>1. Admitted(s)' \subseteq Admitted(s)
      BY <2>3 DEF Shape, Admitted, Live
    <3>2. Cardinality(Admitted(s)') <= Cardinality(Admitted(s)) /\ Cardinality(Admitted(s)') \in Nat
      BY <3>1, HoldersFinite, FS_Subset, FS_CardinalityType
    <3> QED
      BY <1>1, <1>4, <2>1, <2>2, <3>2, HoldersFinite
  <2>4. CASE pc'[t] # "undo"
    <3>1. Admitted(s)' = Admitted(s) \cup {t}
      BY <2>4 DEF Shape, Admitted, Live
    <3>2. Cardinality(Admitted(s)') = Cardinality(Admitted(s)) + 1
      BY <1>2, <3>1, HoldersFinite, FS_AddElement
    <3>3. Cap[s] > 0 => count[s] < Cap[s]
      BY <1>4, <2>4, <1>1, HoldersFinite DEF Full
    <3>4. Cardinality(Admitted(s)) <= Cardinality(Holders(s))
      BY HoldersFinite
    <3> QED
      BY <1>1, <1>4, <2>1, <2>2, <3>2, <3>3, <3>4, HoldersFinite
  <2> QED
    BY <2>3, <2>4
<1> QED
  BY <1>3, <1>4

\* A thread hands a unit of counter s back.
LEMMA GiveUnit ==
    ASSUME Shape, CountsExact, AdmittedOK, NEW t \in Threads, NEW s \in Scopes,
           s \in held[t], UNCHANGED <<alloc, pc>>,
           held' = [held EXCEPT ![t] = @ \ {s}],
           count' = [count EXCEPT ![s] = @ - 1]
    PROVE  CountsExact' /\ AdmittedOK'
<1> SUFFICES ASSUME NEW z \in Scopes
             PROVE  /\ count'[z] = Cardinality(Holders(z)')
                    /\ Cap[z] > 0 => Cardinality(Admitted(z)') <= Cap[z]
  BY DEF CountsExact, AdmittedOK, Holders
<1>1. count[z] = Cardinality(Holders(z)) /\ Cap[z] \in Nat
      /\ (Cap[z] > 0 => Cardinality(Admitted(z)) <= Cap[z])
  BY StoreAssumption DEF CountsExact, AdmittedOK, Holders
<1>2. Admitted(z)' \subseteq Admitted(z)
  BY DEF Shape, Admitted, Live
<1>3. Cardinality(Admitted(z)') <= Cardinality(Admitted(z)) /\ Cardinality(Admitted(z)') \in Nat
  BY <1>2, HoldersFinite, FS_Subset, FS_CardinalityType
<1>4. CASE z # s
  <2>1. Holders(z)' = Holders(z) /\ count'[z] = count[z]
    BY <1>4 DEF Shape, Holders, Live, Holding
  <2> QED
    BY <1>1, <1>3, <2>1, HoldersFinite
<1>5. CASE z = s
  <2>1. t \in Holders(s) /\ t \notin Live(s)
    BY StoreAssumption DEF Holders, Holding, Live
  <2>2. Holders(s)' = Holders(s) \ {t} /\ count'[s] = count[s] - 1
    BY <2>1 DEF Shape, Holders, Live, Holding
  <2>3. Cardinality(Holders(s)') = Cardinality(Holders(s)) - 1
    BY <2>1, <2>2, HoldersFinite, FS_RemoveElement
  <2> QED
    BY <1>1, <1>3, <1>5, <2>2, <2>3, HoldersFinite
<1> QED
  BY <1>4, <1>5

\* A thread's allocation enters the map with the units the thread held for it.
LEMMA EnterMap ==
    ASSUME Shape, CountsExact, AdmittedOK, NEW t \in Threads, NEW c \in Clients,
           NEW a \in Drafts, alloc[c] = None, alloc' = [alloc EXCEPT ![c] = a],
           held[t] = ScopesOf(a.user), held' = [held EXCEPT ![t] = {}],
           count' = count, pc[t] # "undo",
           \A x \in Threads \ {t} : pc'[x] = pc[x]
    PROVE  CountsExact' /\ AdmittedOK'
<1> SUFFICES ASSUME NEW z \in Scopes
             PROVE  /\ count'[z] = Cardinality(Holders(z)')
                    /\ Cap[z] > 0 => Cardinality(Admitted(z)') <= Cap[z]
  BY DEF CountsExact, AdmittedOK, Holders
<1>1. count[z] = Cardinality(Holders(z)) /\ Cap[z] \in Nat
      /\ (Cap[z] > 0 => Cardinality(Admitted(z)) <= Cap[z])
  BY StoreAssumption DEF CountsExact, AdmittedOK, Holders
<1>2. a # None /\ c \notin Threads /\ t \notin Clients /\ c \notin Live(z)
  BY StoreAssumption DEF Live
<1>3. CASE z \notin ScopesOf(a.user)
  <2>1. Holders(z)' = Holders(z) /\ Admitted(z)' = Admitted(z)
    BY <1>2, <1>3 DEF Shape, Holders, Admitted, Live, Holding
  <2> QED
    BY <1>1, <2>1
<1>4. CASE z \in ScopesOf(a.user)
  <2>1. /\ Live(z)' = Live(z) \cup {c}
        /\ Holding(z)' = Holding(z) \ {t} /\ t \in Holding(z)
        /\ {x \in Threads : z \in held[x] /\ pc[x] # "undo"}' =
             {x \in Threads : z \in held[x] /\ pc[x] # "undo"} \ {t}
    BY <1>2, <1>4 DEF Shape, Live, Holding
  <2>2. /\ Holders(z)' = (Holders(z) \ {t}) \cup {c} /\ t \in Holders(z) /\ c \notin Holders(z)
        /\ Admitted(z)' = (Admitted(z) \ {t}) \cup {c} /\ t \in Admitted(z)
        /\ c \notin Admitted(z)
    BY <1>2, <1>4, <2>1 DEF Holders, Admitted, Live, Holding
  <2>3. /\ Cardinality(Holders(z)') = Cardinality(Holders(z))
        /\ Cardinality(Admitted(z)') = Cardinality(Admitted(z))
    BY <2>2, HoldersFinite, SwapCardinality
  <2> QED
    BY <1>1, <2>3
<1> QED
  BY <1>3, <1>4

\* A thread takes an allocation, and the units it stands for, out of the map.
LEMMA LeaveMap ==
    ASSUME Shape, CountsExact, AdmittedOK, NEW t \in Threads, NEW c \in Clients,
           alloc[c] # None, alloc' = [alloc EXCEPT ![c] = None],
           held[t] = {}, held' = [held EXCEPT ![t] = ScopesOf(alloc[c].user)],
           count' = count, pc'[t] # "undo",
           \A x \in Threads \ {t} : pc'[x] = pc[x]
    PROVE  CountsExact' /\ AdmittedOK'
<1> SUFFICES ASSUME NEW z \in Scopes
             PROVE  /\ count'[z] = Cardinality(Holders(z)')
                    /\ Cap[z] > 0 => Cardinality(Admitted(z)') <= Cap[z]
  BY DEF CountsExact, AdmittedOK, Holders
<1>1. count[z] = Cardinality(Holders(z)) /\ Cap[z] \in Nat
      /\ (Cap[z] > 0 => Cardinality(Admitted(z)) <= Cap[z])
  BY StoreAssumption DEF CountsExact, AdmittedOK, Holders
<1>2. c \notin Threads /\ t \notin Clients /\ t \notin Holding(z)
  BY StoreAssumption DEF Holding
<1>3. CASE z \notin ScopesOf(alloc[c].user)
  <2>1. Holders(z)' = Holders(z) /\ Admitted(z)' = Admitted(z)
    BY <1>2, <1>3 DEF Shape, Holders, Admitted, Live, Holding
  <2> QED
    BY <1>1, <2>1
<1>4. CASE z \in ScopesOf(alloc[c].user)
  <2>1. /\ Live(z)' = Live(z) \ {c} /\ c \in Live(z)
        /\ Holding(z)' = Holding(z) \cup {t}
        /\ {x \in Threads : z \in held[x] /\ pc[x] # "undo"}' =
             {x \in Threads : z \in held[x] /\ pc[x] # "undo"} \cup {t}
    BY <1>2, <1>4 DEF Shape, Live, Holding
  <2>2. /\ Holders(z)' = (Holders(z) \ {c}) \cup {t} /\ c \in Holders(z) /\ t \notin Holders(z)
        /\ Admitted(z)' = (Admitted(z) \ {c}) \cup {t} /\ c \in Admitted(z)
        /\ t \notin Admitted(z)
    BY <1>2, <1>4, <2>1 DEF Holders, Admitted, Live, Holding
  <2>3. /\ Cardinality(Holders(z)') = Cardinality(Holders(z))
        /\ Cardinality(Admitted(z)') = Cardinality(Admitted(z))
    BY <2>2, HoldersFinite, SwapCardinality
  <2> QED
    BY <1>1, <2>3
<1> QED
  BY <1>3, <1>4

\* Every action keeps the counters exact and the limits respected.
LEMMA CountsNext ==
    ASSUME CInv, Next
    PROVE  CountsExact' /\ AdmittedOK'
<1> USE DEF CInv
<1>1. ASSUME NEW c \in Clients, Expire(c) PROVE CountsExact' /\ AdmittedOK'
  <2>1. alloc[c] \in Drafts /\ UNCHANGED <<pc, held, count>>
        /\ alloc' = [alloc EXCEPT ![c] = [alloc[c] EXCEPT !.expired = TRUE]]
    BY <1>1 DEF Expire, Shape
  <2>2. [alloc[c] EXCEPT !.expired = TRUE] \in Drafts
        /\ [alloc[c] EXCEPT !.expired = TRUE].user = alloc[c].user
    BY <2>1, DraftUpdate
  <2>3. \A x \in Clients : /\ alloc'[x] = None <=> alloc[x] = None
                           /\ alloc[x] # None => alloc'[x].user = alloc[x].user
    BY <2>1, <2>2, StoreAssumption DEF Shape
  <2> QED
    BY <2>1, <2>3, QuietStep
<1>2. ASSUME NEW c \in Clients, Refresh(c) PROVE CountsExact' /\ AdmittedOK'
  <2>1. alloc[c] \in Drafts /\ UNCHANGED <<pc, held, count>>
        /\ alloc' = [alloc EXCEPT ![c] = [alloc[c] EXCEPT !.expired = FALSE]]
    BY <1>2 DEF Refresh, Shape
  <2>2. [alloc[c] EXCEPT !.expired = FALSE] \in Drafts
        /\ [alloc[c] EXCEPT !.expired = FALSE].user = alloc[c].user
    BY <2>1, DraftUpdate
  <2>3. \A x \in Clients : /\ alloc'[x] = None <=> alloc[x] = None
                           /\ alloc[x] # None => alloc'[x].user = alloc[x].user
    BY <2>1, <2>2, StoreAssumption DEF Shape
  <2> QED
    BY <2>1, <2>3, QuietStep
<1>3. ASSUME NEW t \in Threads, NEW c \in Clients, NEW u \in Users, StartAllocate(t, c, u) PROVE CountsExact' /\ AdmittedOK'
  <2>1. UNCHANGED <<alloc, held, count>>
        /\ \A x \in Threads : pc[x] = "undo" => pc'[x] = "undo" \/ held[x] = {}
    BY <1>3 DEF StartAllocate, Begin, Finish, Goto, Shape
  <2> QED
    BY <2>1, QuietStep
<1>4. ASSUME NEW t \in Threads, TakePort(t) PROVE CountsExact' /\ AdmittedOK'
  <2>1. UNCHANGED <<alloc, held, count>>
        /\ \A x \in Threads : pc[x] = "undo" => pc'[x] = "undo" \/ held[x] = {}
    BY <1>4 DEF TakePort, Begin, Finish, Goto, Shape
  <2> QED
    BY <2>1, QuietStep
<1>5. ASSUME NEW t \in Threads, NoPort(t) PROVE CountsExact' /\ AdmittedOK'
  <2>1. UNCHANGED <<alloc, held, count>>
        /\ \A x \in Threads : pc[x] = "undo" => pc'[x] = "undo" \/ held[x] = {}
    BY <1>5 DEF NoPort, Begin, Finish, Goto, Shape
  <2> QED
    BY <2>1, QuietStep
<1>6. ASSUME NEW t \in Threads, Reserve(t) PROVE CountsExact' /\ AdmittedOK'
  <2> DEFINE s == NextScope(hand[t].user, held[t])
  <2>1. hand[t].user \in Users /\ held[t] \subseteq ScopesOf(hand[t].user) \ {Global}
    BY <1>6, DraftUpdate DEF Reserve, StepsOK, StepOK
  <2>2. s \in Scopes /\ s \notin held[t]
    BY <2>1, NextScopeFresh
  <2>3. /\ count' = [count EXCEPT ![s] = @ + 1] /\ held' = [held EXCEPT ![t] = @ \cup {s}]
        /\ UNCHANGED alloc /\ pc[t] = "reserve" /\ ~Full(s)
        /\ \A x \in Threads \ {t} : pc'[x] = pc[x]
    BY <1>6 DEF Reserve, Goto, Shape
  <2> QED
    BY <2>2, <2>3, TakeUnit
<1>7. ASSUME NEW t \in Threads, ReserveFails(t) PROVE CountsExact' /\ AdmittedOK'
  <2> DEFINE s == NextScope(hand[t].user, held[t])
  <2>1. hand[t].user \in Users /\ held[t] \subseteq ScopesOf(hand[t].user) \ {Global}
    BY <1>7, DraftUpdate DEF ReserveFails, StepsOK, StepOK
  <2>2. s \in Scopes /\ s \notin held[t]
    BY <2>1, NextScopeFresh
  <2>3. UNCHANGED alloc /\ pc[t] = "reserve" /\ pc' = [pc EXCEPT ![t] = "undo"]
    BY <1>7 DEF ReserveFails, Goto
  <2>4. CASE s = Global
    <3>1. count' = [count EXCEPT ![s] = @ + 1] /\ held' = [held EXCEPT ![t] = @ \cup {s}]
      BY <1>7, <2>4 DEF ReserveFails
    <3>2. pc'[t] = "undo" /\ \A x \in Threads \ {t} : pc'[x] = pc[x]
      BY <2>3 DEF Shape
    <3> QED
      BY <2>2, <2>3, <3>1, <3>2, TakeUnit
  <2>5. CASE s # Global
    <3>1. UNCHANGED <<count, held>>
      BY <1>7, <2>5 DEF ReserveFails
    <3> QED
      BY <2>3, <3>1, QuietStep DEF Shape
  <2> QED
    BY <2>4, <2>5
<1>8. ASSUME NEW t \in Threads, ReleaseCounter(t) PROVE CountsExact' /\ AdmittedOK'
  <2> DEFINE s == FirstScope(held[t])
  <2>1. held[t] \subseteq Scopes /\ held[t] # {}
    BY <1>8 DEF Shape, ReleaseCounter
  <2>2. s \in Scopes /\ s \in held[t]
    BY <2>1, FirstScopeHeld
  <2>3. /\ UNCHANGED <<alloc, pc>> /\ held' = [held EXCEPT ![t] = @ \ {s}]
        /\ count' = [count EXCEPT ![s] = @ - 1]
    BY <1>8 DEF ReleaseCounter
  <2> QED
    BY <2>2, <2>3, GiveUnit
<1>9. ASSUME NEW t \in Threads, Undone(t) PROVE CountsExact' /\ AdmittedOK'
  <2>1. UNCHANGED <<alloc, held, count>>
        /\ \A x \in Threads : pc[x] = "undo" => pc'[x] = "undo" \/ held[x] = {}
    BY <1>9 DEF Undone, Begin, Finish, Goto, Shape
  <2> QED
    BY <2>1, QuietStep
<1>10. ASSUME NEW t \in Threads, DropPort(t) PROVE CountsExact' /\ AdmittedOK'
  <2>1. UNCHANGED <<alloc, held, count>>
        /\ \A x \in Threads : pc[x] = "undo" => pc'[x] = "undo" \/ held[x] = {}
    BY <1>10 DEF DropPort, Begin, Finish, Goto, Shape
  <2> QED
    BY <2>1, QuietStep
<1>11. ASSUME NEW t \in Threads, Insert(t) PROVE CountsExact' /\ AdmittedOK'
  <2> DEFINE a == [hand[t] EXCEPT !.id = IF hand[t].id = 0 THEN nextId ELSE @]
  <2>1. client[t] \in Clients /\ held[t] = ScopesOf(hand[t].user) /\ hand[t] \in Drafts
    BY <1>11 DEF StepsOK, StepOK, Insert
  <2>2. a \in Drafts /\ a.user = hand[t].user
    BY <2>1, DraftUpdate DEF Shape
  <2>3. /\ alloc[client[t]] = None /\ alloc' = [alloc EXCEPT ![client[t]] = a]
        /\ held' = [held EXCEPT ![t] = {}] /\ UNCHANGED count /\ pc[t] = "insert"
        /\ \A x \in Threads \ {t} : pc'[x] = pc[x]
    BY <1>11 DEF Insert, Finish, Goto, Shape
  <2> HIDE DEF a
  <2> QED
    BY <2>1, <2>2, <2>3, EnterMap
<1>12. ASSUME NEW t \in Threads, InsertLost(t) PROVE CountsExact' /\ AdmittedOK'
  <2>1. UNCHANGED <<alloc, held, count>>
        /\ \A x \in Threads : pc[x] = "undo" => pc'[x] = "undo" \/ held[x] = {}
    BY <1>12 DEF InsertLost, Begin, Finish, Goto, Shape
  <2> QED
    BY <2>1, QuietStep
<1>13. ASSUME NEW t \in Threads, Created(t) PROVE CountsExact' /\ AdmittedOK'
  <2>1. UNCHANGED <<alloc, held, count>>
        /\ \A x \in Threads : pc[x] = "undo" => pc'[x] = "undo" \/ held[x] = {}
    BY <1>13 DEF Created, Begin, Finish, Goto, Shape
  <2> QED
    BY <2>1, QuietStep
<1>14. ASSUME NEW t \in Threads, NEW r \in Rows, StartRehydrate(t, r) PROVE CountsExact' /\ AdmittedOK'
  <2>1. UNCHANGED <<alloc, held, count>>
        /\ \A x \in Threads : pc[x] = "undo" => pc'[x] = "undo" \/ held[x] = {}
    BY <1>14 DEF StartRehydrate, Begin, Finish, Goto, Shape
  <2> QED
    BY <2>1, QuietStep
<1>15. ASSUME NEW t \in Threads, ReserveRowPort(t) PROVE CountsExact' /\ AdmittedOK'
  <2>1. UNCHANGED <<alloc, held, count>>
        /\ \A x \in Threads : pc[x] = "undo" => pc'[x] = "undo" \/ held[x] = {}
    BY <1>15 DEF ReserveRowPort, Begin, Finish, Goto, Shape
  <2> QED
    BY <2>1, QuietStep
<1>16. ASSUME NEW t \in Threads, NEW c \in Clients, StartRelease(t, c) PROVE CountsExact' /\ AdmittedOK'
  <2>1. UNCHANGED <<alloc, held, count>>
        /\ \A x \in Threads : pc[x] = "undo" => pc'[x] = "undo" \/ held[x] = {}
    BY <1>16 DEF StartRelease, Begin, Finish, Goto, Shape
  <2> QED
    BY <2>1, QuietStep
<1>17. ASSUME NEW t \in Threads, NEW c \in Clients, StartSweep(t, c) PROVE CountsExact' /\ AdmittedOK'
  <2>1. UNCHANGED <<alloc, held, count>>
        /\ \A x \in Threads : pc[x] = "undo" => pc'[x] = "undo" \/ held[x] = {}
    BY <1>17 DEF StartSweep, Begin, Finish, Goto, Shape
  <2> QED
    BY <2>1, QuietStep
<1>18. ASSUME NEW t \in Threads, NEW c \in Clients, StartForce(t, c) PROVE CountsExact' /\ AdmittedOK'
  <2>1. UNCHANGED <<alloc, held, count>>
        /\ \A x \in Threads : pc[x] = "undo" => pc'[x] = "undo" \/ held[x] = {}
    BY <1>18 DEF StartForce, Begin, Finish, Goto, Shape
  <2> QED
    BY <2>1, QuietStep
<1>19. ASSUME NEW t \in Threads, SweepRecheck(t) PROVE CountsExact' /\ AdmittedOK'
  <2>1. UNCHANGED <<alloc, held, count>>
        /\ \A x \in Threads : pc[x] = "undo" => pc'[x] = "undo" \/ held[x] = {}
    BY <1>19 DEF SweepRecheck, Begin, Finish, Goto, Shape
  <2> QED
    BY <2>1, QuietStep
<1>20. ASSUME NEW t \in Threads, RmTake(t) PROVE CountsExact' /\ AdmittedOK'
  <2>1. client[t] \in Clients /\ held[t] = {}
    BY <1>20 DEF StepsOK, StepOK, RmTake
  <2>2. /\ alloc[client[t]] # None /\ alloc' = [alloc EXCEPT ![client[t]] = None]
        /\ held' = [held EXCEPT ![t] = ScopesOf(alloc[client[t]].user)]
        /\ UNCHANGED count /\ pc'[t] # "undo"
        /\ \A x \in Threads \ {t} : pc'[x] = pc[x]
    BY <1>20 DEF RmTake, Goto, Shape
  <2> QED
    BY <2>1, <2>2, LeaveMap
<1>21. ASSUME NEW t \in Threads, RmNothing(t) PROVE CountsExact' /\ AdmittedOK'
  <2>1. UNCHANGED <<alloc, held, count>>
        /\ \A x \in Threads : pc[x] = "undo" => pc'[x] = "undo" \/ held[x] = {}
    BY <1>21 DEF RmNothing, Begin, Finish, Goto, Shape
  <2> QED
    BY <2>1, QuietStep
<1>22. ASSUME NEW t \in Threads, RmIndex(t) PROVE CountsExact' /\ AdmittedOK'
  <2>1. UNCHANGED <<alloc, held, count>>
        /\ \A x \in Threads : pc[x] = "undo" => pc'[x] = "undo" \/ held[x] = {}
    BY <1>22 DEF RmIndex, Begin, Finish, Goto, Shape
  <2> QED
    BY <2>1, QuietStep
<1>23. ASSUME NEW t \in Threads, RmPort(t) PROVE CountsExact' /\ AdmittedOK'
  <2>1. UNCHANGED <<alloc, held, count>>
        /\ \A x \in Threads : pc[x] = "undo" => pc'[x] = "undo" \/ held[x] = {}
    BY <1>23 DEF RmPort, Begin, Finish, Goto, Shape
  <2> QED
    BY <2>1, QuietStep
<1>24. ASSUME NEW t \in Threads, RmDone(t) PROVE CountsExact' /\ AdmittedOK'
  <2>1. UNCHANGED <<alloc, held, count>>
        /\ \A x \in Threads : pc[x] = "undo" => pc'[x] = "undo" \/ held[x] = {}
    BY <1>24 DEF RmDone, Begin, Finish, Goto, Shape
  <2> QED
    BY <2>1, QuietStep
<1>25. ASSUME NEW t \in Threads, NEW c \in Clients, NEW k \in tickets, StartMigrate(t, c, k) PROVE CountsExact' /\ AdmittedOK'
  <2>1. UNCHANGED <<alloc, held, count>>
        /\ \A x \in Threads : pc[x] = "undo" => pc'[x] = "undo" \/ held[x] = {}
    BY <1>25 DEF StartMigrate, Begin, Finish, Goto, Shape
  <2> QED
    BY <2>1, QuietStep
<1>26. ASSUME NEW t \in Threads, CheckEpoch(t) PROVE CountsExact' /\ AdmittedOK'
  <2>1. UNCHANGED <<alloc, held, count>>
        /\ \A x \in Threads : pc[x] = "undo" => pc'[x] = "undo" \/ held[x] = {}
    BY <1>26 DEF CheckEpoch, Begin, Finish, Goto, Shape
  <2> QED
    BY <2>1, QuietStep
<1>27. ASSUME NEW t \in Threads, NEW o \in Clients, NEW n \in Clients, StartQuic(t, o, n) PROVE CountsExact' /\ AdmittedOK'
  <2>1. UNCHANGED <<alloc, held, count>>
        /\ \A x \in Threads : pc[x] = "undo" => pc'[x] = "undo" \/ held[x] = {}
    BY <1>27 DEF StartQuic, Begin, Finish, Goto, Shape
  <2> QED
    BY <2>1, QuietStep
<1>28. ASSUME NEW t \in Threads, RkNothing(t) PROVE CountsExact' /\ AdmittedOK'
  <2>1. UNCHANGED <<alloc, held, count>>
        /\ \A x \in Threads : pc[x] = "undo" => pc'[x] = "undo" \/ held[x] = {}
    BY <1>28 DEF RkNothing, Begin, Finish, Goto, Shape
  <2> QED
    BY <2>1, QuietStep
<1>29. ASSUME NEW t \in Threads, RkTake(t) PROVE CountsExact' /\ AdmittedOK'
  <2>1. client[t] \in Clients /\ held[t] = {}
    BY <1>29 DEF StepsOK, StepOK, RkTake
  <2>2. /\ alloc[client[t]] # None /\ alloc' = [alloc EXCEPT ![client[t]] = None]
        /\ held' = [held EXCEPT ![t] = ScopesOf(alloc[client[t]].user)]
        /\ UNCHANGED count /\ pc'[t] # "undo"
        /\ \A x \in Threads \ {t} : pc'[x] = pc[x]
    BY <1>29 DEF RkTake, Goto, Shape
  <2> QED
    BY <2>1, <2>2, LeaveMap
<1>30. ASSUME NEW t \in Threads, RkClaim(t) PROVE CountsExact' /\ AdmittedOK'
  <2> DEFINE a == [hand[t] EXCEPT !.epoch = @ + 1]
  <2>1. target[t] \in Clients /\ held[t] = ScopesOf(hand[t].user) /\ hand[t] \in Drafts
    BY <1>30 DEF StepsOK, StepOK, RkClaim
  <2>2. hand[t].epoch + 1 \in Nat
    BY <2>1, DraftUpdate
  <2>3. a \in Drafts /\ a.user = hand[t].user
    BY <2>1, <2>2, DraftUpdate
  <2>4. /\ alloc[target[t]] = None /\ alloc' = [alloc EXCEPT ![target[t]] = a]
        /\ held' = [held EXCEPT ![t] = {}] /\ UNCHANGED count /\ pc[t] = "rkClaim"
        /\ \A x \in Threads \ {t} : pc'[x] = pc[x]
    BY <1>30 DEF RkClaim, Finish, Goto, Shape
  <2> HIDE DEF a
  <2> QED
    BY <2>1, <2>3, <2>4, EnterMap
<1>31. ASSUME NEW t \in Threads, RkRefused(t) PROVE CountsExact' /\ AdmittedOK'
  <2>1. UNCHANGED <<alloc, held, count>>
        /\ \A x \in Threads : pc[x] = "undo" => pc'[x] = "undo" \/ held[x] = {}
    BY <1>31 DEF RkRefused, Begin, Finish, Goto, Shape
  <2> QED
    BY <2>1, QuietStep
<1>32. ASSUME NEW t \in Threads, RkBack(t) PROVE CountsExact' /\ AdmittedOK'
  <2>1. client[t] \in Clients /\ held[t] = ScopesOf(hand[t].user) /\ hand[t] \in Drafts
    BY <1>32 DEF StepsOK, StepOK, RkBack
  <2>2. /\ alloc[client[t]] = None /\ alloc' = [alloc EXCEPT ![client[t]] = hand[t]]
        /\ held' = [held EXCEPT ![t] = {}] /\ UNCHANGED count /\ pc[t] = "rkBack"
        /\ \A x \in Threads \ {t} : pc'[x] = pc[x]
    BY <1>32 DEF RkBack, Finish, Goto, Shape
  <2> QED
    BY <2>1, <2>2, EnterMap
<1>33. ASSUME NEW t \in Threads, RkOrphan(t) PROVE CountsExact' /\ AdmittedOK'
  <2>1. UNCHANGED <<alloc, held, count>>
        /\ \A x \in Threads : pc[x] = "undo" => pc'[x] = "undo" \/ held[x] = {}
    BY <1>33 DEF RkOrphan, Begin, Finish, Goto, Shape
  <2> QED
    BY <2>1, QuietStep
<1>34. ASSUME NEW t \in Threads, MigrateRefresh(t) PROVE CountsExact' /\ AdmittedOK'
  <2>1. target[t] \in Clients /\ UNCHANGED <<held, count>>
        /\ \A x \in Threads : pc[x] = "undo" => pc'[x] = "undo"
    BY <1>34 DEF MigrateRefresh, Goto, Shape, StepsOK, StepOK
  <2>2. \/ alloc' = alloc
        \/ /\ alloc[target[t]] # None
           /\ alloc' = [alloc EXCEPT ![target[t]] = [alloc[target[t]] EXCEPT !.expired = FALSE]]
    BY <1>34 DEF MigrateRefresh
  <2>3. alloc[target[t]] # None =>
          /\ [alloc[target[t]] EXCEPT !.expired = FALSE] \in Drafts
          /\ [alloc[target[t]] EXCEPT !.expired = FALSE].user = alloc[target[t]].user
    BY <2>1, DraftUpdate DEF Shape
  <2>4. \A x \in Clients : /\ alloc'[x] = None <=> alloc[x] = None
                           /\ alloc[x] # None => alloc'[x].user = alloc[x].user
    BY <2>1, <2>2, <2>3, StoreAssumption DEF Shape
  <2> QED
    BY <2>1, <2>4, QuietStep
<1>35. ASSUME NEW t \in Threads, MigrateTicket(t) PROVE CountsExact' /\ AdmittedOK'
  <2>1. UNCHANGED <<alloc, held, count>>
        /\ \A x \in Threads : pc[x] = "undo" => pc'[x] = "undo" \/ held[x] = {}
    BY <1>35 DEF MigrateTicket, Begin, Finish, Goto, Shape
  <2> QED
    BY <2>1, QuietStep
<1> QED
  BY <1>1, <1>2, <1>3, <1>4, <1>5, <1>6, <1>7, <1>8, <1>9, <1>10, <1>11, <1>12, <1>13, <1>14, <1>15, <1>16, <1>17, <1>18, <1>19, <1>20, <1>21, <1>22, <1>23, <1>24, <1>25, <1>26, <1>27, <1>28, <1>29, <1>30, <1>31, <1>32, <1>33, <1>34, <1>35 DEF Next

----------------------------------------------------------------------------
\* An empty store has empty counters (AllocationStore::new).
LEMMA CInit == Init => CInv
<1> SUFFICES ASSUME Init PROVE CInv
  OBVIOUS
<1>1. Shape /\ StepsOK
  BY StoreAssumption DEF Init, Shape, StepsOK, StepOK, Steps, AllOps
<1>2. \A s \in Scopes : Holders(s) = {} /\ Admitted(s) = {} /\ count[s] = 0
  BY DEF Init, Holders, Admitted, Live, Holding
<1>3. Cardinality({}) = 0
  BY FS_EmptySet
<1>4. CountsExact
  BY <1>2, <1>3 DEF CountsExact, Holders
<1>5. \A s \in Scopes : Cap[s] \in Nat
  BY StoreAssumption
<1>6. AdmittedOK
  BY <1>2, <1>3, <1>5 DEF AdmittedOK
<1> QED
  BY <1>1, <1>4, <1>6 DEF CInv

\* Every step of every thread keeps the invariant of admission control.
LEMMA CNext == CInv /\ [Next]_vars => CInv'
<1> SUFFICES ASSUME CInv, [Next]_vars PROVE CInv'
  OBVIOUS
<1>1. CASE Next
  BY <1>1, ShapeNext, CountsNext DEF CInv
<1>2. CASE UNCHANGED vars
  BY <1>2 DEF CInv, vars, args, Shape, StepsOK, StepOK, CountsExact, AdmittedOK, Admitted,
              Live, Holding
<1> QED
  BY <1>1, <1>2

\* The invariant of admission control holds in every reachable state.
THEOREM StoreInvariant == Spec => []CInv
  BY CInit, CNext, PTL DEF Spec

\* For every number of threads and clients: each of user_counts, tenant_counts and
\* global_count is the number of live allocations of its scope plus the units that
\* operations under way hold, so no path loses one or returns one twice.
THEOREM StoreCountsExact == Spec => []CountsExact
  BY StoreInvariant, PTL DEF CInv

\* The live allocations of a scope are among what it admitted.
LEMMA AdmittedWithin == CInv => WithinLimits
<1> SUFFICES ASSUME CInv, NEW s \in Scopes, Cap[s] > 0 PROVE Cardinality(Live(s)) <= Cap[s]
  BY DEF WithinLimits
<1>1. Cardinality(Admitted(s)) <= Cap[s] /\ Cap[s] \in Nat
  BY StoreAssumption DEF CInv, AdmittedOK
<1> QED
  BY <1>1, HoldersFinite

\* For every limit: a user, a tenant and the node never have more allocations than
\* they may, whatever races in reserve_counters, re_key, rehydrate and the removals.
THEOREM StoreWithinLimits == Spec => []WithinLimits
  BY StoreInvariant, AdmittedWithin, PTL

----------------------------------------------------------------------------
(* Types.                                                                  *)

\* A thread brings a draft to its port, its counters and its slot, ...
Drafting == {"port", "reserve", "rowPort", "insert", "undo", "dropPort"}

\* ... or carries an allocation that it took out of the map.
Carrying == {"rmCounters", "rkClaim", "rkBack"}

Tables ==
    /\ relayIx \in [Ports -> Clients \cup {None}]
    /\ idIx \in [Ids -> Clients \cup {None}]
    /\ used \subseteq Ports /\ rows \subseteq Rows
    /\ gauge \in Int /\ closed \in [Ids -> Nat] /\ made \subseteq Ids
    /\ tickets \subseteq Ids \X Epochs
    /\ moved \subseteq (Ids \X Epochs) \X (Ids \X Epochs)
    /\ rport \in [Threads -> Ports \cup {None}]
    /\ ticket \in [Threads -> (Ids \X Epochs) \cup {None}]

Placed == \A c \in Clients : alloc[c] # None => alloc[c] \in Allocations

\* What a thread works on, by the operation it runs and the step it stands at.
PlaceOK(t) ==
    /\ hand[t] # None <=> pc[t] \in Drafting \cup Carrying \cup {"rmPort"}
    /\ hand[t] # None => hand[t].id <= MaxId /\ hand[t].epoch <= MaxEpoch
    /\ pc[t] \in Drafting => op[t] \in {"allocate", "rehydrate"}
    /\ pc[t] = "port" => op[t] = "allocate"
    /\ pc[t] = "rowPort" => op[t] = "rehydrate"
    /\ pc[t] \in Drafting \ {"port"} => hand[t].port \in Ports
    /\ pc[t] \in Carrying \cup {"rmPort"} => hand[t] \in Allocations
    /\ pc[t] \in {"rkClaim", "rkBack"} => hand[t].epoch < MaxEpoch
    /\ pc[t] = "created" => client[t] \in Clients
    /\ pc[t] \in {"epoch", "mgRefresh", "mgTicket"} => op[t] = "migrate"
    /\ pc[t] \in {"rkTake", "rkClaim", "rkBack"} => op[t] \in {"migrate", "quic"}
    /\ pc[t] = "rkTake" /\ op[t] = "quic" => client[t] # target[t]
    /\ pc[t] \in {"recheck", "rmTake"} /\ op[t] # "force" => rport[t] \in Ports
    /\ pc[t] \in {"rmCounters", "rmPort"} => rport[t] \in Ports /\ client[t] \in Clients
    /\ pc[t] # "idle" /\ op[t] = "migrate" =>
         ticket[t] \in Ids \X Epochs /\ ticket[t][2] < MaxEpoch /\ target[t] \in Clients

PlacesOK == \A t \in Threads : PlaceOK(t)

\* Drafts that have yet to get their id: MayMint keeps one for each of them.
Unnamed == {t \in Threads : hand[t] # None /\ hand[t].id = 0}
RoomOK == nextId >= 1 /\ nextId + Cardinality(Unnamed) <= MaxId + 1

TInv == Tables /\ Placed /\ PlacesOK /\ RoomOK

\* An allocation is a draft that has its id and its port.
LEMMA AllocationFields ==
    /\ \A a \in Allocations :
         /\ a \in Drafts /\ a # None
         /\ a.id \in Ids /\ a.id # 0 /\ a.id \in Nat /\ a.epoch \in Epochs /\ a.port \in Ports
         /\ a.user \in Users
    /\ \A d \in Drafts :
         /\ d # None /\ d.id \in Nat /\ d.epoch \in Nat /\ d.port \in Ports \cup {None}
         /\ d.id # 0 /\ d.id <= MaxId /\ d.epoch <= MaxEpoch /\ d.port \in Ports => d \in Allocations
  BY StoreAssumption DEF Allocations, Drafts, Ids, Epochs

\* A change of one field leaves the others.
LEMMA DraftKeeps ==
    ASSUME NEW d \in Drafts
    PROVE  /\ \A b \in BOOLEAN : LET x == [d EXCEPT !.expired = b] IN
                x \in Drafts /\ x.id = d.id /\ x.epoch = d.epoch /\ x.port = d.port
           /\ \A i \in Nat : LET x == [d EXCEPT !.id = i] IN
                x \in Drafts /\ x.id = i /\ x.epoch = d.epoch /\ x.port = d.port
           /\ \A e \in Nat : LET x == [d EXCEPT !.epoch = e] IN
                x \in Drafts /\ x.id = d.id /\ x.epoch = e /\ x.port = d.port
           /\ \A p \in Ports : LET x == [d EXCEPT !.port = p] IN
                x \in Drafts /\ x.id = d.id /\ x.epoch = d.epoch /\ x.port = p
  BY StoreAssumption DEF Drafts

\* There is an id left for every draft that comes to be inserted.
LEMMA NewId ==
    ASSUME CInv, TInv, NEW t \in Threads, pc[t] = "insert"
    PROVE  /\ (IF hand[t].id = 0 THEN nextId ELSE hand[t].id) \in Ids
           /\ hand[t] \in Drafts /\ hand[t].port \in Ports
           /\ hand[t].id = 0 => t \in Unnamed /\ nextId \in Ids
<1>1. hand[t] \in Drafts /\ hand[t].id \in Nat /\ hand[t].id <= MaxId /\ hand[t].port \in Ports
      /\ hand[t] # None /\ nextId \in Nat /\ nextId >= 1
  BY AllocationFields DEF CInv, Shape, StepsOK, StepOK, TInv, PlacesOK, PlaceOK, Drafting, RoomOK
<1>2. CASE hand[t].id = 0
  <2>1. t \in Unnamed /\ IsFiniteSet(Unnamed)
    BY <1>1, <1>2, StoreAssumption, FS_Subset DEF Unnamed
  <2>2. Cardinality(Unnamed) >= 1 /\ Cardinality(Unnamed) \in Nat
    BY <2>1, FS_CardinalityType, FS_EmptySet
  <2> QED
    BY <1>1, <1>2, <2>1, <2>2, StoreAssumption DEF TInv, RoomOK, Ids
<1>3. CASE hand[t].id # 0
  BY <1>1, <1>3, StoreAssumption DEF Ids
<1> QED
  BY <1>2, <1>3

\* Every action keeps the types of the tables.
LEMMA TablesNext ==
    ASSUME CInv, TInv, Next
    PROVE  Tables'
<1>1. ASSUME NEW c \in Clients, Expire(c) PROVE Tables'
  BY <1>1 DEF TInv, Tables, Begin, Finish, Goto, args, index, trace, Expire
<1>2. ASSUME NEW c \in Clients, Refresh(c) PROVE Tables'
  BY <1>2 DEF TInv, Tables, Begin, Finish, Goto, args, index, trace, Refresh
<1>3. ASSUME NEW t \in Threads, NEW c \in Clients, NEW u \in Users, StartAllocate(t, c, u) PROVE Tables'
  BY <1>3 DEF TInv, Tables, Begin, Finish, Goto, args, index, trace, StartAllocate
<1>4. ASSUME NEW t \in Threads, TakePort(t) PROVE Tables'
  BY <1>4 DEF TInv, Tables, Begin, Finish, Goto, args, index, trace, TakePort
<1>5. ASSUME NEW t \in Threads, NoPort(t) PROVE Tables'
  BY <1>5 DEF TInv, Tables, Begin, Finish, Goto, args, index, trace, NoPort
<1>6. ASSUME NEW t \in Threads, Reserve(t) PROVE Tables'
  BY <1>6 DEF TInv, Tables, Begin, Finish, Goto, args, index, trace, Reserve
<1>7. ASSUME NEW t \in Threads, ReserveFails(t) PROVE Tables'
  BY <1>7 DEF TInv, Tables, Begin, Finish, Goto, args, index, trace, ReserveFails
<1>8. ASSUME NEW t \in Threads, ReleaseCounter(t) PROVE Tables'
  BY <1>8 DEF TInv, Tables, Begin, Finish, Goto, args, index, trace, ReleaseCounter
<1>9. ASSUME NEW t \in Threads, Undone(t) PROVE Tables'
  BY <1>9 DEF TInv, Tables, Begin, Finish, Goto, args, index, trace, Undone
<1>10. ASSUME NEW t \in Threads, DropPort(t) PROVE Tables'
  BY <1>10 DEF TInv, Tables, Begin, Finish, Goto, args, index, trace, DropPort
<1>11. ASSUME NEW t \in Threads, Insert(t) PROVE Tables'
  <2> DEFINE i == IF hand[t].id = 0 THEN nextId ELSE hand[t].id
             a == [hand[t] EXCEPT !.id = i]
  <2>1. hand[t] \in Drafts /\ client[t] \in Clients /\ i \in Ids
    BY <1>11, NewId DEF CInv, StepsOK, StepOK, Insert
  <2>2. a.id \in Ids /\ a.port = hand[t].port
    BY <2>1, DraftKeeps, StoreAssumption DEF Ids
  <2>3. hand[t].port \in Ports
    BY <1>11 DEF TInv, PlacesOK, PlaceOK, Drafting, Insert
  <2>4. /\ relayIx' = [relayIx EXCEPT ![a.port] = client[t]]
        /\ idIx' = [idIx EXCEPT ![a.id] = client[t]]
        /\ made' = made \cup {a.id} /\ UNCHANGED <<used, rows, gauge, closed, tickets, moved>>
        /\ UNCHANGED <<rport, ticket>> \/ Finish(t)
    BY <1>11 DEF Insert, args
  <2> HIDE DEF a
  <2> QED
    BY <2>1, <2>2, <2>3, <2>4 DEF TInv, Tables, Finish
<1>12. ASSUME NEW t \in Threads, InsertLost(t) PROVE Tables'
  BY <1>12 DEF TInv, Tables, Begin, Finish, Goto, args, index, trace, InsertLost
<1>13. ASSUME NEW t \in Threads, Created(t) PROVE Tables'
  <2>1. alloc[client[t]] # None =>
          alloc[client[t]].id \in Ids /\ alloc[client[t]].epoch \in Epochs
    BY <1>13, AllocationFields DEF TInv, Placed, PlacesOK, PlaceOK, Created
  <2> QED
    BY <1>13, <2>1 DEF TInv, Tables, Begin, Finish, Goto, args, index, trace, Created
<1>14. ASSUME NEW t \in Threads, NEW r \in Rows, StartRehydrate(t, r) PROVE Tables'
  BY <1>14 DEF TInv, Tables, Begin, Finish, Goto, args, index, trace, StartRehydrate
<1>15. ASSUME NEW t \in Threads, ReserveRowPort(t) PROVE Tables'
  BY <1>15 DEF TInv, Tables, Begin, Finish, Goto, args, index, trace, PlacesOK, PlaceOK, Drafting, ReserveRowPort
<1>16. ASSUME NEW t \in Threads, NEW c \in Clients, StartRelease(t, c) PROVE Tables'
  <2>1. alloc[c].port \in Ports
    BY <1>16, AllocationFields DEF TInv, Placed, StartRelease
  <2> QED
    BY <1>16, <2>1 DEF TInv, Tables, Begin, Finish, Goto, args, index, trace, StartRelease
<1>17. ASSUME NEW t \in Threads, NEW c \in Clients, StartSweep(t, c) PROVE Tables'
  <2>1. alloc[c].port \in Ports
    BY <1>17, AllocationFields DEF TInv, Placed, StartSweep
  <2> QED
    BY <1>17, <2>1 DEF TInv, Tables, Begin, Finish, Goto, args, index, trace, StartSweep
<1>18. ASSUME NEW t \in Threads, NEW c \in Clients, StartForce(t, c) PROVE Tables'
  BY <1>18 DEF TInv, Tables, Begin, Finish, Goto, args, index, trace, StartForce
<1>19. ASSUME NEW t \in Threads, SweepRecheck(t) PROVE Tables'
  BY <1>19 DEF TInv, Tables, Begin, Finish, Goto, args, index, trace, SweepRecheck
<1>20. ASSUME NEW t \in Threads, RmTake(t) PROVE Tables'
  <2>1. alloc[client[t]].port \in Ports
    BY <1>20, AllocationFields DEF CInv, StepsOK, StepOK, TInv, Placed, RmTake
  <2> QED
    BY <1>20, <2>1 DEF TInv, Tables, Begin, Finish, Goto, args, index, trace, RmTake
<1>21. ASSUME NEW t \in Threads, RmNothing(t) PROVE Tables'
  BY <1>21 DEF TInv, Tables, Begin, Finish, Goto, args, index, trace, RmNothing
<1>22. ASSUME NEW t \in Threads, RmIndex(t) PROVE Tables'
  <2>1. hand[t].id \in Ids /\ rport[t] \in Ports
    BY <1>22, AllocationFields DEF TInv, PlacesOK, PlaceOK, Carrying, RmIndex
  <2> QED
    BY <1>22, <2>1 DEF TInv, Tables, Begin, Finish, Goto, args, index, trace, RmIndex
<1>23. ASSUME NEW t \in Threads, RmPort(t) PROVE Tables'
  BY <1>23 DEF TInv, Tables, Begin, Finish, Goto, args, index, trace, RmPort
<1>24. ASSUME NEW t \in Threads, RmDone(t) PROVE Tables'
  BY <1>24 DEF TInv, Tables, Begin, Finish, Goto, args, index, trace, RmDone
<1>25. ASSUME NEW t \in Threads, NEW c \in Clients, NEW k \in tickets, StartMigrate(t, c, k) PROVE Tables'
  BY <1>25 DEF TInv, Tables, Begin, Finish, Goto, args, index, trace, StartMigrate
<1>26. ASSUME NEW t \in Threads, CheckEpoch(t) PROVE Tables'
  BY <1>26 DEF TInv, Tables, Begin, Finish, Goto, args, index, trace, CheckEpoch
<1>27. ASSUME NEW t \in Threads, NEW o \in Clients, NEW n \in Clients, StartQuic(t, o, n) PROVE Tables'
  BY <1>27 DEF TInv, Tables, Begin, Finish, Goto, args, index, trace, StartQuic
<1>28. ASSUME NEW t \in Threads, RkNothing(t) PROVE Tables'
  BY <1>28 DEF TInv, Tables, Begin, Finish, Goto, args, index, trace, RkNothing
<1>29. ASSUME NEW t \in Threads, RkTake(t) PROVE Tables'
  BY <1>29 DEF TInv, Tables, Begin, Finish, Goto, args, index, trace, RkTake
<1>30. ASSUME NEW t \in Threads, RkClaim(t) PROVE Tables'
  <2>1. hand[t].id \in Ids /\ hand[t].epoch \in Epochs /\ hand[t].port \in Ports
        /\ target[t] \in Clients
    BY <1>30, AllocationFields DEF CInv, StepsOK, StepOK, TInv, PlacesOK, PlaceOK, Carrying, RkClaim
  <2>2. op[t] = "migrate" => ticket[t] \in Ids \X Epochs
    BY <1>30 DEF TInv, PlacesOK, PlaceOK, RkClaim
  <2>3. /\ relayIx' = [relayIx EXCEPT ![hand[t].port] = target[t]]
        /\ idIx' = [idIx EXCEPT ![hand[t].id] = target[t]]
        /\ moved' = IF op[t] = "migrate"
                    THEN moved \cup {<<ticket[t], <<hand[t].id, hand[t].epoch>>>>} ELSE moved
        /\ UNCHANGED <<used, rows, gauge, closed, made, tickets>>
        /\ UNCHANGED <<rport, ticket>> \/ Finish(t)
    BY <1>30 DEF RkClaim, args
  <2> QED
    BY <2>1, <2>2, <2>3 DEF TInv, Tables, Finish
<1>31. ASSUME NEW t \in Threads, RkRefused(t) PROVE Tables'
  BY <1>31 DEF TInv, Tables, Begin, Finish, Goto, args, index, trace, RkRefused
<1>32. ASSUME NEW t \in Threads, RkBack(t) PROVE Tables'
  BY <1>32 DEF TInv, Tables, Begin, Finish, Goto, args, index, trace, RkBack
<1>33. ASSUME NEW t \in Threads, RkOrphan(t) PROVE Tables'
  <2>1. hand[t].port \in Ports
    BY <1>33, AllocationFields DEF TInv, PlacesOK, PlaceOK, Carrying, RkOrphan
  <2> QED
    BY <1>33, <2>1 DEF TInv, Tables, Begin, Finish, Goto, args, index, trace, RkOrphan
<1>34. ASSUME NEW t \in Threads, MigrateRefresh(t) PROVE Tables'
  <2>1. target[t] \in Clients
    BY <1>34 DEF CInv, StepsOK, StepOK, MigrateRefresh
  <2>2. alloc[target[t]] # None => alloc[target[t]].port \in Ports
    BY <2>1, AllocationFields DEF TInv, Placed
  <2>3. /\ UNCHANGED <<index, used, rows, trace, ticket>>
        /\ \/ rport' = rport
           \/ alloc[target[t]] # None /\ rport' = [rport EXCEPT ![t] = alloc[target[t]].port]
           \/ alloc[target[t]] = None /\ rport' = [rport EXCEPT ![t] = rport[t]]
    BY <1>34 DEF MigrateRefresh
  <2> QED
    BY <2>2, <2>3 DEF TInv, Tables, index, trace
<1>35. ASSUME NEW t \in Threads, MigrateTicket(t) PROVE Tables'
  <2>1. target[t] \in Clients /\ ticket[t] \in Ids \X Epochs /\ ticket[t][2] < MaxEpoch
    BY <1>35 DEF TInv, PlacesOK, PlaceOK, MigrateTicket
  <2>2. alloc[target[t]] # None => alloc[target[t]].epoch \in Epochs
    BY <2>1, AllocationFields DEF TInv, Placed
  <2>3. ticket[t][1] \in Ids /\ ticket[t][2] + 1 \in Epochs
    BY <2>1, StoreAssumption DEF Epochs
  <2> DEFINE e == IF alloc[target[t]] # None THEN alloc[target[t]].epoch ELSE ticket[t][2] + 1
  <2>4. e \in Epochs
    BY <2>2, <2>3
  <2>5. tickets' = tickets \cup {<<ticket[t][1], e>>} /\ Finish(t)
        /\ UNCHANGED <<index, used, rows, gauge, closed, made, moved>>
    BY <1>35 DEF MigrateTicket
  <2> HIDE DEF e
  <2> QED
    BY <2>3, <2>4, <2>5 DEF TInv, Tables, Finish, index
<1> QED
  BY <1>1, <1>2, <1>3, <1>4, <1>5, <1>6, <1>7, <1>8, <1>9, <1>10, <1>11, <1>12, <1>13, <1>14, <1>15, <1>16, <1>17, <1>18, <1>19, <1>20, <1>21, <1>22, <1>23, <1>24, <1>25, <1>26, <1>27, <1>28, <1>29, <1>30, <1>31, <1>32, <1>33, <1>34, <1>35 DEF Next

\* An allocation whose lifetime changes is the same otherwise.
LEMMA AllocationUpdate ==
    ASSUME NEW a \in Allocations, NEW b \in BOOLEAN
    PROVE  LET x == [a EXCEPT !.expired = b] IN
           x \in Allocations /\ x.id = a.id /\ x.port = a.port /\ x.epoch = a.epoch
  BY DEF Allocations

\* Only allocations with an id and a port enter the map.
LEMMA PlacedNext ==
    ASSUME CInv, TInv, Next
    PROVE  Placed'
<1>1. ASSUME NEW c \in Clients, Expire(c) PROVE Placed'
  <2> DEFINE a == [alloc[c] EXCEPT !.expired = TRUE]
  <2>1. alloc[c] \in Allocations /\ alloc' = [alloc EXCEPT ![c] = a]
    BY <1>1 DEF TInv, Placed, Expire
  <2>2. a \in Allocations
    BY <2>1, AllocationUpdate
  <2> HIDE DEF a
  <2> QED
    BY <2>1, <2>2 DEF CInv, Shape, TInv, Placed
<1>2. ASSUME NEW c \in Clients, Refresh(c) PROVE Placed'
  <2> DEFINE a == [alloc[c] EXCEPT !.expired = FALSE]
  <2>1. alloc[c] \in Allocations /\ alloc' = [alloc EXCEPT ![c] = a]
    BY <1>2 DEF TInv, Placed, Refresh
  <2>2. a \in Allocations
    BY <2>1, AllocationUpdate
  <2> HIDE DEF a
  <2> QED
    BY <2>1, <2>2 DEF CInv, Shape, TInv, Placed
<1>3. ASSUME NEW t \in Threads, NEW c \in Clients, NEW u \in Users, StartAllocate(t, c, u) PROVE Placed'
  BY <1>3 DEF TInv, Placed, index, args, trace, StartAllocate
<1>4. ASSUME NEW t \in Threads, TakePort(t) PROVE Placed'
  BY <1>4 DEF TInv, Placed, index, args, trace, TakePort
<1>5. ASSUME NEW t \in Threads, NoPort(t) PROVE Placed'
  BY <1>5 DEF TInv, Placed, index, args, trace, NoPort
<1>6. ASSUME NEW t \in Threads, Reserve(t) PROVE Placed'
  BY <1>6 DEF TInv, Placed, index, args, trace, Reserve
<1>7. ASSUME NEW t \in Threads, ReserveFails(t) PROVE Placed'
  BY <1>7 DEF TInv, Placed, index, args, trace, ReserveFails
<1>8. ASSUME NEW t \in Threads, ReleaseCounter(t) PROVE Placed'
  BY <1>8 DEF TInv, Placed, index, args, trace, ReleaseCounter
<1>9. ASSUME NEW t \in Threads, Undone(t) PROVE Placed'
  BY <1>9 DEF TInv, Placed, index, args, trace, Undone
<1>10. ASSUME NEW t \in Threads, DropPort(t) PROVE Placed'
  BY <1>10 DEF TInv, Placed, index, args, trace, DropPort
<1>11. ASSUME NEW t \in Threads, Insert(t) PROVE Placed'
  <2> DEFINE i == IF hand[t].id = 0 THEN nextId ELSE hand[t].id
             a == [hand[t] EXCEPT !.id = i]
  <2>1. hand[t] \in Drafts /\ hand[t].port \in Ports /\ i \in Ids /\ client[t] \in Clients
        /\ hand[t].epoch <= MaxEpoch
    BY <1>11, NewId DEF CInv, StepsOK, StepOK, TInv, PlacesOK, PlaceOK, Drafting, Insert
  <2>2. i \in Nat /\ i # 0 /\ i <= MaxId
    BY <2>1, StoreAssumption DEF Ids
  <2>3. a \in Drafts /\ a.id = i /\ a.epoch = hand[t].epoch /\ a.port = hand[t].port
    BY <2>1, <2>2, DraftKeeps
  <2>4. alloc' = [alloc EXCEPT ![client[t]] = a]
    BY <1>11 DEF Insert
  <2> HIDE DEF a, i
  <2>5. a \in Allocations
    BY <2>1, <2>2, <2>3, AllocationFields
  <2> QED
    BY <2>1, <2>4, <2>5 DEF CInv, Shape, TInv, Placed
<1>12. ASSUME NEW t \in Threads, InsertLost(t) PROVE Placed'
  BY <1>12 DEF TInv, Placed, index, args, trace, InsertLost
<1>13. ASSUME NEW t \in Threads, Created(t) PROVE Placed'
  BY <1>13 DEF TInv, Placed, index, args, trace, Created
<1>14. ASSUME NEW t \in Threads, NEW r \in Rows, StartRehydrate(t, r) PROVE Placed'
  BY <1>14 DEF TInv, Placed, index, args, trace, StartRehydrate
<1>15. ASSUME NEW t \in Threads, ReserveRowPort(t) PROVE Placed'
  BY <1>15 DEF TInv, Placed, index, args, trace, ReserveRowPort
<1>16. ASSUME NEW t \in Threads, NEW c \in Clients, StartRelease(t, c) PROVE Placed'
  BY <1>16 DEF TInv, Placed, index, args, trace, StartRelease
<1>17. ASSUME NEW t \in Threads, NEW c \in Clients, StartSweep(t, c) PROVE Placed'
  BY <1>17 DEF TInv, Placed, index, args, trace, StartSweep
<1>18. ASSUME NEW t \in Threads, NEW c \in Clients, StartForce(t, c) PROVE Placed'
  BY <1>18 DEF TInv, Placed, index, args, trace, StartForce
<1>19. ASSUME NEW t \in Threads, SweepRecheck(t) PROVE Placed'
  BY <1>19 DEF TInv, Placed, index, args, trace, SweepRecheck
<1>20. ASSUME NEW t \in Threads, RmTake(t) PROVE Placed'
  BY <1>20 DEF CInv, Shape, TInv, Placed, RmTake
<1>21. ASSUME NEW t \in Threads, RmNothing(t) PROVE Placed'
  BY <1>21 DEF TInv, Placed, index, args, trace, RmNothing
<1>22. ASSUME NEW t \in Threads, RmIndex(t) PROVE Placed'
  BY <1>22 DEF TInv, Placed, index, args, trace, RmIndex
<1>23. ASSUME NEW t \in Threads, RmPort(t) PROVE Placed'
  BY <1>23 DEF TInv, Placed, index, args, trace, RmPort
<1>24. ASSUME NEW t \in Threads, RmDone(t) PROVE Placed'
  BY <1>24 DEF TInv, Placed, index, args, trace, RmDone
<1>25. ASSUME NEW t \in Threads, NEW c \in Clients, NEW k \in tickets, StartMigrate(t, c, k) PROVE Placed'
  BY <1>25 DEF TInv, Placed, index, args, trace, StartMigrate
<1>26. ASSUME NEW t \in Threads, CheckEpoch(t) PROVE Placed'
  BY <1>26 DEF TInv, Placed, index, args, trace, CheckEpoch
<1>27. ASSUME NEW t \in Threads, NEW o \in Clients, NEW n \in Clients, StartQuic(t, o, n) PROVE Placed'
  BY <1>27 DEF TInv, Placed, index, args, trace, StartQuic
<1>28. ASSUME NEW t \in Threads, RkNothing(t) PROVE Placed'
  BY <1>28 DEF TInv, Placed, index, args, trace, RkNothing
<1>29. ASSUME NEW t \in Threads, RkTake(t) PROVE Placed'
  BY <1>29 DEF CInv, Shape, TInv, Placed, RkTake
<1>30. ASSUME NEW t \in Threads, RkClaim(t) PROVE Placed'
  <2> DEFINE e == hand[t].epoch + 1
             a == [hand[t] EXCEPT !.epoch = e]
  <2>1. hand[t] \in Allocations /\ hand[t].epoch < MaxEpoch /\ target[t] \in Clients
    BY <1>30 DEF CInv, StepsOK, StepOK, TInv, PlacesOK, PlaceOK, Carrying, RkClaim
  <2>2. e \in Nat /\ e <= MaxEpoch
    BY <2>1, AllocationFields, StoreAssumption
  <2> HIDE DEF e
  <2>3. hand[t] \in Drafts /\ hand[t].id # 0 /\ hand[t].id <= MaxId /\ hand[t].port \in Ports
    BY <2>1, AllocationFields, StoreAssumption DEF Ids
  <2>4. a \in Drafts /\ a.id = hand[t].id /\ a.epoch = e /\ a.port = hand[t].port
    BY <2>2, <2>3, DraftKeeps
  <2>5. alloc' = [alloc EXCEPT ![target[t]] = a]
    BY <1>30 DEF RkClaim, e
  <2> HIDE DEF a
  <2>6. a \in Allocations
    BY <2>2, <2>3, <2>4, AllocationFields
  <2> QED
    BY <2>1, <2>5, <2>6 DEF CInv, Shape, TInv, Placed
<1>31. ASSUME NEW t \in Threads, RkRefused(t) PROVE Placed'
  BY <1>31 DEF TInv, Placed, index, args, trace, RkRefused
<1>32. ASSUME NEW t \in Threads, RkBack(t) PROVE Placed'
  <2>1. hand[t] \in Allocations /\ client[t] \in Clients
        /\ alloc' = [alloc EXCEPT ![client[t]] = hand[t]]
    BY <1>32 DEF CInv, StepsOK, StepOK, TInv, PlacesOK, PlaceOK, Carrying, RkBack
  <2> QED
    BY <2>1 DEF CInv, Shape, TInv, Placed
<1>33. ASSUME NEW t \in Threads, RkOrphan(t) PROVE Placed'
  BY <1>33 DEF TInv, Placed, index, args, trace, RkOrphan
<1>34. ASSUME NEW t \in Threads, MigrateRefresh(t) PROVE Placed'
  <2> DEFINE n == target[t]
             a == [alloc[n] EXCEPT !.expired = FALSE]
  <2>1. n \in Clients
        /\ \/ alloc' = alloc
           \/ alloc[n] # None /\ alloc' = [alloc EXCEPT ![n] = a]
    BY <1>34 DEF CInv, StepsOK, StepOK, MigrateRefresh
  <2>2. alloc[n] # None => alloc[n] \in Allocations /\ a \in Allocations
    BY <2>1, AllocationUpdate DEF TInv, Placed
  <2> HIDE DEF a
  <2> QED
    BY <2>1, <2>2 DEF CInv, Shape, TInv, Placed
<1>35. ASSUME NEW t \in Threads, MigrateTicket(t) PROVE Placed'
  BY <1>35 DEF TInv, Placed, index, args, trace, MigrateTicket
<1> QED
  BY <1>1, <1>2, <1>3, <1>4, <1>5, <1>6, <1>7, <1>8, <1>9, <1>10, <1>11, <1>12, <1>13, <1>14, <1>15, <1>16, <1>17, <1>18, <1>19, <1>20, <1>21, <1>22, <1>23, <1>24, <1>25, <1>26, <1>27, <1>28, <1>29, <1>30, <1>31, <1>32, <1>33, <1>34, <1>35 DEF Next

\* Every action leaves each thread with what its next step works on.
LEMMA PlacesNext ==
    ASSUME CInv, TInv, Next
    PROVE  PlacesOK'
<1>1. ASSUME NEW c \in Clients, Expire(c) PROVE PlacesOK'
  BY <1>1 DEF TInv, PlacesOK, PlaceOK, args, Expire
<1>2. ASSUME NEW c \in Clients, Refresh(c) PROVE PlacesOK'
  BY <1>2 DEF TInv, PlacesOK, PlaceOK, args, Refresh
<1>3. ASSUME NEW t \in Threads, NEW c \in Clients, NEW u \in Users, StartAllocate(t, c, u) PROVE PlacesOK'
  <2> DEFINE d == [id |-> 0, epoch |-> 0, port |-> None, user |-> u, expired |-> FALSE]
  <2>1. d \in Drafts /\ d.id = 0 /\ d.epoch = 0
    BY DEF Drafts
  <2>2. /\ hand'[t] = d /\ pc'[t] = "port" /\ op'[t] = "allocate"
    BY <1>3 DEF CInv, Shape, StartAllocate, Begin, Goto
  <2> HIDE DEF d
  <2>8. PlaceOK(t)'
    BY <2>1, <2>2, AllocationFields, StoreAssumption DEF PlaceOK, Drafting, Carrying
  <2>9. \A x \in Threads \ {t} : PlaceOK(x)'
    BY <1>3 DEF CInv, Shape, TInv, Tables, Begin, Finish, Goto, args, PlacesOK, PlaceOK, StartAllocate
  <2> QED
    BY <2>8, <2>9 DEF PlacesOK
<1>4. ASSUME NEW t \in Threads, TakePort(t) PROVE PlacesOK'
  <2>1. hand[t] \in Drafts /\ op[t] = "allocate" /\ op'[t] = op[t] /\ pc'[t] = "reserve"
        /\ hand[t].id <= MaxId /\ hand[t].epoch <= MaxEpoch /\ hand[t] # None
    BY <1>4, AllocationFields DEF CInv, Shape, StepsOK, StepOK, TInv, PlacesOK, PlaceOK, TakePort,
                                 Goto, args
  <2>2. PICK p \in Ports : hand' = [hand EXCEPT ![t].port = p]
    BY <1>4 DEF TakePort
  <2> DEFINE d == [hand[t] EXCEPT !.port = p]
  <2>3. d \in Drafts /\ d.id = hand[t].id /\ d.epoch = hand[t].epoch /\ d.port = p
    BY <2>1, DraftKeeps
  <2>4. hand'[t] = d
    BY <2>2 DEF CInv, Shape
  <2> HIDE DEF d
  <2>8. PlaceOK(t)'
    BY <2>1, <2>2, <2>3, <2>4, AllocationFields DEF PlaceOK, Drafting, Carrying
  <2>9. \A x \in Threads \ {t} : PlaceOK(x)'
    BY <1>4 DEF CInv, Shape, TInv, Tables, Begin, Finish, Goto, args, PlacesOK, PlaceOK, TakePort
  <2> QED
    BY <2>8, <2>9 DEF PlacesOK
<1>5. ASSUME NEW t \in Threads, NoPort(t) PROVE PlacesOK'
  <2>1. PlaceOK(t)'
    BY <1>5 DEF CInv, Shape, TInv, Tables, Begin, Finish, Goto, args, PlacesOK, PlaceOK, Drafting, Carrying, NoPort
  <2>2. \A x \in Threads \ {t} : PlaceOK(x)'
    BY <1>5 DEF CInv, Shape, TInv, Tables, Begin, Finish, Goto, args, PlacesOK, PlaceOK, NoPort
  <2> QED
    BY <2>1, <2>2 DEF PlacesOK
<1>6. ASSUME NEW t \in Threads, Reserve(t) PROVE PlacesOK'
  <2>1. PlaceOK(t)'
    BY <1>6 DEF CInv, Shape, TInv, Tables, Begin, Finish, Goto, args, PlacesOK, PlaceOK, Drafting, Carrying, Reserve
  <2>2. \A x \in Threads \ {t} : PlaceOK(x)'
    BY <1>6 DEF CInv, Shape, TInv, Tables, Begin, Finish, Goto, args, PlacesOK, PlaceOK, Reserve
  <2> QED
    BY <2>1, <2>2 DEF PlacesOK
<1>7. ASSUME NEW t \in Threads, ReserveFails(t) PROVE PlacesOK'
  <2>1. PlaceOK(t)'
    BY <1>7 DEF CInv, Shape, TInv, Tables, Begin, Finish, Goto, args, PlacesOK, PlaceOK, Drafting, Carrying, ReserveFails
  <2>2. \A x \in Threads \ {t} : PlaceOK(x)'
    BY <1>7 DEF CInv, Shape, TInv, Tables, Begin, Finish, Goto, args, PlacesOK, PlaceOK, ReserveFails
  <2> QED
    BY <2>1, <2>2 DEF PlacesOK
<1>8. ASSUME NEW t \in Threads, ReleaseCounter(t) PROVE PlacesOK'
  <2>1. PlaceOK(t)'
    BY <1>8 DEF CInv, Shape, TInv, Tables, Begin, Finish, Goto, args, PlacesOK, PlaceOK, Drafting, Carrying, ReleaseCounter
  <2>2. \A x \in Threads \ {t} : PlaceOK(x)'
    BY <1>8 DEF CInv, Shape, TInv, Tables, Begin, Finish, Goto, args, PlacesOK, PlaceOK, ReleaseCounter
  <2> QED
    BY <2>1, <2>2 DEF PlacesOK
<1>9. ASSUME NEW t \in Threads, Undone(t) PROVE PlacesOK'
  <2>1. PlaceOK(t)'
    BY <1>9 DEF CInv, Shape, TInv, Tables, Begin, Finish, Goto, args, PlacesOK, PlaceOK, Drafting, Carrying, Undone
  <2>2. \A x \in Threads \ {t} : PlaceOK(x)'
    BY <1>9 DEF CInv, Shape, TInv, Tables, Begin, Finish, Goto, args, PlacesOK, PlaceOK, Undone
  <2> QED
    BY <2>1, <2>2 DEF PlacesOK
<1>10. ASSUME NEW t \in Threads, DropPort(t) PROVE PlacesOK'
  <2>1. PlaceOK(t)'
    BY <1>10 DEF CInv, Shape, TInv, Tables, Begin, Finish, Goto, args, PlacesOK, PlaceOK, Drafting, Carrying, DropPort
  <2>2. \A x \in Threads \ {t} : PlaceOK(x)'
    BY <1>10 DEF CInv, Shape, TInv, Tables, Begin, Finish, Goto, args, PlacesOK, PlaceOK, DropPort
  <2> QED
    BY <2>1, <2>2 DEF PlacesOK
<1>11. ASSUME NEW t \in Threads, Insert(t) PROVE PlacesOK'
  <2>1. hand'[t] = None /\ client[t] \in Clients
    BY <1>11 DEF CInv, Shape, StepsOK, StepOK, Insert
  <2>2. \/ pc'[t] = "created" /\ client'[t] = client[t] /\ op'[t] = "allocate"
        \/ pc'[t] = "idle" /\ op'[t] = None
    BY <1>11 DEF CInv, Shape, Insert, Finish, Goto, args
  <2>8. PlaceOK(t)'
    BY <2>1, <2>2 DEF PlaceOK, Drafting, Carrying
  <2>9. \A x \in Threads \ {t} : PlaceOK(x)'
    BY <1>11 DEF CInv, Shape, TInv, Tables, Begin, Finish, Goto, args, PlacesOK, PlaceOK, Insert
  <2> QED
    BY <2>8, <2>9 DEF PlacesOK
<1>12. ASSUME NEW t \in Threads, InsertLost(t) PROVE PlacesOK'
  <2> DEFINE i == IF hand[t].id = 0 THEN nextId ELSE hand[t].id
             d == [hand[t] EXCEPT !.id = i]
  <2>1. /\ hand[t] \in Drafts /\ i \in Ids /\ hand[t].port \in Ports /\ hand[t].epoch <= MaxEpoch
        /\ op[t] \in {"allocate", "rehydrate"}
    BY <1>12, NewId DEF TInv, PlacesOK, PlaceOK, Drafting, InsertLost
  <2>2. hand'[t] = d /\ pc'[t] \in {"undo", "dropPort"} /\ op'[t] = op[t]
    BY <1>12 DEF CInv, Shape, InsertLost, Goto, args
  <2>3. i \in Nat /\ i <= MaxId
    BY <2>1, StoreAssumption DEF Ids
  <2>4. d \in Drafts /\ d.id = i /\ d.epoch = hand[t].epoch /\ d.port = hand[t].port
    BY <2>1, <2>3, DraftKeeps
  <2> HIDE DEF d, i
  <2>8. PlaceOK(t)'
    BY <2>1, <2>2, <2>3, <2>4, AllocationFields DEF PlaceOK, Drafting, Carrying
  <2>9. \A x \in Threads \ {t} : PlaceOK(x)'
    BY <1>12 DEF CInv, Shape, TInv, Tables, Begin, Finish, Goto, args, PlacesOK, PlaceOK, InsertLost
  <2> QED
    BY <2>8, <2>9 DEF PlacesOK
<1>13. ASSUME NEW t \in Threads, Created(t) PROVE PlacesOK'
  <2>1. PlaceOK(t)'
    BY <1>13 DEF CInv, Shape, TInv, Tables, Begin, Finish, Goto, args, PlacesOK, PlaceOK, Drafting, Carrying, Created
  <2>2. \A x \in Threads \ {t} : PlaceOK(x)'
    BY <1>13 DEF CInv, Shape, TInv, Tables, Begin, Finish, Goto, args, PlacesOK, PlaceOK, Created
  <2> QED
    BY <2>1, <2>2 DEF PlacesOK
<1>14. ASSUME NEW t \in Threads, NEW r \in Rows, StartRehydrate(t, r) PROVE PlacesOK'
  <2>1. r.draft \in Drafts /\ r.draft.port # None /\ r.draft.id <= MaxId
        /\ r.draft.epoch <= MaxEpoch
    BY StoreAssumption
  <2>2. /\ hand'[t] = r.draft /\ pc'[t] = "reserve" /\ op'[t] = "rehydrate"
    BY <1>14 DEF CInv, Shape, StartRehydrate, Begin, Goto
  <2>8. PlaceOK(t)'
    BY <2>1, <2>2, AllocationFields DEF PlaceOK, Drafting, Carrying
  <2>9. \A x \in Threads \ {t} : PlaceOK(x)'
    BY <1>14 DEF CInv, Shape, TInv, Tables, Begin, Finish, Goto, args, PlacesOK, PlaceOK, StartRehydrate
  <2> QED
    BY <2>8, <2>9 DEF PlacesOK
<1>15. ASSUME NEW t \in Threads, ReserveRowPort(t) PROVE PlacesOK'
  <2>1. PlaceOK(t)'
    BY <1>15 DEF CInv, Shape, TInv, Tables, Begin, Finish, Goto, args, PlacesOK, PlaceOK, Drafting, Carrying, ReserveRowPort
  <2>2. \A x \in Threads \ {t} : PlaceOK(x)'
    BY <1>15 DEF CInv, Shape, TInv, Tables, Begin, Finish, Goto, args, PlacesOK, PlaceOK, ReserveRowPort
  <2> QED
    BY <2>1, <2>2 DEF PlacesOK
<1>16. ASSUME NEW t \in Threads, NEW c \in Clients, StartRelease(t, c) PROVE PlacesOK'
  <2>1. PlaceOK(t)'
    BY <1>16, AllocationFields DEF CInv, Shape, TInv, Tables, Begin, Finish, Goto, args, PlacesOK, PlaceOK, Drafting, Carrying, Placed, StepsOK, StepOK, StartRelease
  <2>2. \A x \in Threads \ {t} : PlaceOK(x)'
    BY <1>16 DEF CInv, Shape, TInv, Tables, Begin, Finish, Goto, args, PlacesOK, PlaceOK, StartRelease
  <2> QED
    BY <2>1, <2>2 DEF PlacesOK
<1>17. ASSUME NEW t \in Threads, NEW c \in Clients, StartSweep(t, c) PROVE PlacesOK'
  <2>1. PlaceOK(t)'
    BY <1>17, AllocationFields DEF CInv, Shape, TInv, Tables, Begin, Finish, Goto, args, PlacesOK, PlaceOK, Drafting, Carrying, Placed, StepsOK, StepOK, StartSweep
  <2>2. \A x \in Threads \ {t} : PlaceOK(x)'
    BY <1>17 DEF CInv, Shape, TInv, Tables, Begin, Finish, Goto, args, PlacesOK, PlaceOK, StartSweep
  <2> QED
    BY <2>1, <2>2 DEF PlacesOK
<1>18. ASSUME NEW t \in Threads, NEW c \in Clients, StartForce(t, c) PROVE PlacesOK'
  <2>1. PlaceOK(t)'
    BY <1>18, AllocationFields DEF CInv, Shape, TInv, Tables, Begin, Finish, Goto, args, PlacesOK, PlaceOK, Drafting, Carrying, Placed, StepsOK, StepOK, StartForce
  <2>2. \A x \in Threads \ {t} : PlaceOK(x)'
    BY <1>18 DEF CInv, Shape, TInv, Tables, Begin, Finish, Goto, args, PlacesOK, PlaceOK, StartForce
  <2> QED
    BY <2>1, <2>2 DEF PlacesOK
<1>19. ASSUME NEW t \in Threads, SweepRecheck(t) PROVE PlacesOK'
  <2>1. PlaceOK(t)'
    BY <1>19 DEF CInv, Shape, TInv, Tables, Begin, Finish, Goto, args, PlacesOK, PlaceOK, Drafting, Carrying, SweepRecheck
  <2>2. \A x \in Threads \ {t} : PlaceOK(x)'
    BY <1>19 DEF CInv, Shape, TInv, Tables, Begin, Finish, Goto, args, PlacesOK, PlaceOK, SweepRecheck
  <2> QED
    BY <2>1, <2>2 DEF PlacesOK
<1>20. ASSUME NEW t \in Threads, RmTake(t) PROVE PlacesOK'
  <2>1. client[t] \in Clients /\ alloc[client[t]] \in Allocations
    BY <1>20 DEF CInv, StepsOK, StepOK, TInv, Placed, RmTake
  <2>2. /\ hand'[t] = alloc[client[t]] /\ pc'[t] = "rmCounters"
        /\ op'[t] = op[t] /\ client'[t] = client[t] /\ target'[t] = target[t]
        /\ ticket'[t] = ticket[t]
        /\ rport'[t] = IF op[t] = "force" THEN alloc[client[t]].port ELSE rport[t]
    BY <1>20 DEF CInv, Shape, TInv, Tables, RmTake, Goto, args
  <2>3. PlaceOK(t) /\ pc[t] = "rmTake"
    BY <1>20 DEF TInv, PlacesOK, RmTake
  <2>4. /\ hand'[t] # None /\ hand'[t].id <= MaxId /\ hand'[t].epoch <= MaxEpoch
        /\ hand'[t].port \in Ports
    BY <2>1, <2>2, AllocationFields, StoreAssumption DEF Ids, Epochs
  <2>8. PlaceOK(t)'
    BY <2>1, <2>2, <2>3, <2>4 DEF PlaceOK, Drafting, Carrying
  <2>9. \A x \in Threads \ {t} : PlaceOK(x)'
    BY <1>20 DEF CInv, Shape, TInv, Tables, Begin, Finish, Goto, args, PlacesOK, PlaceOK, RmTake
  <2> QED
    BY <2>8, <2>9 DEF PlacesOK
<1>21. ASSUME NEW t \in Threads, RmNothing(t) PROVE PlacesOK'
  <2>1. PlaceOK(t)'
    BY <1>21 DEF CInv, Shape, TInv, Tables, Begin, Finish, Goto, args, PlacesOK, PlaceOK, Drafting, Carrying, RmNothing
  <2>2. \A x \in Threads \ {t} : PlaceOK(x)'
    BY <1>21 DEF CInv, Shape, TInv, Tables, Begin, Finish, Goto, args, PlacesOK, PlaceOK, RmNothing
  <2> QED
    BY <2>1, <2>2 DEF PlacesOK
<1>22. ASSUME NEW t \in Threads, RmIndex(t) PROVE PlacesOK'
  <2>1. PlaceOK(t)'
    BY <1>22 DEF CInv, Shape, TInv, Tables, Begin, Finish, Goto, args, PlacesOK, PlaceOK, Drafting, Carrying, RmIndex
  <2>2. \A x \in Threads \ {t} : PlaceOK(x)'
    BY <1>22 DEF CInv, Shape, TInv, Tables, Begin, Finish, Goto, args, PlacesOK, PlaceOK, RmIndex
  <2> QED
    BY <2>1, <2>2 DEF PlacesOK
<1>23. ASSUME NEW t \in Threads, RmPort(t) PROVE PlacesOK'
  <2>1. PlaceOK(t)'
    BY <1>23 DEF CInv, Shape, TInv, Tables, Begin, Finish, Goto, args, PlacesOK, PlaceOK, Drafting, Carrying, RmPort
  <2>2. \A x \in Threads \ {t} : PlaceOK(x)'
    BY <1>23 DEF CInv, Shape, TInv, Tables, Begin, Finish, Goto, args, PlacesOK, PlaceOK, RmPort
  <2> QED
    BY <2>1, <2>2 DEF PlacesOK
<1>24. ASSUME NEW t \in Threads, RmDone(t) PROVE PlacesOK'
  <2>1. PlaceOK(t)'
    BY <1>24 DEF CInv, Shape, TInv, Tables, Begin, Finish, Goto, args, PlacesOK, PlaceOK, Drafting, Carrying, RmDone
  <2>2. \A x \in Threads \ {t} : PlaceOK(x)'
    BY <1>24 DEF CInv, Shape, TInv, Tables, Begin, Finish, Goto, args, PlacesOK, PlaceOK, RmDone
  <2> QED
    BY <2>1, <2>2 DEF PlacesOK
<1>25. ASSUME NEW t \in Threads, NEW c \in Clients, NEW k \in tickets, StartMigrate(t, c, k) PROVE PlacesOK'
  <2>1. PlaceOK(t)'
    BY <1>25 DEF CInv, Shape, TInv, Tables, Begin, Finish, Goto, args, PlacesOK, PlaceOK, Drafting, Carrying, StartMigrate
  <2>2. \A x \in Threads \ {t} : PlaceOK(x)'
    BY <1>25 DEF CInv, Shape, TInv, Tables, Begin, Finish, Goto, args, PlacesOK, PlaceOK, StartMigrate
  <2> QED
    BY <2>1, <2>2 DEF PlacesOK
<1>26. ASSUME NEW t \in Threads, CheckEpoch(t) PROVE PlacesOK'
  <2>1. PlaceOK(t)'
    BY <1>26 DEF CInv, Shape, TInv, Tables, Begin, Finish, Goto, args, PlacesOK, PlaceOK, Drafting, Carrying, CheckEpoch
  <2>2. \A x \in Threads \ {t} : PlaceOK(x)'
    BY <1>26 DEF CInv, Shape, TInv, Tables, Begin, Finish, Goto, args, PlacesOK, PlaceOK, CheckEpoch
  <2> QED
    BY <2>1, <2>2 DEF PlacesOK
<1>27. ASSUME NEW t \in Threads, NEW o \in Clients, NEW n \in Clients, StartQuic(t, o, n) PROVE PlacesOK'
  <2>1. PlaceOK(t)'
    BY <1>27 DEF CInv, Shape, TInv, Tables, Begin, Finish, Goto, args, PlacesOK, PlaceOK, Drafting, Carrying, StartQuic
  <2>2. \A x \in Threads \ {t} : PlaceOK(x)'
    BY <1>27 DEF CInv, Shape, TInv, Tables, Begin, Finish, Goto, args, PlacesOK, PlaceOK, StartQuic
  <2> QED
    BY <2>1, <2>2 DEF PlacesOK
<1>28. ASSUME NEW t \in Threads, RkNothing(t) PROVE PlacesOK'
  <2>1. PlaceOK(t)'
    BY <1>28 DEF CInv, Shape, TInv, Tables, Begin, Finish, Goto, args, PlacesOK, PlaceOK, Drafting, Carrying, RkNothing
  <2>2. \A x \in Threads \ {t} : PlaceOK(x)'
    BY <1>28 DEF CInv, Shape, TInv, Tables, Begin, Finish, Goto, args, PlacesOK, PlaceOK, RkNothing
  <2> QED
    BY <2>1, <2>2 DEF PlacesOK
<1>29. ASSUME NEW t \in Threads, RkTake(t) PROVE PlacesOK'
  <2>1. client[t] \in Clients /\ alloc[client[t]] \in Allocations
    BY <1>29 DEF CInv, StepsOK, StepOK, TInv, Placed, RkTake
  <2>2. /\ hand'[t] = alloc[client[t]] /\ pc'[t] = "rkClaim"
        /\ op'[t] = op[t] /\ client'[t] = client[t] /\ target'[t] = target[t]
        /\ ticket'[t] = ticket[t]
        /\ hand'[t].epoch < MaxEpoch /\ pc[t] = "rkTake"
    BY <1>29 DEF CInv, Shape, TInv, Tables, RkTake, Goto, args
  <2>3. PlaceOK(t) /\ pc[t] = "rkTake"
    BY <1>29 DEF TInv, PlacesOK, RkTake
  <2>4. /\ hand'[t] # None /\ hand'[t].id <= MaxId /\ hand'[t].epoch <= MaxEpoch
        /\ hand'[t].port \in Ports
    BY <2>1, <2>2, AllocationFields, StoreAssumption DEF Ids, Epochs
  <2>8. PlaceOK(t)'
    BY <2>1, <2>2, <2>3, <2>4 DEF PlaceOK, Drafting, Carrying
  <2>9. \A x \in Threads \ {t} : PlaceOK(x)'
    BY <1>29 DEF CInv, Shape, TInv, Tables, Begin, Finish, Goto, args, PlacesOK, PlaceOK, RkTake
  <2> QED
    BY <2>8, <2>9 DEF PlacesOK
<1>30. ASSUME NEW t \in Threads, RkClaim(t) PROVE PlacesOK'
  <2>1. PlaceOK(t)'
    BY <1>30 DEF CInv, Shape, TInv, Tables, Begin, Finish, Goto, args, PlacesOK, PlaceOK, Drafting, Carrying, RkClaim
  <2>2. \A x \in Threads \ {t} : PlaceOK(x)'
    BY <1>30 DEF CInv, Shape, TInv, Tables, Begin, Finish, Goto, args, PlacesOK, PlaceOK, RkClaim
  <2> QED
    BY <2>1, <2>2 DEF PlacesOK
<1>31. ASSUME NEW t \in Threads, RkRefused(t) PROVE PlacesOK'
  <2>1. PlaceOK(t)'
    BY <1>31 DEF CInv, Shape, TInv, Tables, Begin, Finish, Goto, args, PlacesOK, PlaceOK, Drafting, Carrying, RkRefused
  <2>2. \A x \in Threads \ {t} : PlaceOK(x)'
    BY <1>31 DEF CInv, Shape, TInv, Tables, Begin, Finish, Goto, args, PlacesOK, PlaceOK, RkRefused
  <2> QED
    BY <2>1, <2>2 DEF PlacesOK
<1>32. ASSUME NEW t \in Threads, RkBack(t) PROVE PlacesOK'
  <2>1. PlaceOK(t)'
    BY <1>32 DEF CInv, Shape, TInv, Tables, Begin, Finish, Goto, args, PlacesOK, PlaceOK, Drafting, Carrying, RkBack
  <2>2. \A x \in Threads \ {t} : PlaceOK(x)'
    BY <1>32 DEF CInv, Shape, TInv, Tables, Begin, Finish, Goto, args, PlacesOK, PlaceOK, RkBack
  <2> QED
    BY <2>1, <2>2 DEF PlacesOK
<1>33. ASSUME NEW t \in Threads, RkOrphan(t) PROVE PlacesOK'
  <2>1. PlaceOK(t) /\ pc[t] = "rkBack" /\ client[t] \in Clients
    BY <1>33 DEF CInv, StepsOK, StepOK, TInv, PlacesOK, RkOrphan
  <2>2. /\ hand'[t] = hand[t] /\ pc'[t] = "rmCounters" /\ op'[t] = "orphan"
        /\ client'[t] = client[t] /\ rport'[t] = hand[t].port
    BY <1>33 DEF CInv, Shape, TInv, Tables, RkOrphan, Goto
  <2>8. PlaceOK(t)'
    BY <2>1, <2>2, AllocationFields DEF PlaceOK, Drafting, Carrying
  <2>9. \A x \in Threads \ {t} : PlaceOK(x)'
    BY <1>33 DEF CInv, Shape, TInv, Tables, Begin, Finish, Goto, args, PlacesOK, PlaceOK, RkOrphan
  <2> QED
    BY <2>8, <2>9 DEF PlacesOK
<1>34. ASSUME NEW t \in Threads, MigrateRefresh(t) PROVE PlacesOK'
  <2>1. PlaceOK(t) /\ pc[t] = "mgRefresh" /\ target[t] \in Clients
        /\ (alloc[target[t]] # None => alloc[target[t]].port \in Ports)
    BY <1>34, AllocationFields DEF CInv, StepsOK, StepOK, TInv, Placed, PlacesOK, MigrateRefresh
  <2>2. /\ hand'[t] = hand[t] /\ op'[t] = op[t] /\ target'[t] = target[t] /\ ticket'[t] = ticket[t]
        /\ \/ pc'[t] = "mgTicket"
           \/ pc'[t] = "rmDone"
           \/ /\ pc'[t] = "rmTake" /\ alloc[target[t]] # None
              /\ rport'[t] = alloc[target[t]].port
    BY <1>34 DEF CInv, Shape, TInv, Tables, MigrateRefresh, Goto
  <2>8. PlaceOK(t)'
    BY <2>1, <2>2 DEF PlaceOK, Drafting, Carrying
  <2>9. \A x \in Threads \ {t} : PlaceOK(x)'
    BY <1>34 DEF CInv, Shape, TInv, Tables, Begin, Finish, Goto, args, PlacesOK, PlaceOK, MigrateRefresh
  <2> QED
    BY <2>8, <2>9 DEF PlacesOK
<1>35. ASSUME NEW t \in Threads, MigrateTicket(t) PROVE PlacesOK'
  <2>1. PlaceOK(t)'
    BY <1>35 DEF CInv, Shape, TInv, Tables, Begin, Finish, Goto, args, PlacesOK, PlaceOK, Drafting, Carrying, MigrateTicket
  <2>2. \A x \in Threads \ {t} : PlaceOK(x)'
    BY <1>35 DEF CInv, Shape, TInv, Tables, Begin, Finish, Goto, args, PlacesOK, PlaceOK, MigrateTicket
  <2> QED
    BY <2>1, <2>2 DEF PlacesOK
<1> QED
  BY <1>1, <1>2, <1>3, <1>4, <1>5, <1>6, <1>7, <1>8, <1>9, <1>10, <1>11, <1>12, <1>13, <1>14, <1>15, <1>16, <1>17, <1>18, <1>19, <1>20, <1>21, <1>22, <1>23, <1>24, <1>25, <1>26, <1>27, <1>28, <1>29, <1>30, <1>31, <1>32, <1>33, <1>34, <1>35 DEF Next

\* No draft comes in, or one goes, or one comes in while there is room.
LEMMA RoomKept ==
    ASSUME CInv, TInv, nextId' = nextId, Unnamed' \subseteq Unnamed
    PROVE  RoomOK'
<1>1. IsFiniteSet(Unnamed) /\ IsFiniteSet(Unnamed')
  BY StoreAssumption, FS_Subset DEF Unnamed
<1>2. Cardinality(Unnamed') <= Cardinality(Unnamed) /\ Cardinality(Unnamed) \in Nat
      /\ Cardinality(Unnamed') \in Nat
  BY <1>1, FS_Subset, FS_CardinalityType
<1> QED
  BY <1>2, StoreAssumption DEF CInv, Shape, TInv, RoomOK

\* A draft without an id starts only while an id is left for it.
LEMMA RoomTaken ==
    ASSUME CInv, TInv, NEW t \in Threads, nextId' = nextId, Unnamed' \subseteq Unnamed \cup {t},
           nextId + Cardinality(Unnamed) <= MaxId
    PROVE  RoomOK'
<1>1. IsFiniteSet(Unnamed) /\ IsFiniteSet(Unnamed \cup {t})
  BY StoreAssumption, FS_Subset, FS_AddElement DEF Unnamed
<1>2. Cardinality(Unnamed \cup {t}) <= Cardinality(Unnamed) + 1 /\ Cardinality(Unnamed) \in Nat
  BY <1>1, FS_AddElement, FS_CardinalityType
<1>3. Cardinality(Unnamed') <= Cardinality(Unnamed \cup {t}) /\ Cardinality(Unnamed') \in Nat
      /\ Cardinality(Unnamed \cup {t}) \in Nat
  BY <1>1, FS_Subset, FS_CardinalityType
<1> QED
  BY <1>2, <1>3, StoreAssumption DEF CInv, Shape, TInv, RoomOK

\* Insert uses the id that was kept for its draft.
LEMMA RoomMinted ==
    ASSUME CInv, TInv, NEW t \in Threads, pc[t] = "insert", Unnamed' \subseteq Unnamed \ {t},
           nextId' = IF hand[t].id = 0 THEN nextId + 1 ELSE nextId
    PROVE  RoomOK'
<1>1. CASE hand[t].id # 0
  BY <1>1, RoomKept
<1>2. CASE hand[t].id = 0
  <2>1. t \in Unnamed
    BY <1>2, NewId
  <2>2. IsFiniteSet(Unnamed) /\ IsFiniteSet(Unnamed \ {t}) /\ IsFiniteSet(Unnamed')
    BY StoreAssumption, FS_Subset DEF Unnamed
  <2>3. Cardinality(Unnamed \ {t}) = Cardinality(Unnamed) - 1 /\ Cardinality(Unnamed) \in Nat
    BY <2>1, <2>2, FS_RemoveElement, FS_CardinalityType
  <2>4. Cardinality(Unnamed') <= Cardinality(Unnamed \ {t}) /\ Cardinality(Unnamed') \in Nat
    BY <2>2, FS_Subset, FS_CardinalityType
  <2> QED
    BY <1>2, <2>3, <2>4, StoreAssumption DEF CInv, Shape, TInv, RoomOK
<1> QED
  BY <1>1, <1>2

\* No more ids are promised than are left.
LEMMA RoomNext ==
    ASSUME CInv, TInv, Next
    PROVE  RoomOK'
<1>1. ASSUME NEW c \in Clients, Expire(c) PROVE RoomOK'
  <2>1. nextId' = nextId /\ Unnamed' \subseteq Unnamed
    BY <1>1 DEF CInv, Shape, Unnamed, Expire
  <2> QED
    BY <2>1, RoomKept
<1>2. ASSUME NEW c \in Clients, Refresh(c) PROVE RoomOK'
  <2>1. nextId' = nextId /\ Unnamed' \subseteq Unnamed
    BY <1>2 DEF CInv, Shape, Unnamed, Refresh
  <2> QED
    BY <2>1, RoomKept
<1>3. ASSUME NEW t \in Threads, NEW c \in Clients, NEW u \in Users, StartAllocate(t, c, u) PROVE RoomOK'
  <2>1. nextId + Cardinality(Unnamed) <= MaxId /\ UNCHANGED nextId
        /\ Unnamed' \subseteq Unnamed \cup {t}
    BY <1>3 DEF CInv, Shape, StartAllocate, MayMint, Unnamed
  <2> QED
    BY <2>1, RoomTaken
<1>4. ASSUME NEW t \in Threads, TakePort(t) PROVE RoomOK'
  <2>1. PICK p \in Ports : hand' = [hand EXCEPT ![t].port = p] /\ UNCHANGED nextId
    BY <1>4 DEF TakePort
  <2>2. hand[t] \in Drafts
    BY <1>4 DEF CInv, StepsOK, StepOK, TakePort
  <2> DEFINE d == [hand[t] EXCEPT !.port = p]
  <2>3. d \in Drafts /\ d.id = hand[t].id /\ hand' = [hand EXCEPT ![t] = d]
    BY <2>1, <2>2, DraftKeeps
  <2> HIDE DEF d
  <2>4. Unnamed' \subseteq Unnamed
    BY <2>2, <2>3, AllocationFields DEF CInv, Shape, Unnamed
  <2> QED
    BY <2>1, <2>4, RoomKept
<1>5. ASSUME NEW t \in Threads, NoPort(t) PROVE RoomOK'
  <2>1. nextId' = nextId /\ Unnamed' \subseteq Unnamed
    BY <1>5 DEF CInv, Shape, Unnamed, NoPort
  <2> QED
    BY <2>1, RoomKept
<1>6. ASSUME NEW t \in Threads, Reserve(t) PROVE RoomOK'
  <2>1. nextId' = nextId /\ Unnamed' \subseteq Unnamed
    BY <1>6 DEF CInv, Shape, Unnamed, Reserve
  <2> QED
    BY <2>1, RoomKept
<1>7. ASSUME NEW t \in Threads, ReserveFails(t) PROVE RoomOK'
  <2>1. nextId' = nextId /\ Unnamed' \subseteq Unnamed
    BY <1>7 DEF CInv, Shape, Unnamed, ReserveFails
  <2> QED
    BY <2>1, RoomKept
<1>8. ASSUME NEW t \in Threads, ReleaseCounter(t) PROVE RoomOK'
  <2>1. nextId' = nextId /\ Unnamed' \subseteq Unnamed
    BY <1>8 DEF CInv, Shape, Unnamed, ReleaseCounter
  <2> QED
    BY <2>1, RoomKept
<1>9. ASSUME NEW t \in Threads, Undone(t) PROVE RoomOK'
  <2>1. nextId' = nextId /\ Unnamed' \subseteq Unnamed
    BY <1>9 DEF CInv, Shape, Unnamed, Undone
  <2> QED
    BY <2>1, RoomKept
<1>10. ASSUME NEW t \in Threads, DropPort(t) PROVE RoomOK'
  <2>1. nextId' = nextId /\ Unnamed' \subseteq Unnamed
    BY <1>10 DEF CInv, Shape, Unnamed, DropPort
  <2> QED
    BY <2>1, RoomKept
<1>11. ASSUME NEW t \in Threads, Insert(t) PROVE RoomOK'
  <2>1. /\ pc[t] = "insert" /\ hand' = [hand EXCEPT ![t] = None]
        /\ nextId' = IF hand[t].id = 0 THEN nextId + 1 ELSE nextId
    BY <1>11 DEF Insert
  <2>2. Unnamed' \subseteq Unnamed \ {t}
    BY <2>1 DEF CInv, Shape, Unnamed
  <2> QED
    BY <2>1, <2>2, RoomMinted
<1>12. ASSUME NEW t \in Threads, InsertLost(t) PROVE RoomOK'
  <2> DEFINE i == IF hand[t].id = 0 THEN nextId ELSE hand[t].id
             d == [hand[t] EXCEPT !.id = i]
  <2>1. /\ pc[t] = "insert" /\ hand' = [hand EXCEPT ![t] = d]
        /\ nextId' = IF hand[t].id = 0 THEN nextId + 1 ELSE nextId
    BY <1>12 DEF InsertLost
  <2>2. hand[t] \in Drafts /\ i \in Nat /\ i # 0
    BY <2>1, NewId, StoreAssumption DEF Ids
  <2>3. d.id # 0
    BY <2>2, DraftKeeps
  <2> HIDE DEF d
  <2>4. Unnamed' \subseteq Unnamed \ {t}
    BY <2>1, <2>3 DEF CInv, Shape, Unnamed
  <2> QED
    BY <2>1, <2>4, RoomMinted
<1>13. ASSUME NEW t \in Threads, Created(t) PROVE RoomOK'
  <2>1. nextId' = nextId /\ Unnamed' \subseteq Unnamed
    BY <1>13 DEF CInv, Shape, Unnamed, Created
  <2> QED
    BY <2>1, RoomKept
<1>14. ASSUME NEW t \in Threads, NEW r \in Rows, StartRehydrate(t, r) PROVE RoomOK'
  <2>1. CASE r.draft.id = 0
    <3>1. nextId + Cardinality(Unnamed) <= MaxId /\ UNCHANGED nextId
          /\ Unnamed' \subseteq Unnamed \cup {t}
      BY <1>14, <2>1 DEF CInv, Shape, StartRehydrate, MayMint, Unnamed
    <3> QED
      BY <3>1, RoomTaken
  <2>2. CASE r.draft.id # 0
    <3>1. nextId' = nextId /\ Unnamed' \subseteq Unnamed
      BY <1>14, <2>2 DEF CInv, Shape, Unnamed, StartRehydrate
    <3> QED
      BY <3>1, RoomKept
  <2> QED
    BY <2>1, <2>2
<1>15. ASSUME NEW t \in Threads, ReserveRowPort(t) PROVE RoomOK'
  <2>1. nextId' = nextId /\ Unnamed' \subseteq Unnamed
    BY <1>15 DEF CInv, Shape, Unnamed, ReserveRowPort
  <2> QED
    BY <2>1, RoomKept
<1>16. ASSUME NEW t \in Threads, NEW c \in Clients, StartRelease(t, c) PROVE RoomOK'
  <2>1. nextId' = nextId /\ Unnamed' \subseteq Unnamed
    BY <1>16 DEF CInv, Shape, Unnamed, StartRelease
  <2> QED
    BY <2>1, RoomKept
<1>17. ASSUME NEW t \in Threads, NEW c \in Clients, StartSweep(t, c) PROVE RoomOK'
  <2>1. nextId' = nextId /\ Unnamed' \subseteq Unnamed
    BY <1>17 DEF CInv, Shape, Unnamed, StartSweep
  <2> QED
    BY <2>1, RoomKept
<1>18. ASSUME NEW t \in Threads, NEW c \in Clients, StartForce(t, c) PROVE RoomOK'
  <2>1. nextId' = nextId /\ Unnamed' \subseteq Unnamed
    BY <1>18 DEF CInv, Shape, Unnamed, StartForce
  <2> QED
    BY <2>1, RoomKept
<1>19. ASSUME NEW t \in Threads, SweepRecheck(t) PROVE RoomOK'
  <2>1. nextId' = nextId /\ Unnamed' \subseteq Unnamed
    BY <1>19 DEF CInv, Shape, Unnamed, SweepRecheck
  <2> QED
    BY <2>1, RoomKept
<1>20. ASSUME NEW t \in Threads, RmTake(t) PROVE RoomOK'
  <2>1. client[t] \in Clients /\ alloc[client[t]] \in Allocations
    BY <1>20 DEF CInv, StepsOK, StepOK, TInv, Placed, RmTake
  <2>2. hand' = [hand EXCEPT ![t] = alloc[client[t]]] /\ UNCHANGED nextId
    BY <1>20 DEF RmTake
  <2>3. Unnamed' \subseteq Unnamed
    BY <2>1, <2>2, AllocationFields DEF CInv, Shape, Unnamed
  <2> QED
    BY <2>2, <2>3, RoomKept
<1>21. ASSUME NEW t \in Threads, RmNothing(t) PROVE RoomOK'
  <2>1. nextId' = nextId /\ Unnamed' \subseteq Unnamed
    BY <1>21 DEF CInv, Shape, Unnamed, RmNothing
  <2> QED
    BY <2>1, RoomKept
<1>22. ASSUME NEW t \in Threads, RmIndex(t) PROVE RoomOK'
  <2>1. nextId' = nextId /\ Unnamed' \subseteq Unnamed
    BY <1>22 DEF CInv, Shape, Unnamed, RmIndex
  <2> QED
    BY <2>1, RoomKept
<1>23. ASSUME NEW t \in Threads, RmPort(t) PROVE RoomOK'
  <2>1. nextId' = nextId /\ Unnamed' \subseteq Unnamed
    BY <1>23 DEF CInv, Shape, Unnamed, RmPort
  <2> QED
    BY <2>1, RoomKept
<1>24. ASSUME NEW t \in Threads, RmDone(t) PROVE RoomOK'
  <2>1. nextId' = nextId /\ Unnamed' \subseteq Unnamed
    BY <1>24 DEF CInv, Shape, Unnamed, RmDone
  <2> QED
    BY <2>1, RoomKept
<1>25. ASSUME NEW t \in Threads, NEW c \in Clients, NEW k \in tickets, StartMigrate(t, c, k) PROVE RoomOK'
  <2>1. nextId' = nextId /\ Unnamed' \subseteq Unnamed
    BY <1>25 DEF CInv, Shape, Unnamed, StartMigrate
  <2> QED
    BY <2>1, RoomKept
<1>26. ASSUME NEW t \in Threads, CheckEpoch(t) PROVE RoomOK'
  <2>1. nextId' = nextId /\ Unnamed' \subseteq Unnamed
    BY <1>26 DEF CInv, Shape, Unnamed, CheckEpoch
  <2> QED
    BY <2>1, RoomKept
<1>27. ASSUME NEW t \in Threads, NEW o \in Clients, NEW n \in Clients, StartQuic(t, o, n) PROVE RoomOK'
  <2>1. nextId' = nextId /\ Unnamed' \subseteq Unnamed
    BY <1>27 DEF CInv, Shape, Unnamed, StartQuic
  <2> QED
    BY <2>1, RoomKept
<1>28. ASSUME NEW t \in Threads, RkNothing(t) PROVE RoomOK'
  <2>1. nextId' = nextId /\ Unnamed' \subseteq Unnamed
    BY <1>28 DEF CInv, Shape, Unnamed, RkNothing
  <2> QED
    BY <2>1, RoomKept
<1>29. ASSUME NEW t \in Threads, RkTake(t) PROVE RoomOK'
  <2>1. client[t] \in Clients /\ alloc[client[t]] \in Allocations
    BY <1>29 DEF CInv, StepsOK, StepOK, TInv, Placed, RkTake
  <2>2. hand' = [hand EXCEPT ![t] = alloc[client[t]]] /\ UNCHANGED nextId
    BY <1>29 DEF RkTake
  <2>3. Unnamed' \subseteq Unnamed
    BY <2>1, <2>2, AllocationFields DEF CInv, Shape, Unnamed
  <2> QED
    BY <2>2, <2>3, RoomKept
<1>30. ASSUME NEW t \in Threads, RkClaim(t) PROVE RoomOK'
  <2>1. nextId' = nextId /\ Unnamed' \subseteq Unnamed
    BY <1>30 DEF CInv, Shape, Unnamed, RkClaim
  <2> QED
    BY <2>1, RoomKept
<1>31. ASSUME NEW t \in Threads, RkRefused(t) PROVE RoomOK'
  <2>1. nextId' = nextId /\ Unnamed' \subseteq Unnamed
    BY <1>31 DEF CInv, Shape, Unnamed, RkRefused
  <2> QED
    BY <2>1, RoomKept
<1>32. ASSUME NEW t \in Threads, RkBack(t) PROVE RoomOK'
  <2>1. nextId' = nextId /\ Unnamed' \subseteq Unnamed
    BY <1>32 DEF CInv, Shape, Unnamed, RkBack
  <2> QED
    BY <2>1, RoomKept
<1>33. ASSUME NEW t \in Threads, RkOrphan(t) PROVE RoomOK'
  <2>1. nextId' = nextId /\ Unnamed' \subseteq Unnamed
    BY <1>33 DEF CInv, Shape, Unnamed, RkOrphan
  <2> QED
    BY <2>1, RoomKept
<1>34. ASSUME NEW t \in Threads, MigrateRefresh(t) PROVE RoomOK'
  <2>1. nextId' = nextId /\ Unnamed' \subseteq Unnamed
    BY <1>34 DEF CInv, Shape, Unnamed, MigrateRefresh
  <2> QED
    BY <2>1, RoomKept
<1>35. ASSUME NEW t \in Threads, MigrateTicket(t) PROVE RoomOK'
  <2>1. nextId' = nextId /\ Unnamed' \subseteq Unnamed
    BY <1>35 DEF CInv, Shape, Unnamed, MigrateTicket
  <2> QED
    BY <2>1, RoomKept
<1> QED
  BY <1>1, <1>2, <1>3, <1>4, <1>5, <1>6, <1>7, <1>8, <1>9, <1>10, <1>11, <1>12, <1>13, <1>14, <1>15, <1>16, <1>17, <1>18, <1>19, <1>20, <1>21, <1>22, <1>23, <1>24, <1>25, <1>26, <1>27, <1>28, <1>29, <1>30, <1>31, <1>32, <1>33, <1>34, <1>35 DEF Next

\* The initial state has its types.
LEMMA TInit == Init => TInv
<1> SUFFICES ASSUME Init PROVE TInv
  OBVIOUS
<1>1. Unnamed = {}
  BY DEF Init, Unnamed
<1>2. RoomOK
  BY <1>1, FS_EmptySet, StoreAssumption DEF Init, RoomOK
<1>3. Tables
  BY DEF Init, Tables, Ids
<1>4. Placed /\ PlacesOK
  BY StoreAssumption DEF Init, Placed, PlacesOK, PlaceOK, Drafting, Carrying
<1> QED
  BY <1>2, <1>3, <1>4 DEF TInv

\* Every step keeps the types.
LEMMA TNext == CInv /\ TInv /\ [Next]_vars => TInv'
<1> SUFFICES ASSUME CInv, TInv, [Next]_vars PROVE TInv'
  OBVIOUS
<1>1. CASE Next
  BY <1>1, TablesNext, PlacedNext, PlacesNext, RoomNext DEF TInv
<1>2. CASE UNCHANGED vars
  BY <1>2 DEF vars, args, index, trace, TInv, Tables, Placed, PlacesOK, PlaceOK, RoomOK, Unnamed
<1> QED
  BY <1>1, <1>2

\* The types hold in every reachable state.
THEOREM StoreTyped == Spec => [](CInv /\ TInv)
  BY StoreInvariant, TInit, TNext, PTL DEF Spec

\* The invariant of the types implies TypeOK.
LEMMA TypedStates == CInv /\ TInv => TypeOK
<1> SUFFICES ASSUME CInv, TInv PROVE TypeOK
  OBVIOUS
<1>1. \A s \in Scopes : count[s] \in Nat
  BY HoldersFinite DEF CInv, CountsExact, Holders
<1>2. alloc \in [Clients -> Allocations \cup {None}]
  BY DEF CInv, Shape, TInv, Placed
<1> QED
  BY <1>1, <1>2 DEF CInv, Shape, TInv, Tables, TypeOK

\* The maps, counters, indices and locals of AllocationStore keep their types; no
\* counter ever underflows (the debug_assert!s of release_counters).
THEOREM StoreTypeCorrect == Spec => []TypeOK
  BY StoreTyped, TypedStates, PTL

----------------------------------------------------------------------------
(* Where an allocation is.  A row of another process may bring an id that  *)
(* this process mints again, so what follows is about rows without an id.  *)

Minted == \A r \in Rows : r.draft.id = 0

\* x, a client or a thread, has the allocation with id i.
Keeps(x, i) ==
    \/ x \in Clients /\ alloc[x] # None /\ alloc[x].id = i
    \/ x \in Threads /\ pc[x] \in Carrying /\ hand[x].id = i

\* The client address it has it under.
Addr(x) == IF x \in Clients THEN x ELSE client[x]

Keepers == Clients \cup Threads

\* An id is minted when its draft is inserted.
Nameless == \A t \in Threads :
    pc[t] \in {"port", "reserve", "rowPort", "insert"} => hand[t].id = 0

Named ==
    /\ \A i \in made : i < nextId
    /\ \A x \in Keepers, i \in Ids : Keeps(x, i) => i \in made

OnePlace == \A x, y \in Keepers, i \in Ids : Keeps(x, i) /\ Keeps(y, i) => x = y

\* The Stop record is cut when nobody has the allocation any more.
Billed ==
    /\ \A i \in Ids \ made : closed[i] = 0
    /\ \A i \in made : closed[i] = IF \E x \in Keepers : Keeps(x, i) THEN 0 ELSE 1

IdIndexed ==
    \A i \in Ids, c \in Clients :
        idIx[i] = c <=> \E x \in Keepers : Keeps(x, i) /\ Addr(x) = c

BInv == Named /\ OnePlace /\ Billed /\ IdIndexed

\* A client or thread has one allocation, under a client address.
LEMMA KeepsOne ==
    ASSUME CInv, TInv, NEW x \in Keepers, NEW i, Keeps(x, i)
    PROVE  /\ i \in Ids /\ Addr(x) \in Clients
           /\ \A j : Keeps(x, j) => j = i
<1>1. CASE x \in Clients
  BY <1>1, AllocationFields, StoreAssumption DEF Keeps, Addr, TInv, Placed
<1>2. CASE x \in Threads
  <2>1. x \notin Clients /\ pc[x] \in Carrying /\ hand[x].id = i
    BY <1>2, StoreAssumption DEF Keeps
  <2>2. hand[x] \in Allocations /\ client[x] \in Clients
    BY <1>2, <2>1 DEF CInv, StepsOK, StepOK, TInv, PlacesOK, PlaceOK, Carrying
  <2> QED
    BY <1>2, <2>1, <2>2, AllocationFields DEF Keeps, Addr
<1> QED
  BY <1>1, <1>2 DEF Keepers

\* Nobody gets, loses or closes an allocation.
LEMMA QuietIds ==
    ASSUME CInv, TInv, BInv,
           \A x \in Keepers, i \in Ids : Keeps(x, i)' <=> Keeps(x, i),
           \A x \in Keepers, i \in Ids : Keeps(x, i) => Addr(x)' = Addr(x),
           UNCHANGED <<idIx, closed, made>>, nextId' \in {nextId, nextId + 1}
    PROVE  BInv'
<1>1. Named'
  <2>1. nextId \in Nat /\ \A i \in made : i \in Nat /\ i < nextId
    BY DEF CInv, Shape, TInv, Tables, BInv, Named, Ids
  <2> QED
    BY <2>1 DEF BInv, Named
<1>2. OnePlace'
  BY DEF BInv, OnePlace
<1>3. Billed'
  <2>1. \A i \in made : i \in Ids
    BY DEF TInv, Tables
  <2>2. \A i \in made : (\E x \in Keepers : Keeps(x, i))' <=> \E x \in Keepers : Keeps(x, i)
    BY <2>1
  <2> QED
    BY <2>2 DEF BInv, Billed
<1>4. IdIndexed'
  BY DEF BInv, IdIndexed
<1> QED
  BY <1>1, <1>2, <1>3, <1>4 DEF BInv

\* The allocation i goes from x to y, and the index names y's address.
LEMMA MovesIds ==
    ASSUME CInv, TInv, BInv, NEW x \in Keepers, NEW y \in Keepers, NEW i \in Ids, x # y,
           Keeps(x, i), \A j \in Ids : ~Keeps(y, j),
           \A z \in Keepers, j \in Ids :
              Keeps(z, j)' <=> (z = y /\ j = i) \/ (z # x /\ Keeps(z, j)),
           \A z \in Keepers, j \in Ids : Keeps(z, j) /\ z # x => Addr(z)' = Addr(z),
           Addr(y)' \in Clients,
           idIx' = [idIx EXCEPT ![i] = Addr(y)'],
           UNCHANGED <<closed, made, nextId>>
    PROVE  BInv'
<1>1. \A j \in Ids : Keeps(x, j) => j = i
  BY KeepsOne
<1>2. i \in made
  BY DEF BInv, Named
<1>3. Named'
  BY <1>2 DEF BInv, Named
<1>4. OnePlace'
  BY <1>1 DEF BInv, OnePlace
<1>5. Billed'
  <2>1. ASSUME NEW j \in made
        PROVE  (\E z \in Keepers : Keeps(z, j))' <=> \E z \in Keepers : Keeps(z, j)
    <3>1. j \in Ids
      BY DEF TInv, Tables
    <3>2. CASE j = i
      BY <3>2
    <3>3. CASE j # i
      BY <1>1, <3>1, <3>3
    <3> QED
      BY <3>2, <3>3
  <2> QED
    BY <2>1 DEF BInv, Billed
<1>6. ASSUME NEW j \in Ids, NEW c \in Clients
      PROVE  idIx'[j] = c <=> \E z \in Keepers : Keeps(z, j)' /\ Addr(z)' = c
  <2>1. CASE j = i
    <3>1. \A z \in Keepers : Keeps(z, i)' => z = y
      BY DEF BInv, OnePlace
    <3>2. idIx'[i] = Addr(y)' /\ Keeps(y, i)'
      BY DEF TInv, Tables
    <3> QED
      BY <2>1, <3>1, <3>2
  <2>2. CASE j # i
    <3>1. idIx'[j] = idIx[j]
      BY <2>2 DEF TInv, Tables
    <3>2. \A z \in Keepers : Keeps(z, j)' <=> Keeps(z, j)
      BY <1>1, <2>2
    <3>3. \A z \in Keepers : Keeps(z, j) => Addr(z)' = Addr(z)
      BY <1>1, <2>2
    <3> QED
      BY <3>1, <3>2, <3>3 DEF BInv, IdIndexed
  <2> QED
    BY <2>1, <2>2
<1>7. IdIndexed'
  BY <1>6 DEF IdIndexed
<1> QED
  BY <1>3, <1>4, <1>5, <1>7 DEF BInv

\* A new allocation i gets its place at y.
LEMMA EntersIds ==
    ASSUME CInv, TInv, BInv, NEW y \in Clients, NEW i \in Ids,
           i = nextId, nextId' = nextId + 1, \A j \in Ids : ~Keeps(y, j),
           \A z \in Keepers, j \in Ids : Keeps(z, j)' <=> (z = y /\ j = i) \/ Keeps(z, j),
           \A z \in Keepers, j \in Ids : Keeps(z, j) => Addr(z)' = Addr(z),
           idIx' = [idIx EXCEPT ![i] = y], made' = made \cup {i}, UNCHANGED closed
    PROVE  BInv'
<1>1. nextId \in Nat /\ made \subseteq Ids /\ \A j \in made : j < nextId
  BY DEF CInv, Shape, TInv, Tables, BInv, Named
<1>2. i \notin made /\ \A z \in Keepers : ~Keeps(z, i)
  BY <1>1 DEF BInv, Named, Ids
<1>3. Named'
  BY <1>1 DEF BInv, Named, Ids
<1>4. OnePlace'
  BY <1>2 DEF BInv, OnePlace
<1>5. Billed'
  <2>1. \A j \in made : (\E z \in Keepers : Keeps(z, j))' <=> \E z \in Keepers : Keeps(z, j)
    BY <1>1, <1>2
  <2>2. closed[i] = 0 /\ y \in Keepers
    BY <1>2 DEF BInv, Billed, Keepers
  <2> QED
    BY <1>2, <2>1, <2>2 DEF BInv, Billed
<1>6. ASSUME NEW j \in Ids, NEW c \in Clients
      PROVE  idIx'[j] = c <=> \E z \in Keepers : Keeps(z, j)' /\ Addr(z)' = c
  <2>1. CASE j = i
    <3>1. \A z \in Keepers : Keeps(z, i)' <=> z = y
      BY <1>2 DEF Keepers
    <3>2. idIx'[i] = y /\ Addr(y)' = y /\ y \in Keepers
      BY DEF TInv, Tables, Addr, Keepers
    <3> QED
      BY <2>1, <3>1, <3>2
  <2>2. CASE j # i
    <3>1. idIx'[j] = idIx[j] /\ \A z \in Keepers : Keeps(z, j)' <=> Keeps(z, j)
      BY <2>2 DEF TInv, Tables
    <3> QED
      BY <3>1 DEF BInv, IdIndexed
  <2> QED
    BY <2>1, <2>2
<1>7. IdIndexed'
  BY <1>6 DEF IdIndexed
<1> QED
  BY <1>3, <1>4, <1>5, <1>7 DEF BInv

\* x closes the allocation i.
LEMMA ClosesIds ==
    ASSUME CInv, TInv, BInv, NEW x \in Keepers, NEW i \in Ids, Keeps(x, i),
           \A z \in Keepers, j \in Ids : Keeps(z, j)' <=> z # x /\ Keeps(z, j),
           \A z \in Keepers, j \in Ids : Keeps(z, j) => Addr(z)' = Addr(z),
           idIx' = [idIx EXCEPT ![i] = None],
           closed' = [closed EXCEPT ![i] = @ + 1], UNCHANGED <<made, nextId>>
    PROVE  BInv'
<1>1. \A j \in Ids : Keeps(x, j) => j = i
  BY KeepsOne
<1>2. i \in made /\ \A z \in Keepers : ~Keeps(z, i)'
  BY DEF BInv, Named, OnePlace
<1>3. Named'
  BY DEF BInv, Named
<1>4. OnePlace'
  BY DEF BInv, OnePlace
<1>5. Billed'
  <2>1. closed[i] = 0 /\ closed'[i] = 1 /\ \A j \in Ids \ {i} : closed'[j] = closed[j]
    BY <1>2 DEF BInv, Billed, TInv, Tables
  <2>2. \A j \in made \ {i} : (\E z \in Keepers : Keeps(z, j))' <=> \E z \in Keepers : Keeps(z, j)
    BY <1>1 DEF TInv, Tables
  <2> QED
    BY <1>2, <2>1, <2>2 DEF BInv, Billed, TInv, Tables
<1>6. ASSUME NEW j \in Ids, NEW c \in Clients
      PROVE  idIx'[j] = c <=> \E z \in Keepers : Keeps(z, j)' /\ Addr(z)' = c
  <2>1. CASE j = i
    <3>1. idIx'[i] = None /\ c # None
      BY StoreAssumption DEF TInv, Tables
    <3> QED
      BY <1>2, <2>1, <3>1
  <2>2. CASE j # i
    <3>1. idIx'[j] = idIx[j] /\ \A z \in Keepers : Keeps(z, j)' <=> Keeps(z, j)
      BY <1>1, <2>2 DEF TInv, Tables
    <3> QED
      BY <3>1 DEF BInv, IdIndexed
  <2> QED
    BY <2>1, <2>2
<1>7. IdIndexed'
  BY <1>6 DEF IdIndexed
<1> QED
  BY <1>3, <1>4, <1>5, <1>7 DEF BInv

\* With rows that bring no id, ids are minted at the insert only.
LEMMA NamelessNext ==
    ASSUME Minted, CInv, TInv, Nameless, Next
    PROVE  Nameless'
<1>1. ASSUME NEW c \in Clients, Expire(c) PROVE Nameless'
  BY <1>1 DEF Nameless, CInv, Shape, Begin, Finish, Goto, Expire
<1>2. ASSUME NEW c \in Clients, Refresh(c) PROVE Nameless'
  BY <1>2 DEF Nameless, CInv, Shape, Begin, Finish, Goto, Refresh
<1>3. ASSUME NEW t \in Threads, NEW c \in Clients, NEW u \in Users, StartAllocate(t, c, u) PROVE Nameless'
  BY <1>3 DEF Nameless, CInv, Shape, Begin, Finish, Goto, StartAllocate
<1>4. ASSUME NEW t \in Threads, TakePort(t) PROVE Nameless'
  <2>1. PICK p \in Ports : hand' = [hand EXCEPT ![t].port = p]
    BY <1>4 DEF TakePort
  <2>2. hand[t] \in Drafts /\ hand[t].id = 0
    BY <1>4 DEF CInv, StepsOK, StepOK, Nameless, TakePort
  <2> DEFINE d == [hand[t] EXCEPT !.port = p]
  <2>3. d.id = hand[t].id /\ hand' = [hand EXCEPT ![t] = d]
    BY <2>1, <2>2, DraftKeeps
  <2>4. pc' = [pc EXCEPT ![t] = "reserve"]
    BY <1>4 DEF TakePort, Goto
  <2> HIDE DEF d
  <2> QED
    BY <2>2, <2>3, <2>4 DEF Nameless, CInv, Shape
<1>5. ASSUME NEW t \in Threads, NoPort(t) PROVE Nameless'
  BY <1>5 DEF Nameless, CInv, Shape, Begin, Finish, Goto, NoPort
<1>6. ASSUME NEW t \in Threads, Reserve(t) PROVE Nameless'
  BY <1>6 DEF Nameless, CInv, Shape, Begin, Finish, Goto, Reserve
<1>7. ASSUME NEW t \in Threads, ReserveFails(t) PROVE Nameless'
  BY <1>7 DEF Nameless, CInv, Shape, Begin, Finish, Goto, ReserveFails
<1>8. ASSUME NEW t \in Threads, ReleaseCounter(t) PROVE Nameless'
  BY <1>8 DEF Nameless, CInv, Shape, Begin, Finish, Goto, ReleaseCounter
<1>9. ASSUME NEW t \in Threads, Undone(t) PROVE Nameless'
  BY <1>9 DEF Nameless, CInv, Shape, Begin, Finish, Goto, Undone
<1>10. ASSUME NEW t \in Threads, DropPort(t) PROVE Nameless'
  BY <1>10 DEF Nameless, CInv, Shape, Begin, Finish, Goto, DropPort
<1>11. ASSUME NEW t \in Threads, Insert(t) PROVE Nameless'
  BY <1>11 DEF Nameless, CInv, Shape, Begin, Finish, Goto, Insert
<1>12. ASSUME NEW t \in Threads, InsertLost(t) PROVE Nameless'
  <2>1. /\ \A x \in Threads \ {t} : pc'[x] = pc[x] /\ hand'[x] = hand[x]
        /\ pc'[t] \in {"undo", "dropPort"}
    BY <1>12 DEF InsertLost, Goto, CInv, Shape
  <2> QED
    BY <2>1 DEF Nameless
<1>13. ASSUME NEW t \in Threads, Created(t) PROVE Nameless'
  BY <1>13 DEF Nameless, CInv, Shape, Begin, Finish, Goto, Created
<1>14. ASSUME NEW t \in Threads, NEW r \in Rows, StartRehydrate(t, r) PROVE Nameless'
  BY <1>14 DEF Minted, Nameless, CInv, Shape, Begin, Finish, Goto, StartRehydrate
<1>15. ASSUME NEW t \in Threads, ReserveRowPort(t) PROVE Nameless'
  BY <1>15 DEF Nameless, CInv, Shape, Begin, Finish, Goto, ReserveRowPort
<1>16. ASSUME NEW t \in Threads, NEW c \in Clients, StartRelease(t, c) PROVE Nameless'
  BY <1>16 DEF Nameless, CInv, Shape, Begin, Finish, Goto, StartRelease
<1>17. ASSUME NEW t \in Threads, NEW c \in Clients, StartSweep(t, c) PROVE Nameless'
  BY <1>17 DEF Nameless, CInv, Shape, Begin, Finish, Goto, StartSweep
<1>18. ASSUME NEW t \in Threads, NEW c \in Clients, StartForce(t, c) PROVE Nameless'
  BY <1>18 DEF Nameless, CInv, Shape, Begin, Finish, Goto, StartForce
<1>19. ASSUME NEW t \in Threads, SweepRecheck(t) PROVE Nameless'
  BY <1>19 DEF Nameless, CInv, Shape, Begin, Finish, Goto, SweepRecheck
<1>20. ASSUME NEW t \in Threads, RmTake(t) PROVE Nameless'
  BY <1>20 DEF Nameless, CInv, Shape, Begin, Finish, Goto, RmTake
<1>21. ASSUME NEW t \in Threads, RmNothing(t) PROVE Nameless'
  BY <1>21 DEF Nameless, CInv, Shape, Begin, Finish, Goto, RmNothing
<1>22. ASSUME NEW t \in Threads, RmIndex(t) PROVE Nameless'
  BY <1>22 DEF Nameless, CInv, Shape, Begin, Finish, Goto, RmIndex
<1>23. ASSUME NEW t \in Threads, RmPort(t) PROVE Nameless'
  BY <1>23 DEF Nameless, CInv, Shape, Begin, Finish, Goto, RmPort
<1>24. ASSUME NEW t \in Threads, RmDone(t) PROVE Nameless'
  BY <1>24 DEF Nameless, CInv, Shape, Begin, Finish, Goto, RmDone
<1>25. ASSUME NEW t \in Threads, NEW c \in Clients, NEW k \in tickets, StartMigrate(t, c, k) PROVE Nameless'
  BY <1>25 DEF Nameless, CInv, Shape, Begin, Finish, Goto, StartMigrate
<1>26. ASSUME NEW t \in Threads, CheckEpoch(t) PROVE Nameless'
  BY <1>26 DEF Nameless, CInv, Shape, Begin, Finish, Goto, CheckEpoch
<1>27. ASSUME NEW t \in Threads, NEW o \in Clients, NEW n \in Clients, StartQuic(t, o, n) PROVE Nameless'
  BY <1>27 DEF Nameless, CInv, Shape, Begin, Finish, Goto, StartQuic
<1>28. ASSUME NEW t \in Threads, RkNothing(t) PROVE Nameless'
  BY <1>28 DEF Nameless, CInv, Shape, Begin, Finish, Goto, RkNothing
<1>29. ASSUME NEW t \in Threads, RkTake(t) PROVE Nameless'
  BY <1>29 DEF Nameless, CInv, Shape, Begin, Finish, Goto, RkTake
<1>30. ASSUME NEW t \in Threads, RkClaim(t) PROVE Nameless'
  BY <1>30 DEF Nameless, CInv, Shape, Begin, Finish, Goto, RkClaim
<1>31. ASSUME NEW t \in Threads, RkRefused(t) PROVE Nameless'
  BY <1>31 DEF Nameless, CInv, Shape, Begin, Finish, Goto, RkRefused
<1>32. ASSUME NEW t \in Threads, RkBack(t) PROVE Nameless'
  BY <1>32 DEF Nameless, CInv, Shape, Begin, Finish, Goto, RkBack
<1>33. ASSUME NEW t \in Threads, RkOrphan(t) PROVE Nameless'
  BY <1>33 DEF Nameless, CInv, Shape, Begin, Finish, Goto, RkOrphan
<1>34. ASSUME NEW t \in Threads, MigrateRefresh(t) PROVE Nameless'
  BY <1>34 DEF Nameless, CInv, Shape, Begin, Finish, Goto, MigrateRefresh
<1>35. ASSUME NEW t \in Threads, MigrateTicket(t) PROVE Nameless'
  BY <1>35 DEF Nameless, CInv, Shape, Begin, Finish, Goto, MigrateTicket
<1> QED
  BY <1>1, <1>2, <1>3, <1>4, <1>5, <1>6, <1>7, <1>8, <1>9, <1>10, <1>11, <1>12, <1>13, <1>14, <1>15, <1>16, <1>17, <1>18, <1>19, <1>20, <1>21, <1>22, <1>23, <1>24, <1>25, <1>26, <1>27, <1>28, <1>29, <1>30, <1>31, <1>32, <1>33, <1>34, <1>35 DEF Next

\* Every action leaves an allocation in one place, indexed there, or closes it.
LEMMA IdsNext ==
    ASSUME CInv, TInv, Nameless, BInv, Next
    PROVE  BInv'
<1>1. ASSUME NEW c \in Clients, Expire(c) PROVE BInv'
  <2> DEFINE a == [alloc[c] EXCEPT !.expired = TRUE]
  <2>1. UNCHANGED <<idIx, closed, made, nextId, pc, hand, client>>
        /\ alloc[c] \in Allocations /\ alloc' = [alloc EXCEPT ![c] = a]
    BY <1>1 DEF TInv, Placed, index, trace, args, Expire
  <2>2. a # None /\ alloc[c] # None /\ a.id = alloc[c].id
    BY <2>1, AllocationUpdate, AllocationFields
  <2> HIDE DEF a
  <2>3. \A x \in Keepers, i \in Ids :
          (Keeps(x, i)' <=> Keeps(x, i)) /\ (Keeps(x, i) => Addr(x)' = Addr(x))
    BY <2>1, <2>2 DEF CInv, Shape, Keeps, Addr, Keepers
  <2> QED
    BY <2>1, <2>3, QuietIds
<1>2. ASSUME NEW c \in Clients, Refresh(c) PROVE BInv'
  <2> DEFINE a == [alloc[c] EXCEPT !.expired = FALSE]
  <2>1. UNCHANGED <<idIx, closed, made, nextId, pc, hand, client>>
        /\ alloc[c] \in Allocations /\ alloc' = [alloc EXCEPT ![c] = a]
    BY <1>2 DEF TInv, Placed, index, trace, args, Refresh
  <2>2. a # None /\ alloc[c] # None /\ a.id = alloc[c].id
    BY <2>1, AllocationUpdate, AllocationFields
  <2> HIDE DEF a
  <2>3. \A x \in Keepers, i \in Ids :
          (Keeps(x, i)' <=> Keeps(x, i)) /\ (Keeps(x, i) => Addr(x)' = Addr(x))
    BY <2>1, <2>2 DEF CInv, Shape, Keeps, Addr, Keepers
  <2> QED
    BY <2>1, <2>3, QuietIds
<1>3. ASSUME NEW t \in Threads, NEW c \in Clients, NEW u \in Users, StartAllocate(t, c, u) PROVE BInv'
  <2>1. UNCHANGED <<idIx, closed, made>> /\ nextId' \in {nextId, nextId + 1}
    BY <1>3 DEF index, trace, StartAllocate
  <2>2. \A x \in Keepers, i \in Ids :
          (Keeps(x, i)' <=> Keeps(x, i)) /\ (Keeps(x, i) => Addr(x)' = Addr(x))
    BY <1>3 DEF CInv, Shape, Keeps, Addr, Keepers, Carrying, Begin, Finish, Goto, args, StartAllocate
  <2> QED
    BY <2>1, <2>2, QuietIds
<1>4. ASSUME NEW t \in Threads, TakePort(t) PROVE BInv'
  <2>1. UNCHANGED <<idIx, closed, made>> /\ nextId' \in {nextId, nextId + 1}
    BY <1>4 DEF index, trace, TakePort
  <2>2. \A x \in Keepers, i \in Ids :
          (Keeps(x, i)' <=> Keeps(x, i)) /\ (Keeps(x, i) => Addr(x)' = Addr(x))
    BY <1>4 DEF CInv, Shape, Keeps, Addr, Keepers, Carrying, Begin, Finish, Goto, args, TakePort
  <2> QED
    BY <2>1, <2>2, QuietIds
<1>5. ASSUME NEW t \in Threads, NoPort(t) PROVE BInv'
  <2>1. UNCHANGED <<idIx, closed, made>> /\ nextId' \in {nextId, nextId + 1}
    BY <1>5 DEF index, trace, NoPort
  <2>2. \A x \in Keepers, i \in Ids :
          (Keeps(x, i)' <=> Keeps(x, i)) /\ (Keeps(x, i) => Addr(x)' = Addr(x))
    BY <1>5 DEF CInv, Shape, Keeps, Addr, Keepers, Carrying, Begin, Finish, Goto, args, NoPort
  <2> QED
    BY <2>1, <2>2, QuietIds
<1>6. ASSUME NEW t \in Threads, Reserve(t) PROVE BInv'
  <2>1. UNCHANGED <<idIx, closed, made>> /\ nextId' \in {nextId, nextId + 1}
    BY <1>6 DEF index, trace, Reserve
  <2>2. \A x \in Keepers, i \in Ids :
          (Keeps(x, i)' <=> Keeps(x, i)) /\ (Keeps(x, i) => Addr(x)' = Addr(x))
    BY <1>6 DEF CInv, Shape, Keeps, Addr, Keepers, Carrying, Begin, Finish, Goto, args, Reserve
  <2> QED
    BY <2>1, <2>2, QuietIds
<1>7. ASSUME NEW t \in Threads, ReserveFails(t) PROVE BInv'
  <2>1. UNCHANGED <<idIx, closed, made>> /\ nextId' \in {nextId, nextId + 1}
    BY <1>7 DEF index, trace, ReserveFails
  <2>2. \A x \in Keepers, i \in Ids :
          (Keeps(x, i)' <=> Keeps(x, i)) /\ (Keeps(x, i) => Addr(x)' = Addr(x))
    BY <1>7 DEF CInv, Shape, Keeps, Addr, Keepers, Carrying, Begin, Finish, Goto, args, ReserveFails
  <2> QED
    BY <2>1, <2>2, QuietIds
<1>8. ASSUME NEW t \in Threads, ReleaseCounter(t) PROVE BInv'
  <2>1. UNCHANGED <<idIx, closed, made>> /\ nextId' \in {nextId, nextId + 1}
    BY <1>8 DEF index, trace, ReleaseCounter
  <2>2. \A x \in Keepers, i \in Ids :
          (Keeps(x, i)' <=> Keeps(x, i)) /\ (Keeps(x, i) => Addr(x)' = Addr(x))
    BY <1>8 DEF CInv, Shape, Keeps, Addr, Keepers, Carrying, Begin, Finish, Goto, args, ReleaseCounter
  <2> QED
    BY <2>1, <2>2, QuietIds
<1>9. ASSUME NEW t \in Threads, Undone(t) PROVE BInv'
  <2>1. UNCHANGED <<idIx, closed, made>> /\ nextId' \in {nextId, nextId + 1}
    BY <1>9 DEF index, trace, Undone
  <2>2. \A x \in Keepers, i \in Ids :
          (Keeps(x, i)' <=> Keeps(x, i)) /\ (Keeps(x, i) => Addr(x)' = Addr(x))
    BY <1>9 DEF CInv, Shape, Keeps, Addr, Keepers, Carrying, Begin, Finish, Goto, args, Undone
  <2> QED
    BY <2>1, <2>2, QuietIds
<1>10. ASSUME NEW t \in Threads, DropPort(t) PROVE BInv'
  <2>1. UNCHANGED <<idIx, closed, made>> /\ nextId' \in {nextId, nextId + 1}
    BY <1>10 DEF index, trace, DropPort
  <2>2. \A x \in Keepers, i \in Ids :
          (Keeps(x, i)' <=> Keeps(x, i)) /\ (Keeps(x, i) => Addr(x)' = Addr(x))
    BY <1>10 DEF CInv, Shape, Keeps, Addr, Keepers, Carrying, Begin, Finish, Goto, args, DropPort
  <2> QED
    BY <2>1, <2>2, QuietIds
<1>11. ASSUME NEW t \in Threads, Insert(t) PROVE BInv'
  <2> DEFINE y == client[t]
             i == nextId
             a == [hand[t] EXCEPT !.id = i]
  <2>1. hand[t].id = 0 /\ pc[t] = "insert"
    BY <1>11 DEF Nameless, Insert
  <2>2. y \in Clients /\ i \in Ids /\ hand[t] \in Drafts /\ i \in Nat
    BY <2>1, NewId, StoreAssumption DEF CInv, Shape, StepsOK, StepOK, Ids
  <2>3. a.id = i /\ a # None
    BY <2>2, DraftKeeps, AllocationFields
  <2>4. /\ alloc' = [alloc EXCEPT ![y] = a] /\ alloc[y] = None /\ nextId' = nextId + 1
        /\ hand' = [hand EXCEPT ![t] = None] /\ UNCHANGED closed
        /\ idIx' = [idIx EXCEPT ![a.id] = y] /\ made' = made \cup {a.id}
    BY <1>11, <2>1 DEF Insert
  <2>5. /\ pc[t] \notin Carrying /\ pc'[t] \notin Carrying
        /\ \A z \in Threads \ {t} : pc'[z] = pc[z] /\ client'[z] = client[z]
    BY <1>11 DEF CInv, Shape, Insert, Goto, Finish, args, Carrying
  <2>6. y \notin Threads /\ t \notin Clients
    BY <2>2, StoreAssumption
  <2> HIDE DEF a
  <2>7. \A j \in Ids : ~Keeps(y, j)
    BY <2>4, <2>6 DEF Keeps
  <2>8. \A z \in Keepers, j \in Ids :
          /\ Keeps(z, j)' <=> (z = y /\ j = i) \/ Keeps(z, j)
          /\ Keeps(z, j) => Addr(z)' = Addr(z)
    BY <2>2, <2>3, <2>4, <2>5, <2>6 DEF CInv, Shape, Keeps, Keepers, Addr
  <2> HIDE DEF y, i
  <2> QED
    BY <2>2, <2>3, <2>4, <2>7, <2>8, EntersIds DEF i
<1>12. ASSUME NEW t \in Threads, InsertLost(t) PROVE BInv'
  <2>1. UNCHANGED <<idIx, closed, made>> /\ nextId' \in {nextId, nextId + 1}
    BY <1>12 DEF index, trace, InsertLost
  <2>2. \A x \in Keepers, i \in Ids :
          (Keeps(x, i)' <=> Keeps(x, i)) /\ (Keeps(x, i) => Addr(x)' = Addr(x))
    BY <1>12 DEF CInv, Shape, Keeps, Addr, Keepers, Carrying, Begin, Finish, Goto, args, InsertLost
  <2> QED
    BY <2>1, <2>2, QuietIds
<1>13. ASSUME NEW t \in Threads, Created(t) PROVE BInv'
  <2>1. UNCHANGED <<idIx, closed, made>> /\ nextId' \in {nextId, nextId + 1}
    BY <1>13 DEF index, trace, Created
  <2>2. \A x \in Keepers, i \in Ids :
          (Keeps(x, i)' <=> Keeps(x, i)) /\ (Keeps(x, i) => Addr(x)' = Addr(x))
    BY <1>13 DEF CInv, Shape, Keeps, Addr, Keepers, Carrying, Begin, Finish, Goto, args, Created
  <2> QED
    BY <2>1, <2>2, QuietIds
<1>14. ASSUME NEW t \in Threads, NEW r \in Rows, StartRehydrate(t, r) PROVE BInv'
  <2>1. UNCHANGED <<idIx, closed, made>> /\ nextId' \in {nextId, nextId + 1}
    BY <1>14 DEF index, trace, StartRehydrate
  <2>2. \A x \in Keepers, i \in Ids :
          (Keeps(x, i)' <=> Keeps(x, i)) /\ (Keeps(x, i) => Addr(x)' = Addr(x))
    BY <1>14 DEF CInv, Shape, Keeps, Addr, Keepers, Carrying, Begin, Finish, Goto, args, StartRehydrate
  <2> QED
    BY <2>1, <2>2, QuietIds
<1>15. ASSUME NEW t \in Threads, ReserveRowPort(t) PROVE BInv'
  <2>1. UNCHANGED <<idIx, closed, made>> /\ nextId' \in {nextId, nextId + 1}
    BY <1>15 DEF index, trace, ReserveRowPort
  <2>2. \A x \in Keepers, i \in Ids :
          (Keeps(x, i)' <=> Keeps(x, i)) /\ (Keeps(x, i) => Addr(x)' = Addr(x))
    BY <1>15 DEF CInv, Shape, Keeps, Addr, Keepers, Carrying, Begin, Finish, Goto, args, ReserveRowPort
  <2> QED
    BY <2>1, <2>2, QuietIds
<1>16. ASSUME NEW t \in Threads, NEW c \in Clients, StartRelease(t, c) PROVE BInv'
  <2>1. UNCHANGED <<idIx, closed, made>> /\ nextId' \in {nextId, nextId + 1}
    BY <1>16 DEF index, trace, StartRelease
  <2>2. \A x \in Keepers, i \in Ids :
          (Keeps(x, i)' <=> Keeps(x, i)) /\ (Keeps(x, i) => Addr(x)' = Addr(x))
    BY <1>16 DEF CInv, Shape, Keeps, Addr, Keepers, Carrying, Begin, Finish, Goto, args, StartRelease
  <2> QED
    BY <2>1, <2>2, QuietIds
<1>17. ASSUME NEW t \in Threads, NEW c \in Clients, StartSweep(t, c) PROVE BInv'
  <2>1. UNCHANGED <<idIx, closed, made>> /\ nextId' \in {nextId, nextId + 1}
    BY <1>17 DEF index, trace, StartSweep
  <2>2. \A x \in Keepers, i \in Ids :
          (Keeps(x, i)' <=> Keeps(x, i)) /\ (Keeps(x, i) => Addr(x)' = Addr(x))
    BY <1>17 DEF CInv, Shape, Keeps, Addr, Keepers, Carrying, Begin, Finish, Goto, args, StartSweep
  <2> QED
    BY <2>1, <2>2, QuietIds
<1>18. ASSUME NEW t \in Threads, NEW c \in Clients, StartForce(t, c) PROVE BInv'
  <2>1. UNCHANGED <<idIx, closed, made>> /\ nextId' \in {nextId, nextId + 1}
    BY <1>18 DEF index, trace, StartForce
  <2>2. \A x \in Keepers, i \in Ids :
          (Keeps(x, i)' <=> Keeps(x, i)) /\ (Keeps(x, i) => Addr(x)' = Addr(x))
    BY <1>18 DEF CInv, Shape, Keeps, Addr, Keepers, Carrying, Begin, Finish, Goto, args, StartForce
  <2> QED
    BY <2>1, <2>2, QuietIds
<1>19. ASSUME NEW t \in Threads, SweepRecheck(t) PROVE BInv'
  <2>1. UNCHANGED <<idIx, closed, made>> /\ nextId' \in {nextId, nextId + 1}
    BY <1>19 DEF index, trace, SweepRecheck
  <2>2. \A x \in Keepers, i \in Ids :
          (Keeps(x, i)' <=> Keeps(x, i)) /\ (Keeps(x, i) => Addr(x)' = Addr(x))
    BY <1>19 DEF CInv, Shape, Keeps, Addr, Keepers, Carrying, Begin, Finish, Goto, args, SweepRecheck
  <2> QED
    BY <2>1, <2>2, QuietIds
<1>20. ASSUME NEW t \in Threads, RmTake(t) PROVE BInv'
  <2> DEFINE x == client[t]
             i == alloc[x].id
  <2>1. x \in Clients /\ alloc[x] \in Allocations /\ alloc[x] # None /\ i \in Ids
    BY <1>20, AllocationFields DEF CInv, StepsOK, StepOK, TInv, Placed, RmTake
  <2>2. /\ alloc' = [alloc EXCEPT ![x] = None] /\ hand' = [hand EXCEPT ![t] = alloc[x]]
        /\ pc' = [pc EXCEPT ![t] = "rmCounters"] /\ pc[t] \notin Carrying
        /\ UNCHANGED <<client, idIx, closed, made, nextId>>
    BY <1>20 DEF Goto, index, trace, args, Carrying, RmTake
  <2>3. x \notin Threads /\ t \notin Clients
    BY <2>1, StoreAssumption
  <2>4. Keeps(x, i) /\ \A j \in Ids : ~Keeps(t, j)
    BY <2>1, <2>2, <2>3 DEF Keeps
  <2>5. idIx[i] = x
    BY <2>1, <2>4 DEF BInv, IdIndexed, Keepers, Addr
  <2>6. idIx' = [idIx EXCEPT ![i] = Addr(t)'] /\ Addr(t)' \in Clients
    BY <2>1, <2>2, <2>3, <2>5 DEF Addr, TInv, Tables
  <2>7. \A z \in Keepers, j \in Ids :
          /\ Keeps(z, j)' <=> (z = t /\ j = i) \/ (z # x /\ Keeps(z, j))
          /\ Keeps(z, j) /\ z # x => Addr(z)' = Addr(z)
    BY <2>1, <2>2, <2>3 DEF CInv, Shape, Keeps, Keepers, Addr, Carrying
  <2> HIDE DEF x, i
  <2>8. x \in Keepers /\ t \in Keepers /\ x # t
    BY <2>1, <2>3 DEF Keepers
  <2> QED
    BY <2>1, <2>2, <2>4, <2>6, <2>7, <2>8, MovesIds
<1>21. ASSUME NEW t \in Threads, RmNothing(t) PROVE BInv'
  <2>1. UNCHANGED <<idIx, closed, made>> /\ nextId' \in {nextId, nextId + 1}
    BY <1>21 DEF index, trace, RmNothing
  <2>2. \A x \in Keepers, i \in Ids :
          (Keeps(x, i)' <=> Keeps(x, i)) /\ (Keeps(x, i) => Addr(x)' = Addr(x))
    BY <1>21 DEF CInv, Shape, Keeps, Addr, Keepers, Carrying, Begin, Finish, Goto, args, RmNothing
  <2> QED
    BY <2>1, <2>2, QuietIds
<1>22. ASSUME NEW t \in Threads, RmIndex(t) PROVE BInv'
  <2> DEFINE i == hand[t].id
  <2>1. hand[t] \in Allocations /\ i \in Ids /\ pc[t] \in Carrying
    BY <1>22, AllocationFields DEF TInv, PlacesOK, PlaceOK, Carrying, RmIndex
  <2>2. /\ pc' = [pc EXCEPT ![t] = "rmPort"] /\ UNCHANGED <<alloc, hand, client, made, nextId>>
        /\ idIx' = [idIx EXCEPT ![i] = None] /\ closed' = [closed EXCEPT ![i] = @ + 1]
    BY <1>22 DEF RmIndex, Goto, args
  <2>3. t \notin Clients /\ t \in Keepers
    BY StoreAssumption DEF Keepers
  <2>4. Keeps(t, i)
    BY <2>1 DEF Keeps
  <2>5. \A z \in Keepers, j \in Ids :
          /\ Keeps(z, j)' <=> z # t /\ Keeps(z, j)
          /\ Keeps(z, j) => Addr(z)' = Addr(z)
    BY <2>1, <2>2, <2>3 DEF CInv, Shape, Keeps, Addr, Carrying
  <2> HIDE DEF i
  <2> QED
    BY <2>1, <2>2, <2>3, <2>4, <2>5, ClosesIds
<1>23. ASSUME NEW t \in Threads, RmPort(t) PROVE BInv'
  <2>1. UNCHANGED <<idIx, closed, made>> /\ nextId' \in {nextId, nextId + 1}
    BY <1>23 DEF index, trace, RmPort
  <2>2. \A x \in Keepers, i \in Ids :
          (Keeps(x, i)' <=> Keeps(x, i)) /\ (Keeps(x, i) => Addr(x)' = Addr(x))
    BY <1>23 DEF CInv, Shape, Keeps, Addr, Keepers, Carrying, Begin, Finish, Goto, args, RmPort
  <2> QED
    BY <2>1, <2>2, QuietIds
<1>24. ASSUME NEW t \in Threads, RmDone(t) PROVE BInv'
  <2>1. UNCHANGED <<idIx, closed, made>> /\ nextId' \in {nextId, nextId + 1}
    BY <1>24 DEF index, trace, RmDone
  <2>2. \A x \in Keepers, i \in Ids :
          (Keeps(x, i)' <=> Keeps(x, i)) /\ (Keeps(x, i) => Addr(x)' = Addr(x))
    BY <1>24 DEF CInv, Shape, Keeps, Addr, Keepers, Carrying, Begin, Finish, Goto, args, RmDone
  <2> QED
    BY <2>1, <2>2, QuietIds
<1>25. ASSUME NEW t \in Threads, NEW c \in Clients, NEW k \in tickets, StartMigrate(t, c, k) PROVE BInv'
  <2>1. UNCHANGED <<idIx, closed, made>> /\ nextId' \in {nextId, nextId + 1}
    BY <1>25 DEF index, trace, StartMigrate
  <2>2. \A x \in Keepers, i \in Ids :
          (Keeps(x, i)' <=> Keeps(x, i)) /\ (Keeps(x, i) => Addr(x)' = Addr(x))
    BY <1>25 DEF CInv, Shape, Keeps, Addr, Keepers, Carrying, Begin, Finish, Goto, args, StartMigrate
  <2> QED
    BY <2>1, <2>2, QuietIds
<1>26. ASSUME NEW t \in Threads, CheckEpoch(t) PROVE BInv'
  <2>1. UNCHANGED <<idIx, closed, made>> /\ nextId' \in {nextId, nextId + 1}
    BY <1>26 DEF index, trace, CheckEpoch
  <2>2. \A x \in Keepers, i \in Ids :
          (Keeps(x, i)' <=> Keeps(x, i)) /\ (Keeps(x, i) => Addr(x)' = Addr(x))
    BY <1>26 DEF CInv, Shape, Keeps, Addr, Keepers, Carrying, Begin, Finish, Goto, args, CheckEpoch
  <2> QED
    BY <2>1, <2>2, QuietIds
<1>27. ASSUME NEW t \in Threads, NEW o \in Clients, NEW n \in Clients, StartQuic(t, o, n) PROVE BInv'
  <2>1. UNCHANGED <<idIx, closed, made>> /\ nextId' \in {nextId, nextId + 1}
    BY <1>27 DEF index, trace, StartQuic
  <2>2. \A x \in Keepers, i \in Ids :
          (Keeps(x, i)' <=> Keeps(x, i)) /\ (Keeps(x, i) => Addr(x)' = Addr(x))
    BY <1>27 DEF CInv, Shape, Keeps, Addr, Keepers, Carrying, Begin, Finish, Goto, args, StartQuic
  <2> QED
    BY <2>1, <2>2, QuietIds
<1>28. ASSUME NEW t \in Threads, RkNothing(t) PROVE BInv'
  <2>1. UNCHANGED <<idIx, closed, made>> /\ nextId' \in {nextId, nextId + 1}
    BY <1>28 DEF index, trace, RkNothing
  <2>2. \A x \in Keepers, i \in Ids :
          (Keeps(x, i)' <=> Keeps(x, i)) /\ (Keeps(x, i) => Addr(x)' = Addr(x))
    BY <1>28 DEF CInv, Shape, Keeps, Addr, Keepers, Carrying, Begin, Finish, Goto, args, RkNothing
  <2> QED
    BY <2>1, <2>2, QuietIds
<1>29. ASSUME NEW t \in Threads, RkTake(t) PROVE BInv'
  <2> DEFINE x == client[t]
             i == alloc[x].id
  <2>1. x \in Clients /\ alloc[x] \in Allocations /\ alloc[x] # None /\ i \in Ids
    BY <1>29, AllocationFields DEF CInv, StepsOK, StepOK, TInv, Placed, RkTake
  <2>2. /\ alloc' = [alloc EXCEPT ![x] = None] /\ hand' = [hand EXCEPT ![t] = alloc[x]]
        /\ pc' = [pc EXCEPT ![t] = "rkClaim"] /\ pc[t] \notin Carrying
        /\ UNCHANGED <<client, idIx, closed, made, nextId>>
    BY <1>29 DEF Goto, index, trace, args, Carrying, RkTake
  <2>3. x \notin Threads /\ t \notin Clients
    BY <2>1, StoreAssumption
  <2>4. Keeps(x, i) /\ \A j \in Ids : ~Keeps(t, j)
    BY <2>1, <2>2, <2>3 DEF Keeps
  <2>5. idIx[i] = x
    BY <2>1, <2>4 DEF BInv, IdIndexed, Keepers, Addr
  <2>6. idIx' = [idIx EXCEPT ![i] = Addr(t)'] /\ Addr(t)' \in Clients
    BY <2>1, <2>2, <2>3, <2>5 DEF Addr, TInv, Tables
  <2>7. \A z \in Keepers, j \in Ids :
          /\ Keeps(z, j)' <=> (z = t /\ j = i) \/ (z # x /\ Keeps(z, j))
          /\ Keeps(z, j) /\ z # x => Addr(z)' = Addr(z)
    BY <2>1, <2>2, <2>3 DEF CInv, Shape, Keeps, Keepers, Addr, Carrying
  <2> HIDE DEF x, i
  <2>8. x \in Keepers /\ t \in Keepers /\ x # t
    BY <2>1, <2>3 DEF Keepers
  <2> QED
    BY <2>1, <2>2, <2>4, <2>6, <2>7, <2>8, MovesIds
<1>30. ASSUME NEW t \in Threads, RkClaim(t) PROVE BInv'
  <2>0. PICK y \in Clients : y = target[t]
    BY <1>30 DEF CInv, StepsOK, StepOK, RkClaim
  <2> DEFINE i == hand[t].id
  <2> DEFINE e == hand[t].epoch + 1
             a == [hand[t] EXCEPT !.epoch = e]
  <2>1. /\ y \in Clients /\ hand[t] \in Allocations /\ i \in Ids
        /\ a # None /\ a.id = i
    <3>1. y \in Clients /\ hand[t] \in Allocations
      BY <1>30 DEF CInv, StepsOK, StepOK, TInv, PlacesOK, PlaceOK, Carrying, RkClaim
    <3>2. hand[t] \in Drafts /\ i \in Ids /\ e \in Nat
      BY <3>1, AllocationFields, StoreAssumption DEF Epochs
    <3> HIDE DEF e
    <3>3. a \in Drafts /\ a.id = i
      BY <3>2, DraftKeeps
    <3> QED
      BY <3>1, <3>2, <3>3, AllocationFields
  <2>2. /\ alloc' = [alloc EXCEPT ![y] = a] /\ hand' = [hand EXCEPT ![t] = None]
        /\ pc[t] \in Carrying /\ pc'[t] \notin Carrying /\ alloc[y] = None
        /\ \A z \in Threads \ {t} : pc'[z] = pc[z] /\ client'[z] = client[z]
        /\ UNCHANGED <<closed, made, nextId>> /\ idIx' = [idIx EXCEPT ![i] = y]
    BY <1>30, <2>0 DEF CInv, Shape, Goto, Finish, index, trace, args, Carrying, RkClaim
  <2>3. y \notin Threads /\ t \notin Clients
    BY <2>1, StoreAssumption
  <2>4. Keeps(t, i) /\ \A j \in Ids : ~Keeps(y, j)
    BY <2>1, <2>2, <2>3 DEF Keeps
  <2> HIDE DEF a
  <2>5. idIx' = [idIx EXCEPT ![i] = y]
    BY <2>2
  <2>6. \A z \in Keepers, j \in Ids :
          /\ Keeps(z, j)' <=> (z = y /\ j = i) \/ (z # t /\ Keeps(z, j))
          /\ Keeps(z, j) /\ z # t => Addr(z)' = Addr(z)
    BY <2>1, <2>2, <2>3 DEF CInv, Shape, Keeps, Keepers, Addr
  <2> HIDE DEF i
  <2>7. y \in Keepers /\ t \in Keepers /\ y # t
    BY <2>1, <2>3 DEF Keepers
  <2>8. Addr(y)' = y
    BY <2>1 DEF Addr
  <2>9. idIx' = [idIx EXCEPT ![i] = Addr(y)'] /\ Addr(y)' \in Clients
    BY <2>1, <2>5, <2>8
  <2>10. UNCHANGED <<closed, made, nextId>>
    BY <2>2
  <2> QED
    BY <2>1, <2>4, <2>6, <2>7, <2>9, <2>10, MovesIds
<1>31. ASSUME NEW t \in Threads, RkRefused(t) PROVE BInv'
  <2>1. UNCHANGED <<idIx, closed, made>> /\ nextId' \in {nextId, nextId + 1}
    BY <1>31 DEF index, trace, RkRefused
  <2>2. \A x \in Keepers, i \in Ids :
          (Keeps(x, i)' <=> Keeps(x, i)) /\ (Keeps(x, i) => Addr(x)' = Addr(x))
    BY <1>31 DEF CInv, Shape, Keeps, Addr, Keepers, Carrying, Begin, Finish, Goto, args, RkRefused
  <2> QED
    BY <2>1, <2>2, QuietIds
<1>32. ASSUME NEW t \in Threads, RkBack(t) PROVE BInv'
  <2>0. PICK y \in Clients : y = client[t]
    BY <1>32 DEF CInv, StepsOK, StepOK, RkBack
  <2> DEFINE i == hand[t].id
             a == hand[t]
  <2>1. y \in Clients /\ a \in Allocations /\ i \in Ids /\ a # None /\ a.id = i
    BY <1>32, AllocationFields DEF CInv, StepsOK, StepOK, TInv, PlacesOK, PlaceOK, Carrying, RkBack
  <2>2. /\ alloc' = [alloc EXCEPT ![y] = a] /\ hand' = [hand EXCEPT ![t] = None]
        /\ pc[t] \in Carrying /\ pc'[t] \notin Carrying /\ alloc[y] = None
        /\ \A z \in Threads \ {t} : pc'[z] = pc[z] /\ client'[z] = client[z]
        /\ UNCHANGED <<closed, made, nextId>> /\ idIx' = idIx
    BY <1>32, <2>0 DEF CInv, Shape, Goto, Finish, index, trace, args, Carrying, RkBack
  <2>3. y \notin Threads /\ t \notin Clients
    BY <2>1, StoreAssumption
  <2>4. Keeps(t, i) /\ \A j \in Ids : ~Keeps(y, j)
    BY <2>1, <2>2, <2>3 DEF Keeps
  <2> HIDE DEF a
  <2>5. idIx' = [idIx EXCEPT ![i] = y]
    <3>1. Addr(t) = y /\ t \in Keepers
      BY <2>0, <2>3 DEF Addr, Keepers
    <3>2. idIx[i] = y
      BY <2>1, <2>4, <3>1 DEF BInv, IdIndexed
    <3> QED
      BY <2>1, <2>2, <3>2 DEF TInv, Tables
  <2>6. \A z \in Keepers, j \in Ids :
          /\ Keeps(z, j)' <=> (z = y /\ j = i) \/ (z # t /\ Keeps(z, j))
          /\ Keeps(z, j) /\ z # t => Addr(z)' = Addr(z)
    BY <2>1, <2>2, <2>3 DEF CInv, Shape, Keeps, Keepers, Addr
  <2> HIDE DEF i
  <2>7. y \in Keepers /\ t \in Keepers /\ y # t
    BY <2>1, <2>3 DEF Keepers
  <2>8. Addr(y)' = y
    BY <2>1 DEF Addr
  <2>9. idIx' = [idIx EXCEPT ![i] = Addr(y)'] /\ Addr(y)' \in Clients
    BY <2>1, <2>5, <2>8
  <2>10. UNCHANGED <<closed, made, nextId>>
    BY <2>2
  <2> QED
    BY <2>1, <2>4, <2>6, <2>7, <2>9, <2>10, MovesIds
<1>33. ASSUME NEW t \in Threads, RkOrphan(t) PROVE BInv'
  <2>1. UNCHANGED <<idIx, closed, made>> /\ nextId' \in {nextId, nextId + 1}
    BY <1>33 DEF index, trace, RkOrphan
  <2>2. \A x \in Keepers, i \in Ids :
          (Keeps(x, i)' <=> Keeps(x, i)) /\ (Keeps(x, i) => Addr(x)' = Addr(x))
    BY <1>33 DEF CInv, Shape, Keeps, Addr, Keepers, Carrying, Begin, Finish, Goto, args, RkOrphan
  <2> QED
    BY <2>1, <2>2, QuietIds
<1>34. ASSUME NEW t \in Threads, MigrateRefresh(t) PROVE BInv'
  <2> DEFINE n == target[t]
             a == [alloc[n] EXCEPT !.expired = FALSE]
  <2>1. UNCHANGED <<idIx, closed, made, nextId, hand>> /\ n \in Clients
        /\ \/ alloc' = alloc
           \/ alloc[n] # None /\ alloc' = [alloc EXCEPT ![n] = a]
    BY <1>34 DEF CInv, StepsOK, StepOK, index, trace, MigrateRefresh
  <2>2. pc[t] = "mgRefresh" /\ pc'[t] \in {"mgTicket", "rmTake", "rmDone"}
        /\ \A x \in Threads \ {t} : pc'[x] = pc[x] /\ client'[x] = client[x]
    BY <1>34 DEF CInv, Shape, MigrateRefresh, Goto
  <2>3. alloc[n] # None => a # None /\ a.id = alloc[n].id
    BY <2>1, AllocationUpdate, AllocationFields DEF TInv, Placed
  <2> HIDE DEF a, n
  <2>4. \A x \in Keepers, i \in Ids :
          (Keeps(x, i)' <=> Keeps(x, i)) /\ (Keeps(x, i) => Addr(x)' = Addr(x))
    <3>1. \A x \in Clients : /\ alloc'[x] = None <=> alloc[x] = None
                             /\ alloc[x] # None => alloc'[x].id = alloc[x].id
      BY <2>1, <2>3 DEF CInv, Shape
    <3> QED
      BY <2>1, <2>2, <3>1 DEF Keeps, Addr, Keepers, Carrying
  <2> QED
    BY <2>1, <2>4, QuietIds
<1>35. ASSUME NEW t \in Threads, MigrateTicket(t) PROVE BInv'
  <2>1. UNCHANGED <<idIx, closed, made>> /\ nextId' \in {nextId, nextId + 1}
    BY <1>35 DEF index, trace, MigrateTicket
  <2>2. \A x \in Keepers, i \in Ids :
          (Keeps(x, i)' <=> Keeps(x, i)) /\ (Keeps(x, i) => Addr(x)' = Addr(x))
    BY <1>35 DEF CInv, Shape, Keeps, Addr, Keepers, Carrying, Begin, Finish, Goto, args, MigrateTicket
  <2> QED
    BY <2>1, <2>2, QuietIds
<1> QED
  BY <1>1, <1>2, <1>3, <1>4, <1>5, <1>6, <1>7, <1>8, <1>9, <1>10, <1>11, <1>12, <1>13, <1>14, <1>15, <1>16, <1>17, <1>18, <1>19, <1>20, <1>21, <1>22, <1>23, <1>24, <1>25, <1>26, <1>27, <1>28, <1>29, <1>30, <1>31, <1>32, <1>33, <1>34, <1>35 DEF Next

\* Initially no id is given.
LEMMA BInit == Init => Nameless /\ BInv
<1> SUFFICES ASSUME Init PROVE Nameless /\ BInv
  OBVIOUS
<1>1. \A x, i : ~Keeps(x, i)
  BY DEF Init, Keeps, Carrying
<1>2. Nameless
  BY DEF Init, Nameless
<1>3. Named /\ OnePlace
  BY <1>1 DEF Init, Named, OnePlace
<1>4. Billed
  BY DEF Init, Billed
<1>5. IdIndexed
  BY <1>1, StoreAssumption DEF Init, IdIndexed
<1> QED
  BY <1>2, <1>3, <1>4, <1>5 DEF BInv

\* Every step keeps the invariant of the ids.
LEMMA BNext ==
    ASSUME Minted
    PROVE  CInv /\ TInv /\ Nameless /\ BInv /\ [Next]_vars => Nameless' /\ BInv'
<1> SUFFICES ASSUME CInv, TInv, Nameless, BInv, [Next]_vars PROVE Nameless' /\ BInv'
  OBVIOUS
<1>1. CASE Next
  BY <1>1, NamelessNext, IdsNext
<1>2. CASE UNCHANGED vars
  BY <1>2 DEF vars, args, index, trace, Nameless, BInv, Named, OnePlace, Billed, IdIndexed,
              Keeps, Addr
<1> QED
  BY <1>1, <1>2

\* The invariant of the ids holds in every reachable state.
LEMMA StoreIds ==
    ASSUME Minted
    PROVE  Spec => [](CInv /\ TInv /\ Nameless /\ BInv)
  BY StoreTyped, BInit, BNext, PTL DEF Spec

\* An id with one place, or billed, has BilledOnce.
LEMMA PlacesCounted == CInv /\ TInv /\ BInv => BilledOnce
<1> SUFFICES ASSUME CInv, TInv, BInv, NEW i \in made
             PROVE  Cardinality(Places(i)) + closed[i] = 1
  BY DEF BilledOnce
<1>1. i \in Ids /\ Places(i) = {x \in Keepers : Keeps(x, i)}
  BY StoreAssumption DEF TInv, Tables, Places, Keeps, Keepers, Carrying
<1>2. CASE \E x \in Keepers : Keeps(x, i)
  <2>1. PICK x \in Keepers : Keeps(x, i)
    BY <1>2
  <2>2. Places(i) = {x}
    BY <1>1, <2>1 DEF BInv, OnePlace
  <2>3. closed[i] = 0
    BY <1>2 DEF BInv, Billed
  <2> QED
    BY <2>2, <2>3, FS_Singleton
<1>3. CASE ~\E x \in Keepers : Keeps(x, i)
  <2>1. Places(i) = {}
    BY <1>1, <1>3
  <2> QED
    BY <1>3, <2>1, FS_EmptySet DEF BInv, Billed
<1> QED
  BY <1>2, <1>3

\* The invariant of the ids implies IdIndexExact.
LEMMA IndexNames == CInv /\ TInv /\ BInv => IdIndexExact
<1> SUFFICES ASSUME CInv, TInv, BInv, NEW i \in Ids, NEW c \in Clients
             PROVE  idIx[i] = c <=> \/ alloc[c] # None /\ alloc[c].id = i
                                    \/ \E t \in Threads : /\ pc[t] \in Carrying
                                                          /\ hand[t].id = i /\ client[t] = c
  BY DEF IdIndexExact, Carrying
<1>1. idIx[i] = c <=> \E x \in Keepers : Keeps(x, i) /\ Addr(x) = c
  BY DEF BInv, IdIndexed
<1> QED
  BY <1>1, StoreAssumption DEF Keepers, Keeps, Addr

\* Removals, sweeps, migrations and their rollbacks race on an allocation: it stays in
\* one place, and its usage Stop record is cut once, when it has left the store
\* (remove, force_remove, re_key).
THEOREM StoreBillsOnce ==
    ASSUME Minted
    PROVE  Spec => []BilledOnce
  BY StoreIds, PlacesCounted, PTL

\* id_to_client names the client of every live id, the old one while re_key or a
\* removal has the allocation in hand, and nothing else.
THEOREM StoreIdsIndexed ==
    ASSUME Minted
    PROVE  Spec => []IdIndexExact
  BY StoreIds, IndexNames, PTL

----------------------------------------------------------------------------
(* Whose a port is.  A release, a sweep and a migration's release pass     *)
(* remove a relay address that they read before it takes the allocation; a *)
(* port is lost or given away only if another allocation took the client's *)
(* slot in between.                                                        *)

\* A removal finds, if anything, an allocation on the relay address it was called with.
TakesAsRead ==
    \A t \in Threads : pc[t] = "rmTake" /\ op[t] # "force" /\ alloc[client[t]] # None
                          => alloc[client[t]].port = rport[t]

\* x, a client or a thread, owns port p: rehydrate does so from its reserve of the
\* port to its release.
Owns(x, p) ==
    \/ x \in Clients /\ alloc[x] # None /\ alloc[x].port = p
    \/ /\ x \in Threads /\ hand[x] # None /\ hand[x].port = p
       /\ ~(op[x] = "rehydrate" /\ pc[x] \in {"reserve", "rowPort", "undo"})

\* x has an allocation with port p that relay_to_client knows.
Serves(x, p) ==
    \/ x \in Clients /\ alloc[x] # None /\ alloc[x].port = p
    \/ x \in Threads /\ pc[x] \in Carrying /\ hand[x].port = p

\* Every removal names the port of what it took.
OwnPort(t) ==
    /\ pc[t] = "port" => hand[t].port = None
    /\ pc[t] \in Carrying \cup {"recheck", "rmTake", "rmPort"} => op[t] # "rehydrate"
    /\ pc[t] \in {"rmCounters", "rmPort"} => rport[t] = hand[t].port

OwnPorts == \A t \in Threads : OwnPort(t)

OneOwner == \A x, y \in Keepers, p \in Ports : Owns(x, p) /\ Owns(y, p) => x = y

UsedOwned == \A p \in Ports : p \in used <=> \E x \in Keepers : Owns(x, p)

Relayed ==
    \A p \in Ports, c \in Clients :
        relayIx[p] = c <=> \E x \in Keepers : Serves(x, p) /\ Addr(x) = c

PInv == OneOwner /\ UsedOwned /\ Relayed

\* An allocation that is served has an owner, a client or thread has one port.
LEMMA OwnsOne ==
    ASSUME CInv, TInv, OwnPorts
    PROVE  /\ \A x \in Keepers, p \in Ports : Serves(x, p) => Owns(x, p)
           /\ \A x \in Keepers, p, q \in Ports : Owns(x, p) /\ Owns(x, q) => p = q
<1>1. \A t \in Threads : pc[t] \in Carrying => hand[t] # None /\ op[t] # "rehydrate"
  BY DEF TInv, PlacesOK, PlaceOK, OwnPorts, OwnPort
<1>2. \A x \in Keepers, p \in Ports : Serves(x, p) => Owns(x, p)
  BY <1>1 DEF Serves, Owns
<1>3. \A x \in Keepers, p, q \in Ports : Owns(x, p) /\ Owns(x, q) => p = q
  BY StoreAssumption DEF Owns, Keepers
<1> QED
  BY <1>2, <1>3

\* No port changes hands.
LEMMA QuietPorts ==
    ASSUME CInv, TInv, PInv, UNCHANGED <<used, relayIx>>,
           \A x \in Keepers, p \in Ports : Owns(x, p)' <=> Owns(x, p),
           \A x \in Keepers, p \in Ports : Serves(x, p)' <=> Serves(x, p),
           \A x \in Keepers, p \in Ports : Serves(x, p) => Addr(x)' = Addr(x)
    PROVE  PInv'
<1>1. OneOwner'
  BY DEF PInv, OneOwner
<1>2. UsedOwned'
  BY DEF PInv, UsedOwned
<1>3. Relayed'
  BY DEF PInv, Relayed
<1> QED
  BY <1>1, <1>2, <1>3 DEF PInv

\* A thread takes the free port p from the pool.
LEMMA GetsPort ==
    ASSUME CInv, TInv, PInv, NEW t \in Keepers, NEW p \in Ports, p \notin used,
           used' = used \cup {p}, UNCHANGED relayIx, \A q \in Ports : ~Owns(t, q),
           \A x \in Keepers, q \in Ports : Owns(x, q)' <=> (x = t /\ q = p) \/ Owns(x, q),
           \A x \in Keepers, q \in Ports : Serves(x, q)' <=> Serves(x, q),
           \A x \in Keepers, q \in Ports : Serves(x, q) => Addr(x)' = Addr(x)
    PROVE  PInv'
<1>1. \A x \in Keepers : ~Owns(x, p)
  BY DEF PInv, UsedOwned
<1>2. OneOwner'
  BY <1>1 DEF PInv, OneOwner
<1>3. UsedOwned'
  BY DEF PInv, UsedOwned
<1>4. Relayed'
  BY DEF PInv, Relayed
<1> QED
  BY <1>2, <1>3, <1>4 DEF PInv

\* A thread gives the port p back to the pool; nothing was served on it.
LEMMA GivesPort ==
    ASSUME CInv, TInv, OwnPorts, PInv, NEW t \in Keepers, NEW p \in Ports, Owns(t, p),
           used' = used \ {p}, UNCHANGED relayIx,
           \A x \in Keepers, q \in Ports : Owns(x, q)' <=> x # t /\ Owns(x, q),
           \A x \in Keepers, q \in Ports : Serves(x, q)' <=> Serves(x, q),
           \A x \in Keepers, q \in Ports : Serves(x, q) => Addr(x)' = Addr(x)
    PROVE  PInv'
<1>1. \A x \in Keepers : Owns(x, p) => x = t
  BY DEF PInv, OneOwner
<1>2. \A q \in Ports : Owns(t, q) => q = p
  BY OwnsOne
<1>3. OneOwner'
  BY DEF PInv, OneOwner
<1>4. UsedOwned'
  BY <1>1, <1>2 DEF PInv, UsedOwned
<1>5. Relayed'
  BY DEF PInv, Relayed
<1> QED
  BY <1>3, <1>4, <1>5 DEF PInv

\* The allocation on port p goes from x to y, which the index names.
LEMMA MovesPort ==
    ASSUME CInv, TInv, OwnPorts, PInv, NEW x \in Keepers, NEW y \in Keepers, NEW p \in Ports,
           x # y, Owns(x, p), \A q \in Ports : ~Owns(y, q),
           UNCHANGED used, Addr(y)' \in Clients, relayIx' = [relayIx EXCEPT ![p] = Addr(y)'],
           \A z \in Keepers, q \in Ports :
              Owns(z, q)' <=> (z = y /\ q = p) \/ (z # x /\ Owns(z, q)),
           \A z \in Keepers, q \in Ports :
              Serves(z, q)' <=> (z = y /\ q = p) \/ (z # x /\ Serves(z, q)),
           \A z \in Keepers, q \in Ports : Serves(z, q) /\ z # x => Addr(z)' = Addr(z)
    PROVE  PInv'
<1>1. \A z \in Keepers : Owns(z, p) => z = x
  BY DEF PInv, OneOwner
<1>2. \A q \in Ports : Owns(x, q) => q = p
  BY OwnsOne
<1>3. \A z \in Keepers, q \in Ports : Serves(z, q) => Owns(z, q)
  BY OwnsOne
<1>4. OneOwner'
  BY <1>1, <1>2 DEF PInv, OneOwner
<1>5. UsedOwned'
  <2>1. \A q \in Ports : (\E z \in Keepers : Owns(z, q)') <=> \E z \in Keepers : Owns(z, q)
    BY <1>1, <1>2
  <2> QED
    BY <2>1 DEF PInv, UsedOwned
<1>6. ASSUME NEW q \in Ports, NEW c \in Clients
      PROVE  relayIx'[q] = c <=> \E z \in Keepers : Serves(z, q)' /\ Addr(z)' = c
  <2>1. CASE q = p
    <3>1. \A z \in Keepers : Serves(z, p)' <=> z = y
      BY <1>1, <1>3
    <3>2. relayIx'[p] = Addr(y)'
      BY DEF TInv, Tables
    <3> QED
      BY <2>1, <3>1, <3>2
  <2>2. CASE q # p
    <3>1. relayIx'[q] = relayIx[q]
      BY <2>2 DEF TInv, Tables
    <3>2. \A z \in Keepers : /\ Serves(z, q)' <=> Serves(z, q)
                             /\ Serves(z, q) => Addr(z)' = Addr(z)
      BY <1>2, <1>3, <2>2
    <3> QED
      BY <3>1, <3>2 DEF PInv, Relayed
  <2> QED
    BY <2>1, <2>2
<1>7. Relayed'
  BY <1>6 DEF Relayed
<1> QED
  BY <1>4, <1>5, <1>7 DEF PInv

\* The index forgets the port p, which its thread still owns.
LEMMA UnlinksPort ==
    ASSUME CInv, TInv, OwnPorts, PInv, NEW t \in Keepers, NEW p \in Ports, Owns(t, p),
           UNCHANGED used, relayIx' = [relayIx EXCEPT ![p] = None],
           \A x \in Keepers, q \in Ports : Owns(x, q)' <=> Owns(x, q),
           \A x \in Keepers, q \in Ports : Serves(x, q)' <=> x # t /\ Serves(x, q),
           \A x \in Keepers, q \in Ports : Serves(x, q) => Addr(x)' = Addr(x)
    PROVE  PInv'
<1>1. \A x \in Keepers : Serves(x, p) => x = t
  BY OwnsOne DEF PInv, OneOwner
<1>2. \A q \in Ports : Serves(t, q) => q = p
  BY OwnsOne
<1>3. OneOwner'
  BY DEF PInv, OneOwner
<1>4. UsedOwned'
  BY DEF PInv, UsedOwned
<1>5. ASSUME NEW q \in Ports, NEW c \in Clients
      PROVE  relayIx'[q] = c <=> \E z \in Keepers : Serves(z, q)' /\ Addr(z)' = c
  <2>1. CASE q = p
    <3>1. relayIx'[p] = None /\ c # None
      BY StoreAssumption DEF TInv, Tables
    <3> QED
      BY <1>1, <2>1, <3>1
  <2>2. CASE q # p
    <3>1. relayIx'[q] = relayIx[q] /\ \A z \in Keepers : Serves(z, q)' <=> Serves(z, q)
      BY <1>2, <2>2 DEF TInv, Tables
    <3> QED
      BY <3>1 DEF PInv, Relayed
  <2> QED
    BY <2>1, <2>2
<1>6. Relayed'
  BY <1>5 DEF Relayed
<1> QED
  BY <1>3, <1>4, <1>6 DEF PInv

\* Every removal names the port of the allocation it took.
LEMMA OwnPortsNext ==
    ASSUME TakesAsRead, CInv, TInv, OwnPorts, Next
    PROVE  OwnPorts'
<1>1. ASSUME NEW c \in Clients, Expire(c) PROVE OwnPorts'
  BY <1>1 DEF OwnPorts, OwnPort, args, Expire
<1>2. ASSUME NEW c \in Clients, Refresh(c) PROVE OwnPorts'
  BY <1>2 DEF OwnPorts, OwnPort, args, Refresh
<1>3. ASSUME NEW t \in Threads, NEW c \in Clients, NEW u \in Users, StartAllocate(t, c, u) PROVE OwnPorts'
  <2>1. OwnPort(t)'
    BY <1>3 DEF OwnPorts, OwnPort, CInv, Shape, TInv, Tables, Carrying, Begin, Finish, Goto, args, PlacesOK, PlaceOK, StartAllocate
  <2>2. \A x \in Threads \ {t} : OwnPort(x)'
    BY <1>3 DEF OwnPorts, OwnPort, CInv, Shape, TInv, Tables, Carrying, Begin, Finish, Goto, args, StartAllocate
  <2> QED
    BY <2>1, <2>2 DEF OwnPorts
<1>4. ASSUME NEW t \in Threads, TakePort(t) PROVE OwnPorts'
  <2>1. OwnPort(t)'
    BY <1>4 DEF OwnPorts, OwnPort, CInv, Shape, TInv, Tables, Carrying, Begin, Finish, Goto, args, PlacesOK, PlaceOK, TakePort
  <2>2. \A x \in Threads \ {t} : OwnPort(x)'
    BY <1>4 DEF OwnPorts, OwnPort, CInv, Shape, TInv, Tables, Carrying, Begin, Finish, Goto, args, TakePort
  <2> QED
    BY <2>1, <2>2 DEF OwnPorts
<1>5. ASSUME NEW t \in Threads, NoPort(t) PROVE OwnPorts'
  <2>1. OwnPort(t)'
    BY <1>5 DEF OwnPorts, OwnPort, CInv, Shape, TInv, Tables, Carrying, Begin, Finish, Goto, args, PlacesOK, PlaceOK, NoPort
  <2>2. \A x \in Threads \ {t} : OwnPort(x)'
    BY <1>5 DEF OwnPorts, OwnPort, CInv, Shape, TInv, Tables, Carrying, Begin, Finish, Goto, args, NoPort
  <2> QED
    BY <2>1, <2>2 DEF OwnPorts
<1>6. ASSUME NEW t \in Threads, Reserve(t) PROVE OwnPorts'
  <2>1. OwnPort(t)'
    BY <1>6 DEF OwnPorts, OwnPort, CInv, Shape, TInv, Tables, Carrying, Begin, Finish, Goto, args, PlacesOK, PlaceOK, Reserve
  <2>2. \A x \in Threads \ {t} : OwnPort(x)'
    BY <1>6 DEF OwnPorts, OwnPort, CInv, Shape, TInv, Tables, Carrying, Begin, Finish, Goto, args, Reserve
  <2> QED
    BY <2>1, <2>2 DEF OwnPorts
<1>7. ASSUME NEW t \in Threads, ReserveFails(t) PROVE OwnPorts'
  <2>1. OwnPort(t)'
    BY <1>7 DEF OwnPorts, OwnPort, CInv, Shape, TInv, Tables, Carrying, Begin, Finish, Goto, args, PlacesOK, PlaceOK, ReserveFails
  <2>2. \A x \in Threads \ {t} : OwnPort(x)'
    BY <1>7 DEF OwnPorts, OwnPort, CInv, Shape, TInv, Tables, Carrying, Begin, Finish, Goto, args, ReserveFails
  <2> QED
    BY <2>1, <2>2 DEF OwnPorts
<1>8. ASSUME NEW t \in Threads, ReleaseCounter(t) PROVE OwnPorts'
  <2>1. OwnPort(t)'
    BY <1>8 DEF OwnPorts, OwnPort, CInv, Shape, TInv, Tables, Carrying, Begin, Finish, Goto, args, PlacesOK, PlaceOK, ReleaseCounter
  <2>2. \A x \in Threads \ {t} : OwnPort(x)'
    BY <1>8 DEF OwnPorts, OwnPort, CInv, Shape, TInv, Tables, Carrying, Begin, Finish, Goto, args, ReleaseCounter
  <2> QED
    BY <2>1, <2>2 DEF OwnPorts
<1>9. ASSUME NEW t \in Threads, Undone(t) PROVE OwnPorts'
  <2>1. OwnPort(t)'
    BY <1>9 DEF OwnPorts, OwnPort, CInv, Shape, TInv, Tables, Carrying, Begin, Finish, Goto, args, PlacesOK, PlaceOK, Undone
  <2>2. \A x \in Threads \ {t} : OwnPort(x)'
    BY <1>9 DEF OwnPorts, OwnPort, CInv, Shape, TInv, Tables, Carrying, Begin, Finish, Goto, args, Undone
  <2> QED
    BY <2>1, <2>2 DEF OwnPorts
<1>10. ASSUME NEW t \in Threads, DropPort(t) PROVE OwnPorts'
  <2>1. OwnPort(t)'
    BY <1>10 DEF OwnPorts, OwnPort, CInv, Shape, TInv, Tables, Carrying, Begin, Finish, Goto, args, PlacesOK, PlaceOK, DropPort
  <2>2. \A x \in Threads \ {t} : OwnPort(x)'
    BY <1>10 DEF OwnPorts, OwnPort, CInv, Shape, TInv, Tables, Carrying, Begin, Finish, Goto, args, DropPort
  <2> QED
    BY <2>1, <2>2 DEF OwnPorts
<1>11. ASSUME NEW t \in Threads, Insert(t) PROVE OwnPorts'
  <2>1. OwnPort(t)'
    BY <1>11 DEF OwnPorts, OwnPort, CInv, Shape, TInv, Tables, Carrying, Begin, Finish, Goto, args, PlacesOK, PlaceOK, Insert
  <2>2. \A x \in Threads \ {t} : OwnPort(x)'
    BY <1>11 DEF OwnPorts, OwnPort, CInv, Shape, TInv, Tables, Carrying, Begin, Finish, Goto, args, Insert
  <2> QED
    BY <2>1, <2>2 DEF OwnPorts
<1>12. ASSUME NEW t \in Threads, InsertLost(t) PROVE OwnPorts'
  <2>1. OwnPort(t)'
    BY <1>12 DEF OwnPorts, OwnPort, CInv, Shape, TInv, Tables, Carrying, Begin, Finish, Goto, args, PlacesOK, PlaceOK, InsertLost
  <2>2. \A x \in Threads \ {t} : OwnPort(x)'
    BY <1>12 DEF OwnPorts, OwnPort, CInv, Shape, TInv, Tables, Carrying, Begin, Finish, Goto, args, InsertLost
  <2> QED
    BY <2>1, <2>2 DEF OwnPorts
<1>13. ASSUME NEW t \in Threads, Created(t) PROVE OwnPorts'
  <2>1. OwnPort(t)'
    BY <1>13 DEF OwnPorts, OwnPort, CInv, Shape, TInv, Tables, Carrying, Begin, Finish, Goto, args, PlacesOK, PlaceOK, Created
  <2>2. \A x \in Threads \ {t} : OwnPort(x)'
    BY <1>13 DEF OwnPorts, OwnPort, CInv, Shape, TInv, Tables, Carrying, Begin, Finish, Goto, args, Created
  <2> QED
    BY <2>1, <2>2 DEF OwnPorts
<1>14. ASSUME NEW t \in Threads, NEW r \in Rows, StartRehydrate(t, r) PROVE OwnPorts'
  <2>1. OwnPort(t)'
    BY <1>14 DEF OwnPorts, OwnPort, CInv, Shape, TInv, Tables, Carrying, Begin, Finish, Goto, args, PlacesOK, PlaceOK, StartRehydrate
  <2>2. \A x \in Threads \ {t} : OwnPort(x)'
    BY <1>14 DEF OwnPorts, OwnPort, CInv, Shape, TInv, Tables, Carrying, Begin, Finish, Goto, args, StartRehydrate
  <2> QED
    BY <2>1, <2>2 DEF OwnPorts
<1>15. ASSUME NEW t \in Threads, ReserveRowPort(t) PROVE OwnPorts'
  <2>1. OwnPort(t)'
    BY <1>15 DEF OwnPorts, OwnPort, CInv, Shape, TInv, Tables, Carrying, Begin, Finish, Goto, args, PlacesOK, PlaceOK, ReserveRowPort
  <2>2. \A x \in Threads \ {t} : OwnPort(x)'
    BY <1>15 DEF OwnPorts, OwnPort, CInv, Shape, TInv, Tables, Carrying, Begin, Finish, Goto, args, ReserveRowPort
  <2> QED
    BY <2>1, <2>2 DEF OwnPorts
<1>16. ASSUME NEW t \in Threads, NEW c \in Clients, StartRelease(t, c) PROVE OwnPorts'
  <2>1. OwnPort(t)'
    BY <1>16 DEF OwnPorts, OwnPort, CInv, Shape, TInv, Tables, Carrying, Begin, Finish, Goto,
               args, PlacesOK, PlaceOK, StartRelease
  <2>2. \A x \in Threads \ {t} : OwnPort(x)'
    BY <1>16 DEF OwnPorts, OwnPort, CInv, Shape, TInv, Tables, Carrying, Begin, Finish, Goto,
               args, StartRelease
  <2> QED
    BY <2>1, <2>2 DEF OwnPorts
<1>17. ASSUME NEW t \in Threads, NEW c \in Clients, StartSweep(t, c) PROVE OwnPorts'
  <2>1. OwnPort(t)'
    BY <1>17 DEF OwnPorts, OwnPort, CInv, Shape, TInv, Tables, Carrying, Begin, Finish, Goto,
               args, PlacesOK, PlaceOK, StartSweep
  <2>2. \A x \in Threads \ {t} : OwnPort(x)'
    BY <1>17 DEF OwnPorts, OwnPort, CInv, Shape, TInv, Tables, Carrying, Begin, Finish, Goto,
               args, StartSweep
  <2> QED
    BY <2>1, <2>2 DEF OwnPorts
<1>18. ASSUME NEW t \in Threads, NEW c \in Clients, StartForce(t, c) PROVE OwnPorts'
  <2>1. OwnPort(t)'
    BY <1>18 DEF OwnPorts, OwnPort, CInv, Shape, TInv, Tables, Carrying, Begin, Finish, Goto, args, PlacesOK, PlaceOK, StartForce
  <2>2. \A x \in Threads \ {t} : OwnPort(x)'
    BY <1>18 DEF OwnPorts, OwnPort, CInv, Shape, TInv, Tables, Carrying, Begin, Finish, Goto, args, StartForce
  <2> QED
    BY <2>1, <2>2 DEF OwnPorts
<1>19. ASSUME NEW t \in Threads, SweepRecheck(t) PROVE OwnPorts'
  <2>1. OwnPort(t)'
    BY <1>19 DEF OwnPorts, OwnPort, CInv, Shape, TInv, Tables, Carrying, Begin, Finish, Goto,
               args, PlacesOK, PlaceOK, SweepRecheck
  <2>2. \A x \in Threads \ {t} : OwnPort(x)'
    BY <1>19 DEF OwnPorts, OwnPort, CInv, Shape, TInv, Tables, Carrying, Begin, Finish, Goto,
               args, SweepRecheck
  <2> QED
    BY <2>1, <2>2 DEF OwnPorts
<1>20. ASSUME NEW t \in Threads, RmTake(t) PROVE OwnPorts'
  <2>1. OwnPort(t)'
    <3>1. /\ alloc[client[t]] # None /\ pc[t] = "rmTake" /\ pc'[t] = "rmCounters"
          /\ hand'[t] = alloc[client[t]] /\ op' = op
          /\ rport'[t] = IF op[t] = "force" THEN alloc[client[t]].port ELSE rport[t]
      BY <1>20 DEF CInv, Shape, TInv, Tables, Goto, RmTake
    <3>2. rport'[t] = hand'[t].port
      BY <3>1 DEF TakesAsRead
    <3> QED
      BY <3>1, <3>2 DEF OwnPorts, OwnPort, Carrying
  <2>2. \A x \in Threads \ {t} : OwnPort(x)'
    BY <1>20 DEF OwnPorts, OwnPort, CInv, Shape, TInv, Tables, Carrying, Begin, Finish, Goto, args, RmTake
  <2> QED
    BY <2>1, <2>2 DEF OwnPorts
<1>21. ASSUME NEW t \in Threads, RmNothing(t) PROVE OwnPorts'
  <2>1. OwnPort(t)'
    BY <1>21 DEF OwnPorts, OwnPort, CInv, Shape, TInv, Tables, Carrying, Begin, Finish, Goto, args, PlacesOK, PlaceOK, RmNothing
  <2>2. \A x \in Threads \ {t} : OwnPort(x)'
    BY <1>21 DEF OwnPorts, OwnPort, CInv, Shape, TInv, Tables, Carrying, Begin, Finish, Goto, args, RmNothing
  <2> QED
    BY <2>1, <2>2 DEF OwnPorts
<1>22. ASSUME NEW t \in Threads, RmIndex(t) PROVE OwnPorts'
  <2>1. OwnPort(t)'
    BY <1>22 DEF OwnPorts, OwnPort, CInv, Shape, TInv, Tables, Carrying, Begin, Finish, Goto, args, PlacesOK, PlaceOK, RmIndex
  <2>2. \A x \in Threads \ {t} : OwnPort(x)'
    BY <1>22 DEF OwnPorts, OwnPort, CInv, Shape, TInv, Tables, Carrying, Begin, Finish, Goto, args, RmIndex
  <2> QED
    BY <2>1, <2>2 DEF OwnPorts
<1>23. ASSUME NEW t \in Threads, RmPort(t) PROVE OwnPorts'
  <2>1. OwnPort(t)'
    BY <1>23 DEF OwnPorts, OwnPort, CInv, Shape, TInv, Tables, Carrying, Begin, Finish, Goto, args, PlacesOK, PlaceOK, RmPort
  <2>2. \A x \in Threads \ {t} : OwnPort(x)'
    BY <1>23 DEF OwnPorts, OwnPort, CInv, Shape, TInv, Tables, Carrying, Begin, Finish, Goto, args, RmPort
  <2> QED
    BY <2>1, <2>2 DEF OwnPorts
<1>24. ASSUME NEW t \in Threads, RmDone(t) PROVE OwnPorts'
  <2>1. OwnPort(t)'
    BY <1>24 DEF OwnPorts, OwnPort, CInv, Shape, TInv, Tables, Carrying, Begin, Finish, Goto, args, PlacesOK, PlaceOK, RmDone
  <2>2. \A x \in Threads \ {t} : OwnPort(x)'
    BY <1>24 DEF OwnPorts, OwnPort, CInv, Shape, TInv, Tables, Carrying, Begin, Finish, Goto, args, RmDone
  <2> QED
    BY <2>1, <2>2 DEF OwnPorts
<1>25. ASSUME NEW t \in Threads, NEW c \in Clients, NEW k \in tickets, StartMigrate(t, c, k) PROVE OwnPorts'
  <2>1. OwnPort(t)'
    BY <1>25 DEF OwnPorts, OwnPort, CInv, Shape, TInv, Tables, Carrying, Begin, Finish, Goto,
               args, PlacesOK, PlaceOK, StartMigrate
  <2>2. \A x \in Threads \ {t} : OwnPort(x)'
    BY <1>25 DEF OwnPorts, OwnPort, CInv, Shape, TInv, Tables, Carrying, Begin, Finish, Goto,
               args, StartMigrate
  <2> QED
    BY <2>1, <2>2 DEF OwnPorts
<1>26. ASSUME NEW t \in Threads, CheckEpoch(t) PROVE OwnPorts'
  <2>1. OwnPort(t)'
    BY <1>26 DEF OwnPorts, OwnPort, CInv, Shape, TInv, Tables, Carrying, Begin, Finish, Goto,
               args, PlacesOK, PlaceOK, CheckEpoch
  <2>2. \A x \in Threads \ {t} : OwnPort(x)'
    BY <1>26 DEF OwnPorts, OwnPort, CInv, Shape, TInv, Tables, Carrying, Begin, Finish, Goto,
               args, CheckEpoch
  <2> QED
    BY <2>1, <2>2 DEF OwnPorts
<1>27. ASSUME NEW t \in Threads, NEW o \in Clients, NEW n \in Clients, StartQuic(t, o, n) PROVE OwnPorts'
  <2>1. OwnPort(t)'
    BY <1>27 DEF OwnPorts, OwnPort, CInv, Shape, TInv, Tables, Carrying, Begin, Finish, Goto, args, PlacesOK, PlaceOK, StartQuic
  <2>2. \A x \in Threads \ {t} : OwnPort(x)'
    BY <1>27 DEF OwnPorts, OwnPort, CInv, Shape, TInv, Tables, Carrying, Begin, Finish, Goto, args, StartQuic
  <2> QED
    BY <2>1, <2>2 DEF OwnPorts
<1>28. ASSUME NEW t \in Threads, RkNothing(t) PROVE OwnPorts'
  <2>1. OwnPort(t)'
    BY <1>28 DEF OwnPorts, OwnPort, CInv, Shape, TInv, Tables, Carrying, Begin, Finish, Goto, args, PlacesOK, PlaceOK, RkNothing
  <2>2. \A x \in Threads \ {t} : OwnPort(x)'
    BY <1>28 DEF OwnPorts, OwnPort, CInv, Shape, TInv, Tables, Carrying, Begin, Finish, Goto, args, RkNothing
  <2> QED
    BY <2>1, <2>2 DEF OwnPorts
<1>29. ASSUME NEW t \in Threads, RkTake(t) PROVE OwnPorts'
  <2>1. OwnPort(t)'
    BY <1>29 DEF OwnPorts, OwnPort, CInv, Shape, TInv, Tables, Carrying, Begin, Finish, Goto, args, PlacesOK, PlaceOK, RkTake
  <2>2. \A x \in Threads \ {t} : OwnPort(x)'
    BY <1>29 DEF OwnPorts, OwnPort, CInv, Shape, TInv, Tables, Carrying, Begin, Finish, Goto, args, RkTake
  <2> QED
    BY <2>1, <2>2 DEF OwnPorts
<1>30. ASSUME NEW t \in Threads, RkClaim(t) PROVE OwnPorts'
  <2>1. OwnPort(t)'
    BY <1>30 DEF OwnPorts, OwnPort, CInv, Shape, TInv, Tables, Carrying, Begin, Finish, Goto, args, PlacesOK, PlaceOK, RkClaim
  <2>2. \A x \in Threads \ {t} : OwnPort(x)'
    BY <1>30 DEF OwnPorts, OwnPort, CInv, Shape, TInv, Tables, Carrying, Begin, Finish, Goto, args, RkClaim
  <2> QED
    BY <2>1, <2>2 DEF OwnPorts
<1>31. ASSUME NEW t \in Threads, RkRefused(t) PROVE OwnPorts'
  <2>1. OwnPort(t)'
    BY <1>31 DEF OwnPorts, OwnPort, CInv, Shape, TInv, Tables, Carrying, Begin, Finish, Goto, args, PlacesOK, PlaceOK, RkRefused
  <2>2. \A x \in Threads \ {t} : OwnPort(x)'
    BY <1>31 DEF OwnPorts, OwnPort, CInv, Shape, TInv, Tables, Carrying, Begin, Finish, Goto, args, RkRefused
  <2> QED
    BY <2>1, <2>2 DEF OwnPorts
<1>32. ASSUME NEW t \in Threads, RkBack(t) PROVE OwnPorts'
  <2>1. OwnPort(t)'
    BY <1>32 DEF OwnPorts, OwnPort, CInv, Shape, TInv, Tables, Carrying, Begin, Finish, Goto, args, PlacesOK, PlaceOK, RkBack
  <2>2. \A x \in Threads \ {t} : OwnPort(x)'
    BY <1>32 DEF OwnPorts, OwnPort, CInv, Shape, TInv, Tables, Carrying, Begin, Finish, Goto, args, RkBack
  <2> QED
    BY <2>1, <2>2 DEF OwnPorts
<1>33. ASSUME NEW t \in Threads, RkOrphan(t) PROVE OwnPorts'
  <2>1. OwnPort(t)'
    BY <1>33 DEF OwnPorts, OwnPort, CInv, Shape, TInv, Tables, Carrying, Begin, Finish, Goto, args, PlacesOK, PlaceOK, RkOrphan
  <2>2. \A x \in Threads \ {t} : OwnPort(x)'
    BY <1>33 DEF OwnPorts, OwnPort, CInv, Shape, TInv, Tables, Carrying, Begin, Finish, Goto, args, RkOrphan
  <2> QED
    BY <2>1, <2>2 DEF OwnPorts
<1>34. ASSUME NEW t \in Threads, MigrateRefresh(t) PROVE OwnPorts'
  <2>1. OwnPort(t)'
    BY <1>34 DEF OwnPorts, OwnPort, CInv, Shape, TInv, Tables, Carrying, Begin, Finish, Goto,
               args, PlacesOK, PlaceOK, MigrateRefresh
  <2>2. \A x \in Threads \ {t} : OwnPort(x)'
    BY <1>34 DEF OwnPorts, OwnPort, CInv, Shape, TInv, Tables, Carrying, Begin, Finish, Goto,
               args, MigrateRefresh
  <2> QED
    BY <2>1, <2>2 DEF OwnPorts
<1>35. ASSUME NEW t \in Threads, MigrateTicket(t) PROVE OwnPorts'
  <2>1. OwnPort(t)'
    BY <1>35 DEF OwnPorts, OwnPort, CInv, Shape, TInv, Tables, Carrying, Begin, Finish, Goto,
               args, PlacesOK, PlaceOK, MigrateTicket
  <2>2. \A x \in Threads \ {t} : OwnPort(x)'
    BY <1>35 DEF OwnPorts, OwnPort, CInv, Shape, TInv, Tables, Carrying, Begin, Finish, Goto,
               args, MigrateTicket
  <2> QED
    BY <2>1, <2>2 DEF OwnPorts
<1> QED
  BY <1>1, <1>2, <1>3, <1>4, <1>5, <1>6, <1>7, <1>8, <1>9, <1>10, <1>11, <1>12, <1>13, <1>14, <1>15, <1>16, <1>17, <1>18, <1>19, <1>20, <1>21, <1>22, <1>23, <1>24, <1>25, <1>26, <1>27, <1>28, <1>29, <1>30, <1>31, <1>32, <1>33, <1>34, <1>35 DEF Next

\* Every action leaves each used port with one owner and indexed at its client.
LEMMA PortsNext ==
    ASSUME TakesAsRead, CInv, TInv, OwnPorts, PInv, Next
    PROVE  PInv'
<1>1. ASSUME NEW c \in Clients, Expire(c) PROVE PInv'
  <2> DEFINE a == [alloc[c] EXCEPT !.expired = TRUE]
  <2>1. UNCHANGED <<used, relayIx, pc, op, hand, client>>
        /\ alloc[c] \in Allocations /\ alloc' = [alloc EXCEPT ![c] = a]
    BY <1>1 DEF TInv, Placed, index, args, Expire
  <2>2. a # None /\ alloc[c] # None /\ a.port = alloc[c].port
    BY <2>1, AllocationUpdate, AllocationFields
  <2> HIDE DEF a
  <2>3. \A x \in Keepers, p \in Ports :
          /\ Owns(x, p)' <=> Owns(x, p)
          /\ Serves(x, p)' <=> Serves(x, p)
          /\ Serves(x, p) => Addr(x)' = Addr(x)
    BY <2>1, <2>2 DEF CInv, Shape, Owns, Serves, Addr, Keepers
  <2> QED
    BY <2>1, <2>3, QuietPorts
<1>2. ASSUME NEW c \in Clients, Refresh(c) PROVE PInv'
  <2> DEFINE a == [alloc[c] EXCEPT !.expired = FALSE]
  <2>1. UNCHANGED <<used, relayIx, pc, op, hand, client>>
        /\ alloc[c] \in Allocations /\ alloc' = [alloc EXCEPT ![c] = a]
    BY <1>2 DEF TInv, Placed, index, args, Refresh
  <2>2. a # None /\ alloc[c] # None /\ a.port = alloc[c].port
    BY <2>1, AllocationUpdate, AllocationFields
  <2> HIDE DEF a
  <2>3. \A x \in Keepers, p \in Ports :
          /\ Owns(x, p)' <=> Owns(x, p)
          /\ Serves(x, p)' <=> Serves(x, p)
          /\ Serves(x, p) => Addr(x)' = Addr(x)
    BY <2>1, <2>2 DEF CInv, Shape, Owns, Serves, Addr, Keepers
  <2> QED
    BY <2>1, <2>3, QuietPorts
<1>3. ASSUME NEW t \in Threads, NEW c \in Clients, NEW u \in Users, StartAllocate(t, c, u) PROVE PInv'
  <2> DEFINE d == [id |-> 0, epoch |-> 0, port |-> None, user |-> u, expired |-> FALSE]
  <2>1. d.port \notin Ports
    BY StoreAssumption
  <2>2. /\ hand' = [hand EXCEPT ![t] = d] /\ pc' = [pc EXCEPT ![t] = "port"] /\ pc[t] = "idle"
        /\ UNCHANGED <<used, relayIx, alloc>>
        /\ \A x \in Threads \ {t} : op'[x] = op[x] /\ client'[x] = client[x]
    BY <1>3 DEF CInv, Shape, StartAllocate, Begin, Goto, index
  <2>3. hand[t] = None
    BY <2>2 DEF TInv, PlacesOK, PlaceOK, Drafting, Carrying
  <2> HIDE DEF d
  <2>4. \A x \in Keepers, p \in Ports :
          /\ Owns(x, p)' <=> Owns(x, p)
          /\ Serves(x, p)' <=> Serves(x, p)
          /\ Serves(x, p) => Addr(x)' = Addr(x)
    BY <2>1, <2>2, <2>3, StoreAssumption DEF CInv, Shape, Owns, Serves, Addr, Keepers, Carrying
  <2> QED
    BY <2>2, <2>4, QuietPorts
<1>4. ASSUME NEW t \in Threads, TakePort(t) PROVE PInv'
  <2>1. PICK p \in Ports \ used : used' = used \cup {p} /\ hand' = [hand EXCEPT ![t].port = p]
    BY <1>4 DEF TakePort
  <2> DEFINE d == [hand[t] EXCEPT !.port = p]
  <2>2. hand[t] \in Drafts /\ hand[t].port = None /\ op[t] = "allocate" /\ t \notin Clients
    BY <1>4, StoreAssumption DEF CInv, StepsOK, StepOK, OwnPorts, OwnPort, TInv, PlacesOK, PlaceOK,
                                TakePort
  <2>3. d # None /\ d.port = p
    BY <2>2, DraftKeeps, AllocationFields
  <2>4. /\ hand' = [hand EXCEPT ![t] = d] /\ pc' = [pc EXCEPT ![t] = "reserve"] /\ pc[t] = "port"
        /\ UNCHANGED <<relayIx, alloc, op, client>>
    BY <1>4, <2>1 DEF TakePort, Goto, index, args
  <2> HIDE DEF d
  <2>5. p \in Ports /\ t \in Keepers /\ hand[t].port \notin Ports
    BY <2>2, StoreAssumption DEF Keepers
  <2>6. \A x \in Keepers, q \in Ports : Owns(x, q)' <=> (x = t /\ q = p) \/ Owns(x, q)
    BY <2>2, <2>3, <2>4, <2>5 DEF CInv, Shape, Owns, Keepers
  <2>7. \A x \in Keepers, q \in Ports : Serves(x, q)' <=> Serves(x, q)
    BY <2>2, <2>4, <2>5 DEF CInv, Shape, Serves, Keepers, Carrying
  <2>8. \A x \in Keepers, q \in Ports : Serves(x, q) => Addr(x)' = Addr(x)
    BY <2>4 DEF Addr
  <2>9. \A q \in Ports : ~Owns(t, q)
    BY <2>2, <2>5 DEF Owns
  <2> QED
    BY <2>1, <2>4, <2>5, <2>6, <2>7, <2>8, <2>9, GetsPort
<1>5. ASSUME NEW t \in Threads, NoPort(t) PROVE PInv'
  <2>1. UNCHANGED <<used, relayIx, alloc>> /\ hand' = [hand EXCEPT ![t] = None]
        /\ pc' = [pc EXCEPT ![t] = "idle"] /\ pc[t] = "port"
        /\ \A x \in Threads \ {t} : op'[x] = op[x] /\ client'[x] = client[x]
    BY <1>5 DEF CInv, Shape, NoPort, Finish, Goto, index
  <2>2. hand[t].port \notin Ports
    BY <2>1, StoreAssumption DEF OwnPorts, OwnPort
  <2>3. \A x \in Keepers, p \in Ports :
          /\ Owns(x, p)' <=> Owns(x, p)
          /\ Serves(x, p)' <=> Serves(x, p)
          /\ Serves(x, p) => Addr(x)' = Addr(x)
    BY <2>1, <2>2, StoreAssumption DEF CInv, Shape, Owns, Serves, Addr, Keepers, Carrying
  <2> QED
    BY <2>1, <2>3, QuietPorts
<1>6. ASSUME NEW t \in Threads, Reserve(t) PROVE PInv'
  <2>1. UNCHANGED <<used, relayIx>>
    BY <1>6 DEF index, Reserve
  <2>2. \A x \in Keepers, p \in Ports :
          /\ Owns(x, p)' <=> Owns(x, p)
          /\ Serves(x, p)' <=> Serves(x, p)
          /\ Serves(x, p) => Addr(x)' = Addr(x)
    BY <1>6 DEF CInv, Shape, TInv, PlacesOK, PlaceOK, OwnPorts, OwnPort, Owns, Serves, Addr, Keepers, Carrying,
                Begin, Finish, Goto, args, Reserve
  <2> QED
    BY <2>1, <2>2, QuietPorts
<1>7. ASSUME NEW t \in Threads, ReserveFails(t) PROVE PInv'
  <2>1. UNCHANGED <<used, relayIx>>
    BY <1>7 DEF index, ReserveFails
  <2>2. \A x \in Keepers, p \in Ports :
          /\ Owns(x, p)' <=> Owns(x, p)
          /\ Serves(x, p)' <=> Serves(x, p)
          /\ Serves(x, p) => Addr(x)' = Addr(x)
    BY <1>7 DEF CInv, Shape, TInv, PlacesOK, PlaceOK, OwnPorts, OwnPort, Owns, Serves, Addr, Keepers, Carrying,
                Begin, Finish, Goto, args, ReserveFails
  <2> QED
    BY <2>1, <2>2, QuietPorts
<1>8. ASSUME NEW t \in Threads, ReleaseCounter(t) PROVE PInv'
  <2>1. UNCHANGED <<used, relayIx>>
    BY <1>8 DEF index, ReleaseCounter
  <2>2. \A x \in Keepers, p \in Ports :
          /\ Owns(x, p)' <=> Owns(x, p)
          /\ Serves(x, p)' <=> Serves(x, p)
          /\ Serves(x, p) => Addr(x)' = Addr(x)
    BY <1>8 DEF CInv, Shape, TInv, PlacesOK, PlaceOK, OwnPorts, OwnPort, Owns, Serves, Addr, Keepers, Carrying,
                Begin, Finish, Goto, args, ReleaseCounter
  <2> QED
    BY <2>1, <2>2, QuietPorts
<1>9. ASSUME NEW t \in Threads, Undone(t) PROVE PInv'
  <2>1. UNCHANGED <<used, relayIx>>
    BY <1>9 DEF index, Undone
  <2>2. \A x \in Keepers, p \in Ports :
          /\ Owns(x, p)' <=> Owns(x, p)
          /\ Serves(x, p)' <=> Serves(x, p)
          /\ Serves(x, p) => Addr(x)' = Addr(x)
    BY <1>9 DEF CInv, Shape, TInv, PlacesOK, PlaceOK, OwnPorts, OwnPort, Owns, Serves, Addr, Keepers, Carrying,
                Begin, Finish, Goto, args, Undone
  <2> QED
    BY <2>1, <2>2, QuietPorts
<1>10. ASSUME NEW t \in Threads, DropPort(t) PROVE PInv'
  <2> DEFINE p == hand[t].port
  <2>1. /\ p \in Ports /\ hand[t] # None /\ t \notin Clients /\ t \in Keepers
        /\ pc[t] = "dropPort" /\ used' = used \ {p}
        /\ UNCHANGED <<relayIx, alloc>>
    BY <1>10, AllocationFields, StoreAssumption DEF TInv, PlacesOK, PlaceOK, Drafting, Carrying,
                OwnPorts, OwnPort, Keepers, index, DropPort
  <2>2. /\ \A x \in Threads \ {t} : /\ pc'[x] = pc[x] /\ op'[x] = op[x] /\ hand'[x] = hand[x]
                                    /\ client'[x] = client[x]
        /\ pc'[t] \notin Carrying
        /\ hand'[t] = None \/ (op'[t] = "rehydrate" /\ pc'[t] = "undo")
    BY <1>10 DEF CInv, Shape, TInv, PlacesOK, PlaceOK, Drafting, Carrying, Finish, Goto, args, DropPort
  <2>3. Owns(t, p) /\ pc[t] \notin Carrying
    BY <2>1 DEF Owns, Carrying, OwnPorts, OwnPort
  <2>4. \A x \in Keepers, q \in Ports :
          /\ Owns(x, q)' <=> x # t /\ Owns(x, q)
          /\ Serves(x, q)' <=> Serves(x, q)
          /\ Serves(x, q) => Addr(x)' = Addr(x)
    BY <2>1, <2>2, <2>3 DEF Owns, Serves, Addr, Keepers
  <2> HIDE DEF p
  <2> QED
    BY <2>1, <2>3, <2>4, GivesPort
<1>11. ASSUME NEW t \in Threads, Insert(t) PROVE PInv'
  <2>0. PICK y \in Clients : y = client[t]
    BY <1>11 DEF CInv, StepsOK, StepOK, Insert
  <2> DEFINE p == hand[t].port
  <2> DEFINE i == IF hand[t].id = 0 THEN nextId ELSE hand[t].id
             a == [hand[t] EXCEPT !.id = i]
  <2>1. y \in Clients /\ p \in Ports /\ a # None /\ a.port = p
    <3>1. hand[t] \in Drafts /\ p \in Ports /\ i \in Nat
      BY <1>11, NewId, StoreAssumption DEF Insert, Ids
    <3> HIDE DEF i
    <3>2. a \in Drafts /\ a.port = p
      BY <3>1, DraftKeeps
    <3> QED
      BY <3>1, <3>2, AllocationFields
  <2>2. /\ alloc' = [alloc EXCEPT ![y] = a] /\ hand' = [hand EXCEPT ![t] = None]
        /\ pc'[t] \notin Carrying /\ alloc[y] = None /\ UNCHANGED used
        /\ \A z \in Threads \ {t} : pc'[z] = pc[z] /\ client'[z] = client[z] /\ op'[z] = op[z]
    BY <1>11, <2>0 DEF CInv, Shape, Goto, Finish, args, Carrying, Insert
  <2>3. y \notin Threads /\ t \notin Clients
    BY <2>1, StoreAssumption
  <2>4. Owns(t, p) /\ \A q \in Ports : ~Owns(y, q)
    <3>1. hand[t] # None /\ ~(op[t] = "rehydrate" /\ pc[t] \in {"reserve", "rowPort", "undo"})
      BY <1>11 DEF TInv, PlacesOK, PlaceOK, Drafting, Carrying, Insert
    <3> QED
      BY <2>1, <2>2, <2>3, <3>1 DEF Owns
  <2> HIDE DEF a
  <2>5. relayIx' = [relayIx EXCEPT ![p] = y]
    <3>1. relayIx' = [relayIx EXCEPT ![a.port] = y]
      BY <1>11, <2>0 DEF Insert, a
    <3> QED
      BY <2>1, <3>1
  <2>6. \A z \in Keepers, q \in Ports :
          /\ Owns(z, q)' <=> (z = y /\ q = p) \/ (z # t /\ Owns(z, q))
          /\ Serves(z, q)' <=> (z = y /\ q = p) \/ (z # t /\ Serves(z, q))
          /\ Serves(z, q) /\ z # t => Addr(z)' = Addr(z)
    BY <2>1, <2>2, <2>3 DEF CInv, Shape, Owns, Serves, Keepers, Addr
  <2> HIDE DEF p
  <2>7. y \in Keepers /\ t \in Keepers /\ y # t
    BY <2>1, <2>3 DEF Keepers
  <2>8. Addr(y)' = y
    BY <2>1 DEF Addr
  <2>9. relayIx' = [relayIx EXCEPT ![p] = Addr(y)'] /\ Addr(y)' \in Clients
    BY <2>1, <2>5, <2>8
  <2>10. UNCHANGED used
    BY <2>2
  <2> QED
    BY <2>1, <2>4, <2>6, <2>7, <2>9, <2>10, MovesPort
<1>12. ASSUME NEW t \in Threads, InsertLost(t) PROVE PInv'
  <2> DEFINE i == IF hand[t].id = 0 THEN nextId ELSE hand[t].id
             d == [hand[t] EXCEPT !.id = i]
  <2>1. /\ hand[t] \in Drafts /\ i \in Nat /\ op[t] \in {"allocate", "rehydrate"}
        /\ pc[t] = "insert" /\ hand[t] # None
    BY <1>12, NewId, StoreAssumption DEF TInv, PlacesOK, PlaceOK, Drafting, InsertLost, Ids
  <2>2. /\ hand' = [hand EXCEPT ![t] = d] /\ UNCHANGED <<used, relayIx, alloc, op, client>>
        /\ pc' = [pc EXCEPT ![t] = IF op[t] = "allocate" THEN "undo" ELSE "dropPort"]
    BY <1>12 DEF InsertLost, Goto, args, index
  <2>3. d # None /\ d.port = hand[t].port
    BY <2>1, DraftKeeps, AllocationFields
  <2> HIDE DEF d
  <2>4. \A x \in Keepers, p \in Ports :
          /\ Owns(x, p)' <=> Owns(x, p)
          /\ Serves(x, p)' <=> Serves(x, p)
          /\ Serves(x, p) => Addr(x)' = Addr(x)
    BY <2>1, <2>2, <2>3 DEF CInv, Shape, Owns, Serves, Addr, Keepers, Carrying
  <2> QED
    BY <2>2, <2>4, QuietPorts
<1>13. ASSUME NEW t \in Threads, Created(t) PROVE PInv'
  <2>1. UNCHANGED <<used, relayIx>>
    BY <1>13 DEF index, Created
  <2>2. \A x \in Keepers, p \in Ports :
          /\ Owns(x, p)' <=> Owns(x, p)
          /\ Serves(x, p)' <=> Serves(x, p)
          /\ Serves(x, p) => Addr(x)' = Addr(x)
    BY <1>13 DEF CInv, Shape, TInv, PlacesOK, PlaceOK, OwnPorts, OwnPort, Owns, Serves, Addr, Keepers, Carrying,
                Begin, Finish, Goto, args, Created
  <2> QED
    BY <2>1, <2>2, QuietPorts
<1>14. ASSUME NEW t \in Threads, NEW r \in Rows, StartRehydrate(t, r) PROVE PInv'
  <2> DEFINE d == r.draft
  <2>1. /\ hand' = [hand EXCEPT ![t] = d] /\ pc' = [pc EXCEPT ![t] = "reserve"] /\ pc[t] = "idle"
        /\ op' = [op EXCEPT ![t] = "rehydrate"] /\ UNCHANGED <<used, relayIx, alloc>>
        /\ \A x \in Threads \ {t} : client'[x] = client[x]
    BY <1>14 DEF CInv, Shape, StartRehydrate, Begin, Goto, index
  <2>2. hand[t] = None
    BY <2>1 DEF TInv, PlacesOK, PlaceOK, Drafting, Carrying
  <2> HIDE DEF d
  <2>3. \A x \in Keepers, p \in Ports : Owns(x, p)' <=> Owns(x, p)
    BY <2>1, <2>2, StoreAssumption DEF CInv, Shape, Owns, Keepers
  <2>4. \A x \in Keepers, p \in Ports : Serves(x, p)' <=> Serves(x, p)
    BY <2>1, <2>2, StoreAssumption DEF CInv, Shape, Serves, Keepers, Carrying
  <2>5. \A x \in Keepers, p \in Ports : Serves(x, p) => Addr(x)' = Addr(x)
    BY <2>1, <2>2, StoreAssumption DEF CInv, Shape, Serves, Addr, Keepers, Carrying
  <2> QED
    BY <2>1, <2>3, <2>4, <2>5, QuietPorts
<1>15. ASSUME NEW t \in Threads, ReserveRowPort(t) PROVE PInv'
  <2> DEFINE p == hand[t].port
  <2>1. /\ pc[t] = "rowPort" /\ op[t] = "rehydrate" /\ hand[t] # None /\ p \in Ports
        /\ t \notin Clients /\ t \in Keepers /\ UNCHANGED <<relayIx, alloc, op, client, hand>>
    BY <1>15, StoreAssumption DEF TInv, PlacesOK, PlaceOK, Drafting, ReserveRowPort, Keepers, index,
                                args
  <2>2. CASE p \in used
    <3>1. UNCHANGED used /\ pc' = [pc EXCEPT ![t] = "undo"]
      BY <1>15, <2>2 DEF ReserveRowPort, Goto
    <3>2. \A x \in Keepers, q \in Ports :
            /\ Owns(x, q)' <=> Owns(x, q)
            /\ Serves(x, q)' <=> Serves(x, q)
            /\ Serves(x, q) => Addr(x)' = Addr(x)
      BY <2>1, <3>1 DEF CInv, Shape, Owns, Serves, Addr, Keepers, Carrying
    <3> QED
      BY <2>1, <3>1, <3>2, QuietPorts
  <2>3. CASE p \notin used
    <3>1. used' = used \cup {p} /\ pc' = [pc EXCEPT ![t] = "insert"]
      BY <1>15, <2>3 DEF ReserveRowPort, Goto
    <3>2. \A x \in Keepers, q \in Ports :
            /\ Owns(x, q)' <=> (x = t /\ q = p) \/ Owns(x, q)
            /\ Serves(x, q)' <=> Serves(x, q)
            /\ Serves(x, q) => Addr(x)' = Addr(x)
      BY <2>1, <3>1 DEF CInv, Shape, Owns, Serves, Addr, Keepers, Carrying
    <3>3. \A q \in Ports : ~Owns(t, q)
      BY <2>1 DEF Owns
    <3> HIDE DEF p
    <3> QED
      BY <2>1, <2>3, <3>1, <3>2, <3>3, GetsPort
  <2> QED
    BY <2>2, <2>3
<1>16. ASSUME NEW t \in Threads, NEW c \in Clients, StartRelease(t, c) PROVE PInv'
  <2>1. UNCHANGED <<used, relayIx>>
    BY <1>16 DEF index, StartRelease
  <2>2. \A x \in Keepers, p \in Ports :
          /\ Owns(x, p)' <=> Owns(x, p)
          /\ Serves(x, p)' <=> Serves(x, p)
          /\ Serves(x, p) => Addr(x)' = Addr(x)
    BY <1>16 DEF CInv, Shape, TInv, PlacesOK, PlaceOK, OwnPorts, OwnPort, Owns, Serves, Addr,
               Keepers, Carrying, Begin, Finish, Goto, args, StartRelease
  <2> QED
    BY <2>1, <2>2, QuietPorts
<1>17. ASSUME NEW t \in Threads, NEW c \in Clients, StartSweep(t, c) PROVE PInv'
  <2>1. UNCHANGED <<used, relayIx>>
    BY <1>17 DEF index, StartSweep
  <2>2. \A x \in Keepers, p \in Ports :
          /\ Owns(x, p)' <=> Owns(x, p)
          /\ Serves(x, p)' <=> Serves(x, p)
          /\ Serves(x, p) => Addr(x)' = Addr(x)
    BY <1>17 DEF CInv, Shape, TInv, PlacesOK, PlaceOK, OwnPorts, OwnPort, Owns, Serves, Addr,
               Keepers, Carrying, Begin, Finish, Goto, args, StartSweep
  <2> QED
    BY <2>1, <2>2, QuietPorts
<1>18. ASSUME NEW t \in Threads, NEW c \in Clients, StartForce(t, c) PROVE PInv'
  <2>1. UNCHANGED <<used, relayIx>>
    BY <1>18 DEF index, StartForce
  <2>2. \A x \in Keepers, p \in Ports :
          /\ Owns(x, p)' <=> Owns(x, p)
          /\ Serves(x, p)' <=> Serves(x, p)
          /\ Serves(x, p) => Addr(x)' = Addr(x)
    BY <1>18 DEF CInv, Shape, TInv, PlacesOK, PlaceOK, OwnPorts, OwnPort, Owns, Serves, Addr, Keepers, Carrying,
                Begin, Finish, Goto, args, StartForce
  <2> QED
    BY <2>1, <2>2, QuietPorts
<1>19. ASSUME NEW t \in Threads, SweepRecheck(t) PROVE PInv'
  <2>1. UNCHANGED <<used, relayIx>>
    BY <1>19 DEF index, SweepRecheck
  <2>2. \A x \in Keepers, p \in Ports :
          /\ Owns(x, p)' <=> Owns(x, p)
          /\ Serves(x, p)' <=> Serves(x, p)
          /\ Serves(x, p) => Addr(x)' = Addr(x)
    BY <1>19 DEF CInv, Shape, TInv, PlacesOK, PlaceOK, OwnPorts, OwnPort, Owns, Serves, Addr,
               Keepers, Carrying, Begin, Finish, Goto, args, SweepRecheck
  <2> QED
    BY <2>1, <2>2, QuietPorts
<1>20. ASSUME NEW t \in Threads, RmTake(t) PROVE PInv'
  <2> DEFINE x == client[t]
             p == alloc[x].port
  <2>1. x \in Clients /\ alloc[x] # None /\ p \in Ports
    BY <1>20, AllocationFields DEF CInv, StepsOK, StepOK, TInv, Placed, RmTake
  <2>2. /\ alloc' = [alloc EXCEPT ![x] = None] /\ hand' = [hand EXCEPT ![t] = alloc[x]]
        /\ pc' = [pc EXCEPT ![t] = "rmCounters"] /\ pc[t] \notin Carrying
        /\ UNCHANGED <<client, op, relayIx, used>>
    BY <1>20 DEF Goto, index, args, Carrying, RmTake
  <2>3. x \notin Threads /\ t \notin Clients /\ hand[t] = None /\ op[t] # "rehydrate"
    BY <1>20, <2>1, StoreAssumption DEF TInv, PlacesOK, PlaceOK, Drafting, Carrying, OwnPorts, OwnPort,
                                      RmTake
  <2>4. Owns(x, p) /\ Serves(x, p) /\ \A q \in Ports : ~Owns(t, q)
    BY <2>1, <2>3 DEF Owns, Serves
  <2>5. relayIx[p] = x
    BY <2>1, <2>4 DEF PInv, Relayed, Keepers, Addr
  <2>6. relayIx' = [relayIx EXCEPT ![p] = Addr(t)'] /\ Addr(t)' \in Clients
    BY <2>1, <2>2, <2>3, <2>5 DEF Addr, TInv, Tables
  <2>7. \A z \in Keepers, q \in Ports :
          /\ Owns(z, q)' <=> (z = t /\ q = p) \/ (z # x /\ Owns(z, q))
          /\ Serves(z, q)' <=> (z = t /\ q = p) \/ (z # x /\ Serves(z, q))
          /\ Serves(z, q) /\ z # x => Addr(z)' = Addr(z)
    BY <2>1, <2>2, <2>3 DEF CInv, Shape, Owns, Serves, Keepers, Addr, Carrying
  <2> HIDE DEF x, p
  <2>8. x \in Keepers /\ t \in Keepers /\ x # t
    BY <2>1, <2>3 DEF Keepers
  <2> QED
    BY <2>1, <2>2, <2>4, <2>6, <2>7, <2>8, MovesPort
<1>21. ASSUME NEW t \in Threads, RmNothing(t) PROVE PInv'
  <2>1. UNCHANGED <<used, relayIx>>
    BY <1>21 DEF index, RmNothing
  <2>2. \A x \in Keepers, p \in Ports :
          /\ Owns(x, p)' <=> Owns(x, p)
          /\ Serves(x, p)' <=> Serves(x, p)
          /\ Serves(x, p) => Addr(x)' = Addr(x)
    BY <1>21 DEF CInv, Shape, TInv, PlacesOK, PlaceOK, OwnPorts, OwnPort, Owns, Serves, Addr, Keepers, Carrying,
                Begin, Finish, Goto, args, RmNothing
  <2> QED
    BY <2>1, <2>2, QuietPorts
<1>22. ASSUME NEW t \in Threads, RmIndex(t) PROVE PInv'
  <2> DEFINE p == hand[t].port
  <2>1. /\ p \in Ports /\ hand[t] # None /\ pc[t] = "rmCounters" /\ rport[t] = p
        /\ op[t] # "rehydrate" /\ t \notin Clients /\ t \in Keepers
    BY <1>22, AllocationFields, StoreAssumption DEF TInv, PlacesOK, PlaceOK, OwnPorts, OwnPort, Carrying,
                                                 Keepers, RmIndex
  <2>2. /\ pc' = [pc EXCEPT ![t] = "rmPort"] /\ UNCHANGED <<alloc, hand, client, op, used>>
        /\ relayIx' = [relayIx EXCEPT ![p] = None]
    BY <1>22, <2>1 DEF RmIndex, Goto, args
  <2>3. Owns(t, p)
    BY <2>1 DEF Owns
  <2>4. \A x \in Keepers, q \in Ports :
          /\ Owns(x, q)' <=> Owns(x, q)
          /\ Serves(x, q)' <=> x # t /\ Serves(x, q)
          /\ Serves(x, q) => Addr(x)' = Addr(x)
    BY <2>1, <2>2 DEF CInv, Shape, Owns, Serves, Addr, Keepers, Carrying
  <2> HIDE DEF p
  <2> QED
    BY <2>1, <2>2, <2>3, <2>4, UnlinksPort
<1>23. ASSUME NEW t \in Threads, RmPort(t) PROVE PInv'
  <2> DEFINE p == hand[t].port
  <2>1. /\ p \in Ports /\ hand[t] # None /\ t \notin Clients /\ t \in Keepers
        /\ pc[t] = "rmPort" /\ used' = used \ {p}
        /\ UNCHANGED <<relayIx, alloc>>
    BY <1>23, AllocationFields, StoreAssumption DEF TInv, PlacesOK, PlaceOK, Drafting, Carrying,
                OwnPorts, OwnPort, Keepers, index, RmPort
  <2>2. /\ \A x \in Threads \ {t} : /\ pc'[x] = pc[x] /\ op'[x] = op[x] /\ hand'[x] = hand[x]
                                    /\ client'[x] = client[x]
        /\ pc'[t] \notin Carrying
        /\ hand'[t] = None \/ (op'[t] = "rehydrate" /\ pc'[t] = "undo")
    BY <1>23 DEF CInv, Shape, TInv, PlacesOK, PlaceOK, Drafting, Carrying, Finish, Goto, args, RmPort
  <2>3. Owns(t, p) /\ pc[t] \notin Carrying
    BY <2>1 DEF Owns, Carrying, OwnPorts, OwnPort
  <2>4. \A x \in Keepers, q \in Ports :
          /\ Owns(x, q)' <=> x # t /\ Owns(x, q)
          /\ Serves(x, q)' <=> Serves(x, q)
          /\ Serves(x, q) => Addr(x)' = Addr(x)
    BY <2>1, <2>2, <2>3 DEF Owns, Serves, Addr, Keepers
  <2> HIDE DEF p
  <2> QED
    BY <2>1, <2>3, <2>4, GivesPort
<1>24. ASSUME NEW t \in Threads, RmDone(t) PROVE PInv'
  <2>1. UNCHANGED <<used, relayIx>>
    BY <1>24 DEF index, RmDone
  <2>2. \A x \in Keepers, p \in Ports :
          /\ Owns(x, p)' <=> Owns(x, p)
          /\ Serves(x, p)' <=> Serves(x, p)
          /\ Serves(x, p) => Addr(x)' = Addr(x)
    BY <1>24 DEF CInv, Shape, TInv, PlacesOK, PlaceOK, OwnPorts, OwnPort, Owns, Serves, Addr, Keepers, Carrying,
                Begin, Finish, Goto, args, RmDone
  <2> QED
    BY <2>1, <2>2, QuietPorts
<1>25. ASSUME NEW t \in Threads, NEW c \in Clients, NEW k \in tickets, StartMigrate(t, c, k) PROVE PInv'
  <2>1. UNCHANGED <<used, relayIx>>
    BY <1>25 DEF index, StartMigrate
  <2>2. \A x \in Keepers, p \in Ports :
          /\ Owns(x, p)' <=> Owns(x, p)
          /\ Serves(x, p)' <=> Serves(x, p)
          /\ Serves(x, p) => Addr(x)' = Addr(x)
    BY <1>25 DEF CInv, Shape, TInv, PlacesOK, PlaceOK, OwnPorts, OwnPort, Owns, Serves, Addr,
               Keepers, Carrying, Begin, Finish, Goto, args, StartMigrate
  <2> QED
    BY <2>1, <2>2, QuietPorts
<1>26. ASSUME NEW t \in Threads, CheckEpoch(t) PROVE PInv'
  <2>1. UNCHANGED <<used, relayIx>>
    BY <1>26 DEF index, CheckEpoch
  <2>2. \A x \in Keepers, p \in Ports :
          /\ Owns(x, p)' <=> Owns(x, p)
          /\ Serves(x, p)' <=> Serves(x, p)
          /\ Serves(x, p) => Addr(x)' = Addr(x)
    BY <1>26 DEF CInv, Shape, TInv, PlacesOK, PlaceOK, OwnPorts, OwnPort, Owns, Serves, Addr,
               Keepers, Carrying, Begin, Finish, Goto, args, CheckEpoch
  <2> QED
    BY <2>1, <2>2, QuietPorts
<1>27. ASSUME NEW t \in Threads, NEW o \in Clients, NEW n \in Clients, StartQuic(t, o, n) PROVE PInv'
  <2>1. UNCHANGED <<used, relayIx>>
    BY <1>27 DEF index, StartQuic
  <2>2. \A x \in Keepers, p \in Ports :
          /\ Owns(x, p)' <=> Owns(x, p)
          /\ Serves(x, p)' <=> Serves(x, p)
          /\ Serves(x, p) => Addr(x)' = Addr(x)
    BY <1>27 DEF CInv, Shape, TInv, PlacesOK, PlaceOK, OwnPorts, OwnPort, Owns, Serves, Addr, Keepers, Carrying,
                Begin, Finish, Goto, args, StartQuic
  <2> QED
    BY <2>1, <2>2, QuietPorts
<1>28. ASSUME NEW t \in Threads, RkNothing(t) PROVE PInv'
  <2>1. UNCHANGED <<used, relayIx>>
    BY <1>28 DEF index, RkNothing
  <2>2. \A x \in Keepers, p \in Ports :
          /\ Owns(x, p)' <=> Owns(x, p)
          /\ Serves(x, p)' <=> Serves(x, p)
          /\ Serves(x, p) => Addr(x)' = Addr(x)
    BY <1>28 DEF CInv, Shape, TInv, PlacesOK, PlaceOK, OwnPorts, OwnPort, Owns, Serves, Addr, Keepers, Carrying,
                Begin, Finish, Goto, args, RkNothing
  <2> QED
    BY <2>1, <2>2, QuietPorts
<1>29. ASSUME NEW t \in Threads, RkTake(t) PROVE PInv'
  <2> DEFINE x == client[t]
             p == alloc[x].port
  <2>1. x \in Clients /\ alloc[x] # None /\ p \in Ports
    BY <1>29, AllocationFields DEF CInv, StepsOK, StepOK, TInv, Placed, RkTake
  <2>2. /\ alloc' = [alloc EXCEPT ![x] = None] /\ hand' = [hand EXCEPT ![t] = alloc[x]]
        /\ pc' = [pc EXCEPT ![t] = "rkClaim"] /\ pc[t] \notin Carrying
        /\ UNCHANGED <<client, op, relayIx, used>>
    BY <1>29 DEF Goto, index, args, Carrying, RkTake
  <2>3. x \notin Threads /\ t \notin Clients /\ hand[t] = None /\ op[t] # "rehydrate"
    BY <1>29, <2>1, StoreAssumption DEF TInv, PlacesOK, PlaceOK, Drafting, Carrying, OwnPorts, OwnPort,
                                      RkTake
  <2>4. Owns(x, p) /\ Serves(x, p) /\ \A q \in Ports : ~Owns(t, q)
    BY <2>1, <2>3 DEF Owns, Serves
  <2>5. relayIx[p] = x
    BY <2>1, <2>4 DEF PInv, Relayed, Keepers, Addr
  <2>6. relayIx' = [relayIx EXCEPT ![p] = Addr(t)'] /\ Addr(t)' \in Clients
    BY <2>1, <2>2, <2>3, <2>5 DEF Addr, TInv, Tables
  <2>7. \A z \in Keepers, q \in Ports :
          /\ Owns(z, q)' <=> (z = t /\ q = p) \/ (z # x /\ Owns(z, q))
          /\ Serves(z, q)' <=> (z = t /\ q = p) \/ (z # x /\ Serves(z, q))
          /\ Serves(z, q) /\ z # x => Addr(z)' = Addr(z)
    BY <2>1, <2>2, <2>3 DEF CInv, Shape, Owns, Serves, Keepers, Addr, Carrying
  <2> HIDE DEF x, p
  <2>8. x \in Keepers /\ t \in Keepers /\ x # t
    BY <2>1, <2>3 DEF Keepers
  <2> QED
    BY <2>1, <2>2, <2>4, <2>6, <2>7, <2>8, MovesPort
<1>30. ASSUME NEW t \in Threads, RkClaim(t) PROVE PInv'
  <2>0. PICK y \in Clients : y = target[t]
    BY <1>30 DEF CInv, StepsOK, StepOK, RkClaim
  <2> DEFINE p == hand[t].port
  <2> DEFINE e == hand[t].epoch + 1
             a == [hand[t] EXCEPT !.epoch = e]
  <2>1. y \in Clients /\ p \in Ports /\ a # None /\ a.port = p
    <3>1. hand[t] \in Allocations
      BY <1>30 DEF TInv, PlacesOK, PlaceOK, Carrying, RkClaim
    <3>2. hand[t] \in Drafts /\ p \in Ports /\ e \in Nat
      BY <3>1, AllocationFields, StoreAssumption DEF Epochs
    <3> HIDE DEF e
    <3>3. a \in Drafts /\ a.port = p
      BY <3>2, DraftKeeps
    <3> QED
      BY <3>2, <3>3, AllocationFields
  <2>2. /\ alloc' = [alloc EXCEPT ![y] = a] /\ hand' = [hand EXCEPT ![t] = None]
        /\ pc'[t] \notin Carrying /\ alloc[y] = None /\ UNCHANGED used
        /\ \A z \in Threads \ {t} : pc'[z] = pc[z] /\ client'[z] = client[z] /\ op'[z] = op[z]
    BY <1>30, <2>0 DEF CInv, Shape, Goto, Finish, args, Carrying, RkClaim
  <2>3. y \notin Threads /\ t \notin Clients
    BY <2>1, StoreAssumption
  <2>4. Owns(t, p) /\ \A q \in Ports : ~Owns(y, q)
    <3>1. hand[t] # None /\ ~(op[t] = "rehydrate" /\ pc[t] \in {"reserve", "rowPort", "undo"})
      BY <1>30 DEF TInv, PlacesOK, PlaceOK, Drafting, Carrying, RkClaim
    <3> QED
      BY <2>1, <2>2, <2>3, <3>1 DEF Owns
  <2> HIDE DEF a
  <2>5. relayIx' = [relayIx EXCEPT ![p] = y]
    BY <1>30, <2>0 DEF RkClaim
  <2>6. \A z \in Keepers, q \in Ports :
          /\ Owns(z, q)' <=> (z = y /\ q = p) \/ (z # t /\ Owns(z, q))
          /\ Serves(z, q)' <=> (z = y /\ q = p) \/ (z # t /\ Serves(z, q))
          /\ Serves(z, q) /\ z # t => Addr(z)' = Addr(z)
    BY <2>1, <2>2, <2>3 DEF CInv, Shape, Owns, Serves, Keepers, Addr
  <2> HIDE DEF p
  <2>7. y \in Keepers /\ t \in Keepers /\ y # t
    BY <2>1, <2>3 DEF Keepers
  <2>8. Addr(y)' = y
    BY <2>1 DEF Addr
  <2>9. relayIx' = [relayIx EXCEPT ![p] = Addr(y)'] /\ Addr(y)' \in Clients
    BY <2>1, <2>5, <2>8
  <2>10. UNCHANGED used
    BY <2>2
  <2> QED
    BY <2>1, <2>4, <2>6, <2>7, <2>9, <2>10, MovesPort
<1>31. ASSUME NEW t \in Threads, RkRefused(t) PROVE PInv'
  <2>1. UNCHANGED <<used, relayIx>>
    BY <1>31 DEF index, RkRefused
  <2>2. \A x \in Keepers, p \in Ports :
          /\ Owns(x, p)' <=> Owns(x, p)
          /\ Serves(x, p)' <=> Serves(x, p)
          /\ Serves(x, p) => Addr(x)' = Addr(x)
    BY <1>31 DEF CInv, Shape, TInv, PlacesOK, PlaceOK, OwnPorts, OwnPort, Owns, Serves, Addr, Keepers, Carrying,
                Begin, Finish, Goto, args, RkRefused
  <2> QED
    BY <2>1, <2>2, QuietPorts
<1>32. ASSUME NEW t \in Threads, RkBack(t) PROVE PInv'
  <2>0. PICK y \in Clients : y = client[t]
    BY <1>32 DEF CInv, StepsOK, StepOK, RkBack
  <2> DEFINE p == hand[t].port
  <2> DEFINE a == hand[t]
  <2>1. y \in Clients /\ p \in Ports /\ a # None /\ a.port = p
    BY <1>32, AllocationFields DEF TInv, PlacesOK, PlaceOK, Carrying, RkBack
  <2>2. /\ alloc' = [alloc EXCEPT ![y] = a] /\ hand' = [hand EXCEPT ![t] = None]
        /\ pc'[t] \notin Carrying /\ alloc[y] = None /\ UNCHANGED used
        /\ \A z \in Threads \ {t} : pc'[z] = pc[z] /\ client'[z] = client[z] /\ op'[z] = op[z]
    BY <1>32, <2>0 DEF CInv, Shape, Goto, Finish, args, Carrying, RkBack
  <2>3. y \notin Threads /\ t \notin Clients
    BY <2>1, StoreAssumption
  <2>4. Owns(t, p) /\ \A q \in Ports : ~Owns(y, q)
    <3>1. hand[t] # None /\ ~(op[t] = "rehydrate" /\ pc[t] \in {"reserve", "rowPort", "undo"})
      BY <1>32 DEF TInv, PlacesOK, PlaceOK, Drafting, Carrying, RkBack
    <3> QED
      BY <2>1, <2>2, <2>3, <3>1 DEF Owns
  <2> HIDE DEF a
  <2>5. relayIx' = [relayIx EXCEPT ![p] = y]
    <3>1. Addr(t) = y /\ t \in Keepers
      BY <2>0, <2>3 DEF Addr, Keepers
    <3>2. Serves(t, p)
      BY <1>32 DEF Serves, Carrying, RkBack
    <3>3. relayIx[p] = y
      BY <2>1, <3>1, <3>2 DEF PInv, Relayed
    <3>4. UNCHANGED relayIx
      BY <1>32 DEF RkBack, index
    <3> QED
      BY <2>1, <3>3, <3>4 DEF TInv, Tables
  <2>6. \A z \in Keepers, q \in Ports :
          /\ Owns(z, q)' <=> (z = y /\ q = p) \/ (z # t /\ Owns(z, q))
          /\ Serves(z, q)' <=> (z = y /\ q = p) \/ (z # t /\ Serves(z, q))
          /\ Serves(z, q) /\ z # t => Addr(z)' = Addr(z)
    BY <2>1, <2>2, <2>3 DEF CInv, Shape, Owns, Serves, Keepers, Addr
  <2> HIDE DEF p
  <2>7. y \in Keepers /\ t \in Keepers /\ y # t
    BY <2>1, <2>3 DEF Keepers
  <2>8. Addr(y)' = y
    BY <2>1 DEF Addr
  <2>9. relayIx' = [relayIx EXCEPT ![p] = Addr(y)'] /\ Addr(y)' \in Clients
    BY <2>1, <2>5, <2>8
  <2>10. UNCHANGED used
    BY <2>2
  <2> QED
    BY <2>1, <2>4, <2>6, <2>7, <2>9, <2>10, MovesPort
<1>33. ASSUME NEW t \in Threads, RkOrphan(t) PROVE PInv'
  <2>1. UNCHANGED <<used, relayIx>>
    BY <1>33 DEF index, RkOrphan
  <2>2. \A x \in Keepers, p \in Ports :
          /\ Owns(x, p)' <=> Owns(x, p)
          /\ Serves(x, p)' <=> Serves(x, p)
          /\ Serves(x, p) => Addr(x)' = Addr(x)
    BY <1>33 DEF CInv, Shape, TInv, PlacesOK, PlaceOK, OwnPorts, OwnPort, Owns, Serves, Addr, Keepers, Carrying,
                Begin, Finish, Goto, args, RkOrphan
  <2> QED
    BY <2>1, <2>2, QuietPorts
<1>34. ASSUME NEW t \in Threads, MigrateRefresh(t) PROVE PInv'
  <2> DEFINE n == target[t]
             a == [alloc[n] EXCEPT !.expired = FALSE]
  <2>1. /\ UNCHANGED <<used, relayIx, op, hand>> /\ pc[t] = "mgRefresh" /\ n \in Clients
        /\ hand[t] = None /\ pc'[t] \notin Carrying
        /\ \A x \in Threads \ {t} : pc'[x] = pc[x] /\ client'[x] = client[x]
    BY <1>34 DEF CInv, Shape, StepsOK, StepOK, TInv, PlacesOK, PlaceOK, Drafting, Carrying, Goto,
               index, MigrateRefresh
  <2>2. alloc' = alloc \/ (alloc[n] # None /\ alloc' = [alloc EXCEPT ![n] = a])
    BY <1>34 DEF MigrateRefresh
  <2>3. alloc[n] # None => a # None /\ a.port = alloc[n].port
    <3>1. alloc[n] # None => alloc[n] \in Allocations
      BY <2>1 DEF TInv, Placed
    <3> QED
      BY <3>1, AllocationUpdate, AllocationFields
  <2> HIDE DEF a, n
  <2>4. \A c \in Clients : /\ alloc'[c] # None <=> alloc[c] # None
                           /\ alloc[c] # None => alloc'[c].port = alloc[c].port
    BY <2>2, <2>3 DEF CInv, Shape
  <2>5. t \notin Clients
    BY StoreAssumption
  <2>6. \A x \in Keepers, p \in Ports :
          /\ Owns(x, p)' <=> Owns(x, p)
          /\ Serves(x, p)' <=> Serves(x, p)
          /\ Serves(x, p) => Addr(x)' = Addr(x)
    BY <2>1, <2>4, <2>5 DEF Owns, Serves, Addr, Keepers, Carrying
  <2> QED
    BY <2>1, <2>6, QuietPorts
<1>35. ASSUME NEW t \in Threads, MigrateTicket(t) PROVE PInv'
  <2>1. UNCHANGED <<used, relayIx>>
    BY <1>35 DEF index, MigrateTicket
  <2>2. \A x \in Keepers, p \in Ports :
          /\ Owns(x, p)' <=> Owns(x, p)
          /\ Serves(x, p)' <=> Serves(x, p)
          /\ Serves(x, p) => Addr(x)' = Addr(x)
    BY <1>35 DEF CInv, Shape, TInv, PlacesOK, PlaceOK, OwnPorts, OwnPort, Owns, Serves, Addr,
               Keepers, Carrying, Begin, Finish, Goto, args, MigrateTicket
  <2> QED
    BY <2>1, <2>2, QuietPorts
<1> QED
  BY <1>1, <1>2, <1>3, <1>4, <1>5, <1>6, <1>7, <1>8, <1>9, <1>10, <1>11, <1>12, <1>13, <1>14, <1>15, <1>16, <1>17, <1>18, <1>19, <1>20, <1>21, <1>22, <1>23, <1>24, <1>25, <1>26, <1>27, <1>28, <1>29, <1>30, <1>31, <1>32, <1>33, <1>34, <1>35 DEF Next

\* Initially no port has an owner.
LEMMA PInit == Init => OwnPorts /\ PInv
<1> SUFFICES ASSUME Init PROVE OwnPorts /\ PInv
  OBVIOUS
<1>1. \A x, p : ~Owns(x, p) /\ ~Serves(x, p)
  BY DEF Init, Owns, Serves, Carrying
<1>2. \A t \in Threads : op[t] = None /\ pc[t] = "idle"
  BY DEF Init
<1>3. OwnPorts
  BY <1>2, StoreAssumption DEF OwnPorts, OwnPort, Carrying
<1>4. OneOwner /\ UsedOwned
  BY <1>1 DEF Init, OneOwner, UsedOwned
<1>5. Relayed
  BY <1>1, StoreAssumption DEF Init, Relayed
<1> QED
  BY <1>3, <1>4, <1>5 DEF PInv

\* Every step keeps the invariant of the ports.
LEMMA PNext ==
    TakesAsRead /\ CInv /\ TInv /\ OwnPorts /\ PInv /\ [Next]_vars => OwnPorts' /\ PInv'
<1> SUFFICES ASSUME TakesAsRead, CInv, TInv, OwnPorts, PInv, [Next]_vars
             PROVE  OwnPorts' /\ PInv'
  OBVIOUS
<1>1. CASE Next
  BY <1>1, OwnPortsNext, PortsNext
<1>2. CASE UNCHANGED vars
  BY <1>2 DEF vars, args, index, trace, OwnPorts, OwnPort, PInv, OneOwner, UsedOwned, Relayed,
              Owns, Serves, Addr
<1> QED
  BY <1>1, <1>2

\* The invariant of the ports holds in every state of a run without a stale address.
LEMMA StorePorts == Spec /\ []TakesAsRead => [](CInv /\ TInv /\ OwnPorts /\ PInv)
  BY StoreTyped, PInit, PNext, PTL DEF Spec

\* One owner per used port is PortsOwned.
LEMMA OwnersCounted == CInv /\ TInv /\ PInv => PortsOwned
<1> SUFFICES ASSUME CInv, TInv, PInv, NEW p \in Ports
             PROVE  Cardinality(PortOwners(p)) = IF p \in used THEN 1 ELSE 0
  BY DEF PortsOwned
<1>1. PortOwners(p) = {x \in Keepers : Owns(x, p)}
  BY StoreAssumption DEF PortOwners, Owns, Keepers
<1>2. CASE p \in used
  <2>1. PICK x \in Keepers : Owns(x, p)
    BY <1>2 DEF PInv, UsedOwned
  <2>2. PortOwners(p) = {x}
    BY <1>1, <2>1 DEF PInv, OneOwner
  <2> QED
    BY <1>2, <2>2, FS_Singleton
<1>3. CASE p \notin used
  <2>1. PortOwners(p) = {}
    BY <1>1, <1>3 DEF PInv, UsedOwned
  <2> QED
    BY <1>3, <2>1, FS_EmptySet
<1> QED
  BY <1>2, <1>3

\* The invariant of the ports implies RelayIndexExact.
LEMMA RelayNames == CInv /\ TInv /\ OwnPorts /\ PInv => RelayIndexExact
<1> SUFFICES ASSUME CInv, TInv, OwnPorts, PInv PROVE RelayIndexExact
  OBVIOUS
<1>1. ASSUME NEW c \in Clients, alloc[c] # None PROVE relayIx[alloc[c].port] = c
  <2>1. alloc[c].port \in Ports
    BY <1>1, AllocationFields DEF TInv, Placed
  <2>2. Serves(c, alloc[c].port) /\ Addr(c) = c /\ c \in Keepers
    BY <1>1 DEF Serves, Addr, Keepers
  <2> QED
    BY <2>1, <2>2 DEF PInv, Relayed
<1>2. ASSUME NEW p \in Ports \ used PROVE relayIx[p] = None
  <2>1. \A x \in Keepers : ~Serves(x, p)
    BY <1>2, OwnsOne DEF PInv, UsedOwned
  <2> QED
    BY <2>1 DEF PInv, Relayed, TInv, Tables
<1> QED
  BY <1>1, <1>2 DEF RelayIndexExact

\* Whatever operations race, a stale relay address is the only way to lose or share a
\* port: as long as no release, sweep or migration takes an allocation other than the one
\* whose address it read, a port marked used has exactly one owner, an allocation or the
\* thread that carries it, and a free one has none (remove, force_remove, re_key,
\* PortReservationGuard, rehydrate).
THEOREM StorePortsOwned == Spec /\ []TakesAsRead => []PortsOwned
  BY StorePorts, OwnersCounted, PTL

\* And it is the only way to misdirect a peer's packets: until then relay_to_client leads
\* from the port of a live allocation to its client, and from a free port nowhere, through
\* removals, sweeps, re_key and its rollbacks.
THEOREM StoreRelaysIndexed == Spec /\ []TakesAsRead => []RelayIndexExact
  BY StorePorts, RelayNames, PTL
============================================================================
