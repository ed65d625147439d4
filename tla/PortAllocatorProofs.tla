------------------------ MODULE PortAllocatorProofs ------------------------
(***************************************************************************)
(* For every set of threads and tokens, every port range and lifetime: a   *)
(* port of the pool has one holder and none is leaked.                     *)
(***************************************************************************)
EXTENDS PortAllocator, TLAPS

\* What a thread's pc says about its locals, and that a token is drawn once.
PcInv ==
    /\ \A t \in Threads :
         /\ odd[t] # NoPort <=> pc[t] = "cancelOdd"
         /\ pc[t] \in {"bind", "bindFailed", "create", "cancel", "drop"}
              => port[t] # NoPort
         /\ pc[t] \in {"idle", "allocUsed", "pairRes", "undoPair", "nextTry",
                       "sweepUsed", "sweepRes", "take"} => port[t] = NoPort
         /\ tries[t] = MaxTries =>
              \/ pc[t] \in {"nextTry", "undoPair"}
              \/ pc[t] = "cancelOdd" /\ port[t] = NoPort
    /\ DOMAIN reservations \subseteq issued

\* PortHeldOnce and NoPortLeak, point by point.
HeldIsUsed ==
    /\ \A t \in Threads : /\ port[t] # NoPort => port[t] \in used
                          /\ odd[t] # NoPort => odd[t] \in used
    /\ live \subseteq used
    /\ \A tok \in DOMAIN reservations : reservations[tok].port \in used

UsedIsHeld ==
    \A p \in used :
        \/ p \in live
        \/ \E tok \in DOMAIN reservations : reservations[tok].port = p
        \/ \E t \in Threads : port[t] = p \/ odd[t] = p

Disjoint ==
    /\ \A t, u \in Threads : t # u =>
         /\ port[t] = NoPort \/ port[t] # port[u]
         /\ odd[t] = NoPort \/ odd[t] # odd[u]
         /\ port[t] = NoPort \/ port[t] # odd[u]
    /\ \A t \in Threads :
         /\ port[t] = NoPort \/ port[t] # odd[t]
         /\ port[t] \notin live /\ odd[t] \notin live
         /\ \A tok \in DOMAIN reservations :
              reservations[tok].port # port[t] /\ reservations[tok].port # odd[t]
    /\ \A tok \in DOMAIN reservations : reservations[tok].port \notin live
    /\ \A a, b \in DOMAIN reservations :
         reservations[a].port = reservations[b].port => a = b

IInv == TypeOK /\ PcInv /\ HeldIsUsed /\ UsedIsHeld /\ Disjoint

----------------------------------------------------------------------------
\* The initial pool is empty (PortAllocator::new).
LEMMA InitInv == Init => IInv
  BY PortAssumption
  DEF Init, IInv, TypeOK, PcInv, HeldIsUsed, UsedIsHeld, Disjoint, Ports, Steps, Kinds

\* A thread that locks next_port keeps the invariant (allocate).
LEMMA StartAllocateInv ==
  ASSUME IInv, NEW t \in Threads, tries[t] < MaxTries \/ pc[t] = "idle",
         StartAllocate(t)
  PROVE  IInv'
<1> USE PortAssumption DEF StartAllocate, Goto, pool, owners, Ports
<1>1. TypeOK'
  BY DEF IInv, TypeOK, PcInv, Steps, Kinds
<1>2. PcInv'
  BY DEF IInv, TypeOK, PcInv
<1>3. HeldIsUsed'
  BY DEF IInv, TypeOK, PcInv, HeldIsUsed, Disjoint
<1>4. UsedIsHeld'
  BY DEF IInv, TypeOK, PcInv, UsedIsHeld, Disjoint
<1>5. Disjoint'
  BY DEF IInv, TypeOK, PcInv, HeldIsUsed, Disjoint
<1> QED  BY <1>1, <1>2, <1>3, <1>4, <1>5 DEF IInv

\* The walk marks one free port and hands it to the thread (allocate).
LEMMA AllocateScanInv ==
  ASSUME IInv, NEW t \in Threads, AllocateScan(t)
  PROVE  IInv'
<1> USE PortAssumption DEF Ports
<1>1. CASE \E p \in Ports \ used :
             /\ used' = used \cup {p}
             /\ nextPort' = Advance(p)
             /\ port' = [port EXCEPT ![t] = p]
             /\ pc' = [pc EXCEPT ![t] = "bind"]
             /\ UNCHANGED <<reservations, odd, token, tries, kind, due>>
  <2> USE <1>1 DEF Advance, AllocateScan, owners
  <2>1. TypeOK'
    BY DEF IInv, TypeOK, PcInv, Steps, Kinds
  <2>2. PcInv'
    BY DEF IInv, TypeOK, PcInv
  <2>3. HeldIsUsed'
    BY DEF IInv, TypeOK, PcInv, HeldIsUsed, Disjoint
  <2>4. UsedIsHeld'
    BY DEF IInv, TypeOK, PcInv, UsedIsHeld, Disjoint
  <2>5. Disjoint'
    BY DEF IInv, TypeOK, PcInv, HeldIsUsed, Disjoint
  <2> QED  BY <2>1, <2>2, <2>3, <2>4, <2>5 DEF IInv
<1>2. CASE Return(t) /\ UNCHANGED pool
  BY <1>2 DEF Return, Goto, pool, AllocateScan, owners, IInv, TypeOK, PcInv,
              HeldIsUsed, UsedIsHeld, Disjoint, Steps, Kinds
<1> QED  BY <1>1, <1>2 DEF AllocateScan, Goto

\* The lowest free even port goes to the thread (allocate_even).
LEMMA AllocateEvenInv ==
  ASSUME IInv, NEW t \in Threads, tries[t] < MaxTries \/ pc[t] = "idle",
         AllocateEven(t)
  PROVE  IInv'
<1> USE PortAssumption DEF Ports
<1>1. CASE \E p \in Ports \ used :
             /\ used' = used \cup {p}
             /\ port' = [port EXCEPT ![t] = p]
             /\ kind' = [kind EXCEPT ![t] = "even"]
             /\ pc' = [pc EXCEPT ![t] = "bind"]
             /\ UNCHANGED <<nextPort, reservations, odd, token, tries, due>>
  <2>0. pc[t] \in {"idle", "nextTry"} /\ UNCHANGED owners
    BY DEF AllocateEven
  <2> USE <1>1, <2>0 DEF owners
  <2>1. TypeOK'
    BY DEF IInv, TypeOK, PcInv, Steps, Kinds
  <2>2. PcInv'
    BY DEF IInv, TypeOK, PcInv
  <2>3. HeldIsUsed'
    BY DEF IInv, TypeOK, PcInv, HeldIsUsed, Disjoint
  <2>4. UsedIsHeld'
    BY DEF IInv, TypeOK, PcInv, UsedIsHeld, Disjoint
  <2>5. Disjoint'
    BY DEF IInv, TypeOK, PcInv, HeldIsUsed, Disjoint
  <2> QED  BY <2>1, <2>2, <2>3, <2>4, <2>5 DEF IInv
<1>2. CASE Return(t) /\ UNCHANGED pool
  <2>0. pc[t] \in {"idle", "nextTry"} /\ UNCHANGED owners
    BY DEF AllocateEven
  <2> QED
    BY <1>2, <2>0 DEF Return, Goto, pool, owners, IInv, TypeOK, PcInv,
                      HeldIsUsed, UsedIsHeld, Disjoint, Steps, Kinds
<1> QED  BY <1>1, <1>2 DEF AllocateEven, FreeEven, EvenPorts, Goto

\* Locking used for an EVEN-PORT pair changes no port.
LEMMA PairLockUsedInv ==
  ASSUME IInv, NEW t \in Threads, tries[t] < MaxTries \/ pc[t] = "idle",
         PairLockUsed(t)
  PROVE  IInv'
<1> USE PortAssumption DEF PairLockUsed, Return, Goto, pool, owners, Ports
<1>1. TypeOK'
  BY DEF IInv, TypeOK, PcInv, Steps, Kinds
<1>2. PcInv'
  BY DEF IInv, TypeOK, PcInv
<1>3. HeldIsUsed'
  BY DEF IInv, TypeOK, PcInv, HeldIsUsed, Disjoint
<1>4. UsedIsHeld'
  BY DEF IInv, TypeOK, PcInv, UsedIsHeld, Disjoint
<1>5. Disjoint'
  BY DEF IInv, TypeOK, PcInv, HeldIsUsed, Disjoint
<1> QED  BY <1>1, <1>2, <1>3, <1>4, <1>5 DEF IInv

\* A fresh token holds the odd port, the thread the even one.
LEMMA PairReserveInv ==
  ASSUME IInv, NEW t \in Threads, PairReserve(t)
  PROVE  IInv'
<1> USE PortAssumption DEF PairReserve, FreePairs, EvenPorts, Goto, Ports
<1>1. TypeOK'
  BY DEF IInv, TypeOK, PcInv, Steps, Kinds
<1>2. PcInv'
  BY DEF IInv, TypeOK, PcInv
<1>3. HeldIsUsed'
  BY DEF IInv, TypeOK, PcInv, HeldIsUsed, Disjoint
<1>4. UsedIsHeld'
  <2>1. PICK tok \in Tokens \ issued, p \in FreePairs :
          /\ used' = used \cup {p, p + 1}
          /\ tok \in DOMAIN reservations' /\ reservations'[tok].port = p + 1
          /\ \A x \in DOMAIN reservations :
               x \in DOMAIN reservations' /\ reservations'[x] = reservations[x]
          /\ port'[t] = p
    BY DEF IInv, TypeOK, PcInv
  <2>2. \A u \in Threads : u # t => port'[u] = port[u] /\ odd'[u] = odd[u]
    BY DEF IInv, TypeOK
  <2>3. port[t] = NoPort /\ odd[t] = NoPort /\ live' = live
    BY DEF IInv, PcInv
  <2> SUFFICES ASSUME NEW q \in used', q \notin live
               PROVE  \/ \E x \in DOMAIN reservations' : reservations'[x].port = q
                      \/ \E u \in Threads : port'[u] = q \/ odd'[u] = q
    BY <2>3 DEF UsedIsHeld
  <2>4. CASE q = p \/ q = p + 1
    BY <2>1, <2>4
  <2>5. CASE q \in used
    <3>1. q # NoPort
      BY <2>5 DEF IInv, TypeOK
    <3>2. CASE \E x \in DOMAIN reservations : reservations[x].port = q
      BY <3>2, <2>1
    <3>3. CASE \E u \in Threads : port[u] = q \/ odd[u] = q
      BY <3>1, <3>3, <2>2, <2>3
    <3> QED  BY <2>5, <3>2, <3>3 DEF IInv, UsedIsHeld
  <2> QED  BY <2>1, <2>4, <2>5
<1>5. Disjoint'
  BY DEF IInv, TypeOK, PcInv, HeldIsUsed, Disjoint
<1> QED  BY <1>1, <1>2, <1>3, <1>4, <1>5 DEF IInv

\* A bind attempt, whatever its outcome, moves no port.
LEMMA BindInv ==
  ASSUME IInv, NEW t \in Threads, BindOk(t) \/ BindFails(t)
  PROVE  IInv'
<1> USE PortAssumption DEF BindOk, BindFails, Goto, pool, owners, locals, Ports
<1>1. TypeOK'
  BY DEF IInv, TypeOK, PcInv, Steps, Kinds
<1>2. PcInv'
  BY DEF IInv, TypeOK, PcInv
<1>3. HeldIsUsed'
  BY DEF IInv, TypeOK, PcInv, HeldIsUsed, Disjoint
<1>4. UsedIsHeld'
  BY DEF IInv, TypeOK, PcInv, UsedIsHeld, Disjoint
<1>5. Disjoint'
  BY DEF IInv, TypeOK, PcInv, HeldIsUsed, Disjoint
<1> QED  BY <1>1, <1>2, <1>3, <1>4, <1>5 DEF IInv

\* After a failed bind the thread gives its port back.
LEMMA BindFailedReleaseInv ==
  ASSUME IInv, NEW t \in Threads, BindFailedRelease(t)
  PROVE  IInv'
<1> USE PortAssumption DEF BindFailedRelease, Return, Goto, owners, Ports
<1>1. TypeOK'
  <2>1. tries[t] + 1 \in 0 .. MaxTries
    <3>1. tries[t] \in 0 .. MaxTries /\ tries[t] # MaxTries
      BY DEF IInv, TypeOK, PcInv
    <3> QED  BY <3>1
  <2>2. CASE kind[t] = "claim"
    BY <2>2 DEF IInv, TypeOK, PcInv, Steps, Kinds
  <2>3. CASE kind[t] # "claim"
    BY <2>1, <2>3 DEF IInv, TypeOK, PcInv, Steps, Kinds
  <2> QED  BY <2>2, <2>3
<1>2. PcInv'
  BY DEF IInv, TypeOK, PcInv
<1>3. HeldIsUsed'
  BY DEF IInv, TypeOK, PcInv, HeldIsUsed, Disjoint
<1>4. UsedIsHeld'
  BY DEF IInv, TypeOK, PcInv, UsedIsHeld, Disjoint
<1>5. Disjoint'
  BY DEF IInv, TypeOK, PcInv, HeldIsUsed, Disjoint
<1> QED  BY <1>1, <1>2, <1>3, <1>4, <1>5 DEF IInv

\* An exhausted retry loop holds no port.
LEMMA GiveUpInv ==
  ASSUME IInv, NEW t \in Threads, GiveUp(t)
  PROVE  IInv'
<1> USE PortAssumption DEF GiveUp, Return, Goto, pool, owners, Ports
<1>1. TypeOK'
  BY DEF IInv, TypeOK, PcInv, Steps, Kinds
<1>2. PcInv'
  BY DEF IInv, TypeOK, PcInv
<1>3. HeldIsUsed'
  BY DEF IInv, TypeOK, PcInv, HeldIsUsed, Disjoint
<1>4. UsedIsHeld'
  BY DEF IInv, TypeOK, PcInv, UsedIsHeld, Disjoint
<1>5. Disjoint'
  BY DEF IInv, TypeOK, PcInv, HeldIsUsed, Disjoint
<1> QED  BY <1>1, <1>2, <1>3, <1>4, <1>5 DEF IInv

\* Whoever removes a token takes over its port.
LEMMA RemoveTokenInv ==
  ASSUME IInv, NEW t \in Threads, UndoPair(t) \/ CancelReservation(t)
  PROVE  IInv'
<1> USE PortAssumption DEF UndoPair, CancelReservation, RemoveToken, Goto, owners, Ports
<1>1. TypeOK'
  BY DEF IInv, TypeOK, PcInv, Steps, Kinds
<1>2. PcInv'
  BY DEF IInv, TypeOK, PcInv
<1>3. HeldIsUsed'
  BY DEF IInv, TypeOK, PcInv, HeldIsUsed, Disjoint
<1>4. UsedIsHeld'
  <2>1. CASE token[t] \in DOMAIN reservations
    <3>1. /\ used' = used /\ live' = live
          /\ odd[t] = NoPort /\ odd'[t] = reservations[token[t]].port
          /\ port' = port
          /\ \A u \in Threads : u # t => odd'[u] = odd[u]
          /\ \A x \in DOMAIN reservations : x # token[t] =>
               x \in DOMAIN reservations' /\ reservations'[x] = reservations[x]
      BY <2>1 DEF IInv, TypeOK, PcInv
    <3> SUFFICES ASSUME NEW q \in used, q \notin live
                 PROVE  \/ \E x \in DOMAIN reservations' : reservations'[x].port = q
                        \/ \E u \in Threads : port'[u] = q \/ odd'[u] = q
      BY <3>1 DEF UsedIsHeld
    <3>2. q # NoPort
      BY DEF IInv, TypeOK
    <3>3. CASE \E x \in DOMAIN reservations : reservations[x].port = q
      BY <3>1, <3>3
    <3>4. CASE \E u \in Threads : port[u] = q \/ odd[u] = q
      BY <3>1, <3>2, <3>4
    <3> QED  BY <3>3, <3>4 DEF IInv, UsedIsHeld
  <2>2. CASE token[t] \notin DOMAIN reservations
    BY <2>2 DEF IInv, TypeOK, PcInv, UsedIsHeld
  <2> QED  BY <2>1, <2>2
<1>5. Disjoint'
  BY DEF IInv, TypeOK, PcInv, HeldIsUsed, Disjoint
<1> QED  BY <1>1, <1>2, <1>3, <1>4, <1>5 DEF IInv

\* The cancelled reservation's port is released.
LEMMA CancelOddInv ==
  ASSUME IInv, NEW t \in Threads, CancelOdd(t)
  PROVE  IInv'
<1> USE PortAssumption DEF CancelOdd, Goto, owners, Ports
<1>1. TypeOK'
  BY DEF IInv, TypeOK, PcInv, Steps, Kinds
<1>2. PcInv'
  BY DEF IInv, TypeOK, PcInv
<1>3. HeldIsUsed'
  BY DEF IInv, TypeOK, PcInv, HeldIsUsed, Disjoint
<1>4. UsedIsHeld'
  BY DEF IInv, TypeOK, PcInv, UsedIsHeld, Disjoint
<1>5. Disjoint'
  BY DEF IInv, TypeOK, PcInv, HeldIsUsed, Disjoint
<1> QED  BY <1>1, <1>2, <1>3, <1>4, <1>5 DEF IInv

\* Reading the clock moves no port.
LEMMA StartSweepInv ==
  ASSUME IInv, NEW t \in Threads, StartSweep(t) \/ StartClaim(t) \/ SweepLockUsed(t)
  PROVE  IInv'
<1> USE PortAssumption DEF StartSweep, StartClaim, SweepLockUsed, ReadClock, Expired, Goto, pool, owners, locals, Ports
<1>1. TypeOK'
  BY DEF IInv, TypeOK, PcInv, Steps, Kinds
<1>2. PcInv'
  BY DEF IInv, TypeOK, PcInv
<1>3. HeldIsUsed'
  BY DEF IInv, TypeOK, PcInv, HeldIsUsed, Disjoint
<1>4. UsedIsHeld'
  BY DEF IInv, TypeOK, PcInv, UsedIsHeld, Disjoint
<1>5. Disjoint'
  BY DEF IInv, TypeOK, PcInv, HeldIsUsed, Disjoint
<1> QED  BY <1>1, <1>2, <1>3, <1>4, <1>5 DEF IInv

\* The sweep drops tokens together with their ports.
LEMMA SweepExpiredInv ==
  ASSUME IInv, NEW t \in Threads, SweepExpired(t)
  PROVE  IInv'
<1> USE PortAssumption DEF SweepExpired, Goto, owners, Ports
<1>1. TypeOK'
  BY DEF IInv, TypeOK, PcInv, Steps, Kinds
<1>2. PcInv'
  BY DEF IInv, TypeOK, PcInv
<1>3. HeldIsUsed'
  BY DEF IInv, TypeOK, PcInv, HeldIsUsed, Disjoint
<1>4. UsedIsHeld'
  BY DEF IInv, TypeOK, PcInv, UsedIsHeld, Disjoint
<1>5. Disjoint'
  BY DEF IInv, TypeOK, PcInv, HeldIsUsed, Disjoint
<1> QED  BY <1>1, <1>2, <1>3, <1>4, <1>5 DEF IInv

\* Whoever takes the token owns the port (claim_reservation).
LEMMA ClaimTakeInv ==
  ASSUME IInv, NEW t \in Threads, ClaimTake(t)
  PROVE  IInv'
<1> USE PortAssumption DEF ClaimTake, Return, Goto, owners, Ports
<1>1. TypeOK'
  BY DEF IInv, TypeOK, PcInv, Steps, Kinds
<1>2. PcInv'
  BY DEF IInv, TypeOK, PcInv
<1>3. HeldIsUsed'
  BY DEF IInv, TypeOK, PcInv, HeldIsUsed, Disjoint
<1>4. UsedIsHeld'
  <2>1. CASE token[t] \in DOMAIN reservations
    <3>1. /\ used' = used /\ live' = live
          /\ port[t] = NoPort /\ port'[t] = reservations[token[t]].port
          /\ odd' = odd
          /\ \A u \in Threads : u # t => port'[u] = port[u]
          /\ \A x \in DOMAIN reservations : x # token[t] =>
               x \in DOMAIN reservations' /\ reservations'[x] = reservations[x]
      BY <2>1 DEF IInv, TypeOK, PcInv
    <3> SUFFICES ASSUME NEW q \in used, q \notin live
                 PROVE  \/ \E x \in DOMAIN reservations' : reservations'[x].port = q
                        \/ \E u \in Threads : port'[u] = q \/ odd'[u] = q
      BY <3>1 DEF UsedIsHeld
    <3>2. q # NoPort
      BY DEF IInv, TypeOK
    <3>3. CASE \E x \in DOMAIN reservations : reservations[x].port = q
      BY <3>1, <3>3
    <3>4. CASE \E u \in Threads : port[u] = q \/ odd[u] = q
      BY <3>1, <3>2, <3>4
    <3> QED  BY <3>3, <3>4 DEF IInv, UsedIsHeld
  <2>2. CASE token[t] \notin DOMAIN reservations
    BY <2>2 DEF IInv, TypeOK, PcInv, UsedIsHeld
  <2> QED  BY <2>1, <2>2
<1>5. Disjoint'
  BY DEF IInv, TypeOK, PcInv, HeldIsUsed, Disjoint
<1> QED  BY <1>1, <1>2, <1>3, <1>4, <1>5 DEF IInv

\* Commit moves the port from the thread to the store.
LEMMA CreateInv ==
  ASSUME IInv, NEW t \in Threads, CreateOk(t) \/ CreateFails(t)
  PROVE  IInv'
<1> USE PortAssumption DEF CreateOk, CreateFails, Return, Goto, pool, owners, locals, Ports
<1>1. TypeOK'
  BY DEF IInv, TypeOK, PcInv, Steps, Kinds
<1>2. PcInv'
  BY DEF IInv, TypeOK, PcInv
<1>3. HeldIsUsed'
  BY DEF IInv, TypeOK, PcInv, HeldIsUsed, Disjoint
<1>4. UsedIsHeld'
  BY DEF IInv, TypeOK, PcInv, UsedIsHeld, Disjoint
<1>5. Disjoint'
  BY DEF IInv, TypeOK, PcInv, HeldIsUsed, Disjoint
<1> QED  BY <1>1, <1>2, <1>3, <1>4, <1>5 DEF IInv

\* The dropped guard releases the thread's port.
LEMMA ReleaseInv ==
  ASSUME IInv, NEW t \in Threads, Release(t)
  PROVE  IInv'
<1> USE PortAssumption DEF Release, Return, Goto, owners, Ports
<1>1. TypeOK'
  BY DEF IInv, TypeOK, PcInv, Steps, Kinds
<1>2. PcInv'
  BY DEF IInv, TypeOK, PcInv
<1>3. HeldIsUsed'
  BY DEF IInv, TypeOK, PcInv, HeldIsUsed, Disjoint
<1>4. UsedIsHeld'
  BY DEF IInv, TypeOK, PcInv, UsedIsHeld, Disjoint
<1>5. Disjoint'
  BY DEF IInv, TypeOK, PcInv, HeldIsUsed, Disjoint
<1> QED  BY <1>1, <1>2, <1>3, <1>4, <1>5 DEF IInv

\* A removed allocation's port is its remover's to release.
LEMMA RemoveAllocationInv ==
  ASSUME IInv, NEW t \in Threads, RemoveAllocation(t)
  PROVE  IInv'
<1> USE PortAssumption DEF RemoveAllocation, Goto, pool, Ports
<1>1. TypeOK'
  BY DEF IInv, TypeOK, PcInv, Steps, Kinds
<1>2. PcInv'
  BY DEF IInv, TypeOK, PcInv
<1>3. HeldIsUsed'
  BY DEF IInv, TypeOK, PcInv, HeldIsUsed, Disjoint
<1>4. UsedIsHeld'
  BY DEF IInv, TypeOK, PcInv, UsedIsHeld, Disjoint
<1>5. Disjoint'
  BY DEF IInv, TypeOK, PcInv, HeldIsUsed, Disjoint
<1> QED  BY <1>1, <1>2, <1>3, <1>4, <1>5 DEF IInv

\* rehydrate re-claims a port only when it is free.
LEMMA ReserveInv ==
  ASSUME IInv, NEW t \in Threads, Reserve(t)
  PROVE  IInv'
<1> USE PortAssumption DEF Reserve, Goto, owners, Ports
<1>1. TypeOK'
  BY DEF IInv, TypeOK, PcInv, Steps, Kinds
<1>2. PcInv'
  BY DEF IInv, TypeOK, PcInv
<1>3. HeldIsUsed'
  BY DEF IInv, TypeOK, PcInv, HeldIsUsed, Disjoint
<1>4. UsedIsHeld'
  BY DEF IInv, TypeOK, PcInv, UsedIsHeld, Disjoint
<1>5. Disjoint'
  BY DEF IInv, TypeOK, PcInv, HeldIsUsed, Disjoint
<1> QED  BY <1>1, <1>2, <1>3, <1>4, <1>5 DEF IInv

\* The clock moves no port.
LEMMA TickInv ==
  ASSUME IInv, Tick
  PROVE  IInv'
<1> USE PortAssumption DEF Tick, owners, locals, Ports
<1>1. /\ DOMAIN reservations' = DOMAIN reservations
      /\ \A tok \in DOMAIN reservations :
           /\ reservations'[tok] \in [port : Ports, ttl : 0 .. ReservationLifetime]
           /\ reservations'[tok].port = reservations[tok].port
  <2> SUFFICES ASSUME NEW tok \in DOMAIN reservations
               PROVE  LET r == reservations[tok]
                          n == [r EXCEPT !.ttl = IF r.ttl > 0 THEN r.ttl - 1 ELSE 0]
                      IN  /\ n \in [port : Ports, ttl : 0 .. ReservationLifetime]
                          /\ n.port = r.port
    OBVIOUS
  <2>1. reservations[tok] \in [port : Ports, ttl : 0 .. ReservationLifetime]
    BY DEF IInv, TypeOK
  <2> QED  BY <2>1
<1>2. TypeOK'
  BY <1>1 DEF IInv, TypeOK, PcInv, Steps, Kinds
<1>3. PcInv'
  BY <1>1 DEF IInv, TypeOK, PcInv
<1>4. HeldIsUsed'
  BY <1>1 DEF IInv, TypeOK, PcInv, HeldIsUsed, Disjoint
<1>5. UsedIsHeld'
  <2> SUFFICES ASSUME NEW p \in used
               PROVE  \/ p \in live
                      \/ \E tok \in DOMAIN reservations : reservations'[tok].port = p
                      \/ \E t \in Threads : port[t] = p \/ odd[t] = p
    BY <1>1 DEF UsedIsHeld
  <2> QED  BY <1>1 DEF IInv, UsedIsHeld
<1>6. Disjoint'
  BY <1>1 DEF IInv, TypeOK, PcInv, HeldIsUsed, Disjoint
<1> QED  BY <1>2, <1>3, <1>4, <1>5, <1>6 DEF IInv

----------------------------------------------------------------------------
\* Every step of every thread keeps the invariant.
LEMMA NextInv == IInv /\ [Next]_vars => IInv'
<1> SUFFICES ASSUME IInv, [Next]_vars  PROVE IInv'
  OBVIOUS
<1>1. CASE Tick
  BY <1>1, TickInv
<1>2. CASE StartSweep(Sweeper)
  BY <1>2, StartSweepInv, PortAssumption
<1>3. ASSUME NEW t \in Threads, Begin(t)  PROVE IInv'
  BY <1>3, StartAllocateInv, AllocateEvenInv, PairLockUsedInv, StartSweepInv,
     RemoveAllocationInv, ReserveInv DEF Begin
<1>4. ASSUME NEW t \in Threads, Continue(t)  PROVE IInv'
  <2>1. CASE /\ tries[t] < MaxTries
             /\ StartAllocate(t) \/ AllocateEven(t) \/ PairLockUsed(t)
    BY <2>1, StartAllocateInv, AllocateEvenInv, PairLockUsedInv
  <2>2. CASE AllocateScan(t) \/ PairReserve(t)
    BY <2>2, AllocateScanInv, PairReserveInv
  <2>3. CASE BindOk(t) \/ BindFails(t) \/ BindFailedRelease(t) \/ GiveUp(t)
    BY <2>3, BindInv, BindFailedReleaseInv, GiveUpInv
  <2>4. CASE UndoPair(t) \/ CancelReservation(t) \/ CancelOdd(t)
    BY <2>4, RemoveTokenInv, CancelOddInv
  <2>5. CASE SweepLockUsed(t) \/ SweepExpired(t) \/ ClaimTake(t)
    BY <2>5, StartSweepInv, SweepExpiredInv, ClaimTakeInv
  <2>6. CASE CreateOk(t) \/ CreateFails(t) \/ Release(t)
    BY <2>6, CreateInv, ReleaseInv
  <2> QED  BY <1>4, <2>1, <2>2, <2>3, <2>4, <2>5, <2>6 DEF Continue
<1>5. CASE UNCHANGED vars
  BY <1>5 DEF vars, IInv, TypeOK, PcInv, HeldIsUsed, UsedIsHeld, Disjoint
<1> QED  BY <1>1, <1>2, <1>3, <1>4, <1>5 DEF Next

\* The invariant holds in every reachable state of the pool.
THEOREM PoolInvariant == Spec => []IInv
  BY InitInv, NextInv, PTL DEF Spec

\* The pool's state has its type: in particular the cursor and every port handed
\* out stay in the configured range (allocate, allocate_even, Advance).
THEOREM PoolTypeCorrect == Spec => []TypeOK
<1>1. IInv => TypeOK
  BY DEF IInv
<1> QED  BY <1>1, PoolInvariant, PTL

\* A port of the pool has at most one holder, for every number of threads and
\* tokens and every range: no interleaving of Allocate, claim, sweep, cancel and
\* release hands one relay port to two allocations.
THEOREM PoolPortHeldOnce == Spec => []PortHeldOnce
<1>1. IInv => PortHeldOnce
  BY PortAssumption
  DEF IInv, TypeOK, Disjoint, PortHeldOnce, InHand, Reserved, Ports
<1> QED  BY <1>1, PoolInvariant, PTL

\* A port marked used always has a holder that will release it, and a held port
\* is always marked used: the pool neither leaks nor forgets a port.
THEOREM PoolNoLeak == Spec => []NoPortLeak
<1>1. IInv => NoPortLeak
  <2> SUFFICES ASSUME IInv  PROVE NoPortLeak
    OBVIOUS
  <2>1. \A p : p \in used =>
              p \in live \cup Reserved \cup UNION {InHand(t) : t \in Threads}
    <3> SUFFICES ASSUME NEW p \in used,
                        p \notin live \cup Reserved
                 PROVE  \E t \in Threads : p \in InHand(t)
      OBVIOUS
    <3>1. p # NoPort
      BY PortAssumption DEF IInv, TypeOK
    <3> QED  BY <3>1 DEF IInv, UsedIsHeld, Reserved, InHand
  <2>2. \A p : p \in live \cup Reserved => p \in used
    BY DEF IInv, HeldIsUsed, Reserved
  <2>3. \A t \in Threads : InHand(t) \subseteq used
    BY DEF IInv, HeldIsUsed, InHand
  <2> QED  BY <2>1, <2>2, <2>3 DEF NoPortLeak
<1> QED  BY <1>1, PoolInvariant, PTL
============================================================================
