-------------------------- MODULE ManagementProofs --------------------------
(***************************************************************************)
(* For any number of calls, documents, faults and incarnations: the types; *)
(* that a running node runs with what its durable state calls observed, if *)
(* no reply to a confirmation is lost; and, if the journal can be read and *)
(* keys outlive their retries, that the management plane implements        *)
(* CommandContract and tells callers the truth.                            *)
(***************************************************************************)
EXTENDS Management, TLAPS

Steps == {"tick", "next", "replay", "load", "lookup", "cas", "confirm", "rollback", "record",
          "readback", "complete", "list", "stale", "finalize"}

\* The steps at which the loop has a versioned command at hand.
Handling == {"replay", "load", "lookup", "cas", "confirm", "rollback", "record", "readback"}

Shapes ==
    /\ log \in [Calls -> Rows \cup {None}] /\ idem \in [Keys -> Records \cup {None}]
    /\ doc \in [Docs -> States \cup {None}] /\ applied \in [Calls -> Nat]
    /\ ask \in [Calls -> Requests \cup {None}]
    /\ poll \in [Calls -> Calls \cup {None, "refused"}]
    /\ inc \in 0 .. MaxInc /\ adv \in 0 .. inc /\ up \in BOOLEAN
    /\ ram \in [Docs -> Snapshots] /\ prev \in Snapshots
    /\ draining \in BOOLEAN /\ stopping \in BOOLEAN
    /\ pc \in Steps /\ batch \in SUBSET Claims /\ cur \in Claims \cup {None}
    /\ out \in Results \cup {None}
    /\ faults \in 0 .. MaxFaults

\* A row is of a call that was made, to an incarnation there was.
RowSane(c) ==
    log[c] # None =>
        /\ ask[c] # None
        /\ log[c].inc \in 1 .. inc /\ log[c].tries \in 0 .. MaxAttempts
        /\ Terminal(log[c]) <=> log[c].res # None

\* A key remembers the call that came first with it.
RecordSane(k) ==
    idem[k] # None =>
        /\ ask[idem[k].req] # None /\ KeyOf(idem[k].req) = k
        /\ idem[k].pay = Command(idem[k].req)
        /\ idem[k].final = "" <=> idem[k].res = None

\* At most one change of a document is under way.
StateSane(d) ==
    doc[d] # None =>
        /\ doc[d].dv \in {doc[d].ov, doc[d].ov + 1}
        /\ doc[d].last = None <=> doc[d].lastRes = None
        /\ doc[d].last # None => ask[doc[d].last] # None

\* The loop has a command and a result where its step needs them.
LoopSane ==
    /\ \A b \in batch : ask[b.req] # None
    /\ pc \in Handling \cup {"complete", "finalize"} => cur # None /\ ask[cur.req] # None
    /\ pc \in Handling => Versioned(cur.req)
    /\ pc \in {"record", "readback", "complete", "finalize"} => out # None
    /\ up => doc["config"] # None
    /\ ~up => pc = "tick" /\ batch = {}
    /\ pc = "confirm" =>
          LET d == Command(cur.req).doc
          IN  doc[d] # None /\ ram[d].ver = doc[d].ov + 1 /\ doc[d].dv = ram[d].ver

Typed ==
    /\ Shapes /\ LoopSane
    /\ \A c \in Calls : RowSane(c)
    /\ \A k \in Keys : RecordSane(k)
    /\ \A d \in Docs : StateSane(d)

----------------------------------------------------------------------------
(* RunningIsObserved *)

\* No reply to a confirmation is lost.
ConfirmHeard == <<"confirm", "reply">> \notin Faults

\* Every document but the one being confirmed, and what that one is rolled back to.
Runs(d) ==
    /\ doc[d] = None => ram[d] = Boot
    /\ doc[d] # None =>
          IF pc = "confirm" /\ d = Command(cur.req).doc
          THEN prev = Confirmed(doc[d]) ELSE ram[d] = Confirmed(doc[d])
Running == up => \A d \in Docs : Runs(d)

----------------------------------------------------------------------------
(* OneFate and AnswerTruthful *)

\* The journal can be read, and no key goes before its retries came.
JournalSound ==
    /\ \A call \in {"get_idempotency", "stale_lookup"} :
          <<call, "request">> \notin Faults /\ <<call, "reply">> \notin Faults
    /\ ~Outlived

Decided(k) == idem[k] # None /\ idem[k].final # ""
Open(c) == log[c] # None /\ ~Terminal(log[c])

\* No call is left that could use a key again.
Exhausted(k) == \A c \in Calls : ask[c] = None => \A m \in Menu[c] : m.key # k

\* A row and its key belong together while the row is there.
RowKeyed(c) ==
    log[c] # None =>
        LET rec == idem[KeyOf(c)] IN
        /\ rec # None /\ rec.req = c
        /\ Open(c) /\ Decided(KeyOf(c)) => Versioned(c) /\ rec.res.st # "dead_letter"
        /\ log[c].status = "done" => rec.res = log[c].res

\* A key that was used and forgotten is not used again.
KeysSpent == \A c \in Calls : ask[c] # None /\ idem[KeyOf(c)] = None => Exhausted(KeyOf(c))

\* A waiting call waits for the request its key remembers.
PollSane(c) ==
    poll[c] \in Calls =>
        /\ ask[c] # None /\ ask[poll[c]] # None
        /\ KeyOf(poll[c]) = KeyOf(c)
        /\ idem[KeyOf(c)] # None => idem[KeyOf(c)].req = poll[c]

\* An operation was confirmed once if its key says so, and otherwise never.
AppliedSane(k) ==
    idem[k] # None =>
        applied[idem[k].req] = IF Decided(k) /\ idem[k].res.st = "applied" THEN 1 ELSE 0

\* The last applied operation of a document is in the journal.
LastSane(d) ==
    doc[d] # None /\ doc[d].last # None =>
        LET k == KeyOf(doc[d].last) IN
        idem[k] # None => Decided(k) /\ idem[k].res = doc[d].lastRes

\* The rows at hand are open, and no two of them are one.
Claimed ==
    /\ pc # "tick" => \A b \in batch : Open(b.req)
    /\ \A b1, b2 \in batch : b1.req = b2.req => b1 = b2
    /\ pc \in Handling \cup {"complete", "finalize"} =>
          Open(cur.req) /\ \A b \in batch : b.req # cur.req

\* What the loop knows about the key of the command at hand.
AtHand ==
    LET k == KeyOf(cur.req) IN
    /\ pc \in {"cas", "confirm"} => ~Decided(k)
    /\ pc = "record" => out.st \notin {"applied", "dead_letter"}
    /\ pc \in {"complete", "finalize"} =>
          IF Decided(k) THEN out = idem[k].res ELSE out.st # "applied"

Books ==
    /\ \A c \in Calls : RowKeyed(c) /\ PollSane(c) /\ (ask[c] = None => applied[c] = 0)
    /\ \A k \in Keys : AppliedSane(k)
    /\ \A d \in Docs : LastSane(d)
    /\ KeysSpent

Journaling == Books /\ Claimed /\ AtHand

----------------------------------------------------------------------------
(* The records and their updates *)

\* What a request carries.
LEMMA RequestFields ==
    ASSUME NEW m \in Requests
    PROVE  /\ m # None /\ m.key \in Keys /\ m.cmd \in {x.cmd : x \in Requests}
           /\ m.cmd.value \in Values
           /\ m.cmd.op \in {"update_config", "set_user_limits"} => m.cmd.doc \in Docs
  <1>1. PICK c \in Calls : m \in Menu[c]
    BY DEF Requests
  <1>2. /\ m.cmd.op = "update_config" => m.cmd.doc = "config"
        /\ m.cmd.op = "set_user_limits" => m.cmd.doc \in Limits
    BY <1>1, ManagementAssumption
  <1>3. m # None
    BY ManagementAssumption
  <1> QED
    BY <1>2, <1>3 DEF Keys, Values, Docs

\* What a result carries.
LEMMA ResultFields ==
    /\ \A st \in Outcomes, ver \in Nat : Result(st, ver) \in Results
    /\ \A st, ver : Result(st, ver).st = st /\ Result(st, ver).ver = ver
    /\ \A r \in Results : r # None /\ r.st \in Outcomes /\ r.ver \in Nat
  BY ManagementAssumption DEF Result, Results

\* What a snapshot of a document carries.
LEMMA SnapshotFields ==
    /\ Boot \in Snapshots
    /\ \A s \in Snapshots : s.ver \in Nat /\ s.val \in Values
    /\ \A ver \in Nat, val \in Values : [ver |-> ver, val |-> val] \in Snapshots
  BY DEF Boot, Snapshots, Values

\* What a row of the command log carries.
LEMMA RowFields ==
    ASSUME NEW r \in Rows
    PROVE  /\ r # None /\ r.inc \in Nat /\ r.res \in Results \cup {None} /\ r.tries \in Nat
           /\ r.lease \in BOOLEAN
           /\ r.status \in {"pending", "in_progress", "done", "failed"}
  BY ManagementAssumption DEF Rows

\* A row ends, a lease is taken or runs out.
LEMMA RowUpdates ==
    ASSUME NEW r \in Rows
    PROVE  /\ LET t == [r EXCEPT !.lease = FALSE] IN
              /\ t \in Rows /\ t.inc = r.inc /\ t.res = r.res /\ t.tries = r.tries
              /\ t.status = r.status
           /\ LET t == [r EXCEPT !.status = "in_progress", !.lease = TRUE, !.tries = @ + 1] IN
              /\ t \in Rows /\ t.inc = r.inc /\ t.res = r.res /\ t.tries = r.tries + 1
              /\ t.status = "in_progress"
  <1>1. LET t == [r EXCEPT !.lease = FALSE] IN
        /\ t \in Rows /\ t.inc = r.inc /\ t.res = r.res /\ t.tries = r.tries
        /\ t.status = r.status
    BY DEF Rows
  <1> DEFINE n == r.tries + 1
             t == [r EXCEPT !.status = "in_progress", !.lease = TRUE, !.tries = n]
  <1>2. n \in Nat
    BY RowFields
  <1> HIDE DEF n
  <1>3. t \in Rows /\ t.inc = r.inc /\ t.res = r.res /\ t.tries = n /\ t.status = "in_progress"
    BY <1>2 DEF Rows
  <1> QED
    BY <1>1, <1>3 DEF n

\* The row that enqueue writes.
LEMMA NewRow ==
    ASSUME NEW i \in Nat
    PROVE  LET r == [inc |-> i, status |-> "pending", res |-> None, lease |-> FALSE, tries |-> 0]
           IN  /\ r \in Rows /\ r.inc = i /\ r.status = "pending" /\ r.res = None /\ r.tries = 0
  BY DEF Rows

\* What a row of the idempotency journal carries.
LEMMA RecordFields ==
    ASSUME NEW r \in Records
    PROVE  /\ r # None /\ r.req \in Calls /\ r.res \in Results \cup {None}
           /\ r.final \in {"", "done", "failed"}
  BY ManagementAssumption DEF Records

\* The journal row that enqueue opens.
LEMMA NewRecord ==
    ASSUME NEW c \in Calls, NEW p \in {m.cmd : m \in Requests}
    PROVE  LET r == [req |-> c, pay |-> p, final |-> "", res |-> None]
           IN  r \in Records /\ r.req = c /\ r.pay = p /\ r.final = "" /\ r.res = None
  BY DEF Records

\* What a desired-state document carries.
LEMMA StateFields ==
    ASSUME NEW s \in States
    PROVE  /\ s # None /\ s.inc \in Nat /\ s.dv \in Nat /\ s.dval \in Values
           /\ s.ov \in Nat /\ s.oval \in Values
           /\ s.last \in Calls \cup {None} /\ s.lastRes \in Results \cup {None}
           /\ s.status \in {"observed", "applying", "failed"}
  BY ManagementAssumption DEF States

\* The document of a node that has none.
LEMMA FreshFields ==
    ASSUME NEW i \in Nat
    PROVE  /\ Fresh(i) \in States /\ Fresh(i).dv = 0 /\ Fresh(i).ov = 0 /\ Fresh(i).oval = 0
           /\ Fresh(i).last = None /\ Fresh(i).lastRes = None
  BY DEF Fresh, States, Values

\* A restart changes neither the versions nor the last command of a document.
LEMMA RestoredFields ==
    ASSUME NEW s \in States, inc \in Nat
    PROVE  /\ Restored(s) \in States
           /\ Restored(s).dv = s.dv /\ Restored(s).ov = s.ov /\ Restored(s).oval = s.oval
           /\ Restored(s).last = s.last /\ Restored(s).lastRes = s.lastRes
  <1> DEFINE st == IF s.status # "observed" \/ s.dv # s.ov THEN "failed" ELSE s.status
  <1>1. st \in {"observed", "applying", "failed"}
    BY StateFields
  <1> DEFINE i == inc + 1
             t == [s EXCEPT !.inc = i, !.status = st]
  <1>2. Restored(s) = t
    BY DEF Restored
  <1>3. i \in Nat
    OBVIOUS
  <1> HIDE DEF st, i
  <1>4. /\ t \in States /\ t.dv = s.dv /\ t.ov = s.ov /\ t.oval = s.oval
        /\ t.last = s.last /\ t.lastRes = s.lastRes
    BY <1>1, <1>3 DEF States
  <1> QED
    BY <1>2, <1>4

\* The snapshot a restart starts from is the confirmed one.
LEMMA ConfirmedFields ==
    ASSUME NEW s \in States
    PROVE  /\ Confirmed(s) \in Snapshots
           /\ Confirmed(s).ver = s.ov /\ Confirmed(s).val = s.oval
  BY StateFields DEF Confirmed, Snapshots

\* What the claim of a command carries.
LEMMA ClaimFields ==
    /\ \A b \in Claims : b.req \in Calls /\ b.tok \in Nat
    /\ \A c \in Calls, t \in Nat : [req |-> c, tok |-> t] \in Claims
                                   /\ [req |-> c, tok |-> t].req = c
  BY DEF Claims

\* A backend call that is seen was done, and a fault it meets is within the bound.
LEMMA RepliesCounted ==
    ASSUME Shapes, NEW name, NEW r \in Replies(name), Count(r)
    PROVE  /\ faults' \in 0 .. MaxFaults
           /\ r.done \in BOOLEAN /\ r.seen \in BOOLEAN
           /\ r.seen => r.done
  <1>1. CASE r = [done |-> TRUE, seen |-> TRUE]
    BY <1>1, ManagementAssumption DEF Count, Shapes
  <1>2. CASE r # [done |-> TRUE, seen |-> TRUE]
    <2>1. faults # MaxFaults /\ r \in [done : BOOLEAN, seen : {FALSE}]
      BY <1>2, Zenon DEF Replies
    <2>2. r.done \in BOOLEAN /\ r.seen = FALSE
      BY <2>1
    <2>3. faults' = faults + 1
      BY <2>2 DEF Count
    <2>4. faults' \in 0 .. MaxFaults
      BY <2>1, <2>3, ManagementAssumption DEF Shapes
    <2> QED
      BY <2>2, <2>4
  <1> QED
    BY <1>1, <1>2

\* A lost reply, and a request that is lost, are among the faults.
LEMMA RepliesLost ==
    ASSUME NEW name, NEW r \in Replies(name), ~r.seen
    PROVE  <<name, IF r.done THEN "reply" ELSE "request">> \in Faults
  <1>1. r # [done |-> TRUE, seen |-> TRUE]
    OBVIOUS
  <1> QED
    BY <1>1, Zenon DEF Replies

\* What Mirror leaves and what it writes.
LEMMA Mirrored ==
    ASSUME Typed, NEW k \in Keys, NEW x \in Results, idem' = Mirror(k, "done", x)
    PROVE  /\ idem' \in [Keys -> Records \cup {None}]
           /\ \A j \in Keys : j # k => idem'[j] = idem[j]
           /\ idem[k] = None \/ idem[k].final # "" => idem'[k] = idem[k]
           /\ idem[k] # None /\ idem[k].final = "" =>
                 /\ idem'[k] # None /\ idem'[k].req = idem[k].req /\ idem'[k].pay = idem[k].pay
                 /\ idem'[k].final = "done" /\ idem'[k].res = x
  <1>1. idem \in [Keys -> Records \cup {None}]
    BY DEF Typed, Shapes
  <1>2. CASE idem[k] # None /\ idem[k].final = ""
    <2> DEFINE r == idem[k]
               t == [r EXCEPT !.final = "done", !.res = x]
    <2>0. r \in Records /\ r = idem[k] /\ t = [r EXCEPT !.final = "done", !.res = x]
      BY <1>1, <1>2
    <2>2. idem' = [idem EXCEPT ![k] = t]
      BY <1>2, <1>1 DEF Mirror
    <2> HIDE DEF r, t
    <2>1. t \in Records /\ t.req = idem[k].req /\ t.pay = idem[k].pay /\ t.final = "done"
          /\ t.res = x
      BY <2>0 DEF Records
    <2>3. t # None
      BY <2>1, RecordFields
    <2> QED
      BY <1>1, <1>2, <2>0, <2>1, <2>2, <2>3
  <1>3. CASE ~(idem[k] # None /\ idem[k].final = "")
    BY <1>1, <1>3 DEF Mirror
  <1> QED
    BY <1>2, <1>3

----------------------------------------------------------------------------
(* What a step that leaves a part alone keeps of it *)

AskGrows == \A c \in Calls : ask[c] # None => ask'[c] = ask[c]

\* A row of the log that a step leaves alone stays sane.
LEMMA RowKept ==
    ASSUME Typed, AskGrows, inc \in Nat, inc' \in Nat, inc <= inc',
           NEW c \in Calls, log'[c] = log[c]
    PROVE  RowSane(c)'
  <1>1. RowSane(c)
    BY DEF Typed
  <1> SUFFICES ASSUME log[c] # None PROVE RowSane(c)'
    BY DEF RowSane
  <1>2. ask[c] # None /\ ask'[c] = ask[c]
    BY <1>1 DEF RowSane, AskGrows
  <1>3. log[c].inc \in 1 .. inc'
    BY <1>1 DEF RowSane
  <1> QED
    BY <1>1, <1>2, <1>3 DEF RowSane, Terminal

\* A journal row that a step leaves alone stays sane.
LEMMA RecordKept ==
    ASSUME Typed, AskGrows, NEW k \in Keys, idem'[k] = idem[k]
    PROVE  RecordSane(k)'
  <1>1. RecordSane(k) /\ idem \in [Keys -> Records \cup {None}]
    BY DEF Typed, Shapes
  <1> SUFFICES ASSUME idem[k] # None PROVE RecordSane(k)'
    BY DEF RecordSane
  <1>2. idem[k].req \in Calls
    BY <1>1, RecordFields
  <1>3. ask[idem[k].req] # None /\ ask'[idem[k].req] = ask[idem[k].req]
    BY <1>1, <1>2 DEF RecordSane, AskGrows
  <1> QED
    BY <1>1, <1>3 DEF RecordSane, KeyOf, Command

\* A document that a step leaves alone stays sane.
LEMMA StateKept ==
    ASSUME Typed, AskGrows, NEW d \in Docs, doc'[d] = doc[d]
    PROVE  StateSane(d)'
  <1>1. StateSane(d) /\ doc \in [Docs -> States \cup {None}]
    BY DEF Typed, Shapes
  <1> SUFFICES ASSUME doc[d] # None PROVE StateSane(d)'
    BY DEF StateSane
  <1>2. doc[d].last # None => ask[doc[d].last] # None /\ ask'[doc[d].last] = ask[doc[d].last]
    BY <1>1, StateFields DEF StateSane, AskGrows
  <1> QED
    BY <1>1, <1>2 DEF StateSane

\* The loop stays sane while neither it nor the documents change.
LEMMA LoopKept ==
    ASSUME Typed, AskGrows, UNCHANGED <<doc, loop, up, ram>>
    PROVE  LoopSane'
  <1>1. LoopSane /\ batch \in SUBSET Claims /\ cur \in Claims \cup {None}
    BY DEF Typed, Shapes
  <1>2. \A b \in batch : b.req \in Calls /\ ask'[b.req] = ask[b.req]
    BY <1>1, ClaimFields DEF LoopSane, AskGrows
  <1>3. pc \in Handling \cup {"complete", "finalize"} => ask'[cur.req] = ask[cur.req]
    BY <1>1, ClaimFields DEF LoopSane, AskGrows
  <1>4. /\ doc' = doc /\ up' = up /\ ram' = ram
        /\ pc' = pc /\ batch' = batch /\ cur' = cur /\ out' = out
    BY DEF loop
  <1>5. \A b \in batch' : ask'[b.req] # None
    BY <1>1, <1>2, <1>4 DEF LoopSane
  <1>6. pc \in Handling \cup {"complete", "finalize"} => cur # None /\ ask'[cur.req] # None
    BY <1>1, <1>3 DEF LoopSane
  <1>7. pc \in Handling => Versioned(cur.req)'
    BY <1>1, <1>3, <1>4 DEF LoopSane, Versioned, Command
  <1>8. pc = "confirm" =>
          LET d == Command(cur.req)'.doc
          IN  doc[d] # None /\ ram[d].ver = doc[d].ov + 1 /\ doc[d].dv = ram[d].ver
    BY <1>1, <1>3, <1>4 DEF LoopSane, Command, Handling
  <1> QED
    BY <1>1, <1>4, <1>5, <1>6, <1>7, <1>8 DEF LoopSane, Command

\* A step of the loop within a command, and one that leaves the command.
LEMMA LoopHandles ==
    ASSUME Typed, up, up' = up, pc \in Handling, UNCHANGED <<ask, batch, cur>>,
           doc'["config"] # None,
           pc' \in (Handling \ {"confirm"}) \cup {"complete"},
           pc' \in {"record", "readback", "complete"} => out' # None
    PROVE  LoopSane'
  <1>1. LoopSane
    BY DEF Typed
  <1>2. cur # None /\ ask[cur.req] # None /\ Versioned(cur.req)
    BY <1>1 DEF LoopSane
  <1>3. Versioned(cur.req)'
    BY <1>2 DEF Versioned, Command
  <1>4. \A b \in batch' : ask'[b.req] # None
    BY <1>1 DEF LoopSane
  <1> QED
    BY <1>2, <1>3, <1>4 DEF LoopSane, Handling

\* Between two commands the loop needs its documents only.
LEMMA LoopLeaves ==
    ASSUME up', doc'["config"] # None, pc' \in {"tick", "next", "list", "stale"},
           \A b \in batch' : ask'[b.req] # None
    PROVE  LoopSane'
  BY DEF LoopSane, Handling

\* What a step does not write stays sane.
LEMMA RestKept ==
    ASSUME Typed, AskGrows
    PROVE  /\ UNCHANGED <<log, inc>> => \A c \in Calls : RowSane(c)'
           /\ UNCHANGED idem => \A k \in Keys : RecordSane(k)'
           /\ UNCHANGED doc => \A d \in Docs : StateSane(d)'
  <1>1. ASSUME UNCHANGED <<log, inc>>, NEW c \in Calls PROVE RowSane(c)'
    BY <1>1, RowKept DEF Typed, Shapes
  <1>2. ASSUME UNCHANGED idem, NEW k \in Keys PROVE RecordSane(k)'
    BY <1>2, RecordKept
  <1>3. ASSUME UNCHANGED doc, NEW d \in Docs PROVE StateSane(d)'
    BY <1>3, StateKept
  <1> QED
    BY <1>1, <1>2, <1>3

----------------------------------------------------------------------------
(* Types: the control plane, start and end *)

\* Enqueue keeps the types.
LEMMA TypeEnqueue ==
    ASSUME Typed, NEW c \in Calls, Enqueue(c)
    PROVE  Typed'
  <1>0. /\ Shapes /\ adv \in Nat \ {0} /\ inc \in Nat /\ adv <= inc /\ ask[c] = None
        /\ UNCHANGED <<doc, applied, ram, draining, stopping, pc, batch, cur, prev, out,
                       up, inc, adv, faults>>
    <2>1. Shapes /\ adv # 0 /\ ask[c] = None
      BY DEF Typed, Enqueue
    <2>2. UNCHANGED <<doc, applied, ram, draining, stopping, pc, batch, cur, prev, out,
                      up, inc, adv, faults>>
      BY DEF Enqueue, node, loop, process
    <2> QED
      BY <2>1, <2>2, ManagementAssumption DEF Shapes
  <1> DEFINE row == [inc |-> adv, status |-> "pending", res |-> None, lease |-> FALSE,
                     tries |-> 0]
             new(m) == [req |-> c, pay |-> m.cmd, final |-> "", res |-> None]
  <1>1. PICK m \in Menu[c] :
           /\ ask' = [ask EXCEPT ![c] = m]
           /\ \/ /\ idem[m.key] = None
                 /\ idem' = [idem EXCEPT ![m.key] = new(m)]
                 /\ log' = [log EXCEPT ![c] = row]
                 /\ poll' = [poll EXCEPT ![c] = c]
              \/ /\ idem[m.key] # None
                 /\ poll' = [poll EXCEPT ![c] = idem[m.key].req]
                 /\ UNCHANGED <<idem, log>>
              \/ /\ poll' = [poll EXCEPT ![c] = "refused"]
                 /\ UNCHANGED <<idem, log>>
    BY DEF Enqueue
  <1>2. m \in Requests /\ m # None /\ m.key \in Keys /\ m.cmd \in {x.cmd : x \in Requests}
    BY RequestFields DEF Requests
  <1>3. /\ row \in Rows /\ row.inc = adv /\ row.status = "pending" /\ row.res = None
        /\ row.tries = 0
    BY <1>0, NewRow
  <1>4. /\ new(m) \in Records /\ new(m).req = c /\ new(m).pay = m.cmd /\ new(m).final = ""
        /\ new(m).res = None
    BY <1>2, NewRecord
  <1> HIDE DEF row, new
  <1>5. AskGrows /\ ask' \in [Calls -> Requests \cup {None}] /\ ask'[c] = m
    BY <1>0, <1>1, <1>2 DEF AskGrows, Shapes
  <1>6. Shapes'
    <2>1. idem[m.key] # None => idem[m.key].req \in Calls
      BY <1>0, <1>2, RecordFields DEF Shapes
    <2>2. poll' \in [Calls -> Calls \cup {None, "refused"}]
      BY <1>0, <1>1, <2>1 DEF Shapes
    <2>3. log' \in [Calls -> Rows \cup {None}]
      BY <1>0, <1>1, <1>3 DEF Shapes
    <2>4. idem' \in [Keys -> Records \cup {None}]
      BY <1>0, <1>1, <1>2, <1>4 DEF Shapes
    <2> QED
      BY <1>0, <1>5, <2>2, <2>3, <2>4 DEF Shapes
  <1>7. ASSUME NEW x \in Calls PROVE RowSane(x)'
    <2>1. CASE log'[x] = log[x]
      BY <2>1, <1>0, <1>5, RowKept
    <2>2. CASE log'[x] # log[x]
      <3>1. x = c /\ log'[x] = row
        BY <2>2, <1>0, <1>1 DEF Shapes
      <3>2. row.inc \in 1 .. inc /\ row.tries \in 0 .. MaxAttempts
        BY <1>0, <1>3, ManagementAssumption
      <3> QED
        BY <3>1, <3>2, <1>0, <1>3, <1>5, <1>2 DEF RowSane, Terminal
    <2> QED
      BY <2>1, <2>2
  <1>8. ASSUME NEW k \in Keys PROVE RecordSane(k)'
    <2>1. CASE idem'[k] = idem[k]
      BY <2>1, <1>5, RecordKept
    <2>2. CASE idem'[k] # idem[k]
      <3>1. k = m.key /\ idem'[k] = new(m)
        BY <2>2, <1>0, <1>1 DEF Shapes
      <3> QED
        BY <3>1, <1>2, <1>4, <1>5 DEF RecordSane, KeyOf, Command
    <2> QED
      BY <2>1, <2>2
  <1>9. \A d \in Docs : StateSane(d)'
    BY <1>0, <1>5, RestKept
  <1>10. LoopSane'
    BY <1>0, <1>5, LoopKept DEF loop
  <1> QED
    BY <1>6, <1>7, <1>8, <1>9, <1>10 DEF Typed

\* CollectRow keeps the types.
LEMMA TypeCollectRow ==
    ASSUME Typed, NEW c \in Calls, CollectRow(c)
    PROVE  Typed'
  <1>0. /\ Shapes /\ AskGrows /\ log' = [log EXCEPT ![c] = None]
        /\ UNCHANGED <<idem, doc, applied, ram, draining, stopping, pc, batch, cur, prev, out,
                       up, inc, adv, faults, ask, poll>>
    BY DEF Typed, CollectRow, node, loop, process, AskGrows
  <1>1. Shapes'
    BY <1>0 DEF Shapes
  <1>2. ASSUME NEW x \in Calls PROVE RowSane(x)'
    <2>1. log'[x] = log[x] \/ log'[x] = None
      BY <1>0 DEF Shapes
    <2> QED
      BY <1>0, <2>1, RowKept DEF RowSane, Shapes
  <1>3. LoopSane'
    BY <1>0, LoopKept DEF loop
  <1> QED
    BY <1>0, <1>1, <1>2, <1>3, RestKept DEF Typed

\* CollectKey keeps the types.
LEMMA TypeCollectKey ==
    ASSUME Typed, NEW k \in Keys, CollectKey(k)
    PROVE  Typed'
  <1>0. /\ Shapes /\ AskGrows /\ idem' = [idem EXCEPT ![k] = None]
        /\ UNCHANGED <<log, doc, applied, ram, draining, stopping, pc, batch, cur, prev, out,
                       up, inc, adv, faults, ask, poll>>
    BY DEF Typed, CollectKey, node, loop, process, AskGrows
  <1>1. Shapes'
    BY <1>0 DEF Shapes
  <1>2. ASSUME NEW x \in Keys PROVE RecordSane(x)'
    <2>1. idem'[x] = idem[x] \/ idem'[x] = None
      BY <1>0 DEF Shapes
    <2> QED
      BY <1>0, <2>1, RecordKept DEF RecordSane
  <1>3. LoopSane'
    BY <1>0, LoopKept DEF loop
  <1> QED
    BY <1>0, <1>1, <1>2, <1>3, RestKept DEF Typed

\* LeaseExpires keeps the types.
LEMMA TypeLeaseExpires ==
    ASSUME Typed, NEW c \in Calls, LeaseExpires(c)
    PROVE  Typed'
  <1> DEFINE r == log[c]
             t == [r EXCEPT !.lease = FALSE]
  <1>0. /\ Shapes /\ AskGrows /\ log' = [log EXCEPT ![c] = t] /\ r # None
        /\ UNCHANGED <<idem, doc, applied, ram, draining, stopping, pc, batch, cur, prev, out,
                       up, inc, adv, faults, ask, poll>>
    BY DEF Typed, LeaseExpires, node, loop, process, AskGrows
  <1>1. /\ r \in Rows
        /\ t \in Rows /\ t.inc = r.inc /\ t.res = r.res /\ t.tries = r.tries
        /\ t.status = r.status
    BY <1>0, RowUpdates DEF Shapes
  <1>2. t # None
    BY <1>1, RowFields
  <1> HIDE DEF t
  <1>3. Shapes'
    BY <1>0, <1>1 DEF Shapes
  <1>4. ASSUME NEW x \in Calls PROVE RowSane(x)'
    <2>1. CASE x # c
      BY <1>0, <2>1, RowKept DEF Shapes
    <2>2. CASE x = c
      <3>1. log'[c] = t /\ RowSane(c)
        BY <1>0 DEF Shapes, Typed
      <3> QED
        BY <2>2, <3>1, <1>0, <1>1 DEF RowSane, Terminal
    <2> QED
      BY <2>1, <2>2
  <1>5. LoopSane'
    BY <1>0, LoopKept DEF loop
  <1> QED
    BY <1>0, <1>3, <1>4, <1>5, RestKept DEF Typed

\* Heartbeat keeps the types.
LEMMA TypeHeartbeat ==
    ASSUME Typed, Heartbeat
    PROVE  Typed'
  <1>0. /\ Shapes /\ AskGrows /\ adv' = inc
        /\ UNCHANGED <<log, idem, doc, applied, ram, draining, stopping, pc, batch, cur, prev,
                       out, up, inc, faults, ask, poll>>
    BY DEF Typed, Heartbeat, node, loop, backend, AskGrows
  <1>1. Shapes'
    BY <1>0 DEF Shapes
  <1>2. LoopSane'
    BY <1>0, LoopKept DEF loop
  <1> QED
    BY <1>0, <1>1, <1>2, RestKept DEF Typed

\* Exit keeps the types.
LEMMA TypeExit ==
    ASSUME Typed, Exit
    PROVE  Typed'
  <1>0. /\ Shapes /\ AskGrows
        /\ UNCHANGED <<log, idem, doc, applied, ask, poll, inc, adv, faults>>
        /\ up' = FALSE /\ draining' = FALSE /\ stopping' = FALSE
        /\ ram' = [d \in Docs |-> Boot]
        /\ pc' = "tick" /\ batch' = {} /\ cur' = None /\ prev' = Boot /\ out' = None
    BY DEF Typed, Exit, backend, AskGrows
  <1>1. Shapes'
    BY <1>0, SnapshotFields DEF Shapes, Steps
  <1>2. LoopSane'
    BY <1>0 DEF LoopSane, Handling
  <1> QED
    BY <1>0, <1>1, <1>2, RestKept DEF Typed

\* Restart keeps the types.
LEMMA TypeRestart ==
    ASSUME Typed, Restart
    PROVE  Typed'
  <1>0. /\ Shapes /\ AskGrows /\ up' = TRUE /\ inc' = inc + 1 /\ inc' \in 0 .. MaxInc
        /\ inc \in Nat /\ inc' \in Nat /\ inc <= inc' /\ ~up
        /\ doc' = [d \in Docs |->
              CASE doc[d] # None -> Restored(doc[d])
                [] doc[d] = None /\ d = "config" -> Fresh(inc + 1)
                [] OTHER -> None]
        /\ ram' = [d \in Docs |-> IF doc[d] = None THEN Boot ELSE Confirmed(doc[d])]
        /\ UNCHANGED <<log, idem, applied, draining, stopping, pc, batch, cur, prev, out,
                       adv, faults, ask, poll>>
    BY ManagementAssumption DEF Typed, Shapes, Restart, loop, AskGrows
  <1>1. ASSUME NEW d \in Docs
        PROVE  /\ doc[d] # None => doc'[d] = Restored(doc[d])
               /\ doc[d] = None => doc'[d] \in {Fresh(inc + 1), None}
               /\ d = "config" /\ doc[d] = None => doc'[d] = Fresh(inc + 1)
    BY <1>0
  <1>2. ASSUME NEW d \in Docs
        PROVE  /\ doc'[d] \in States \cup {None} /\ ram'[d] \in Snapshots
               /\ StateSane(d)'
    <2>1. doc[d] \in States \cup {None} /\ StateSane(d)
      BY <1>0 DEF Shapes, Typed
    <2>2. CASE doc[d] # None
      <3>1. /\ Restored(doc[d]) \in States
            /\ Restored(doc[d]).dv = doc[d].dv /\ Restored(doc[d]).ov = doc[d].ov
            /\ Restored(doc[d]).last = doc[d].last /\ Restored(doc[d]).lastRes = doc[d].lastRes
        BY <2>1, <2>2, <1>0, RestoredFields
      <3>2. ram'[d] \in Snapshots
        BY <2>1, <2>2, <1>0, ConfirmedFields
      <3>3. doc'[d] = Restored(doc[d])
        BY <1>1, <2>2
      <3> QED
        BY <1>0, <2>1, <2>2, <3>1, <3>2, <3>3 DEF StateSane
    <2>3. CASE doc[d] = None
      <3>1. /\ Fresh(inc + 1) \in States /\ Fresh(inc + 1).dv = 0 /\ Fresh(inc + 1).ov = 0
            /\ Fresh(inc + 1).last = None /\ Fresh(inc + 1).lastRes = None
        BY <1>0, FreshFields
      <3>2. ram'[d] \in Snapshots
        BY <2>3, <1>0, SnapshotFields
      <3>3. doc'[d] \in {Fresh(inc + 1), None}
        BY <1>1, <2>3
      <3> QED
        BY <3>1, <3>2, <3>3 DEF StateSane
    <2> QED
      BY <2>2, <2>3
  <1>3. doc' \in [Docs -> States \cup {None}] /\ ram' \in [Docs -> Snapshots]
    BY <1>0, <1>2
  <1>4. Shapes'
    <2>1. adv' \in 0 .. inc'
      BY <1>0 DEF Shapes
    <2> QED
      BY <1>0, <1>3, <2>1 DEF Shapes
  <1>5. \A c \in Calls : RowSane(c)'
    BY <1>0, RowKept
  <1>6. \A k \in Keys : RecordSane(k)'
    BY <1>0, RestKept
  <1>7. LoopSane'
    <2>1. "config" \in Docs
      BY DEF Docs
    <2>2. doc'["config"] # None
      BY <1>0, <1>1, <2>1, RestoredFields, FreshFields, StateFields DEF Shapes
    <2>3. pc = "tick" /\ batch = {}
      BY <1>0 DEF Typed, LoopSane
    <2> QED
      BY <1>0, <2>2, <2>3 DEF LoopSane, Handling
  <1> QED
    BY <1>2, <1>4, <1>5, <1>6, <1>7 DEF Typed

\* RestoreFails keeps the types.
LEMMA TypeRestoreFails ==
    ASSUME Typed, RestoreFails
    PROVE  Typed'
  <1>0. /\ Shapes /\ AskGrows /\ inc' = inc + 1 /\ inc' \in 0 .. MaxInc
        /\ inc \in Nat /\ inc' \in Nat /\ inc <= inc' /\ ~up
        /\ doc' = [d \in Docs |-> IF doc[d] = None THEN None
                                  ELSE [doc[d] EXCEPT !.inc = inc + 1]]
        /\ UNCHANGED <<log, idem, applied, draining, stopping, pc, batch, cur, prev, out, ram,
                       adv, up, faults, ask, poll>>
    BY ManagementAssumption DEF Typed, Shapes, RestoreFails, loop, node, AskGrows
  <1>2. ASSUME NEW d \in Docs
        PROVE  /\ doc'[d] \in States \cup {None}
               /\ StateSane(d)'
    <2>1. doc[d] \in States \cup {None} /\ StateSane(d)
      BY <1>0 DEF Shapes, Typed
    <2>2. CASE doc[d] # None
      <3> DEFINE t == [doc[d] EXCEPT !.inc = inc + 1]
      <3>1. /\ t \in States /\ t.dv = doc[d].dv /\ t.ov = doc[d].ov
            /\ t.last = doc[d].last /\ t.lastRes = doc[d].lastRes
        BY <2>1, <2>2, <1>0 DEF States
      <3>2. doc'[d] = t
        BY <1>0, <2>2
      <3> HIDE DEF t
      <3> QED
        BY <1>0, <2>1, <2>2, <3>1, <3>2 DEF StateSane
    <2>3. CASE doc[d] = None
      BY <1>0, <2>3 DEF StateSane
    <2> QED
      BY <2>2, <2>3
  <1>3. doc' \in [Docs -> States \cup {None}]
    BY <1>0, <1>2
  <1>4. Shapes'
    <2>1. adv' \in 0 .. inc'
      BY <1>0 DEF Shapes
    <2> QED
      BY <1>0, <1>3, <2>1 DEF Shapes
  <1>5. \A c \in Calls : RowSane(c)'
    BY <1>0, RowKept
  <1>6. \A k \in Keys : RecordSane(k)'
    BY <1>0, RestKept
  <1>7. LoopSane'
    <2>1. pc = "tick" /\ batch = {}
      BY <1>0 DEF Typed, LoopSane
    <2> QED
      BY <1>0, <2>1 DEF LoopSane, Handling
  <1> QED
    BY <1>2, <1>4, <1>5, <1>6, <1>7 DEF Typed

----------------------------------------------------------------------------
(* Types: the command loop *)

\* While a command is handled, it is a claimed call with a document.
LEMMA HandlingFields ==
    ASSUME Typed, pc \in Handling \cup {"complete", "finalize"}
    PROVE  /\ cur \in Claims /\ cur.req \in Calls /\ ask[cur.req] \in Requests
           /\ KeyOf(cur.req) \in Keys
           /\ Command(cur.req).value \in Values
           /\ pc \in Handling => Command(cur.req).doc \in Docs /\ Versioned(cur.req)
  <1>1. cur \in Claims /\ ask[cur.req] # None /\ (pc \in Handling => Versioned(cur.req))
    BY DEF Typed, LoopSane, Shapes
  <1>2. cur.req \in Calls
    BY <1>1, ClaimFields
  <1>3. ask[cur.req] \in Requests
    BY <1>1, <1>2 DEF Typed, Shapes
  <1> QED
    BY <1>1, <1>2, <1>3, RequestFields DEF KeyOf, Command, Versioned

\* What a call that was made asked for.
LEMMA AskedFields ==
    ASSUME Typed, NEW c \in Calls, ask[c] # None
    PROVE  /\ ask[c] \in Requests /\ KeyOf(c) \in Keys
           /\ Versioned(c) => Command(c).doc \in Docs
  <1>1. ask[c] \in Requests
    BY DEF Typed, Shapes
  <1> QED
    BY <1>1, RequestFields DEF KeyOf, Command, Versioned

\* A journalled command has its result.
LEMMA JournaledResult ==
    ASSUME Typed, NEW c \in Calls, ask[c] # None, Journaled(c)
    PROVE  idem[KeyOf(c)].res \in Results
  <1>1. KeyOf(c) \in Keys /\ idem[KeyOf(c)] # None /\ idem[KeyOf(c)].final # ""
    BY AskedFields DEF Journaled
  <1>2. RecordSane(KeyOf(c)) /\ idem[KeyOf(c)] \in Records
    BY <1>1 DEF Typed, Shapes
  <1> QED
    BY <1>1, <1>2, RecordFields DEF RecordSane

\* A document whose last command is c holds c's result.
LEMMA LastResult ==
    ASSUME Typed, NEW c \in Calls, ask[c] # None, Versioned(c), LastIs(c)
    PROVE  doc[Command(c).doc].lastRes \in Results
  <1>1. /\ Command(c).doc \in Docs /\ doc[Command(c).doc] # None
        /\ doc[Command(c).doc].last # None
    BY AskedFields DEF LastIs
  <1>2. StateSane(Command(c).doc) /\ doc[Command(c).doc] \in States
    BY <1>1 DEF Typed, Shapes
  <1> QED
    BY <1>1, <1>2, StateFields DEF StateSane

\* What the process runs is a snapshot; without a document it is the boot value.
LEMMA CurrentFields ==
    ASSUME Typed, NEW d \in Docs
    PROVE  /\ Current(d) \in Snapshots /\ Current(d).ver \in Nat
           /\ up /\ doc[d] = None => Current(d) = Boot
  <1>1. ram[d] \in Snapshots /\ doc[d] \in States \cup {None}
        /\ (up => doc["config"] # None)
    BY DEF Typed, Shapes, LoopSane
  <1>2. CASE d = "config"
    BY <1>1, <1>2, SnapshotFields DEF Current
  <1>3. CASE d # "config" /\ doc[d] = None
    BY <1>1, <1>3, SnapshotFields DEF Current
  <1>4. CASE d # "config" /\ doc[d] # None
    <2>1. Current(d) = [ver |-> doc[d].ov, val |-> doc[d].oval]
      BY <1>4 DEF Current
    <2> QED
      BY <1>1, <1>4, <2>1, SnapshotFields, StateFields
  <1> QED
    BY <1>2, <1>3, <1>4

\* A step of the loop that writes no row leaves the tables sane.
LEMMA LoopStepTyped ==
    ASSUME Typed, UNCHANGED <<log, idem, doc, applied, ask, poll, inc, adv, up, ram>>,
           draining' \in BOOLEAN, stopping' \in BOOLEAN, pc' \in Steps,
           batch' \in SUBSET Claims, cur' \in Claims \cup {None}, prev' \in Snapshots,
           out' \in Results \cup {None}, faults' \in 0 .. MaxFaults,
           LoopSane'
    PROVE  Typed'
  <1>1. Shapes'
    BY DEF Typed, Shapes
  <1>2. AskGrows
    BY DEF AskGrows
  <1> QED
    BY <1>1, <1>2, RestKept DEF Typed

\* Finish leaves a result to record.
LEMMA Finished ==
    ASSUME NEW res \in Results, Finish(res)
    PROVE  /\ out' = res /\ out' # None /\ out' \in Results
           /\ pc' \in {"record", "complete"}
  BY ResultFields DEF Finish

\* Claim keeps the types.
LEMMA TypeClaim ==
    ASSUME Typed, Claim
    PROVE  Typed'
  <1>0. /\ Shapes /\ AskGrows /\ up /\ pc = "tick"
        /\ UNCHANGED <<doc, applied, ram, draining, stopping, ask, poll, up, inc, adv,
                       cur, prev, out>>
    BY DEF Typed, Claim, At, node, process, AskGrows
  <1> DEFINE open == Claimable \ DeadLetters
             taken == {[req |-> c, tok |-> log[c].tries + 1] : c \in open}
  <1>1. PICK r \in Replies("claim") :
           /\ Count(r)
           /\ log' = IF r.done THEN ClaimedLog ELSE log
           /\ idem' = IF r.done THEN ClaimedKeys ELSE idem
           /\ batch' = IF r.seen THEN taken ELSE {}
           /\ pc' = IF r.seen THEN "next" ELSE "tick"
    BY DEF Claim
  <1>2. faults' \in 0 .. MaxFaults
    BY <1>0, <1>1, RepliesCounted
  <1>3. Claimable \subseteq Calls /\ \A c \in Claimable : log[c] # None /\ ~Terminal(log[c])
    BY DEF Claimable, Terminal
  <1>4. ASSUME NEW b \in taken PROVE b \in Claims /\ ask[b.req] # None
    <2>1. PICK c \in open : b = [req |-> c, tok |-> log[c].tries + 1]
      OBVIOUS
    <2>2. c \in Calls /\ log[c] # None /\ log[c] \in Rows
      BY <1>0, <1>3 DEF Shapes
    <2>3. log[c].tries + 1 \in Nat
      BY <2>2, RowFields
    <2>4. b \in Claims /\ b.req = c
      BY <2>1, <2>2, <2>3, ClaimFields
    <2>5. RowSane(c)
      BY <2>2 DEF Typed
    <2> QED
      BY <2>2, <2>4, <2>5 DEF RowSane
  <1>5. batch' \subseteq Claims /\ \A b \in batch' : ask'[b.req] # None
    BY <1>0, <1>1, <1>4
  <1> HIDE DEF taken
  <1>6. ASSUME NEW c \in Calls
        PROVE  /\ ClaimedLog[c] \in Rows \cup {None}
               /\ log'[c] = ClaimedLog[c] => RowSane(c)'
    <2>1. CASE c \in DeadLetters
      <3> DEFINE l == log[c]
                 x == Result("dead_letter", 0)
                 t == [l EXCEPT !.status = "failed", !.res = x]
      <3>1. l \in Rows /\ RowSane(c) /\ l # None
        BY <2>1, <1>0, <1>3 DEF Shapes, Typed, DeadLetters
      <3>2. x \in Results /\ x # None
        BY ResultFields DEF Outcomes
      <3>3. ClaimedLog[c] = t
        BY <2>1 DEF ClaimedLog
      <3> HIDE DEF x
      <3>4. t \in Rows /\ t.inc = l.inc /\ t.tries = l.tries /\ t.status = "failed" /\ t.res = x
        BY <3>1, <3>2 DEF Rows
      <3> HIDE DEF t
      <3> QED
        BY <1>0, <3>1, <3>2, <3>3, <3>4 DEF RowSane, Terminal
    <2>2. CASE c \in open
      <3> DEFINE l == log[c]
                 n == l.tries + 1
                 t == [l EXCEPT !.status = "in_progress", !.lease = TRUE, !.tries = n]
      <3>1. l \in Rows /\ RowSane(c) /\ l # None /\ ~Terminal(l) /\ l.tries \in Nat
            /\ ~(l.tries >= MaxAttempts)
        BY <2>2, <1>0, <1>3, RowFields DEF Shapes, Typed, DeadLetters
      <3>2. n \in 0 .. MaxAttempts /\ n \in Nat
        BY <3>1, ManagementAssumption
      <3>3. ClaimedLog[c] = t
        BY <2>2 DEF ClaimedLog
      <3> HIDE DEF n
      <3>4. /\ t \in Rows /\ t.inc = l.inc /\ t.tries = n /\ t.status = "in_progress"
            /\ t.res = l.res
        BY <3>1, <3>2 DEF Rows
      <3> HIDE DEF t
      <3>5. l.res = None
        BY <3>1 DEF RowSane
      <3> QED
        BY <1>0, <3>1, <3>2, <3>3, <3>4, <3>5 DEF RowSane, Terminal
    <2>3. CASE c \notin Claimable
      <3>1. ClaimedLog[c] = log[c]
        BY <2>3 DEF ClaimedLog, DeadLetters
      <3> QED
        BY <1>0, <3>1, RowKept DEF Shapes
    <2> QED
      BY <2>1, <2>2, <2>3
  <1>7. ASSUME NEW k \in Keys
        PROVE  /\ ClaimedKeys[k] \in Records \cup {None}
               /\ idem'[k] = ClaimedKeys[k] => RecordSane(k)'
    <2>1. CASE ClaimedKeys[k] = idem[k]
      BY <1>0, <2>1, RecordKept DEF Shapes
    <2>2. CASE ClaimedKeys[k] # idem[k]
      <3> DEFINE l == idem[k]
                 x == Result("dead_letter", 0)
                 t == [l EXCEPT !.final = "failed", !.res = x]
      <3>1. l # None /\ ClaimedKeys[k] = t
        BY <2>2 DEF ClaimedKeys
      <3>2. l \in Records /\ RecordSane(k)
        BY <3>1, <1>0 DEF Shapes, Typed
      <3>3. x \in Results /\ x # None
        BY ResultFields DEF Outcomes
      <3> HIDE DEF x
      <3>4. t \in Records /\ t.req = l.req /\ t.pay = l.pay /\ t.final = "failed" /\ t.res = x
        BY <3>2, <3>3 DEF Records
      <3> HIDE DEF t
      <3> QED
        BY <1>0, <3>1, <3>2, <3>3, <3>4 DEF RecordSane, KeyOf, Command
    <2> QED
      BY <2>1, <2>2
  <1>8. log' \in [Calls -> Rows \cup {None}]
    <2>1. ClaimedLog \in [Calls -> Rows \cup {None}]
      BY <1>6 DEF ClaimedLog
    <2> QED
      BY <1>0, <1>1, <2>1 DEF Shapes
  <1>9. idem' \in [Keys -> Records \cup {None}]
    <2>1. ClaimedKeys \in [Keys -> Records \cup {None}]
      BY <1>7 DEF ClaimedKeys
    <2> QED
      BY <1>0, <1>1, <2>1 DEF Shapes
  <1>10. pc' \in {"tick", "next"}
    BY <1>1
  <1>11. Shapes'
    BY <1>0, <1>2, <1>5, <1>8, <1>9, <1>10 DEF Shapes, Steps
  <1>12. ASSUME NEW c \in Calls PROVE RowSane(c)'
    <2>1. log'[c] = log[c] \/ log'[c] = ClaimedLog[c]
      BY <1>1
    <2> QED
      BY <1>0, <1>6, <2>1, RowKept DEF Shapes
  <1>13. ASSUME NEW k \in Keys PROVE RecordSane(k)'
    <2>1. idem'[k] = idem[k] \/ idem'[k] = ClaimedKeys[k]
      BY <1>1
    <2> QED
      BY <1>0, <1>7, <2>1, RecordKept
  <1>14. LoopSane'
    <2>1. up' /\ doc'["config"] # None
      BY <1>0 DEF Typed, LoopSane
    <2> QED
      BY <2>1, <1>5, <1>10, LoopLeaves
  <1> QED
    BY <1>0, <1>11, <1>12, <1>13, <1>14, RestKept DEF Typed

\* NextCommand keeps the types.
LEMMA TypeNextCommand ==
    ASSUME Typed, NextCommand
    PROVE  Typed'
  <1>0. /\ Shapes /\ LoopSane /\ up /\ pc = "next"
        /\ UNCHANGED <<log, idem, doc, applied, ram, ask, poll, up, inc, adv, prev, faults>>
    BY DEF Typed, NextCommand, At, backend, process
  <1>1. CASE batch = {} /\ pc' = "list" /\ UNCHANGED <<batch, cur, out, draining, stopping>>
    <2>1. LoopSane'
      BY <1>0, <1>1, LoopLeaves DEF LoopSane
    <2> QED
      BY <1>0, <1>1, <2>1, LoopStepTyped DEF Shapes, Steps
  <1>2. ASSUME NEW b \in batch, batch' = batch \ {b}, cur' = b,
               \/ /\ Versioned(b.req) /\ pc' = "replay"
                  /\ UNCHANGED <<out, draining, stopping>>
               \/ /\ draining' \in BOOLEAN /\ stopping' \in BOOLEAN
                  /\ out' = Result("ok", 0) /\ pc' = "complete"
        PROVE  Typed'
    <2>1. b \in Claims /\ ask[b.req] # None /\ b # None
      <3>1. b \in Claims /\ b.req \in Calls /\ ask[b.req] # None
        BY <1>0, ClaimFields DEF Shapes, LoopSane
      <3>2. cur' # None
        BY <1>2, <3>1, ManagementAssumption
      <3> QED
        BY <3>1, <3>2, <1>2
    <2>2. Result("ok", 0) \in Results /\ Result("ok", 0) # None
      BY ResultFields DEF Outcomes
    <2>3. LoopSane'
      BY <1>0, <1>2, <2>1, <2>2 DEF LoopSane, Handling, Versioned, Command
    <2> QED
      BY <1>0, <1>2, <2>1, <2>2, <2>3, LoopStepTyped DEF Shapes, Steps
  <1>3. ASSUME NEW b \in batch, ~Versioned(b.req),
               draining' = CASE Command(b.req).op \in {"drain", "shutdown"} -> TRUE
                             [] Command(b.req).op = "undrain" -> FALSE
                             [] OTHER -> draining,
               stopping' = (stopping \/ Command(b.req).op = "shutdown")
        PROVE  draining' \in BOOLEAN /\ stopping' \in BOOLEAN
    BY <1>0, <1>3 DEF Shapes
  <1> QED
    BY <1>1, <1>2, <1>3 DEF NextCommand

\* Replay keeps the types.
LEMMA TypeReplay ==
    ASSUME Typed, Replay \/ Lookup
    PROVE  Typed'
  <1>0. /\ Shapes /\ up /\ pc \in Handling
        /\ UNCHANGED <<log, idem, doc, applied, ram, draining, stopping, ask, poll, up, inc, adv,
                       batch, cur, prev>>
    BY DEF Typed, Replay, Lookup, At, backend, node, process, Handling
  <1>1. PICK r \in Replies("get_idempotency") :
           /\ Count(r)
           /\ IF r.seen /\ Decodable(cur.req)
              THEN Finish(idem[KeyOf(cur.req)].res)
              ELSE pc' \in {"load", "cas"} /\ UNCHANGED out
    BY DEF Replay, Lookup
  <1>2. faults' \in 0 .. MaxFaults
    BY <1>0, <1>1, RepliesCounted
  <1>3. cur.req \in Calls /\ ask[cur.req] # None
    BY <1>0, HandlingFields, RequestFields
  <1>4. CASE Decodable(cur.req) /\ Finish(idem[KeyOf(cur.req)].res)
    <2>1. idem[KeyOf(cur.req)].res \in Results
      BY <1>3, <1>4, JournaledResult DEF Decodable
    <2>2. out' \in Results /\ out' # None /\ pc' \in {"record", "complete"}
      BY <1>4, <2>1, Finished
    <2>3. LoopSane'
      BY <1>0, <2>2, LoopHandles DEF Handling, Typed, LoopSane
    <2> QED
      BY <1>0, <1>2, <2>2, <2>3, LoopStepTyped DEF Shapes, Steps
  <1>5. CASE pc' \in {"load", "cas"} /\ UNCHANGED out
    <2>1. LoopSane'
      BY <1>0, <1>5, LoopHandles DEF Handling, Typed, LoopSane
    <2> QED
      BY <1>0, <1>2, <1>5, <2>1, LoopStepTyped DEF Shapes, Steps
  <1> QED
    BY <1>1, <1>4, <1>5

\* Load keeps the types.
LEMMA TypeLoad ==
    ASSUME Typed, Load
    PROVE  Typed'
  <1>0. /\ Shapes /\ up /\ pc = "load" /\ pc \in Handling
        /\ UNCHANGED <<log, idem, doc, applied, ram, draining, stopping, ask, poll, up, inc, adv,
                       batch, cur, prev>>
    BY DEF Typed, Load, At, backend, node, process, Handling
  <1> DEFINE ver == IF Command(cur.req).doc = "config" THEN ram["config"].ver ELSE 0
  <1>1. Result("failed", ver) \in Results
    <2>1. "config" \in Docs
      BY DEF Docs
    <2>2. ver \in Nat
      BY <1>0, <2>1, SnapshotFields DEF Shapes
    <2> QED
      BY <2>2, ResultFields DEF Outcomes
  <1> HIDE DEF ver
  <1>2. cur.req \in Calls /\ ask[cur.req] # None /\ Versioned(cur.req)
    BY <1>0, HandlingFields, RequestFields
  <1>3. /\ faults' \in 0 .. MaxFaults
        /\ \/ Finish(Result("failed", ver))
           \/ LastIs(cur.req) /\ Finish(doc[Command(cur.req).doc].lastRes)
           \/ pc' = "lookup" /\ UNCHANGED out
    <2>1. CASE Finish(Result("failed", ver)) /\ UNCHANGED faults
      BY <1>0, <2>1 DEF Shapes
    <2>2. ASSUME NEW r \in Replies("get_state"), Count(r),
                 CASE ~r.seen -> Finish(Result("failed", ver))
                   [] r.seen /\ LastIs(cur.req) -> Finish(doc[Command(cur.req).doc].lastRes)
                   [] OTHER -> pc' = "lookup" /\ UNCHANGED out
          PROVE  <1>3
      BY <1>0, <2>2, RepliesCounted
    <2> QED
      BY <2>1, <2>2 DEF Load, ver
  <1>4. CASE pc' = "lookup" /\ UNCHANGED out
    <2>1. LoopSane'
      BY <1>0, <1>4, LoopHandles DEF Handling, Typed, LoopSane
    <2> QED
      BY <1>0, <1>3, <1>4, <2>1, LoopStepTyped DEF Shapes, Steps
  <1>5. ASSUME NEW res \in Results, Finish(res) PROVE Typed'
    <2>1. out' \in Results /\ out' # None /\ pc' \in {"record", "complete"}
      BY <1>5, Finished
    <2>2. LoopSane'
      BY <1>0, <2>1, LoopHandles DEF Handling, Typed, LoopSane
    <2> QED
      BY <1>0, <1>3, <2>1, <2>2, LoopStepTyped DEF Shapes, Steps
  <1>6. LastIs(cur.req) => doc[Command(cur.req).doc].lastRes \in Results
    BY <1>2, LastResult
  <1> QED
    BY <1>1, <1>3, <1>4, <1>5, <1>6

\* What the handler decides on its own is a result.
LEMMA VerdictIsResult ==
    ASSUME Typed, NEW m, m.doc \in Docs, Verdict(m) # None
    PROVE  Verdict(m) \in Results
  <1>1. Current(m.doc).ver \in Nat
    BY CurrentFields
  <1>2. /\ Result("conflict", Current(m.doc).ver) \in Results
        /\ Result("no_op", Current(m.doc).ver) \in Results
    BY <1>1, ResultFields DEF Outcomes
  <1> QED
    BY <1>2 DEF Verdict

\* What the compare-and-swap writes.
LEMMA WantedFields ==
    ASSUME Typed, up, NEW d \in Docs, NEW val \in Values, NEW ver, ver = Current(d).ver,
           CasWins(d, ver)
    PROVE  LET w == Wanted(d, ver, val) IN
           /\ w \in States /\ w # None /\ w.ov = ver /\ w.dv = ver + 1
           /\ doc[d] # None =>
                 w.oval = doc[d].oval /\ w.last = doc[d].last /\ w.lastRes = doc[d].lastRes
           /\ doc[d] = None => w.oval = 0 /\ w.last = None /\ w.lastRes = None
  <1>1. ver \in Nat /\ inc \in Nat /\ doc[d] \in States \cup {None}
    BY CurrentFields, ManagementAssumption DEF Typed, Shapes
  <1> DEFINE s == IF doc[d] = None THEN Fresh(inc) ELSE doc[d]
             n == ver + 1
             w == [s EXCEPT !.dv = n, !.dval = val, !.status = "applying"]
  <1>2. /\ s \in States /\ s.ov = ver
        /\ doc[d] # None => s = doc[d]
        /\ doc[d] = None => s.oval = 0 /\ s.last = None /\ s.lastRes = None
    <2>1. CASE doc[d] = None
      <3>1. ver = 0
        BY <2>1, CurrentFields DEF Boot
      <3> QED
        BY <1>1, <2>1, <3>1, FreshFields
    <2>2. CASE doc[d] # None
      BY <1>1, <2>2 DEF CasWins
    <2> QED
      BY <2>1, <2>2
  <1>3. Wanted(d, ver, val) = w
    BY DEF Wanted
  <1>4. n \in Nat
    BY <1>1
  <1> HIDE DEF s, n
  <1>5. /\ w \in States /\ w.ov = s.ov /\ w.dv = n /\ w.oval = s.oval
        /\ w.last = s.last /\ w.lastRes = s.lastRes
    BY <1>2, <1>4 DEF States
  <1> HIDE DEF w
  <1>6. w # None
    BY <1>5, StateFields
  <1> QED
    BY <1>2, <1>3, <1>5, <1>6 DEF n

\* Prepare decides on its own, loses the compare-and-swap or its reply, or goes on.
LEMMA PrepareCases ==
    ASSUME Typed, Prepare, NEW d, d = Command(cur.req).doc, NEW ver, ver = Current(d).ver,
           NEW w, w = Wanted(d, ver, Command(cur.req).value)
    PROVE  /\ up /\ pc = "cas" /\ pc \in Handling /\ d \in Docs
           /\ UNCHANGED <<log, idem, applied, draining, stopping, ask, poll, up, inc, adv,
                          batch, cur>>
           /\ faults' \in 0 .. MaxFaults
           /\ \/ /\ out' \in Results /\ out'.st \in {"conflict", "no_op", "failed"} /\ pc' = "record"
                 /\ doc' = doc \/ (CasWins(d, ver) /\ doc' = [doc EXCEPT ![d] = w])
                 /\ UNCHANGED <<ram, prev>>
              \/ /\ CasWins(d, ver) /\ doc' = [doc EXCEPT ![d] = w]
                 /\ ram' = [ram EXCEPT ![d] = [ver |-> ver + 1, val |-> Command(cur.req).value]]
                 /\ prev' = ram[d] /\ pc' = "confirm" /\ out' = out
  <1>0. /\ Shapes /\ up /\ pc = "cas" /\ pc \in Handling
        /\ UNCHANGED <<log, idem, applied, draining, stopping, ask, poll, up, inc, adv,
                       batch, cur>>
    BY DEF Typed, Prepare, At, process, Handling
  <1>1. d \in Docs /\ ver \in Nat
    BY <1>0, HandlingFields, CurrentFields
  <1> DEFINE m == Command(cur.req)
             wins == CasWins(d, ver)
  <1>2. ASSUME Verdict(m) # None, Finish(Verdict(m)), UNCHANGED <<doc, ram, prev, faults>>
        PROVE  /\ faults' \in 0 .. MaxFaults
               /\ out' \in Results /\ out'.st \in {"conflict", "no_op", "failed"} /\ pc' = "record"
               /\ doc' = doc /\ UNCHANGED <<ram, prev>>
    <2>1. Verdict(m) \in Results
      BY <1>1, <1>2, VerdictIsResult
    <2>2. Verdict(m).st \in {"conflict", "no_op"}
      BY <1>2, ResultFields DEF Verdict
    <2> QED
      BY <1>0, <1>2, <2>1, <2>2 DEF Finish, Shapes
  <1>3. ASSUME NEW r \in Replies("cas"), Count(r),
               doc' = IF r.done /\ wins THEN [doc EXCEPT ![d] = w] ELSE doc,
               ~(r.seen /\ wins),
               Finish(Result(IF r.seen THEN "conflict" ELSE "failed", ver)),
               UNCHANGED <<ram, prev>>
        PROVE  /\ faults' \in 0 .. MaxFaults
               /\ out' \in Results /\ out'.st \in {"conflict", "no_op", "failed"} /\ pc' = "record"
               /\ doc' = doc \/ (wins /\ doc' = [doc EXCEPT ![d] = w])
    <2> DEFINE st == IF r.seen THEN "conflict" ELSE "failed"
    <2>1. Result(st, ver) \in Results /\ Result(st, ver).st = st /\ st \in {"conflict", "failed"}
      BY <1>1, ResultFields DEF Outcomes
    <2>2. faults' \in 0 .. MaxFaults
      BY <1>0, <1>3, RepliesCounted
    <2>3. out' = Result(st, ver) /\ pc' = "record"
      BY <1>3, <2>1 DEF Finish
    <2> QED
      BY <1>3, <2>1, <2>2, <2>3
  <1>4. ASSUME NEW r \in Replies("cas"), Count(r), r.seen /\ wins,
               doc' = IF r.done /\ wins THEN [doc EXCEPT ![d] = w] ELSE doc
        PROVE  faults' \in 0 .. MaxFaults /\ doc' = [doc EXCEPT ![d] = w]
    BY <1>0, <1>4, RepliesCounted
  <1>5. \/ Verdict(m) # None /\ Finish(Verdict(m)) /\ UNCHANGED <<doc, ram, prev, faults>>
        \/ \E r \in Replies("cas") :
              /\ Count(r)
              /\ doc' = IF r.done /\ wins THEN [doc EXCEPT ![d] = w] ELSE doc
              /\ IF r.seen /\ wins
                 THEN /\ ram' = [ram EXCEPT ![d] = [ver |-> ver + 1, val |-> m.value]]
                      /\ prev' = ram[d]
                      /\ pc' = "confirm" /\ UNCHANGED out
                 ELSE /\ Finish(Result(IF r.seen THEN "conflict" ELSE "failed", ver))
                      /\ UNCHANGED <<ram, prev>>
    BY DEF Prepare
  <1> HIDE DEF m, wins
  <1> QED
    BY <1>0, <1>1, <1>2, <1>3, <1>4, <1>5 DEF m, wins

\* Prepare keeps the types.
LEMMA TypePrepare ==
    ASSUME Typed, Prepare
    PROVE  Typed'
  <1> DEFINE d == Command(cur.req).doc
             ver == Current(d).ver
             val == Command(cur.req).value
             w == Wanted(d, ver, val)
  <1>0. /\ up /\ pc = "cas" /\ pc \in Handling /\ d \in Docs
        /\ UNCHANGED <<log, idem, applied, draining, stopping, ask, poll, up, inc, adv,
                       batch, cur>>
        /\ faults' \in 0 .. MaxFaults
        /\ \/ /\ out' \in Results /\ out'.st \in {"conflict", "no_op", "failed"} /\ pc' = "record"
              /\ doc' = doc \/ (CasWins(d, ver) /\ doc' = [doc EXCEPT ![d] = w])
              /\ UNCHANGED <<ram, prev>>
           \/ /\ CasWins(d, ver) /\ doc' = [doc EXCEPT ![d] = w]
              /\ ram' = [ram EXCEPT ![d] = [ver |-> ver + 1, val |-> val]]
              /\ prev' = ram[d] /\ pc' = "confirm" /\ out' = out
    BY PrepareCases
  <1>1. Shapes /\ AskGrows /\ ver \in Nat /\ val \in Values /\ doc["config"] # None
        /\ "config" \in Docs
    BY <1>0, CurrentFields, HandlingFields DEF Typed, AskGrows, LoopSane, Docs
  <1>2. CasWins(d, ver) =>
           /\ w \in States /\ w # None /\ w.ov = ver /\ w.dv = ver + 1
           /\ doc[d] # None => w.last = doc[d].last /\ w.lastRes = doc[d].lastRes
           /\ doc[d] = None => w.last = None /\ w.lastRes = None
    BY <1>0, <1>1, WantedFields
  <1>3. cur # None /\ ask[cur.req] # None /\ Versioned(cur.req) /\ Command(cur.req)' = Command(cur.req)
    BY <1>0 DEF Typed, LoopSane, Command
  <1> HIDE DEF w, ver, val
  <1>4. doc' = doc \/ (CasWins(d, ver) /\ doc' = [doc EXCEPT ![d] = w])
    BY <1>0
  <1>5. doc' \in [Docs -> States \cup {None}] /\ doc'["config"] # None
    BY <1>0, <1>1, <1>2, <1>4 DEF Shapes
  <1>6. ram' \in [Docs -> Snapshots] /\ prev' \in Snapshots /\ out' \in Results \cup {None}
        /\ pc' \in Steps
    <2>1. [ver |-> ver + 1, val |-> val] \in Snapshots
      BY <1>1, SnapshotFields
    <2> QED
      BY <1>0, <1>1, <2>1 DEF Shapes, Steps
  <1>7. Shapes'
    BY <1>0, <1>1, <1>5, <1>6 DEF Shapes
  <1>8. ASSUME NEW x \in Docs PROVE StateSane(x)'
    <2>1. CASE doc'[x] = doc[x]
      BY <2>1, <1>1, StateKept
    <2>2. CASE doc'[x] # doc[x]
      <3>1. x = d /\ doc'[x] = w /\ CasWins(d, ver)
        BY <2>2, <1>1, <1>4, <1>0 DEF Shapes
      <3>2. StateSane(d)
        BY <1>0 DEF Typed
      <3> QED
        BY <1>0, <1>1, <1>2, <3>1, <3>2 DEF StateSane
    <2> QED
      BY <2>1, <2>2
  <1>9. LoopSane'
    <2>1. CASE pc' = "record"
      <3>1. out' # None
        BY <1>0, <2>1, ResultFields
      <3> QED
        BY <1>0, <1>5, <2>1, <3>1, LoopHandles DEF Handling
    <2>2. CASE pc' = "confirm"
      <3>1. doc'[d] = w /\ ram'[d] = [ver |-> ver + 1, val |-> val] /\ CasWins(d, ver)
        BY <1>0, <1>1, <2>2 DEF Shapes
      <3>2. doc'[d] # None /\ ram'[d].ver = doc'[d].ov + 1 /\ doc'[d].dv = ram'[d].ver
        BY <1>1, <1>2, <3>1
      <3>3. Versioned(cur.req)' /\ \A b \in batch' : ask'[b.req] # None
        BY <1>0, <1>3 DEF Versioned, Command, Typed, LoopSane
      <3>4. Command(cur.req)'.doc = d
        BY <1>3
      <3> HIDE DEF d
      <3> QED
        BY <1>0, <1>3, <1>5, <2>2, <3>2, <3>3, <3>4 DEF LoopSane, Handling
    <2> QED
      BY <1>0, <2>1, <2>2
  <1> QED
    BY <1>0, <1>1, <1>7, <1>8, <1>9, RestKept DEF Typed

\* Confirm takes effect and is heard, takes effect unheard, or does not.
LEMMA ConfirmCases ==
    ASSUME Typed, Confirm, NEW c, c = cur.req, NEW d, d = Command(c).doc,
           NEW res, res = Result("applied", ram[d].ver)
    PROVE  /\ up /\ pc = "confirm" /\ pc \in Handling /\ d \in Docs /\ doc[d] \in States
           /\ c \in Calls /\ res \in Results /\ res.st = "applied"
           /\ UNCHANGED <<log, draining, stopping, ask, poll, up, inc, adv, batch, cur>>
           /\ faults' \in 0 .. MaxFaults
           /\ \/ /\ doc' = [doc EXCEPT ![d] = Observed(d, c, res)]
                 /\ idem' = Mirror(KeyOf(c), "done", res)
                 /\ applied' = [applied EXCEPT ![c] = @ + 1]
                 /\ \/ out' = res /\ pc' = "complete" /\ prev' = Boot /\ UNCHANGED ram
                    \/ /\ ram' = [ram EXCEPT ![d] = prev] /\ pc' = "rollback"
                       /\ UNCHANGED <<out, prev>>
                       /\ <<"confirm", "reply">> \in Faults
              \/ /\ UNCHANGED <<doc, idem, applied>>
                 /\ ram' = [ram EXCEPT ![d] = prev] /\ pc' = "rollback"
                 /\ UNCHANGED <<out, prev>>
  <1>0. /\ Shapes /\ up /\ pc = "confirm" /\ pc \in Handling
        /\ UNCHANGED <<log, draining, stopping, ask, poll, up, inc, adv, batch, cur>>
    BY DEF Typed, Confirm, At, process, Handling
  <1>1. d \in Docs /\ doc[d] \in States /\ c \in Calls /\ ram[d].ver \in Nat
    <2>1. d \in Docs /\ c \in Calls
      BY <1>0, HandlingFields
    <2> QED
      BY <1>0, <2>1, SnapshotFields DEF Typed, LoopSane, Shapes
  <1>2. res \in Results /\ res.st = "applied"
    BY <1>1, ResultFields DEF Outcomes
  <1> DEFINE ok == Confirmable(d, ram[d].ver)
  <1>3. PICK r \in Replies("confirm") :
          /\ Count(r)
          /\ IF r.done /\ ok
             THEN /\ doc' = [doc EXCEPT ![d] = Observed(d, c, res)]
                  /\ idem' = Mirror(KeyOf(c), "done", res)
                  /\ applied' = [applied EXCEPT ![c] = @ + 1]
             ELSE UNCHANGED <<doc, idem, applied>>
          /\ IF r.seen /\ ok
             THEN Finish(res) /\ prev' = Boot /\ UNCHANGED ram
             ELSE /\ ram' = [ram EXCEPT ![d] = prev]
                  /\ pc' = "rollback" /\ UNCHANGED <<out, prev>>
    BY DEF Confirm
  <1>4. faults' \in 0 .. MaxFaults /\ (r.seen => r.done)
    BY <1>0, <1>3, RepliesCounted
  <1>5. Finish(res) => out' = res /\ pc' = "complete"
    BY <1>2 DEF Finish
  <1>6. ~r.seen /\ r.done => <<"confirm", "reply">> \in Faults
    BY RepliesLost
  <1> HIDE DEF ok
  <1> QED
    BY <1>0, <1>1, <1>2, <1>3, <1>4, <1>5, <1>6

\* Confirm keeps the types.
LEMMA TypeConfirm ==
    ASSUME Typed, Confirm
    PROVE  Typed'
  <1> DEFINE c == cur.req
             d == Command(c).doc
             res == Result("applied", ram[d].ver)
             o == Observed(d, c, res)
  <1>0. /\ up /\ pc = "confirm" /\ pc \in Handling /\ d \in Docs /\ doc[d] \in States
        /\ c \in Calls /\ res \in Results /\ res.st = "applied"
        /\ UNCHANGED <<log, draining, stopping, ask, poll, up, inc, adv, batch, cur>>
        /\ faults' \in 0 .. MaxFaults
        /\ \/ /\ doc' = [doc EXCEPT ![d] = o]
              /\ idem' = Mirror(KeyOf(c), "done", res)
              /\ applied' = [applied EXCEPT ![c] = @ + 1]
              /\ \/ out' = res /\ pc' = "complete" /\ prev' = Boot /\ UNCHANGED ram
                 \/ /\ ram' = [ram EXCEPT ![d] = prev] /\ pc' = "rollback"
                    /\ UNCHANGED <<out, prev>>
           \/ /\ UNCHANGED <<doc, idem, applied>>
              /\ ram' = [ram EXCEPT ![d] = prev] /\ pc' = "rollback"
              /\ UNCHANGED <<out, prev>>
    BY ConfirmCases
  <1>1. /\ Shapes /\ AskGrows /\ doc["config"] # None /\ KeyOf(c) \in Keys /\ ask[c] # None
        /\ ram[d] \in Snapshots /\ ram[d].ver = doc[d].ov + 1 /\ doc[d].dv = ram[d].ver
    BY <1>0, HandlingFields DEF Typed, AskGrows, LoopSane, Shapes
  <1>2. /\ o \in States /\ o.ov = ram[d].ver /\ o.dv = doc[d].dv
        /\ o.last = c /\ o.lastRes = res /\ o # None
    <2>1. ram[d].ver \in Nat /\ ram[d].val \in Values
      BY <1>1, SnapshotFields
    <2>2. /\ o \in States /\ o.ov = ram[d].ver /\ o.dv = doc[d].dv
          /\ o.last = c /\ o.lastRes = res
      <3> DEFINE v == ram[d].ver
                 x == ram[d].val
                 s == doc[d]
                 t == [s EXCEPT !.ov = v, !.oval = x, !.status = "observed",
                                !.last = c, !.lastRes = res]
      <3>1. o = t
        BY DEF Observed
      <3> HIDE DEF c, res, v, x, s
      <3>2. t \in States /\ t.ov = v /\ t.dv = s.dv /\ t.last = c /\ t.lastRes = res
        <4>1. v \in Nat /\ x \in Values /\ c \in Calls /\ res \in Results /\ s \in States
          BY <1>0, <2>1 DEF v, x, s
        <4> QED
          BY <4>1 DEF States
      <3> QED
        BY <3>1, <3>2 DEF v, s
    <2> QED
      BY <2>2, StateFields
  <1> HIDE DEF o, res
  <1>3. doc' = doc \/ doc' = [doc EXCEPT ![d] = o]
    BY <1>0
  <1>4. doc' \in [Docs -> States \cup {None}] /\ doc'["config"] # None
    <2>1. "config" \in Docs
      BY DEF Docs
    <2> QED
      BY <1>0, <1>1, <1>2, <1>3, <2>1 DEF Shapes
  <1>5. /\ idem' \in [Keys -> Records \cup {None}]
        /\ \A k \in Keys : idem'[k] # idem[k] =>
              /\ k = KeyOf(c) /\ idem[k] # None /\ idem'[k] # None
              /\ idem'[k].req = idem[k].req /\ idem'[k].pay = idem[k].pay
              /\ idem'[k].final = "done" /\ idem'[k].res = res
    <2>1. CASE idem' = idem
      BY <2>1, <1>1 DEF Shapes
    <2>2. CASE idem' = Mirror(KeyOf(c), "done", res)
      <3> DEFINE k == KeyOf(c)
      <3>1. k \in Keys
        BY <1>1
      <3> HIDE DEF k
      <3>2. idem' = Mirror(k, "done", res)
        BY <2>2 DEF k
      <3>3. /\ idem' \in [Keys -> Records \cup {None}]
            /\ \A j \in Keys : j # k => idem'[j] = idem[j]
            /\ idem[k] = None \/ idem[k].final # "" => idem'[k] = idem[k]
            /\ idem[k] # None /\ idem[k].final = "" =>
                 /\ idem'[k] # None /\ idem'[k].req = idem[k].req /\ idem'[k].pay = idem[k].pay
                 /\ idem'[k].final = "done" /\ idem'[k].res = res
        BY <1>0, <3>1, <3>2, Mirrored
      <3> QED
        BY <3>3 DEF k
    <2> QED
      BY <1>0, <2>1, <2>2
  <1>6. ram' \in [Docs -> Snapshots] /\ prev' \in Snapshots /\ out' \in Results \cup {None}
        /\ pc' \in Steps /\ applied' \in [Calls -> Nat]
    BY <1>0, <1>1, SnapshotFields DEF Shapes, Steps
  <1>7. Shapes'
    BY <1>0, <1>1, <1>4, <1>5, <1>6 DEF Shapes
  <1>8. ASSUME NEW x \in Docs PROVE StateSane(x)'
    <2>1. CASE doc'[x] = doc[x]
      BY <2>1, <1>1, StateKept
    <2>2. CASE doc'[x] # doc[x]
      <3>1. x = d /\ doc'[x] = o
        BY <2>2, <1>1, <1>3, <1>0 DEF Shapes
      <3>2. res # None /\ c # None /\ ask'[c] # None
        BY <1>0, <1>1, ResultFields, ManagementAssumption
      <3>3. o.dv = o.ov
        BY <1>1, <1>2
      <3> QED
        BY <1>2, <3>1, <3>2, <3>3 DEF StateSane
    <2> QED
      BY <2>1, <2>2
  <1>9. ASSUME NEW k \in Keys PROVE RecordSane(k)'
    <2>1. CASE idem'[k] = idem[k]
      BY <1>1, <2>1, RecordKept
    <2>2. CASE idem'[k] # idem[k]
      <3>1. RecordSane(k) /\ res # None
        BY <1>0, ResultFields DEF Typed
      <3> QED
        BY <1>0, <1>5, <2>2, <3>1 DEF RecordSane, KeyOf, Command
    <2> QED
      BY <2>1, <2>2
  <1>10. LoopSane'
    <2>1. pc' = "complete" => out' # None
      BY <1>0, ResultFields
    <2>2. pc' \in {"complete", "rollback"}
      BY <1>0
    <2> QED
      BY <1>0, <1>4, <2>1, <2>2, LoopHandles DEF Handling
  <1> QED
    BY <1>0, <1>1, <1>7, <1>8, <1>9, <1>10, RestKept DEF Typed

\* Mirroring a result into the journal keeps it sane.
LEMMA RecordsMirrored ==
    ASSUME Typed, AskGrows, NEW k \in Keys, NEW x \in Results,
           idem' = idem \/ idem' = Mirror(k, "done", x)
    PROVE  /\ idem' \in [Keys -> Records \cup {None}]
           /\ \A j \in Keys : RecordSane(j)'
  <1>1. CASE idem' = idem
    BY <1>1, RestKept DEF Typed, Shapes
  <1>2. CASE idem' = Mirror(k, "done", x)
    <2>1. ASSUME NEW j \in Keys, idem'[j] # idem[j] PROVE RecordSane(j)'
      <3>1. /\ j = k /\ idem[k] # None
            /\ idem'[k] # None /\ idem'[k].req = idem[k].req /\ idem'[k].pay = idem[k].pay
            /\ idem'[k].final = "done" /\ idem'[k].res = x
        BY <1>2, <2>1, Mirrored
      <3>2. RecordSane(k) /\ x # None /\ idem[k] \in Records
        BY <3>1, ResultFields DEF Typed, Shapes
      <3>3. ask'[idem[k].req] = ask[idem[k].req]
        BY <3>1, <3>2, RecordFields DEF RecordSane, AskGrows
      <3> QED
        BY <3>1, <3>2, <3>3 DEF RecordSane, KeyOf, Command
    <2> QED
      BY <1>2, <2>1, Mirrored, RecordKept
  <1> QED
    BY <1>1, <1>2

\* What a rollback writes: the failed document or nothing.
LEMMA RollbackCases ==
    ASSUME Typed, Rollback, NEW d, d = Command(cur.req).doc
    PROVE  /\ up /\ pc = "rollback" /\ pc \in Handling /\ d \in Docs /\ pc' = "record"
           /\ UNCHANGED <<log, idem, applied, ram, draining, stopping, ask, poll, up, inc, adv,
                          batch, cur>>
           /\ faults' \in 0 .. MaxFaults /\ prev' = Boot
           /\ out' \in Results /\ out'.st \in {"conflict", "no_op", "failed"}
           /\ doc' = doc \/ (doc[d] # None /\ doc' = [doc EXCEPT ![d].status = "failed"])
  <1>0. /\ Shapes /\ up /\ pc = "rollback" /\ pc \in Handling
        /\ UNCHANGED <<log, idem, applied, ram, draining, stopping, ask, poll, up, inc, adv,
                       batch, cur>>
    BY DEF Typed, Rollback, At, process, node, Handling
  <1>1. d \in Docs
    BY <1>0, HandlingFields
  <1> DEFINE res == Result("failed", prev.ver)
             ok == Confirmable(d, doc[d].dv)
  <1>2. res \in Results /\ res.st = "failed"
    BY <1>0, SnapshotFields, ResultFields DEF Shapes, Outcomes
  <1>3. PICK r \in Replies("rollback") :
          /\ Count(r)
          /\ doc' = IF r.done /\ ok THEN [doc EXCEPT ![d].status = "failed"] ELSE doc
          /\ Finish(res)
          /\ prev' = Boot
    BY DEF Rollback
  <1>4. faults' \in 0 .. MaxFaults
    BY <1>0, <1>3, RepliesCounted
  <1>5. ok => doc[d] # None
    BY DEF Confirmable
  <1>6. out' = res /\ pc' = "record"
    BY <1>2, <1>3 DEF Finish
  <1> HIDE DEF ok, res
  <1> QED
    BY <1>0, <1>1, <1>2, <1>3, <1>4, <1>5, <1>6

\* Rollback keeps the types.
LEMMA TypeRollback ==
    ASSUME Typed, Rollback
    PROVE  Typed'
  <1> DEFINE d == Command(cur.req).doc
             s == doc[d]
             t == [s EXCEPT !.status = "failed"]
  <1>0. /\ up /\ pc = "rollback" /\ pc \in Handling /\ d \in Docs /\ pc' = "record"
        /\ UNCHANGED <<log, idem, applied, ram, draining, stopping, ask, poll, up, inc, adv,
                       batch, cur>>
        /\ faults' \in 0 .. MaxFaults /\ prev' = Boot
        /\ out' \in Results /\ out'.st \in {"conflict", "no_op", "failed"}
        /\ doc' = doc \/ (s # None /\ doc' = [doc EXCEPT ![d] = t])
    BY RollbackCases
  <1>1. Shapes /\ AskGrows /\ doc["config"] # None /\ "config" \in Docs
    BY <1>0 DEF Typed, LoopSane, AskGrows, Docs
  <1>2. s # None =>
           /\ t \in States /\ t.ov = s.ov /\ t.dv = s.dv /\ t.last = s.last
           /\ t.lastRes = s.lastRes /\ t # None
    <2>1. s # None => s \in States
      BY <1>0, <1>1 DEF Shapes
    <2> HIDE DEF s
    <2> QED
      BY <2>1, StateFields DEF States
  <1> HIDE DEF t
  <1>3. doc' \in [Docs -> States \cup {None}] /\ doc'["config"] # None
    BY <1>0, <1>1, <1>2 DEF Shapes
  <1>4. Shapes'
    BY <1>0, <1>1, <1>3, SnapshotFields DEF Shapes, Steps
  <1>5. ASSUME NEW x \in Docs PROVE StateSane(x)'
    <2>1. CASE doc'[x] = doc[x]
      BY <2>1, <1>1, StateKept
    <2>2. CASE doc'[x] # doc[x]
      <3>1. x = d /\ doc'[x] = t /\ s # None /\ StateSane(d)
        BY <2>2, <1>1, <1>0 DEF Shapes, Typed
      <3> QED
        BY <1>0, <1>2, <3>1 DEF StateSane
    <2> QED
      BY <2>1, <2>2
  <1>6. LoopSane'
    BY <1>0, <1>3, LoopHandles, ResultFields DEF Handling
  <1> QED
    BY <1>0, <1>1, <1>4, <1>5, <1>6, RestKept DEF Typed

\* What recording a result writes: the document, the journal or nothing.
LEMMA RecordCases ==
    ASSUME Typed, Record, NEW c, c = cur.req, NEW k, k = KeyOf(c)
    PROVE  /\ up /\ pc = "record" /\ pc \in Handling /\ c \in Calls /\ k \in Keys
           /\ out \in Results
           /\ UNCHANGED <<log, doc, applied, ram, draining, stopping, ask, poll, up, inc, adv,
                          batch, cur, prev, out>>
           /\ faults' \in 0 .. MaxFaults
           /\ \/ idem' = idem /\ pc' = "readback"
              \/ /\ idem[k] # None
                 /\ idem[k].final = "" \/ idem[k].res = out
                 /\ idem' = Mirror(k, "done", out)
                 /\ pc' \in {"complete", "readback"}
  <1>0. /\ up /\ pc = "record" /\ pc \in Handling /\ Shapes
        /\ UNCHANGED <<log, doc, applied, ram, draining, stopping, ask, poll, up, inc, adv,
                       batch, cur, prev, out>>
    BY DEF Typed, Record, At, process, node, Handling
  <1>1. c \in Calls /\ k \in Keys /\ out \in Results
    BY <1>0, HandlingFields DEF Typed, LoopSane, Shapes
  <1> DEFINE ok == /\ idem[k] # None /\ idem[k].req = c /\ idem[k].pay = Command(c)
                   /\ idem[k].final = "" \/ idem[k].res = out
  <1>2. PICK r \in Replies("record") :
          /\ Count(r)
          /\ idem' = IF r.done /\ ok THEN Mirror(k, "done", out) ELSE idem
          /\ pc' = IF r.seen /\ ok THEN "complete" ELSE "readback"
    BY DEF Record
  <1>3. faults' \in 0 .. MaxFaults /\ (r.seen => r.done)
    BY <1>0, <1>2, RepliesCounted
  <1>4. CASE r.done /\ ok
    BY <1>0, <1>1, <1>2, <1>3, <1>4
  <1>5. CASE ~(r.done /\ ok)
    BY <1>0, <1>1, <1>2, <1>3, <1>5
  <1> QED
    BY <1>4, <1>5

\* Record keeps the types.
LEMMA TypeRecord ==
    ASSUME Typed, Record
    PROVE  Typed'
  <1> DEFINE c == cur.req
             k == KeyOf(c)
  <1>0. /\ up /\ pc = "record" /\ pc \in Handling /\ k \in Keys /\ out \in Results
        /\ UNCHANGED <<log, doc, applied, ram, draining, stopping, ask, poll, up, inc, adv,
                       batch, cur, prev, out>>
        /\ faults' \in 0 .. MaxFaults
        /\ idem' = idem \/ idem' = Mirror(k, "done", out)
        /\ pc' \in {"complete", "readback"}
    BY RecordCases
  <1>1. AskGrows /\ Shapes /\ doc["config"] # None
    BY <1>0 DEF Typed, AskGrows, LoopSane
  <1> HIDE DEF k
  <1>2. idem' \in [Keys -> Records \cup {None}] /\ \A j \in Keys : RecordSane(j)'
    BY <1>0, <1>1, RecordsMirrored
  <1>3. Shapes'
    BY <1>0, <1>1, <1>2 DEF Shapes, Steps
  <1>4. LoopSane'
    BY <1>0, <1>1, LoopHandles, ResultFields DEF Handling
  <1> QED
    BY <1>0, <1>1, <1>2, <1>3, <1>4, RestKept DEF Typed

\* ReadBack keeps the types.
LEMMA TypeReadBack ==
    ASSUME Typed, ReadBack
    PROVE  Typed'
  <1>0. /\ up /\ pc = "readback" /\ pc \in Handling /\ Shapes /\ doc["config"] # None
        /\ UNCHANGED <<log, idem, doc, applied, ram, draining, stopping, ask, poll, up, inc, adv,
                       batch, prev>>
    BY DEF Typed, LoopSane, ReadBack, At, process, node, backend, Handling
  <1>1. PICK r \in Replies("get_idempotency") :
          /\ Count(r)
          /\ IF r.seen /\ Journaled(cur.req)
             THEN out' = idem[KeyOf(cur.req)].res /\ pc' = "complete" /\ UNCHANGED cur
             ELSE Done("next")
    BY DEF ReadBack
  <1>2. faults' \in 0 .. MaxFaults
    BY <1>0, <1>1, RepliesCounted
  <1>3. CASE Journaled(cur.req) /\ out' = idem[KeyOf(cur.req)].res /\ pc' = "complete"
             /\ UNCHANGED cur
    <2>1. cur.req \in Calls /\ ask[cur.req] # None
      BY <1>0, HandlingFields, RequestFields
    <2>2. out' \in Results /\ out' # None
      BY <1>3, <2>1, JournaledResult, ResultFields
    <2>3. LoopSane'
      BY <1>0, <1>3, <2>2, LoopHandles DEF Handling
    <2> QED
      BY <1>0, <1>2, <1>3, <2>2, <2>3, LoopStepTyped DEF Shapes, Steps
  <1>4. CASE Done("next")
    <2>1. pc' = "next" /\ cur' = None /\ out' = None
      BY <1>4 DEF Done
    <2>2. LoopSane'
      BY <1>0, <2>1, LoopLeaves DEF Typed, LoopSane
    <2> QED
      BY <1>0, <1>2, <2>1, <2>2, LoopStepTyped DEF Shapes, Steps
  <1> QED
    BY <1>1, <1>3, <1>4

\* A row and its key end together.
LEMMA EndCases ==
    ASSUME Typed, Complete \/ Finalize, NEW c, c = cur.req, NEW k, k = KeyOf(c)
    PROVE  /\ up /\ pc \in {"complete", "finalize"} /\ c \in Calls /\ k \in Keys
           /\ out \in Results
           /\ UNCHANGED <<doc, applied, ram, draining, stopping, ask, poll, up, inc, adv,
                          batch, prev>>
           /\ faults' \in 0 .. MaxFaults /\ cur' = None /\ out' = None
           /\ pc' \in {"next", "stale"}
           /\ \/ UNCHANGED <<log, idem>>
              \/ /\ log[c] # None /\ ~Terminal(log[c])
                 /\ log' = [log EXCEPT ![c].status = "done", ![c].res = out]
                 /\ idem' = Mirror(k, "done", out)
  <1>0. /\ up /\ pc \in {"complete", "finalize"} /\ Shapes
        /\ UNCHANGED <<doc, applied, ram, draining, stopping, ask, poll, up, inc, adv,
                       batch, prev>>
    BY DEF Typed, Complete, Finalize, At, process, node
  <1>1. c \in Calls /\ k \in Keys /\ out \in Results
    BY <1>0, HandlingFields DEF Typed, LoopSane, Shapes
  <1>2. \E ok \in BOOLEAN, name \in {"complete", "finalize"} : \E r \in Replies(name) :
          /\ ok => log[c] # None /\ ~Terminal(log[c])
          /\ Count(r)
          /\ IF r.done /\ ok
             THEN /\ log' = [log EXCEPT ![c].status = "done", ![c].res = out]
                  /\ idem' = Mirror(k, "done", out)
             ELSE UNCHANGED <<log, idem>>
          /\ Done("next") \/ Done("stale")
    <2>1. CASE Complete
      <3> DEFINE ok == /\ log[c] # None /\ log[c].status = "in_progress"
                       /\ log[c].tries = cur.tok
      <3>1. ok => log[c] # None /\ ~Terminal(log[c])
        BY DEF Terminal
      <3>2. \E r \in Replies("complete") :
              /\ Count(r)
              /\ IF r.done /\ ok
                 THEN /\ log' = [log EXCEPT ![c].status = "done", ![c].res = out]
                      /\ idem' = Mirror(k, "done", out)
                 ELSE UNCHANGED <<log, idem>>
              /\ Done("next")
        BY <2>1 DEF Complete
      <3>3. ok \in BOOLEAN
        OBVIOUS
      <3> HIDE DEF ok
      <3> QED
        BY <3>1, <3>2, <3>3
    <2>2. CASE Finalize
      <3> DEFINE ok == Stale(c)
      <3>1. ok => log[c] # None /\ ~Terminal(log[c])
        BY DEF Stale
      <3>2. \E r \in Replies("finalize") :
              /\ Count(r)
              /\ IF r.done /\ ok
                 THEN /\ log' = [log EXCEPT ![c].status = "done", ![c].res = out]
                      /\ idem' = Mirror(k, "done", out)
                 ELSE UNCHANGED <<log, idem>>
              /\ Done("stale")
        BY <2>2 DEF Finalize
      <3>3. ok \in BOOLEAN
        BY DEF Stale
      <3> HIDE DEF ok
      <3> QED
        BY <3>1, <3>2, <3>3
    <2> QED
      BY <2>1, <2>2
  <1>3. PICK ok \in BOOLEAN, name \in {"complete", "finalize"} : \E r \in Replies(name) :
          /\ ok => log[c] # None /\ ~Terminal(log[c])
          /\ Count(r)
          /\ IF r.done /\ ok
             THEN /\ log' = [log EXCEPT ![c].status = "done", ![c].res = out]
                  /\ idem' = Mirror(k, "done", out)
             ELSE UNCHANGED <<log, idem>>
          /\ Done("next") \/ Done("stale")
    BY <1>2
  <1>4. PICK r \in Replies(name) :
          /\ ok => log[c] # None /\ ~Terminal(log[c])
          /\ Count(r)
          /\ IF r.done /\ ok
             THEN /\ log' = [log EXCEPT ![c].status = "done", ![c].res = out]
                  /\ idem' = Mirror(k, "done", out)
             ELSE UNCHANGED <<log, idem>>
          /\ Done("next") \/ Done("stale")
    BY <1>3
  <1>5. faults' \in 0 .. MaxFaults
    BY <1>0, <1>4, RepliesCounted
  <1>6. pc' \in {"next", "stale"} /\ cur' = None /\ out' = None
    BY <1>4 DEF Done
  <1> QED
    BY <1>0, <1>1, <1>4, <1>5, <1>6

\* End keeps the types.
LEMMA TypeEnd ==
    ASSUME Typed, Complete \/ Finalize
    PROVE  Typed'
  <1> DEFINE c == cur.req
             k == KeyOf(c)
             l == log[c]
             t == [l EXCEPT !.status = "done", !.res = out]
  <1>0. /\ up /\ c \in Calls /\ k \in Keys /\ out \in Results
        /\ UNCHANGED <<doc, applied, ram, draining, stopping, ask, poll, up, inc, adv,
                       batch, prev>>
        /\ faults' \in 0 .. MaxFaults /\ cur' = None /\ out' = None
        /\ pc' \in {"next", "stale"}
        /\ \/ UNCHANGED <<log, idem>>
           \/ l # None /\ log' = [log EXCEPT ![c] = t] /\ idem' = Mirror(k, "done", out)
    BY EndCases
  <1>1. AskGrows /\ Shapes /\ doc["config"] # None /\ inc \in Nat
    BY <1>0 DEF Typed, AskGrows, LoopSane, Shapes
  <1>2. /\ l # None => t \in Rows /\ t.inc = l.inc /\ t.tries = l.tries /\ t.status = "done" /\ t.res = out
        /\ out # None
    <2>1. l # None => l \in Rows
      BY <1>0, <1>1 DEF Shapes
    <2> HIDE DEF l
    <2> QED
      BY <1>0, <2>1, ResultFields DEF Rows
  <1> HIDE DEF k, t
  <1>3. idem' \in [Keys -> Records \cup {None}] /\ \A j \in Keys : RecordSane(j)'
    BY <1>0, <1>1, RecordsMirrored
  <1>4. log' \in [Calls -> Rows \cup {None}]
    BY <1>0, <1>1, <1>2 DEF Shapes
  <1>5. Shapes'
    BY <1>0, <1>1, <1>3, <1>4 DEF Shapes, Steps
  <1>6. ASSUME NEW x \in Calls PROVE RowSane(x)'
    <2>1. CASE log'[x] = log[x]
      BY <2>1, <1>0, <1>1, RowKept
    <2>2. CASE log'[x] # log[x]
      <3>1. x = c /\ log'[x] = t /\ l # None /\ RowSane(c)
        BY <2>2, <1>0, <1>1 DEF Shapes, Typed
      <3> QED
        BY <1>0, <1>2, <3>1 DEF RowSane, Terminal
    <2> QED
      BY <2>1, <2>2
  <1>7. LoopSane'
    BY <1>0, <1>1, LoopLeaves DEF Typed, LoopSane
  <1> QED
    BY <1>0, <1>1, <1>3, <1>5, <1>6, <1>7, RestKept DEF Typed

\* A listing holds stale commands only.
LEMMA ListingsStale == \A s \in Listings : s \subseteq {x \in Calls : Stale(x)}
  BY DEF Listings

\* ListStale keeps the types.
LEMMA TypeListStale ==
    ASSUME Typed, ListStale
    PROVE  Typed'
  <1> DEFINE old == {[req |-> c, tok |-> 0] : c \in {x \in Calls : Stale(x)}}
  <1>0. /\ up /\ Shapes /\ doc["config"] # None
        /\ UNCHANGED <<log, idem, doc, applied, ram, draining, stopping, ask, poll, up, inc, adv,
                       cur, prev, out>>
    BY DEF Typed, LoopSane, ListStale, At, process, node, backend
  <1>1. PICK r \in Replies("list") :
          /\ Count(r)
          /\ batch' \subseteq old
          /\ pc' = IF r.seen THEN "stale" ELSE "tick"
    BY ListingsStale DEF ListStale
  <1>2. faults' \in 0 .. MaxFaults
    BY <1>0, <1>1, RepliesCounted
  <1>3. ASSUME NEW b \in old PROVE b \in Claims /\ ask[b.req] # None
    <2>1. PICK c \in Calls : Stale(c) /\ b = [req |-> c, tok |-> 0]
      OBVIOUS
    <2>2. RowSane(c) /\ log[c] # None
      BY <2>1 DEF Typed, Stale
    <2> QED
      BY <2>1, <2>2, ClaimFields DEF RowSane
  <1> HIDE DEF old
  <1>4. batch' \in SUBSET Claims /\ \A b \in batch' : ask'[b.req] # None
    BY <1>0, <1>1, <1>3
  <1>5. LoopSane'
    BY <1>0, <1>1, <1>4, LoopLeaves
  <1> QED
    BY <1>0, <1>1, <1>2, <1>4, <1>5, LoopStepTyped DEF Shapes, Steps

\* StaleResult keeps the types.
LEMMA TypeStaleResult ==
    ASSUME Typed, StaleResult
    PROVE  Typed'
  <1>0. /\ up /\ pc = "stale" /\ Shapes /\ LoopSane /\ doc["config"] # None
        /\ UNCHANGED <<log, idem, doc, applied, ram, draining, stopping, ask, poll, up, inc, adv,
                       prev>>
    BY DEF Typed, LoopSane, StaleResult, At, process, node, backend
  <1>1. CASE batch = {} /\ pc' = "tick" /\ UNCHANGED <<batch, cur, out, faults>>
    <2>1. LoopSane'
      BY <1>0, <1>1, LoopLeaves
    <2> QED
      BY <1>0, <1>1, <2>1, LoopStepTyped DEF Shapes, Steps
  <1>2. ASSUME NEW b \in batch, batch' = batch \ {b}, UNCHANGED <<pc, cur, out>>,
               faults' \in 0 .. MaxFaults
        PROVE  Typed'
    <2>1. LoopSane'
      BY <1>0, <1>2, LoopLeaves DEF LoopSane
    <2> QED
      BY <1>0, <1>2, <2>1, LoopStepTyped DEF Shapes, Steps
  <1>3. ASSUME NEW b \in batch, batch' = batch \ {b}, cur' = b, pc' = "finalize",
               out' \in Results, faults' \in 0 .. MaxFaults
        PROVE  Typed'
    <2>1. b \in Claims /\ b # None /\ ask[b.req] # None
      BY <1>0, ManagementAssumption DEF Shapes, LoopSane
    <2>2. LoopSane'
      BY <1>0, <1>3, <2>1, ResultFields DEF LoopSane, Handling
    <2> QED
      BY <1>0, <1>3, <2>1, <2>2, LoopStepTyped DEF Shapes, Steps
  <1>4. ASSUME NEW b \in batch, Versioned(b.req), LastIs(b.req)
        PROVE  doc[Command(b.req).doc].lastRes \in Results
    BY <1>0, <1>4, LastResult, ClaimFields DEF Shapes, LoopSane
  <1>5. ASSUME NEW b \in batch, Versioned(b.req), NEW r \in Replies("stale_lookup"), Count(r),
               out' = IF r.seen /\ Journaled(b.req)
                      THEN idem[KeyOf(b.req)].res
                      ELSE Result("superseded", Current(Command(b.req).doc).ver)
        PROVE  out' \in Results /\ faults' \in 0 .. MaxFaults
    <2>1. b.req \in Calls /\ ask[b.req] # None
      BY <1>0, ClaimFields DEF Shapes, LoopSane
    <2>2. Journaled(b.req) => idem[KeyOf(b.req)].res \in Results
      BY <2>1, JournaledResult
    <2>3. Current(Command(b.req).doc).ver \in Nat
      BY <1>5, <2>1, AskedFields, CurrentFields
    <2>4. Result("superseded", Current(Command(b.req).doc).ver) \in Results
      BY <2>3, ResultFields DEF Outcomes
    <2> QED
      BY <1>0, <1>5, <2>2, <2>4, RepliesCounted
  <1>6. ASSUME NEW b \in batch, NEW r \in Replies("stale_state"), Count(r)
        PROVE  faults' \in 0 .. MaxFaults
    BY <1>0, <1>6, RepliesCounted
  <1>7. UNCHANGED faults => faults' \in 0 .. MaxFaults
    BY <1>0 DEF Shapes
  <1>8. CASE ~(batch = {} /\ pc' = "tick" /\ UNCHANGED <<batch, cur, out, faults>>)
    <2>1. PICK b \in batch :
             /\ batch' = batch \ {b}
             /\ \/ ~Versioned(b.req) /\ UNCHANGED <<pc, cur, out, faults>>
                \/ /\ Versioned(b.req)
                   /\ \/ \E r \in Replies("stale_state") :
                            ~r.seen /\ Count(r) /\ UNCHANGED <<pc, cur, out>>
                      \/ /\ LastIs(b.req) /\ out' = doc[Command(b.req).doc].lastRes
                         /\ cur' = b /\ pc' = "finalize" /\ UNCHANGED faults
                      \/ /\ ~LastIs(b.req)
                         /\ \E r \in Replies("stale_lookup") :
                               /\ Count(r)
                               /\ out' = IF r.seen /\ Journaled(b.req)
                                         THEN idem[KeyOf(b.req)].res
                                         ELSE Result("superseded",
                                                     Current(Command(b.req).doc).ver)
                         /\ cur' = b /\ pc' = "finalize"
      BY <1>8 DEF StaleResult
    <2>2. CASE UNCHANGED <<pc, cur, out, faults>>
      BY <1>2, <1>7, <2>1, <2>2
    <2>3. ASSUME NEW r \in Replies("stale_state"), Count(r), UNCHANGED <<pc, cur, out>>
          PROVE  Typed'
      BY <1>2, <1>6, <2>1, <2>3
    <2>4. CASE /\ Versioned(b.req) /\ LastIs(b.req) /\ out' = doc[Command(b.req).doc].lastRes
               /\ cur' = b /\ pc' = "finalize" /\ UNCHANGED faults
      BY <1>3, <1>4, <1>7, <2>1, <2>4
    <2>5. ASSUME NEW r \in Replies("stale_lookup"), Versioned(b.req), Count(r),
                 out' = IF r.seen /\ Journaled(b.req)
                        THEN idem[KeyOf(b.req)].res
                        ELSE Result("superseded", Current(Command(b.req).doc).ver),
                 cur' = b, pc' = "finalize"
          PROVE  Typed'
      <3>1. out' \in Results /\ faults' \in 0 .. MaxFaults
        BY <1>5, <2>5
      <3> QED
        BY <1>3, <2>1, <2>5, <3>1
    <2> QED
      BY <2>1, <2>2, <2>3, <2>4, <2>5
  <1> QED
    BY <1>1, <1>8

\* The invariant of the types holds in every reachable state.
LEMMA TypedHolds == Spec => []Typed
  <1>1. Init => Typed
    <2> SUFFICES ASSUME Init PROVE Typed
      OBVIOUS
    <2>1. Shapes
      <3>1. /\ log \in [Calls -> Rows \cup {None}] /\ idem \in [Keys -> Records \cup {None}]
            /\ doc \in [Docs -> States \cup {None}] /\ applied \in [Calls -> Nat]
        BY DEF Init
      <3>2. /\ ask \in [Calls -> Requests \cup {None}]
            /\ poll \in [Calls -> Calls \cup {None, "refused"}]
            /\ ram \in [Docs -> Snapshots] /\ prev \in Snapshots
        BY SnapshotFields DEF Init
      <3>3. /\ inc \in 0 .. MaxInc /\ adv \in 0 .. inc /\ faults \in 0 .. MaxFaults
        BY ManagementAssumption DEF Init
      <3>4. /\ draining \in BOOLEAN /\ stopping \in BOOLEAN /\ up \in BOOLEAN
            /\ pc \in Steps /\ batch \in SUBSET Claims /\ cur \in Claims \cup {None}
            /\ out \in Results \cup {None}
        BY DEF Init, Steps
      <3> QED
        BY <3>1, <3>2, <3>3, <3>4 DEF Shapes
    <2> QED
      BY <2>1 DEF Init, Typed, LoopSane, RowSane, RecordSane, StateSane, Handling
  <1>2. Typed /\ [Next]_vars => Typed'
    <2> SUFFICES ASSUME Typed, [Next]_vars PROVE Typed'
      OBVIOUS
    <2>1. CASE UNCHANGED vars
      <3>1. AskGrows /\ Shapes' /\ UNCHANGED <<log, inc, idem, doc, loop, up, ram>>
        BY <2>1 DEF vars, Typed, Shapes, AskGrows, loop
      <3> QED
        BY <3>1, RestKept, LoopKept DEF Typed
    <2>2. CASE Crash \/ Shutdown
      BY <2>2, TypeExit DEF Crash, Shutdown
    <2>3. Step => Typed'
      BY <2>2, TypeClaim, TypeNextCommand, TypeReplay, TypeLoad, TypePrepare, TypeConfirm,
         TypeRollback, TypeRecord, TypeReadBack, TypeEnd, TypeListStale, TypeStaleResult
         DEF Step
    <2> QED
      BY <2>1, <2>2, <2>3, TypeEnqueue, TypeCollectRow, TypeCollectKey, TypeLeaseExpires,
         TypeHeartbeat, TypeRestart, TypeRestoreFails DEF Next
  <1> QED
    BY <1>1, <1>2, PTL DEF Spec

\* Type correctness: rows belong to incarnations that were advertised and are tried at
\* most MaxAttempts times, a row or key has a result exactly when it is finished, and a
\* document has at most one change under way (claim_commands, cas_runtime_desired).
THEOREM TypeCorrect == Spec => []TypeOK
  <1>1. Typed => TypeOK
    <2> SUFFICES ASSUME Typed PROVE TypeOK
      OBVIOUS
    <2>1. ASSUME NEW c \in Calls, log[c] # None
          PROVE  /\ log[c].inc \in 1 .. inc /\ log[c].tries \in 0 .. MaxAttempts
                 /\ log[c].status \in {"pending", "in_progress", "done", "failed"}
                 /\ Terminal(log[c]) <=> log[c].res # None
      BY <2>1, RowFields DEF Typed, Shapes, RowSane
    <2>2. ASSUME NEW k \in Keys, idem[k] # None
          PROVE  /\ KeyOf(idem[k].req) = k
                 /\ idem[k].final \in {"", "done", "failed"}
                 /\ idem[k].final = "" <=> idem[k].res = None
      BY <2>2, RecordFields DEF Typed, Shapes, RecordSane
    <2>3. ASSUME NEW d \in Docs, doc[d] # None
          PROVE  doc[d].ov \in Nat /\ doc[d].dv \in {doc[d].ov, doc[d].ov + 1}
      BY <2>3, StateFields DEF Typed, Shapes, StateSane
    <2>4. /\ inc \in 0 .. MaxInc /\ adv \in 0 .. inc /\ up \in BOOLEAN
          /\ faults \in 0 .. MaxFaults
          /\ draining \in BOOLEAN /\ stopping \in BOOLEAN
      BY DEF Typed, Shapes
    <2> QED
      BY <2>1, <2>2, <2>3, <2>4 DEF TypeOK
  <1> QED
    BY <1>1, TypedHolds, PTL

----------------------------------------------------------------------------
(* RunningIsObserved *)

\* Snapshots with the same fields are one.
LEMMA ConfirmedIs ==
    ASSUME NEW s \in States, NEW x \in Snapshots, x.ver = s.ov, x.val = s.oval
    PROVE  x = Confirmed(s)
  BY DEF Confirmed, Snapshots

\* A step that leaves what the process runs with and its durable state alone.
LEMMA RunsKept ==
    ASSUME Typed, Running, AskGrows, UNCHANGED <<doc, ram, up>>,
           \/ pc # "confirm" /\ pc' # "confirm"
           \/ UNCHANGED <<pc, cur, prev>>
    PROVE  Running'
  <1> SUFFICES ASSUME up, NEW d \in Docs PROVE Runs(d)'
    BY DEF Running
  <1>1. Runs(d)
    BY DEF Running
  <1>2. CASE pc # "confirm" /\ pc' # "confirm"
    BY <1>1, <1>2 DEF Runs, Confirmed
  <1>3. CASE UNCHANGED <<pc, cur, prev>>
    <2>1. pc = "confirm" => Command(cur.req)' = Command(cur.req)
      <3> SUFFICES ASSUME pc = "confirm" PROVE Command(cur.req)' = Command(cur.req)
        OBVIOUS
      <3>1. cur.req \in Calls /\ ask[cur.req] # None
        BY HandlingFields, RequestFields DEF Handling
      <3> QED
        BY <1>3, <3>1 DEF Command, AskGrows
    <2> QED
      BY <1>1, <1>3, <2>1 DEF Runs, Confirmed
  <1> QED
    BY <1>2, <1>3

\* Prepare keeps what the process runs tied to its documents.
LEMMA RunsPrepare ==
    ASSUME Typed, Running, Prepare
    PROVE  Running'
  <1> DEFINE d == Command(cur.req).doc
             ver == Current(d).ver
             val == Command(cur.req).value
             w == Wanted(d, ver, val)
  <1>0. /\ up /\ pc = "cas" /\ pc \in Handling /\ d \in Docs
        /\ UNCHANGED <<ask, up, cur>>
        /\ \/ /\ pc' = "record"
              /\ doc' = doc \/ (CasWins(d, ver) /\ doc' = [doc EXCEPT ![d] = w])
              /\ UNCHANGED <<ram, prev>>
           \/ /\ CasWins(d, ver) /\ doc' = [doc EXCEPT ![d] = w]
              /\ ram' = [ram EXCEPT ![d] = [ver |-> ver + 1, val |-> val]]
              /\ prev' = ram[d] /\ pc' = "confirm"
    BY PrepareCases
  <1>1. Shapes /\ val \in Values /\ ram[d] \in Snapshots /\ doc[d] \in States \cup {None}
        /\ Runs(d)
    BY <1>0, HandlingFields DEF Typed, Shapes, Running
  <1>2. CasWins(d, ver) => w # None /\ ram[d] = Confirmed(w)
    <2> SUFFICES ASSUME CasWins(d, ver) PROVE w # None /\ ram[d] = Confirmed(w)
      OBVIOUS
    <2>1. /\ w \in States /\ w # None /\ w.ov = ver
          /\ doc[d] # None => w.oval = doc[d].oval
          /\ doc[d] = None => w.oval = 0
      BY <1>0, <1>1, WantedFields
    <2> HIDE DEF w, ver
    <2>2. CASE doc[d] = None
      <3>1. ram[d] = Boot /\ ver = 0
        BY <1>0, <1>1, <2>2, CurrentFields DEF Runs, Boot, ver
      <3> QED
        BY <1>1, <2>1, <2>2, <3>1, ConfirmedIs DEF Boot
    <2>3. CASE doc[d] # None
      <3>1. ram[d] = Confirmed(doc[d]) /\ ver = doc[d].ov
        BY <1>0, <1>1, <2>3 DEF Runs, CasWins
      <3>2. ram[d].ver = doc[d].ov /\ ram[d].val = doc[d].oval
        BY <1>1, <2>3, <3>1, ConfirmedFields
      <3> QED
        BY <1>1, <2>1, <2>3, <3>1, <3>2, ConfirmedIs
    <2> QED
      BY <2>2, <2>3
  <1>3. Command(cur.req)' = Command(cur.req)
    BY <1>0 DEF Command
  <1> HIDE DEF w, ver, val
  <1>4. ASSUME NEW x \in Docs PROVE Runs(x)'
    <2>1. Runs(x)
      BY <1>0 DEF Running
    <2>2. CASE x # d
      <3>1. doc'[x] = doc[x] /\ ram'[x] = ram[x]
        BY <1>0, <1>1, <2>2 DEF Shapes
      <3>2. Confirmed(doc[x])' = Confirmed(doc'[x])
        BY DEF Confirmed
      <3> QED
        BY <1>0, <1>3, <2>1, <2>2, <3>1, <3>2 DEF Runs
    <2>3. CASE x = d /\ pc' = "confirm"
      <3>1. doc'[d] = w /\ prev' = ram[d] /\ CasWins(d, ver)
        BY <1>0, <1>1, <2>3 DEF Shapes
      <3>2. prev' = Confirmed(doc'[d]) /\ doc'[d] # None
        BY <1>2, <3>1
      <3>3. Confirmed(doc[x])' = Confirmed(doc'[d])
        BY <2>3 DEF Confirmed
      <3> HIDE DEF d
      <3> QED
        BY <1>3, <2>3, <3>2, <3>3 DEF Runs, d
    <2>4. CASE x = d /\ pc' = "record" /\ doc' = doc
      BY <1>0, <2>1, <2>4 DEF Runs, Confirmed
    <2>5. CASE x = d /\ pc' = "record" /\ CasWins(d, ver) /\ doc' = [doc EXCEPT ![d] = w]
      <3>1. doc'[x] = w /\ ram'[x] = Confirmed(w) /\ w # None
        BY <1>0, <1>1, <1>2, <2>5 DEF Shapes
      <3>2. Confirmed(doc[x])' = Confirmed(doc'[x])
        BY DEF Confirmed
      <3> QED
        BY <2>5, <3>1, <3>2 DEF Runs
    <2> QED
      BY <1>0, <2>2, <2>3, <2>4, <2>5
  <1> QED
    BY <1>4 DEF Running

\* Confirm keeps what the process runs tied to its documents.
LEMMA RunsConfirm ==
    ASSUME ConfirmHeard, Typed, Running, Confirm
    PROVE  Running'
  <1> DEFINE c == cur.req
             d == Command(c).doc
             res == Result("applied", ram[d].ver)
             o == Observed(d, c, res)
  <1>0. /\ up /\ pc = "confirm" /\ d \in Docs /\ doc[d] \in States /\ doc[d] # None
        /\ c \in Calls /\ res \in Results
        /\ pc' # "confirm"
        /\ \/ doc' = [doc EXCEPT ![d] = o] /\ UNCHANGED ram
           \/ UNCHANGED doc /\ ram' = [ram EXCEPT ![d] = prev]
    BY ConfirmCases, StateFields DEF ConfirmHeard
  <1>1. Shapes /\ ram[d] \in Snapshots /\ prev \in Snapshots /\ Runs(d)
    BY <1>0 DEF Typed, Shapes, Running
  <1>2. o # None /\ ram[d] = Confirmed(o)
    <2>1. ram[d].ver \in Nat /\ ram[d].val \in Values
      BY <1>1, SnapshotFields
    <2> DEFINE v == ram[d].ver
               y == ram[d].val
               s == doc[d]
               t == [s EXCEPT !.ov = v, !.oval = y, !.status = "observed",
                              !.last = c, !.lastRes = res]
    <2>2. o = t
      BY DEF Observed
    <2>3. v \in Nat /\ y \in Values /\ c \in Calls /\ res \in Results /\ s \in States
      BY <1>0, <2>1
    <2> HIDE DEF c, res, v, y, s
    <2>4. t \in States /\ t.ov = v /\ t.oval = y
      BY <2>3 DEF States
    <2> HIDE DEF t, o
    <2> QED
      BY <1>1, <2>2, <2>4, ConfirmedIs, StateFields DEF v, y
  <1> HIDE DEF o, res
  <1>3. ASSUME NEW x \in Docs PROVE Runs(x)'
    <2>1. Runs(x)
      BY <1>0 DEF Running
    <2>2. Confirmed(doc[x])' = Confirmed(doc'[x])
      BY DEF Confirmed
    <2>3. CASE x # d
      <3>1. doc'[x] = doc[x] /\ ram'[x] = ram[x]
        BY <1>0, <1>1, <2>3 DEF Shapes
      <3> QED
        BY <1>0, <2>1, <2>2, <2>3, <3>1 DEF Runs
    <2>4. CASE x = d /\ doc' = [doc EXCEPT ![d] = o] /\ UNCHANGED ram
      <3>1. doc'[x] = o /\ ram'[x] = Confirmed(o) /\ o # None
        BY <1>0, <1>1, <1>2, <2>4 DEF Shapes
      <3> QED
        BY <1>0, <2>2, <3>1 DEF Runs
    <2>5. CASE x = d /\ UNCHANGED doc /\ ram' = [ram EXCEPT ![d] = prev]
      <3>1. doc'[x] = doc[d] /\ ram'[x] = prev /\ prev = Confirmed(doc[d])
        BY <1>0, <1>1, <2>5 DEF Shapes, Runs
      <3> QED
        BY <1>0, <2>2, <3>1 DEF Runs
    <2> QED
      BY <1>0, <2>3, <2>4, <2>5
  <1> QED
    BY <1>3 DEF Running

\* Rollback keeps what the process runs tied to its documents.
LEMMA RunsRollback ==
    ASSUME Typed, Running, Rollback
    PROVE  Running'
  <1> DEFINE d == Command(cur.req).doc
             s == doc[d]
             t == [s EXCEPT !.status = "failed"]
  <1>0. /\ up /\ pc = "rollback" /\ d \in Docs /\ pc' = "record"
        /\ UNCHANGED <<ram, up>>
        /\ doc' = doc \/ (s # None /\ doc' = [doc EXCEPT ![d] = t])
    BY RollbackCases
  <1>1. Shapes
    BY DEF Typed
  <1>2. s # None => t # None /\ Confirmed(t) = Confirmed(s)
    <2>1. s # None => s \in States
      BY <1>0, <1>1 DEF Shapes
    <2> HIDE DEF s
    <2>2. s # None => t \in States /\ t.ov = s.ov /\ t.oval = s.oval
      BY <2>1 DEF States
    <2> QED
      BY <2>2, StateFields DEF Confirmed
  <1> HIDE DEF t
  <1>3. ASSUME NEW x \in Docs PROVE Runs(x)'
    <2>1. Runs(x)
      BY <1>0 DEF Running
    <2>2. Confirmed(doc[x])' = Confirmed(doc'[x])
      BY DEF Confirmed
    <2>3. doc'[x] = doc[x] \/ (doc[x] # None /\ doc'[x] # None /\ Confirmed(doc'[x]) = Confirmed(doc[x]))
      BY <1>0, <1>1, <1>2 DEF Shapes
    <2> QED
      BY <1>0, <2>1, <2>2, <2>3 DEF Runs
  <1> QED
    BY <1>3 DEF Running

\* Restart keeps what the process runs tied to its documents.
LEMMA RunsRestart ==
    ASSUME Typed, Restart
    PROVE  Running'
  <1>0. /\ Shapes /\ inc \in Nat /\ pc = "tick" /\ pc' = "tick"
        /\ doc' = [d \in Docs |->
              CASE doc[d] # None -> Restored(doc[d])
                [] doc[d] = None /\ d = "config" -> Fresh(inc + 1)
                [] OTHER -> None]
        /\ ram' = [d \in Docs |-> IF doc[d] = None THEN Boot ELSE Confirmed(doc[d])]
    BY DEF Typed, LoopSane, Shapes, Restart, loop
  <1>1. ASSUME NEW d \in Docs PROVE Runs(d)'
    <2>1. Confirmed(doc[d])' = Confirmed(doc'[d])
      BY DEF Confirmed
    <2>2. CASE doc[d] # None
      <3>1. /\ doc[d] \in States /\ doc'[d] = Restored(doc[d]) /\ ram'[d] = Confirmed(doc[d])
        BY <1>0, <2>2 DEF Shapes
      <3>2. /\ doc'[d] \in States /\ doc'[d].ov = doc[d].ov /\ doc'[d].oval = doc[d].oval
        BY <1>0, <3>1, RestoredFields
      <3> QED
        BY <1>0, <2>1, <3>1, <3>2, StateFields DEF Runs, Confirmed
    <2>3. CASE doc[d] = None
      <3>1. doc'[d] \in {Fresh(inc + 1), None} /\ ram'[d] = Boot
        BY <1>0, <2>3
      <3>2. Confirmed(Fresh(inc + 1)) = Boot
        BY <1>0, FreshFields DEF Confirmed, Boot
      <3> QED
        BY <1>0, <2>1, <3>1, <3>2 DEF Runs
    <2> QED
      BY <2>2, <2>3
  <1> QED
    BY <1>1 DEF Running

\* A running node runs with the snapshot its durable state calls observed, across
\* crashes, lost requests, lost compare-and-swap replies and interrupted rollbacks: the
\* only thing that can part the two is a lost reply to a confirmation that took effect.
THEOREM RunsWhatIsObserved ==
    ASSUME ConfirmHeard
    PROVE  Spec => []RunningIsObserved
  <1>1. Init => Running
    BY DEF Init, Running
  <1>2. Typed /\ Running /\ [Next]_vars => Running'
    <2> SUFFICES ASSUME Typed, Running, [Next]_vars PROVE Running'
      OBVIOUS
    <2>1. CASE UNCHANGED vars
      BY <2>1, RunsKept DEF vars, AskGrows
    <2>2. CASE \E c \in Calls : CollectRow(c) \/ LeaseExpires(c)
      BY <2>2, RunsKept DEF CollectRow, LeaseExpires, node, loop, process, AskGrows
    <2>3. CASE \E k \in Keys : CollectKey(k)
      BY <2>3, RunsKept DEF CollectKey, node, loop, process, AskGrows
    <2>4. ASSUME NEW c \in Calls, Enqueue(c) PROVE Running'
      <3>1. AskGrows /\ UNCHANGED <<doc, ram, up, pc, cur, prev>>
        BY <2>4 DEF Enqueue, node, loop, process, AskGrows, Typed, Shapes
      <3> QED
        BY <3>1, RunsKept
    <2>5. CASE Heartbeat
      BY <2>5, RunsKept DEF Heartbeat, node, loop, backend, AskGrows
    <2>6. CASE Crash \/ Shutdown \/ RestoreFails
      BY <2>6 DEF Crash, Shutdown, Exit, RestoreFails, Running
    <2>7. CASE Claim \/ NextCommand \/ Replay \/ Load \/ Lookup
      <3>1. pc # "confirm" /\ pc' # "confirm" /\ AskGrows /\ UNCHANGED <<doc, ram, up>>
        BY <2>7 DEF Claim, NextCommand, Replay, Load, Lookup, At, Finish, backend, node, process,
           AskGrows
      <3> QED
        BY <3>1, RunsKept
    <2>8. CASE Record \/ ReadBack \/ Complete \/ ListStale \/ StaleResult \/ Finalize
      <3>1. pc # "confirm" /\ pc' # "confirm" /\ AskGrows /\ UNCHANGED <<doc, ram, up>>
        BY <2>8 DEF Record, ReadBack, Complete, ListStale, StaleResult, Finalize, At, Done,
           backend, node, process, AskGrows
      <3> QED
        BY <3>1, RunsKept
    <2> QED
      BY <2>1, <2>2, <2>3, <2>4, <2>5, <2>6, <2>7, <2>8, RunsPrepare, RunsConfirm, RunsRollback,
         RunsRestart DEF Next, Step
  <1>3. Running => RunningIsObserved
    BY DEF Running, Runs, RunningIsObserved, Confirmed
  <1> QED
    BY <1>1, <1>2, <1>3, TypedHolds, PTL DEF Spec

----------------------------------------------------------------------------
(* OneFate and AnswerTruthful: the journal *)

\* A step that writes no outcome: rows go, leases run out, a row ends with the outcome
\* its key has.
LEMMA BooksKept ==
    ASSUME Typed, Books, UNCHANGED <<idem, ask, poll, applied>>,
           \A y \in Calls :
              \/ log'[y] \in {log[y], None}
              \/ /\ log[y] # None /\ ~Terminal(log[y])
                 /\ log'[y].status = "done" => idem[KeyOf(y)].res = log'[y].res,
           \A d \in Docs : doc'[d] # None /\ doc'[d].last # None =>
              /\ doc[d] # None
              /\ doc'[d].last = doc[d].last /\ doc'[d].lastRes = doc[d].lastRes
    PROVE  Books'
  <1>0. \A c \in Calls : KeyOf(c)' = KeyOf(c) /\ Versioned(c)' = Versioned(c)
    BY DEF KeyOf, Versioned, Command
  <1>1. \A k : Decided(k)' = Decided(k)
    BY DEF Decided
  <1>2. ASSUME NEW c \in Calls PROVE RowKeyed(c)'
    <2>1. RowKeyed(c)
      BY DEF Books
    <2> SUFFICES ASSUME log'[c] # None PROVE RowKeyed(c)'
      BY DEF RowKeyed
    <2>2. /\ log[c] # None
          /\ log'[c].status = "done" => idem[KeyOf(c)].res = log'[c].res
      BY <2>1 DEF RowKeyed
    <2>3. Open(c)' => Open(c)
      BY DEF Open, Terminal
    <2> QED
      BY <1>0, <1>1, <2>1, <2>2, <2>3 DEF RowKeyed
  <1>3. ASSUME NEW c \in Calls PROVE PollSane(c)' /\ (ask'[c] = None => applied'[c] = 0)
    <2>1. PollSane(c) /\ (ask[c] = None => applied[c] = 0)
      BY DEF Books
    <2> QED
      BY <1>0, <2>1 DEF PollSane
  <1>4. ASSUME NEW k \in Keys PROVE AppliedSane(k)'
    <2>1. AppliedSane(k)
      BY DEF Books
    <2> QED
      BY <1>1, <2>1 DEF AppliedSane
  <1>5. ASSUME NEW d \in Docs PROVE LastSane(d)'
    <2>1. LastSane(d)
      BY DEF Books
    <2> SUFFICES ASSUME doc'[d] # None, doc'[d].last # None PROVE LastSane(d)'
      BY DEF LastSane
    <2>2. /\ doc[d] # None
          /\ doc'[d].last = doc[d].last /\ doc'[d].lastRes = doc[d].lastRes
      OBVIOUS
    <2> QED
      BY <1>1, <2>1, <2>2 DEF LastSane, KeyOf
  <1>6. KeysSpent'
    BY <1>0 DEF Books, KeysSpent, Exhausted
  <1> QED
    BY <1>2, <1>3, <1>4, <1>5, <1>6 DEF Books

\* A step that writes the outcome of one open key.
LEMMA BooksWrite ==
    ASSUME Typed, Books, UNCHANGED <<ask, poll>>,
           NEW c \in Calls, NEW k \in Keys, k = KeyOf(c), ask[c] # None,
           idem[k] # None, idem[k].req = c, ~Decided(k),
           NEW x \in Results,
           \A j \in Keys : j # k => idem'[j] = idem[j],
           idem'[k] # None, idem'[k].req = c, idem'[k].final # "", idem'[k].res = x,
           \A y \in Calls : y # c => log'[y] = log[y] /\ applied'[y] = applied[y],
           log'[c] # None => log[c] # None,
           log'[c] # None /\ ~Terminal(log'[c]) => Versioned(c) /\ x.st # "dead_letter",
           log'[c] # None /\ log'[c].status = "done" => log'[c].res = x,
           applied'[c] = IF x.st = "applied" THEN 1 ELSE 0,
           \A d \in Docs : doc'[d] # None /\ doc'[d].last # None =>
              \/ doc'[d].last = c /\ doc'[d].lastRes = x
              \/ /\ doc[d] # None
                 /\ doc'[d].last = doc[d].last /\ doc'[d].lastRes = doc[d].lastRes
    PROVE  Books'
  <1>0. \A y : KeyOf(y)' = KeyOf(y) /\ Versioned(y)' = Versioned(y)
    BY DEF KeyOf, Versioned, Command
  <1>1. /\ \A j \in Keys : j # k => Decided(j)' = Decided(j)
        /\ Decided(k)'
    BY DEF Decided
  <1>2. ASSUME NEW y \in Calls PROVE RowKeyed(y)'
    <2>1. RowKeyed(y)
      BY DEF Books
    <2> SUFFICES ASSUME log'[y] # None PROVE RowKeyed(y)'
      BY DEF RowKeyed
    <2>2. CASE y = c
      BY <1>0, <2>2 DEF RowKeyed, Open
    <2>3. CASE y # c
      <3>1. log[y] # None /\ log'[y] = log[y] /\ Open(y)' = Open(y)
        BY <2>3 DEF Open, Terminal
      <3>2. ask[y] # None
        BY <3>1 DEF Typed, RowSane
      <3>3. KeyOf(y) \in Keys /\ KeyOf(y) # k
        BY <2>1, <2>3, <3>1, <3>2, AskedFields DEF RowKeyed
      <3> QED
        BY <1>0, <1>1, <2>1, <3>1, <3>3 DEF RowKeyed
    <2> QED
      BY <2>2, <2>3
  <1>3. ASSUME NEW y \in Calls PROVE PollSane(y)' /\ (ask'[y] = None => applied'[y] = 0)
    <2>1. PollSane(y) /\ (ask[y] = None => applied[y] = 0)
      BY DEF Books
    <2>2. ask'[y] = None => applied'[y] = 0
      BY <2>1
    <2>3. PollSane(y)'
      <3> SUFFICES ASSUME poll[y] \in Calls PROVE PollSane(y)'
        BY DEF PollSane
      <3>1. ask[y] # None /\ KeyOf(y) \in Keys
        BY <2>1, AskedFields DEF PollSane
      <3>2. idem'[KeyOf(y)] # None => idem'[KeyOf(y)].req = poll[y]
        BY <2>1, <3>1 DEF PollSane
      <3> QED
        BY <1>0, <2>1, <3>2 DEF PollSane
    <2> QED
      BY <2>2, <2>3
  <1>4. ASSUME NEW j \in Keys PROVE AppliedSane(j)'
    <2>1. CASE j = k
      BY <1>1, <2>1 DEF AppliedSane
    <2>2. CASE j # k
      <3> SUFFICES ASSUME idem[j] # None PROVE AppliedSane(j)'
        BY <2>2 DEF AppliedSane
      <3>1. AppliedSane(j) /\ RecordSane(j) /\ idem[j] \in Records
        BY DEF Books, Typed, Shapes
      <3>2. idem[j].req \in Calls /\ idem[j].req # c
        BY <2>2, <3>1, RecordFields DEF RecordSane
      <3> QED
        BY <1>1, <2>2, <3>1, <3>2 DEF AppliedSane
    <2> QED
      BY <2>1, <2>2
  <1>5. ASSUME NEW d \in Docs PROVE LastSane(d)'
    <2> SUFFICES ASSUME doc'[d] # None, doc'[d].last # None PROVE LastSane(d)'
      BY DEF LastSane
    <2>1. CASE doc'[d].last = c /\ doc'[d].lastRes = x
      BY <1>0, <1>1, <2>1 DEF LastSane, KeyOf
    <2>2. CASE /\ doc[d] # None
               /\ doc'[d].last = doc[d].last /\ doc'[d].lastRes = doc[d].lastRes
      <3>1. LastSane(d) /\ StateSane(d) /\ doc[d] \in States
        BY <2>2 DEF Books, Typed, Shapes
      <3>2. doc[d].last \in Calls /\ ask[doc[d].last] # None
        BY <2>2, <3>1, StateFields DEF StateSane
      <3>3. KeyOf(doc[d].last) \in Keys /\ KeyOf(doc[d].last) # k
        BY <2>2, <3>1, <3>2, AskedFields DEF LastSane
      <3> QED
        BY <1>0, <1>1, <2>2, <3>1, <3>3 DEF LastSane, KeyOf
    <2> QED
      BY <2>1, <2>2
  <1>6. KeysSpent'
    <2> SUFFICES ASSUME NEW y \in Calls, ask[y] # None, idem'[KeyOf(y)] = None
                 PROVE  Exhausted(KeyOf(y))
      BY <1>0 DEF KeysSpent, Exhausted
    <2>1. KeyOf(y) \in Keys /\ KeyOf(y) # k
      BY AskedFields
    <2> QED
      BY <2>1 DEF Books, KeysSpent
  <1> QED
    BY <1>2, <1>3, <1>4, <1>5, <1>6 DEF Books

\* The key of an open row: there, the row's own, and if it is decided then readable.
LEMMA OpenKey ==
    ASSUME Typed, Books, NEW c \in Calls, Open(c)
    PROVE  /\ ask[c] # None /\ KeyOf(c) \in Keys /\ log[c] # None
           /\ idem[KeyOf(c)] # None /\ idem[KeyOf(c)].req = c
           /\ Decided(KeyOf(c)) <=> Journaled(c)
           /\ Journaled(c) <=> Decodable(c)
           /\ Decided(KeyOf(c)) => Versioned(c) /\ idem[KeyOf(c)].res.st # "dead_letter"
  <1>1. log[c] # None /\ ask[c] # None
    BY DEF Open, Typed, RowSane
  <1>2. KeyOf(c) \in Keys /\ RowKeyed(c)
    BY <1>1, AskedFields DEF Books
  <1>3. RecordSane(KeyOf(c))
    BY <1>2 DEF Typed
  <1> QED
    BY <1>1, <1>2, <1>3 DEF RowKeyed, RecordSane, Decided, Journaled, Decodable

\* The last applied operation of a document, met again, is decided as it says.
LEMMA LastDecided ==
    ASSUME Typed, Books, NEW c \in Calls, Open(c), Versioned(c), LastIs(c)
    PROVE  Decided(KeyOf(c)) /\ idem[KeyOf(c)].res = doc[Command(c).doc].lastRes
  <1>1. ask[c] # None /\ idem[KeyOf(c)] # None
    BY OpenKey
  <1>2. Command(c).doc \in Docs
    BY <1>1, AskedFields
  <1>3. LastSane(Command(c).doc)
    BY <1>2 DEF Books
  <1> QED
    BY <1>1, <1>3 DEF LastIs, LastSane

----------------------------------------------------------------------------
(* OneFate and AnswerTruthful: the control plane, start and end *)

\* The claims stay open while no open call is finished or loses its journal row.
LEMMA HandKept ==
    ASSUME Typed, Journaling, AskGrows, UNCHANGED <<pc, batch, cur, out>>,
           \A x \in Calls : Open(x) => Open(x)' /\ idem'[KeyOf(x)] = idem[KeyOf(x)]
    PROVE  Claimed' /\ AtHand'
  <1>1. batch \in SUBSET Claims /\ \A b \in batch : b.req \in Calls
    BY ClaimFields DEF Typed, Shapes
  <1>2. Claimed'
    <2>1. pc \in Handling \cup {"complete", "finalize"} => cur.req \in Calls
      BY HandlingFields
    <2> QED
      BY <1>1, <2>1 DEF Journaling, Claimed
  <1>3. AtHand'
    <2>1. CASE pc \in Handling \cup {"complete", "finalize"}
      <3>1. cur.req \in Calls /\ Open(cur.req) /\ ask[cur.req] # None
        BY <2>1, HandlingFields, OpenKey DEF Journaling, Claimed
      <3>2. KeyOf(cur.req)' = KeyOf(cur.req) /\ idem'[KeyOf(cur.req)] = idem[KeyOf(cur.req)]
        BY <3>1 DEF KeyOf, AskGrows
      <3>3. Decided(KeyOf(cur.req))' = Decided(KeyOf(cur.req))
        BY <3>2 DEF Decided
      <3> QED
        BY <3>2, <3>3 DEF Journaling, AtHand
    <2>2. CASE pc \notin Handling \cup {"complete", "finalize"}
      BY <2>2 DEF AtHand, Handling
    <2> QED
      BY <2>1, <2>2
  <1> QED
    BY <1>2, <1>3

\* Enqueue keeps the invariant of the journal.
LEMMA JournalEnqueue ==
    ASSUME Typed, Journaling, NEW c \in Calls, Enqueue(c)
    PROVE  Journaling'
  <1> DEFINE row == [inc |-> adv, status |-> "pending", res |-> None, lease |-> FALSE,
                     tries |-> 0]
             new(m) == [req |-> c, pay |-> m.cmd, final |-> "", res |-> None]
  <1>1. PICK m \in Menu[c] :
           /\ ask' = [ask EXCEPT ![c] = m]
           /\ \/ /\ idem[m.key] = None
                 /\ idem' = [idem EXCEPT ![m.key] = new(m)]
                 /\ log' = [log EXCEPT ![c] = row]
                 /\ poll' = [poll EXCEPT ![c] = c]
              \/ /\ idem[m.key] # None
                 /\ poll' = [poll EXCEPT ![c] = idem[m.key].req]
                 /\ UNCHANGED <<idem, log>>
              \/ /\ idem[m.key] # None
                 /\ poll' = [poll EXCEPT ![c] = "refused"]
                 /\ UNCHANGED <<idem, log>>
    BY DEF Enqueue
  <1>2. /\ Shapes /\ Books /\ ask[c] = None
        /\ UNCHANGED <<doc, applied, pc, batch, cur, out>>
    BY DEF Typed, Journaling, Enqueue, loop
  <1>3. m \in Requests /\ m # None /\ m.key \in Keys
    BY RequestFields DEF Requests
  <1>4. /\ adv \in Nat /\ row.status = "pending" /\ row.res = None
        /\ row \in Rows /\ row # None
    BY <1>2, NewRow, RowFields, ManagementAssumption DEF Shapes
  <1>5. /\ new(m).req = c /\ new(m).final = "" /\ new(m) # None
    BY <1>3, NewRecord, RecordFields, RequestFields
  <1> HIDE DEF row, new
  <1>6. AskGrows /\ ask'[c] = m /\ \A y \in Calls : y # c => ask'[y] = ask[y]
    BY <1>1, <1>2 DEF AskGrows, Shapes
  <1>7. log[c] = None
    BY <1>2 DEF Typed, RowSane
  <1>8. ASSUME NEW y \in Calls, y # c
        PROVE  log'[y] = log[y] /\ KeyOf(y)' = KeyOf(y) /\ poll'[y] = poll[y]
               /\ Open(y)' = Open(y) /\ Versioned(y)' = Versioned(y)
    BY <1>1, <1>2, <1>6, <1>8 DEF Shapes, KeyOf, Open, Terminal, Versioned, Command
  <1>9. KeyOf(c)' = m.key
    BY <1>6 DEF KeyOf
  \* A key that is new now was never used.
  <1>10. ASSUME NEW y \in Calls, ask[y] # None, idem'[KeyOf(y)] # idem[KeyOf(y)] PROVE FALSE
    <2>1. KeyOf(y) \in Keys
      BY <1>10, AskedFields
    <2>2. KeyOf(y) = m.key /\ idem[m.key] = None
      BY <1>1, <1>2, <1>10, <2>1 DEF Shapes
    <2>3. Exhausted(m.key)
      BY <1>2, <1>10, <2>2 DEF Books, KeysSpent
    <2> QED
      BY <1>2, <2>3 DEF Exhausted
  <1>11. ASSUME NEW y \in Calls PROVE RowKeyed(y)'
    <2> SUFFICES ASSUME log'[y] # None PROVE RowKeyed(y)'
      BY DEF RowKeyed
    <2>1. CASE y = c
      <3>1. log'[c] = row /\ idem'[m.key] = new(m)
        BY <1>1, <1>2, <1>3, <1>7, <2>1 DEF Shapes
      <3> QED
        BY <1>4, <1>5, <1>9, <2>1, <3>1 DEF RowKeyed, Decided
    <2>2. CASE y # c
      <3>1. log[y] # None /\ RowKeyed(y) /\ ask[y] # None
        BY <1>2, <1>8, <2>2 DEF Books, Typed, RowSane
      <3>2. idem'[KeyOf(y)] = idem[KeyOf(y)]
        BY <1>10, <3>1
      <3> QED
        BY <1>8, <2>2, <3>1, <3>2 DEF RowKeyed, Decided
    <2> QED
      BY <2>1, <2>2
  <1>12. ASSUME NEW y \in Calls PROVE PollSane(y)' /\ (ask'[y] = None => applied'[y] = 0)
    <2>1. CASE y # c
      <3>1. PollSane(y) /\ (ask[y] = None => applied[y] = 0)
        BY <1>2 DEF Books
      <3>2. ask'[y] = None => applied'[y] = 0
        BY <1>2, <1>6, <2>1, <3>1
      <3>3. PollSane(y)'
        <4> SUFFICES ASSUME poll[y] \in Calls PROVE PollSane(y)'
          BY <1>8, <2>1 DEF PollSane
        <4>1. /\ ask[y] # None /\ ask[poll[y]] # None /\ poll[y] # c
              /\ idem'[KeyOf(y)] = idem[KeyOf(y)]
          BY <1>2, <1>10, <3>1 DEF PollSane
        <4> QED
          BY <1>6, <1>8, <2>1, <3>1, <4>1 DEF PollSane, KeyOf
      <3> QED
        BY <3>2, <3>3
    <2>2. CASE y = c
      <3>1. CASE poll'[c] \notin Calls
        BY <1>3, <1>6, <2>2, <3>1 DEF PollSane
      <3>2. CASE poll'[c] = c /\ idem' = [idem EXCEPT ![m.key] = new(m)]
        <4>1. idem'[m.key].req = c
          BY <1>2, <1>3, <1>5, <3>2 DEF Shapes
        <4> QED
          BY <1>3, <1>6, <1>9, <2>2, <3>2, <4>1 DEF PollSane
      <3>3. CASE idem[m.key] # None /\ poll'[c] = idem[m.key].req /\ UNCHANGED idem
        <4>1. RecordSane(m.key) /\ idem[m.key].req \in Calls
          BY <1>2, <1>3, <3>3, RecordFields DEF Typed, Shapes
        <4>2. idem[m.key].req # c /\ ask[idem[m.key].req] # None
              /\ KeyOf(idem[m.key].req) = m.key
          BY <1>2, <3>3, <4>1 DEF RecordSane
        <4> QED
          BY <1>3, <1>6, <1>9, <2>2, <3>3, <4>1, <4>2 DEF PollSane, KeyOf
      <3> QED
        BY <1>1, <1>2, <3>1, <3>2, <3>3, ManagementAssumption DEF Shapes
    <2> QED
      BY <2>1, <2>2
  <1>13. ASSUME NEW k \in Keys PROVE AppliedSane(k)'
    <2>1. CASE idem'[k] = idem[k]
      BY <1>2, <2>1 DEF Books, AppliedSane, Decided
    <2>2. CASE idem'[k] # idem[k]
      <3>1. idem'[k] = new(m)
        BY <1>1, <1>2, <2>2 DEF Shapes
      <3>2. applied'[c] = 0
        BY <1>2 DEF Books
      <3> QED
        BY <1>5, <3>1, <3>2 DEF AppliedSane, Decided
    <2> QED
      BY <2>1, <2>2
  <1>14. ASSUME NEW d \in Docs PROVE LastSane(d)'
    <2> SUFFICES ASSUME doc[d] # None, doc[d].last # None PROVE LastSane(d)'
      BY <1>2 DEF LastSane
    <2>1. LastSane(d) /\ StateSane(d) /\ doc[d].last \in Calls
      BY <1>2, StateFields DEF Books, Typed, Shapes
    <2>2. ask[doc[d].last] # None
      BY <2>1 DEF StateSane
    <2>3. idem'[KeyOf(doc[d].last)] = idem[KeyOf(doc[d].last)]
      BY <1>10, <2>1, <2>2
    <2>4. KeyOf(doc[d].last)' = KeyOf(doc[d].last)
      BY <1>2, <1>6, <2>1, <2>2 DEF KeyOf
    <2> QED
      BY <1>2, <2>1, <2>3, <2>4 DEF LastSane, Decided
  <1>15. KeysSpent'
    <2> SUFFICES ASSUME NEW y \in Calls, ask'[y] # None, idem'[KeyOf(y)'] = None
                 PROVE  Exhausted(KeyOf(y))'
      BY DEF KeysSpent, KeyOf
    <2>1. y # c
      <3>1. idem'[m.key] # None
        BY <1>1, <1>2, <1>3, <1>5 DEF Shapes
      <3> QED
        BY <1>9, <3>1
    <2>2. ask[y] # None /\ idem[KeyOf(y)] = None
      BY <1>6, <1>8, <1>10, <2>1
    <2>3. Exhausted(KeyOf(y))
      BY <1>2, <2>2 DEF Books, KeysSpent
    <2> QED
      BY <1>2, <1>6, <1>8, <2>1, <2>3 DEF Exhausted
  <1>16. Claimed' /\ AtHand'
    <2>1. ASSUME NEW x \in Calls, Open(x)
          PROVE  Open(x)' /\ idem'[KeyOf(x)] = idem[KeyOf(x)]
      <3>1. x # c /\ ask[x] # None
        BY <1>2, <1>7, <2>1, OpenKey DEF Open
      <3> QED
        BY <1>8, <1>10, <2>1, <3>1
    <2> QED
      BY <1>2, <1>6, <2>1, HandKept
  <1> QED
    BY <1>11, <1>12, <1>13, <1>14, <1>15, <1>16 DEF Journaling, Books

\* CollectRow keeps the invariant of the journal.
LEMMA JournalCollectRow ==
    ASSUME Typed, Journaling, NEW c \in Calls, CollectRow(c) \/ LeaseExpires(c)
    PROVE  Journaling'
  <1>0. /\ Shapes /\ Books /\ AskGrows
        /\ UNCHANGED <<idem, doc, applied, pc, batch, cur, out, ask, poll>>
    BY DEF Typed, Journaling, CollectRow, LeaseExpires, loop, AskGrows
  <1>1. ASSUME NEW y \in Calls
        PROVE  /\ log'[y] \in {log[y], None}
                  \/ (log[y] # None /\ ~Terminal(log[y]) /\ log'[y].status # "done")
               /\ Open(y) => Open(y)'
    <2>1. CASE CollectRow(c)
      <3>1. log'[y] = (IF y = c THEN None ELSE log[y]) /\ Terminal(log[c])
        BY <1>0, <2>1 DEF CollectRow, Shapes
      <3> QED
        BY <3>1 DEF Open, Terminal
    <2>2. CASE LeaseExpires(c)
      <3> DEFINE r == log[c]
                 t == [r EXCEPT !.lease = FALSE]
      <3>1. /\ log' = [log EXCEPT ![c] = t] /\ r # None /\ r.status = "in_progress" /\ r \in Rows
        BY <1>0, <2>2 DEF LeaseExpires, Shapes
      <3>2. t \in Rows /\ t.status = "in_progress" /\ t # None
        BY <3>1, RowUpdates, RowFields
      <3> HIDE DEF t
      <3>3. log'[y] = IF y = c THEN t ELSE log[y]
        BY <1>0, <3>1 DEF Shapes
      <3> QED
        BY <3>1, <3>2, <3>3 DEF Open, Terminal
    <2> QED
      BY <2>1, <2>2
  <1>2. Books'
    BY <1>0, <1>1, BooksKept
  <1>3. Claimed' /\ AtHand'
    BY <1>0, <1>1, HandKept
  <1> QED
    BY <1>2, <1>3 DEF Journaling

\* CollectKey keeps the invariant of the journal.
LEMMA JournalCollectKey ==
    ASSUME JournalSound, Typed, Journaling, NEW k \in Keys, CollectKey(k)
    PROVE  Journaling'
  <1>0. /\ Shapes /\ Books /\ AskGrows
        /\ UNCHANGED <<log, doc, applied, pc, batch, cur, out, ask, poll>>
        /\ idem' = [idem EXCEPT ![k] = None] /\ idem[k] # None
        /\ log[idem[k].req] = None /\ Exhausted(k)
    BY DEF Typed, Journaling, CollectKey, JournalSound, Exhausted, loop, AskGrows
  <1>1. \A j \in Keys : idem'[j] = IF j = k THEN None ELSE idem[j]
    BY <1>0 DEF Shapes
  <1>2. \A y : KeyOf(y)' = KeyOf(y) /\ Open(y)' = Open(y) /\ Versioned(y)' = Versioned(y)
    BY <1>0 DEF KeyOf, Open, Terminal, Versioned, Command
  <1>3. \A y \in Calls : log[y] # None => KeyOf(y) # k /\ KeyOf(y) \in Keys
    BY <1>0, AskedFields DEF Books, RowKeyed, Typed, RowSane
  <1>4. ASSUME NEW y \in Calls PROVE RowKeyed(y)'
    <2>1. RowKeyed(y)
      BY <1>0 DEF Books
    <2> QED
      BY <1>0, <1>1, <1>2, <1>3, <2>1 DEF RowKeyed, Decided
  <1>5. ASSUME NEW y \in Calls PROVE PollSane(y)' /\ (ask'[y] = None => applied'[y] = 0)
    <2>1. PollSane(y) /\ (ask[y] = None => applied[y] = 0)
      BY <1>0 DEF Books
    <2>2. ask[y] # None => KeyOf(y) \in Keys
      BY AskedFields
    <2> QED
      BY <1>0, <1>1, <1>2, <2>1, <2>2 DEF PollSane
  <1>6. ASSUME NEW j \in Keys PROVE AppliedSane(j)'
    <2>1. CASE j = k
      BY <1>1, <2>1 DEF AppliedSane
    <2>2. CASE j # k
      <3>1. AppliedSane(j) /\ idem'[j] = idem[j]
        BY <1>0, <1>1, <2>2 DEF Books
      <3> QED
        BY <1>0, <3>1 DEF AppliedSane, Decided
    <2> QED
      BY <2>1, <2>2
  <1>7. ASSUME NEW d \in Docs PROVE LastSane(d)'
    <2> SUFFICES ASSUME doc[d] # None, doc[d].last # None PROVE LastSane(d)'
      BY <1>0 DEF LastSane
    <2>1. LastSane(d) /\ StateSane(d) /\ doc[d].last \in Calls
      BY <1>0, StateFields DEF Books, Typed, Shapes
    <2>2. KeyOf(doc[d].last) \in Keys
      BY <2>1, AskedFields DEF StateSane
    <2> QED
      BY <1>0, <1>1, <1>2, <2>1, <2>2 DEF LastSane, Decided, KeyOf
  <1>8. KeysSpent'
    <2> SUFFICES ASSUME NEW y \in Calls, ask[y] # None, idem'[KeyOf(y)] = None
                 PROVE  Exhausted(KeyOf(y))
      BY <1>0, <1>2 DEF KeysSpent, Exhausted
    <2>1. KeyOf(y) \in Keys
      BY AskedFields
    <2> QED
      BY <1>0, <1>1, <2>1 DEF Books, KeysSpent
  <1>9. Claimed' /\ AtHand'
    <2>1. \A x \in Calls : Open(x) => Open(x)' /\ idem'[KeyOf(x)] = idem[KeyOf(x)]
      BY <1>1, <1>2, <1>3 DEF Open
    <2> QED
      BY <1>0, <2>1, HandKept
  <1> QED
    BY <1>4, <1>5, <1>6, <1>7, <1>8, <1>9 DEF Journaling, Books

\* The loop between two commands has nothing at hand.
LEMMA HandEmpty ==
    ASSUME pc' \in {"tick", "next", "list", "stale"},
           pc' # "tick" => \A b \in batch' : Open(b.req)',
           \A b1, b2 \in batch' : b1.req = b2.req => b1 = b2
    PROVE  Claimed' /\ AtHand'
  BY DEF Claimed, AtHand, Handling

\* A start or an end of the process keeps the invariant of the journal.
LEMMA JournalProcess ==
    ASSUME Typed, Journaling, Heartbeat \/ Exit \/ Restart \/ RestoreFails
    PROVE  Journaling'
  <1>0. /\ Shapes /\ Books /\ AskGrows /\ UNCHANGED <<log, idem, applied, ask, poll>>
    BY DEF Typed, Journaling, Heartbeat, Exit, Restart, RestoreFails, backend, AskGrows
  <1>1. ASSUME NEW d \in Docs, doc'[d] # None, doc'[d].last # None
        PROVE  /\ doc[d] # None
               /\ doc'[d].last = doc[d].last /\ doc'[d].lastRes = doc[d].lastRes
    <2>1. CASE Heartbeat \/ Exit
      BY <1>1, <2>1 DEF Heartbeat, Exit, backend
    <2>2. CASE Restart
      <3>1. inc \in Nat /\ doc[d] \in States \cup {None}
        BY <1>0 DEF Shapes
      <3>2. CASE doc[d] = None
        <4>1. doc'[d] = Fresh(inc + 1)
          BY <1>1, <2>2, <3>2 DEF Restart
        <4> QED
          BY <1>1, <3>1, <4>1, FreshFields
      <3>3. CASE doc[d] # None
        <4>1. doc'[d] = Restored(doc[d])
          BY <2>2, <3>3 DEF Restart
        <4> QED
          BY <3>1, <3>3, <4>1, RestoredFields
      <3> QED
        BY <3>2, <3>3
    <2>3. CASE RestoreFails
      <3>1. inc + 1 \in Nat /\ doc[d] \in States \cup {None}
        BY <1>0 DEF Shapes
      <3>2. doc[d] # None /\ doc'[d] = [doc[d] EXCEPT !.inc = inc + 1]
        BY <1>1, <2>3 DEF RestoreFails
      <3> QED
        BY <3>1, <3>2 DEF States
    <2> QED
      BY <2>1, <2>2, <2>3
  <1>2. Books'
    BY <1>0, <1>1, BooksKept
  <1>3. Claimed' /\ AtHand'
    <2>1. \A x : Open(x)' = Open(x)
      BY <1>0 DEF Open, Terminal
    <2>2. CASE Exit
      BY <2>2, HandEmpty DEF Exit
    <2>3. CASE ~Exit
      <3>1. UNCHANGED <<pc, batch, cur, out>>
        BY <2>3 DEF Heartbeat, Restart, RestoreFails, loop
      <3> QED
        BY <1>0, <2>1, <3>1, HandKept
    <2> QED
      BY <2>2, <2>3
  <1> QED
    BY <1>2, <1>3 DEF Journaling

----------------------------------------------------------------------------
(* OneFate and AnswerTruthful: the command loop *)

\* What a claim does to a row and to a key.
LEMMA ClaimedRow ==
    ASSUME Typed, NEW c \in Calls
    PROVE  /\ c \in Claimable => Open(c) /\ ClaimedLog[c] # None
           /\ c \in DeadLetters => ClaimedLog[c].status = "failed"
           /\ c \in Claimable \ DeadLetters => ClaimedLog[c].status = "in_progress"
           /\ c \notin Claimable => ClaimedLog[c] = log[c]
  <1>1. c \in Claimable => Open(c) /\ log[c] \in Rows
    BY DEF Claimable, Open, Terminal, Typed, Shapes
  <1>2. CASE c \in DeadLetters
    <2> DEFINE l == log[c]
               x == Result("dead_letter", 0)
               t == [l EXCEPT !.status = "failed", !.res = x]
    <2>1. x \in Results
      BY ResultFields DEF Outcomes
    <2>2. ClaimedLog[c] = t /\ l \in Rows /\ c \in Claimable
      BY <1>1, <1>2 DEF ClaimedLog, DeadLetters
    <2> HIDE DEF x, l
    <2>3. t \in Rows /\ t.status = "failed"
      BY <2>1, <2>2 DEF Rows
    <2> QED
      BY <1>1, <1>2, <2>2, <2>3, RowFields
  <1>3. CASE c \in Claimable \ DeadLetters
    <2> DEFINE l == log[c]
               n == l.tries + 1
               t == [l EXCEPT !.status = "in_progress", !.lease = TRUE, !.tries = n]
    <2>1. l \in Rows /\ n \in Nat
      BY <1>1, <1>3, RowFields
    <2>2. ClaimedLog[c] = t
      BY <1>3 DEF ClaimedLog
    <2> HIDE DEF n, l
    <2>3. t \in Rows /\ t.status = "in_progress"
      BY <2>1 DEF Rows
    <2> QED
      BY <1>1, <1>3, <2>2, <2>3, RowFields
  <1>4. CASE c \notin Claimable
    BY <1>4 DEF ClaimedLog, DeadLetters
  <1> QED
    BY <1>2, <1>3, <1>4

\* A claim changes a journal row only when its call is dead-lettered.
LEMMA ClaimedKey ==
    ASSUME Typed, NEW k \in Keys
    PROVE  \/ ClaimedKeys[k] = idem[k]
           \/ /\ idem[k] # None /\ idem[k].final = "" /\ \E c \in DeadLetters : KeyOf(c) = k
              /\ ClaimedKeys[k] # None /\ ClaimedKeys[k].req = idem[k].req
              /\ ClaimedKeys[k].final = "failed"
              /\ ClaimedKeys[k].res = Result("dead_letter", 0)
  <1> SUFFICES ASSUME idem[k] # None, idem[k].final = "", \E c \in DeadLetters : KeyOf(c) = k
               PROVE  /\ ClaimedKeys[k] # None /\ ClaimedKeys[k].req = idem[k].req
                      /\ ClaimedKeys[k].final = "failed"
                      /\ ClaimedKeys[k].res = Result("dead_letter", 0)
    BY DEF ClaimedKeys
  <1> DEFINE l == idem[k]
             x == Result("dead_letter", 0)
             t == [l EXCEPT !.final = "failed", !.res = x]
  <1>1. l \in Records /\ x \in Results
    <2>1. l \in Records
      BY DEF Typed, Shapes
    <2>2. x \in Results
      BY ResultFields DEF Outcomes
    <2> QED
      BY <2>1, <2>2
  <1>2. ClaimedKeys[k] = t
    BY DEF ClaimedKeys
  <1> HIDE DEF x, l
  <1>3. t \in Records /\ t.req = l.req /\ t.final = "failed" /\ t.res = x
    BY <1>1 DEF Records
  <1> QED
    BY <1>2, <1>3, RecordFields DEF l, x

\* Claim keeps the invariant of the journal.
LEMMA JournalClaim ==
    ASSUME Typed, Journaling, Claim
    PROVE  Journaling'
  <1> DEFINE open == Claimable \ DeadLetters
             taken == {[req |-> c, tok |-> log[c].tries + 1] : c \in open}
  <1>0. /\ Shapes /\ Books /\ UNCHANGED <<doc, applied, ask, poll>>
    BY DEF Typed, Journaling, Claim
  <1>1. PICK r \in Replies("claim") :
           /\ Count(r)
           /\ log' = IF r.done THEN ClaimedLog ELSE log
           /\ idem' = IF r.done THEN ClaimedKeys ELSE idem
           /\ batch' = IF r.seen THEN taken ELSE {}
           /\ pc' = IF r.seen THEN "next" ELSE "tick"
    BY DEF Claim
  <1>2. r.seen => r.done
    BY <1>0, <1>1, RepliesCounted
  <1>3. Claimable \subseteq Calls /\ DeadLetters \subseteq Claimable
    BY DEF Claimable, DeadLetters
  <1>4. Claimed' /\ AtHand'
    <2>1. ASSUME NEW b \in taken
          PROVE  b.req \in open /\ b = [req |-> b.req, tok |-> log[b.req].tries + 1]
      OBVIOUS
    <2>2. ASSUME NEW c \in open, r.seen PROVE Open(c)'
      BY <1>1, <1>2, <1>3, <2>2, ClaimedRow DEF Open, Terminal
    <2> HIDE DEF taken
    <2>3. \A b \in batch' : r.seen /\ b \in taken
      BY <1>1
    <2> QED
      BY <1>1, <2>1, <2>2, <2>3, HandEmpty
  <1>5. CASE ~r.done
    <2>1. UNCHANGED <<log, idem>>
      BY <1>1, <1>5
    <2> QED
      BY <1>0, <1>4, <2>1, BooksKept DEF Journaling
  <1>6. CASE r.done
    <2>0. log' = ClaimedLog /\ idem' = ClaimedKeys
      BY <1>1, <1>6
    <2>1. \A y : KeyOf(y)' = KeyOf(y) /\ Versioned(y)' = Versioned(y)
      BY <1>0 DEF KeyOf, Versioned, Command
    <2>2. \A k \in Keys :
             \/ idem'[k] = idem[k]
             \/ /\ idem[k] # None /\ idem[k].final = "" /\ \E c \in DeadLetters : KeyOf(c) = k
                /\ idem'[k] # None /\ idem'[k].req = idem[k].req
                /\ idem'[k].final = "failed" /\ idem'[k].res = Result("dead_letter", 0)
      BY <2>0, ClaimedKey
    <2>3. ASSUME NEW y \in Calls PROVE RowKeyed(y)'
      <3> SUFFICES ASSUME log'[y] # None PROVE RowKeyed(y)'
        BY DEF RowKeyed
      <3>1. log[y] # None /\ RowKeyed(y)
        BY <1>0, <2>0, ClaimedRow DEF Open, Books
      <3>2. KeyOf(y) \in Keys
        BY <3>1, AskedFields DEF Typed, RowSane
      <3>3. CASE y \in DeadLetters
        <4>1. log'[y].status = "failed"
          BY <2>0, <3>3, ClaimedRow
        <4>2. ~Open(y)' /\ idem'[KeyOf(y)] # None /\ idem'[KeyOf(y)].req = y
          BY <2>2, <3>1, <3>2, <4>1 DEF Open, Terminal, RowKeyed
        <4> QED
          BY <2>1, <4>1, <4>2 DEF RowKeyed
      <3>4. CASE y \notin DeadLetters
        <4>1. idem'[KeyOf(y)] = idem[KeyOf(y)]
          <5> SUFFICES ASSUME NEW c \in DeadLetters, KeyOf(c) = KeyOf(y) PROVE FALSE
            BY <2>2, <3>2
          <5>1. c \in Calls /\ log[c] # None
            BY <1>3, ClaimedRow DEF Open
          <5>2. RowKeyed(c)
            BY <1>0, <5>1 DEF Books
          <5> QED
            BY <3>1, <3>4, <5>1, <5>2 DEF RowKeyed
        <4>2. \/ log'[y] = log[y]
              \/ Open(y) /\ log'[y].status = "in_progress"
          BY <1>3, <2>0, <3>4, ClaimedRow
        <4>3. /\ Open(y)' => Open(y)
              /\ log'[y].status = "done" => log'[y] = log[y]
          BY <4>2 DEF Open, Terminal
        <4> QED
          BY <2>1, <3>1, <4>1, <4>3 DEF RowKeyed, Decided
      <3> QED
        BY <3>3, <3>4
    <2>4. ASSUME NEW y \in Calls PROVE PollSane(y)' /\ (ask'[y] = None => applied'[y] = 0)
      <3>1. PollSane(y) /\ (ask[y] = None => applied[y] = 0)
        BY <1>0 DEF Books
      <3>2. ask[y] # None => KeyOf(y) \in Keys
        BY AskedFields
      <3> QED
        BY <1>0, <2>1, <2>2, <3>1, <3>2 DEF PollSane
    <2>5. ASSUME NEW k \in Keys PROVE AppliedSane(k)'
      <3>1. AppliedSane(k)
        BY <1>0 DEF Books
      <3>2. Result("dead_letter", 0).st # "applied"
        BY ResultFields
      <3>3. CASE idem'[k] = idem[k]
        BY <1>0, <3>1, <3>3 DEF AppliedSane, Decided
      <3>4. CASE idem'[k] # idem[k]
        <4>1. /\ idem[k] # None /\ idem[k].final = ""
              /\ idem'[k].req = idem[k].req /\ idem'[k].res.st # "applied"
          BY <2>2, <3>2, <3>4
        <4> QED
          BY <1>0, <3>1, <4>1 DEF AppliedSane, Decided
      <3> QED
        BY <3>3, <3>4
    <2>6. ASSUME NEW d \in Docs PROVE LastSane(d)'
      <3> SUFFICES ASSUME doc[d] # None, doc[d].last # None PROVE LastSane(d)'
        BY <1>0 DEF LastSane
      <3>1. LastSane(d) /\ StateSane(d) /\ doc[d].last \in Calls
        BY <1>0, StateFields DEF Books, Typed, Shapes
      <3>2. KeyOf(doc[d].last) \in Keys
        BY <3>1, AskedFields DEF StateSane
      <3>3. idem'[KeyOf(doc[d].last)] = idem[KeyOf(doc[d].last)]
        BY <2>2, <3>1, <3>2 DEF LastSane, Decided
      <3> QED
        BY <1>0, <3>1, <3>3 DEF LastSane, Decided, KeyOf
    <2>7. KeysSpent'
      <3> SUFFICES ASSUME NEW y \in Calls, ask[y] # None, idem'[KeyOf(y)] = None
                   PROVE  Exhausted(KeyOf(y))
        BY <1>0, <2>1 DEF KeysSpent, Exhausted
      <3>1. KeyOf(y) \in Keys
        BY AskedFields
      <3> QED
        BY <1>0, <2>2, <3>1 DEF Books, KeysSpent
    <2> QED
      BY <1>4, <2>3, <2>4, <2>5, <2>6, <2>7 DEF Journaling, Books
  <1> QED
    BY <1>5, <1>6

\* A step of the loop that writes nothing keeps the books.
LEMMA BooksRead ==
    ASSUME Typed, Books, UNCHANGED <<log, idem, doc, applied, ask, poll>>
    PROVE  Books'
  BY BooksKept

\* Within a command: it stays open, and no other claim is the same row.
LEMMA ClaimedHandles ==
    ASSUME Claimed, pc \in Handling \cup {"complete", "finalize"}, UNCHANGED <<log, batch, cur>>
    PROVE  Claimed'
  BY DEF Claimed, Handling, Open, Terminal

\* The command at hand is open and owns its journal row.
LEMMA AtHandIs ==
    ASSUME Typed, Journaling, pc \in Handling \cup {"complete", "finalize"}
    PROVE  /\ cur.req \in Calls /\ Open(cur.req) /\ ask[cur.req] # None
           /\ KeyOf(cur.req) \in Keys
           /\ idem[KeyOf(cur.req)] # None /\ idem[KeyOf(cur.req)].req = cur.req
  <1>1. cur.req \in Calls /\ Open(cur.req)
    BY HandlingFields DEF Journaling, Claimed
  <1> QED
    BY <1>1, OpenKey DEF Journaling

\* The next claimed or stale command is taken.
LEMMA ClaimedTakes ==
    ASSUME Typed, Claimed, pc # "tick", pc' # "tick", UNCHANGED log,
           NEW b \in batch, batch' = batch \ {b}, cur' = b \/ pc' = "stale"
    PROVE  Claimed'
  <1>1. \A x : Open(x)' = Open(x)
    BY DEF Open, Terminal
  <1>2. \A x \in batch : Open(x.req) /\ (x.req = b.req => x = b)
    BY DEF Claimed
  <1> QED
    BY <1>1, <1>2 DEF Claimed, Handling

\* NextCommand keeps the invariant of the journal.
LEMMA JournalNextCommand ==
    ASSUME Typed, Journaling, NextCommand
    PROVE  Journaling'
  <1>0. /\ Books /\ Claimed /\ pc = "next"
        /\ UNCHANGED <<log, idem, doc, applied, ask, poll>>
    BY DEF Journaling, NextCommand, At, backend
  <1>1. Books'
    BY <1>0, BooksRead
  <1>2. CASE batch = {} /\ pc' = "list" /\ UNCHANGED batch
    BY <1>1, <1>2, HandEmpty DEF Journaling
  <1>3. ASSUME NEW b \in batch, batch' = batch \ {b}, cur' = b,
               \/ pc' = "replay"
               \/ ~Versioned(b.req) /\ out' = Result("ok", 0) /\ pc' = "complete"
        PROVE  Journaling'
    <2>1. Claimed'
      BY <1>0, <1>3, ClaimedTakes
    <2>2. CASE pc' = "replay"
      BY <2>2, <1>1, <2>1 DEF Journaling, AtHand
    <2>3. CASE ~Versioned(b.req) /\ out' = Result("ok", 0) /\ pc' = "complete"
      <3>1. b.req \in Calls /\ Open(b.req)
        BY <1>0, ClaimFields DEF Claimed, Typed, Shapes
      <3>2. ~Decided(KeyOf(b.req))
        BY <1>0, <2>3, <3>1, OpenKey
      <3>3. ~Decided(KeyOf(cur.req))' /\ out'.st # "applied"
        BY <1>0, <1>3, <2>3, <3>2, ResultFields DEF Decided, KeyOf
      <3> QED
        BY <1>1, <2>1, <2>3, <3>3 DEF Journaling, AtHand
    <2> QED
      BY <1>3, <2>2, <2>3
  <1> QED
    BY <1>2, <1>3 DEF NextCommand

\* A handler's outcome goes to the journal, or is there already.
LEMMA JournalFinish ==
    ASSUME Typed, Journaling, pc \in Handling, UNCHANGED <<log, batch, cur, ask>>, Books',
           NEW res \in Results, Finish(res),
           res.st # "dead_letter",
           res.st = "applied" =>
              Decided(KeyOf(cur.req))' /\ res = idem'[KeyOf(cur.req)].res
    PROVE  Journaling'
  <1>1. Claimed'
    BY ClaimedHandles DEF Journaling
  <1>2. KeyOf(cur.req)' = KeyOf(cur.req)
    BY DEF KeyOf
  <1>3. CASE res.st = "applied"
    BY <1>1, <1>2, <1>3 DEF Finish, Journaling, AtHand
  <1>4. CASE res.st # "applied"
    BY <1>1, <1>2, <1>4 DEF Finish, Journaling, AtHand
  <1> QED
    BY <1>3, <1>4

\* Replay keeps the invariant of the journal.
LEMMA JournalReplay ==
    ASSUME JournalSound, Typed, Journaling, Replay \/ Lookup
    PROVE  Journaling'
  <1>0. /\ Books /\ Claimed /\ pc \in Handling
        /\ UNCHANGED <<log, idem, doc, applied, ask, poll, batch, cur>>
    BY DEF Journaling, Replay, Lookup, At, backend, Handling
  <1>1. PICK r \in Replies("get_idempotency") :
           /\ IF r.seen /\ Decodable(cur.req)
              THEN Finish(idem[KeyOf(cur.req)].res)
              ELSE pc' \in {"load", "cas"} /\ UNCHANGED out
    BY DEF Replay, Lookup
  <1>2. r.seen
    BY RepliesLost DEF JournalSound
  <1>3. Books'
    BY <1>0, BooksRead
  <1>4. cur.req \in Calls /\ Open(cur.req) /\ ask[cur.req] # None
    BY <1>0, AtHandIs
  <1>5. /\ Decided(KeyOf(cur.req)) <=> Decodable(cur.req)
        /\ Decided(KeyOf(cur.req)) => idem[KeyOf(cur.req)].res.st # "dead_letter"
    BY <1>0, <1>4, OpenKey
  <1>6. CASE Decodable(cur.req)
    <2>1. idem[KeyOf(cur.req)].res \in Results
      BY <1>4, <1>6, JournaledResult DEF Decodable
    <2>2. Decided(KeyOf(cur.req))'
      BY <1>0, <1>5, <1>6 DEF Decided, KeyOf
    <2>3. idem'[KeyOf(cur.req)] = idem[KeyOf(cur.req)]
      BY <1>0
    <2>4. Finish(idem[KeyOf(cur.req)].res)
      BY <1>1, <1>2, <1>6
    <2> QED
      BY <1>0, <1>3, <1>5, <1>6, <2>1, <2>2, <2>3, <2>4, JournalFinish
  <1>7. CASE ~Decodable(cur.req)
    <2>1. pc' \in {"load", "cas"} /\ ~Decided(KeyOf(cur.req))
      BY <1>1, <1>5, <1>7
    <2>2. ~Decided(KeyOf(cur.req))'
      BY <1>0, <2>1 DEF Decided, KeyOf
    <2>3. Claimed'
      BY <1>0, ClaimedHandles
    <2> QED
      BY <1>3, <2>1, <2>2, <2>3 DEF Journaling, AtHand
  <1> QED
    BY <1>6, <1>7

\* Load keeps the invariant of the journal.
LEMMA JournalLoad ==
    ASSUME Typed, Journaling, Load
    PROVE  Journaling'
  <1>0. /\ Shapes /\ Books /\ Claimed /\ pc = "load" /\ pc \in Handling
        /\ UNCHANGED <<log, idem, doc, applied, ask, poll, batch, cur>>
    BY DEF Journaling, Load, At, backend, Handling, Typed
  <1> DEFINE ver == IF Command(cur.req).doc = "config" THEN ram["config"].ver ELSE 0
  <1>1. Result("failed", ver) \in Results /\ Result("failed", ver).st = "failed"
    <2>1. "config" \in Docs
      BY DEF Docs
    <2>2. ver \in Nat
      BY <1>0, <2>1, SnapshotFields DEF Shapes
    <2> QED
      BY <2>2, ResultFields DEF Outcomes
  <1>2. \/ Finish(Result("failed", ver))
        \/ LastIs(cur.req) /\ Finish(doc[Command(cur.req).doc].lastRes)
        \/ pc' = "lookup"
    BY DEF Load
  <1> HIDE DEF ver
  <1>3. Books'
    BY <1>0, BooksRead
  <1>4. /\ cur.req \in Calls /\ Open(cur.req) /\ ask[cur.req] # None /\ Versioned(cur.req)
    BY <1>0, AtHandIs, HandlingFields
  <1>5. CASE Finish(Result("failed", ver))
    BY <1>0, <1>1, <1>3, <1>5, JournalFinish
  <1>6. CASE LastIs(cur.req) /\ Finish(doc[Command(cur.req).doc].lastRes)
    <2> DEFINE x == doc[Command(cur.req).doc].lastRes
    <2>1. x \in Results
      BY <1>4, <1>6, LastResult
    <2>2. Decided(KeyOf(cur.req)) /\ idem[KeyOf(cur.req)].res = x
      BY <1>0, <1>4, <1>6, LastDecided
    <2>3. x.st # "dead_letter"
      BY <1>0, <1>4, <2>2, OpenKey
    <2>4. Decided(KeyOf(cur.req))' /\ idem'[KeyOf(cur.req)].res = x
      BY <1>0, <2>2 DEF Decided, KeyOf
    <2>5. Finish(x)
      BY <1>6
    <2> HIDE DEF x
    <2> QED
      BY <1>0, <1>3, <2>1, <2>3, <2>4, <2>5, JournalFinish
  <1>7. CASE pc' = "lookup"
    BY <1>0, <1>3, <1>7, ClaimedHandles DEF Journaling, AtHand
  <1> QED
    BY <1>2, <1>5, <1>6, <1>7

\* A handler that changed nothing notes why.
LEMMA JournalRefuses ==
    ASSUME Typed, Journaling, pc \in Handling, UNCHANGED <<log, idem, applied, ask, poll, batch, cur>>,
           pc' = "record", out'.st \in {"conflict", "no_op", "failed"},
           \A d \in Docs : doc'[d] # None /\ doc'[d].last # None =>
              /\ doc[d] # None
              /\ doc'[d].last = doc[d].last /\ doc'[d].lastRes = doc[d].lastRes
    PROVE  Journaling'
  <1>1. Books'
    BY BooksKept DEF Journaling
  <1>2. Claimed'
    BY ClaimedHandles DEF Journaling
  <1> QED
    BY <1>1, <1>2 DEF Journaling, AtHand

\* Prepare keeps the invariant of the journal.
LEMMA JournalPrepare ==
    ASSUME Typed, Journaling, Prepare
    PROVE  Journaling'
  <1> DEFINE d == Command(cur.req).doc
             ver == Current(d).ver
             val == Command(cur.req).value
             w == Wanted(d, ver, val)
  <1>0. /\ up /\ pc = "cas" /\ pc \in Handling /\ d \in Docs
        /\ UNCHANGED <<log, idem, applied, ask, poll, batch, cur>>
        /\ \/ /\ out'.st \in {"conflict", "no_op", "failed"} /\ pc' = "record"
              /\ doc' = doc \/ (CasWins(d, ver) /\ doc' = [doc EXCEPT ![d] = w])
           \/ CasWins(d, ver) /\ doc' = [doc EXCEPT ![d] = w] /\ pc' = "confirm"
    BY PrepareCases
  <1>1. Shapes /\ val \in Values
    BY <1>0, HandlingFields DEF Typed
  <1>2. CasWins(d, ver) =>
           /\ doc[d] # None => w.last = doc[d].last /\ w.lastRes = doc[d].lastRes
           /\ doc[d] = None => w.last = None /\ w.lastRes = None
    BY <1>0, <1>1, WantedFields
  <1> HIDE DEF w, ver, val
  <1>3. ASSUME NEW x \in Docs, doc'[x] # None, doc'[x].last # None
        PROVE  /\ doc[x] # None
               /\ doc'[x].last = doc[x].last /\ doc'[x].lastRes = doc[x].lastRes
    <2>1. doc'[x] = doc[x] \/ (x = d /\ CasWins(d, ver) /\ doc'[x] = w)
      BY <1>0, <1>1 DEF Shapes
    <2> QED
      BY <1>2, <1>3, <2>1
  <1>4. CASE pc' = "record"
    BY <1>0, <1>3, <1>4, JournalRefuses
  <1>5. CASE pc' = "confirm"
    <2>1. Books'
      BY <1>0, <1>3, BooksKept DEF Journaling
    <2>2. Claimed'
      BY <1>0, ClaimedHandles DEF Journaling
    <2>3. ~Decided(KeyOf(cur.req))
      BY <1>0 DEF Journaling, AtHand
    <2>4. ~Decided(KeyOf(cur.req))'
      BY <1>0, <2>3 DEF Decided, KeyOf
    <2> QED
      BY <1>5, <2>1, <2>2, <2>4 DEF Journaling, AtHand
  <1> QED
    BY <1>0, <1>4, <1>5

\* Rollback keeps the invariant of the journal.
LEMMA JournalRollback ==
    ASSUME Typed, Journaling, Rollback
    PROVE  Journaling'
  <1> DEFINE d == Command(cur.req).doc
             s == doc[d]
             t == [s EXCEPT !.status = "failed"]
  <1>0. /\ pc \in Handling /\ d \in Docs /\ pc' = "record"
        /\ UNCHANGED <<log, idem, applied, ask, poll, batch, cur>>
        /\ out'.st \in {"conflict", "no_op", "failed"}
        /\ doc' = doc \/ (s # None /\ doc' = [doc EXCEPT ![d] = t])
    BY RollbackCases
  <1>1. Shapes
    BY DEF Typed
  <1>2. s # None => t.last = s.last /\ t.lastRes = s.lastRes
    <2>1. s # None => s \in States
      BY <1>0, <1>1 DEF Shapes
    <2> HIDE DEF s
    <2> QED
      BY <2>1 DEF States
  <1> HIDE DEF t
  <1>3. ASSUME NEW x \in Docs, doc'[x] # None, doc'[x].last # None
        PROVE  /\ doc[x] # None
               /\ doc'[x].last = doc[x].last /\ doc'[x].lastRes = doc[x].lastRes
    <2>1. doc'[x] = doc[x] \/ (x = d /\ s # None /\ doc'[x] = t)
      BY <1>0, <1>1 DEF Shapes
    <2> QED
      BY <1>2, <1>3, <2>1
  <1> QED
    BY <1>0, <1>3, JournalRefuses

\* Confirm keeps the invariant of the journal.
LEMMA JournalConfirm ==
    ASSUME Typed, Journaling, Confirm
    PROVE  Journaling'
  <1> DEFINE c == cur.req
             d == Command(c).doc
             k == KeyOf(c)
             res == Result("applied", ram[d].ver)
             o == Observed(d, c, res)
  <1>0. /\ pc = "confirm" /\ pc \in Handling /\ d \in Docs /\ doc[d] \in States
        /\ c \in Calls /\ res \in Results /\ res.st = "applied"
        /\ UNCHANGED <<log, ask, poll, batch, cur>>
        /\ \/ /\ doc' = [doc EXCEPT ![d] = o]
              /\ idem' = Mirror(k, "done", res)
              /\ applied' = [applied EXCEPT ![c] = @ + 1]
              /\ \/ out' = res /\ pc' = "complete"
                 \/ pc' = "rollback"
           \/ UNCHANGED <<doc, idem, applied>> /\ pc' = "rollback"
    BY ConfirmCases
  <1>1. /\ Shapes /\ Books /\ Open(c) /\ ask[c] # None /\ k \in Keys
        /\ idem[k] # None /\ idem[k].req = c /\ ~Decided(k) /\ Versioned(c)
    BY <1>0, AtHandIs, HandlingFields DEF Typed, Journaling, AtHand
  <1>2. Claimed'
    BY <1>0, ClaimedHandles DEF Journaling
  <1>3. CASE UNCHANGED <<doc, idem, applied>> /\ pc' = "rollback"
    BY <1>0, <1>1, <1>2, <1>3, BooksRead DEF Journaling, AtHand
  <1>4. CASE /\ doc' = [doc EXCEPT ![d] = o]
             /\ idem' = Mirror(k, "done", res)
             /\ applied' = [applied EXCEPT ![c] = @ + 1]
             /\ \/ out' = res /\ pc' = "complete"
                \/ pc' = "rollback"
    <2>1. o.last = c /\ o.lastRes = res
      <3>1. ram[d].ver \in Nat /\ ram[d].val \in Values
        BY <1>0, <1>1, SnapshotFields DEF Shapes
      <3> DEFINE v == ram[d].ver
                 x == ram[d].val
                 s == doc[d]
                 t == [s EXCEPT !.ov = v, !.oval = x, !.status = "observed",
                                !.last = c, !.lastRes = res]
      <3>2. o = t
        BY DEF Observed
      <3>3. s \in States
        BY <1>0
      <3> HIDE DEF c, res, v, x, s
      <3> QED
        BY <3>2, <3>3 DEF States
    <2> HIDE DEF o, res, k
    <2>2. /\ \A j \in Keys : j # k => idem'[j] = idem[j]
          /\ idem'[k] # None /\ idem'[k].req = c /\ idem'[k].final = "done" /\ idem'[k].res = res
      BY <1>0, <1>1, <1>4, Mirrored DEF Decided
    <2>3. applied[c] = 0 /\ applied'[c] = 1 /\ \A y \in Calls : y # c => applied'[y] = applied[y]
      <3>1. AppliedSane(k)
        BY <1>1 DEF Books
      <3>2. applied[c] = 0
        BY <1>1, <3>1 DEF AppliedSane
      <3> QED
        BY <1>0, <1>1, <1>4, <3>2 DEF Shapes
    <2>4. \A x \in Docs : doc'[x] # None /\ doc'[x].last # None =>
              \/ doc'[x].last = c /\ doc'[x].lastRes = res
              \/ /\ doc[x] # None
                 /\ doc'[x].last = doc[x].last /\ doc'[x].lastRes = doc[x].lastRes
      BY <1>0, <1>1, <1>4, <2>1 DEF Shapes
    <2>5. log[c] # None /\ ~Terminal(log[c]) /\ log' = log /\ k = KeyOf(c)
      BY <1>0, <1>1 DEF Open, k
    <2>6. log[c].status # "done"
      BY <2>5 DEF Terminal
    <2>7. Books'
      <3>1. /\ UNCHANGED <<ask, poll>> /\ c \in Calls /\ k \in Keys /\ k = KeyOf(c)
            /\ ask[c] # None /\ idem[k] # None /\ idem[k].req = c /\ ~Decided(k) /\ res \in Results
            /\ Books
        BY <1>0, <1>1, <2>5
      <3>2. /\ idem'[k] # None /\ idem'[k].req = c /\ idem'[k].final # "" /\ idem'[k].res = res
            /\ \A j \in Keys : j # k => idem'[j] = idem[j]
        BY <2>2
      <3>3. /\ \A y \in Calls : y # c => log'[y] = log[y] /\ applied'[y] = applied[y]
            /\ log'[c] # None => log[c] # None
            /\ log'[c] # None /\ ~Terminal(log'[c]) => Versioned(c) /\ res.st # "dead_letter"
            /\ log'[c] # None /\ log'[c].status = "done" => log'[c].res = res
            /\ applied'[c] = IF res.st = "applied" THEN 1 ELSE 0
        BY <1>0, <1>1, <2>3, <2>5, <2>6
      <3> HIDE DEF c, d
      <3> QED
        BY <2>4, <3>1, <3>2, <3>3, BooksWrite
    <2>8. pc' = "complete" => idem'[k] # None /\ idem'[k].final # "" /\ out' = idem'[k].res
      BY <1>4, <2>2
    <2>9. KeyOf(cur.req)' = k
      BY <1>0 DEF KeyOf, k
    <2> QED
      BY <1>2, <1>4, <2>2, <2>7, <2>8, <2>9 DEF Journaling, AtHand, Decided
  <1> QED
    BY <1>0, <1>3, <1>4

\* Record keeps the invariant of the journal.
LEMMA JournalRecord ==
    ASSUME Typed, Journaling, Record
    PROVE  Journaling'
  <1> DEFINE c == cur.req
             k == KeyOf(c)
  <1>0. /\ pc = "record" /\ pc \in Handling /\ c \in Calls /\ k \in Keys /\ out \in Results
        /\ UNCHANGED <<log, doc, applied, ask, poll, batch, cur, out>>
        /\ \/ idem' = idem /\ pc' = "readback"
           \/ /\ idem[k] # None
              /\ idem[k].final = "" \/ idem[k].res = out
              /\ idem' = Mirror(k, "done", out)
              /\ pc' \in {"complete", "readback"}
    BY RecordCases
  <1>1. /\ Shapes /\ Books /\ Open(c) /\ ask[c] # None
        /\ idem[k] # None /\ idem[k].req = c /\ Versioned(c)
        /\ out.st \notin {"applied", "dead_letter"}
    BY <1>0, AtHandIs, HandlingFields DEF Typed, Journaling, AtHand
  <1>2. Claimed'
    BY <1>0, ClaimedHandles DEF Journaling
  <1>3. KeyOf(cur.req)' = k
    BY <1>0 DEF KeyOf
  <1>4. k = KeyOf(c)
    OBVIOUS
  <1> HIDE DEF k
  <1>5. CASE idem' = idem /\ pc' = "readback"
    BY <1>0, <1>1, <1>2, <1>5, BooksRead DEF Journaling, AtHand
  <1>6. CASE /\ idem' = Mirror(k, "done", out) /\ Decided(k) /\ idem[k].res = out
             /\ pc' \in {"complete", "readback"}
    <2>1. \A j \in Keys : idem'[j] = idem[j]
      BY <1>0, <1>6, Mirrored DEF Decided
    <2>2. idem' = idem
      BY <1>0, <1>6 DEF Mirror, Decided
    <2>3. Books'
      BY <1>0, <1>1, <2>2, BooksRead
    <2>4. idem'[k] # None /\ idem'[k].final # "" /\ out' = idem'[k].res
      BY <1>0, <1>6, <2>2 DEF Decided
    <2> QED
      BY <1>2, <1>3, <1>6, <2>3, <2>4 DEF Journaling, AtHand, Decided
  <1>7. CASE /\ idem' = Mirror(k, "done", out) /\ ~Decided(k)
             /\ pc' \in {"complete", "readback"}
    <2>1. /\ \A j \in Keys : j # k => idem'[j] = idem[j]
          /\ idem'[k] # None /\ idem'[k].req = c /\ idem'[k].final = "done" /\ idem'[k].res = out
      BY <1>0, <1>1, <1>7, Mirrored DEF Decided
    <2>2. applied[c] = 0
      <3>1. AppliedSane(k)
        BY <1>0, <1>1 DEF Books
      <3> QED
        BY <1>1, <1>7, <3>1 DEF AppliedSane
    <2>3. log[c] # None /\ ~Terminal(log[c]) /\ log[c].status # "done"
      BY <1>1 DEF Open, Terminal
    <2>4. Books'
      BY <1>0, <1>1, <1>4, <1>7, <2>1, <2>2, <2>3, BooksWrite
    <2>5. idem'[k] # None /\ idem'[k].final # "" /\ out' = idem'[k].res
      BY <1>0, <2>1
    <2> QED
      BY <1>2, <1>3, <1>7, <2>4, <2>5 DEF Journaling, AtHand, Decided
  <1> QED
    BY <1>0, <1>5, <1>6, <1>7 DEF Decided

\* ReadBack keeps the invariant of the journal.
LEMMA JournalReadBack ==
    ASSUME Typed, Journaling, ReadBack
    PROVE  Journaling'
  <1>0. /\ Books /\ Claimed /\ pc = "readback" /\ pc \in Handling
        /\ UNCHANGED <<log, idem, doc, applied, ask, poll, batch>>
    BY DEF Journaling, ReadBack, At, backend, Handling
  <1>1. \/ Journaled(cur.req) /\ out' = idem[KeyOf(cur.req)].res /\ pc' = "complete" /\ UNCHANGED cur
        \/ Done("next")
    BY DEF ReadBack
  <1>2. Books'
    BY <1>0, BooksRead
  <1>3. CASE Journaled(cur.req) /\ out' = idem[KeyOf(cur.req)].res /\ pc' = "complete" /\ UNCHANGED cur
    <2>1. Claimed'
      BY <1>0, <1>3, ClaimedHandles
    <2>2. Decided(KeyOf(cur.req))
      BY <1>3 DEF Journaled, Decided
    <2>3. Decided(KeyOf(cur.req))' /\ out' = idem'[KeyOf(cur.req)'].res
      BY <1>0, <1>3, <2>2 DEF Decided, KeyOf
    <2> QED
      BY <1>2, <1>3, <2>1, <2>3 DEF Journaling, AtHand, KeyOf
  <1>4. CASE Done("next")
    <2>1. \A b \in batch' : Open(b.req)'
      BY <1>0 DEF Claimed, Open, Terminal
    <2>2. pc' = "next" /\ \A b1, b2 \in batch' : b1.req = b2.req => b1 = b2
      BY <1>0, <1>4 DEF Claimed, Done
    <2>3. Claimed' /\ AtHand'
      BY <2>1, <2>2, HandEmpty
    <2> QED
      BY <1>2, <2>3 DEF Journaling
  <1> QED
    BY <1>1, <1>3, <1>4

\* End keeps the invariant of the journal.
LEMMA JournalEnd ==
    ASSUME Typed, Journaling, Complete \/ Finalize
    PROVE  Journaling'
  <1> DEFINE c == cur.req
             k == KeyOf(c)
             l == log[c]
             t == [l EXCEPT !.status = "done", !.res = out]
  <1>0. /\ pc \in {"complete", "finalize"} /\ c \in Calls /\ k \in Keys /\ out \in Results
        /\ UNCHANGED <<doc, applied, ask, poll, batch>>
        /\ pc' \in {"next", "stale"}
        /\ \/ UNCHANGED <<log, idem>>
           \/ l # None /\ log' = [log EXCEPT ![c] = t] /\ idem' = Mirror(k, "done", out)
    BY EndCases
  <1>1. /\ Shapes /\ Books /\ Open(c) /\ ask[c] # None
        /\ idem[k] # None /\ idem[k].req = c /\ l \in Rows
        /\ IF Decided(k) THEN out = idem[k].res ELSE out.st # "applied"
    <2>1. Open(c) /\ ask[c] # None /\ idem[k] # None /\ idem[k].req = c
      BY <1>0, AtHandIs
    <2>2. Shapes /\ Books /\ (IF Decided(k) THEN out = idem[k].res ELSE out.st # "applied")
      BY <1>0 DEF Typed, Journaling, AtHand
    <2> QED
      BY <1>0, <2>1, <2>2 DEF Shapes, Open
  <1>2. t \in Rows /\ t.status = "done" /\ t.res = out /\ t # None
    <2>1. l \in Rows
      BY <1>1
    <2> HIDE DEF l
    <2>2. t \in Rows /\ t.status = "done" /\ t.res = out
      BY <1>0, <2>1 DEF Rows
    <2> QED
      BY <2>2, RowFields
  <1>3. k = KeyOf(c) /\ l = log[c]
    OBVIOUS
  <1> HIDE DEF k, t
  <1>4. \A y \in Calls : log'[y] = log[y] \/ (y = c /\ log'[y] = t)
    BY <1>0, <1>1 DEF Shapes
  <1>5. Claimed' /\ AtHand'
    <2>1. ASSUME NEW b \in batch PROVE Open(b.req)'
      <3>1. Open(b.req) /\ b.req # c /\ b.req \in Calls
        BY <1>0, ClaimFields DEF Journaling, Claimed, Typed, Shapes
      <3> QED
        BY <1>4, <3>1 DEF Open, Terminal
    <2>2. \A b1, b2 \in batch : b1.req = b2.req => b1 = b2
      BY DEF Journaling, Claimed
    <2> QED
      BY <1>0, <2>1, <2>2, HandEmpty
  <1>6. CASE UNCHANGED <<log, idem>>
    BY <1>0, <1>1, <1>5, <1>6, BooksRead DEF Journaling
  <1>7. CASE log' = [log EXCEPT ![c] = t] /\ idem' = Mirror(k, "done", out) /\ Decided(k)
    <2>1. idem' = idem
      BY <1>7 DEF Mirror, Decided
    <2>2. log[c] # None /\ ~Terminal(log[c])
      BY <1>1 DEF Open
    <2>3. idem[KeyOf(c)].res = t.res
      BY <1>1, <1>2, <1>3, <1>7
    <2>4. Books'
      BY <1>0, <1>1, <1>4, <2>1, <2>2, <2>3, BooksKept
    <2> QED
      BY <1>5, <2>4 DEF Journaling
  <1>8. CASE log' = [log EXCEPT ![c] = t] /\ idem' = Mirror(k, "done", out) /\ ~Decided(k)
    <2>1. /\ \A j \in Keys : j # k => idem'[j] = idem[j]
          /\ idem'[k] # None /\ idem'[k].req = c /\ idem'[k].final = "done" /\ idem'[k].res = out
      BY <1>0, <1>1, <1>8, Mirrored DEF Decided
    <2>2. applied[c] = 0 /\ out.st # "applied"
      <3>1. AppliedSane(k)
        BY <1>0, <1>1 DEF Books
      <3> QED
        BY <1>1, <1>8, <3>1 DEF AppliedSane
    <2>3. log'[c] = t /\ log[c] # None /\ Terminal(t)
      BY <1>0, <1>1, <1>2, <1>8 DEF Open, Terminal, Shapes
    <2>4. \A y \in Calls : y # c => log'[y] = log[y]
      BY <1>4
    <2>5. Books'
      BY <1>0, <1>1, <1>2, <1>3, <1>8, <2>1, <2>2, <2>3, <2>4, BooksWrite
    <2> QED
      BY <1>5, <2>5 DEF Journaling
  <1> QED
    BY <1>0, <1>6, <1>7, <1>8

\* ListStale keeps the invariant of the journal.
LEMMA JournalListStale ==
    ASSUME Typed, Journaling, ListStale
    PROVE  Journaling'
  <1> DEFINE old == {[req |-> c, tok |-> 0] : c \in {x \in Calls : Stale(x)}}
  <1>0. /\ Books /\ UNCHANGED <<log, idem, doc, applied, ask, poll>>
        /\ pc' \in {"stale", "tick"} /\ batch' \subseteq old
    BY ListingsStale DEF Journaling, ListStale, backend
  <1>1. ASSUME NEW b \in old PROVE Open(b.req) /\ b = [req |-> b.req, tok |-> 0]
    BY DEF Stale, Open
  <1>2. \A b \in batch' : Open(b.req)'
    BY <1>0, <1>1 DEF Open, Terminal
  <1> HIDE DEF old
  <1>3. \A b1, b2 \in batch' : b1.req = b2.req => b1 = b2
    BY <1>0, <1>1
  <1>4. Claimed' /\ AtHand'
    BY <1>0, <1>2, <1>3, HandEmpty
  <1> QED
    BY <1>0, <1>4, BooksRead DEF Journaling

\* StaleResult keeps the invariant of the journal.
LEMMA JournalStaleResult ==
    ASSUME JournalSound, Typed, Journaling, StaleResult
    PROVE  Journaling'
  <1>0. /\ Books /\ Claimed /\ pc = "stale"
        /\ UNCHANGED <<log, idem, doc, applied, ask, poll>>
    BY DEF Journaling, StaleResult, At, backend
  <1>1. Books'
    BY <1>0, BooksRead
  <1>2. CASE batch = {} /\ pc' = "tick" /\ UNCHANGED batch
    BY <1>1, <1>2, HandEmpty DEF Journaling
  <1>3. ASSUME NEW b \in batch, batch' = batch \ {b}, UNCHANGED <<pc, cur, out>>
        PROVE  Journaling'
    <2>1. Claimed'
      BY <1>0, <1>3, ClaimedTakes
    <2> QED
      BY <1>0, <1>1, <1>3, <2>1 DEF Journaling, AtHand
  <1>4. ASSUME NEW b \in batch, batch' = batch \ {b}, cur' = b, pc' = "finalize",
               IF Decided(KeyOf(b.req)) THEN out' = idem[KeyOf(b.req)].res ELSE out'.st # "applied"
        PROVE  Journaling'
    <2>1. Claimed'
      BY <1>0, <1>4, ClaimedTakes
    <2>2. KeyOf(cur.req)' = KeyOf(b.req) /\ Decided(KeyOf(b.req))' = Decided(KeyOf(b.req))
      BY <1>0, <1>4 DEF KeyOf, Decided
    <2>3. Decided(KeyOf(cur.req))' = Decided(KeyOf(b.req))
      BY <1>0, <1>4 DEF KeyOf, Decided
    <2> QED
      BY <1>0, <1>1, <1>4, <2>1, <2>2, <2>3 DEF Journaling, AtHand
  <1>5. ASSUME NEW b \in batch
        PROVE  b.req \in Calls /\ Open(b.req) /\ ask[b.req] # None
    BY <1>0, ClaimFields, OpenKey DEF Claimed, Typed, Shapes
  <1>6. ASSUME NEW b \in batch, Versioned(b.req), LastIs(b.req)
        PROVE  Decided(KeyOf(b.req)) /\ idem[KeyOf(b.req)].res = doc[Command(b.req).doc].lastRes
    BY <1>0, <1>5, <1>6, LastDecided
  <1>7. ASSUME NEW b \in batch, NEW r \in Replies("stale_lookup"),
               out' = IF r.seen /\ Journaled(b.req)
                      THEN idem[KeyOf(b.req)].res
                      ELSE Result("superseded", Current(Command(b.req).doc).ver)
        PROVE  IF Decided(KeyOf(b.req)) THEN out' = idem[KeyOf(b.req)].res ELSE out'.st # "applied"
    <2>1. r.seen
      BY RepliesLost DEF JournalSound
    <2>2. Decided(KeyOf(b.req)) <=> Journaled(b.req)
      BY <1>0, <1>5, OpenKey
    <2>3. Result("superseded", Current(Command(b.req).doc).ver).st # "applied"
      BY ResultFields
    <2> QED
      BY <1>7, <2>1, <2>2, <2>3
  <1>8. CASE ~(batch = {} /\ pc' = "tick" /\ UNCHANGED batch)
    <2>1. PICK b \in batch :
             /\ batch' = batch \ {b}
             /\ \/ UNCHANGED <<pc, cur, out>>
                \/ /\ Versioned(b.req)
                   /\ \/ /\ LastIs(b.req) /\ out' = doc[Command(b.req).doc].lastRes
                         /\ cur' = b /\ pc' = "finalize"
                      \/ /\ \E r \in Replies("stale_lookup") :
                               out' = IF r.seen /\ Journaled(b.req)
                                      THEN idem[KeyOf(b.req)].res
                                      ELSE Result("superseded", Current(Command(b.req).doc).ver)
                         /\ cur' = b /\ pc' = "finalize"
      BY <1>8 DEF StaleResult
    <2>2. CASE UNCHANGED <<pc, cur, out>>
      BY <1>3, <2>1, <2>2
    <2>3. CASE /\ Versioned(b.req) /\ LastIs(b.req) /\ out' = doc[Command(b.req).doc].lastRes
               /\ cur' = b /\ pc' = "finalize"
      BY <1>4, <1>6, <2>1, <2>3
    <2>4. ASSUME NEW r \in Replies("stale_lookup"),
                 out' = IF r.seen /\ Journaled(b.req)
                        THEN idem[KeyOf(b.req)].res
                        ELSE Result("superseded", Current(Command(b.req).doc).ver),
                 cur' = b, pc' = "finalize"
          PROVE  Journaling'
      <3>1. IF Decided(KeyOf(b.req)) THEN out' = idem[KeyOf(b.req)].res ELSE out'.st # "applied"
        BY <1>7, <2>4
      <3> QED
        BY <1>4, <2>1, <2>4, <3>1
    <2> QED
      BY <2>1, <2>2, <2>3, <2>4
  <1> QED
    BY <1>2, <1>8

\* The invariant of the journal holds in every reachable state.
LEMMA JournalingHolds ==
    ASSUME JournalSound
    PROVE  Spec => []Journaling
  <1>1. Init => Journaling
    <2> SUFFICES ASSUME Init PROVE Journaling
      OBVIOUS
    <2>1. \A c \in Calls : RowKeyed(c) /\ PollSane(c) /\ applied[c] = 0
      BY ManagementAssumption DEF Init, RowKeyed, PollSane
    <2>2. (\A k \in Keys : AppliedSane(k)) /\ (\A d \in Docs : LastSane(d)) /\ KeysSpent
      BY DEF Init, AppliedSane, LastSane, KeysSpent
    <2>3. Claimed /\ AtHand
      BY DEF Init, Claimed, AtHand, Handling
    <2> QED
      BY <2>1, <2>2, <2>3 DEF Journaling, Books
  <1>2. Typed /\ Journaling /\ [Next]_vars => Journaling'
    <2> SUFFICES ASSUME Typed, Journaling, [Next]_vars PROVE Journaling'
      OBVIOUS
    <2>1. CASE UNCHANGED vars
      <3>1. /\ UNCHANGED <<log, idem, doc, applied, ask, poll>>
            /\ UNCHANGED <<pc, batch, cur, out>> /\ AskGrows
        BY <2>1 DEF vars, AskGrows
      <3>2. \A x : Open(x)' = Open(x)
        BY <3>1 DEF Open, Terminal
      <3>3. Books'
        BY <3>1, BooksRead DEF Journaling
      <3>4. Claimed' /\ AtHand'
        BY <3>1, <3>2, HandKept
      <3> QED
        BY <3>3, <3>4 DEF Journaling
    <2>2. CASE Crash \/ Shutdown \/ Heartbeat \/ Restart \/ RestoreFails
      BY <2>2, JournalProcess DEF Crash, Shutdown
    <2>3. Step => Journaling'
      BY <2>2, JournalClaim, JournalNextCommand, JournalReplay, JournalLoad, JournalPrepare,
         JournalConfirm, JournalRollback, JournalRecord, JournalReadBack, JournalEnd,
         JournalListStale, JournalStaleResult DEF Step
    <2> QED
      BY <2>1, <2>2, <2>3, JournalEnqueue, JournalCollectRow, JournalCollectKey DEF Next
  <1> QED
    BY <1>1, <1>2, TypedHolds, PTL DEF Spec

\* Whenever a waiting call polls, a typed answer is the truth: "applied" for an operation
\* that took effect once, another outcome for one that never did.  The answer of the row
\* and the one of the journal, after the row was collected, are the same.
THEOREM AnswersAreTrue ==
    ASSUME JournalSound
    PROVE  Spec => []AnswerTruthful
  <1>1. Typed /\ Journaling => AnswerTruthful
    <2> SUFFICES ASSUME Typed, Journaling, NEW c \in Calls, Answer(c) # None, Versioned(c),
                        Answer(c).st # "error"
                 PROVE  applied[poll[c]] = IF Answer(c).st = "applied" THEN 1 ELSE 0
      BY DEF AnswerTruthful
    <2> DEFINE p == poll[c]
               k == KeyOf(c)
    <2>1. p \in Calls
      BY DEF Answer, Typed, Shapes
    <2>2. /\ Books /\ ask[c] # None /\ ask[p] # None /\ KeyOf(p) = k
          /\ idem[k] # None => idem[k].req = p
      BY <2>1 DEF Journaling, Books, PollSane
    <2>3. k \in Keys /\ RecordSane(k) /\ AppliedSane(k) /\ RowKeyed(p)
      BY <2>1, <2>2, AskedFields DEF Books, Typed
    <2>4. Result("error", 0).st = "error"
      BY ResultFields
    <2>5. CASE log[p] # None /\ Terminal(log[p])
      <3>1. p \notin {None, "refused"}
        BY <2>1, ManagementAssumption
      <3>2. Answer(c) = Told(log[p].status, log[p].res)
        BY <2>5, <3>1 DEF Answer
      <3>3. log[p].status = "done" /\ Answer(c) = log[p].res
        BY <2>4, <2>5, <3>2 DEF Told, Terminal
      <3>4. idem[k] # None /\ idem[k].req = p /\ idem[k].res = log[p].res
        BY <2>2, <2>3, <2>5, <3>3 DEF RowKeyed
      <3>5. log[p].res # None
        BY <2>1, <2>5 DEF Typed, RowSane
      <3>6. Decided(k)
        BY <2>3, <3>4, <3>5 DEF RecordSane, Decided
      <3> QED
        BY <2>3, <3>3, <3>4, <3>6 DEF AppliedSane
    <2>6. CASE log[p] = None
      <3>1. p \notin {None, "refused"}
        BY <2>1, ManagementAssumption
      <3>2. idem[k] # None /\ idem[k].final # "" /\ Answer(c) = Told(idem[k].final, idem[k].res)
        BY <2>6, <3>1 DEF Answer
      <3>3. Answer(c) = idem[k].res
        BY <2>4, <3>2 DEF Told
      <3> QED
        BY <2>2, <2>3, <3>2, <3>3 DEF AppliedSane, Decided
    <2>7. CASE log[p] # None /\ ~Terminal(log[p])
      <3>1. p \notin {None, "refused"}
        BY <2>1, ManagementAssumption
      <3> QED
        BY <2>7, <3>1 DEF Answer
    <2> QED
      BY <2>5, <2>6, <2>7
  <1> QED
    BY <1>1, TypedHolds, JournalingHolds, PTL

----------------------------------------------------------------------------
(* OneFate: every step is a step of the contract *)

Version(d) == IF doc[d] = None THEN 0 ELSE doc[d].ov

\* A step that changes no fate and no version is a stutter of the contract.
LEMMA ContractStutters ==
    ASSUME \A k \in Keys : idem'[k] = idem[k], \A d \in Docs : Version(d)' = Version(d)
    PROVE  UNCHANGED Contract!vars
  <1>1. \A k \in Keys : Fate(k)' = Fate(k)
    BY DEF Fate
  <1> QED
    BY <1>1 DEF Contract!vars, Version

\* Keys are decided without effect, all with outcomes of refusals.
LEMMA ContractRefuses ==
    ASSUME Typed, NEW K \in SUBSET Keys, K # {},
           \A k \in K : /\ idem[k] # None /\ idem[k].final = ""
                        /\ idem'[k] # None /\ idem'[k].final # ""
                        /\ idem'[k].res.st \in Outcomes \ {"applied"},
           \A k \in Keys \ K : idem'[k] = idem[k],
           \A d \in Docs : Version(d)' = Version(d)
    PROVE  Contract!Next
  <1> DEFINE o == [k \in K |-> idem'[k].res.st]
  <1>1. o \in [K -> Outcomes \ {"applied"}]
    OBVIOUS
  <1>2. ASSUME NEW k \in Keys
        PROVE  /\ k \in K => Fate(k) = "open" /\ Fate(k)' = o[k]
               /\ k \notin K => Fate(k)' = Fate(k)
    BY DEF Fate
  <1>3. [k \in Keys |-> Fate(k)]' = [k \in Keys |-> IF k \in K THEN o[k] ELSE Fate(k)]
    BY <1>2
  <1>4. [d \in Docs |-> IF doc[d] = None THEN 0 ELSE doc[d].ov]'
            = [d \in Docs |-> IF doc[d] = None THEN 0 ELSE doc[d].ov]
    BY DEF Version
  <1> HIDE DEF o
  <1>5. Contract!Refuse(K)
    BY <1>1, <1>2, <1>3, <1>4 DEF Contract!Refuse
  <1> QED
    BY <1>5 DEF Contract!Next

\* One key is decided with effect, and one document moves.
LEMMA ContractApplies ==
    ASSUME NEW k \in Keys, NEW d \in Docs,
           idem[k] # None, idem[k].final = "",
           idem'[k] # None, idem'[k].final # "", idem'[k].res.st = "applied",
           \A j \in Keys : j # k => idem'[j] = idem[j],
           \A x \in Docs : Version(x)' = IF x = d THEN Version(x) + 1 ELSE Version(x)
    PROVE  Contract!Next
  <1>1. /\ Fate(k) = "open" /\ Fate(k)' = "applied"
        /\ \A j \in Keys : j # k => Fate(j)' = Fate(j)
    BY DEF Fate
  <1>2. [j \in Keys |-> Fate(j)]' = [[j \in Keys |-> Fate(j)] EXCEPT ![k] = "applied"]
    BY <1>1
  <1>3. [x \in Docs |-> IF doc[x] = None THEN 0 ELSE doc[x].ov]'
           = [[x \in Docs |-> IF doc[x] = None THEN 0 ELSE doc[x].ov] EXCEPT ![d] = @ + 1]
    BY DEF Version
  <1>4. Contract!Apply(k)
    BY <1>1, <1>2, <1>3 DEF Contract!Apply
  <1> QED
    BY <1>4 DEF Contract!Next

\* Enqueue is a step of the contract, or a stutter.
LEMMA RefineEnqueue ==
    ASSUME Typed, NEW c \in Calls, Enqueue(c)
    PROVE  Contract!Next \/ UNCHANGED Contract!vars
  <1> DEFINE new(m) == [req |-> c, pay |-> m.cmd, final |-> "", res |-> None]
  <1>1. PICK m \in Menu[c] :
           \/ idem[m.key] = None /\ idem' = [idem EXCEPT ![m.key] = new(m)]
           \/ UNCHANGED idem
    BY DEF Enqueue
  <1>2. m.key \in Keys /\ Shapes /\ UNCHANGED doc
    BY RequestFields DEF Requests, Typed, Enqueue
  <1>3. new(m) # None /\ new(m).final = ""
    <2>1. m \in Requests
      BY DEF Requests
    <2> QED
      BY <2>1, NewRecord, RecordFields, RequestFields
  <1> HIDE DEF new
  <1>4. \A d \in Docs : Version(d)' = Version(d)
    BY <1>2 DEF Version
  <1>5. CASE UNCHANGED idem
    BY <1>4, <1>5, ContractStutters
  <1>6. CASE idem[m.key] = None /\ idem' = [idem EXCEPT ![m.key] = new(m)]
    <2>1. \A k \in Keys : idem'[k] = IF k = m.key THEN new(m) ELSE idem[k]
      BY <1>2, <1>6 DEF Shapes
    <2>2. /\ Fate(m.key) = "new" /\ Fate(m.key)' = "open"
          /\ \A k \in Keys : k # m.key => Fate(k)' = Fate(k)
      BY <1>2, <1>3, <1>6, <2>1 DEF Fate
    <2>3. Contract!Accept(m.key)
      BY <1>2, <1>4, <2>2 DEF Contract!Accept, Version
    <2> QED
      BY <1>2, <2>3 DEF Contract!Next
  <1> QED
    BY <1>1, <1>5, <1>6

\* CollectKey is a step of the contract, or a stutter.
LEMMA RefineCollectKey ==
    ASSUME Typed, NEW k \in Keys, CollectKey(k)
    PROVE  Contract!Next
  <1>1. /\ Shapes /\ UNCHANGED doc /\ idem' = [idem EXCEPT ![k] = None]
        /\ idem[k] # None /\ idem[k].final # ""
    BY DEF CollectKey, Typed
  <1>2. idem[k].res \in Results
    BY <1>1, RecordFields DEF Typed, Shapes, RecordSane
  <1>3. Fate(k) = idem[k].res.st /\ Fate(k) \notin {"new", "open"}
    BY <1>1, <1>2, ResultFields DEF Fate, Outcomes
  <1>4. Fate(k)' = "new" /\ \A j \in Keys : j # k => Fate(j)' = Fate(j)
    BY <1>1 DEF Fate, Shapes
  <1>5. Contract!Forget(k)
    BY <1>1, <1>3, <1>4 DEF Contract!Forget
  <1> QED
    BY <1>5 DEF Contract!Next

\* Claim is a step of the contract, or a stutter.
LEMMA RefineClaim ==
    ASSUME Typed, Claim
    PROVE  Contract!Next \/ UNCHANGED Contract!vars
  <1>1. UNCHANGED doc /\ (idem' = idem \/ idem' = ClaimedKeys)
    BY DEF Claim
  <1>2. \A d \in Docs : Version(d)' = Version(d)
    BY <1>1 DEF Version
  <1> DEFINE K == {k \in Keys : idem'[k] # idem[k]}
  <1>3. CASE K = {}
    BY <1>2, <1>3, ContractStutters
  <1>4. CASE K # {}
    <2>1. Result("dead_letter", 0).st \in Outcomes \ {"applied"}
      BY ResultFields DEF Outcomes
    <2>2. \A k \in K : /\ idem[k] # None /\ idem[k].final = ""
                       /\ idem'[k] # None /\ idem'[k].final # ""
                       /\ idem'[k].res.st \in Outcomes \ {"applied"}
      BY <1>1, <2>1, ClaimedKey
    <2>3. K \in SUBSET Keys /\ \A k \in Keys \ K : idem'[k] = idem[k]
      OBVIOUS
    <2> HIDE DEF K
    <2> QED
      BY <1>2, <1>4, <2>2, <2>3, ContractRefuses
  <1> QED
    BY <1>3, <1>4

\* Recording a result, in the journal or by a read-back, is a step of the contract or a stutter.
LEMMA RefineWrites ==
    ASSUME Typed, Journaling, Record \/ Complete \/ Finalize
    PROVE  Contract!Next \/ UNCHANGED Contract!vars
  <1> DEFINE c == cur.req
             k == KeyOf(c)
  <1>1. /\ UNCHANGED doc /\ k \in Keys /\ out \in Results
        /\ idem' = idem \/ idem' = Mirror(k, "done", out)
        /\ pc \in {"record", "complete", "finalize"}
    BY RecordCases, EndCases
  <1>2. \A d \in Docs : Version(d)' = Version(d)
    BY <1>1 DEF Version
  <1>3. ~Decided(k) => out.st # "applied"
    BY <1>1 DEF Journaling, AtHand
  <1> HIDE DEF k
  <1>4. CASE idem' = idem \/ Decided(k) \/ idem[k] = None
    <2>1. idem' = idem
      BY <1>1, <1>4 DEF Mirror, Decided
    <2> QED
      BY <1>2, <2>1, ContractStutters
  <1>5. CASE idem' = Mirror(k, "done", out) /\ ~Decided(k) /\ idem[k] # None
    <2>1. /\ idem[k].final = "" /\ idem'[k] # None /\ idem'[k].final = "done" /\ idem'[k].res = out
          /\ \A j \in Keys : j # k => idem'[j] = idem[j]
      BY <1>1, <1>5, Mirrored DEF Decided
    <2>2. out.st \in Outcomes \ {"applied"}
      BY <1>1, <1>3, <1>5, ResultFields
    <2> DEFINE K == {k}
    <2>3. /\ K \in SUBSET Keys /\ K # {}
          /\ \A j \in K : /\ idem[j] # None /\ idem[j].final = ""
                          /\ idem'[j] # None /\ idem'[j].final # ""
                          /\ idem'[j].res.st \in Outcomes \ {"applied"}
          /\ \A j \in Keys \ K : idem'[j] = idem[j]
      BY <1>1, <1>5, <2>1, <2>2
    <2> HIDE DEF K
    <2> QED
      BY <1>2, <2>3, ContractRefuses
  <1> QED
    BY <1>1, <1>4, <1>5

\* Confirm is a step of the contract, or a stutter.
LEMMA RefineConfirm ==
    ASSUME Typed, Journaling, Confirm
    PROVE  Contract!Next \/ UNCHANGED Contract!vars
  <1> DEFINE c == cur.req
             d == Command(c).doc
             k == KeyOf(c)
             res == Result("applied", ram[d].ver)
             o == Observed(d, c, res)
  <1>0. /\ pc = "confirm" /\ pc \in Handling /\ d \in Docs /\ doc[d] \in States
        /\ c \in Calls /\ res \in Results /\ res.st = "applied"
        /\ \/ doc' = [doc EXCEPT ![d] = o] /\ idem' = Mirror(k, "done", res)
           \/ UNCHANGED <<doc, idem>>
    BY ConfirmCases
  <1>1. /\ Shapes /\ k \in Keys /\ idem[k] # None /\ ~Decided(k)
        /\ ram[d].ver = doc[d].ov + 1 /\ ram[d] \in Snapshots /\ doc[d] # None
    BY <1>0, AtHandIs DEF Typed, Shapes, LoopSane, Journaling, AtHand
  <1>2. CASE UNCHANGED <<doc, idem>>
    <2>1. \A x \in Docs : Version(x)' = Version(x)
      BY <1>2 DEF Version
    <2> QED
      BY <1>2, <2>1, ContractStutters
  <1>3. CASE doc' = [doc EXCEPT ![d] = o] /\ idem' = Mirror(k, "done", res)
    <2>1. o # None /\ o.ov = doc[d].ov + 1
      <3>1. ram[d].ver \in Nat /\ ram[d].val \in Values
        BY <1>1, SnapshotFields
      <3> DEFINE v == ram[d].ver
                 x == ram[d].val
                 s == doc[d]
                 t == [s EXCEPT !.ov = v, !.oval = x, !.status = "observed",
                                !.last = c, !.lastRes = res]
      <3>2. o = t
        BY DEF Observed
      <3>3. s \in States /\ v \in Nat /\ x \in Values /\ c \in Calls /\ res \in Results
        BY <1>0, <3>1
      <3> HIDE DEF c, res, v, x, s
      <3>4. t \in States /\ t.ov = v
        BY <3>3 DEF States
      <3> HIDE DEF t, o
      <3> QED
        BY <1>1, <3>2, <3>4, StateFields DEF v
    <2> HIDE DEF o, res, k
    <2>2. /\ idem[k].final = "" /\ idem'[k] # None /\ idem'[k].final = "done" /\ idem'[k].res = res
          /\ \A j \in Keys : j # k => idem'[j] = idem[j]
      BY <1>0, <1>1, <1>3, Mirrored DEF Decided
    <2>3. \A x \in Docs : Version(x)' = IF x = d THEN Version(x) + 1 ELSE Version(x)
      BY <1>0, <1>1, <1>3, <2>1 DEF Version, Shapes
    <2> HIDE DEF d
    <2> QED
      BY <1>0, <1>1, <2>2, <2>3, ContractApplies
  <1> QED
    BY <1>0, <1>2, <1>3

\* A step that changes the documents only is a step of the contract or a stutter.
LEMMA RefineDocs ==
    ASSUME Typed, Restart \/ RestoreFails \/ Prepare \/ Rollback
    PROVE  UNCHANGED Contract!vars
  <1>0. Shapes /\ UNCHANGED idem
    BY DEF Typed, Restart, RestoreFails, Prepare, Rollback
  <1>1. CASE Restart
    <2>1. ASSUME NEW d \in Docs PROVE Version(d)' = Version(d)
      <3>1. inc \in Nat /\ doc[d] \in States \cup {None}
        BY <1>0 DEF Shapes
      <3>2. CASE doc[d] = None
        <4>1. doc'[d] \in {Fresh(inc + 1), None}
          BY <1>1, <3>2 DEF Restart
        <4> QED
          BY <3>1, <3>2, <4>1, FreshFields DEF Version
      <3>3. CASE doc[d] # None
        <4>1. doc'[d] = Restored(doc[d])
          BY <1>1, <3>3 DEF Restart
        <4> QED
          BY <3>1, <3>3, <4>1, RestoredFields, StateFields DEF Version
      <3> QED
        BY <3>2, <3>3
    <2> QED
      BY <1>0, <2>1, ContractStutters
  <1>2. CASE RestoreFails
    <2>1. ASSUME NEW d \in Docs PROVE Version(d)' = Version(d)
      <3>1. inc + 1 \in Nat /\ doc[d] \in States \cup {None}
        BY <1>0 DEF Shapes
      <3>2. CASE doc[d] = None
        BY <1>2, <3>2 DEF RestoreFails, Version
      <3>3. CASE doc[d] # None
        <4> DEFINE t == [doc[d] EXCEPT !.inc = inc + 1]
        <4>1. doc'[d] = t
          BY <1>2, <3>3 DEF RestoreFails
        <4>2. t \in States /\ t.ov = doc[d].ov
          BY <3>1, <3>3 DEF States
        <4> HIDE DEF t
        <4> QED
          BY <3>3, <4>1, <4>2, StateFields DEF Version
      <3> QED
        BY <3>2, <3>3
    <2> QED
      BY <1>0, <2>1, ContractStutters
  <1>3. CASE Prepare
    <2> DEFINE d == Command(cur.req).doc
               ver == Current(d).ver
               val == Command(cur.req).value
               w == Wanted(d, ver, val)
    <2>1. /\ up /\ d \in Docs /\ pc \in Handling
          /\ doc' = doc \/ (CasWins(d, ver) /\ doc' = [doc EXCEPT ![d] = w])
      BY <1>3, PrepareCases
    <2>2. CasWins(d, ver) => w # None /\ w.ov = ver
      BY <2>1, WantedFields, HandlingFields
    <2>3. CasWins(d, ver) => ver = Version(d)
      BY <2>1, CurrentFields DEF CasWins, Version, Boot
    <2> HIDE DEF w, ver, val
    <2>4. ASSUME NEW x \in Docs PROVE Version(x)' = Version(x)
      <3>1. doc'[x] = doc[x] \/ (x = d /\ CasWins(d, ver) /\ doc'[x] = w)
        BY <1>0, <2>1 DEF Shapes
      <3> QED
        BY <2>2, <2>3, <3>1 DEF Version
    <2> QED
      BY <1>0, <2>4, ContractStutters
  <1>4. CASE Rollback
    <2> DEFINE d == Command(cur.req).doc
               s == doc[d]
               t == [s EXCEPT !.status = "failed"]
    <2>1. d \in Docs /\ (doc' = doc \/ (s # None /\ doc' = [doc EXCEPT ![d] = t]))
      BY <1>4, RollbackCases
    <2>2. s # None => t # None /\ t.ov = s.ov
      <3>1. s # None => s \in States
        BY <1>0, <2>1 DEF Shapes
      <3> HIDE DEF s
      <3>2. s # None => t \in States /\ t.ov = s.ov
        BY <3>1 DEF States
      <3> QED
        BY <3>2, StateFields
    <2> HIDE DEF t
    <2>3. ASSUME NEW x \in Docs PROVE Version(x)' = Version(x)
      <3>1. doc'[x] = doc[x] \/ (x = d /\ s # None /\ doc'[x] = t)
        BY <1>0, <2>1 DEF Shapes
      <3> QED
        BY <2>2, <3>1 DEF Version
    <2> QED
      BY <1>0, <2>3, ContractStutters
  <1> QED
    BY <1>1, <1>2, <1>3, <1>4

\* The management plane implements its contract: a key is accepted once, decided once and
\* for good while it is remembered, and a document's observed version moves by one exactly
\* when some key's outcome becomes "applied", across crashes, restarts, lost requests and
\* lost replies of the writes, the confirmation's included.
THEOREM ImplementsContract ==
    ASSUME JournalSound
    PROVE  Spec => OneFate
  <1>1. Init => Contract!Init
    BY DEF Init, Contract!Init, Fate
  <1>2. Typed /\ Journaling /\ [Next]_vars => [Contract!Next]_(Contract!vars)
    <2> SUFFICES ASSUME Typed, Journaling, [Next]_vars
                 PROVE  Contract!Next \/ UNCHANGED Contract!vars
      OBVIOUS
    <2>0. UNCHANGED <<idem, doc>> => UNCHANGED Contract!vars
      BY ContractStutters DEF Version
    <2>1. CASE UNCHANGED vars
      BY <2>0, <2>1 DEF vars
    <2>2. CASE \E c \in Calls : CollectRow(c) \/ LeaseExpires(c)
      BY <2>0, <2>2 DEF CollectRow, LeaseExpires
    <2>3. CASE Heartbeat \/ Crash \/ Shutdown
      BY <2>0, <2>3 DEF Heartbeat, Crash, Shutdown, Exit, backend
    <2>4. CASE NextCommand \/ Replay \/ Load \/ Lookup \/ ReadBack \/ ListStale \/ StaleResult
      BY <2>0, <2>4 DEF NextCommand, Replay, Load, Lookup, ReadBack, ListStale, StaleResult, backend
    <2> QED
      BY <2>1, <2>2, <2>3, <2>4, RefineEnqueue, RefineCollectKey, RefineClaim, RefineWrites,
         RefineConfirm, RefineDocs DEF Next, Step
  <1> QED
    BY <1>1, <1>2, TypedHolds, JournalingHolds, PTL DEF Spec, OneFate, Contract!Spec
=============================================================================
