------------------------------ MODULE Management ------------------------------
(***************************************************************************)
(* Commands from the control plane to a node: the command log and desired  *)
(* state of crates/state-backend/src/memory.rs (the reference backend), the *)
(* waiting call of crates/control/src/turn_core_impl.rs, the command loop  *)
(* of services/node/src/main.rs and its handlers in                        *)
(* services/node/src/runtime_management.rs.                                *)
(*                                                                         *)
(* Every backend call is one step (one stored procedure).  A call may fail *)
(* before it took effect, or take effect and lose its reply.  The node     *)
(* crashes between any two calls and restarts as a new incarnation.        *)
(* update_config and set_user_limits are one protocol on two kinds of      *)
(* document; they differ in where the current version is read.             *)
(***************************************************************************)
EXTENDS Integers, FiniteSets

CONSTANTS
    Calls,        \* RPCs of the control plane; a call's name is its request_id
    Menu,         \* what a call may ask: a set of [key, cmd] per call, where cmd is
                  \* a payload [op, doc, expect, value, valid]
    Limits,       \* subjects of set_user_limits: documents besides "config"
    MaxAttempts,  \* MAX_COMMAND_ATTEMPTS
    MaxStale,     \* MAX_STALE_SWEEP
    Faults,       \* what may be lost: <<backend call, "request" or "reply">>
    Outlived,     \* may a retry or an unfinished command outlive its key's retention?
    MaxFaults,    \* bound: failed backend calls
    MaxInc,       \* bound: incarnations of the node
    None

Docs == {"config"} \cup Limits
Requests == UNION {Menu[c] : c \in Calls}
Keys == {m.key : m \in Requests}
Ops == {"update_config", "set_user_limits", "drain", "undrain", "shutdown",
        "delete_allocation"}

\* Business outcomes of a command, and the records of the backend.
Outcomes == {"applied", "no_op", "conflict", "failed", "superseded", "dead_letter", "ok"}
Results == [st : Outcomes, ver : Nat]
Values == {0} \cup {m.cmd.value : m \in Requests}
Snapshots == [ver : Nat, val : Values]
Rows == [inc : Nat, status : {"pending", "in_progress", "done", "failed"},
         res : Results \cup {None}, lease : BOOLEAN, tries : Nat]
Records == [req : Calls, pay : {m.cmd : m \in Requests},
            final : {"", "done", "failed"}, res : Results \cup {None}]
States == [inc : Nat, dv : Nat, dval : Values, ov : Nat, oval : Values,
           status : {"observed", "applying", "failed"},
           last : Calls \cup {None}, lastRes : Results \cup {None}]
Claims == [req : Calls, tok : Nat]

ASSUME ManagementAssumption ==
    /\ IsFiniteSet(Calls)
    /\ MaxAttempts \in Nat \ {0} /\ MaxStale \in Nat \ {0} /\ MaxFaults \in Nat /\ MaxInc \in Nat \ {0}
    /\ Outlived \in BOOLEAN
    /\ None \notin Calls /\ "refused" \notin Calls
    /\ None \notin Requests /\ None \notin Results /\ None \notin Rows
    /\ None \notin Records /\ None \notin States /\ None \notin Claims
    /\ \A c \in Calls : \A m \in Menu[c] :
          /\ m.cmd.op \in Ops
          /\ m.cmd.op = "update_config" => m.cmd.doc = "config"
          /\ m.cmd.op = "set_user_limits" => m.cmd.doc \in Limits
    /\ "config" \notin Limits

VARIABLES
    log,       \* commands: request -> [inc, status, res, lease, tries], or None
    idem,      \* command_idempotency: key -> [req, pay, final, res], or None
    doc,       \* runtime_states, user_limits_states: document -> record, or None
    adv,       \* the incarnation in the node's last heartbeat, 0 before the first
    up,        \* is the process running?
    inc,       \* its incarnation
    ram,       \* what the process runs with: document -> [ver, val]
    draining,  \* metrics.is_draining
    stopping,  \* shutdown_tx
    pc,        \* step of the command loop
    batch,     \* claimed commands, then stale ones, yet to do: [req, tok]
    cur,       \* the one at hand
    prev,      \* the snapshot to roll back to
    out,       \* its result
    ask,       \* per call: its key and payload once it was made, or None
    poll,      \* per call: the canonical request it waits for, "refused", or None
    applied,   \* per request: how often it was confirmed as observed (history)
    faults     \* failed backend calls so far

backend == <<log, idem, doc, applied>>
node == <<ram, draining, stopping>>
loop == <<pc, batch, cur, prev, out>>
process == <<up, inc, adv>>
vars == <<log, idem, doc, applied, ram, draining, stopping, pc, batch, cur, prev,
          out, ask, poll, up, inc, adv, faults>>

----------------------------------------------------------------------------
(* Records *)

KeyOf(c) == ask[c].key
Command(c) == ask[c].cmd
Versioned(c) == Command(c).op \in {"update_config", "set_user_limits"}

Result(st, ver) == [st |-> st, ver |-> ver]
Boot == [ver |-> 0, val |-> 0]
Fresh(i) == [inc |-> i, dv |-> 0, dval |-> 0, ov |-> 0, oval |-> 0,
             status |-> "observed", last |-> None, lastRes |-> None]

\* Terminal states of a command row.
Terminal(row) == row.status \in {"done", "failed"}

\* A command of another incarnation, unfinished: list_stale_commands.
Stale(c) == log[c] # None /\ ~Terminal(log[c]) /\ log[c].inc # inc

\* Only the last applied operation is remembered.
JournaledNever(c) == FALSE

\* The journal holds a terminal outcome for the key and payload of request c.
Journaled(c) ==
    LET rec == idem[KeyOf(c)] IN
    rec # None /\ rec.final # "" /\ rec.pay = Command(c)

\* Its body decodes as a typed result; the text of a dead letter does not.
Decodable(c) == Journaled(c) /\ idem[KeyOf(c)].res.st # "dead_letter"

\* already_applied: the document's last applied operation is this one.
LastIs(c) ==
    LET s == doc[Command(c).doc] IN
    /\ s # None /\ s.last # None
    /\ s.last = c \/ (KeyOf(s.last) = KeyOf(c) /\ Command(s.last) = Command(c))

\* The status is written, the result is not.
MirrorStatusOnly(k, final, res) ==
    IF idem[k] # None /\ idem[k].final = ""
    THEN [idem EXCEPT ![k].final = final]
    ELSE idem

\* Writes the outcome of key k unless it has one already.
Mirror(k, final, res) ==
    IF idem[k] # None /\ idem[k].final = ""
    THEN [idem EXCEPT ![k].final = final, ![k].res = res]
    ELSE idem

\* The current version and value a handler compares with: the published snapshot
\* for the configuration, the durable record for user limits.
Current(d) ==
    CASE d = "config" -> ram[d]
      [] d # "config" /\ doc[d] = None -> Boot
      [] OTHER -> [ver |-> doc[d].ov, val |-> doc[d].oval]

\* The outcomes of a backend call: done says whether it took effect, seen whether
\* the caller got the reply.
Replies(name) ==
    {[done |-> TRUE, seen |-> TRUE]} \cup
    (IF faults = MaxFaults THEN {} ELSE
        {r \in [done : BOOLEAN, seen : {FALSE}] :
            <<name, IF r.done THEN "reply" ELSE "request">> \in Faults})
Count(r) == faults' = IF r.seen THEN faults ELSE faults + 1

At(step) == up /\ pc = step

----------------------------------------------------------------------------
Init ==
    /\ log = [c \in Calls |-> None]
    /\ idem = [k \in Keys |-> None]
    /\ doc = [d \in Docs |-> None]
    /\ applied = [c \in Calls |-> 0]
    /\ adv = 0 /\ up = FALSE /\ inc = 0
    /\ ram = [d \in Docs |-> Boot]
    /\ draining = FALSE /\ stopping = FALSE
    /\ pc = "tick" /\ batch = {} /\ cur = None /\ prev = Boot /\ out = None
    /\ ask = [c \in Calls |-> None]
    /\ poll = [c \in Calls |-> None]
    /\ faults = 0

----------------------------------------------------------------------------
(* The control plane *)

\* enqueue_command_and_await: look up the advertised incarnation, then
\* enqueue_command.  The first call with a key inserts its command; a retry gets
\* the canonical request; the key with another payload is a conflict.
Enqueue(c) ==
    /\ ask[c] = None /\ adv # 0
    /\ \E m \in Menu[c] :
       LET rec == idem[m.key] IN
       /\ ask' = [ask EXCEPT ![c] = m]
       /\ \/ /\ rec = None
             /\ idem' = [idem EXCEPT ![m.key] =
                   [req |-> c, pay |-> m.cmd, final |-> "", res |-> None]]
             /\ log' = [log EXCEPT ![c] = [inc |-> adv, status |-> "pending",
                           res |-> None, lease |-> FALSE, tries |-> 0]]
             /\ poll' = [poll EXCEPT ![c] = c]
          \/ /\ rec # None /\ rec.pay = m.cmd
             /\ poll' = [poll EXCEPT ![c] = rec.req]
             /\ UNCHANGED <<idem, log>>
          \/ /\ rec # None /\ rec.pay # m.cmd
             /\ poll' = [poll EXCEPT ![c] = "refused"]
             /\ UNCHANGED <<idem, log>>
    /\ UNCHANGED <<doc, applied, node, loop, process, faults>>

\* What the waiting call returns if it polls now, None if it waits on: the row, or
\* the journal once the row is gone.  "failed" is an error, "done" carries the typed
\* result.  A call that ran into its deadline simply polls no more.
Told(status, res) == IF status = "failed" THEN Result("error", 0) ELSE res
Answer(c) ==
    CASE poll[c] \in {None, "refused"} -> None
      [] OTHER ->
            LET row == log[poll[c]]
                rec == idem[KeyOf(c)] IN
            CASE row # None /\ Terminal(row) -> Told(row.status, row.res)
              [] row = None /\ rec # None /\ rec.final # "" -> Told(rec.final, rec.res)
              [] OTHER -> None

\* gc_command_log: terminal rows go, and finished keys.  The retention of a key is
\* at least that of a row and far longer than a lease: unless Outlived, its row is
\* finished and gone and its retries have come before it goes.
CollectRow(c) ==
    /\ log[c] # None /\ Terminal(log[c])
    /\ log' = [log EXCEPT ![c] = None]
    /\ UNCHANGED <<idem, doc, applied, node, loop, process, ask, poll, faults>>

CollectKey(k) ==
    /\ idem[k] # None /\ idem[k].final # ""
    /\ \/ Outlived
       \/ /\ log[idem[k].req] = None
          /\ \A c \in Calls : ask[c] = None => \A m \in Menu[c] : m.key # k
    /\ idem' = [idem EXCEPT ![k] = None]
    /\ UNCHANGED <<log, doc, applied, node, loop, process, ask, poll, faults>>

\* The lease of a claimed command runs out.
LeaseExpires(c) ==
    /\ log[c] # None /\ log[c].status = "in_progress" /\ log[c].lease
    /\ log' = [log EXCEPT ![c].lease = FALSE]
    /\ UNCHANGED <<idem, doc, applied, node, loop, process, ask, poll, faults>>

----------------------------------------------------------------------------
(* Start, heartbeat and end of the process *)

\* The desired snapshot is published, confirmed or not.
ConfirmedDesired(s) == [ver |-> s.dv, val |-> s.dval]

\* The snapshot restore publishes for a document: the last confirmed one.
Confirmed(s) == [ver |-> s.ov, val |-> s.oval]

\* restore: adopt the incarnation, publish the last observed snapshots and mark an
\* interrupted change as failed.  The first start creates the configuration.
Restored(s) ==
    [s EXCEPT !.inc = inc + 1,
              !.status = IF s.status # "observed" \/ s.dv # s.ov THEN "failed" ELSE @]

Restart ==
    /\ ~up /\ inc < MaxInc
    /\ inc' = inc + 1
    /\ up' = TRUE
    /\ doc' = [d \in Docs |->
          CASE doc[d] # None -> Restored(doc[d])
            [] doc[d] = None /\ d = "config" -> Fresh(inc + 1)
            [] OTHER -> None]
    /\ ram' = [d \in Docs |-> IF doc[d] = None THEN Boot ELSE Confirmed(doc[d])]
    /\ UNCHANGED <<log, idem, applied, draining, stopping, loop, ask, poll, adv, faults>>

\* A start that fails after the incarnation was adopted.
RestoreFails ==
    /\ ~up /\ inc + 1 < MaxInc
    /\ inc' = inc + 1
    /\ doc' = [d \in Docs |-> IF doc[d] = None THEN None
                              ELSE [doc[d] EXCEPT !.inc = inc + 1]]
    /\ UNCHANGED <<log, idem, applied, node, loop, ask, poll, up, adv, faults>>

Heartbeat ==
    /\ up /\ adv # inc
    /\ adv' = inc
    /\ UNCHANGED <<backend, node, loop, ask, poll, up, inc, faults>>

\* What a process takes with it.
Exit ==
    /\ up' = FALSE
    /\ draining' = FALSE /\ stopping' = FALSE
    /\ ram' = [d \in Docs |-> Boot]
    /\ pc' = "tick" /\ batch' = {} /\ cur' = None /\ prev' = Boot /\ out' = None
    /\ UNCHANGED <<backend, ask, poll, inc, adv, faults>>

Crash == up /\ inc < MaxInc /\ Exit

\* The loop sees shutdown_tx at its next tick; the process ends.
Shutdown == At("tick") /\ stopping /\ Exit

----------------------------------------------------------------------------
(* The command loop: claim, apply one by one, sweep *)

\* The lease of a claim is never given up.
ClaimableOnce == {c \in Calls :
    log[c] # None /\ log[c].inc = inc /\ log[c].status = "pending"}

\* claim_commands: unfinished commands of this incarnation whose lease is free.
\* After too many attempts a row is dead-lettered instead.
Claimable == {c \in Calls :
    /\ log[c] # None /\ log[c].inc = inc
    /\ \/ log[c].status = "pending"
       \/ log[c].status = "in_progress" /\ ~log[c].lease}
DeadLetters == {c \in Claimable : log[c].tries >= MaxAttempts}

\* The rows after a claim.
ClaimedLog == [c \in Calls |->
    CASE c \in DeadLetters ->
            [log[c] EXCEPT !.status = "failed", !.res = Result("dead_letter", 0)]
      [] c \in Claimable \ DeadLetters ->
            [log[c] EXCEPT !.status = "in_progress", !.lease = TRUE, !.tries = @ + 1]
      [] OTHER -> log[c]]

\* A dead letter replaces a journaled outcome.
ClaimedKeysDowngrade == [k \in Keys |->
    IF idem[k] # None /\ \E c \in DeadLetters : KeyOf(c) = k
    THEN [idem[k] EXCEPT !.final = "failed", !.res = Result("dead_letter", 0)]
    ELSE idem[k]]

\* A dead letter is the outcome of its key, unless the key has one.
ClaimedKeys == [k \in Keys |->
    IF idem[k] # None /\ idem[k].final = "" /\ \E c \in DeadLetters : KeyOf(c) = k
    THEN [idem[k] EXCEPT !.final = "failed", !.res = Result("dead_letter", 0)]
    ELSE idem[k]]

Claim ==
    /\ At("tick") /\ ~stopping
    /\ \E r \in Replies("claim") :
          /\ Count(r)
          /\ log' = IF r.done THEN ClaimedLog ELSE log
          /\ idem' = IF r.done THEN ClaimedKeys ELSE idem
          /\ batch' = IF r.seen THEN {[req |-> c, tok |-> log[c].tries + 1] :
                                       c \in Claimable \ DeadLetters}
                                ELSE {}
          /\ pc' = IF r.seen THEN "next" ELSE "tick"
    /\ UNCHANGED <<doc, applied, node, ask, poll, process, cur, prev, out>>

\* The next claimed command.  The other operations act at once and keep no
\* record of having been done.
NextCommand ==
    /\ At("next")
    /\ \/ batch = {} /\ pc' = "list" /\ UNCHANGED <<batch, cur, out, draining, stopping>>
       \/ \E b \in batch :
             /\ batch' = batch \ {b}
             /\ cur' = b
             /\ \/ /\ Versioned(b.req)
                   /\ pc' = "replay"
                   /\ UNCHANGED <<out, draining, stopping>>
                \/ /\ ~Versioned(b.req)
                   /\ draining' = CASE Command(b.req).op \in {"drain", "shutdown"} -> TRUE
                                    [] Command(b.req).op = "undrain" -> FALSE
                                    [] OTHER -> draining
                   /\ stopping' = (stopping \/ Command(b.req).op = "shutdown")
                   /\ out' = Result("ok", 0)
                   /\ pc' = "complete"
    /\ UNCHANGED <<backend, ram, ask, poll, process, prev, faults>>

\* Where a handler goes with its result: an applied one is in the journal.
Finish(res) ==
    /\ out' = res
    /\ pc' = IF res.st = "applied" THEN "complete" ELSE "record"

\* The command at hand is left.
Done(step) == pc' = step /\ cur' = None /\ out' = None

\* durable_replay: the journal first.
Replay ==
    /\ At("replay")
    /\ \E r \in Replies("get_idempotency") :
          /\ Count(r)
          /\ IF r.seen /\ Decodable(cur.req)
             THEN Finish(idem[KeyOf(cur.req)].res)
             ELSE pc' = "load" /\ UNCHANGED out
    /\ UNCHANGED <<backend, node, ask, poll, process, batch, cur, prev>>

\* Payload checks and check_command_target, then the durable state and its last
\* applied operation.
Load ==
    /\ At("load")
    /\ LET c == cur.req
           ver == IF Command(c).doc = "config" THEN ram["config"].ver ELSE 0 IN
       \/ /\ ~Command(c).valid \/ log[c].inc # inc
          /\ Finish(Result("failed", ver))
          /\ UNCHANGED faults
       \/ /\ Command(c).valid /\ log[c].inc = inc
          /\ \E r \in Replies("get_state") :
                /\ Count(r)
                /\ CASE ~r.seen -> Finish(Result("failed", ver))
                     [] r.seen /\ LastIs(c) -> Finish(doc[Command(c).doc].lastRes)
                     [] OTHER -> pc' = "lookup" /\ UNCHANGED out
    /\ UNCHANGED <<backend, node, ask, poll, process, batch, cur, prev>>

\* stored_terminal_result: the journal again; an error counts as not found.
Lookup ==
    /\ At("lookup")
    /\ \E r \in Replies("get_idempotency") :
          /\ Count(r)
          /\ IF r.seen /\ Decodable(cur.req)
             THEN Finish(idem[KeyOf(cur.req)].res)
             ELSE pc' = "cas" /\ UNCHANGED out
    /\ UNCHANGED <<backend, node, ask, poll, process, batch, cur, prev>>

\* RuntimeSnapshot::apply and its twin for limits: what the handler decides on its
\* own, None if the change is to be made.
Verdict(m) ==
    LET now == Current(m.doc) IN
    CASE m.expect # now.ver -> Result("conflict", now.ver)
      [] m.expect = now.ver /\ m.value = now.val -> Result("no_op", now.ver)
      [] OTHER -> None

\* cas_runtime_desired: the observed version is the expected one and the record is
\* this incarnation's.
CasWins(d, ver) == doc[d] = None \/ (doc[d].ov = ver /\ doc[d].inc = inc)

\* cas_user_limits_desired: what the compare-and-swap writes; a record that is not
\* there is created.
Wanted(d, ver, val) ==
    [(IF doc[d] = None THEN Fresh(inc) ELSE doc[d]) EXCEPT
        !.dv = ver + 1, !.dval = val, !.status = "applying"]

\* The verdict, or the compare-and-swap and publication of the new snapshot.
Prepare ==
    /\ At("cas")
    /\ LET m == Command(cur.req)
           ver == Current(m.doc).ver
           wins == CasWins(m.doc, ver) IN
       \/ /\ Verdict(m) # None
          /\ Finish(Verdict(m))
          /\ UNCHANGED <<doc, ram, prev, faults>>
       \/ /\ Verdict(m) = None
          /\ \E r \in Replies("cas") :
                /\ Count(r)
                /\ doc' = IF r.done /\ wins
                          THEN [doc EXCEPT ![m.doc] = Wanted(m.doc, ver, m.value)]
                          ELSE doc
                /\ IF r.seen /\ wins
                   THEN /\ ram' = [ram EXCEPT ![m.doc] = [ver |-> ver + 1, val |-> m.value]]
                        /\ prev' = ram[m.doc]
                        /\ pc' = "confirm" /\ UNCHANGED out
                   ELSE /\ Finish(Result(IF r.seen THEN "conflict" ELSE "failed", ver))
                        /\ UNCHANGED <<ram, prev>>
    /\ UNCHANGED <<log, idem, applied, draining, stopping, ask, poll, process, batch, cur>>

\* The fence of confirm_*_observed: this version was wanted, by this incarnation.
Confirmable(d, ver) == doc[d] # None /\ doc[d].dv = ver /\ doc[d].inc = inc

\* What it writes with status "observed"; the journal is written along with it.
Observed(d, c, res) ==
    [doc[d] EXCEPT !.ov = ram[d].ver, !.oval = ram[d].val, !.status = "observed",
                   !.last = c, !.lastRes = res]

\* The confirmation.  Any other answer than yes rolls the published snapshot back.
Confirm ==
    /\ At("confirm")
    /\ LET c == cur.req
           d == Command(c).doc
           ok == Confirmable(d, ram[d].ver)
           res == Result("applied", ram[d].ver) IN
       \E r \in Replies("confirm") :
          /\ Count(r)
          /\ IF r.done /\ ok
             THEN /\ doc' = [doc EXCEPT ![d] = Observed(d, c, res)]
                  /\ idem' = Mirror(KeyOf(c), "done", res)
                  /\ applied' = [applied EXCEPT ![c] = @ + 1]
             ELSE UNCHANGED <<doc, idem, applied>>
          /\ IF r.seen /\ ok
             THEN Finish(res) /\ prev' = Boot /\ UNCHANGED ram
             ELSE /\ ram' = [ram EXCEPT ![d] = prev]
                  /\ pc' = "rollback" /\ UNCHANGED <<out, prev>>
    /\ UNCHANGED <<log, draining, stopping, ask, poll, process, batch, cur>>

\* The rollback is noted in the durable state, if that can be reached; the desired
\* version is still the one this command wrote.
Rollback ==
    /\ At("rollback")
    /\ LET d == Command(cur.req).doc
           ok == Confirmable(d, doc[d].dv) IN
       \E r \in Replies("rollback") :
          /\ Count(r)
          /\ doc' = IF r.done /\ ok THEN [doc EXCEPT ![d].status = "failed"] ELSE doc
          /\ Finish(Result("failed", prev.ver))
          /\ prev' = Boot
    /\ UNCHANGED <<log, idem, applied, node, ask, poll, process, batch, cur>>

\* record_command_outcome: journal an outcome that changed nothing.  Another
\* outcome already there is an error.
Record ==
    /\ At("record")
    /\ LET c == cur.req
           rec == idem[KeyOf(c)]
           ok == /\ rec # None /\ rec.req = c /\ rec.pay = Command(c)
                 /\ rec.final = "" \/ rec.res = out IN
       \E r \in Replies("record") :
          /\ Count(r)
          /\ idem' = IF r.done /\ ok THEN Mirror(KeyOf(c), "done", out) ELSE idem
          /\ pc' = IF r.seen /\ ok THEN "complete" ELSE "readback"
    /\ UNCHANGED <<log, doc, applied, node, ask, poll, process, batch, cur, prev, out>>

\* The outcome could not be journaled: a durable one wins, otherwise the command
\* stays claimed until its lease is over.
ReadBack ==
    /\ At("readback")
    /\ \E r \in Replies("get_idempotency") :
          /\ Count(r)
          /\ IF r.seen /\ Journaled(cur.req)
             THEN out' = idem[KeyOf(cur.req)].res /\ pc' = "complete" /\ UNCHANGED cur
             ELSE Done("next")
    /\ UNCHANGED <<backend, node, ask, poll, process, batch, prev>>

\* complete_command, fenced by the claim token (the number of the claim).
Complete ==
    /\ At("complete")
    /\ LET c == cur.req
           ok == /\ log[c] # None /\ log[c].status = "in_progress"
                 /\ log[c].tries = cur.tok IN
       \E r \in Replies("complete") :
          /\ Count(r)
          /\ IF r.done /\ ok
             THEN /\ log' = [log EXCEPT ![c].status = "done", ![c].res = out]
                  /\ idem' = Mirror(KeyOf(c), "done", out)
             ELSE UNCHANGED <<log, idem>>
          /\ Done("next")
    /\ UNCHANGED <<doc, applied, node, ask, poll, process, batch, prev>>

\* What a listing of stale commands may hold.
Listings ==
    LET stale == {c \in Calls : Stale(c)} IN
    IF Cardinality(stale) <= MaxStale THEN {stale}
    ELSE {s \in SUBSET stale : Cardinality(s) = MaxStale}

\* list_stale_commands: some of what earlier incarnations left unfinished, as many
\* as fit, in the order of a hash map.
ListStale ==
    /\ At("list")
    /\ \E r \in Replies("list"), s \in Listings :
          /\ Count(r)
          /\ batch' = IF r.seen THEN {[req |-> c, tok |-> 0] : c \in s} ELSE {}
          /\ pc' = IF r.seen THEN "stale" ELSE "tick"
    /\ UNCHANGED <<backend, node, ask, poll, process, cur, prev, out>>

\* stale_*_result: the stored result, or "superseded".  Operations that are not
\* versioned are passed over.  A failed load leaves the command to a later tick;
\* a failed lookup in the journal counts as not applied.
StaleResult ==
    /\ At("stale")
    /\ \/ batch = {} /\ pc' = "tick" /\ UNCHANGED <<batch, cur, out, faults>>
       \/ \E b \in batch :
             LET c == b.req
                 d == Command(c).doc IN
             /\ batch' = batch \ {b}
             /\ \/ ~Versioned(c) /\ UNCHANGED <<pc, cur, out, faults>>
                \/ /\ Versioned(c)
                   /\ \/ \E r \in Replies("stale_state") :
                            ~r.seen /\ Count(r) /\ UNCHANGED <<pc, cur, out>>
                      \/ /\ LastIs(c) /\ out' = doc[d].lastRes
                         /\ cur' = b /\ pc' = "finalize" /\ UNCHANGED faults
                      \/ /\ ~LastIs(c)
                         /\ \E r \in Replies("stale_lookup") :
                               /\ Count(r)
                               /\ out' = IF r.seen /\ Journaled(c)
                                         THEN idem[KeyOf(c)].res
                                         ELSE Result("superseded", Current(d).ver)
                         /\ cur' = b /\ pc' = "finalize"
    /\ UNCHANGED <<backend, node, ask, poll, process, prev>>

\* finalize_stale_command.
Finalize ==
    /\ At("finalize")
    /\ LET c == cur.req IN
       \E r \in Replies("finalize") :
          /\ Count(r)
          /\ IF r.done /\ Stale(c)
             THEN /\ log' = [log EXCEPT ![c].status = "done", ![c].res = out]
                  /\ idem' = Mirror(KeyOf(c), "done", out)
             ELSE UNCHANGED <<log, idem>>
          /\ Done("stale")
    /\ UNCHANGED <<doc, applied, node, ask, poll, process, batch, prev>>

Step ==
    \/ Claim \/ NextCommand \/ Replay \/ Load \/ Lookup \/ Prepare \/ Confirm
    \/ Rollback \/ Record \/ ReadBack \/ Complete
    \/ ListStale \/ StaleResult \/ Finalize \/ Shutdown

Next ==
    \/ Step
    \/ Restart \/ RestoreFails \/ Heartbeat \/ Crash
    \/ \E c \in Calls : Enqueue(c) \/ CollectRow(c) \/ LeaseExpires(c)
    \/ \E k \in Keys : CollectKey(k)

Spec == Init /\ [][Next]_vars

\* The process is restarted by its supervisor, the loop ticks every second, leases
\* run out by the clock, the heartbeat is periodic.  Callers promise nothing.
Fairness ==
    /\ WF_vars(Step) /\ WF_vars(Restart)
    /\ \A c \in Calls : WF_vars(LeaseExpires(c))

FairSpec == Spec /\ Fairness

----------------------------------------------------------------------------
(* Properties *)

TypeOK ==
    /\ inc \in 0 .. MaxInc /\ adv \in 0 .. inc /\ up \in BOOLEAN
    /\ faults \in 0 .. MaxFaults
    /\ draining \in BOOLEAN /\ stopping \in BOOLEAN
    /\ \A c \in Calls : log[c] # None =>
          /\ log[c].inc \in 1 .. inc /\ log[c].tries \in 0 .. MaxAttempts
          /\ log[c].status \in {"pending", "in_progress", "done", "failed"}
          /\ Terminal(log[c]) <=> log[c].res # None
    /\ \A k \in Keys : idem[k] # None =>
          /\ KeyOf(idem[k].req) = k
          /\ idem[k].final \in {"", "done", "failed"}
          /\ idem[k].final = "" <=> idem[k].res = None
    /\ \A d \in Docs : doc[d] # None =>
          doc[d].ov \in Nat /\ doc[d].dv \in {doc[d].ov, doc[d].ov + 1}

\* Whenever the waiting call polls, what it is told is what happened: "applied" for
\* an operation that took effect once, another typed outcome for one that did not
\* and, as the answer stays, never will (enqueue_command_and_await).
AnswerTruthful ==
    \A c \in Calls :
        Answer(c) # None /\ Versioned(c) /\ Answer(c).st # "error"
        => applied[poll[c]] = IF Answer(c).st = "applied" THEN 1 ELSE 0

\* Outside the window between publishing a change and its confirmation, a running
\* node runs with the snapshot its durable state calls observed
\* (apply_update_config_inner, restore).
RunningIsObserved ==
    up /\ pc # "confirm" =>
        \A d \in Docs : doc[d] # None =>
            ram[d] = [ver |-> doc[d].ov, val |-> doc[d].oval]

\* The command log and the desired state implement the contract.
Fate(k) ==
    CASE idem[k] = None -> "new"
      [] idem[k] # None /\ idem[k].final = "" -> "open"
      [] OTHER -> idem[k].res.st

Contract == INSTANCE CommandContract WITH
    Documents <- Docs,
    fate <- [k \in Keys |-> Fate(k)],
    version <- [d \in Docs |-> IF doc[d] = None THEN 0 ELSE doc[d].ov]

\* Every step of the management plane is a step of the contract or none: the
\* journaled outcome of a key is decided once, and the observed version moves
\* together with the outcome "applied" (journal_applied_outcome, memory.rs).
OneFate == Contract!Spec

Unfinished(c) == log[c] # None /\ ~Terminal(log[c])
Gone == ~up /\ inc = MaxInc   \* bound: no restart is left

\* Stale commands that the sweep passes over and that nothing ever finishes fill
\* every listing.
Crowded == Cardinality({c \in Calls : Stale(c) /\ ~Versioned(c)}) >= MaxStale

\* Every accepted versioned command reaches a terminal state, across lost replies,
\* crashes and restarts (claim_commands, sweep_stale_commands), unless stale commands
\* of other kinds crowd it out of the listing.
VersionedEnds ==
    \A c \in Calls :
        Unfinished(c) /\ Versioned(c) ~> ~Unfinished(c) \/ Crowded \/ Gone

\* The same for every operation: "no stuck in_progress" of
\* docs/command-log-lease.md.
CommandsEnd == \A c \in Calls : Unfinished(c) ~> ~Unfinished(c) \/ Gone
==============================================================================
