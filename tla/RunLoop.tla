------------------------------ MODULE RunLoop ------------------------------
(***************************************************************************)
(* The daemon's run loop (src/run_loop.rs) against the broker that feeds   *)
(* it. The broker inserts rows into satan_outcome_inbox and notifies; the  *)
(* daemon LISTENs, drains the backlog, then serves notifications one at a  *)
(* time. Every SQL statement the loop awaits is a step of its own, so that *)
(* the broker, a failing statement or a crash can fall between any two.    *)
(*                                                                         *)
(* pc names the statement the loop will execute next:                      *)
(*   down          no daemon process                                       *)
(*   listening     LISTEN issued, backlog not read yet                     *)
(*   next          between two rows (phase says which loop it is in)       *)
(*   claim .. delete              process_outcome_row(cur)                 *)
(*   reply_select, reply_delete   process_reply_row(cur)                   *)
(***************************************************************************)
EXTENDS Store, Counters

CONSTANTS
  Payloads,     \* the source events the broker may enqueue
  MaxRows,      \* bound: rows the broker inserts into satan_outcome_inbox
  MaxRejects,   \* bound: audit events the broker rejects
  MaxStrays,    \* bound: duplicated or meaningless notifications
  MaxLost       \* bound: notifications lost while a listener reconnects

Ids == 1..MaxRows
NoId == 0       \* "no row", and a notify payload that does not parse

PAYLOAD_SCHEMA_MAJOR == 1

Payload ==
  [schema_major: Nat, source: {"outcome", "hippocampus", "sensor", "unknown"},
   wellformed: BOOLEAN,       \* all required fields present and of their type
   run_id: RunIds, ts: Nat, reason: Reason, confidence: Confidence,
   intervention_id: Nat, is_revision: BOOLEAN, revises: BOOLEAN, enabled: BOOLEAN]

ASSUME RunLoopAssumption ==
  /\ MaxRows \in Nat /\ MaxRejects \in Nat /\ MaxStrays \in Nat /\ MaxLost \in Nat
  /\ Payloads \subseteq Payload
  /\ \A p \in Payloads : p.source = "outcome" <=> p.intervention_id # NoIntervention

VARIABLES
  inbox,          \* satan_outcome_inbox: the state of each id's row
  payload,        \* its payload_json
  next_id,        \* its SERIAL
  unnotified,     \* rows inserted whose NOTIFY the broker has yet to send
  replies,        \* satan_audit_replies: inbox ids
  outcome_queue,  \* notifications buffered by outcome_listener
  reply_queue,    \* notifications buffered by reply_listener
  pc, phase,      \* where run() is
  todo,           \* ids of the backlog still to process
  cur,            \* argument of process_outcome_row / process_reply_row
  projection,     \* local: what read_projection returned
  pending,        \* local: events not yet completely written
  counters,       \* self.counters
  rejected,       \* audit rows the broker has rejected
  strays, lost,   \* what the bounds count
  missed,         \* history: unclaimed rows whose wake-up was wasted
  written         \* history: (name, seq) of the events inserted for each row

brokerVars == <<inbox, payload, next_id, unnotified, replies>>
queueVars  == <<outcome_queue, reply_queue>>
localVars  == <<todo, cur, projection, pending>>
procVars   == <<pc, phase, localVars, counters>>
boundVars  == <<rejected, strays, lost, faults, crashes>>
histVars   == <<missed, written>>
vars == <<storeVars, brokerVars, queueVars, procVars, boundVars, histVars>>

NoEvents == [n \in {} |-> 0]
NoProjection == [n \in Attrs |-> 0]

Statements == {"claim", "read", "prior", "insert", "upsert", "audit",
               "audit_notify", "delete", "reply_select", "reply_delete"}
RowSteps == Statements \ {"reply_select", "reply_delete"}

Claimed == RowSteps \ {"claim"}                  \* the loop owns row cur
Writing == {"insert", "upsert", "audit", "audit_notify"}

\* The event the write loop is at.
first(n) == n \in DOMAIN pending /\ \A m \in DOMAIN pending : n <= m

BrokerTypeOK ==
  /\ inbox \in [Ids -> {"none", "queued", "claimed", "deleted"}]
  /\ payload \in [Ids -> Payload \cup {<<>>}]
  /\ next_id \in 1..(MaxRows + 1)
  /\ \A id \in Ids : IF id < next_id THEN inbox[id] # "none" /\ payload[id] \in Payload
                                     ELSE inbox[id] = "none"
  /\ unnotified \subseteq Ids
  /\ replies \subseteq Nat
  /\ outcome_queue \in Seq(Ids \cup {NoId})
  /\ reply_queue \in Seq(Nat)
  /\ rejected \subseteq Nat /\ strays \in Nat /\ lost \in Nat
  /\ missed \subseteq Ids
  /\ written \in [Ids -> SUBSET (Attrs \X Nat)]

ProcessTypeOK ==
  /\ pc \in {"down", "listening", "next"} \cup Statements
  /\ phase \in {"drain_outcomes", "drain_replies", "serve"}
  /\ todo \subseteq Nat
  /\ phase = "drain_outcomes" => todo \subseteq Ids
  /\ cur \in Nat
  /\ pc = "claim" => cur \in Ids
  /\ pc \in Claimed => cur \in Ids /\ inbox[cur] = "claimed"
  /\ pc \in {"read", "prior"} => payload[cur].source # "unknown"
  /\ projection \in [Attrs -> Value]
  /\ CountersTypeOK(counters)

\* An event is of type Event once insert_event has validated it.
PendingTypeOK ==
  /\ DOMAIN pending \subseteq Attrs
  /\ pc \in Writing <=> DOMAIN pending # {}
  /\ \A n \in DOMAIN pending :
       /\ pending[n].name = n
       /\ validate(pending[n]) => pending[n] \in Event
  /\ pc \in Writing \ {"insert"} =>
       \A n \in DOMAIN pending : first(n) => pending[n] \in events

(***************************************************************************)
(* The type invariant. Beyond types it ties the row the loop works on to   *)
(* the state of that row (process_outcome_row claims before it reads) and  *)
(* the event being written to the log (insert_event comes first).          *)
(***************************************************************************)
LoopTypeOK == StoreTypeOK /\ BrokerTypeOK /\ ProcessTypeOK /\ PendingTypeOK

LoopInit ==
  /\ StoreInit
  /\ inbox = [id \in Ids |-> "none"]
  /\ payload = [id \in Ids |-> <<>>]
  /\ next_id = 1
  /\ unnotified = {}
  /\ replies = {}
  /\ outcome_queue = <<>> /\ reply_queue = <<>>
  /\ pc = "down" /\ phase = "drain_outcomes"
  /\ todo = {} /\ cur = NoId
  /\ projection = NoProjection /\ pending = NoEvents
  /\ counters = EmptyCounters
  /\ rejected = {} /\ strays = 0 /\ lost = 0
  /\ missed = {}
  /\ written = [id \in Ids |-> {}]

-----------------------------------------------------------------------------
(***************************************************************************)
(* The environment: the broker, the listeners' connections, time.          *)
(***************************************************************************)

\* The broker classifies an intervention once and revises it afterwards.
classified(iv) ==
  \E id \in Ids : /\ id < next_id
                  /\ payload[id].source = "outcome"
                  /\ payload[id].intervention_id = iv

BrokerInsert(p) ==
  /\ next_id \in Ids
  /\ p.source = "outcome" => (p.is_revision <=> classified(p.intervention_id))
  /\ inbox' = [inbox EXCEPT ![next_id] = "queued"]
  /\ payload' = [payload EXCEPT ![next_id] = [p EXCEPT !.ts = clock]]
  /\ next_id' = next_id + 1
  /\ unnotified' = unnotified \cup {next_id}
  /\ UNCHANGED <<storeVars, replies, queueVars, procVars, boundVars, histVars>>

\* The broker is one sequential process: it notifies in the order of its INSERTs.
next_notify(id) == id \in unnotified /\ \A other \in unnotified : id <= other

\* A notification reaches only a listener that is connected when it is sent.
BrokerNotify(id) ==
  /\ next_notify(id)
  /\ unnotified' = unnotified \ {id}
  /\ outcome_queue' = IF pc = "down" THEN outcome_queue ELSE Append(outcome_queue, id)
  /\ UNCHANGED <<storeVars, inbox, payload, next_id, replies, reply_queue,
                 procVars, boundVars, histVars>>

\* PgListener reconnects by itself; what is sent meanwhile is lost.
NotifyLost(id) ==
  /\ next_notify(id)
  /\ pc # "down"
  /\ lost < MaxLost
  /\ lost' = lost + 1
  /\ unnotified' = unnotified \ {id}
  /\ missed' = missed \cup {id}
  /\ UNCHANGED <<storeVars, inbox, payload, next_id, replies, queueVars,
                 procVars, rejected, strays, faults, crashes, written>>

StrayNotify(x) ==
  /\ pc # "down"
  /\ strays < MaxStrays
  /\ strays' = strays + 1
  /\ \/ outcome_queue' = Append(outcome_queue, x) /\ UNCHANGED reply_queue
     \/ reply_queue' = Append(reply_queue, NoId) /\ UNCHANGED outcome_queue
  /\ UNCHANGED <<storeVars, brokerVars, procVars, rejected, lost, faults,
                 crashes, histVars>>

BrokerReject(a) ==
  /\ a \in DOMAIN audit_inbox \ rejected
  /\ Cardinality(rejected) < MaxRejects
  /\ rejected' = rejected \cup {a}
  /\ replies' = replies \cup {a}
  /\ reply_queue' = IF pc = "down" THEN reply_queue ELSE Append(reply_queue, a)
  /\ UNCHANGED <<storeVars, inbox, payload, next_id, unnotified, outcome_queue,
                 procVars, strays, lost, faults, crashes, histVars>>

TimePasses ==
  /\ clock < MaxClock
  /\ clock' = clock + 1
  /\ UNCHANGED <<attributes, events, audit_inbox, brokerVars, queueVars,
                 procVars, boundVars, histVars>>

-----------------------------------------------------------------------------
(***************************************************************************)
(* run(): LISTEN first, then the backlog, then the select! loop.           *)
(***************************************************************************)
Start ==
  /\ pc = "down"
  /\ pc' = "listening"
  /\ UNCHANGED <<storeVars, brokerVars, queueVars, phase, localVars, counters,
                 boundVars, histVars>>

\* Mutant: the loop relies on notifications alone.
skip_outcome_backlog ==
  /\ pc = "listening"
  /\ todo' = {}
  /\ phase' = "drain_outcomes"
  /\ pc' = "next"
  /\ missed' = {}
  /\ UNCHANGED <<storeVars, brokerVars, queueVars, cur, projection, pending,
                 counters, boundVars, written>>

drain_outcome_inbox ==
  /\ pc = "listening"
  /\ todo' = {id \in Ids : inbox[id] = "queued"}
  /\ phase' = "drain_outcomes"
  /\ pc' = "next"
  /\ missed' = {}
  /\ UNCHANGED <<storeVars, brokerVars, queueVars, cur, projection, pending,
                 counters, boundVars, written>>

\* Mutant: so for the replies.
skip_reply_backlog ==
  /\ pc = "next" /\ phase = "drain_outcomes" /\ todo = {}
  /\ phase' = "drain_replies"
  /\ UNCHANGED <<storeVars, brokerVars, queueVars, pc, localVars,
                 counters, boundVars, histVars>>

drain_audit_replies ==
  /\ pc = "next" /\ phase = "drain_outcomes" /\ todo = {}
  /\ todo' = replies
  /\ phase' = "drain_replies"
  /\ UNCHANGED <<storeVars, brokerVars, queueVars, pc, cur, projection, pending,
                 counters, boundVars, histVars>>

EnterServe ==
  /\ pc = "next" /\ phase = "drain_replies" /\ todo = {}
  /\ phase' = "serve"
  /\ UNCHANGED <<storeVars, brokerVars, queueVars, pc, localVars, counters,
                 boundVars, histVars>>

\* ORDER BY id: both backlogs are walked in ascending order.
DrainNext ==
  /\ pc = "next" /\ phase # "serve"
  /\ \E id \in todo :
       /\ \A other \in todo : id <= other
       /\ todo' = todo \ {id}
       /\ cur' = id
  /\ pc' = IF phase = "drain_outcomes" THEN "claim" ELSE "reply_select"
  /\ UNCHANGED <<storeVars, brokerVars, queueVars, phase, projection, pending,
                 counters, boundVars, histVars>>

\* Mutant: a payload that does not parse is taken for an id.
handle_any_notify ==
  /\ pc = "next" /\ phase = "serve"
  /\ outcome_queue # <<>>
  /\ outcome_queue' = Tail(outcome_queue)
  /\ cur' = Head(outcome_queue)
  /\ pc' = "claim"
  /\ UNCHANGED <<storeVars, brokerVars, reply_queue, phase, todo, projection,
                 pending, counters, boundVars, histVars>>

\* A payload that does not parse as an id is logged and dropped.
handle_outcome_notify ==
  /\ pc = "next" /\ phase = "serve"
  /\ outcome_queue # <<>>
  /\ outcome_queue' = Tail(outcome_queue)
  /\ cur' = Head(outcome_queue)
  /\ pc' = IF cur' = NoId THEN "next" ELSE "claim"
  /\ UNCHANGED <<storeVars, brokerVars, reply_queue, phase, todo, projection,
                 pending, counters, boundVars, histVars>>

handle_reply_notify ==
  /\ pc = "next" /\ phase = "serve"
  /\ reply_queue # <<>>
  /\ reply_queue' = Tail(reply_queue)
  /\ cur' = Head(reply_queue)
  /\ pc' = IF cur' = NoId THEN "next" ELSE "reply_select"
  /\ UNCHANGED <<storeVars, brokerVars, outcome_queue, phase, todo, projection,
                 pending, counters, boundVars, histVars>>

-----------------------------------------------------------------------------
(***************************************************************************)
(* process_outcome_row(cur)                                                *)
(***************************************************************************)

\* The handler returns, with Ok or with an error that the caller only logs.
Return ==
  /\ pc' = "next"
  /\ cur' = NoId
  /\ projection' = NoProjection
  /\ pending' = NoEvents
  /\ UNCHANGED <<phase, todo>>

check_schema_major(p) == p.schema_major = PAYLOAD_SCHEMA_MAJOR

parse_inbox_payload(p) ==
  /\ p.wellformed
  /\ p.source # "unknown"
  /\ p.source = "outcome" /\ p.is_revision => p.revises

\* Mutant: the claim has no "AND claimed_at IS NULL".
ClaimAgain ==
  /\ pc = "claim"
  /\ inbox[cur] \in {"queued", "claimed"}
  /\ inbox' = [inbox EXCEPT ![cur] = "claimed"]
  /\ pc' = IF check_schema_major(payload[cur]) /\ parse_inbox_payload(payload[cur])
           THEN "read" ELSE "delete"
  /\ UNCHANGED <<storeVars, payload, next_id, unnotified, replies, queueVars,
                 phase, localVars, counters, boundVars, histVars>>

\* Mutant: a payload that does not parse is an error of the handler.
ClaimKeepsRejected ==
  /\ pc = "claim"
  /\ inbox[cur] = "queued"
  /\ inbox' = [inbox EXCEPT ![cur] = "claimed"]
  /\ pc' = IF check_schema_major(payload[cur]) /\ parse_inbox_payload(payload[cur])
           THEN "read" ELSE "next"
  /\ UNCHANGED <<storeVars, payload, next_id, unnotified, replies, queueVars,
                 phase, localVars, counters, boundVars, histVars>>

Claim ==
  /\ pc = "claim"
  /\ inbox[cur] = "queued"
  /\ inbox' = [inbox EXCEPT ![cur] = "claimed"]
  /\ pc' = IF check_schema_major(payload[cur]) /\ parse_inbox_payload(payload[cur])
           THEN "read" ELSE "delete"
  /\ UNCHANGED <<storeVars, payload, next_id, unnotified, replies, queueVars,
                 phase, localVars, counters, boundVars, histVars>>

\* The row is claimed or gone already: return Ok(()).
ClaimMisses ==
  /\ pc = "claim"
  /\ inbox[cur] # "queued"
  /\ Return
  /\ UNCHANGED <<storeVars, brokerVars, queueVars, counters, boundVars, histVars>>

\* The events are built and their seqs taken; the write loop begins.
Dispatch(evs) ==
  /\ pending' = evs
  /\ counters' = get_or_create(counters, payload[cur].run_id, Cardinality(DOMAIN evs))
  /\ pc' = IF DOMAIN evs = {} THEN "delete" ELSE "insert"

dispatch(p, counter, proj) ==
  CASE p.source = "outcome"     -> dispatch_outcome(p, counter, proj)
    [] p.source = "hippocampus" -> dispatch_hippocampus(p, counter, proj)
    [] OTHER                    -> dispatch_sensor(p, counter, proj)

is_revision(p) == p.source = "outcome" /\ p.is_revision

\* Mutant: the projection is not read again for every row.
DispatchStale ==
  /\ pc = "read"
  /\ ~is_revision(payload[cur])
  /\ LET p == payload[cur]
     IN Dispatch(dispatch(p, peek(counters, p.run_id), projection))
  /\ UNCHANGED <<storeVars, brokerVars, queueVars, phase, todo, cur, projection,
                 boundVars, histVars>>

\* read_projection, and for a first emission the dispatch, which awaits nothing.
ReadAndDispatch ==
  /\ pc = "read"
  /\ ~is_revision(payload[cur])
  /\ LET p == payload[cur]
     IN Dispatch(dispatch(p, peek(counters, p.run_id), attributes))
  /\ UNCHANGED <<storeVars, brokerVars, queueVars, phase, todo, cur, projection,
                 boundVars, histVars>>

ReadForRevision ==
  /\ pc = "read"
  /\ is_revision(payload[cur])
  /\ projection' = attributes
  /\ pc' = "prior"
  /\ UNCHANGED <<storeVars, brokerVars, queueVars, phase, todo, cur, pending,
                 counters, boundVars, histVars>>

\* The rows derive_prior_classification selects from, disabled ones included.
prior_rows(iv) == {e \in events : e.intervention_id = iv}

derive_prior_classification(iv) == latest(prior_rows(iv)).reason

\* The lookups of build_revision_events read only this intervention's rows,
\* which nobody but the run loop writes: they are one step.
build_revision_events ==
  /\ pc = "prior"
  /\ prior_rows(payload[cur].intervention_id) # {}
  /\ LET p == payload[cur]
     IN Dispatch(dispatch_revision(p, peek(counters, p.run_id), projection,
                                   derive_prior_classification(p.intervention_id),
                                   gather_prior_actuals(p.intervention_id)))
  /\ projection' = NoProjection
  /\ UNCHANGED <<storeVars, brokerVars, queueVars, phase, todo, cur,
                 boundVars, histVars>>

\* "revision but no prior attribute events": the row stays claimed.
RevisionWithoutPrior ==
  /\ pc = "prior"
  /\ prior_rows(payload[cur].intervention_id) = {}
  /\ Return
  /\ UNCHANGED <<storeVars, brokerVars, queueVars, counters, boundVars, histVars>>

\* Mutant: `continue` on a disabled event skips its audit row.
InsertWithoutAudit ==
  /\ pc = "insert"
  /\ \E n \in DOMAIN pending :
       /\ first(n)
       /\ insert_accepts(pending[n])
       /\ insert_event(pending[n])
       /\ written' = [written EXCEPT ![cur] = @ \cup {<<n, pending[n].seq>>}]
       /\ pc' = IF pending[n].disabled THEN "audit_notify" ELSE "upsert"
  /\ UNCHANGED <<clock, attributes, audit_inbox, brokerVars, queueVars, phase,
                 localVars, counters, boundVars, missed>>

\* Mutant: a disabled event is applied to the projection.
InsertIgnoresSwitch ==
  /\ pc = "insert"
  /\ \E n \in DOMAIN pending :
       /\ first(n)
       /\ insert_accepts(pending[n])
       /\ insert_event(pending[n])
       /\ written' = [written EXCEPT ![cur] = @ \cup {<<n, pending[n].seq>>}]
       /\ pc' = "upsert"
  /\ UNCHANGED <<clock, attributes, audit_inbox, brokerVars, queueVars, phase,
                 localVars, counters, boundVars, missed>>

InsertEvent ==
  /\ pc = "insert"
  /\ \E n \in DOMAIN pending :
       /\ first(n)
       /\ insert_accepts(pending[n])
       /\ insert_event(pending[n])
       /\ written' = [written EXCEPT ![cur] = @ \cup {<<n, pending[n].seq>>}]
       /\ pc' = IF pending[n].disabled THEN "audit" ELSE "upsert"
  /\ UNCHANGED <<clock, attributes, audit_inbox, brokerVars, queueVars, phase,
                 localVars, counters, boundVars, missed>>

\* Out of range, or a seq that is already in the log: the row stays claimed.
InsertRefused ==
  /\ pc = "insert"
  /\ \E n \in DOMAIN pending : first(n) /\ ~insert_accepts(pending[n])
  /\ Return
  /\ UNCHANGED <<storeVars, brokerVars, queueVars, counters, boundVars, histVars>>

UpsertAttribute ==
  /\ pc = "upsert"
  /\ \E n \in DOMAIN pending : first(n) /\ upsert_attribute(pending[n])
  /\ pc' = "audit"
  /\ UNCHANGED <<clock, events, audit_inbox, brokerVars, queueVars, phase,
                 localVars, counters, boundVars, histVars>>

EnqueueAudit ==
  /\ pc = "audit"
  /\ \E n \in DOMAIN pending : first(n) /\ enqueue_audit_event(pending[n])
  /\ pc' = "audit_notify"
  /\ UNCHANGED <<clock, attributes, events, brokerVars, queueVars, phase,
                 localVars, counters, boundVars, histVars>>

\* Mutant: the write loop ends after its first event.
NotifyAuditEndsLoop ==
  /\ pc = "audit_notify"
  /\ pending' = NoEvents
  /\ pc' = "delete"
  /\ UNCHANGED <<storeVars, brokerVars, queueVars, phase, todo, cur, projection,
                 counters, boundVars, histVars>>

\* pg_notify(satan_audit_inbox), then the next event or the end of the loop.
NotifyAudit ==
  /\ pc = "audit_notify"
  /\ \E n \in DOMAIN pending :
       /\ first(n)
       /\ pending' = Restrict(pending, DOMAIN pending \ {n})
  /\ pc' = IF DOMAIN pending' = {} THEN "delete" ELSE "insert"
  /\ UNCHANGED <<storeVars, brokerVars, queueVars, phase, todo, cur, projection,
                 counters, boundVars, histVars>>

delete_outcome_row ==
  /\ pc = "delete"
  /\ inbox' = [inbox EXCEPT ![cur] = "deleted"]
  /\ Return
  /\ UNCHANGED <<storeVars, payload, next_id, unnotified, replies, queueVars,
                 counters, boundVars, histVars>>

-----------------------------------------------------------------------------
(***************************************************************************)
(* process_reply_row(cur): log and drop.                                   *)
(***************************************************************************)
SelectReply ==
  /\ pc = "reply_select"
  /\ \/ cur \in replies /\ pc' = "reply_delete"
        /\ UNCHANGED <<phase, localVars>>
     \/ cur \notin replies /\ Return
  /\ UNCHANGED <<storeVars, brokerVars, queueVars, counters, boundVars, histVars>>

DeleteReply ==
  /\ pc = "reply_delete"
  /\ replies' = replies \ {cur}
  /\ Return
  /\ UNCHANGED <<storeVars, inbox, payload, next_id, unnotified, queueVars,
                 counters, boundVars, histVars>>

-----------------------------------------------------------------------------
(***************************************************************************)
(* Failures. A statement that fails makes the handler return its error;    *)
(* one that took effect and then reported an error is the success followed *)
(* by the failure of the next. A fatal error of run() itself (LISTEN,      *)
(* drain SELECT, listener) ends the process, like a crash.                 *)
(***************************************************************************)
StatementFails ==
  /\ pc \in Statements
  /\ faults < MaxFaults
  /\ faults' = faults + 1
  /\ missed' = IF pc = "claim" /\ inbox[cur] = "queued" THEN missed \cup {cur} ELSE missed
  /\ Return
  /\ UNCHANGED <<storeVars, brokerVars, queueVars, counters,
                 rejected, strays, lost, crashes, written>>

\* Everything the process holds in memory is gone, the listeners' buffers too.
LoopDies ==
  /\ pc # "down"
  /\ pc' = "down" /\ phase' = "drain_outcomes"
  /\ todo' = {} /\ cur' = NoId
  /\ projection' = NoProjection /\ pending' = NoEvents
  /\ counters' = EmptyCounters
  /\ outcome_queue' = <<>> /\ reply_queue' = <<>>

Crash ==
  /\ LoopDies
  /\ crashes < MaxCrashes
  /\ crashes' = crashes + 1
  /\ UNCHANGED <<storeVars, brokerVars, rejected, strays, lost, faults, histVars>>

-----------------------------------------------------------------------------
Broker ==
  \/ \E p \in Payloads : BrokerInsert(p)
  \/ \E id \in Ids : BrokerNotify(id)
  \/ \E a \in DOMAIN audit_inbox : BrokerReject(a)

Unreliable ==
  \/ \E id \in Ids : NotifyLost(id)
  \/ \E x \in Ids \cup {NoId} : StrayNotify(x)
  \/ StatementFails

\* The loop's own steps.
Loop ==
  \/ drain_outcome_inbox \/ drain_audit_replies \/ EnterServe \/ DrainNext
  \/ handle_outcome_notify \/ handle_reply_notify
  \/ Claim \/ ClaimMisses
  \/ ReadAndDispatch \/ ReadForRevision \/ build_revision_events \/ RevisionWithoutPrior
  \/ InsertEvent \/ InsertRefused \/ UpsertAttribute \/ EnqueueAudit \/ NotifyAudit
  \/ delete_outcome_row
  \/ SelectReply \/ DeleteReply

LoopNext == Broker \/ TimePasses \/ Unreliable \/ Crash \/ Start \/ Loop

(***************************************************************************)
(* Fairness: the loop keeps executing, systemd restarts it, and the broker *)
(* sends the NOTIFY that belongs to each INSERT.                           *)
(***************************************************************************)
LoopSpec == LoopInit /\ [][LoopNext]_vars

LoopFairSpec ==
  LoopSpec /\ WF_vars(Start \/ Loop) /\ \A id \in Ids : WF_vars(BrokerNotify(id))

-----------------------------------------------------------------------------
(***************************************************************************)
(* Properties                                                              *)
(***************************************************************************)

(***************************************************************************)
(* No wake-up is lost by the protocol itself: a row nobody has claimed is  *)
(* still going to be seen. Either start-up has yet to read the backlog, or *)
(* its NOTIFY is still to come, is buffered, or the row is in the backlog  *)
(* being drained, or it is about to be claimed. The exceptions are exactly *)
(* the rows whose wake-up was wasted by a reconnecting listener or by a    *)
(* claim statement that failed (run() issues LISTEN before the drain).     *)
(***************************************************************************)
UnclaimedRowIsCovered ==
  \A id \in Ids : inbox[id] = "queued" =>
    \/ pc \in {"down", "listening"}
    \/ id \in unnotified
    \/ id \in Range(outcome_queue)
    \/ phase = "drain_outcomes" /\ id \in todo
    \/ pc = "claim" /\ cur = id
    \/ id \in missed

(***************************************************************************)
(* The pre-dispatch snapshot is still the projection when it is used: from *)
(* read_projection to the UPSERT of each event, the attribute has the old  *)
(* value that its event records (run_loop.rs: "the pre-dispatch snapshot   *)
(* is naturally coherent without SELECT FOR UPDATE").                      *)
(***************************************************************************)
SnapshotCoherent ==
  /\ pc = "prior" => projection = attributes
  /\ \A n \in DOMAIN pending :
       \/ pending[n].old_value = attributes[n]
       \/ pc \in {"audit", "audit_notify"} /\ first(n)

(***************************************************************************)
(* A row is dispatched at most once, however often it is notified, drained *)
(* or interrupted: no attribute gets two events from the same row.         *)
(***************************************************************************)
DispatchedAtMostOnce ==
  \A id \in Ids : \A x, y \in written[id] : x[1] = y[1] => x = y

\* The row process_outcome_row has claimed, and the attributes whose events
\* it has still to insert.
working   == IF pc \in Claimed THEN cur ELSE NoId
to_insert == {n \in DOMAIN pending : pc = "insert" \/ ~first(n)}

\* The attributes each row has moved.
moved == [id \in Ids |-> {x[1] : x \in written[id]}]

Contract == INSTANCE Inbox WITH
  Row <- Ids, Attr <- Attrs, None <- NoId,
  row <- inbox, busy <- working, due <- to_insert, applied <- moved

(***************************************************************************)
(* The run loop implements the contract of the inbox: behind listeners,    *)
(* backlog, duplicated notifications, failing statements and restarts, a   *)
(* row is worked on alone and once, its events come in ATTR_ORDER, and it  *)
(* is deleted only after the last of them (migration 0008: the daemon      *)
(* "DELETEs after writing the satan_attribute_events row(s)").             *)
(***************************************************************************)
InboxContract == Contract!Spec

(***************************************************************************)
(* insert_event never refuses what the dispatcher hands it: the value is   *)
(* in range, and the seq the run's counter gave is not in the log yet.     *)
(***************************************************************************)
InsertIsAccepted ==
  pc = "insert" => \A n \in DOMAIN pending : insert_accepts(pending[n])

(***************************************************************************)
(* The audit inbox holds no event twice and none that is not in the log,   *)
(* and the log is ahead of it by no more than the event being written and  *)
(* one event per failed statement or crash.                                *)
(***************************************************************************)
AuditFollowsLog ==
  /\ IsInjective(audit_inbox)
  /\ Range(audit_inbox) \subseteq {event_id(e) : e \in events}
  /\ Cardinality(events) - Len(audit_inbox)
       <= faults + crashes + (IF pc \in {"upsert", "audit"} THEN 1 ELSE 0)

\* What the enabled events of the log add up to.
net_delta(n) == MapThenSumSet(delta, {e \in events : e.name = n /\ ~e.disabled})

(***************************************************************************)
(* The projection is the sum of the logged deltas, except for the event    *)
(* between its INSERT and its UPSERT and one attribute per failure.        *)
(***************************************************************************)
DriftOnlyByFailure ==
  Cardinality({n \in Attrs : attributes[n] # net_delta(n)})
    <= faults + crashes + (IF pc = "upsert" THEN 1 ELSE 0)

\* A claimed row that nobody is working on: no drain will ever select it again.
Stranded(id) == inbox[id] = "claimed" /\ ~(cur = id /\ pc \in RowSteps)

(***************************************************************************)
(* A stranded row was abandoned by a failed statement or a crash, at most  *)
(* one row by each of them: process_outcome_row has no other way to leave  *)
(* a row it claimed without deleting it.                                   *)
(***************************************************************************)
StrandedOnlyByFailure ==
  Cardinality({id \in Ids : Stranded(id)}) <= faults + crashes

\* A revision that has written nothing, as one must that finds no prior event.
Unfounded(id) == is_revision(payload[id]) /\ written[id] = {}

(***************************************************************************)
(* The same while the process lives, revisions without a prior event left  *)
(* aside: insert_event refuses nothing, whichever runs the rows belong to  *)
(* and wherever an earlier row was abandoned half written.                 *)
(***************************************************************************)
FailureStrandsOneRow ==
  crashes = 0 => Cardinality({id \in Ids : Stranded(id) /\ ~Unfounded(id)}) <= faults

\* Events of two runs with the same timestamp, whose replay order is that of
\* their run ids.
Tied(rows) == \E e, f \in rows : e.ts = f.ts /\ e.run_id # f.run_id

\* The first process, woken by the broker's own notifications only.
Undisturbed == crashes = 0 /\ strays = 0

(***************************************************************************)
(* Whenever no event is half written, rebuilding the projection from the   *)
(* log yields the projection, as long as nothing has failed, rows are      *)
(* applied in the order the broker inserted them (a stray notification or  *)
(* a restart changes it, a lost notification does not) and no two runs     *)
(* wrote within one tick of the clock (store.rs: "the projection must be   *)
(* derivable from the event log alone").                                   *)
(***************************************************************************)
ReplayIsProjection ==
  pc # "upsert" /\ Undisturbed /\ faults = 0 /\ ~Tied(events)
    => rebuild_projection(FALSE) = attributes

\* The rows of an intervention that have been claimed and accepted.
outcome_rows(iv) ==
  {id \in Ids : /\ inbox[id] \in {"claimed", "deleted"}
                /\ check_schema_major(payload[id]) /\ parse_inbox_payload(payload[id])
                /\ payload[id].source = "outcome"
                /\ payload[id].intervention_id = iv}

\* The intervention's logged deltas add up to what row id's classification
\* alone would have caused, wherever no cap interfered.
Superseded(id) ==
  LET p == payload[id]
      row == outcome_base_deltas(p.reason)
      net == gather_prior_actuals(p.intervention_id)
  IN \A n \in Attrs :
       \/ net[n] = weight_delta(row[n], p.confidence)
       \/ \E e \in lookup_prior_events_by_intervention(p.intervention_id, n) :
            e.caps_applied # {}

(***************************************************************************)
(* A revision supersedes: once the last classification of an intervention  *)
(* has been dispatched, nothing is left of the earlier ones, for every     *)
(* attribute that no cap interfered with (build_revision_events aims at    *)
(* the new row relative to the actual prior deltas). It is void where a    *)
(* row was abandoned half written, which is taken for a classification     *)
(* that was applied; where a row came late, its claim having failed, its   *)
(* notification been overtaken or the process restarted; and where rows of *)
(* two runs bear one timestamp, whose run ids then decide which is last.   *)
(***************************************************************************)
RevisionSupersedes ==
  Undisturbed =>
    \A id \in Ids :
      LET iv   == payload[id].intervention_id
          rows == outcome_rows(iv)
      IN /\ inbox[id] = "deleted" /\ id \in rows /\ ~Tied(prior_rows(iv))
         /\ \A other \in rows :
              /\ other <= id /\ payload[other].enabled
              /\ other \notin missed /\ inbox[other] = "deleted"
         => Superseded(id)

(***************************************************************************)
(* The same with the updates switch: only the last classification has to   *)
(* be enabled. dispatcher.rs says of disabled rows that they "must not     *)
(* affect the revision arithmetic".                                        *)
(***************************************************************************)
RevisionIgnoresDisabled ==
  \A id \in Ids :
    /\ inbox[id] = "deleted" /\ payload[id].enabled
    /\ id \in outcome_rows(payload[id].intervention_id)
    /\ \A other \in outcome_rows(payload[id].intervention_id) : other <= id
    => Superseded(id)

(***************************************************************************)
(* Friction never leaves zero and its cap never fires: outcomes only lower *)
(* friction, and a revision can only give back what was actually taken     *)
(* (HANDOVER.md of a positive friction delta: "no v1 outcome can produce   *)
(* one").                                                                  *)
(***************************************************************************)
FrictionStaysZero ==
  /\ attributes[friction] = 0
  /\ \A e \in events : "friction_cap" \notin e.caps_applied

(***************************************************************************)
(* A seq given to an event is above every seq its run has in the log       *)
(* (store.rs: "Monotonic seq counter scoped to a single SATAN run").       *)
(***************************************************************************)
SeqMonotone ==
  [][\A e \in events' \ events : \A f \in events :
       f.run_id = e.run_id => f.seq < e.seq]_vars

(***************************************************************************)
(* Every row is eventually claimed, across a crash and a restart.          *)
(***************************************************************************)
EveryRowIsClaimed ==
  \A id \in Ids : inbox[id] = "queued" ~> inbox[id] # "queued"

(***************************************************************************)
(* As long as the daemon does not crash, every row is eventually deleted   *)
(* (migration 0008: the daemon "DELETEs after writing the                  *)
(* satan_attribute_events row(s)").                                        *)
(***************************************************************************)
EveryRowIsDeleted ==
  \A id \in Ids : inbox[id] = "queued" ~> (inbox[id] = "deleted" \/ crashes > 0)

(***************************************************************************)
(* Every reject reply is eventually consumed, even one that arrives while  *)
(* the daemon is down.                                                     *)
(***************************************************************************)
EveryReplyIsDropped ==
  replies # {} ~> replies = {}
=============================================================================
