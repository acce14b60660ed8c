--------------------------- MODULE RunLoopProofs ---------------------------
(***************************************************************************)
(* Theorems about the run loop, for every number of rows, every set of     *)
(* payloads, every LRU capacity and any number of crashes, failing         *)
(* statements, lost and stray notifications.                               *)
(***************************************************************************)
EXTENDS RunLoop, FiniteSetTheorems, SequenceTheorems, TLAPS

-----------------------------------------------------------------------------
(***************************************************************************)
(* Notification queues.                                                    *)
(***************************************************************************)

\* What is buffered after one more notification has arrived.
LEMMA RangeAppend ==
  ASSUME NEW S, NEW s \in Seq(S), NEW e \in S
  PROVE  Append(s, e) \in Seq(S) /\ Range(Append(s, e)) = Range(s) \cup {e}
<1>1. /\ Append(s, e) \in Seq(S) /\ Len(s) \in Nat
      /\ DOMAIN Append(s, e) = 1..(Len(s) + 1) /\ DOMAIN s = 1..Len(s)
      /\ \A i \in 1..Len(s) : Append(s, e)[i] = s[i]
      /\ Append(s, e)[Len(s) + 1] = e
  OBVIOUS
<1>2. ASSUME NEW x \in Range(Append(s, e))  PROVE x \in Range(s) \cup {e}
  BY <1>1, <1>2 DEF Range
<1>3. ASSUME NEW x \in Range(s) \cup {e}  PROVE x \in Range(Append(s, e))
  BY <1>1, <1>3 DEF Range
<1> QED  BY <1>1, <1>2, <1>3

\* Consuming a notification removes nothing but that notification.
LEMMA RangeTail ==
  ASSUME NEW S, NEW s \in Seq(S), s # <<>>
  PROVE  /\ Head(s) \in S /\ Tail(s) \in Seq(S)
         /\ Range(s) \subseteq {Head(s)} \cup Range(Tail(s))
<1>1. /\ Head(s) \in S /\ Tail(s) \in Seq(S) /\ Len(s) \in Nat \ {0}
      /\ Len(Tail(s)) = Len(s) - 1 /\ Head(s) = s[1]
      /\ DOMAIN s = 1..Len(s) /\ DOMAIN Tail(s) = 1..(Len(s) - 1)
      /\ \A i \in 1..Len(Tail(s)) : Tail(s)[i] = s[i + 1]
  BY HeadTailProperties, EmptySeq, LenProperties
<1>2. ASSUME NEW i \in DOMAIN s, i # 1  PROVE s[i] \in Range(Tail(s))
  <2>1. i - 1 \in DOMAIN Tail(s) /\ Tail(s)[i - 1] = s[i]
    BY <1>1, <1>2
  <2> QED  BY <2>1 DEF Range
<1> QED  BY <1>1, <1>2 DEF Range

-----------------------------------------------------------------------------
(***************************************************************************)
(* The LRU map of counters.                                                *)
(***************************************************************************)

\* RemoveAt removes one element.
LEMMA RemoveAtType ==
  ASSUME NEW S, NEW s \in Seq(S), NEW i \in 1..Len(s)
  PROVE  RemoveAt(s, i) \in Seq(S) /\ Len(RemoveAt(s, i)) = Len(s) - 1
<1> DEFINE front == SubSeq(s, 1, i - 1)
           back  == SubSeq(s, i + 1, Len(s))
<1>1. \A k \in 1..Len(s) : s[k] \in S
  BY ElementOfSeq
<1>2. front \in Seq(S) /\ Len(front) = i - 1
  <2>1. 1 \in Int /\ i - 1 \in Int /\ \A k \in 1..(i - 1) : s[k] \in S
    BY <1>1
  <2>2. ASSUME NEW m \in Int, NEW n \in Int, m <= n + 1, \A k \in m..n : s[k] \in S
        PROVE  SubSeq(s, m, n) \in Seq(S) /\ Len(SubSeq(s, m, n)) = n - m + 1
    <3>1. /\ SubSeq(s, m, n) \in Seq(S)
          /\ Len(SubSeq(s, m, n)) = IF m <= n THEN n - m + 1 ELSE 0
      BY <2>2, SubSeqProperties, Zenon
    <3> QED  BY <2>2, <3>1
  <2> QED  BY <2>1, <2>2
<1>3. back \in Seq(S) /\ Len(back) = Len(s) - i
  <2>1. i + 1 \in Int /\ Len(s) \in Int /\ \A k \in (i + 1)..Len(s) : s[k] \in S
    BY <1>1
  <2>2. back \in Seq(S) /\ Len(back) = IF i + 1 <= Len(s) THEN Len(s) - (i + 1) + 1 ELSE 0
    BY <2>1, SubSeqProperties, Zenon
  <2> QED  BY <2>2
<1>4. front \o back \in Seq(S) /\ Len(front \o back) = Len(front) + Len(back)
  <2> HIDE DEF front, back
  <2> QED  BY <1>2, <1>3, ConcatProperties
<1>5. RemoveAt(s, i) = front \o back
  BY Zenon DEF RemoveAt
<1>6. Len(front \o back) = Len(s) - 1
  <2>1. Len(s) \in Nat /\ i \in Int
    OBVIOUS
  <2> HIDE DEF front, back
  <2> QED  BY <1>2, <1>3, <1>4, <2>1
<1> QED  BY <1>4, <1>5, <1>6, Zenon

\* touch keeps the map within its capacity and always holds the run it touched.
LEMMA TouchType ==
  ASSUME NEW c, CountersTypeOK(c), NEW run \in Nat
  PROVE  /\ touch(c, run) \in Seq(Nat)
         /\ Len(touch(c, run)) <= COUNTER_LRU_CAP
         /\ run \in Range(touch(c, run))
<1>1. c.order \in Seq(Nat) /\ Len(c.order) \in Nat /\ Len(c.order) <= COUNTER_LRU_CAP
  BY DEF CountersTypeOK
<1>2. ASSUME NEW s \in Seq(Nat), Len(s) < COUNTER_LRU_CAP
      PROVE  /\ Append(s, run) \in Seq(Nat) /\ run \in Range(Append(s, run))
             /\ Len(Append(s, run)) <= COUNTER_LRU_CAP
  BY <1>2, RangeAppend, LruCapAssumption
<1>3. CASE run \in Range(c.order)
  <2> DEFINE pos == CHOOSE i \in DOMAIN c.order : c.order[i] = run
  <2>1. pos \in DOMAIN c.order
    BY <1>3 DEF Range
  <2>2. pos \in 1..Len(c.order)
    BY <1>1, <2>1
  <2>5. /\ RemoveAt(c.order, pos) \in Seq(Nat)
        /\ Len(RemoveAt(c.order, pos)) = Len(c.order) - 1
    <3> HIDE DEF pos
    <3> QED  BY <1>1, <2>2, RemoveAtType
  <2>6. Len(RemoveAt(c.order, pos)) < COUNTER_LRU_CAP
    BY <1>1, <2>5, LruCapAssumption
  <2>7. touch(c, run) = Append(RemoveAt(c.order, pos), run)
    BY <1>3 DEF touch, pos
  <2> QED  BY <1>2, <2>5, <2>6, <2>7
<1>4. CASE run \notin Range(c.order)
  <2> DEFINE kept == IF Len(c.order) >= COUNTER_LRU_CAP THEN Tail(c.order) ELSE c.order
  <2>1. kept \in Seq(Nat) /\ Len(kept) < COUNTER_LRU_CAP
    <3>1. CASE Len(c.order) >= COUNTER_LRU_CAP
      <4>1. c.order # <<>>
        BY <1>1, <3>1, LruCapAssumption
      <4> QED  BY <1>1, <3>1, <4>1, HeadTailProperties, LruCapAssumption
    <3>2. CASE Len(c.order) < COUNTER_LRU_CAP
      BY <1>1, <3>2, LruCapAssumption
    <3> QED  BY <1>1, <3>1, <3>2, LruCapAssumption
  <2>2. touch(c, run) = Append(kept, run)
    BY <1>4 DEF touch
  <2> QED  BY <1>2, <2>1, <2>2
<1> QED  BY <1>3, <1>4

\* Handing out n seqs keeps the map well formed and within its capacity.
LEMMA GetOrCreateType ==
  ASSUME NEW c, CountersTypeOK(c), NEW run \in Nat, NEW n \in Nat
  PROVE  CountersTypeOK(get_or_create(c, run, n)) /\ peek(c, run) \in Nat
<1>1. \A r : peek(c, r) \in Nat
  BY DEF CountersTypeOK, peek
<1>2. \A r \in Range(touch(c, run)) : peek(c, r) + (IF r = run THEN n ELSE 0) \in Nat
  BY <1>1
<1> QED  BY <1>1, <1>2, TouchType DEF CountersTypeOK, get_or_create

-----------------------------------------------------------------------------
(***************************************************************************)
(* The dispatchers.                                                        *)
(***************************************************************************)

\* What the write loop relies on: events of the affected attributes, each
\* recording as its old value what the snapshot proj holds.
FaithfulTo(evs, proj) ==
  /\ DOMAIN evs \subseteq Attrs
  /\ \A n \in DOMAIN evs : /\ evs[n].name = n
                           /\ evs[n].old_value = proj[n]
                           /\ validate(evs[n]) => evs[n] \in Event

\* One event: only insert_event's validation is left to make it an Event.
LEMMA EventFields ==
  ASSUME NEW p \in Payload, p.source # "unknown", NEW n \in Attrs, NEW seq \in Nat,
         NEW plan, plan.caps_applied \subseteq Cap,
         NEW ev, ev = event_insert_from_plan(p, n, seq, plan)
  PROVE  /\ ev.name = n /\ ev.old_value = plan.old_value
         /\ validate(ev) => ev \in Event
<1>1. ev.name = n /\ ev.old_value = plan.old_value /\ ev.new_value = plan.new_value
  BY DEF event_insert_from_plan
<1>2. /\ p.run_id \in Nat /\ p.ts \in Nat /\ p.reason \in Reason
      /\ p.intervention_id \in Nat /\ p.enabled \in BOOLEAN
      /\ p.source \in {"outcome", "hippocampus", "sensor", "maintenance"}
  BY StoreAssumption DEF Payload
<1>3. ASSUME validate(ev)  PROVE ev \in Event
  <2>1. plan.old_value \in Value /\ plan.new_value \in Value
    BY <1>1, <1>3 DEF validate
  <2>2. (~p.enabled) \in BOOLEAN /\ plan.caps_applied \in SUBSET Cap
    BY <1>2
  <2> QED  BY <1>2, <2>1, <2>2 DEF event_insert_from_plan, Event
<1> QED  BY <1>1, <1>3

\* Every delta row, whatever its values, is emitted faithfully.
LEMMA EmitFaithful ==
  ASSUME NEW p \in Payload, p.source # "unknown", NEW counter \in Nat,
         NEW proj, NEW d, DOMAIN d \subseteq Attrs
  PROVE  FaithfulTo(emit(p, counter, proj, d), proj)
<1> DEFINE evs == emit(p, counter, proj, d)
           snap == [doubt |-> proj[doubt], shame |-> proj[shame]]
<1>1. DOMAIN evs = DOMAIN d
  BY DEF emit
<1>2. ASSUME NEW n \in DOMAIN d
      PROVE  /\ evs[n].name = n
             /\ evs[n].old_value = proj[n]
             /\ validate(evs[n]) => evs[n] \in Event
  <2> DEFINE seq  == counter + Cardinality({m \in DOMAIN d : m <= n})
             plan == plan_for(n, d[n], proj[n], snap)
  <2>1. evs[n] = event_insert_from_plan(p, n, seq, plan)
    BY DEF emit
  <2>2. seq \in Nat
    <3>1. 1 \in Int /\ 8 \in Int
      OBVIOUS
    <3>2. IsFiniteSet(Attrs)
      BY <3>1, FS_Interval, Zenon DEF Attrs
    <3>3. {m \in DOMAIN d : m <= n} \subseteq Attrs
      OBVIOUS
    <3>4. IsFiniteSet({m \in DOMAIN d : m <= n})
      BY <3>2, <3>3, FS_Subset
    <3>5. Cardinality({m \in DOMAIN d : m <= n}) \in Nat
      BY <3>4, FS_CardinalityType
    <3> QED  BY <3>5
  <2>3. plan.old_value = proj[n] /\ plan.caps_applied \subseteq Cap
    BY DEF plan_for, Cap
  <2> HIDE DEF evs, seq, plan
  <2> QED  BY <2>1, <2>2, <2>3, EventFields
<1> QED  BY <1>1, <1>2 DEF FaithfulTo

\* A first emission, from any of the three sources.
LEMMA DispatchFaithful ==
  ASSUME NEW p \in Payload, p.source # "unknown", NEW counter \in Nat, NEW proj
  PROVE  FaithfulTo(dispatch(p, counter, proj), proj)
<1>1. FaithfulTo(dispatch_outcome(p, counter, proj), proj)
  BY EmitFaithful DEF dispatch_outcome, affected
<1>2. FaithfulTo(dispatch_hippocampus(p, counter, proj), proj)
  BY EmitFaithful DEF dispatch_hippocampus, affected
<1>3. FaithfulTo(dispatch_sensor(p, counter, proj), proj)
  BY EmitFaithful DEF dispatch_sensor, affected
<1> QED  BY <1>1, <1>2, <1>3 DEF dispatch

\* A revision, whatever the prior classification and deltas are.
LEMMA RevisionFaithful ==
  ASSUME NEW p \in Payload, p.source # "unknown", NEW counter \in Nat, NEW proj,
         NEW prior, NEW actual
  PROVE  FaithfulTo(dispatch_revision(p, counter, proj, prior, actual), proj)
BY EmitFaithful DEF dispatch_revision, affected

-----------------------------------------------------------------------------
(***************************************************************************)
(* Type correctness, one lemma per part of LoopTypeOK.                     *)
(***************************************************************************)
\* The tables of the store.
LEMMA StoreTypeStep ==
  ASSUME LoopTypeOK, LoopNext
  PROVE  StoreTypeOK'
<1> USE DEF storeVars, brokerVars, queueVars, localVars, procVars, boundVars, histVars
<1>1. CASE \/ (\E p \in Payloads : BrokerInsert(p))
            \/ (\E id \in Ids : BrokerNotify(id))
            \/ (\E a \in DOMAIN audit_inbox : BrokerReject(a))
            \/ (\E id \in Ids : NotifyLost(id))
            \/ (\E x \in Ids \cup {NoId} : StrayNotify(x)) \/ Start
            \/ drain_outcome_inbox \/ drain_audit_replies \/ EnterServe
            \/ DrainNext \/ handle_outcome_notify \/ handle_reply_notify
            \/ Claim \/ ClaimMisses \/ ReadAndDispatch \/ ReadForRevision
            \/ build_revision_events \/ RevisionWithoutPrior \/ InsertRefused
            \/ NotifyAudit \/ delete_outcome_row \/ SelectReply
            \/ DeleteReply
  <2>1. UNCHANGED <<storeVars, faults, crashes>>
    BY <1>1 DEF BrokerInsert, BrokerNotify, BrokerReject, NotifyLost,
             StrayNotify, Start, drain_outcome_inbox, drain_audit_replies,
             EnterServe, DrainNext, handle_outcome_notify,
             handle_reply_notify, Claim, ClaimMisses, ReadAndDispatch,
             ReadForRevision, build_revision_events, RevisionWithoutPrior,
             InsertRefused, NotifyAudit, delete_outcome_row, SelectReply,
             DeleteReply, Return, Dispatch
  <2> QED  BY <2>1 DEF LoopTypeOK, StoreTypeOK
<1>2. CASE TimePasses
  BY <1>2 DEF LoopTypeOK, StoreTypeOK, TimePasses
<1>3. CASE StatementFails
  BY <1>3 DEF LoopTypeOK, StoreTypeOK, StatementFails
<1>4. CASE Crash
  BY <1>4 DEF LoopTypeOK, StoreTypeOK, Crash
<1>5. CASE InsertEvent
  <2>1. PICK n \in DOMAIN pending : insert_accepts(pending[n]) /\ insert_event(pending[n])
    BY <1>5 DEF InsertEvent
  <2>2. pending[n] \in Event
    BY <2>1 DEF insert_accepts, LoopTypeOK, PendingTypeOK
  <2>3. UNCHANGED <<clock, attributes, audit_inbox, faults, crashes>>
    BY <1>5 DEF InsertEvent
  <2> QED  BY <2>1, <2>2, <2>3 DEF insert_event, LoopTypeOK, StoreTypeOK
<1>6. CASE UpsertAttribute
  <2>1. PICK n \in DOMAIN pending : first(n) /\ upsert_attribute(pending[n])
    BY <1>6 DEF UpsertAttribute
  <2>2. pending[n] \in events /\ events \subseteq Event
    BY <1>6, <2>1 DEF UpsertAttribute, LoopTypeOK, StoreTypeOK, PendingTypeOK, Writing
  <2>3. pending[n].new_value \in Value
    BY <2>2 DEF Event
  <2>4. UNCHANGED <<clock, events, audit_inbox, faults, crashes>>
    BY <1>6 DEF UpsertAttribute
  <2> QED  BY <2>1, <2>3, <2>4 DEF upsert_attribute, LoopTypeOK, StoreTypeOK
<1>7. CASE EnqueueAudit
  <2>1. PICK n \in DOMAIN pending : first(n) /\ enqueue_audit_event(pending[n])
    BY <1>7 DEF EnqueueAudit
  <2>2. pending[n] \in events /\ events \subseteq Event
    BY <1>7, <2>1 DEF EnqueueAudit, LoopTypeOK, StoreTypeOK, PendingTypeOK, Writing
  <2>3. event_id(pending[n]) \in Nat \X Nat
    BY <2>2 DEF Event, event_id
  <2>4. UNCHANGED <<clock, events, attributes, faults, crashes>>
    BY <1>7 DEF EnqueueAudit
  <2> HIDE DEF enqueue_audit_event
  <2>5. audit_inbox' = Append(audit_inbox, event_id(pending[n]))
    BY <2>1 DEF enqueue_audit_event
  <2>6. audit_inbox' \in Seq(Nat \X Nat)
    BY <2>3, <2>5 DEF LoopTypeOK, StoreTypeOK
  <2> QED  BY <2>4, <2>6 DEF LoopTypeOK, StoreTypeOK
<1> QED
  BY <1>1, <1>2, <1>3, <1>4, <1>5, <1>6, <1>7, Zenon
     DEF LoopNext, Broker, Unreliable, Loop

\* The inbox, the replies and the notifications.
LEMMA BrokerTypeStep ==
  ASSUME LoopTypeOK, LoopNext
  PROVE  BrokerTypeOK'
<1> USE DEF storeVars, brokerVars, queueVars, localVars, procVars, boundVars, histVars
<1>1. CASE \/ TimePasses \/ Start \/ drain_audit_replies \/ EnterServe
            \/ DrainNext \/ ClaimMisses \/ ReadAndDispatch \/ ReadForRevision
            \/ build_revision_events \/ RevisionWithoutPrior \/ InsertRefused
            \/ UpsertAttribute \/ EnqueueAudit \/ NotifyAudit \/ SelectReply
  <2>1. UNCHANGED <<brokerVars, queueVars, rejected, strays, lost, histVars>>
    BY <1>1 DEF TimePasses, Start, drain_audit_replies, EnterServe, DrainNext,
             ClaimMisses, ReadAndDispatch, ReadForRevision,
             build_revision_events, RevisionWithoutPrior, InsertRefused,
             UpsertAttribute, EnqueueAudit, NotifyAudit, SelectReply, Return,
             Dispatch
  <2> QED  BY <2>1 DEF LoopTypeOK, BrokerTypeOK
<1>2. ASSUME NEW p \in Payloads, BrokerInsert(p)  PROVE BrokerTypeOK'
  <2> DEFINE row == [p EXCEPT !.ts = clock]
  <2>1. row \in Payload
    BY RunLoopAssumption DEF LoopTypeOK, StoreTypeOK, Payload
  <2>2. /\ next_id \in Ids
        /\ inbox' = [inbox EXCEPT ![next_id] = "queued"]
        /\ payload' = [payload EXCEPT ![next_id] = row]
        /\ next_id' = next_id + 1
        /\ unnotified' = unnotified \cup {next_id}
    BY <1>2 DEF BrokerInsert
  <2>3. UNCHANGED <<replies, queueVars, rejected, strays, lost, histVars>>
    BY <1>2 DEF BrokerInsert
  <2> HIDE DEF row
  <2> QED  BY <2>1, <2>2, <2>3, RunLoopAssumption DEF LoopTypeOK, BrokerTypeOK, Ids
<1>3. ASSUME NEW id \in Ids, BrokerNotify(id)  PROVE BrokerTypeOK'
  BY <1>3 DEF BrokerNotify, next_notify, LoopTypeOK, BrokerTypeOK
<1>4. ASSUME NEW a \in DOMAIN audit_inbox, BrokerReject(a)  PROVE BrokerTypeOK'
  <2>1. a \in Nat
    BY DEF LoopTypeOK, StoreTypeOK
  <2>2. reply_queue' \in Seq(Nat)
    BY <1>4, <2>1 DEF BrokerReject, LoopTypeOK, BrokerTypeOK
  <2> QED  BY <1>4, <2>1, <2>2 DEF BrokerReject, LoopTypeOK, BrokerTypeOK
<1>5. ASSUME NEW id \in Ids, NotifyLost(id)  PROVE BrokerTypeOK'
  BY <1>5 DEF NotifyLost, LoopTypeOK, BrokerTypeOK
<1>6. ASSUME NEW x \in Ids \cup {NoId}, StrayNotify(x)  PROVE BrokerTypeOK'
  <2>1. outcome_queue \in Seq(Ids \cup {NoId}) /\ reply_queue \in Seq(Nat) /\ NoId \in Nat
    BY DEF LoopTypeOK, BrokerTypeOK, NoId
  <2>2. outcome_queue' \in Seq(Ids \cup {NoId}) /\ reply_queue' \in Seq(Nat)
    <3>1. \/ outcome_queue' = Append(outcome_queue, x) /\ reply_queue' = reply_queue
          \/ reply_queue' = Append(reply_queue, NoId) /\ outcome_queue' = outcome_queue
      BY <1>6 DEF StrayNotify
    <3>2. Append(outcome_queue, x) \in Seq(Ids \cup {NoId})
      BY <2>1, RangeAppend, Zenon
    <3>3. Append(reply_queue, NoId) \in Seq(Nat)
      BY <2>1, RangeAppend, Zenon
    <3> QED  BY <2>1, <3>1, <3>2, <3>3, Zenon
  <2>3. UNCHANGED <<brokerVars, rejected, lost, histVars>> /\ strays' = strays + 1
    BY <1>6 DEF StrayNotify
  <2> QED  BY <2>1, <2>2, <2>3 DEF LoopTypeOK, BrokerTypeOK
<1>7. CASE StatementFails
  BY <1>7 DEF StatementFails, LoopTypeOK, BrokerTypeOK, ProcessTypeOK
<1>8. CASE Crash
  BY <1>8 DEF Crash, LoopDies, LoopTypeOK, BrokerTypeOK
<1>9. CASE drain_outcome_inbox
  BY <1>9 DEF drain_outcome_inbox, LoopTypeOK, BrokerTypeOK
<1>10. CASE handle_outcome_notify
  BY <1>10 DEF handle_outcome_notify, LoopTypeOK, BrokerTypeOK
<1>11. CASE handle_reply_notify
  BY <1>11 DEF handle_reply_notify, LoopTypeOK, BrokerTypeOK
<1>12. CASE Claim
  BY <1>12 DEF Claim, LoopTypeOK, BrokerTypeOK, ProcessTypeOK, Ids
<1>13. CASE InsertEvent
  <2>1. PICK n \in DOMAIN pending :
               /\ insert_accepts(pending[n])
               /\ written' = [written EXCEPT ![cur] = @ \cup {<<n, pending[n].seq>>}]
    BY <1>13 DEF InsertEvent
  <2>2. n \in Attrs /\ pending[n].seq \in Nat
    BY <2>1 DEF insert_accepts, LoopTypeOK, PendingTypeOK, Event
  <2>3. written' \in [Ids -> SUBSET (Attrs \X Nat)]
    <3>1. <<n, pending[n].seq>> \in Attrs \X Nat
      BY <2>2
    <3>2. written \in [Ids -> SUBSET (Attrs \X Nat)] /\ cur \in Ids
      BY <1>13 DEF InsertEvent, LoopTypeOK, BrokerTypeOK, ProcessTypeOK,
                   Claimed, RowSteps, Statements
    <3> QED  BY <2>1, <3>1, <3>2
  <2>4. UNCHANGED <<brokerVars, queueVars, rejected, strays, lost, missed>>
    BY <1>13 DEF InsertEvent
  <2> QED  BY <2>3, <2>4 DEF LoopTypeOK, BrokerTypeOK
<1>14. CASE delete_outcome_row
  BY <1>14 DEF delete_outcome_row, LoopTypeOK, BrokerTypeOK, ProcessTypeOK, Claimed, RowSteps, Statements, Ids
<1>15. CASE DeleteReply
  BY <1>15 DEF DeleteReply, LoopTypeOK, BrokerTypeOK
<1> QED
  BY <1>1, <1>2, <1>3, <1>4, <1>5, <1>6, <1>7, <1>8, <1>9, <1>10, <1>11,
     <1>12, <1>13, <1>14, <1>15, Zenon
     DEF LoopNext, Broker, Unreliable, Loop

\* The projection local is reset to values in range when a handler returns.
LEMMA NoProjectionType == NoProjection \in [Attrs -> Value]
BY DEF NoProjection, Value, ONE

\* A new process starts with a well-formed counter map (LruCounterMap::new).
LEMMA EmptyCountersType == CountersTypeOK(EmptyCounters)
<1>1. EmptyCounters.order = <<>> /\ EmptyCounters.map = [r \in {} |-> 0]
  BY DEF EmptyCounters
<1>2. Range(<<>>) = {}
  BY DEF Range
<1>3. <<>> \in Seq(Nat) /\ Len(<<>>) = 0
  OBVIOUS
<1>4. [r \in {} |-> 0] \in [{} -> Nat]
  OBVIOUS
<1> QED  BY <1>1, <1>2, <1>3, <1>4, LruCapAssumption DEF CountersTypeOK

\* The counter of the dispatched row's run advances by the events it emits.
LEMMA CountersAdvance ==
  ASSUME CountersTypeOK(counters), NEW p \in Payload, NEW evs, DOMAIN evs \subseteq Attrs
  PROVE  /\ CountersTypeOK(get_or_create(counters, p.run_id, Cardinality(DOMAIN evs)))
         /\ peek(counters, p.run_id) \in Nat
<1>1. p.run_id \in Nat
  BY StoreAssumption DEF Payload
<1>2. Cardinality(DOMAIN evs) \in Nat
  <2>1. 1 \in Int /\ 8 \in Int
    OBVIOUS
  <2>2. IsFiniteSet(Attrs)
    BY <2>1, FS_Interval, Zenon DEF Attrs
  <2> QED  BY <2>2, FS_Subset, FS_CardinalityType
<1> QED  BY <1>1, <1>2, GetOrCreateType

\* Both dispatching steps hand faithful events to the write loop.
LEMMA DispatchesFaithfully ==
  ASSUME LoopTypeOK
  PROVE  /\ ReadAndDispatch => \E evs : Dispatch(evs) /\ FaithfulTo(evs, attributes)
         /\ build_revision_events => \E evs : Dispatch(evs) /\ FaithfulTo(evs, projection)
<1> DEFINE p == payload[cur]
<1>1. ASSUME pc \in {"read", "prior"}
      PROVE  p \in Payload /\ p.source # "unknown" /\ peek(counters, p.run_id) \in Nat
  <2>1. p \in Payload /\ p.source # "unknown"
    BY <1>1 DEF LoopTypeOK, BrokerTypeOK, ProcessTypeOK, Claimed, RowSteps, Statements
  <2>2. p.run_id \in Nat
    BY <2>1, StoreAssumption DEF Payload
  <2> QED  BY <2>1, <2>2 DEF LoopTypeOK, ProcessTypeOK, CountersTypeOK, peek
<1>2. ASSUME ReadAndDispatch
      PROVE  \E evs : Dispatch(evs) /\ FaithfulTo(evs, attributes)
  <2>1. pc = "read" /\ Dispatch(dispatch(p, peek(counters, p.run_id), attributes))
    BY <1>2 DEF ReadAndDispatch
  <2>2. FaithfulTo(dispatch(p, peek(counters, p.run_id), attributes), attributes)
    BY <1>1, <2>1, DispatchFaithful
  <2> QED  BY <2>1, <2>2, Zenon
<1>3. ASSUME build_revision_events
      PROVE  \E evs : Dispatch(evs) /\ FaithfulTo(evs, projection)
  <2> DEFINE prior  == derive_prior_classification(p.intervention_id)
             actual == gather_prior_actuals(p.intervention_id)
  <2>1. /\ pc = "prior"
        /\ Dispatch(dispatch_revision(p, peek(counters, p.run_id), projection, prior, actual))
    BY <1>3, Zenon DEF build_revision_events
  <2> HIDE DEF prior, actual
  <2>2. FaithfulTo(dispatch_revision(p, peek(counters, p.run_id), projection, prior, actual),
                   projection)
    BY <1>1, <2>1, RevisionFaithful
  <2> QED  BY <2>1, <2>2, Zenon
<1> QED  BY <1>2, <1>3

\* The process: where it is and what it holds.
LEMMA ProcessTypeStep ==
  ASSUME LoopTypeOK, LoopNext
  PROVE  ProcessTypeOK'
<1> USE DEF storeVars, brokerVars, queueVars, localVars, procVars, boundVars, histVars
<1>1. CASE \/ (\E id \in Ids : BrokerNotify(id))
            \/ (\E a \in DOMAIN audit_inbox : BrokerReject(a))
            \/ (\E id \in Ids : NotifyLost(id))
            \/ (\E x \in Ids \cup {NoId} : StrayNotify(x)) \/ TimePasses
  <2>1. UNCHANGED <<inbox, payload, procVars>>
    BY <1>1 DEF BrokerNotify, BrokerReject, NotifyLost, StrayNotify, TimePasses
  <2> QED  BY <2>1 DEF LoopTypeOK, ProcessTypeOK
<1>2. ASSUME NEW p \in Payloads, BrokerInsert(p)  PROVE ProcessTypeOK'
  <2>1. /\ inbox' = [inbox EXCEPT ![next_id] = "queued"]
        /\ \E row : payload' = [payload EXCEPT ![next_id] = row]
        /\ UNCHANGED procVars
    BY <1>2 DEF BrokerInsert
  <2>2. cur \in Ids /\ inbox[cur] = "claimed" => cur # next_id
    BY DEF LoopTypeOK, BrokerTypeOK, Ids
  <2> QED  BY <2>1, <2>2 DEF LoopTypeOK, BrokerTypeOK, ProcessTypeOK, Claimed, RowSteps, Statements
<1>3. CASE StatementFails
  BY <1>3, NoProjectionType DEF StatementFails, Return, LoopTypeOK, BrokerTypeOK, ProcessTypeOK,
     Claimed, RowSteps, Statements, NoId
<1>4. CASE Crash
  BY <1>4, NoProjectionType, EmptyCountersType DEF Crash, LoopDies, ProcessTypeOK,
     Claimed, RowSteps, Statements, NoId
<1>5. CASE Start
  BY <1>5 DEF Start, LoopTypeOK, BrokerTypeOK, ProcessTypeOK, Claimed, RowSteps, Statements
<1>6. CASE drain_outcome_inbox
  BY <1>6 DEF drain_outcome_inbox, LoopTypeOK, BrokerTypeOK, ProcessTypeOK, Claimed, RowSteps, Statements, Ids
<1>7. CASE drain_audit_replies
  BY <1>7 DEF drain_audit_replies, LoopTypeOK, BrokerTypeOK, ProcessTypeOK, Claimed, RowSteps, Statements
<1>8. CASE EnterServe
  BY <1>8 DEF EnterServe, LoopTypeOK, BrokerTypeOK, ProcessTypeOK, Claimed, RowSteps, Statements
<1>9. CASE DrainNext
  BY <1>9 DEF DrainNext, LoopTypeOK, BrokerTypeOK, ProcessTypeOK, Claimed, RowSteps, Statements
<1>10. CASE handle_outcome_notify
  <2>1. cur' \in Ids \cup {NoId}
    BY <1>10, RangeTail DEF handle_outcome_notify, LoopTypeOK, BrokerTypeOK
  <2> QED  BY <1>10, <2>1 DEF handle_outcome_notify, LoopTypeOK, ProcessTypeOK,
              Claimed, RowSteps, Statements, Ids, NoId
<1>11. CASE handle_reply_notify
  <2>1. cur' \in Nat
    BY <1>11, RangeTail DEF handle_reply_notify, LoopTypeOK, BrokerTypeOK
  <2> QED  BY <1>11, <2>1 DEF handle_reply_notify, LoopTypeOK, ProcessTypeOK, Claimed, RowSteps, Statements
<1>12. CASE Claim
  <2>1. cur \in Ids /\ inbox' = [inbox EXCEPT ![cur] = "claimed"] /\ UNCHANGED payload
    BY <1>12 DEF Claim, LoopTypeOK, ProcessTypeOK
  <2>2. \/ pc' = "read" /\ payload[cur].source # "unknown"
        \/ pc' = "delete"
    BY <1>12 DEF Claim, parse_inbox_payload
  <2>3. UNCHANGED <<phase, localVars, counters>>
    BY <1>12 DEF Claim
  <2> QED  BY <2>1, <2>2, <2>3 DEF LoopTypeOK, BrokerTypeOK, ProcessTypeOK, Claimed, RowSteps, Statements
<1>13. CASE ClaimMisses
  BY <1>13, NoProjectionType DEF ClaimMisses, Return, LoopTypeOK, BrokerTypeOK, ProcessTypeOK,
     Claimed, RowSteps, Statements, NoId
<1>14. CASE ReadAndDispatch
  <2>1. pc = "read" /\ cur \in Ids /\ inbox[cur] = "claimed" /\ payload[cur] \in Payload
    BY <1>14 DEF ReadAndDispatch, LoopTypeOK, BrokerTypeOK, ProcessTypeOK,
             Claimed, RowSteps, Statements
  <2>2. PICK evs : Dispatch(evs) /\ FaithfulTo(evs, attributes)
    BY <1>14, <2>1, DispatchesFaithfully
  <2>3. counters' = get_or_create(counters, payload[cur].run_id, Cardinality(DOMAIN evs))
    BY <2>2 DEF Dispatch
  <2>4. CountersTypeOK(counters')
    BY <2>1, <2>2, <2>3, CountersAdvance DEF LoopTypeOK, ProcessTypeOK, FaithfulTo
  <2>5. pc' \in {"insert", "delete"} /\ UNCHANGED <<inbox, payload, phase, todo, cur>>
    BY <1>14, <2>2 DEF ReadAndDispatch, Dispatch
  <2>6. projection' \in [Attrs -> Value]
    BY <1>14, NoProjectionType DEF ReadAndDispatch, LoopTypeOK, ProcessTypeOK
  <2> QED  BY <2>1, <2>4, <2>5, <2>6 DEF LoopTypeOK, ProcessTypeOK, Claimed, RowSteps, Statements
<1>15. CASE ReadForRevision
  BY <1>15 DEF ReadForRevision, StoreTypeOK, LoopTypeOK, BrokerTypeOK, ProcessTypeOK, Claimed, RowSteps, Statements
<1>16. CASE build_revision_events
  <2>1. pc = "prior" /\ cur \in Ids /\ inbox[cur] = "claimed" /\ payload[cur] \in Payload
    BY <1>16 DEF build_revision_events, LoopTypeOK, BrokerTypeOK, ProcessTypeOK,
             Claimed, RowSteps, Statements
  <2>2. PICK evs : Dispatch(evs) /\ FaithfulTo(evs, projection)
    BY <1>16, <2>1, DispatchesFaithfully
  <2>3. counters' = get_or_create(counters, payload[cur].run_id, Cardinality(DOMAIN evs))
    BY <2>2 DEF Dispatch
  <2>4. CountersTypeOK(counters')
    BY <2>1, <2>2, <2>3, CountersAdvance DEF LoopTypeOK, ProcessTypeOK, FaithfulTo
  <2>5. pc' \in {"insert", "delete"} /\ UNCHANGED <<inbox, payload, phase, todo, cur>>
    BY <1>16, <2>2 DEF build_revision_events, Dispatch
  <2>6. projection' \in [Attrs -> Value]
    BY <1>16, NoProjectionType DEF build_revision_events, LoopTypeOK, ProcessTypeOK
  <2> QED  BY <2>1, <2>4, <2>5, <2>6 DEF LoopTypeOK, ProcessTypeOK, Claimed, RowSteps, Statements
<1>17. CASE RevisionWithoutPrior
  BY <1>17, NoProjectionType DEF RevisionWithoutPrior, Return, LoopTypeOK, BrokerTypeOK, ProcessTypeOK,
     Claimed, RowSteps, Statements, NoId
<1>18. CASE InsertEvent
  BY <1>18 DEF InsertEvent, LoopTypeOK, BrokerTypeOK, ProcessTypeOK, Claimed, RowSteps, Statements
<1>19. CASE InsertRefused
  BY <1>19, NoProjectionType DEF InsertRefused, Return, LoopTypeOK, BrokerTypeOK, ProcessTypeOK,
     Claimed, RowSteps, Statements, NoId
<1>20. CASE UpsertAttribute
  BY <1>20 DEF UpsertAttribute, LoopTypeOK, BrokerTypeOK, ProcessTypeOK, Claimed, RowSteps, Statements
<1>21. CASE EnqueueAudit
  BY <1>21 DEF EnqueueAudit, LoopTypeOK, BrokerTypeOK, ProcessTypeOK, Claimed, RowSteps, Statements
<1>22. CASE NotifyAudit
  BY <1>22 DEF NotifyAudit, LoopTypeOK, BrokerTypeOK, ProcessTypeOK, Claimed, RowSteps, Statements
<1>23. CASE delete_outcome_row
  BY <1>23, NoProjectionType DEF delete_outcome_row, Return, LoopTypeOK, BrokerTypeOK, ProcessTypeOK,
     Claimed, RowSteps, Statements, NoId
<1>24. CASE SelectReply
  <2>1. UNCHANGED <<inbox, payload, phase, todo, counters>>
    BY <1>24 DEF SelectReply, Return
  <2>2. \/ pc' = "reply_delete" /\ UNCHANGED <<cur, projection>>
        \/ pc' = "next" /\ cur' = NoId /\ projection' = NoProjection
    BY <1>24 DEF SelectReply, Return
  <2> QED  BY <2>1, <2>2, NoProjectionType DEF LoopTypeOK, ProcessTypeOK,
              Claimed, RowSteps, Statements, NoId
<1>25. CASE DeleteReply
  BY <1>25, NoProjectionType DEF DeleteReply, Return, LoopTypeOK, BrokerTypeOK, ProcessTypeOK,
     Claimed, RowSteps, Statements, NoId
<1> QED
  BY <1>1, <1>2, <1>3, <1>4, <1>5, <1>6, <1>7, <1>8, <1>9, <1>10, <1>11,
     <1>12, <1>13, <1>14, <1>15, <1>16, <1>17, <1>18, <1>19, <1>20, <1>21,
     <1>22, <1>23, <1>24, <1>25, Zenon
     DEF LoopNext, Broker, Unreliable, Loop

\* The events between their dispatch and their last write.
LEMMA PendingTypeStep ==
  ASSUME LoopTypeOK, LoopNext
  PROVE  PendingTypeOK'
<1> USE DEF storeVars, brokerVars, queueVars, localVars, procVars, boundVars, histVars
<1>1. CASE \/ (\E p \in Payloads : BrokerInsert(p))
            \/ (\E id \in Ids : BrokerNotify(id))
            \/ (\E a \in DOMAIN audit_inbox : BrokerReject(a))
            \/ (\E id \in Ids : NotifyLost(id))
            \/ (\E x \in Ids \cup {NoId} : StrayNotify(x)) \/ TimePasses
            \/ drain_audit_replies \/ EnterServe
  <2>1. UNCHANGED <<pc, pending, events>>
    BY <1>1 DEF BrokerInsert, BrokerNotify, BrokerReject, NotifyLost,
             StrayNotify, TimePasses, drain_audit_replies, EnterServe
  <2> QED  BY <2>1 DEF LoopTypeOK, PendingTypeOK, first, validate
<1>2. CASE StatementFails
  BY <1>2 DEF StatementFails, Return, NoEvents, LoopTypeOK, PendingTypeOK, Writing, Statements
<1>3. CASE Crash
  BY <1>3 DEF Crash, LoopDies, NoEvents, LoopTypeOK, PendingTypeOK, Writing, Statements
<1>4. CASE Start
  BY <1>4 DEF Start, LoopTypeOK, PendingTypeOK, Writing, Statements
<1>5. CASE drain_outcome_inbox
  BY <1>5 DEF drain_outcome_inbox, LoopTypeOK, PendingTypeOK, Writing, Statements
<1>6. CASE DrainNext
  BY <1>6 DEF DrainNext, LoopTypeOK, PendingTypeOK, Writing, Statements
<1>7. CASE handle_outcome_notify
  BY <1>7 DEF handle_outcome_notify, LoopTypeOK, PendingTypeOK, Writing, Statements
<1>8. CASE handle_reply_notify
  BY <1>8 DEF handle_reply_notify, LoopTypeOK, PendingTypeOK, Writing, Statements
<1>9. CASE Claim
  BY <1>9 DEF Claim, LoopTypeOK, PendingTypeOK, Writing, Statements
<1>10. CASE ClaimMisses
  BY <1>10 DEF ClaimMisses, Return, NoEvents, LoopTypeOK, PendingTypeOK, Writing, Statements
<1>11. CASE ReadAndDispatch
  <2>1. PICK evs : Dispatch(evs) /\ FaithfulTo(evs, attributes)
    BY <1>11, DispatchesFaithfully
  <2>2. pending' = evs /\ pc' = IF DOMAIN evs = {} THEN "delete" ELSE "insert"
    BY <2>1 DEF Dispatch
  <2> QED  BY <2>1, <2>2 DEF FaithfulTo, PendingTypeOK, Writing, validate
<1>12. CASE ReadForRevision
  BY <1>12 DEF ReadForRevision, LoopTypeOK, PendingTypeOK, Writing, Statements
<1>13. CASE build_revision_events
  <2>1. PICK evs : Dispatch(evs) /\ FaithfulTo(evs, projection)
    BY <1>13, DispatchesFaithfully
  <2>2. pending' = evs /\ pc' = IF DOMAIN evs = {} THEN "delete" ELSE "insert"
    BY <2>1 DEF Dispatch
  <2> QED  BY <2>1, <2>2 DEF FaithfulTo, PendingTypeOK, Writing, validate
<1>14. CASE RevisionWithoutPrior
  BY <1>14 DEF RevisionWithoutPrior, Return, NoEvents, LoopTypeOK, PendingTypeOK, Writing, Statements
<1>15. CASE InsertEvent
  <2>1. PICK n \in DOMAIN pending :
               /\ first(n) /\ insert_event(pending[n]) /\ pc' \in {"audit", "upsert"}
    BY <1>15 DEF InsertEvent
  <2>2. pc = "insert" /\ UNCHANGED pending
    BY <1>15 DEF InsertEvent
  <2>3. \A m \in DOMAIN pending : first(m) => m = n
    BY <2>1 DEF first, LoopTypeOK, PendingTypeOK, Attrs
  <2>4. pending[n] \in events' /\ (\A m : first(m)' <=> first(m))
    BY <2>1, <2>2 DEF insert_event, first
  <2> QED  BY <2>1, <2>2, <2>3, <2>4 DEF LoopTypeOK, PendingTypeOK, Writing, validate
<1>16. CASE InsertRefused
  BY <1>16 DEF InsertRefused, Return, NoEvents, LoopTypeOK, PendingTypeOK, Writing, Statements
<1>17. CASE UpsertAttribute
  <2>1. /\ pc \in Writing \ {"insert"} /\ pc' \in Writing \ {"insert"}
        /\ UNCHANGED <<pending, events>>
    BY <1>17 DEF UpsertAttribute, Writing
  <2> QED  BY <2>1 DEF LoopTypeOK, PendingTypeOK, first, validate
<1>18. CASE EnqueueAudit
  <2>1. /\ pc \in Writing \ {"insert"} /\ pc' \in Writing \ {"insert"}
        /\ UNCHANGED <<pending, events>>
    BY <1>18 DEF EnqueueAudit, Writing
  <2> QED  BY <2>1 DEF LoopTypeOK, PendingTypeOK, first, validate
<1>19. CASE NotifyAudit
  <2>1. PICK n \in DOMAIN pending : pending' = Restrict(pending, DOMAIN pending \ {n})
    BY <1>19 DEF NotifyAudit
  <2>2. /\ DOMAIN pending' = DOMAIN pending \ {n}
        /\ \A m \in DOMAIN pending' : pending'[m] = pending[m]
    BY <2>1 DEF Restrict
  <2>3. pc' = IF DOMAIN pending' = {} THEN "delete" ELSE "insert"
    BY <1>19 DEF NotifyAudit
  <2> QED  BY <2>2, <2>3 DEF LoopTypeOK, PendingTypeOK, Writing, validate
<1>20. CASE delete_outcome_row
  BY <1>20 DEF delete_outcome_row, Return, NoEvents, LoopTypeOK, PendingTypeOK, Writing, Statements
<1>21. CASE SelectReply
  BY <1>21 DEF SelectReply, Return, NoEvents, LoopTypeOK, PendingTypeOK, Writing, Statements
<1>22. CASE DeleteReply
  BY <1>22 DEF DeleteReply, Return, NoEvents, LoopTypeOK, PendingTypeOK, Writing, Statements
<1> QED
  BY <1>1, <1>2, <1>3, <1>4, <1>5, <1>6, <1>7, <1>8, <1>9, <1>10, <1>11,
     <1>12, <1>13, <1>14, <1>15, <1>16, <1>17, <1>18, <1>19, <1>20, <1>21,
     <1>22, Zenon
     DEF LoopNext, Broker, Unreliable, Loop

(***************************************************************************)
(* LoopTypeOK is inductive: it ties the row the loop works on to the state *)
(* of that row, and the pending events to the log (process_outcome_row).   *)
(***************************************************************************)
THEOREM LoopTypeCorrect == LoopSpec => []LoopTypeOK
<1>1. LoopInit => LoopTypeOK
  <2> SUFFICES ASSUME LoopInit  PROVE LoopTypeOK
    OBVIOUS
  <2>1. StoreTypeOK
    BY DEF LoopInit, StoreInit, StoreTypeOK, Value, ONE
  <2>2. BrokerTypeOK
    BY RunLoopAssumption DEF LoopInit, BrokerTypeOK, Ids
  <2>3. ProcessTypeOK
    BY NoProjectionType, EmptyCountersType
       DEF LoopInit, ProcessTypeOK, Claimed, RowSteps, Statements, NoId
  <2>4. PendingTypeOK
    BY DEF LoopInit, NoEvents, PendingTypeOK, Writing
  <2> QED  BY <2>1, <2>2, <2>3, <2>4 DEF LoopTypeOK
<1>2. LoopTypeOK /\ [LoopNext]_vars => LoopTypeOK'
  <2> SUFFICES ASSUME LoopTypeOK, [LoopNext]_vars  PROVE LoopTypeOK'
    OBVIOUS
  <2>1. CASE LoopNext
    BY <2>1, StoreTypeStep, BrokerTypeStep, ProcessTypeStep, PendingTypeStep DEF LoopTypeOK
  <2>2. CASE UNCHANGED vars
    BY <2>2 DEF vars, storeVars, brokerVars, queueVars, localVars, procVars, boundVars,
                histVars, LoopTypeOK, StoreTypeOK, BrokerTypeOK, ProcessTypeOK,
                PendingTypeOK, first, validate
  <2> QED  BY <2>1, <2>2
<1> QED  BY <1>1, <1>2, PTL DEF LoopSpec

-----------------------------------------------------------------------------
(***************************************************************************)
(* Delivery.                                                               *)
(***************************************************************************)
\* Every step keeps each unclaimed row covered.
LEMMA CoveredStep ==
  ASSUME LoopTypeOK, UnclaimedRowIsCovered, LoopNext
  PROVE  UnclaimedRowIsCovered'
<1> USE DEF storeVars, brokerVars, queueVars, localVars, procVars, boundVars, histVars
<1>1. CASE \/ TimePasses \/ (\E a \in DOMAIN audit_inbox : BrokerReject(a))
  <2>1. UNCHANGED <<inbox, unnotified, outcome_queue, pc, phase, todo, cur, missed>>
    BY <1>1 DEF TimePasses, BrokerReject
  <2> QED  BY <2>1 DEF UnclaimedRowIsCovered
<1>2. ASSUME NEW p \in Payloads, BrokerInsert(p)  PROVE UnclaimedRowIsCovered'
  BY <1>2 DEF BrokerInsert, UnclaimedRowIsCovered, LoopTypeOK, BrokerTypeOK
<1>3. ASSUME NEW id \in Ids, BrokerNotify(id)  PROVE UnclaimedRowIsCovered'
  <2>1. outcome_queue \in Seq(Ids \cup {NoId})
    BY DEF LoopTypeOK, BrokerTypeOK
  <2>2. pc # "down" => Range(outcome_queue') = Range(outcome_queue) \cup {id}
    BY <1>3, <2>1, RangeAppend DEF BrokerNotify
  <2> QED  BY <1>3, <2>2 DEF BrokerNotify, UnclaimedRowIsCovered
<1>4. ASSUME NEW id \in Ids, NotifyLost(id)  PROVE UnclaimedRowIsCovered'
  BY <1>4 DEF NotifyLost, UnclaimedRowIsCovered
<1>5. ASSUME NEW x \in Ids \cup {NoId}, StrayNotify(x)  PROVE UnclaimedRowIsCovered'
  <2>1. outcome_queue \in Seq(Ids \cup {NoId})
    BY DEF LoopTypeOK, BrokerTypeOK
  <2>2. Range(Append(outcome_queue, x)) = Range(outcome_queue) \cup {x}
    <3> DEFINE S == Ids \cup {NoId}
    <3>1. outcome_queue \in Seq(S) /\ x \in S
      BY <2>1
    <3> HIDE DEF S
    <3> QED  BY <3>1, RangeAppend
  <2>3. Range(outcome_queue) \subseteq Range(outcome_queue')
    BY <1>5, <2>2 DEF StrayNotify
  <2>4. UNCHANGED <<inbox, unnotified, pc, phase, todo, cur, missed>>
    BY <1>5 DEF StrayNotify
  <2> QED  BY <2>3, <2>4 DEF UnclaimedRowIsCovered
<1>6. CASE StatementFails
  BY <1>6 DEF StatementFails, Return, UnclaimedRowIsCovered, Statements
<1>7. CASE Crash
  BY <1>7 DEF Crash, LoopDies, UnclaimedRowIsCovered
<1>8. CASE Start
  BY <1>8 DEF Start, UnclaimedRowIsCovered
<1>9. CASE drain_outcome_inbox
  BY <1>9 DEF drain_outcome_inbox, UnclaimedRowIsCovered
<1>10. CASE drain_audit_replies
  BY <1>10 DEF drain_audit_replies, UnclaimedRowIsCovered
<1>11. CASE EnterServe
  BY <1>11 DEF EnterServe, UnclaimedRowIsCovered
<1>12. CASE DrainNext
  <2>1. PICK id \in todo : todo' = todo \ {id} /\ cur' = id
    BY <1>12 DEF DrainNext
  <2>2. /\ UNCHANGED <<inbox, unnotified, outcome_queue, phase, missed>> /\ pc = "next"
        /\ pc' = IF phase = "drain_outcomes" THEN "claim" ELSE "reply_select"
    BY <1>12 DEF DrainNext
  <2> QED  BY <2>1, <2>2 DEF UnclaimedRowIsCovered
<1>13. CASE handle_outcome_notify
  <2>1. Range(outcome_queue) \subseteq {cur'} \cup Range(outcome_queue')
    BY <1>13, RangeTail DEF handle_outcome_notify, LoopTypeOK, BrokerTypeOK
  <2>2. cur' \in Ids => pc' = "claim"
    BY <1>13 DEF handle_outcome_notify, Ids, NoId
  <2>3. /\ UNCHANGED <<inbox, unnotified, phase, todo, missed>>
        /\ pc = "next" /\ phase = "serve" /\ pc' \in {"next", "claim"}
    BY <1>13 DEF handle_outcome_notify
  <2> QED  BY <2>1, <2>2, <2>3 DEF UnclaimedRowIsCovered
<1>14. CASE handle_reply_notify
  BY <1>14 DEF handle_reply_notify, UnclaimedRowIsCovered
<1>15. CASE Claim
  BY <1>15 DEF Claim, UnclaimedRowIsCovered, LoopTypeOK, BrokerTypeOK, ProcessTypeOK
<1>16. CASE ClaimMisses
  BY <1>16 DEF ClaimMisses, Return, UnclaimedRowIsCovered
<1>17. CASE ReadAndDispatch
  BY <1>17 DEF ReadAndDispatch, Dispatch, UnclaimedRowIsCovered
<1>18. CASE ReadForRevision
  BY <1>18 DEF ReadForRevision, UnclaimedRowIsCovered
<1>19. CASE build_revision_events
  BY <1>19 DEF build_revision_events, Dispatch, UnclaimedRowIsCovered
<1>20. CASE RevisionWithoutPrior
  BY <1>20 DEF RevisionWithoutPrior, Return, UnclaimedRowIsCovered
<1>21. CASE InsertEvent
  BY <1>21 DEF InsertEvent, UnclaimedRowIsCovered
<1>22. CASE InsertRefused
  BY <1>22 DEF InsertRefused, Return, UnclaimedRowIsCovered
<1>23. CASE UpsertAttribute
  BY <1>23 DEF UpsertAttribute, UnclaimedRowIsCovered
<1>24. CASE EnqueueAudit
  BY <1>24 DEF EnqueueAudit, UnclaimedRowIsCovered
<1>25. CASE NotifyAudit
  BY <1>25 DEF NotifyAudit, UnclaimedRowIsCovered
<1>26. CASE delete_outcome_row
  BY <1>26 DEF delete_outcome_row, Return, UnclaimedRowIsCovered, LoopTypeOK, BrokerTypeOK
<1>27. CASE SelectReply
  BY <1>27 DEF SelectReply, Return, UnclaimedRowIsCovered
<1>28. CASE DeleteReply
  BY <1>28 DEF DeleteReply, Return, UnclaimedRowIsCovered
<1> QED
  BY <1>1, <1>2, <1>3, <1>4, <1>5, <1>6, <1>7, <1>8, <1>9, <1>10, <1>11,
     <1>12, <1>13, <1>14, <1>15, <1>16, <1>17, <1>18, <1>19, <1>20, <1>21,
     <1>22, <1>23, <1>24, <1>25, <1>26, <1>27, <1>28, Zenon
     DEF LoopNext, Broker, Unreliable, Loop

(***************************************************************************)
(* UnclaimedRowIsCovered: with LISTEN before the backlog drain no row can  *)
(* fall between the two, and no other step of run() loses a wake-up.       *)
(***************************************************************************)
THEOREM RowsAreCovered == LoopSpec => []UnclaimedRowIsCovered
<1>1. LoopInit => UnclaimedRowIsCovered
  BY DEF LoopInit, UnclaimedRowIsCovered
<1>2. LoopTypeOK /\ UnclaimedRowIsCovered /\ [LoopNext]_vars => UnclaimedRowIsCovered'
  <2> SUFFICES ASSUME LoopTypeOK, UnclaimedRowIsCovered, [LoopNext]_vars  PROVE UnclaimedRowIsCovered'
    OBVIOUS
  <2>1. CASE LoopNext
    BY <2>1, CoveredStep
  <2>2. CASE UNCHANGED vars
    BY <2>2 DEF vars, storeVars, brokerVars, queueVars, localVars, procVars, boundVars,
                histVars, UnclaimedRowIsCovered
  <2> QED  BY <2>1, <2>2
<1> QED  BY <1>1, <1>2, LoopTypeCorrect, PTL DEF LoopSpec

-----------------------------------------------------------------------------
(***************************************************************************)
(* The snapshot.                                                           *)
(***************************************************************************)
\* Between read and UPSERT nobody but the loop itself moves an attribute.
LEMMA SnapshotStep ==
  ASSUME LoopTypeOK, SnapshotCoherent, LoopNext
  PROVE  SnapshotCoherent'
<1> USE DEF storeVars, brokerVars, queueVars, localVars, procVars, boundVars, histVars
<1>1. CASE \/ (\E p \in Payloads : BrokerInsert(p))
            \/ (\E id \in Ids : BrokerNotify(id))
            \/ (\E a \in DOMAIN audit_inbox : BrokerReject(a))
            \/ (\E id \in Ids : NotifyLost(id))
            \/ (\E x \in Ids \cup {NoId} : StrayNotify(x)) \/ TimePasses
            \/ drain_audit_replies \/ EnterServe
  <2>1. UNCHANGED <<pc, projection, pending, attributes>>
    BY <1>1 DEF BrokerInsert, BrokerNotify, BrokerReject, NotifyLost,
             StrayNotify, TimePasses, drain_audit_replies, EnterServe
  <2> QED  BY <2>1 DEF SnapshotCoherent, first
<1>2. CASE StatementFails
  BY <1>2 DEF StatementFails, Return, NoEvents, SnapshotCoherent, LoopTypeOK, PendingTypeOK, Writing, first
<1>3. CASE Crash
  BY <1>3 DEF Crash, LoopDies, NoEvents, SnapshotCoherent
<1>4. CASE Start
  BY <1>4 DEF Start, SnapshotCoherent, LoopTypeOK, PendingTypeOK, Writing, first
<1>5. CASE drain_outcome_inbox
  BY <1>5 DEF drain_outcome_inbox, SnapshotCoherent, LoopTypeOK, PendingTypeOK, Writing, first
<1>6. CASE DrainNext
  BY <1>6 DEF DrainNext, SnapshotCoherent, LoopTypeOK, PendingTypeOK, Writing, first
<1>7. CASE handle_outcome_notify
  BY <1>7 DEF handle_outcome_notify, SnapshotCoherent, LoopTypeOK, PendingTypeOK, Writing, first
<1>8. CASE handle_reply_notify
  BY <1>8 DEF handle_reply_notify, SnapshotCoherent, LoopTypeOK, PendingTypeOK, Writing, first
<1>9. CASE Claim
  BY <1>9 DEF Claim, SnapshotCoherent, LoopTypeOK, PendingTypeOK, Writing, first
<1>10. CASE ClaimMisses
  BY <1>10 DEF ClaimMisses, Return, NoEvents, SnapshotCoherent, LoopTypeOK, PendingTypeOK, Writing, first
<1>11. CASE ReadAndDispatch
  <2>1. PICK evs : Dispatch(evs) /\ FaithfulTo(evs, attributes)
    BY <1>11, DispatchesFaithfully
  <2>2. pending' = evs /\ pc' # "prior" /\ UNCHANGED attributes
    BY <1>11, <2>1 DEF Dispatch, ReadAndDispatch
  <2> QED  BY <2>1, <2>2 DEF FaithfulTo, SnapshotCoherent
<1>12. CASE ReadForRevision
  BY <1>12 DEF ReadForRevision, SnapshotCoherent, LoopTypeOK, PendingTypeOK, Writing, first
<1>13. CASE build_revision_events
  <2>coherent. projection = attributes
    BY <1>13 DEF build_revision_events, SnapshotCoherent
  <2>1. PICK evs : Dispatch(evs) /\ FaithfulTo(evs, projection)
    BY <1>13, DispatchesFaithfully
  <2>2. pending' = evs /\ pc' # "prior" /\ UNCHANGED attributes
    BY <1>13, <2>1 DEF Dispatch, build_revision_events
  <2> QED  BY <2>1, <2>2, <2>coherent DEF FaithfulTo, SnapshotCoherent
<1>14. CASE RevisionWithoutPrior
  BY <1>14 DEF RevisionWithoutPrior, Return, NoEvents, SnapshotCoherent, LoopTypeOK, PendingTypeOK, Writing, first
<1>15. CASE InsertEvent
  <2>1. pc = "insert" /\ pc' \in {"audit", "upsert"} /\ UNCHANGED <<pending, attributes>>
    BY <1>15 DEF InsertEvent
  <2> QED  BY <2>1 DEF SnapshotCoherent
<1>16. CASE InsertRefused
  BY <1>16 DEF InsertRefused, Return, NoEvents, SnapshotCoherent, LoopTypeOK, PendingTypeOK, Writing, first
<1>17. CASE UpsertAttribute
  <2>1. PICK n \in DOMAIN pending : first(n) /\ upsert_attribute(pending[n])
    BY <1>17 DEF UpsertAttribute
  <2>2. attributes' = [attributes EXCEPT ![n] = pending[n].new_value]
    BY <2>1 DEF upsert_attribute, LoopTypeOK, PendingTypeOK
  <2>3. pc = "upsert" /\ pc' = "audit" /\ UNCHANGED pending
    BY <1>17 DEF UpsertAttribute
  <2>4. \A m \in DOMAIN pending : m # n => attributes'[m] = attributes[m]
    BY <2>2 DEF LoopTypeOK, StoreTypeOK, PendingTypeOK
  <2>5. first(n)'
    BY <2>1, <2>3 DEF first
  <2> QED  BY <2>3, <2>4, <2>5 DEF SnapshotCoherent
<1>18. CASE EnqueueAudit
  BY <1>18 DEF EnqueueAudit, SnapshotCoherent, LoopTypeOK, PendingTypeOK, Writing, first
<1>19. CASE NotifyAudit
  <2>1. PICK n \in DOMAIN pending : first(n) /\ pending' = Restrict(pending, DOMAIN pending \ {n})
    BY <1>19 DEF NotifyAudit
  <2>2. /\ DOMAIN pending' = DOMAIN pending \ {n}
        /\ \A m \in DOMAIN pending' : pending'[m] = pending[m]
    BY <2>1 DEF Restrict
  <2>3. \A m \in DOMAIN pending : first(m) => m = n
    BY <2>1 DEF first, LoopTypeOK, PendingTypeOK, Attrs
  <2>4. pc' # "prior" /\ UNCHANGED attributes
    BY <1>19 DEF NotifyAudit
  <2> QED  BY <2>2, <2>3, <2>4 DEF SnapshotCoherent
<1>20. CASE delete_outcome_row
  BY <1>20 DEF delete_outcome_row, Return, NoEvents, SnapshotCoherent, LoopTypeOK, PendingTypeOK, Writing, first
<1>21. CASE SelectReply
  BY <1>21 DEF SelectReply, Return, NoEvents, SnapshotCoherent, LoopTypeOK, PendingTypeOK, Writing, first
<1>22. CASE DeleteReply
  BY <1>22 DEF DeleteReply, Return, NoEvents, SnapshotCoherent, LoopTypeOK, PendingTypeOK, Writing, first
<1> QED
  BY <1>1, <1>2, <1>3, <1>4, <1>5, <1>6, <1>7, <1>8, <1>9, <1>10, <1>11,
     <1>12, <1>13, <1>14, <1>15, <1>16, <1>17, <1>18, <1>19, <1>20, <1>21,
     <1>22, Zenon
     DEF LoopNext, Broker, Unreliable, Loop

(***************************************************************************)
(* SnapshotCoherent holds of the run loop alone, as the header comment of  *)
(* run_loop.rs argues; beside the decay scheduler it does not (the run     *)
(* attrd_snapshot).                                                        *)
(***************************************************************************)
THEOREM SnapshotStaysCoherent == LoopSpec => []SnapshotCoherent
<1>1. LoopInit => SnapshotCoherent
  BY DEF LoopInit, NoEvents, SnapshotCoherent
<1>2. LoopTypeOK /\ SnapshotCoherent /\ [LoopNext]_vars => SnapshotCoherent'
  <2> SUFFICES ASSUME LoopTypeOK, SnapshotCoherent, [LoopNext]_vars  PROVE SnapshotCoherent'
    OBVIOUS
  <2>1. CASE LoopNext
    BY <2>1, SnapshotStep
  <2>2. CASE UNCHANGED vars
    BY <2>2 DEF vars, storeVars, brokerVars, queueVars, localVars, procVars, boundVars,
                histVars, SnapshotCoherent, first
  <2> QED  BY <2>1, <2>2
<1> QED  BY <1>1, <1>2, LoopTypeCorrect, PTL DEF LoopSpec

-----------------------------------------------------------------------------
(***************************************************************************)
(* At most one dispatch per row.                                           *)
(***************************************************************************)

\* Nothing is written for a row before it is claimed and dispatched, and the
\* write loop is always past what it has written.
OwnerWrites ==
  /\ \A id \in Ids : inbox[id] \in {"none", "queued"} => written[id] = {}
  /\ pc \in {"read", "prior"} => written[cur] = {}
  /\ pc = "insert" => \A x \in written[cur] : \A m \in DOMAIN pending : x[1] < m
  /\ pc \in Writing \ {"insert"} =>
       \A x \in written[cur] : \A m \in DOMAIN pending : x[1] <= m

OnceInv == OwnerWrites /\ DispatchedAtMostOnce

\* Every step keeps what a row has written behind the write loop.
LEMMA OnceStep ==
  ASSUME LoopTypeOK, OnceInv, LoopNext
  PROVE  OnceInv'
<1> USE DEF storeVars, brokerVars, queueVars, localVars, procVars, boundVars, histVars
<1>1. CASE \/ (\E id \in Ids : BrokerNotify(id))
            \/ (\E a \in DOMAIN audit_inbox : BrokerReject(a))
            \/ (\E id \in Ids : NotifyLost(id))
            \/ (\E x \in Ids \cup {NoId} : StrayNotify(x)) \/ TimePasses
            \/ drain_audit_replies \/ EnterServe
  <2>1. UNCHANGED <<inbox, written, pc, cur, pending>>
    BY <1>1 DEF BrokerNotify, BrokerReject, NotifyLost, StrayNotify, TimePasses,
             drain_audit_replies, EnterServe
  <2> QED  BY <2>1 DEF OnceInv, OwnerWrites, DispatchedAtMostOnce, Writing
<1>2. ASSUME NEW p \in Payloads, BrokerInsert(p)  PROVE OnceInv'
  <2>1. /\ next_id \in Ids /\ inbox' = [inbox EXCEPT ![next_id] = "queued"]
        /\ inbox[next_id] = "none" /\ UNCHANGED <<written, pc, cur, pending>>
    BY <1>2 DEF BrokerInsert, LoopTypeOK, BrokerTypeOK
  <2> QED  BY <2>1 DEF OnceInv, OwnerWrites, DispatchedAtMostOnce, LoopTypeOK, BrokerTypeOK
<1>3. CASE StatementFails
  BY <1>3 DEF StatementFails, Return, OnceInv, OwnerWrites, DispatchedAtMostOnce, Writing
<1>4. CASE Crash
  BY <1>4 DEF Crash, LoopDies, OnceInv, OwnerWrites, DispatchedAtMostOnce, Writing
<1>5. CASE Start
  BY <1>5 DEF Start, OnceInv, OwnerWrites, DispatchedAtMostOnce, Writing
<1>6. CASE drain_outcome_inbox
  BY <1>6 DEF drain_outcome_inbox, OnceInv, OwnerWrites, DispatchedAtMostOnce, Writing
<1>7. CASE DrainNext
  BY <1>7 DEF DrainNext, OnceInv, OwnerWrites, DispatchedAtMostOnce, Writing
<1>8. CASE handle_outcome_notify
  BY <1>8 DEF handle_outcome_notify, OnceInv, OwnerWrites, DispatchedAtMostOnce, Writing
<1>9. CASE handle_reply_notify
  BY <1>9 DEF handle_reply_notify, OnceInv, OwnerWrites, DispatchedAtMostOnce, Writing
<1>10. CASE Claim
  <2>1. /\ cur \in Ids /\ inbox[cur] = "queued" /\ inbox' = [inbox EXCEPT ![cur] = "claimed"]
        /\ pc' \in {"read", "delete"} /\ UNCHANGED <<written, cur, pending>>
    BY <1>10 DEF Claim, LoopTypeOK, ProcessTypeOK
  <2> QED  BY <2>1 DEF OnceInv, OwnerWrites, DispatchedAtMostOnce, LoopTypeOK, BrokerTypeOK, Writing
<1>11. CASE ClaimMisses
  BY <1>11 DEF ClaimMisses, Return, OnceInv, OwnerWrites, DispatchedAtMostOnce, Writing
<1>12. CASE ReadAndDispatch
  <2>1. /\ pc \in {"read", "prior"} /\ pc' \in {"insert", "delete"}
        /\ UNCHANGED <<inbox, written, cur>>
    BY <1>12 DEF ReadAndDispatch, Dispatch
  <2> QED  BY <2>1 DEF OnceInv, OwnerWrites, DispatchedAtMostOnce, Writing
<1>13. CASE ReadForRevision
  BY <1>13 DEF ReadForRevision, OnceInv, OwnerWrites, DispatchedAtMostOnce, Writing
<1>14. CASE build_revision_events
  <2>1. /\ pc \in {"read", "prior"} /\ pc' \in {"insert", "delete"}
        /\ UNCHANGED <<inbox, written, cur>>
    BY <1>14 DEF build_revision_events, Dispatch
  <2> QED  BY <2>1 DEF OnceInv, OwnerWrites, DispatchedAtMostOnce, Writing
<1>15. CASE RevisionWithoutPrior
  BY <1>15 DEF RevisionWithoutPrior, Return, OnceInv, OwnerWrites, DispatchedAtMostOnce, Writing
<1>16. CASE InsertEvent
  <2>1. PICK n \in DOMAIN pending :
               /\ first(n)
               /\ written' = [written EXCEPT ![cur] = @ \cup {<<n, pending[n].seq>>}]
    BY <1>16 DEF InsertEvent
  <2>2. /\ pc = "insert" /\ pc' \in {"audit", "upsert"} /\ UNCHANGED <<inbox, cur, pending>>
        /\ cur \in Ids /\ inbox[cur] = "claimed"
    BY <1>16 DEF InsertEvent, LoopTypeOK, ProcessTypeOK, Claimed, RowSteps, Statements
  <2>3. /\ written'[cur] = written[cur] \cup {<<n, pending[n].seq>>}
        /\ \A id \in Ids : id # cur => written'[id] = written[id]
    BY <2>1, <2>2 DEF LoopTypeOK, BrokerTypeOK
  <2>4. \A x \in written[cur] : x[1] \in Attrs /\ x[1] < n
    BY <2>2 DEF LoopTypeOK, BrokerTypeOK, OnceInv, OwnerWrites, DispatchedAtMostOnce
  <2>5. n \in Attrs /\ \A m \in DOMAIN pending : m \in Attrs /\ n <= m
    BY <2>1 DEF first, LoopTypeOK, PendingTypeOK
  <2>6. \A x \in written'[cur] : \A m \in DOMAIN pending' : x[1] <= m
    BY <2>2, <2>3, <2>4, <2>5 DEF Attrs
  <2>7. \A x, y \in written'[cur] : x[1] = y[1] => x = y
    BY <2>2, <2>3, <2>4, <2>5 DEF Attrs, OnceInv, OwnerWrites, DispatchedAtMostOnce
  <2> QED  BY <2>2, <2>3, <2>6, <2>7 DEF OnceInv, OwnerWrites, DispatchedAtMostOnce, Writing
<1>17. CASE InsertRefused
  BY <1>17 DEF InsertRefused, Return, OnceInv, OwnerWrites, DispatchedAtMostOnce, Writing
<1>18. CASE UpsertAttribute
  <2>1. /\ pc \in Writing \ {"insert"} /\ pc' \in Writing \ {"insert"}
        /\ UNCHANGED <<inbox, written, cur, pending>>
    BY <1>18 DEF UpsertAttribute, Writing
  <2> QED  BY <2>1 DEF OnceInv, OwnerWrites, DispatchedAtMostOnce, Writing
<1>19. CASE EnqueueAudit
  <2>1. /\ pc \in Writing \ {"insert"} /\ pc' \in Writing \ {"insert"}
        /\ UNCHANGED <<inbox, written, cur, pending>>
    BY <1>19 DEF EnqueueAudit, Writing
  <2> QED  BY <2>1 DEF OnceInv, OwnerWrites, DispatchedAtMostOnce, Writing
<1>20. CASE NotifyAudit
  <2>1. PICK n \in DOMAIN pending : first(n) /\ pending' = Restrict(pending, DOMAIN pending \ {n})
    BY <1>20 DEF NotifyAudit
  <2>2. DOMAIN pending' = DOMAIN pending \ {n}
    BY <2>1 DEF Restrict
  <2>3. /\ pc = "audit_notify" /\ pc' \in {"insert", "delete"} /\ UNCHANGED <<inbox, written, cur>>
        /\ cur \in Ids
    BY <1>20 DEF NotifyAudit, LoopTypeOK, ProcessTypeOK, Claimed, RowSteps, Statements
  <2>4. \A x \in written[cur] : x[1] \in Attrs /\ x[1] <= n
    BY <2>1, <2>3 DEF OnceInv, OwnerWrites, DispatchedAtMostOnce, Writing, LoopTypeOK, BrokerTypeOK
  <2>5. \A m \in DOMAIN pending' : m \in Attrs /\ n \in Attrs /\ n < m
    BY <2>1, <2>2 DEF first, LoopTypeOK, PendingTypeOK, Attrs
  <2>6. \A x \in written[cur] : \A m \in DOMAIN pending' : x[1] < m
    BY <2>4, <2>5 DEF Attrs
  <2> QED  BY <2>3, <2>6 DEF OnceInv, OwnerWrites, DispatchedAtMostOnce, Writing
<1>21. CASE delete_outcome_row
  BY <1>21 DEF delete_outcome_row, Return, OnceInv, OwnerWrites, DispatchedAtMostOnce, Writing
<1>22. CASE SelectReply
  BY <1>22 DEF SelectReply, Return, OnceInv, OwnerWrites, DispatchedAtMostOnce, Writing
<1>23. CASE DeleteReply
  BY <1>23 DEF DeleteReply, Return, OnceInv, OwnerWrites, DispatchedAtMostOnce, Writing
<1> QED
  BY <1>1, <1>2, <1>3, <1>4, <1>5, <1>6, <1>7, <1>8, <1>9, <1>10, <1>11,
     <1>12, <1>13, <1>14, <1>15, <1>16, <1>17, <1>18, <1>19, <1>20, <1>21,
     <1>22, <1>23, Zenon
     DEF LoopNext, Broker, Unreliable, Loop

\* The inductive invariant of the write loop.
LEMMA OnceInvariant == LoopSpec => []OnceInv
<1>1. LoopInit => OnceInv
  BY DEF LoopInit, OnceInv, OwnerWrites, DispatchedAtMostOnce, Writing
<1>2. LoopTypeOK /\ OnceInv /\ [LoopNext]_vars => OnceInv'
  <2> SUFFICES ASSUME LoopTypeOK, OnceInv, [LoopNext]_vars  PROVE OnceInv'
    OBVIOUS
  <2>1. CASE LoopNext
    BY <2>1, OnceStep
  <2>2. CASE UNCHANGED vars
    BY <2>2 DEF vars, storeVars, brokerVars, queueVars, localVars, procVars, boundVars,
                histVars, OnceInv, OwnerWrites, DispatchedAtMostOnce, Writing
  <2> QED  BY <2>1, <2>2
<1> QED  BY <1>1, <1>2, LoopTypeCorrect, PTL DEF LoopSpec

(***************************************************************************)
(* DispatchedAtMostOnce: the claim UPDATE is the only gate a row passes,   *)
(* and it passes once, whatever is notified twice, retried or restarted.   *)
(***************************************************************************)
THEOREM RowsAreDispatchedOnce == LoopSpec => []DispatchedAtMostOnce
<1>1. OnceInv => DispatchedAtMostOnce
  BY DEF OnceInv
<1> QED  BY <1>1, OnceInvariant, PTL
=============================================================================
