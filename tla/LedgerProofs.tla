---------------------------- MODULE LedgerProofs ----------------------------
(***************************************************************************)
(* Theorems about what the run loop leaves in the tables, for every number *)
(* of rows and every set of payloads: the audit inbox against the event    *)
(* log, the projection against the sum of the logged deltas, the value of  *)
(* friction, the seqs of a run.                                            *)
(***************************************************************************)
EXTENDS RunLoopProofs, Sums

-----------------------------------------------------------------------------
(***************************************************************************)
(* The steps of the run loop as the tables see them.                       *)
(***************************************************************************)

\* Neither a table nor the write loop moves.
Quiet == UNCHANGED <<events, attributes, audit_inbox, pending, pc, counters, faults, crashes>>

\* The loop moves between statements that write nothing.
Outside ==
  /\ UNCHANGED <<events, attributes, audit_inbox, counters, faults, crashes>>
  /\ pc \notin Writing /\ pc' \notin Writing
  /\ DOMAIN pending' = {}

\* The handler gives up: a failed statement, a crash, or a refused INSERT.
GivesUp ==
  /\ UNCHANGED <<events, attributes, audit_inbox>>
  /\ pc' \notin Writing /\ pc' # "prior"
  /\ DOMAIN pending' = {}
  /\ \/ faults' = faults + 1 /\ crashes' = crashes /\ counters' = counters
     \/ faults' = faults /\ crashes' = crashes + 1
     \/ pc = "insert" /\ faults' = faults /\ crashes' = crashes /\ counters' = counters

\* Every step is one of these, or one of the six that build and write events.
LEMMA LedgerSteps ==
  ASSUME LoopTypeOK, [LoopNext]_vars
  PROVE  \/ Quiet \/ Outside \/ GivesUp
         \/ ReadAndDispatch \/ build_revision_events
         \/ InsertEvent \/ UpsertAttribute \/ EnqueueAudit \/ NotifyAudit
<1> USE DEF storeVars, brokerVars, queueVars, localVars, procVars, boundVars, histVars
<1>0. (pc \notin Writing => DOMAIN pending = {}) /\ DOMAIN NoEvents = {}
  BY DEF LoopTypeOK, PendingTypeOK, NoEvents
<1>1. CASE \/ (\E p \in Payloads : BrokerInsert(p))
            \/ (\E id \in Ids : BrokerNotify(id))
            \/ (\E a \in DOMAIN audit_inbox : BrokerReject(a))
            \/ (\E id \in Ids : NotifyLost(id))
            \/ (\E x \in Ids \cup {NoId} : StrayNotify(x)) \/ TimePasses
            \/ drain_audit_replies \/ EnterServe \/ UNCHANGED vars
  <2>1. Quiet
    BY <1>1 DEF BrokerInsert, BrokerNotify, BrokerReject, NotifyLost, StrayNotify,
             TimePasses, drain_audit_replies, EnterServe, vars, Quiet
  <2> QED  BY <2>1
<1>2. CASE Start \/ drain_outcome_inbox \/ DrainNext \/ handle_outcome_notify
           \/ handle_reply_notify \/ Claim \/ ReadForRevision
  <2>1. Outside
    BY <1>0, <1>2 DEF Start, drain_outcome_inbox, DrainNext, handle_outcome_notify,
             handle_reply_notify, Claim, ReadForRevision, Outside, Writing
  <2> QED  BY <2>1
<1>3. CASE ClaimMisses \/ RevisionWithoutPrior \/ delete_outcome_row \/ SelectReply \/ DeleteReply
  <2>1. Outside
    BY <1>0, <1>3 DEF ClaimMisses, RevisionWithoutPrior, delete_outcome_row, SelectReply,
             DeleteReply, Return, Outside, Writing
  <2> QED  BY <2>1
<1>4. CASE StatementFails \/ Crash \/ InsertRefused
  <2>1. GivesUp
    BY <1>0, <1>4 DEF StatementFails, Crash, LoopDies, InsertRefused, Return, GivesUp, Writing
  <2> QED  BY <2>1
<1>5. CASE \/ ReadAndDispatch \/ build_revision_events \/ InsertEvent
           \/ UpsertAttribute \/ EnqueueAudit \/ NotifyAudit
  BY <1>5
<1>6. LoopNext \/ UNCHANGED vars
  OBVIOUS
<1> QED
  BY <1>1, <1>2, <1>3, <1>4, <1>5, <1>6, Zenon DEF LoopNext, Broker, Unreliable, Loop

\* The event the write loop is at.
LEMMA FirstIsUnique ==
  ASSUME LoopTypeOK, NEW m, NEW n, first(m), first(n)
  PROVE  m = n
BY DEF first, LoopTypeOK, PendingTypeOK, Attrs

\* Inserting appends one new event, with a fresh id, to the log.
LEMMA InsertFacts ==
  ASSUME LoopTypeOK, InsertEvent
  PROVE  \E n \in DOMAIN pending :
           /\ first(n) /\ n \in Attrs /\ pending[n] \in Event /\ pending[n].name = n
           /\ pending[n] \notin events
           /\ \A e \in events : event_id(e) # event_id(pending[n])
           /\ events' = events \cup {pending[n]}
           /\ pc = "insert" /\ pc' = IF pending[n].disabled THEN "audit" ELSE "upsert"
           /\ UNCHANGED <<attributes, audit_inbox, pending, counters, faults, crashes>>
           /\ \A m \in DOMAIN pending' : first(m)' => m = n
<1> USE DEF storeVars, brokerVars, queueVars, localVars, procVars, boundVars, histVars
<1>1. PICK n \in DOMAIN pending :
             /\ first(n) /\ insert_accepts(pending[n])
             /\ events' = events \cup {pending[n]}
             /\ pc' = IF pending[n].disabled THEN "audit" ELSE "upsert"
  BY DEF InsertEvent, insert_event
<1>2. /\ pc = "insert" /\ UNCHANGED <<attributes, audit_inbox, pending, counters, faults, crashes>>
  BY DEF InsertEvent
<1>3. n \in Attrs /\ pending[n] \in Event /\ pending[n].name = n
  BY <1>1 DEF LoopTypeOK, PendingTypeOK, insert_accepts
<1>4. pending[n] \notin events /\ \A e \in events : event_id(e) # event_id(pending[n])
  BY <1>1 DEF insert_accepts
<1>5. \A m : first(m)' => m = n
  BY <1>1, <1>2, FirstIsUnique DEF first
<1> QED  BY <1>1, <1>2, <1>3, <1>4, <1>5

-----------------------------------------------------------------------------
(***************************************************************************)
(* The event log and the audit inbox.                                      *)
(***************************************************************************)

LEMMA LogStep ==
  ASSUME LoopTypeOK, LogOK, [LoopNext]_vars
  PROVE  LogOK'
<1>1. CASE Quiet \/ Outside \/ GivesUp
  BY <1>1 DEF Quiet, Outside, GivesUp, LogOK, Keyed, event_id
<1>2. CASE \/ ReadAndDispatch \/ build_revision_events \/ UpsertAttribute
           \/ EnqueueAudit \/ NotifyAudit
  <2>1. UNCHANGED events
    BY <1>2 DEF ReadAndDispatch, build_revision_events, UpsertAttribute, EnqueueAudit,
             NotifyAudit, storeVars
  <2> QED  BY <2>1 DEF LogOK, Keyed, event_id
<1>3. CASE InsertEvent
  <2>1. PICK x \in Event : /\ events' = events \cup {x}
                           /\ \A e \in events : event_id(e) # event_id(x)
    BY <1>3, InsertFacts
  <2>2. IsFiniteSet(events')
    BY <2>1, FS_AddElement DEF LogOK
  <2> QED  BY <2>1, <2>2 DEF LogOK, Keyed, event_id
<1> QED  BY <1>1, <1>2, <1>3, LedgerSteps

LEMMA LogInvariant == LoopSpec => []LogOK
<1>1. LoopInit => LogOK
  BY FS_EmptySet DEF LoopInit, StoreInit, LogOK, Keyed
<1>2. LoopTypeOK /\ LogOK /\ [LoopNext]_vars => LogOK'
  BY LogStep
<1> QED  BY <1>1, <1>2, LoopTypeCorrect, PTL DEF LoopSpec

\* AuditFollowsLog, and no audit row for the event that has yet to get one.
AuditInv ==
  /\ AuditFollowsLog
  /\ pc \in {"upsert", "audit"} =>
       \A n \in DOMAIN pending : first(n) => event_id(pending[n]) \notin Range(audit_inbox)

LEMMA AuditStep ==
  ASSUME LoopTypeOK, LogOK, AuditInv, [LoopNext]_vars
  PROVE  AuditInv'
<1> DEFINE behind == Cardinality(events) - Len(audit_inbox)
<1>0. /\ audit_inbox \in Seq(Nat \X Nat) /\ Len(audit_inbox) \in Nat
      /\ IsFiniteSet(events) /\ Cardinality(events) \in Nat
      /\ faults \in Nat /\ crashes \in Nat /\ events \subseteq Event
  BY FS_CardinalityType DEF LoopTypeOK, StoreTypeOK, LogOK
<1>1. CASE Quiet
  BY <1>1 DEF Quiet, AuditInv, AuditFollowsLog, first, event_id
<1>2. CASE Outside \/ GivesUp
  <2>1. /\ UNCHANGED <<events, audit_inbox>> /\ pc' \notin {"upsert", "audit"}
        /\ faults' + crashes' >= faults + crashes + (IF pc \in {"upsert", "audit"} THEN 1 ELSE 0)
    BY <1>0, <1>2 DEF Outside, GivesUp, Writing
  <2>2. behind <= faults' + crashes'
    <3>1. faults' \in Nat /\ crashes' \in Nat
      BY <1>0, <1>2 DEF Outside, GivesUp
    <3> QED  BY <1>0, <2>1, <3>1 DEF AuditInv, AuditFollowsLog
  <2>3. faults' + crashes' \in Nat
    BY <1>0, <1>2 DEF Outside, GivesUp
  <2> QED  BY <2>1, <2>2, <2>3 DEF AuditInv, AuditFollowsLog, event_id
<1>3. CASE ReadAndDispatch \/ build_revision_events
  <2>1. /\ UNCHANGED <<events, audit_inbox, faults, crashes>>
        /\ pc \notin {"upsert", "audit"} /\ pc' \notin {"upsert", "audit"}
    BY <1>3 DEF ReadAndDispatch, build_revision_events, Dispatch, storeVars, boundVars
  <2> QED  BY <2>1 DEF AuditInv, AuditFollowsLog, event_id
<1>4. CASE InsertEvent
  <2>1. PICK n \in DOMAIN pending :
               /\ first(n) /\ pending[n] \in Event
               /\ \A e \in events : event_id(e) # event_id(pending[n])
               /\ events' = events \cup {pending[n]} /\ pending[n] \notin events
               /\ pc = "insert" /\ pc' \in {"audit", "upsert"}
               /\ UNCHANGED <<audit_inbox, pending, faults, crashes>>
               /\ \A m \in DOMAIN pending' : first(m)' => m = n
    BY <1>4, InsertFacts
  <2>2. Cardinality(events') = Cardinality(events) + 1
    BY <1>0, <2>1, FS_AddElement
  <2>3. event_id(pending[n]) \notin Range(audit_inbox)
    BY <2>1 DEF AuditInv, AuditFollowsLog
  <2>4. Range(audit_inbox) \subseteq {event_id(e) : e \in events'}
    BY <2>1 DEF AuditInv, AuditFollowsLog
  <2>5. behind <= faults + crashes
    BY <1>0, <2>1 DEF AuditInv, AuditFollowsLog
  <2>6. Cardinality(events') - Len(audit_inbox) <= faults + crashes + 1
    BY <1>0, <2>2, <2>5
  <2>7. AuditFollowsLog'
    BY <2>1, <2>4, <2>6 DEF AuditInv, AuditFollowsLog, event_id
  <2>8. \A m \in DOMAIN pending' : first(m)' => event_id(pending[m])' \notin Range(audit_inbox')
    BY <2>1, <2>3 DEF event_id
  <2> QED  BY <2>7, <2>8 DEF AuditInv
<1>5. CASE UpsertAttribute
  <2>1. /\ UNCHANGED <<events, audit_inbox, pending, faults, crashes>>
        /\ pc = "upsert" /\ pc' = "audit"
    BY <1>5 DEF UpsertAttribute, localVars, boundVars
  <2> QED  BY <2>1 DEF AuditInv, AuditFollowsLog, first, event_id
<1>6. CASE EnqueueAudit
  <2>1. PICK n \in DOMAIN pending : first(n) /\ audit_inbox' = Append(audit_inbox, event_id(pending[n]))
    BY <1>6 DEF EnqueueAudit, enqueue_audit_event
  <2>2. /\ UNCHANGED <<events, pending, faults, crashes>>
        /\ pc = "audit" /\ pc' = "audit_notify"
    BY <1>6 DEF EnqueueAudit, localVars, boundVars
  <2> DEFINE x == event_id(pending[n])
  <2>3. pending[n] \in events /\ x \in Nat \X Nat /\ x \notin Range(audit_inbox)
    BY <1>0, <2>1, <2>2 DEF LoopTypeOK, PendingTypeOK, Writing, AuditInv, Event, event_id
  <2>4. x \in {event_id(e) : e \in events}
    BY <2>3
  <2> HIDE DEF x
  <2>5. /\ Len(audit_inbox') = Len(audit_inbox) + 1
        /\ Range(audit_inbox') = Range(audit_inbox) \cup {x}
        /\ IsInjective(audit_inbox')
    <3>1. IsInjective(audit_inbox)
      BY DEF AuditInv, AuditFollowsLog
    <3> DEFINE S == Nat \X Nat
    <3>2. audit_inbox \in Seq(S) /\ x \in S /\ audit_inbox' = Append(audit_inbox, x)
      BY <1>0, <2>1, <2>3 DEF x
    <3> HIDE DEF S
    <3>3. Range(audit_inbox') = Range(audit_inbox) \cup {x}
      BY <3>2, RangeAppend
    <3>4. /\ Len(audit_inbox') = Len(audit_inbox) + 1
          /\ DOMAIN audit_inbox' = 1..(Len(audit_inbox) + 1)
          /\ \A i \in 1..Len(audit_inbox) : audit_inbox'[i] = audit_inbox[i]
          /\ audit_inbox'[Len(audit_inbox) + 1] = x
          /\ DOMAIN audit_inbox = 1..Len(audit_inbox)
      BY <3>2
    <3>5. \A i \in 1..Len(audit_inbox) : audit_inbox[i] # x
      BY <2>3, <3>4 DEF Range
    <3>6. IsInjective(audit_inbox')
      BY <1>0, <3>1, <3>4, <3>5 DEF IsInjective
    <3> QED  BY <3>3, <3>4, <3>6
  <2>6. Range(audit_inbox') \subseteq {event_id(e) : e \in events}
    BY <2>4, <2>5 DEF AuditInv, AuditFollowsLog
  <2>7. behind - 1 <= faults + crashes
    BY <1>0, <2>2 DEF AuditInv, AuditFollowsLog
  <2>8. Cardinality(events) - Len(audit_inbox') <= faults + crashes
    BY <1>0, <2>5, <2>7
  <2>9. pc' \notin {"upsert", "audit"} /\ UNCHANGED <<events, faults, crashes>>
    BY <2>2
  <2>10. {event_id(e) : e \in events}' = {event_id(e) : e \in events}
    BY <2>9 DEF event_id
  <2>11. Cardinality(events') - Len(audit_inbox') <= faults' + crashes'
    BY <2>8, <2>9
  <2>12. faults' + crashes' \in Nat /\ faults' + crashes' + 0 = faults' + crashes'
    BY <1>0, <2>9
  <2>13. AuditFollowsLog'
    BY <2>5, <2>6, <2>9, <2>10, <2>11, <2>12 DEF AuditFollowsLog
  <2> QED  BY <2>9, <2>13 DEF AuditInv
<1>7. CASE NotifyAudit
  <2>1. /\ UNCHANGED <<events, audit_inbox, faults, crashes>>
        /\ pc = "audit_notify" /\ pc' \notin {"upsert", "audit"}
    BY <1>7 DEF NotifyAudit, storeVars, boundVars
  <2> QED  BY <2>1 DEF AuditInv, AuditFollowsLog, event_id
<1> QED  BY <1>1, <1>2, <1>3, <1>4, <1>5, <1>6, <1>7, LedgerSteps

(***************************************************************************)
(* AuditFollowsLog: an event reaches the audit inbox at most once and only *)
(* after its INSERT, and only a failed statement or a crash between INSERT *)
(* and enqueue_audit_event leaves an event without its audit row.          *)
(***************************************************************************)
THEOREM AuditStaysBehindLog == LoopSpec => []AuditFollowsLog
<1>1. LoopInit => AuditInv
  <2> SUFFICES ASSUME LoopInit  PROVE AuditInv
    OBVIOUS
  <2>1. /\ events = {} /\ audit_inbox = <<>> /\ faults = 0 /\ crashes = 0 /\ pc = "down"
    BY DEF LoopInit, StoreInit
  <2>2. Cardinality(events) = 0 /\ Len(audit_inbox) = 0 /\ Range(audit_inbox) = {}
    BY <2>1, FS_EmptySet DEF Range
  <2>3. IsInjective(audit_inbox)
    BY <2>1 DEF IsInjective
  <2> QED  BY <2>1, <2>2, <2>3 DEF AuditInv, AuditFollowsLog
<1>2. LoopTypeOK /\ LogOK /\ AuditInv /\ [LoopNext]_vars => AuditInv'
  BY AuditStep
<1>3. AuditInv => AuditFollowsLog
  BY DEF AuditInv
<1> QED  BY <1>1, <1>2, <1>3, LoopTypeCorrect, LogInvariant, PTL DEF LoopSpec

-----------------------------------------------------------------------------
(***************************************************************************)
(* The projection and the sum of the logged deltas.                        *)
(***************************************************************************)

\* The events of the set E that rebuild an attribute: disabled ones do not.
enabled_of(E, n) == {e \in E : e.name = n /\ ~e.disabled}

LEMMA NetDelta ==
  /\ \A n : net_delta(n) = sum_of(enabled_of(events, n))
  /\ \A n : net_delta(n)' = sum_of(enabled_of(events', n))
<1>1. \A n : net_delta(n) = MapThenSumSet(delta, enabled_of(events, n))
  BY Zenon DEF net_delta, enabled_of
<1>2. \A n : net_delta(n)' = MapThenSumSet(delta, enabled_of(events', n))
  BY Zenon DEF net_delta, enabled_of
<1> QED  BY <1>1, <1>2, SumDefinition, Zenon

\* What the event between its INSERT and its UPSERT is still to add.
owed(n) == IF pc = "upsert" /\ n \in DOMAIN pending /\ first(n)
           THEN delta(pending[n]) ELSE 0

drifted == {n \in Attrs : attributes[n] + owed(n) # net_delta(n)}

\* Counting what is owed, no step of the write loop makes an attribute drift.
DriftInv == Cardinality(drifted) <= faults + crashes

LEMMA ValueIsInt == Value \subseteq Int
BY DEF Value, ONE

LEMMA EventDelta ==
  ASSUME NEW e \in Event
  PROVE  e.old_value \in Int /\ e.new_value \in Int /\ delta(e) \in Int
<1>1. e.old_value \in Value /\ e.new_value \in Value
  BY DEF Event
<1>2. e.old_value \in Int /\ e.new_value \in Int
  BY <1>1, ValueIsInt
<1> QED  BY <1>2 DEF delta

\* Logged deltas are integers, and so are their sums.
LEMMA EnabledSum ==
  ASSUME LoopTypeOK, LogOK, NEW n
  PROVE  /\ IsFiniteSet(enabled_of(events, n))
         /\ \A e \in enabled_of(events, n) : delta(e) \in Int
         /\ net_delta(n) \in Int /\ net_delta(n) = sum_of(enabled_of(events, n))
<1>1. IsFiniteSet(enabled_of(events, n))
  BY FS_Subset DEF LogOK, enabled_of
<1>2. \A e \in enabled_of(events, n) : delta(e) \in Int
  BY EventDelta DEF LoopTypeOK, StoreTypeOK, enabled_of
<1>3. sum_of(enabled_of(events, n)) \in Int
  BY <1>1, <1>2, SumType
<1> QED  BY <1>1, <1>2, <1>3, NetDelta

LEMMA DriftStep ==
  ASSUME LoopTypeOK, LogOK, SnapshotCoherent, DriftInv, [LoopNext]_vars
  PROVE  DriftInv'
<1>0. /\ faults \in Nat /\ crashes \in Nat /\ IsFiniteSet(drifted) /\ Cardinality(drifted) \in Nat
      /\ \A n \in Attrs : attributes[n] \in Int
      /\ \A n : net_delta(n) \in Int
  <2>1. IsFiniteSet(Attrs)
    <3>1. 1 \in Int /\ 8 \in Int
      OBVIOUS
    <3> QED  BY <3>1, FS_Interval, Zenon DEF Attrs
  <2>2. IsFiniteSet(drifted) /\ Cardinality(drifted) \in Nat
    BY <2>1, FS_Subset, FS_CardinalityType DEF drifted
  <2>3. \A n \in Attrs : attributes[n] \in Int
    BY ValueIsInt DEF LoopTypeOK, StoreTypeOK
  <2> QED  BY <2>2, <2>3, EnabledSum DEF LoopTypeOK, StoreTypeOK
<1>1. ASSUME drifted' = drifted, UNCHANGED <<faults, crashes>>
      PROVE  DriftInv'
  BY <1>1 DEF DriftInv
<1>2. CASE UNCHANGED events
  <2>1. \A n : net_delta(n)' = net_delta(n)
    BY <1>2, NetDelta DEF enabled_of
  <2>2. CASE Quiet
    <3>1. \A n : owed(n)' = owed(n)
      BY <2>2 DEF Quiet, owed, first, delta
    <3>2. UNCHANGED <<attributes, faults, crashes>>
      BY <2>2 DEF Quiet
    <3>3. drifted' = drifted
      BY <2>1, <3>1, <3>2 DEF drifted
    <3> QED  BY <1>1, <3>2, <3>3
  <2>3. ASSUME UNCHANGED <<attributes, faults, crashes>>, pc # "upsert", pc' # "upsert"
        PROVE  DriftInv'
    <3>1. \A n : owed(n)' = owed(n)
      BY <2>3 DEF owed
    <3>2. drifted' = drifted
      BY <2>1, <2>3, <3>1 DEF drifted
    <3> QED  BY <1>1, <2>3, <3>2
  <2>4. CASE Outside
    BY <2>3, <2>4 DEF Outside, Writing
  <2>5. CASE ReadAndDispatch \/ build_revision_events
    BY <2>3, <2>5 DEF ReadAndDispatch, build_revision_events, Dispatch, storeVars, boundVars
  <2>6. CASE EnqueueAudit \/ NotifyAudit
    BY <2>3, <2>6 DEF EnqueueAudit, NotifyAudit, storeVars, boundVars
  <2>7. CASE GivesUp
    <3>1. UNCHANGED attributes /\ pc' # "upsert"
      BY <2>7 DEF GivesUp, Writing
    <3>2. \A n : owed(n)' = 0
      BY <3>1 DEF owed
    <3>3. CASE pc # "upsert"
      <4>1. \A n : owed(n) = 0
        BY <3>3 DEF owed
      <4>2. drifted' = drifted
        BY <2>1, <3>1, <3>2, <4>1 DEF drifted
      <4>3. faults' + crashes' >= faults + crashes /\ faults' + crashes' \in Nat
        BY <1>0, <2>7 DEF GivesUp
      <4>4. Cardinality(drifted') = Cardinality(drifted)
        BY <4>2
      <4> QED  BY <1>0, <4>3, <4>4 DEF DriftInv
    <3>4. CASE pc = "upsert"
      <4>1. PICK n : \A m \in DOMAIN pending : first(m) => m = n
        BY FirstIsUnique
      <4>2. \A m : m # n => owed(m) = 0
        BY <4>1 DEF owed
      <4>3. drifted' \subseteq drifted \cup {n}
        BY <2>1, <3>1, <3>2, <4>2 DEF drifted
      <4>4. Cardinality(drifted') <= Cardinality(drifted) + 1 /\ Cardinality(drifted') \in Nat
        <5>1. /\ IsFiniteSet(drifted \cup {n})
              /\ Cardinality(drifted \cup {n}) \in {Cardinality(drifted), Cardinality(drifted) + 1}
          BY <1>0, FS_AddElement
        <5>2. /\ IsFiniteSet(drifted')
              /\ Cardinality(drifted') <= Cardinality(drifted \cup {n})
          BY <4>3, <5>1, FS_Subset
        <5>3. Cardinality(drifted') \in Nat
          BY <5>2, FS_CardinalityType
        <5> QED  BY <1>0, <5>1, <5>2, <5>3
      <4>5. faults' + crashes' = faults + crashes + 1
        BY <1>0, <2>7, <3>4 DEF GivesUp
      <4> QED  BY <1>0, <4>4, <4>5 DEF DriftInv
    <3> QED  BY <3>3, <3>4
  <2>8. CASE UpsertAttribute
    <3>1. PICK n \in DOMAIN pending : first(n) /\ upsert_attribute(pending[n])
      BY <2>8 DEF UpsertAttribute
    <3>2. /\ pc = "upsert" /\ pc' = "audit" /\ UNCHANGED <<pending, faults, crashes>>
          /\ attributes' = [attributes EXCEPT ![n] = pending[n].new_value]
      BY <2>8, <3>1 DEF UpsertAttribute, localVars, boundVars, upsert_attribute,
                        LoopTypeOK, PendingTypeOK
    <3>3. n \in Attrs /\ pending[n] \in Event /\ pending[n].old_value = attributes[n]
      BY <3>1, <3>2 DEF LoopTypeOK, PendingTypeOK, StoreTypeOK, Writing, SnapshotCoherent
    <3>4. /\ owed(n) = pending[n].new_value - attributes[n]
          /\ \A m : m # n => owed(m) = 0
          /\ \A m : owed(m)' = 0
      BY <3>1, <3>2, <3>3, FirstIsUnique DEF owed, delta
    <3>5. /\ attributes'[n] = pending[n].new_value
          /\ \A m \in Attrs : m # n => attributes'[m] = attributes[m]
      BY <3>2, <3>3 DEF LoopTypeOK, StoreTypeOK
    <3>6. attributes'[n] + owed(n)' = attributes[n] + owed(n)
      BY <1>0, <3>3, <3>4, <3>5, EventDelta
    <3>7. drifted' = drifted
      BY <2>1, <3>4, <3>5, <3>6 DEF drifted
    <3> QED  BY <1>1, <3>2, <3>7
  <2>9. CASE InsertEvent
    <3>1. FALSE
      BY <1>2, <2>9, InsertFacts
    <3> QED  BY <3>1
  <2> QED  BY <2>2, <2>4, <2>5, <2>6, <2>7, <2>8, <2>9, LedgerSteps
<1>3. CASE InsertEvent
  <2>1. PICK n \in DOMAIN pending :
               /\ first(n) /\ n \in Attrs /\ pending[n] \in Event /\ pending[n].name = n
               /\ pending[n] \notin events
               /\ events' = events \cup {pending[n]}
               /\ pc = "insert" /\ pc' = IF pending[n].disabled THEN "audit" ELSE "upsert"
               /\ UNCHANGED <<attributes, pending, faults, crashes>>
               /\ \A m \in DOMAIN pending' : first(m)' => m = n
    BY <1>3, InsertFacts
  <2> DEFINE x == pending[n]
             E == enabled_of(events, n)
  <2>2. \A m : owed(m) = 0
    BY <2>1 DEF owed
  <2>3. \A m : m # n => net_delta(m)' = net_delta(m) /\ owed(m)' = 0
    <3>1. \A m : m # n => enabled_of(events', m) = enabled_of(events, m)
      BY <2>1 DEF enabled_of
    <3>2. \A m : m # n => owed(m)' = 0
      BY <2>1 DEF owed
    <3> QED  BY <3>1, <3>2, NetDelta
  <2>4. x \notin E /\ IsFiniteSet(E) /\ \A e \in E : delta(e) \in Int
    BY <2>1, EnabledSum DEF enabled_of
  <2>5. delta(x) \in Int
    BY <2>1, EventDelta
  <2>6. CASE x.disabled
    <3>1. enabled_of(events', n) = E /\ owed(n)' = 0
      BY <2>1, <2>6 DEF enabled_of, owed
    <3>2. net_delta(n)' = net_delta(n)
      BY <3>1, NetDelta
    <3>3. drifted' = drifted
      BY <2>1, <2>2, <2>3, <3>1, <3>2 DEF drifted
    <3> QED  BY <1>1, <2>1, <3>3
  <2>7. CASE ~x.disabled
    <3>1. enabled_of(events', n) = E \cup {x}
      BY <2>1, <2>7 DEF enabled_of
    <3>2. owed(n)' = delta(x)
      <4>1. first(n)'
        BY <2>1 DEF first
      <4>2. pc' = "upsert"
        BY <2>1, <2>7
      <4> QED  BY <2>1, <4>1, <4>2 DEF owed, delta
    <3>3. sum_of(E \cup {x}) = delta(x) + sum_of(E)
      <4> HIDE DEF x, E
      <4> QED  BY <2>4, <2>5, SumAdd
    <3>4. net_delta(n)' = delta(x) + net_delta(n)
      BY <3>1, <3>3, NetDelta
    <3>5. attributes[n] + owed(n)' # net_delta(n)' <=> attributes[n] + owed(n) # net_delta(n)
      BY <1>0, <2>1, <2>2, <2>5, <3>2, <3>4
    <3>6. drifted' = drifted
      BY <2>1, <2>2, <2>3, <3>5 DEF drifted
    <3> QED  BY <1>1, <2>1, <3>6
  <2> QED  BY <2>6, <2>7
<1>4. InsertEvent \/ UNCHANGED events
  <2>1. CASE Quiet \/ Outside \/ GivesUp
    BY <2>1 DEF Quiet, Outside, GivesUp
  <2>2. CASE ReadAndDispatch \/ build_revision_events \/ UpsertAttribute \/ EnqueueAudit \/ NotifyAudit
    BY <2>2 DEF ReadAndDispatch, build_revision_events, UpsertAttribute, EnqueueAudit,
             NotifyAudit, storeVars
  <2> QED  BY <2>1, <2>2, LedgerSteps
<1> QED  BY <1>2, <1>3, <1>4

(***************************************************************************)
(* DriftOnlyByFailure: the projection is what the enabled events add up    *)
(* to, except for the event between INSERT and UPSERT and one attribute    *)
(* for each statement that failed or crash that fell between the two.      *)
(***************************************************************************)
THEOREM ProjectionIsTheSum == LoopSpec => []DriftOnlyByFailure
<1>1. LoopInit => DriftInv
  <2> SUFFICES ASSUME LoopInit  PROVE DriftInv
    OBVIOUS
  <2>1. /\ events = {} /\ faults = 0 /\ crashes = 0 /\ pc = "down"
        /\ attributes = [n \in Attrs |-> 0]
    BY DEF LoopInit, StoreInit
  <2>2. \A n : net_delta(n) = 0
    <3>1. \A n : enabled_of(events, n) = {}
      BY <2>1 DEF enabled_of
    <3> QED  BY <3>1, NetDelta, SumEmpty
  <2>3. drifted = {}
    BY <2>1, <2>2 DEF drifted, owed
  <2>4. Cardinality({}) = 0
    BY FS_EmptySet
  <2> QED  BY <2>1, <2>3, <2>4 DEF DriftInv
<1>2. LoopTypeOK /\ LogOK /\ SnapshotCoherent /\ DriftInv /\ [LoopNext]_vars => DriftInv'
  BY DriftStep
<1>3. LoopTypeOK /\ LogOK /\ DriftInv => DriftOnlyByFailure
  <2> SUFFICES ASSUME LoopTypeOK, LogOK, DriftInv  PROVE DriftOnlyByFailure
    OBVIOUS
  <2> DEFINE apart == {n \in Attrs : attributes[n] # net_delta(n)}
  <2>0. faults \in Nat /\ crashes \in Nat /\ \A n \in Attrs : attributes[n] \in Int
    BY ValueIsInt DEF LoopTypeOK, StoreTypeOK
  <2>1. IsFiniteSet(drifted) /\ Cardinality(drifted) \in Nat
    <3>1. 1 \in Int /\ 8 \in Int
      OBVIOUS
    <3>2. IsFiniteSet(Attrs)
      BY <3>1, FS_Interval, Zenon DEF Attrs
    <3> QED  BY <3>2, FS_Subset, FS_CardinalityType DEF drifted
  <2>2. CASE pc # "upsert"
    <3>1. \A n : owed(n) = 0
      BY <2>2 DEF owed
    <3>2. apart = drifted
      BY <2>0, <3>1 DEF drifted
    <3> QED  BY <2>0, <2>1, <2>2, <3>2 DEF DriftInv, DriftOnlyByFailure
  <2>3. CASE pc = "upsert"
    <3>1. PICK n : \A m \in DOMAIN pending : first(m) => m = n
      BY FirstIsUnique
    <3>2. \A m : m # n => owed(m) = 0
      BY <3>1 DEF owed
    <3>3. apart \subseteq drifted \cup {n}
      BY <2>0, <3>2 DEF drifted
    <3>4. /\ IsFiniteSet(drifted \cup {n})
          /\ Cardinality(drifted \cup {n}) \in {Cardinality(drifted), Cardinality(drifted) + 1}
      BY <2>1, FS_AddElement
    <3>5. IsFiniteSet(apart) /\ Cardinality(apart) <= Cardinality(drifted \cup {n})
      BY <3>3, <3>4, FS_Subset
    <3>6. Cardinality(apart) \in Nat
      BY <3>5, FS_CardinalityType
    <3>7. Cardinality(apart) <= faults + crashes + 1
      <4> HIDE DEF apart
      <4> QED  BY <2>0, <2>1, <3>4, <3>5, <3>6 DEF DriftInv
    <3> QED  BY <2>3, <3>7 DEF DriftOnlyByFailure
  <2> QED  BY <2>2, <2>3
<1> QED  BY <1>1, <1>2, <1>3, LoopTypeCorrect, LogInvariant, SnapshotStaysCoherent, PTL DEF LoopSpec

-----------------------------------------------------------------------------
(***************************************************************************)
(* Friction.                                                               *)
(***************************************************************************)

\* An event that neither fires the friction cap nor moves friction from zero.
mild(e) ==
  /\ "friction_cap" \notin e.caps_applied
  /\ e.name = friction => e.old_value = 0 /\ e.new_value = 0

\* A friction delta that is not positive leaves friction at zero.
LEMMA EmitMild ==
  ASSUME NEW p, NEW counter, NEW proj, proj[friction] = 0, NEW d,
         friction \in DOMAIN d => d[friction] \in Int /\ d[friction] <= 0
  PROVE  \A n \in DOMAIN emit(p, counter, proj, d) : mild(emit(p, counter, proj, d)[n])
<1> DEFINE snap == [doubt |-> proj[doubt], shame |-> proj[shame]]
           evs  == emit(p, counter, proj, d)
<1>1. DOMAIN evs = DOMAIN d
  BY DEF emit
<1>2. ASSUME NEW n \in DOMAIN d  PROVE mild(evs[n])
  <2> DEFINE plan == plan_for(n, d[n], proj[n], snap)
  <2>1. /\ evs[n].name = n /\ evs[n].caps_applied = plan.caps_applied
        /\ evs[n].old_value = plan.old_value /\ evs[n].new_value = plan.new_value
    BY DEF emit, event_insert_from_plan
  <2>2. plan.old_value = proj[n]
    BY DEF plan_for
  <2>3. ~(n = friction /\ d[n] > 0)
    BY <1>2
  <2>4. "friction_cap" \notin plan.caps_applied
    BY <2>3 DEF plan_for
  <2>5. CASE n = friction
    <3>1. plan.new_value = clamp(0 + d[n], 0, ONE)
      BY <2>3, <2>5 DEF plan_for
    <3>2. clamp(0 + d[n], 0, ONE) = 0
      BY <1>2, <2>5 DEF clamp, ONE
    <3> HIDE DEF plan, evs
    <3> QED  BY <2>1, <2>2, <2>4, <2>5, <3>1, <3>2 DEF mild
  <2>6. CASE n # friction
    <3> HIDE DEF plan, evs
    <3> QED  BY <2>1, <2>4, <2>6 DEF mild
  <2> QED  BY <2>5, <2>6
<1> HIDE DEF evs
<1>3. \A n \in DOMAIN evs : mild(evs[n])
  BY <1>1, <1>2
<1> QED  BY <1>3 DEF evs

\* No outcome raises friction, whatever its confidence.
LEMMA OutcomeLowersFriction ==
  ASSUME NEW reason, NEW conf
  PROVE  /\ weight_delta(outcome_base_deltas(reason)[friction], conf) \in Int
         /\ weight_delta(outcome_base_deltas(reason)[friction], conf) <= 0
<1>1. outcome_base_deltas(reason)[friction] \in {0, -20, -60, -120}
  BY DEF outcome_base_deltas, friction, NoDeltas, SMALL, MEDIUM, HIGH
<1>2. twice_weight(conf) \in {1, 2, 3}
  BY DEF twice_weight
<1>3. ASSUME NEW b \in {0, -20, -60, -120}, NEW w \in {1, 2, 3}
      PROVE  (b * w) \div 2 \in Int /\ (b * w) \div 2 <= 0
  BY <1>3
<1>4. ASSUME NEW x \in Int, x <= 0
      PROVE  clamp(x, -CONFIDENCE_MAGNITUDE_CAP, CONFIDENCE_MAGNITUDE_CAP) \in Int
             /\ clamp(x, -CONFIDENCE_MAGNITUDE_CAP, CONFIDENCE_MAGNITUDE_CAP) <= 0
  BY <1>4 DEF clamp, CONFIDENCE_MAGNITUDE_CAP, HIGH
<1> QED  BY <1>1, <1>2, <1>3, <1>4 DEF weight_delta

FrictionInv ==
  /\ attributes[friction] = 0
  /\ \A e \in events : mild(e)
  /\ \A n \in DOMAIN pending : mild(pending[n])

\* The first emissions.
LEMMA DispatchMild ==
  ASSUME NEW p, NEW counter, NEW proj, proj[friction] = 0
  PROVE  \A n \in DOMAIN dispatch(p, counter, proj) : mild(dispatch(p, counter, proj)[n])
<1>1. \A n \in DOMAIN dispatch_outcome(p, counter, proj) : mild(dispatch_outcome(p, counter, proj)[n])
  <2> DEFINE row == outcome_base_deltas(p.reason)
             d   == [n \in affected(row) |-> weight_delta(row[n], p.confidence)]
  <2>1. friction \in DOMAIN d => d[friction] \in Int /\ d[friction] <= 0
    BY OutcomeLowersFriction
  <2>2. dispatch_outcome(p, counter, proj) = emit(p, counter, proj, d)
    BY DEF dispatch_outcome
  <2> HIDE DEF d
  <2> QED  BY <2>1, <2>2, EmitMild
<1>2. \A n \in DOMAIN dispatch_hippocampus(p, counter, proj) : mild(dispatch_hippocampus(p, counter, proj)[n])
  <2> DEFINE row == hippocampus_base_deltas(p.reason)
             d   == [n \in affected(row) |-> row[n]]
  <2>1. row[friction] = 0
    BY DEF hippocampus_base_deltas, friction
  <2>2. friction \in DOMAIN d => d[friction] \in Int /\ d[friction] <= 0
    BY <2>1
  <2>3. dispatch_hippocampus(p, counter, proj) = emit(p, counter, proj, d)
    BY DEF dispatch_hippocampus
  <2> HIDE DEF d
  <2> QED  BY <2>2, <2>3, EmitMild
<1>3. \A n \in DOMAIN dispatch_sensor(p, counter, proj) : mild(dispatch_sensor(p, counter, proj)[n])
  <2> DEFINE row == sensor_base_deltas(p.reason)
             d   == [n \in affected(row) |-> row[n]]
  <2>1. row[friction] = 0
    BY DEF sensor_base_deltas, friction
  <2>2. friction \in DOMAIN d => d[friction] \in Int /\ d[friction] <= 0
    BY <2>1
  <2>3. dispatch_sensor(p, counter, proj) = emit(p, counter, proj, d)
    BY DEF dispatch_sensor
  <2> HIDE DEF d
  <2> QED  BY <2>2, <2>3, EmitMild
<1> QED  BY <1>1, <1>2, <1>3 DEF dispatch

\* What prior events moved, as a sum over the log.
LEMMA PriorActual ==
  ASSUME NEW iv, NEW n \in Attrs
  PROVE  gather_prior_actuals(iv)[n]
           = sum_of({e \in lookup_prior_events_by_intervention(iv, n) : ~e.disabled})
<1>1. gather_prior_actuals(iv)[n]
        = MapThenSumSet(delta, {e \in lookup_prior_events_by_intervention(iv, n) : ~e.disabled})
  BY Zenon DEF gather_prior_actuals
<1> QED  BY <1>1, SumDefinition, Zenon

\* A revision gives back what was taken of friction: nothing.
LEMMA RevisionMild ==
  ASSUME LogOK, FrictionInv, NEW p, NEW counter, NEW proj, proj[friction] = 0, NEW prior
  PROVE  LET evs == dispatch_revision(p, counter, proj, prior, gather_prior_actuals(p.intervention_id))
         IN \A n \in DOMAIN evs : mild(evs[n])
<1> DEFINE row    == outcome_base_deltas(p.reason)
           actual == gather_prior_actuals(p.intervention_id)
           d == [n \in affected(row) \cup affected(outcome_base_deltas(prior)) |->
                   weight_delta(row[n], p.confidence) - actual[n]]
<1>1. actual[friction] = 0
  <2> DEFINE S == {e \in lookup_prior_events_by_intervention(p.intervention_id, friction) : ~e.disabled}
  <2>1. friction \in Attrs
    BY DEF friction, Attrs
  <2>2. actual[friction] = sum_of(S)
    BY <2>1, PriorActual
  <2>3. S \subseteq events /\ \A e \in S : e.name = friction
    BY DEF lookup_prior_events_by_intervention
  <2>4. \A e \in S : delta(e) = 0
    BY <2>3 DEF FrictionInv, mild, delta
  <2>5. IsFiniteSet(S)
    BY <2>3, FS_Subset DEF LogOK
  <2> HIDE DEF S
  <2> QED  BY <2>2, <2>4, <2>5, SumZero
<1>2. friction \in DOMAIN d => d[friction] \in Int /\ d[friction] <= 0
  <2>1. friction \in DOMAIN d => d[friction] = weight_delta(row[friction], p.confidence) - 0
    BY <1>1
  <2> QED  BY <2>1, OutcomeLowersFriction
<1>3. dispatch_revision(p, counter, proj, prior, actual) = emit(p, counter, proj, d)
  BY DEF dispatch_revision
<1> HIDE DEF d, actual
<1>4. \A n \in DOMAIN dispatch_revision(p, counter, proj, prior, actual) :
        mild(dispatch_revision(p, counter, proj, prior, actual)[n])
  BY <1>2, <1>3, EmitMild
<1> QED  BY <1>4 DEF actual

LEMMA FrictionStep ==
  ASSUME LoopTypeOK, LogOK, SnapshotCoherent, FrictionInv, [LoopNext]_vars
  PROVE  FrictionInv'
<1> USE DEF storeVars, brokerVars, queueVars, localVars, procVars, boundVars, histVars
<1>1. CASE Quiet \/ Outside \/ GivesUp
  BY <1>1 DEF Quiet, Outside, GivesUp, FrictionInv, mild
<1>2. CASE ReadAndDispatch
  <2> DEFINE evs == dispatch(payload[cur], peek(counters, payload[cur].run_id), attributes)
  <2>1. pending' = evs /\ UNCHANGED <<events, attributes>>
    BY <1>2 DEF ReadAndDispatch, Dispatch
  <2>2. \A n \in DOMAIN evs : mild(evs[n])
    BY DispatchMild DEF FrictionInv
  <2> HIDE DEF evs
  <2> QED  BY <2>1, <2>2 DEF FrictionInv, mild
<1>3. CASE build_revision_events
  <2> DEFINE p   == payload[cur]
             evs == dispatch_revision(p, peek(counters, p.run_id), projection,
                                      derive_prior_classification(p.intervention_id),
                                      gather_prior_actuals(p.intervention_id))
  <2>1. pending' = evs /\ UNCHANGED <<events, attributes>> /\ pc = "prior"
    BY <1>3 DEF build_revision_events, Dispatch
  <2>2. projection[friction] = 0
    BY <2>1 DEF SnapshotCoherent, FrictionInv
  <2>3. \A n \in DOMAIN evs : mild(evs[n])
    BY <2>2, RevisionMild
  <2> HIDE DEF evs
  <2> QED  BY <2>1, <2>3 DEF FrictionInv, mild
<1>4. CASE InsertEvent
  <2>1. PICK n \in DOMAIN pending : /\ events' = events \cup {pending[n]}
                                    /\ UNCHANGED <<attributes, pending>>
    BY <1>4, InsertFacts
  <2> QED  BY <2>1 DEF FrictionInv, mild
<1>5. CASE UpsertAttribute
  <2>1. PICK n \in DOMAIN pending : first(n) /\ upsert_attribute(pending[n])
    BY <1>5 DEF UpsertAttribute
  <2>2. /\ attributes' = [attributes EXCEPT ![n] = pending[n].new_value]
        /\ UNCHANGED <<events, pending>> /\ pending[n].name = n /\ n \in Attrs
    BY <1>5, <2>1 DEF UpsertAttribute, upsert_attribute, LoopTypeOK, PendingTypeOK
  <2>3. attributes'[friction] = 0
    BY <2>2 DEF FrictionInv, mild, LoopTypeOK, StoreTypeOK, friction, Attrs
  <2> QED  BY <2>2, <2>3 DEF FrictionInv, mild
<1>6. CASE EnqueueAudit
  BY <1>6 DEF EnqueueAudit, FrictionInv, mild
<1>7. CASE NotifyAudit
  <2>1. PICK n \in DOMAIN pending : pending' = Restrict(pending, DOMAIN pending \ {n})
    BY <1>7 DEF NotifyAudit
  <2>2. /\ DOMAIN pending' \subseteq DOMAIN pending
        /\ \A m \in DOMAIN pending' : pending'[m] = pending[m]
    BY <2>1 DEF Restrict
  <2>3. UNCHANGED <<events, attributes>>
    BY <1>7 DEF NotifyAudit
  <2> QED  BY <2>2, <2>3 DEF FrictionInv, mild
<1> QED  BY <1>1, <1>2, <1>3, <1>4, <1>5, <1>6, <1>7, LedgerSteps

(***************************************************************************)
(* FrictionStaysZero: the tables of tuning.rs hold no positive outcome     *)
(* delta of friction, and build_revision_events gives back what was        *)
(* actually taken, which from zero is nothing; so no chain of outcomes and *)
(* revisions, of any length, moves friction or fires its cap.              *)
(***************************************************************************)
THEOREM FrictionNeverMoves == LoopSpec => []FrictionStaysZero
<1>1. LoopInit => FrictionInv
  BY DEF LoopInit, StoreInit, NoEvents, FrictionInv, friction, Attrs
<1>2. LoopTypeOK /\ LogOK /\ SnapshotCoherent /\ FrictionInv /\ [LoopNext]_vars => FrictionInv'
  BY FrictionStep
<1>3. FrictionInv => FrictionStaysZero
  BY DEF FrictionInv, FrictionStaysZero, mild
<1> QED  BY <1>1, <1>2, <1>3, LoopTypeCorrect, LogInvariant, SnapshotStaysCoherent, PTL DEF LoopSpec
=============================================================================
