---------------------------- MODULE InboxProofs ----------------------------
(***************************************************************************)
(* The run loop implements the contract of the inbox, for every set of     *)
(* payloads, number of rows and number of failures.                        *)
(***************************************************************************)
EXTENDS RunLoopProofs

\* Outside the write loop nothing is left to insert.
LEMMA NothingDue ==
  ASSUME LoopTypeOK, pc \notin Writing
  PROVE  to_insert = {}
BY DEF LoopTypeOK, PendingTypeOK, to_insert

\* What the contract sees has not changed.
LEMMA ContractStutters ==
  ASSUME UNCHANGED <<inbox, written, pc, cur, pending>>
  PROVE  UNCHANGED Contract!vars
BY DEF Contract!vars, working, to_insert, moved, first

\* A handler that returns, or a process that dies, without touching the rows
\* abandons the row it had claimed.
LEMMA ContractAbandons ==
  ASSUME LoopTypeOK, pc' \notin Claimed, pending' = NoEvents,
         UNCHANGED <<inbox, written>>
  PROVE  Contract!Abandon \/ UNCHANGED Contract!vars
<1>1. working' = NoId /\ to_insert' = {} /\ UNCHANGED moved
  BY DEF working, to_insert, NoEvents, moved
<1>2. CASE pc \in Claimed
  <2>1. working = cur /\ cur # NoId
    BY <1>2 DEF LoopTypeOK, ProcessTypeOK, working, Ids, NoId
  <2> QED  BY <1>1, <2>1 DEF Contract!Abandon
<1>3. CASE pc \notin Claimed
  <2>1. working = NoId
    BY <1>3 DEF working
  <2>2. to_insert = {}
    BY <1>3, NothingDue DEF Claimed, RowSteps, Statements, Writing
  <2> QED  BY <1>1, <2>1, <2>2 DEF Contract!vars
<1> QED  BY <1>2, <1>3

\* Dispatching a claimed row plans it.
LEMMA ContractPlans ==
  ASSUME LoopTypeOK, LoopTypeOK', OnceInv, pc \in {"read", "prior"},
         NEW evs, Dispatch(evs), UNCHANGED <<inbox, written, cur>>
  PROVE  Contract!Plan
<1>1. /\ cur \in Ids /\ pc \in Claimed /\ pc \notin Writing /\ pc' \in Claimed
  BY DEF LoopTypeOK, ProcessTypeOK, Dispatch, Claimed, RowSteps, Statements, Writing
<1>2. working = cur /\ working' = cur /\ cur # NoId
  BY <1>1 DEF working, Ids, NoId
<1>3. to_insert = {} /\ UNCHANGED moved
  BY <1>1, NothingDue DEF moved
<1>4. moved[cur] = {}
  BY <1>1 DEF moved, OnceInv, OwnerWrites
<1>5. to_insert' \in SUBSET Attrs
  BY DEF to_insert, LoopTypeOK, PendingTypeOK
<1> QED  BY <1>2, <1>3, <1>4, <1>5 DEF Contract!Plan

\* insert_event applies the attribute the write loop is at.
LEMMA ContractApplies ==
  ASSUME LoopTypeOK, OnceInv, InsertEvent
  PROVE  \E n \in Attrs : Contract!Apply(n)
<1> USE DEF storeVars, brokerVars, queueVars, localVars, procVars, boundVars, histVars
<1>1. PICK n \in DOMAIN pending :
             /\ first(n)
             /\ written' = [written EXCEPT ![cur] = @ \cup {<<n, pending[n].seq>>}]
  BY DEF InsertEvent
<1>2. /\ pc = "insert" /\ pc' \in {"audit", "upsert"} /\ UNCHANGED <<inbox, cur, pending>>
      /\ cur \in Ids
  BY DEF InsertEvent, LoopTypeOK, ProcessTypeOK, Claimed, RowSteps, Statements
<1>3. working = cur /\ working' = cur /\ cur # NoId
  BY <1>2 DEF working, Ids, NoId, Claimed, RowSteps, Statements
<1>4. n \in Attrs /\ \A m \in DOMAIN pending : m \in Attrs /\ n <= m
  BY <1>1 DEF first, LoopTypeOK, PendingTypeOK
<1>5. to_insert = DOMAIN pending
  BY <1>2 DEF to_insert
<1>6. to_insert' = DOMAIN pending \ {n}
  <2>1. \A m \in DOMAIN pending : first(m) <=> m = n
    BY <1>1, <1>4 DEF first, Attrs
  <2>2. \A m \in DOMAIN pending : first(m)' <=> first(m)
    BY <1>2 DEF first
  <2> QED  BY <1>2, <2>1, <2>2 DEF to_insert
<1>7. \A m \in moved[cur] : m < n
  BY <1>1, <1>2 DEF moved, OnceInv, OwnerWrites
<1>8. moved' = [moved EXCEPT ![cur] = @ \cup {n}]
  <2>1. /\ written'[cur] = written[cur] \cup {<<n, pending[n].seq>>}
        /\ \A id \in Ids : id # cur => written'[id] = written[id]
    BY <1>1, <1>2 DEF LoopTypeOK, BrokerTypeOK
  <2>2. moved'[cur] = moved[cur] \cup {n}
    <3>1. moved[cur] = {x[1] : x \in written[cur]} /\ moved'[cur] = {x[1] : x \in written'[cur]}
      BY <1>2 DEF moved
    <3>2. <<n, pending[n].seq>>[1] = n
      OBVIOUS
    <3> QED  BY <2>1, <3>1, <3>2, Zenon
  <2>3. \A id \in Ids : id # cur => moved'[id] = moved[id]
    BY <2>1 DEF moved
  <2> QED  BY <1>2, <2>2, <2>3 DEF moved
<1> QED  BY <1>2, <1>3, <1>4, <1>5, <1>6, <1>7, <1>8 DEF Contract!Apply

\* Every step of the run loop is a step of the contract, or invisible to it.
LEMMA ContractStep ==
  ASSUME LoopTypeOK, LoopTypeOK', OnceInv, LoopNext
  PROVE  Contract!Next \/ UNCHANGED Contract!vars
<1> USE DEF storeVars, brokerVars, queueVars, localVars, procVars, boundVars, histVars
<1>1. CASE \/ (\E id \in Ids : BrokerNotify(id))
            \/ (\E a \in DOMAIN audit_inbox : BrokerReject(a))
            \/ (\E id \in Ids : NotifyLost(id))
            \/ (\E x \in Ids \cup {NoId} : StrayNotify(x)) \/ TimePasses
            \/ drain_audit_replies \/ EnterServe
  <2>1. UNCHANGED <<inbox, written, pc, cur, pending>>
    BY <1>1 DEF BrokerNotify, BrokerReject, NotifyLost, StrayNotify, TimePasses,
             drain_audit_replies, EnterServe
  <2> QED  BY <2>1, ContractStutters
<1>2. ASSUME NEW p \in Payloads, BrokerInsert(p)  PROVE Contract!Next
  <2>1. /\ next_id \in Ids /\ inbox' = [inbox EXCEPT ![next_id] = "queued"]
        /\ UNCHANGED <<written, pc, cur, pending>>
    BY <1>2 DEF BrokerInsert
  <2>2. inbox[next_id] = "none" /\ \A id \in Ids : id < next_id => inbox[id] # "none"
    BY <2>1 DEF LoopTypeOK, BrokerTypeOK, Ids
  <2>3. UNCHANGED <<working, to_insert, moved>>
    BY <2>1 DEF working, to_insert, moved, first
  <2>4. Contract!Enqueue(next_id)
    BY <2>1, <2>2, <2>3 DEF Contract!Enqueue
  <2> QED  BY <2>1, <2>4 DEF Contract!Next
<1>3. CASE StatementFails \/ Crash \/ ClaimMisses \/ RevisionWithoutPrior \/ InsertRefused
            \/ DeleteReply
  <2>1. pc' \notin Claimed /\ pending' = NoEvents /\ UNCHANGED <<inbox, written>>
    BY <1>3 DEF StatementFails, Crash, LoopDies, ClaimMisses, RevisionWithoutPrior,
             InsertRefused, DeleteReply, Return, Claimed, RowSteps, Statements
  <2> QED  BY <2>1, ContractAbandons DEF Contract!Next
<1>4. CASE Start \/ drain_outcome_inbox \/ DrainNext \/ handle_outcome_notify
            \/ handle_reply_notify \/ SelectReply
  <2>1. /\ pc \notin Claimed /\ pc' \notin Claimed /\ UNCHANGED <<inbox, written>>
    BY <1>4 DEF Start, drain_outcome_inbox, DrainNext, handle_outcome_notify,
             handle_reply_notify, SelectReply, Return, Claimed, RowSteps, Statements
  <2>2. to_insert = {} /\ to_insert' = {}
    <3>1. pc \notin Writing /\ pc' \notin Writing
      BY <2>1 DEF Claimed, RowSteps, Statements, Writing
    <3> QED  BY <3>1 DEF LoopTypeOK, PendingTypeOK, to_insert
  <2> QED  BY <2>1, <2>2 DEF Contract!vars, working, moved
<1>5. CASE Claim
  <2>1. /\ pc = "claim" /\ pc' \in {"read", "delete"} /\ UNCHANGED <<written, cur>>
        /\ cur \in Ids /\ inbox[cur] = "queued" /\ inbox' = [inbox EXCEPT ![cur] = "claimed"]
    BY <1>5 DEF Claim, LoopTypeOK, ProcessTypeOK
  <2>2. working = NoId /\ working' = cur
    BY <2>1 DEF working, Claimed, RowSteps, Statements
  <2>3. to_insert = {} /\ to_insert' = {}
    BY <2>1 DEF LoopTypeOK, PendingTypeOK, Writing, to_insert
  <2>4. Contract!Take(cur)
    BY <2>1, <2>2, <2>3 DEF Contract!Take, moved
  <2> QED  BY <2>1, <2>4 DEF Contract!Next
<1>6. CASE ReadAndDispatch \/ build_revision_events
  <2>1. \E evs : Dispatch(evs)
    BY <1>6 DEF ReadAndDispatch, build_revision_events
  <2>2. pc \in {"read", "prior"} /\ UNCHANGED <<inbox, written, cur>>
    BY <1>6 DEF ReadAndDispatch, build_revision_events
  <2>3. Contract!Plan
    BY <2>1, <2>2, ContractPlans
  <2> QED  BY <2>3 DEF Contract!Next
<1>7. CASE ReadForRevision
  <2>1. pc = "read" /\ pc' = "prior" /\ UNCHANGED <<inbox, written, cur>>
    BY <1>7 DEF ReadForRevision
  <2>2. to_insert = {} /\ to_insert' = {}
    BY <2>1 DEF LoopTypeOK, PendingTypeOK, Writing, to_insert
  <2>3. UNCHANGED working
    BY <2>1 DEF working, Claimed, RowSteps, Statements
  <2> QED  BY <2>1, <2>2, <2>3 DEF Contract!vars, moved
<1>8. CASE InsertEvent
  BY <1>8, ContractApplies DEF Contract!Next
<1>9. CASE UpsertAttribute \/ EnqueueAudit
  <2>1. /\ pc \in {"upsert", "audit"} /\ pc' \in {"audit", "audit_notify"}
        /\ UNCHANGED <<inbox, written, cur, pending>>
    BY <1>9 DEF UpsertAttribute, EnqueueAudit
  <2>2. UNCHANGED <<working, to_insert, moved>>
    BY <2>1 DEF working, to_insert, first, moved, Claimed, RowSteps, Statements
  <2> QED  BY <2>1, <2>2 DEF Contract!vars
<1>10. CASE NotifyAudit
  <2>1. PICK n \in DOMAIN pending : first(n) /\ pending' = Restrict(pending, DOMAIN pending \ {n})
    BY <1>10 DEF NotifyAudit
  <2>2. /\ pc = "audit_notify" /\ pc' = (IF DOMAIN pending' = {} THEN "delete" ELSE "insert")
        /\ UNCHANGED <<inbox, written, cur>>
    BY <1>10 DEF NotifyAudit
  <2>3. DOMAIN pending' = DOMAIN pending \ {n}
    BY <2>1 DEF Restrict
  <2>4. \A m \in DOMAIN pending : first(m) <=> m = n
    BY <2>1 DEF first, LoopTypeOK, PendingTypeOK, Attrs
  <2>5. to_insert = DOMAIN pending \ {n} /\ to_insert' = DOMAIN pending'
    BY <2>2, <2>4 DEF to_insert
  <2>6. UNCHANGED <<working, moved>>
    BY <2>2 DEF working, moved, Claimed, RowSteps, Statements
  <2> QED  BY <2>2, <2>3, <2>5, <2>6 DEF Contract!vars
<1>11. CASE delete_outcome_row
  <2>1. /\ pc = "delete" /\ pc' = "next" /\ pending' = NoEvents /\ UNCHANGED written
        /\ cur \in Ids /\ inbox' = [inbox EXCEPT ![cur] = "deleted"]
    BY <1>11 DEF delete_outcome_row, Return, LoopTypeOK, ProcessTypeOK, Claimed,
                 RowSteps, Statements
  <2>2. working = cur /\ cur # NoId /\ working' = NoId
    BY <2>1 DEF working, Ids, NoId, Claimed, RowSteps, Statements
  <2>3. to_insert = {} /\ to_insert' = {}
    BY <2>1 DEF LoopTypeOK, PendingTypeOK, Writing, to_insert, NoEvents
  <2>4. Contract!Finish
    BY <2>1, <2>2, <2>3 DEF Contract!Finish, moved
  <2> QED  BY <2>4 DEF Contract!Next
<1> QED
  BY <1>1, <1>2, <1>3, <1>4, <1>5, <1>6, <1>7, <1>8, <1>9, <1>10, <1>11, Zenon
     DEF LoopNext, Broker, Unreliable, Loop

(***************************************************************************)
(* InboxContract: LISTEN, drain, claim, dispatch, write and DELETE, with   *)
(* whatever fails between them, amount to the contract of the inbox.       *)
(***************************************************************************)
THEOREM LoopImplementsInbox == LoopSpec => InboxContract
<1>1. LoopInit => Contract!Init
  BY DEF LoopInit, Contract!Init, working, to_insert, moved, NoEvents, NoId, Claimed,
         RowSteps, Statements
<1>2. LoopTypeOK /\ LoopTypeOK' /\ OnceInv /\ [LoopNext]_vars => [Contract!Next]_Contract!vars
  <2> SUFFICES ASSUME LoopTypeOK, LoopTypeOK', OnceInv, [LoopNext]_vars
               PROVE  Contract!Next \/ UNCHANGED Contract!vars
    BY DEF Contract!vars
  <2>1. CASE LoopNext
    BY <2>1, ContractStep
  <2>2. CASE UNCHANGED vars
    BY <2>2, ContractStutters DEF vars, brokerVars, localVars, procVars, histVars
  <2> QED  BY <2>1, <2>2
<1> QED  BY <1>1, <1>2, LoopTypeCorrect, OnceInvariant, PTL
            DEF LoopSpec, InboxContract, Contract!Spec
=============================================================================
