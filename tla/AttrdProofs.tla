---------------------------- MODULE AttrdProofs ----------------------------
(***************************************************************************)
(* Theorems about the daemon as a whole: the run loop, the decay scheduler *)
(* and a rebuild interleaved over one database, with any number of         *)
(* restarts and failing statements. Each step of the daemon is a step of   *)
(* one of its parts, so the lemmas about the parts are used as they are;   *)
(* what is new is that a part keeps its invariants while another writes.   *)
(***************************************************************************)
EXTENDS Attrd, SeqProofs, DecayProofs

-----------------------------------------------------------------------------
(***************************************************************************)
(* Whose step it is.                                                       *)
(***************************************************************************)

\* A step of the run loop, the broker or the clock.
Loops ==
  /\ [LoopNext]_vars
  /\ UNCHANGED <<decayVars, rebuildVars>>
  /\ RowsLocked => UNCHANGED attributes

\* A step of the decay scheduler or of the broker's switch.
Ticks ==
  /\ [DecayNext]_decayAllVars
  /\ UNCHANGED <<loopOnlyVars, rebuildVars, setbacks>>
  /\ RowsLocked => UNCHANGED <<attributes, last_decay_at>>

\* The process starts or dies: the tables stay as they are.
Lives ==
  /\ [LoopNext]_vars /\ [DecayNext]_decayAllVars
  /\ UNCHANGED <<storeVars, last_decay_at, setbacks, rebuildVars>>
  /\ pc' \in {"down", "listening"} /\ decay_pc' \in {"down", "idle"}
  /\ \/ pc = "down" /\ decay_pc = "down"
     \/ pc' = "down" /\ decay_pc' = "down"

LEMMA AttrdSteps ==
  ASSUME [AttrdNext]_attrdVars
  PROVE  Loops \/ Ticks \/ Lives \/ RebuildReads \/ RebuildCommits
<1> USE DEF attrdVars, loopOnlyVars
<1>1. CASE run_loop_subcommand
  <2>1. Start /\ SchedulerStarts /\ UNCHANGED rebuildVars
    BY <1>1 DEF run_loop_subcommand
  <2>2. LoopNext /\ DecayNext
    BY <2>1 DEF LoopNext, DecayNext
  <2>3. UNCHANGED <<storeVars, last_decay_at, setbacks>> /\ pc = "down" /\ decay_pc = "down"
        /\ pc' = "listening" /\ decay_pc' = "idle"
    BY <2>1 DEF Start, SchedulerStarts, settingVars
  <2>4. Lives
    BY <2>1, <2>2, <2>3 DEF Lives
  <2> QED  BY <2>4
<1>2. CASE ProcessDies
  <2>1. /\ LoopDies /\ SchedulerDies /\ crashes < MaxCrashes /\ crashes' = crashes + 1
        /\ UNCHANGED <<faults, storeVars, brokerVars, rejected, strays, lost, histVars,
                       last_decay_at, settingVars, rebuildVars>>
    BY <1>2 DEF ProcessDies
  <2>2. Crash /\ DecayCrash
    BY <2>1 DEF Crash, DecayCrash
  <2>3. LoopNext /\ DecayNext
    BY <2>2 DEF LoopNext, DecayNext
  <2>4. UNCHANGED setbacks /\ pc' = "down" /\ decay_pc' = "down"
    BY <2>1 DEF settingVars, LoopDies, SchedulerDies
  <2>5. Lives
    BY <2>1, <2>3, <2>4 DEF Lives
  <2> QED  BY <2>5
<1>3. CASE LoopSteps
  <2>1. (Loop \/ Unreliable) /\ UNCHANGED <<decayVars, rebuildVars>>
        /\ (RowsLocked => UNCHANGED attributes)
    BY <1>3 DEF LoopSteps
  <2>2. LoopNext
    BY <2>1 DEF LoopNext
  <2>3. Loops
    BY <2>1, <2>2 DEF Loops
  <2> QED  BY <2>3
<1>4. CASE SchedulerSteps
  <2>1. (Scheduler \/ TickFails) /\ UNCHANGED <<loopOnlyVars, rebuildVars>>
        /\ (RowsLocked => UNCHANGED <<attributes, last_decay_at>>)
    BY <1>4 DEF SchedulerSteps
  <2>2. DecayNext
    BY <2>1 DEF DecayNext
  <2>3. UNCHANGED settingVars
    BY <2>1 DEF Scheduler, TickFails, check_due, get_setting_bool, read_target_values,
       acquire_day_counter, DecayInsert, DecayUpsert, DecayEnqueueAudit, DecayNotifyAudit,
       bump_last_decay_at
  <2>4. Ticks
    BY <2>1, <2>2, <2>3 DEF Ticks, settingVars
  <2> QED  BY <2>4
<1>5. CASE EnvironmentSteps
  <2>1. UNCHANGED rebuildVars
    BY <1>5 DEF EnvironmentSteps
  <2>2. ASSUME NEW p \in Payloads, BrokerInsert(p), UNCHANGED decayVars  PROVE Loops
    BY <2>1, <2>2 DEF Loops, LoopNext, Broker, BrokerInsert, storeVars
  <2>3. ASSUME NEW id \in Ids, BrokerNotify(id), UNCHANGED decayVars  PROVE Loops
    BY <2>1, <2>3 DEF Loops, LoopNext, Broker, BrokerNotify, storeVars
  <2>4. ASSUME NEW a \in DOMAIN audit_inbox, BrokerReject(a), UNCHANGED decayVars  PROVE Loops
    BY <2>1, <2>4 DEF Loops, LoopNext, Broker, BrokerReject, storeVars
  <2>5. ASSUME TimePasses, UNCHANGED decayVars  PROVE Loops
    BY <2>1, <2>5 DEF Loops, LoopNext, TimePasses
  <2>6. ASSUME NEW b \in BOOLEAN, set_setting_bool(b), UNCHANGED loopOnlyVars  PROVE Ticks
    BY <2>1, <2>6 DEF Ticks, DecayNext, set_setting_bool, storeVars
  <2> QED  BY <1>5, <2>2, <2>3, <2>4, <2>5, <2>6 DEF EnvironmentSteps
<1>6. CASE UNCHANGED attrdVars
  <2>1. UNCHANGED vars /\ UNCHANGED decayVars /\ UNCHANGED rebuildVars
    BY <1>6
  <2>2. UNCHANGED attributes
    BY <2>1 DEF vars, storeVars
  <2>3. Loops
    BY <2>1, <2>2 DEF Loops
  <2> QED  BY <2>3
<1> QED  BY <1>1, <1>2, <1>3, <1>4, <1>5, <1>6 DEF AttrdNext

-----------------------------------------------------------------------------
(***************************************************************************)
(* Types.                                                                  *)
(***************************************************************************)

\* What the run loop has yet to insert belongs to a run of the broker.
PendingOurs ==
  \A n \in DOMAIN pending : pending[n].run_id \in RunIds /\ pending[n].source # "maintenance"

\* emit copies the run and the source of the payload.
LEMMA EmitOurs ==
  ASSUME NEW p \in Payload, p.source # "unknown", NEW counter, NEW proj, NEW d,
         NEW n \in DOMAIN d
  PROVE  /\ emit(p, counter, proj, d)[n].run_id \in RunIds
         /\ emit(p, counter, proj, d)[n].source # "maintenance"
<1>1. /\ emit(p, counter, proj, d)[n].run_id = p.run_id
      /\ emit(p, counter, proj, d)[n].source = p.source
  BY DEF emit, event_insert_from_plan
<1>2. p.run_id \in RunIds /\ p.source \in {"outcome", "hippocampus", "sensor", "unknown"}
  BY DEF Payload
<1> QED  BY <1>1, <1>2

\* So does every dispatch.
LEMMA DispatchOurs ==
  ASSUME NEW p \in Payload, p.source # "unknown", NEW counter, NEW proj,
         NEW prior, NEW actual,
         NEW evs, \/ evs = dispatch(p, counter, proj)
                  \/ evs = dispatch_revision(p, counter, proj, prior, actual),
         NEW n \in DOMAIN evs
  PROVE  evs[n].run_id \in RunIds /\ evs[n].source # "maintenance"
<1>1. PICK d : evs = emit(p, counter, proj, d)
  BY DEF dispatch, dispatch_outcome, dispatch_hippocampus, dispatch_sensor, dispatch_revision
<1>2. n \in DOMAIN d
  BY <1>1 DEF emit
<1> QED  BY <1>1, <1>2, EmitOurs

LEMMA OursStep ==
  ASSUME LoopTypeOK, PendingOurs, [LoopNext]_vars
  PROVE  PendingOurs'
<1> USE DEF storeVars, brokerVars, queueVars, localVars, procVars, boundVars, histVars
<1> DEFINE p == payload[cur]
<1>1. CASE Quiet \/ Outside \/ GivesUp
  BY <1>1 DEF Quiet, Outside, GivesUp, PendingOurs
<1>2. CASE InsertEvent \/ UpsertAttribute \/ EnqueueAudit
  <2>1. UNCHANGED pending
    BY <1>2 DEF InsertEvent, UpsertAttribute, EnqueueAudit
  <2> QED  BY <2>1 DEF PendingOurs
<1>3. CASE NotifyAudit
  <2>1. PICK n : pending' = Restrict(pending, DOMAIN pending \ {n})
    BY <1>3 DEF NotifyAudit
  <2> QED  BY <2>1 DEF Restrict, PendingOurs
<1>4. ASSUME pc \in {"read", "prior"}  PROVE p \in Payload /\ p.source # "unknown"
  BY <1>4 DEF LoopTypeOK, BrokerTypeOK, ProcessTypeOK, Claimed, RowSteps, Statements
<1>5. CASE ReadAndDispatch
  <2> DEFINE evs == dispatch(p, peek(counters, p.run_id), attributes)
  <2>1. pc = "read" /\ pending' = evs
    BY <1>5 DEF ReadAndDispatch, Dispatch
  <2> HIDE DEF p
  <2>2. \A n \in DOMAIN evs : evs[n].run_id \in RunIds /\ evs[n].source # "maintenance"
    BY <1>4, <2>1, DispatchOurs
  <2> QED  BY <2>1, <2>2 DEF PendingOurs
<1>6. CASE build_revision_events
  <2> DEFINE prior  == derive_prior_classification(p.intervention_id)
             actual == gather_prior_actuals(p.intervention_id)
             evs == dispatch_revision(p, peek(counters, p.run_id), projection, prior, actual)
  <2>1. pc = "prior" /\ pending' = evs
    BY <1>6 DEF build_revision_events, Dispatch
  <2> HIDE DEF p, prior, actual
  <2>2. \A n \in DOMAIN evs : evs[n].run_id \in RunIds /\ evs[n].source # "maintenance"
    BY <1>4, <2>1, DispatchOurs
  <2> QED  BY <2>1, <2>2 DEF PendingOurs
<1> QED  BY <1>1, <1>2, <1>3, <1>5, <1>6, LedgerSteps

\* Both components' type invariants, a log with unique ids, and the rebuild's.
DaemonTypeOK ==
  /\ LoopTypeOK /\ TickTypeOK /\ LogOK /\ PendingOurs
  /\ rebuilt \in [Attrs -> Value] \cup {NoRebuild}
  /\ rebuilds \in Nat /\ overlapped \in BOOLEAN

\* A rebuild leaves every attribute in range.
LEMMA RebuildType ==
  ASSUME StoreTypeOK, LogOK, NEW include_disabled \in BOOLEAN
  PROVE  rebuild_projection(include_disabled) \in [Attrs -> Value]
<1> DEFINE rows(n) == {e \in events : e.name = n /\ (include_disabled \/ ~e.disabled)}
<1>1. ASSUME NEW n \in Attrs, rows(n) # {}  PROVE latest(rows(n)).new_value \in Value
  <2>1. rows(n) \subseteq events /\ events \subseteq Event
    BY DEF StoreTypeOK
  <2> HIDE DEF rows
  <2>2. IsFiniteSet(rows(n)) /\ Keyed(rows(n)) /\ rows(n) \subseteq Event
    BY <2>1, FS_Subset DEF LogOK, Keyed
  <2>3. latest(rows(n)) \in Event
    BY <1>1, <2>2, LatestIsLast
  <2> QED  BY <2>3 DEF Event
<1>2. 0 \in Value
  BY DEF Value, ONE
<1>3. rebuild_projection(include_disabled) =
        [n \in Attrs |-> IF rows(n) = {} THEN 0 ELSE latest(rows(n)).new_value]
  BY DEF rebuild_projection
<1> HIDE DEF rows
<1> QED  BY <1>1, <1>2, <1>3

LEMMA LoopTypeKept ==
  ASSUME LoopTypeOK, [LoopNext]_vars
  PROVE  LoopTypeOK'
<1>1. CASE LoopNext
  BY <1>1, StoreTypeStep, BrokerTypeStep, ProcessTypeStep, PendingTypeStep DEF LoopTypeOK
<1>2. CASE UNCHANGED vars
  BY <1>2 DEF vars, storeVars, brokerVars, queueVars, localVars, procVars, boundVars,
              histVars, LoopTypeOK, StoreTypeOK, BrokerTypeOK, ProcessTypeOK,
              PendingTypeOK, first, validate
<1> QED  BY <1>1, <1>2

LEMMA TickTypeKept ==
  ASSUME TickTypeOK, [DecayNext]_decayAllVars
  PROVE  TickTypeOK'
<1>1. CASE DecayNext
  BY <1>1, TickTypeStep
<1>2. CASE UNCHANGED decayAllVars
  BY <1>2 DEF decayAllVars, storeVars, decayVars, settingVars, schedVars, tickVars,
              TickTypeOK, DecayTypeOK, StoreTypeOK
<1> QED  BY <1>1, <1>2

\* What the scheduler's steps leave of the run loop's state.
LEMMA BesideTick ==
  ASSUME LoopTypeOK, Ticks
  PROVE  /\ UNCHANGED <<brokerVars, queueVars, procVars, rejected, strays, lost, histVars>>
         /\ events \subseteq events'
<1>1. CASE DecayInsert
  BY <1>1 DEF DecayInsert, insert_event, Ticks, loopOnlyVars
<1>2. CASE ~DecayInsert
  BY <1>2 DEF DecayNext, Scheduler, SchedulerStarts, check_due, get_setting_bool,
     read_target_values, acquire_day_counter, DecayUpsert, DecayEnqueueAudit,
     DecayNotifyAudit, bump_last_decay_at, TickFails, DecayCrash, DecayTimePasses,
     ClockSetBack, set_setting_bool, storeVars, decayAllVars, Ticks, loopOnlyVars
<1> QED  BY <1>1, <1>2

\* The run loop keeps its types when the tables it shares keep theirs.
LEMMA LoopTypeBeside ==
  ASSUME LoopTypeOK, StoreTypeOK', events \subseteq events',
         UNCHANGED <<brokerVars, queueVars, procVars, rejected, strays, lost, histVars>>
  PROVE  LoopTypeOK'
<1> USE DEF brokerVars, queueVars, localVars, procVars, histVars
<1>1. BrokerTypeOK'
  BY DEF LoopTypeOK, BrokerTypeOK
<1>2. ProcessTypeOK'
  BY DEF LoopTypeOK, ProcessTypeOK
<1>3. PendingTypeOK'
  BY DEF LoopTypeOK, PendingTypeOK, first, validate
<1> QED  BY <1>1, <1>2, <1>3 DEF LoopTypeOK

\* So does the scheduler.
LEMMA TickTypeBeside ==
  ASSUME TickTypeOK, StoreTypeOK', UNCHANGED decayVars
  PROVE  TickTypeOK'
BY DEF decayVars, settingVars, schedVars, tickVars, TickTypeOK, DecayTypeOK

LEMMA DaemonTypeStep ==
  ASSUME DaemonTypeOK, [AttrdNext]_attrdVars
  PROVE  DaemonTypeOK'
<1>0. overlapped' \in BOOLEAN
  BY DEF DaemonTypeOK, AttrdNext, attrdVars, run_loop_subcommand, ProcessDies, LoopSteps,
         SchedulerSteps, EnvironmentSteps, RebuildReads, RebuildCommits, Observe
<1>1. LoopTypeOK /\ TickTypeOK /\ LogOK /\ PendingOurs
  BY DEF DaemonTypeOK
<1>2. CASE Loops
  <2>1. LoopTypeOK' /\ LogOK' /\ PendingOurs'
    BY <1>1, <1>2, LoopTypeKept, LogStep, OursStep DEF Loops
  <2>2. TickTypeOK'
    BY <1>1, <1>2, <2>1, TickTypeBeside DEF Loops, LoopTypeOK
  <2> QED  BY <1>0, <1>2, <2>1, <2>2 DEF DaemonTypeOK, Loops, rebuildVars
<1>3. CASE Ticks
  <2>1. TickTypeOK' /\ LogOK'
    BY <1>1, <1>3, TickTypeKept, DecayLogStep DEF Ticks
  <2>2. LoopTypeOK'
    BY <1>1, <1>3, <2>1, LoopTypeBeside, BesideTick DEF TickTypeOK, DecayTypeOK
  <2>3. UNCHANGED pending
    BY <1>3 DEF Ticks, loopOnlyVars, procVars, localVars
  <2> QED  BY <1>0, <1>1, <1>3, <2>1, <2>2, <2>3 DEF DaemonTypeOK, PendingOurs, Ticks, rebuildVars
<1>4. CASE Lives
  <2>1. LoopTypeOK' /\ TickTypeOK' /\ LogOK' /\ PendingOurs'
    BY <1>1, <1>4, LoopTypeKept, TickTypeKept, LogStep, OursStep DEF Lives
  <2> QED  BY <1>0, <1>4, <2>1 DEF DaemonTypeOK, Lives, rebuildVars
<1>5. CASE RebuildReads
  <2>1. UNCHANGED vars /\ UNCHANGED decayVars /\ rebuilds' = rebuilds + 1
    BY <1>5 DEF RebuildReads
  <2>2. LoopTypeOK' /\ LogOK' /\ PendingOurs'
    BY <1>1, <2>1, LoopTypeKept, LogStep, OursStep
  <2>3. TickTypeOK'
    BY <1>1, <2>1, <2>2, TickTypeBeside DEF LoopTypeOK
  <2>4. rebuilt' \in [Attrs -> Value]
    BY <1>1, <1>5, RebuildType DEF RebuildReads, LoopTypeOK
  <2> QED  BY <1>0, <2>1, <2>2, <2>3, <2>4 DEF DaemonTypeOK
<1>6. CASE RebuildCommits
  <2>1. /\ rebuilt # NoRebuild /\ attributes' = rebuilt /\ rebuilt' = NoRebuild
        /\ last_decay_at' = [n \in Attrs |-> Never]
        /\ UNCHANGED <<faults, crashes, clock, events, audit_inbox, loopOnlyVars,
                       settingVars, schedVars, rebuilds>>
    BY <1>6 DEF RebuildCommits
  <2>2. StoreTypeOK'
    BY <1>1, <2>1 DEF DaemonTypeOK, LoopTypeOK, StoreTypeOK
  <2>3. LoopTypeOK'
    BY <1>1, <2>1, <2>2, LoopTypeBeside DEF loopOnlyVars
  <2>4. TickTypeOK'
    BY <1>1, <2>1, <2>2 DEF settingVars, schedVars, tickVars, TickTypeOK, DecayTypeOK
  <2>5. LogOK' /\ PendingOurs'
    BY <1>1, <2>1 DEF LogOK, Keyed, event_id, PendingOurs, loopOnlyVars, procVars, localVars
  <2> QED  BY <1>0, <2>1, <2>3, <2>4, <2>5 DEF DaemonTypeOK
<1> QED  BY <1>2, <1>3, <1>4, <1>5, <1>6, AttrdSteps

LEMMA AttrdInitTypes == AttrdInit => DaemonTypeOK
<1> SUFFICES ASSUME AttrdInit  PROVE DaemonTypeOK
  OBVIOUS
<1>1. LoopTypeOK
  <2>1. StoreTypeOK
    BY DEF AttrdInit, LoopInit, StoreInit, StoreTypeOK, Value, ONE
  <2>2. BrokerTypeOK
    BY RunLoopAssumption DEF AttrdInit, LoopInit, BrokerTypeOK, Ids
  <2>3. ProcessTypeOK
    BY NoProjectionType, EmptyCountersType
       DEF AttrdInit, LoopInit, ProcessTypeOK, Claimed, RowSteps, Statements, NoId
  <2>4. PendingTypeOK
    BY DEF AttrdInit, LoopInit, NoEvents, PendingTypeOK, Writing
  <2> QED  BY <2>1, <2>2, <2>3, <2>4 DEF LoopTypeOK
<1>2. TickTypeOK
  BY <1>1, DecayAssumption
     DEF AttrdInit, SchedulerInit, LoopTypeOK, TickTypeOK, DecayTypeOK, Value, ONE, Never, NoDay
<1>3. LogOK /\ PendingOurs
  BY FS_EmptySet DEF AttrdInit, LoopInit, StoreInit, LogOK, Keyed, PendingOurs, NoEvents
<1> QED  BY <1>1, <1>2, <1>3 DEF AttrdInit, DaemonTypeOK

LEMMA DaemonTypeInvariant == AttrdSpec => []DaemonTypeOK
<1>1. DaemonTypeOK /\ [AttrdNext]_attrdVars => DaemonTypeOK'
  BY DaemonTypeStep
<1> QED  BY <1>1, AttrdInitTypes, PTL DEF AttrdSpec

(***************************************************************************)
(* AttrdTypeOK: both components keep their types, the ties of the run      *)
(* loop's row and event to the tables among them, while the other one and  *)
(* a rebuild write those tables; and a rebuild leaves values in range.     *)
(***************************************************************************)
THEOREM AttrdTypeCorrect == AttrdSpec => []AttrdTypeOK
<1>1. DaemonTypeOK => AttrdTypeOK
  BY DEF DaemonTypeOK, AttrdTypeOK, TickTypeOK
<1> QED  BY <1>1, DaemonTypeInvariant, PTL

-----------------------------------------------------------------------------
(***************************************************************************)
(* The two seq allocators.                                                 *)
(***************************************************************************)

\* The log only grows; the run loop's events are of the broker's runs,
LEMMA InsertedByLoop ==
  ASSUME LoopTypeOK, PendingOurs, [LoopNext]_vars
  PROVE  /\ events \subseteq events'
         /\ \A e \in events' \ events : e.run_id \in RunIds /\ e.source # "maintenance"
<1>1. CASE Quiet \/ Outside \/ GivesUp
  BY <1>1 DEF Quiet, Outside, GivesUp
<1>2. CASE \/ ReadAndDispatch \/ build_revision_events \/ UpsertAttribute
           \/ EnqueueAudit \/ NotifyAudit
  BY <1>2 DEF ReadAndDispatch, build_revision_events, UpsertAttribute, EnqueueAudit,
              NotifyAudit, storeVars
<1>3. CASE InsertEvent
  <2>1. PICK n \in DOMAIN pending : events' = events \cup {pending[n]}
    BY <1>3, InsertFacts
  <2> QED  BY <2>1 DEF PendingOurs
<1> QED  BY <1>1, <1>2, <1>3, LedgerSteps

\* and the scheduler's of the maintenance runs, which sort above them.
LEMMA InsertedByTick ==
  ASSUME TickTypeOK, [DecayNext]_decayAllVars
  PROVE  /\ events \subseteq events'
         /\ \A e \in events' \ events : e.run_id \notin RunIds /\ e.source = "maintenance"
<1>1. CASE DecayInsert
  <2>1. CASE UNCHANGED events
    BY <2>1
  <2>2. CASE ~UNCHANGED events
    <3>1. PICK ev : /\ events' = events \cup {ev} /\ ev.source = "maintenance"
                    /\ ev.run_id = maintenance_run_id(utc_day(tick_now))
      BY <1>1, <2>2, DecayInsertFacts
    <3>2. utc_day(tick_now) \in Nat
      BY DayType DEF TickTypeOK, DecayTypeOK
    <3>3. ev.run_id \notin RunIds
      BY <3>1, <3>2, DecayAssumption DEF maintenance_run_id
    <3> QED  BY <3>1, <3>3
  <2> QED  BY <2>1, <2>2
<1>2. CASE ~DecayInsert
  BY <1>2 DEF DecayNext, Scheduler, SchedulerStarts, check_due, get_setting_bool,
     read_target_values, acquire_day_counter, DecayUpsert, DecayEnqueueAudit,
     DecayNotifyAudit, bump_last_decay_at, TickFails, DecayCrash, DecayTimePasses,
     ClockSetBack, set_setting_bool, storeVars, decayAllVars
<1> QED  BY <1>1, <1>2

\* A crash is never undone.
LEMMA CrashesGrow ==
  ASSUME TickTypeOK, [DecayNext]_decayAllVars
  PROVE  crashes' = 0 => crashes = 0
<1>0. crashes \in Nat
  BY DEF TickTypeOK, DecayTypeOK, StoreTypeOK
<1> QED
  BY <1>0 DEF DecayNext, Scheduler, SchedulerStarts, check_due, get_setting_bool,
     read_target_values, acquire_day_counter, DecayInsert, DecayUpsert, DecayEnqueueAudit,
     DecayNotifyAudit, bump_last_decay_at, TickFails, DecayCrash, DecayTimePasses,
     ClockSetBack, set_setting_bool, storeVars, decayAllVars

LEMMA CounterKept ==
  ASSUME TickTypeOK, CounterAhead, [DecayNext]_decayAllVars
  PROVE  CounterAhead'
<1>1. CASE DecayNext
  BY <1>1, CounterStep
<1>2. CASE UNCHANGED decayAllVars
  BY <1>2 DEF decayAllVars, storeVars, decayVars, settingVars, schedVars, tickVars, CounterAhead
<1> QED  BY <1>1, <1>2

LEMMA SeqsBeside ==
  ASSUME SeqInv, crashes' = 0 => crashes = 0, events \subseteq events',
         \A e \in events' \ events : e.run_id \notin RunIds,
         UNCHANGED <<pc, pending, counters>>, PendingOurs
  PROVE  SeqInv'
<1> SUFFICES ASSUME crashes' = 0  PROVE CountersCover' /\ PendingAhead'
  BY DEF SeqInv
<1>1. CountersCover /\ PendingAhead
  BY DEF SeqInv
<1>2. \A n : unwritten(n)' = unwritten(n)
  BY DEF unwritten, first
<1>3. CountersCover'
  BY <1>1 DEF CountersCover, covered
<1>4. PendingAhead'
  BY <1>1, <1>2 DEF PendingAhead, validate, PendingOurs
<1> QED  BY <1>3, <1>4

\* Neither allocator's invariant is touched by the other one's events.
LEMMA DayCounterStep ==
  ASSUME DaemonTypeOK, CounterAhead, [AttrdNext]_attrdVars
  PROVE  CounterAhead'
<1>0. LoopTypeOK /\ TickTypeOK /\ PendingOurs
  BY DEF DaemonTypeOK
<1>1. CASE Loops
  <2>1. \A e \in events' \ events : e.run_id \in RunIds
    BY <1>0, <1>1, InsertedByLoop DEF Loops
  <2>2. UNCHANGED <<day, day_counter>>
    BY <1>1 DEF Loops, decayVars, schedVars
  <2>3. day # NoDay => maintenance_run_id(day) \notin RunIds
    BY <1>0, DecayAssumption DEF TickTypeOK, DecayTypeOK, maintenance_run_id, NoDay
  <2> QED  BY <2>1, <2>2, <2>3 DEF CounterAhead, maintenance_run_id
<1>2. CASE Ticks \/ Lives
  BY <1>0, <1>2, CounterKept DEF Ticks, Lives
<1>3. CASE RebuildReads \/ RebuildCommits
  <2>1. UNCHANGED <<events, day, day_counter>>
    BY <1>3 DEF RebuildReads, RebuildCommits, vars, storeVars, decayVars, schedVars
  <2> QED  BY <2>1 DEF CounterAhead, maintenance_run_id
<1> QED  BY <1>1, <1>2, <1>3, AttrdSteps

LEMMA DayCounterInvariant == AttrdSpec => []CounterAhead
<1>1. AttrdInit => CounterAhead
  BY DEF AttrdInit, SchedulerInit, CounterAhead
<1>2. DaemonTypeOK /\ CounterAhead /\ [AttrdNext]_attrdVars => CounterAhead'
  BY DayCounterStep
<1> QED  BY <1>1, <1>2, DaemonTypeInvariant, PTL DEF AttrdSpec

LEMMA RunCountersStep ==
  ASSUME EveryRunIsTracked, DaemonTypeOK, SeqInv, [AttrdNext]_attrdVars
  PROVE  SeqInv'
<1>0. LoopTypeOK /\ TickTypeOK /\ LogOK /\ PendingOurs
  BY DEF DaemonTypeOK
<1>1. CASE Loops \/ Lives
  BY <1>0, <1>1, SeqStep DEF Loops, Lives
<1>2. CASE Ticks
  <2>1. UNCHANGED <<pc, pending, counters>>
    BY <1>2 DEF Ticks, loopOnlyVars, procVars, localVars
  <2> QED  BY <1>0, <1>2, <2>1, InsertedByTick, CrashesGrow, SeqsBeside DEF Ticks
<1>3. CASE RebuildReads \/ RebuildCommits
  <2>1. UNCHANGED <<events, crashes, pc, pending, counters>>
    BY <1>3 DEF RebuildReads, RebuildCommits, vars, storeVars, boundVars, procVars, localVars,
                loopOnlyVars
  <2> QED  BY <1>0, <2>1, SeqsBeside
<1> QED  BY <1>1, <1>2, <1>3, AttrdSteps

(***************************************************************************)
(* NoWriterIsRefused: beside each other and beside a rebuild the run       *)
(* loop's counters and the scheduler's day counter still give seqs that    *)
(* are in no event of the log: the scheduler's always, also after a        *)
(* restart, the run loop's as long as the daemon has not crashed and has   *)
(* no more runs than COUNTER_LRU_CAP.                                      *)
(***************************************************************************)
THEOREM WritersAreNeverRefused ==
  ASSUME EveryRunIsTracked
  PROVE  AttrdSpec => []NoWriterIsRefused
<1>1. AttrdInit => SeqInv
  BY SeqInit DEF AttrdInit
<1>2. DaemonTypeOK /\ SeqInv /\ [AttrdNext]_attrdVars => SeqInv'
  BY RunCountersStep
<1>3. DaemonTypeOK /\ SeqInv /\ CounterAhead => NoWriterIsRefused
  BY PendingIsAccepted, CounterIsFresh DEF DaemonTypeOK, NoWriterIsRefused
<1> QED  BY <1>1, <1>2, <1>3, DaemonTypeInvariant, DayCounterInvariant, PTL DEF AttrdSpec

-----------------------------------------------------------------------------
(***************************************************************************)
(* What each writer has read.                                              *)
(***************************************************************************)

\* A writer at work has what it read, until another one has been at work too.
CoherentInv ==
  /\ TwoAtWork => overlapped
  /\ ~overlapped => SnapshotCoherent /\ TickCoherent

LEMMA Observed ==
  ASSUME TwoAtWork => overlapped, [AttrdNext]_attrdVars
  PROVE  /\ ~overlapped' => ~overlapped /\ ~TwoAtWork
         /\ TwoAtWork' => overlapped'
<1>1. CASE AttrdNext
  <2>1. overlapped' = (overlapped \/ TwoAtWork')
    BY <1>1 DEF AttrdNext, run_loop_subcommand, ProcessDies, LoopSteps, SchedulerSteps,
       EnvironmentSteps, RebuildReads, RebuildCommits, Observe
  <2> QED  BY <2>1
<1>2. CASE UNCHANGED attrdVars
  <2>1. UNCHANGED <<pc, decay_pc, rebuilt, overlapped>>
    BY <1>2 DEF attrdVars, vars, procVars, decayVars, schedVars, rebuildVars
  <2>2. TwoAtWork' = TwoAtWork
    BY <2>1 DEF TwoAtWork, LoopAtWork, DecayAtWork, RowsLocked
  <2> QED  BY <2>1, <2>2
<1> QED  BY <1>1, <1>2

\* Only a writer at work moves an attribute.
LEMMA WhoMoves ==
  /\ LoopTypeOK /\ [LoopNext]_vars => UNCHANGED attributes \/ LoopAtWork
  /\ TickTypeOK /\ [DecayNext]_decayAllVars => UNCHANGED attributes \/ DecayAtWork
<1>1. ASSUME LoopTypeOK, [LoopNext]_vars  PROVE UNCHANGED attributes \/ LoopAtWork
  <2>1. CASE Quiet \/ Outside \/ GivesUp
    BY <2>1 DEF Quiet, Outside, GivesUp
  <2>2. CASE ReadAndDispatch \/ build_revision_events \/ InsertEvent \/ EnqueueAudit \/ NotifyAudit
    BY <2>2 DEF ReadAndDispatch, build_revision_events, InsertEvent, EnqueueAudit, NotifyAudit,
                storeVars
  <2>3. CASE UpsertAttribute
    BY <2>3 DEF UpsertAttribute, LoopAtWork
  <2> QED  BY <1>1, <2>1, <2>2, <2>3, LedgerSteps
<1>2. ASSUME TickTypeOK, [DecayNext]_decayAllVars  PROVE UNCHANGED attributes \/ DecayAtWork
  <2>1. CASE DecayUpsert
    BY <2>1 DEF DecayUpsert, DecayAtWork
  <2>2. CASE ~DecayUpsert
    BY <1>2, <2>2 DEF DecayNext, Scheduler, SchedulerStarts, check_due, get_setting_bool,
       read_target_values, acquire_day_counter, DecayInsert, DecayEnqueueAudit,
       DecayNotifyAudit, bump_last_decay_at, TickFails, DecayCrash, DecayTimePasses,
       ClockSetBack, set_setting_bool, storeVars, decayAllVars
  <2> QED  BY <2>1, <2>2
<1> QED  BY <1>1, <1>2

LEMMA SnapshotKept ==
  ASSUME LoopTypeOK, SnapshotCoherent, [LoopNext]_vars
  PROVE  SnapshotCoherent'
<1>1. CASE LoopNext
  BY <1>1, SnapshotStep
<1>2. CASE UNCHANGED vars
  BY <1>2 DEF vars, storeVars, procVars, localVars, SnapshotCoherent, first
<1> QED  BY <1>1, <1>2

LEMMA CoherentKept ==
  ASSUME TickTypeOK, TickCoherent, [DecayNext]_decayAllVars
  PROVE  TickCoherent'
<1>1. CASE DecayNext
  BY <1>1, CoherentStep
<1>2. CASE UNCHANGED decayAllVars
  BY <1>2 DEF decayAllVars, storeVars, decayVars, schedVars, tickVars, TickCoherent
<1> QED  BY <1>1, <1>2

\* The run loop holds no snapshot while it is not at work.
LEMMA SnapshotBeside ==
  ASSUME LoopTypeOK, SnapshotCoherent, UNCHANGED <<pc, projection, pending>>,
         UNCHANGED attributes \/ ~LoopAtWork
  PROVE  SnapshotCoherent'
<1>1. CASE UNCHANGED attributes
  BY <1>1 DEF SnapshotCoherent, first
<1>2. CASE ~LoopAtWork
  BY <1>2 DEF SnapshotCoherent, LoopAtWork, LoopTypeOK, PendingTypeOK, Writing
<1> QED  BY <1>1, <1>2

\* Nor does the scheduler.
LEMMA TickBeside ==
  ASSUME TickCoherent, UNCHANGED <<decay_pc, due, tick_values, decay_event>>,
         UNCHANGED attributes \/ ~DecayAtWork
  PROVE  TickCoherent'
<1>1. CASE UNCHANGED attributes
  BY <1>1 DEF TickCoherent
<1>2. CASE ~DecayAtWork
  BY <1>2 DEF TickCoherent, DecayAtWork
<1> QED  BY <1>1, <1>2

LEMMA CoherentInvStep ==
  ASSUME DaemonTypeOK, CoherentInv, [AttrdNext]_attrdVars
  PROVE  CoherentInv'
<1>0. /\ LoopTypeOK /\ TickTypeOK
      /\ ~overlapped' => ~overlapped /\ ~TwoAtWork
      /\ TwoAtWork' => overlapped'
  BY Observed DEF DaemonTypeOK, CoherentInv
<1>1. SUFFICES ASSUME ~overlapped'  PROVE SnapshotCoherent' /\ TickCoherent'
  BY <1>0 DEF CoherentInv
<1>2. /\ SnapshotCoherent /\ TickCoherent
      /\ ~(LoopAtWork /\ DecayAtWork) /\ (RowsLocked => ~LoopAtWork /\ ~DecayAtWork)
  BY <1>0, <1>1 DEF CoherentInv, TwoAtWork
<1>3. CASE Loops
  <2>1. SnapshotCoherent'
    BY <1>0, <1>2, <1>3, SnapshotKept DEF Loops
  <2>2. UNCHANGED <<decay_pc, due, tick_values, decay_event>>
    BY <1>3 DEF Loops, decayVars, schedVars, tickVars
  <2>3. UNCHANGED attributes \/ ~DecayAtWork
    BY <1>0, <1>2, <1>3, WhoMoves DEF Loops
  <2> QED  BY <1>2, <2>1, <2>2, <2>3, TickBeside
<1>4. CASE Ticks
  <2>1. TickCoherent'
    BY <1>0, <1>2, <1>4, CoherentKept DEF Ticks
  <2>2. UNCHANGED <<pc, projection, pending>>
    BY <1>4 DEF Ticks, loopOnlyVars, procVars, localVars
  <2>3. UNCHANGED attributes \/ ~LoopAtWork
    BY <1>0, <1>2, <1>4, WhoMoves DEF Ticks
  <2> QED  BY <1>0, <1>2, <2>1, <2>2, <2>3, SnapshotBeside
<1>5. CASE Lives
  BY <1>0, <1>2, <1>5, SnapshotKept, CoherentKept DEF Lives
<1>6. CASE RebuildReads \/ RebuildCommits
  <2>1. UNCHANGED <<pc, projection, pending, decay_pc, due, tick_values, decay_event>>
    BY <1>6 DEF RebuildReads, RebuildCommits, vars, procVars, localVars, loopOnlyVars,
                decayVars, schedVars, tickVars
  <2>2. UNCHANGED attributes \/ RowsLocked
    BY <1>6 DEF RebuildReads, RebuildCommits, vars, storeVars, RowsLocked
  <2> QED  BY <1>0, <1>2, <2>1, <2>2, SnapshotBeside, TickBeside
<1> QED  BY <1>3, <1>4, <1>5, <1>6, AttrdSteps

(***************************************************************************)
(* CoherentUnlessOverlapped: the run loop, the tick and a rebuild          *)
(* invalidate what another of them has read only by being at work at the   *)
(* same time.                                                              *)
(***************************************************************************)
THEOREM CoherentUntilOverlap == AttrdSpec => []CoherentUnlessOverlapped
<1>1. AttrdInit => CoherentInv
  BY DEF AttrdInit, LoopInit, NoEvents, SchedulerInit, CoherentInv, TwoAtWork, LoopAtWork,
         RowsLocked, SnapshotCoherent, TickCoherent
<1>2. DaemonTypeOK /\ CoherentInv /\ [AttrdNext]_attrdVars => CoherentInv'
  BY CoherentInvStep
<1>3. CoherentInv => CoherentUnlessOverlapped
  BY DEF CoherentInv, CoherentUnlessOverlapped, TickCoherent, DecayAtWork
<1> QED  BY <1>1, <1>2, <1>3, DaemonTypeInvariant, PTL DEF AttrdSpec

-----------------------------------------------------------------------------
(***************************************************************************)
(* The attributes that do not decay.                                       *)
(***************************************************************************)

\* SnapshotCoherent and the sum of the deltas, for one attribute.
Kept(n) ==
  /\ pc = "prior" => projection[n] = attributes[n]
  /\ n \in DOMAIN pending => \/ pending[n].old_value = attributes[n]
                             \/ pc \in {"audit", "audit_notify"} /\ first(n)
  /\ faults + crashes = 0 => attributes[n] + owed(n) = net_delta(n)

\* The loop holds a snapshot from the statement that takes it on.
LEMMA PriorSteps ==
  ASSUME LoopTypeOK, [LoopNext]_vars, pc' = "prior"
  PROVE  \/ UNCHANGED <<pc, projection, attributes>>
         \/ projection' = attributes /\ UNCHANGED attributes
<1> USE DEF storeVars, brokerVars, queueVars, localVars, procVars, boundVars, histVars
<1>1. CASE \/ (\E p \in Payloads : BrokerInsert(p))
            \/ (\E id \in Ids : BrokerNotify(id))
            \/ (\E a \in DOMAIN audit_inbox : BrokerReject(a))
            \/ (\E id \in Ids : NotifyLost(id))
            \/ (\E x \in Ids \cup {NoId} : StrayNotify(x)) \/ TimePasses
            \/ drain_audit_replies \/ EnterServe \/ UNCHANGED vars
  BY <1>1 DEF BrokerInsert, BrokerNotify, BrokerReject, NotifyLost, StrayNotify,
              TimePasses, drain_audit_replies, EnterServe, vars
<1>2. CASE ReadForRevision
  BY <1>2 DEF ReadForRevision
<1>3. CASE \/ Start \/ drain_outcome_inbox \/ DrainNext \/ handle_outcome_notify
           \/ handle_reply_notify \/ Claim \/ ClaimMisses \/ RevisionWithoutPrior
           \/ delete_outcome_row \/ SelectReply \/ DeleteReply
           \/ StatementFails \/ Crash \/ InsertRefused
  BY <1>3 DEF Start, drain_outcome_inbox, DrainNext, handle_outcome_notify,
              handle_reply_notify, Claim, ClaimMisses, RevisionWithoutPrior,
              delete_outcome_row, SelectReply, DeleteReply, StatementFails, Crash,
              LoopDies, InsertRefused, Return
<1>4. CASE \/ ReadAndDispatch \/ build_revision_events \/ InsertEvent
           \/ UpsertAttribute \/ EnqueueAudit \/ NotifyAudit
  BY <1>4 DEF ReadAndDispatch, build_revision_events, InsertEvent, UpsertAttribute,
              EnqueueAudit, NotifyAudit, Dispatch
<1> QED  BY <1>1, <1>2, <1>3, <1>4 DEF LoopNext, Broker, Unreliable, Loop

\* The run loop keeps an attribute that nobody else writes.
LEMMA KeptStep ==
  ASSUME LoopTypeOK, LogOK, NEW n \in Attrs, Kept(n), [LoopNext]_vars
  PROVE  Kept(n)'
<1>0. /\ faults \in Nat /\ crashes \in Nat /\ attributes[n] \in Int /\ net_delta(n) \in Int
      /\ DOMAIN pending \subseteq Attrs
  BY ValueIsInt, EnabledSum DEF LoopTypeOK, StoreTypeOK, PendingTypeOK
<1>1. pc' = "prior" => projection'[n] = attributes'[n]
  BY PriorSteps DEF Kept
<1>2. ASSUME UNCHANGED events  PROVE net_delta(n)' = net_delta(n)
  BY <1>2, NetDelta DEF enabled_of
<1>3. CASE Quiet
  <2>1. UNCHANGED <<events, attributes, pending, pc, faults, crashes>>
    BY <1>3 DEF Quiet
  <2>2. owed(n)' = owed(n)
    BY <2>1 DEF owed, first, delta
  <2> QED  BY <1>1, <1>2, <2>1, <2>2 DEF Kept, first
<1>4. CASE Outside
  <2>1. UNCHANGED <<events, attributes, faults, crashes>> /\ DOMAIN pending' = {}
        /\ pc # "upsert" /\ pc' # "upsert"
    BY <1>4 DEF Outside, Writing
  <2>2. owed(n)' = owed(n)
    BY <2>1 DEF owed
  <2> QED  BY <1>1, <1>2, <2>1, <2>2 DEF Kept
<1>5. CASE GivesUp
  <2>1. UNCHANGED <<events, attributes>> /\ DOMAIN pending' = {} /\ pc' # "upsert"
    BY <1>5 DEF GivesUp, Writing
  <2>2. faults' + crashes' = 0 => pc # "upsert" /\ faults + crashes = 0
    BY <1>0, <1>5 DEF GivesUp
  <2>3. owed(n)' = 0 /\ (pc # "upsert" => owed(n) = 0)
    BY <2>1 DEF owed
  <2> QED  BY <1>1, <1>2, <2>1, <2>2, <2>3 DEF Kept
<1>6. CASE ReadAndDispatch \/ build_revision_events
  <2>1. PICK evs : pending' = evs /\ (n \in DOMAIN evs => evs[n].old_value = attributes[n])
    <3>1. CASE ReadAndDispatch
      BY <3>1, DispatchesFaithfully DEF Dispatch, FaithfulTo
    <3>2. CASE build_revision_events
      <4>1. PICK evs : Dispatch(evs) /\ FaithfulTo(evs, projection)
        BY <3>2, DispatchesFaithfully
      <4>2. projection[n] = attributes[n]
        BY <3>2 DEF build_revision_events, Kept
      <4> QED  BY <4>1, <4>2 DEF Dispatch, FaithfulTo
    <3> QED  BY <1>6, <3>1, <3>2
  <2>2. UNCHANGED <<events, attributes, faults, crashes>> /\ pc # "upsert" /\ pc' # "upsert"
    BY <1>6 DEF ReadAndDispatch, build_revision_events, Dispatch, storeVars, boundVars
  <2>3. owed(n)' = owed(n)
    BY <2>2 DEF owed
  <2> QED  BY <1>1, <1>2, <2>1, <2>2, <2>3 DEF Kept
<1>7. CASE InsertEvent
  <2>1. PICK m \in DOMAIN pending :
               /\ first(m) /\ m \in Attrs /\ pending[m] \in Event /\ pending[m].name = m
               /\ pending[m] \notin events
               /\ events' = events \cup {pending[m]}
               /\ pc = "insert" /\ pc' = IF pending[m].disabled THEN "audit" ELSE "upsert"
               /\ UNCHANGED <<attributes, pending, faults, crashes>>
               /\ \A k \in DOMAIN pending' : first(k)' => k = m
    BY <1>7, InsertFacts
  <2> DEFINE x == pending[m]
             E == enabled_of(events, n)
  <2>2. owed(n) = 0 /\ (first(n)' <=> first(n))
    BY <2>1 DEF owed, first
  <2>3. n \in DOMAIN pending => pending[n].old_value = attributes[n]
    BY <2>1 DEF Kept
  <2>4. CASE n # m \/ x.disabled
    <3>1. enabled_of(events', n) = E
      BY <2>1, <2>4 DEF enabled_of
    <3>2. owed(n)' = 0
      BY <2>1, <2>4 DEF owed
    <3>3. net_delta(n)' = net_delta(n)
      BY <3>1, NetDelta
    <3> QED  BY <1>1, <2>1, <2>2, <2>3, <3>2, <3>3 DEF Kept
  <2>5. CASE n = m /\ ~x.disabled
    <3>1. enabled_of(events', n) = E \cup {x} /\ x \notin E
      BY <2>1, <2>5 DEF enabled_of
    <3>2. owed(n)' = delta(x)
      BY <2>1, <2>2, <2>5 DEF owed, delta
    <3>3. IsFiniteSet(E) /\ (\A e \in E : delta(e) \in Int) /\ delta(x) \in Int
      BY <2>1, EnabledSum, EventDelta
    <3>4. sum_of(E \cup {x}) = delta(x) + sum_of(E)
      <4> HIDE DEF x, E
      <4> QED  BY <3>1, <3>3, SumAdd
    <3>5. net_delta(n)' = delta(x) + net_delta(n)
      BY <3>1, <3>4, NetDelta
    <3>6. attributes[n] = net_delta(n) => attributes[n] + delta(x) = delta(x) + net_delta(n)
      BY <1>0, <3>3
    <3>7. faults + crashes = 0 => attributes[n] = net_delta(n)
      BY <1>0, <2>2 DEF Kept
    <3> QED  BY <1>1, <2>1, <2>3, <3>2, <3>5, <3>6, <3>7 DEF Kept
  <2> QED  BY <2>4, <2>5
<1>8. CASE UpsertAttribute
  <2>1. PICK m \in DOMAIN pending : first(m) /\ upsert_attribute(pending[m])
    BY <1>8 DEF UpsertAttribute
  <2>2. /\ pc = "upsert" /\ pc' = "audit" /\ UNCHANGED <<events, pending, faults, crashes>>
        /\ attributes' = [attributes EXCEPT ![m] = pending[m].new_value]
    BY <1>8, <2>1 DEF UpsertAttribute, localVars, boundVars, upsert_attribute,
                      LoopTypeOK, PendingTypeOK
  <2>3. m \in Attrs /\ pending[m] \in Event
    BY <2>1, <2>2 DEF LoopTypeOK, PendingTypeOK, StoreTypeOK, Writing
  <2>4. owed(n)' = 0 /\ (first(n)' <=> first(n))
    BY <2>2 DEF owed, first
  <2>5. CASE n = m
    <3>1. pending[n].old_value = attributes[n] /\ owed(n) = pending[n].new_value - attributes[n]
      BY <2>1, <2>2, <2>5 DEF Kept, owed, delta
    <3>2. attributes'[n] = pending[n].new_value /\ pending[n].new_value \in Int
      BY <2>2, <2>3, <2>5, EventDelta DEF LoopTypeOK, StoreTypeOK
    <3>3. attributes'[n] + 0 = attributes[n] + owed(n)
      BY <1>0, <3>1, <3>2
    <3> QED  BY <1>1, <1>2, <2>1, <2>2, <2>4, <2>5, <3>3 DEF Kept
  <2>6. CASE n # m
    <3>1. attributes'[n] = attributes[n] /\ ~first(n)
      BY <2>1, <2>2, <2>3, <2>6, FirstIsUnique DEF LoopTypeOK, StoreTypeOK
    <3>2. owed(n) = 0
      BY <3>1 DEF owed
    <3> QED  BY <1>1, <1>2, <2>2, <2>4, <3>1, <3>2 DEF Kept
  <2> QED  BY <2>5, <2>6
<1>9. CASE EnqueueAudit
  <2>1. UNCHANGED <<events, attributes, pending, faults, crashes>>
        /\ pc = "audit" /\ pc' = "audit_notify"
    BY <1>9 DEF EnqueueAudit, localVars, boundVars
  <2>2. owed(n)' = owed(n) /\ (first(n)' <=> first(n))
    BY <2>1 DEF owed, first
  <2> QED  BY <1>1, <1>2, <2>1, <2>2 DEF Kept
<1>10. CASE NotifyAudit
  <2>1. PICK m \in DOMAIN pending : first(m) /\ pending' = Restrict(pending, DOMAIN pending \ {m})
    BY <1>10 DEF NotifyAudit
  <2>2. /\ DOMAIN pending' = DOMAIN pending \ {m}
        /\ \A k \in DOMAIN pending' : pending'[k] = pending[k]
    BY <2>1 DEF Restrict
  <2>3. UNCHANGED <<events, attributes, faults, crashes>>
        /\ pc = "audit_notify" /\ pc' # "upsert"
    BY <1>10 DEF NotifyAudit, storeVars, boundVars
  <2>4. n \in DOMAIN pending' => pending'[n].old_value = attributes[n]
    BY <2>1, <2>2, FirstIsUnique DEF Kept
  <2>5. owed(n)' = owed(n)
    BY <2>3 DEF owed
  <2> QED  BY <1>1, <1>2, <2>3, <2>4, <2>5 DEF Kept
<1> QED  BY <1>3, <1>4, <1>5, <1>6, <1>7, <1>8, <1>9, <1>10, LedgerSteps

\* The tick writes to targets only, its event in flight included.
FlyingTarget == decay_pc \in Flying => decay_event.name \in DECAY_TARGETS

LEMMA FlyingTargetStep ==
  ASSUME TickTypeOK, FlyingTarget, [DecayNext]_decayAllVars
  PROVE  FlyingTarget'
<1>1. CASE Onward \/ RowDone \/ Aborts \/ check_due \/ ClockSetBack
  BY <1>1, CheckDueFacts DEF Onward, RowDone, Aborts, ClockSetBack, FlyingTarget, Flying, tickVars
<1>2. CASE DecayInsert
  <2>1. CASE decay_pc' = "idle"
    BY <2>1 DEF FlyingTarget, Flying
  <2>2. CASE decay_pc' # "idle"
    <3>1. PICK n \in due : decay_event'.name = n
      BY <1>2, <2>2, DecayInsertFacts
    <3> QED  BY <3>1 DEF FlyingTarget, TickTypeOK, DecayTypeOK
  <2> QED  BY <2>1, <2>2
<1> QED  BY <1>1, <1>2, DecaySteps

LEMMA TickSpares ==
  ASSUME TickTypeOK, FlyingTarget, [DecayNext]_decayAllVars, NEW n \in Attrs \ DECAY_TARGETS
  PROVE  attributes'[n] = attributes[n] /\ enabled_of(events', n) = enabled_of(events, n)
<1>1. CASE DecayInsert
  <2>1. UNCHANGED attributes
    BY <1>1, DecayInsertFacts
  <2>2. CASE UNCHANGED events
    BY <2>1, <2>2
  <2>3. CASE ~UNCHANGED events
    <3>1. PICK ev : events' = events \cup {ev} /\ ev.name \in due
      BY <1>1, <2>3, DecayInsertFacts
    <3>2. ev.name # n
      BY <3>1 DEF TickTypeOK, DecayTypeOK
    <3> QED  BY <2>1, <3>1, <3>2 DEF enabled_of
  <2> QED  BY <2>2, <2>3
<1>2. CASE DecayUpsert
  <2>1. /\ attributes' = [attributes EXCEPT ![decay_event.name] = decay_event.new_value]
        /\ UNCHANGED events /\ decay_pc = "upsert"
    BY <1>2 DEF DecayUpsert, upsert_attribute
  <2>2. decay_event.name # n
    BY <2>1 DEF FlyingTarget, Flying
  <2> QED  BY <2>1, <2>2 DEF TickTypeOK, DecayTypeOK, StoreTypeOK
<1>3. CASE ~DecayInsert /\ ~DecayUpsert
  BY <1>3 DEF DecayNext, Scheduler, SchedulerStarts, check_due, get_setting_bool,
     read_target_values, acquire_day_counter, DecayEnqueueAudit,
     DecayNotifyAudit, bump_last_decay_at, TickFails, DecayCrash, DecayTimePasses,
     ClockSetBack, set_setting_bool, storeVars, decayAllVars
<1> QED  BY <1>1, <1>2, <1>3

\* Nor does an event of the scheduler count for another attribute.
LEMMA KeptBeside ==
  ASSUME TickTypeOK, FlyingTarget, Ticks, NEW n \in Attrs \ DECAY_TARGETS, Kept(n)
  PROVE  Kept(n)'
<1>1. attributes'[n] = attributes[n] /\ net_delta(n)' = net_delta(n)
  BY TickSpares, NetDelta DEF Ticks
<1>2. UNCHANGED <<pc, projection, pending>>
  BY DEF Ticks, loopOnlyVars, procVars, localVars
<1>3. owed(n)' = owed(n) /\ (first(n)' <=> first(n))
  BY <1>2 DEF owed, first, delta
<1>4. faults' + crashes' = 0 => faults + crashes = 0
  <2>1. faults \in Nat /\ crashes \in Nat
    BY DEF TickTypeOK, DecayTypeOK, StoreTypeOK
  <2>2. Ticks => [DecayNext]_decayAllVars
    BY DEF Ticks
  <2> QED
    BY <2>1, <2>2, DecaySteps, DecayInsertFacts, CheckDueFacts
       DEF RowDone, Aborts, ClockSetBack
<1> QED  BY <1>1, <1>2, <1>3, <1>4 DEF Kept

\* As long as nobody rebuilds.
SparedInv ==
  /\ FlyingTarget
  /\ rebuilds = 0 => rebuilt = NoRebuild /\ \A n \in Attrs \ DECAY_TARGETS : Kept(n)

LEMMA SparedStep ==
  ASSUME DaemonTypeOK, SparedInv, [AttrdNext]_attrdVars
  PROVE  SparedInv'
<1>0. LoopTypeOK /\ TickTypeOK /\ LogOK /\ FlyingTarget /\ rebuilds \in Nat
  BY DEF DaemonTypeOK, SparedInv
<1>1. CASE Loops
  <2>1. UNCHANGED <<decay_pc, decay_event, rebuilds, rebuilt>>
    BY <1>1 DEF Loops, decayVars, schedVars, tickVars, rebuildVars
  <2>2. FlyingTarget'
    BY <1>0, <2>1 DEF FlyingTarget
  <2>3. \A n \in Attrs \ DECAY_TARGETS : Kept(n) => Kept(n)'
    BY <1>0, <1>1, KeptStep DEF Loops
  <2> QED  BY <2>1, <2>2, <2>3 DEF SparedInv
<1>2. CASE Ticks
  <2>1. UNCHANGED <<rebuilds, rebuilt>>
    BY <1>2 DEF Ticks, rebuildVars
  <2>2. FlyingTarget'
    BY <1>0, <1>2, FlyingTargetStep DEF Ticks
  <2>3. \A n \in Attrs \ DECAY_TARGETS : Kept(n) => Kept(n)'
    BY <1>0, <1>2, KeptBeside
  <2> QED  BY <2>1, <2>2, <2>3 DEF SparedInv
<1>3. CASE Lives
  <2>1. UNCHANGED <<rebuilds, rebuilt>>
    BY <1>3 DEF Lives, rebuildVars
  <2>2. FlyingTarget'
    BY <1>0, <1>3, FlyingTargetStep DEF Lives
  <2>3. \A n \in Attrs \ DECAY_TARGETS : Kept(n) => Kept(n)'
    BY <1>0, <1>3, KeptStep DEF Lives
  <2> QED  BY <2>1, <2>2, <2>3 DEF SparedInv
<1>4. CASE RebuildReads \/ RebuildCommits
  <2>1. UNCHANGED <<decay_pc, decay_event>>
    BY <1>4 DEF RebuildReads, RebuildCommits, decayVars, schedVars, tickVars
  <2>2. rebuilds' # 0
    BY <1>0, <1>4 DEF RebuildReads, RebuildCommits, SparedInv
  <2> QED  BY <1>0, <2>1, <2>2 DEF SparedInv, FlyingTarget
<1> QED  BY <1>1, <1>2, <1>3, <1>4, AttrdSteps

(***************************************************************************)
(* NonTargetsCoherent: whatever the overlap of the run loop and the tick,  *)
(* the run loop's snapshot of an attribute outside DECAY_TARGETS is        *)
(* current when it is used, and where nothing fails the attribute is the   *)
(* sum of its logged deltas, for any targets and as long as nobody         *)
(* rebuilds.                                                               *)
(***************************************************************************)
THEOREM NonTargetsStayCoherent == AttrdSpec => []NonTargetsCoherent
<1>1. AttrdInit => SparedInv
  <2> SUFFICES ASSUME AttrdInit  PROVE SparedInv
    OBVIOUS
  <2>1. /\ events = {} /\ pc = "down" /\ DOMAIN pending = {} /\ decay_pc = "down"
        /\ attributes = [n \in Attrs |-> 0] /\ rebuilt = NoRebuild
    BY DEF AttrdInit, LoopInit, StoreInit, SchedulerInit, NoEvents
  <2>2. \A n : net_delta(n) = 0
    <3>1. \A n : enabled_of(events, n) = {}
      BY <2>1 DEF enabled_of
    <3> QED  BY <3>1, NetDelta, SumEmpty
  <2>3. \A n \in Attrs : Kept(n)
    BY <2>1, <2>2 DEF Kept, owed
  <2> QED  BY <2>1, <2>3 DEF SparedInv, FlyingTarget, Flying
<1>2. DaemonTypeOK /\ SparedInv /\ [AttrdNext]_attrdVars => SparedInv'
  BY SparedStep
<1>3. DaemonTypeOK /\ SparedInv => NonTargetsCoherent
  <2> SUFFICES ASSUME DaemonTypeOK, SparedInv, rebuilds = 0, NEW n \in Attrs \ DECAY_TARGETS
               PROVE  /\ faults + crashes = 0 =>
                           attributes[n] = net_delta(n) \/ (pc = "upsert" /\ first(n))
                      /\ n \in DOMAIN pending =>
                           \/ pending[n].old_value = attributes[n]
                           \/ pc \in {"audit", "audit_notify"} /\ first(n)
    BY DEF NonTargetsCoherent
  <2>1. Kept(n) /\ attributes[n] \in Int
    BY ValueIsInt DEF SparedInv, DaemonTypeOK, LoopTypeOK, StoreTypeOK
  <2>2. owed(n) = 0 \/ (pc = "upsert" /\ first(n))
    BY DEF owed
  <2> QED  BY <2>1, <2>2 DEF Kept
<1> QED  BY <1>1, <1>2, <1>3, DaemonTypeInvariant, PTL DEF AttrdSpec

-----------------------------------------------------------------------------
(***************************************************************************)
(* How often a row decays beside rebuilds. A rebuild clears every stamp:   *)
(* the last decay of each target loses its own, and the decays before it   *)
(* need none, since the last one has put them a DAY behind.                *)
(***************************************************************************)

targets == Cardinality(DECAY_TARGETS)

\* An open rebuild is counted when it begins and clears the stamps later.
uncleared == IF rebuilt = NoRebuild THEN 0 ELSE targets

EarlyInv ==
  /\ setbacks = 0 /\ DecaysOK
  /\ \E U, R : GapOver(U, R) /\ Cardinality(U) + uncleared
                                  <= faults + crashes + rebuilds * targets

\* The decays a rebuild leaves without a stamp: the last one of each target.
last_decays ==
  {f \in decays : \A e \in decays : e.name = f.name /\ e # f => replays_before(e, f)}

\* What the run loop and the start of a rebuild do is no concern of the decays.
LEMMA LoopsOnward ==
  ASSUME LoopTypeOK, PendingOurs, [LoopNext]_vars, UNCHANGED decayVars
  PROVE  Onward /\ faults + crashes <= faults' + crashes'
<1>1. decays' = decays
  <2>1. events \subseteq events' /\ \A e \in events' \ events : e.source # "maintenance"
    BY InsertedByLoop
  <2> QED  BY <2>1 DEF decays
<1>2. clock <= clock' /\ faults + crashes <= faults' + crashes'
  <2>0. clock \in Nat /\ faults \in Nat /\ crashes \in Nat
    BY DEF LoopTypeOK, StoreTypeOK
  <2> USE DEF storeVars, brokerVars, queueVars, localVars, procVars, boundVars, histVars
  <2>1. CASE \/ (\E p \in Payloads : BrokerInsert(p))
             \/ (\E id \in Ids : BrokerNotify(id))
             \/ (\E a \in DOMAIN audit_inbox : BrokerReject(a))
             \/ (\E id \in Ids : NotifyLost(id))
             \/ (\E x \in Ids \cup {NoId} : StrayNotify(x)) \/ TimePasses
             \/ drain_audit_replies \/ EnterServe \/ UNCHANGED vars
    BY <2>0, <2>1 DEF BrokerInsert, BrokerNotify, BrokerReject, NotifyLost, StrayNotify,
                      TimePasses, drain_audit_replies, EnterServe, vars
  <2>2. CASE \/ Start \/ drain_outcome_inbox \/ DrainNext \/ handle_outcome_notify
             \/ handle_reply_notify \/ Claim \/ ClaimMisses \/ RevisionWithoutPrior
             \/ delete_outcome_row \/ SelectReply \/ DeleteReply
             \/ StatementFails \/ Crash \/ InsertRefused
    BY <2>0, <2>2 DEF Start, drain_outcome_inbox, DrainNext, handle_outcome_notify,
                handle_reply_notify, Claim, ClaimMisses, RevisionWithoutPrior,
                delete_outcome_row, SelectReply, DeleteReply, StatementFails, Crash,
                LoopDies, InsertRefused, Return
  <2>3. CASE \/ ReadForRevision \/ ReadAndDispatch \/ build_revision_events \/ InsertEvent
             \/ UpsertAttribute \/ EnqueueAudit \/ NotifyAudit
    BY <2>0, <2>3 DEF ReadForRevision, ReadAndDispatch, build_revision_events, InsertEvent,
                UpsertAttribute, EnqueueAudit, NotifyAudit, Dispatch
  <2> QED  BY <2>1, <2>2, <2>3 DEF LoopNext, Broker, Unreliable, Loop
<1>3. UNCHANGED <<last_decay_at, due, decay_event, tick_now, setbacks, decay_pc>>
  BY DEF decayVars, settingVars, schedVars, tickVars
<1> QED  BY <1>1, <1>2, <1>3 DEF Onward

LEMMA TargetsFinite == IsFiniteSet(DECAY_TARGETS) /\ targets \in Nat
<1>1. IsFiniteSet(Attrs)
  <2>1. 1 \in Int /\ 8 \in Int
    OBVIOUS
  <2> QED  BY <2>1, FS_Interval, Zenon DEF Attrs
<1>2. IsFiniteSet(DECAY_TARGETS)
  BY <1>1, FS_Subset, DecayAssumption
<1> QED  BY <1>2, FS_CardinalityType DEF targets

\* There is one per target at most.
LEMMA LastDecaysFew ==
  ASSUME TickTypeOK, LogOK, DecaysOK
  PROVE  IsFiniteSet(last_decays) /\ Cardinality(last_decays) <= targets
<1> DEFINE g == [e \in last_decays |-> e.name]
<1>1. last_decays \subseteq decays /\ decays \subseteq Event
  BY DecayFacts DEF last_decays
<1>2. g \in [last_decays -> DECAY_TARGETS]
  BY <1>1 DEF DecaysOK
<1>3. ASSUME NEW x \in last_decays, NEW y \in last_decays, g[x] = g[y]  PROVE x = y
  <2>1. x.name = y.name
    BY <1>3
  <2>2. x # y => replays_before(x, y) /\ replays_before(y, x)
    BY <2>1, <1>1 DEF last_decays
  <2> QED  BY <1>1, <2>2, ReplayOrder
<1> HIDE DEF g
<1> QED  BY <1>2, <1>3, TargetsFinite, CountedBy DEF targets

\* And it is the last one.
LEMMA LastDecayOf ==
  ASSUME TickTypeOK, LogOK, NEW e \in decays
  PROVE  \E f \in last_decays : f.name = e.name /\ (e = f \/ replays_before(e, f))
<1> DEFINE S == {x \in decays : x.name = e.name}
<1>1. e \in S /\ S \subseteq decays
  OBVIOUS
<1> HIDE DEF S
<1>2. IsFiniteSet(S) /\ S # {} /\ S \subseteq Event /\ Keyed(S)
  BY <1>1, DecayFacts, FS_Subset DEF Keyed
<1>3. latest(S) \in S /\ \A f \in S \ {latest(S)} : replays_before(f, latest(S))
  BY <1>2, LatestIsLast
<1>4. PICK m : m \in S /\ \A f \in S \ {m} : replays_before(f, m)
  BY <1>3
<1>5. m \in decays /\ m.name = e.name
  BY <1>4 DEF S
<1>6. \A f \in decays : f.name = m.name /\ f # m => replays_before(f, m)
  BY <1>4, <1>5 DEF S
<1>7. m \in last_decays
  BY <1>5, <1>6 DEF last_decays
<1>8. e = m \/ replays_before(e, m)
  BY <1>5, <1>6
<1> QED  BY <1>5, <1>7, <1>8

\* A commit of a rebuild unstamps the last decay of each target.
LEMMA GapRebuild ==
  ASSUME TickTypeOK, LogOK, DecaysOK, setbacks = 0, NEW U, NEW R, GapOver(U, R),
         UNCHANGED <<events, clock, due, decay_pc, decay_event, tick_now, setbacks>>
  PROVE  GapOver(U \cup last_decays, decays \ (U \cup last_decays))'
<1> PICK V : V = U \cup last_decays
  OBVIOUS
<1> PICK W : W = decays \ V
  OBVIOUS
<1>0. /\ decays' = decays /\ last_decays' = last_decays
      /\ U \subseteq decays /\ last_decays \subseteq decays
  BY DEF decays, last_decays, GapOver, replays_before
<1>1. V \subseteq decays' /\ Apart(V)'
  BY <1>0 DEF GapOver, Apart, replays_before
<1>2. Marked(V, W)'
  BY <1>0 DEF Marked
<1>3. Ripe(V)'
  BY <1>0 DEF GapOver, Ripe
<1>4. Overtaken(W)'
  <2> SUFFICES ASSUME NEW e \in decays, e \notin V
               PROVE  \E g \in decays : g.name = e.name /\ e.ts + DAY <= g.ts
    BY <1>0 DEF Overtaken
  <2>1. PICK g \in last_decays : g.name = e.name /\ (e = g \/ replays_before(e, g))
    BY LastDecayOf
  <2>2. g \in decays /\ replays_before(e, g)
    BY <1>0, <2>1
  <2>3. g.ts - e.ts >= DAY
    BY <2>1, <2>2 DEF GapOver, Apart
  <2>4. e.ts + DAY <= g.ts
    BY <2>2, <2>3, DecayFacts
  <2> QED  BY <2>1, <2>2, <2>4
<1>5. GapOver(V, W)'
  BY <1>1, <1>2, <1>3, <1>4 DEF GapOver
<1> QED  BY <1>0, <1>5

LEMMA GrownByOne ==
  ASSUME NEW U, IsFiniteSet(U), NEW V, NEW x, V \subseteq U \cup {x}
  PROVE  Cardinality(V) \in Nat /\ Cardinality(V) <= Cardinality(U) + 1
<1>1. IsFiniteSet(U \cup {x}) /\ Cardinality(U \cup {x}) <= Cardinality(U) + 1
  <2>1. Cardinality(U) \in Nat
    BY FS_CardinalityType
  <2> QED  BY <2>1, FS_AddElement
<1>2. Cardinality(V) <= Cardinality(U \cup {x}) /\ Cardinality(V) \in Nat
  BY <1>1, FS_Subset, FS_CardinalityType
<1> QED  BY <1>1, <1>2, FS_CardinalityType

LEMMA MoreFailures ==
  ASSUME NEW c \in Nat, NEW u \in Nat, NEW f \in Nat, NEW r \in Nat, NEW k \in Nat,
         NEW f1 \in Nat, NEW r1 \in Nat, NEW t \in Nat,
         c + u <= f + r + k, f + r <= f1 + r1
  PROVE  c + u <= f1 + r1 + k /\ c + (u + t) <= f1 + r1 + (k + t)
OBVIOUS

LEMMA EarlyStep ==
  ASSUME DaemonTypeOK, CounterAhead, EarlyInv, [AttrdNext]_attrdVars
  PROVE  EarlyInv'
<1>0. /\ LoopTypeOK /\ TickTypeOK /\ LogOK /\ PendingOurs /\ DecaysOK /\ setbacks = 0
      /\ faults \in Nat /\ crashes \in Nat /\ rebuilds \in Nat
  BY DEF DaemonTypeOK, EarlyInv, TickTypeOK, DecayTypeOK, StoreTypeOK
<1>1. PICK U, R : /\ GapOver(U, R)
                  /\ Cardinality(U) + uncleared <= faults + crashes + rebuilds * targets
  BY DEF EarlyInv
<1>2. IsFiniteSet(U) /\ Cardinality(U) \in Nat
  BY <1>0, <1>1, DecayFacts, FS_Subset, FS_CardinalityType DEF GapOver
<1>3. targets \in Nat /\ targets' = targets /\ rebuilds * targets \in Nat
  BY <1>0, TargetsFinite DEF targets
<1>4. ASSUME UNCHANGED rebuildVars  PROVE rebuilds' = rebuilds /\ uncleared' = uncleared
  BY <1>4 DEF rebuildVars, uncleared, targets
<1>5. faults' \in Nat /\ crashes' \in Nat /\ uncleared \in Nat
  <2>1. DaemonTypeOK'
    BY DaemonTypeStep
  <2> QED  BY <1>3, <2>1 DEF DaemonTypeOK, TickTypeOK, DecayTypeOK, StoreTypeOK, uncleared
<1> PICK K : K = rebuilds * targets
  OBVIOUS
<1>9. K \in Nat /\ Cardinality(U) + uncleared <= faults + crashes + K
  BY <1>1, <1>3
<1>6. CASE Loops \/ RebuildReads
  <2>1. Onward /\ faults + crashes <= faults' + crashes'
    BY <1>0, <1>6, LoopsOnward DEF Loops, RebuildReads
  <2>2. DecaysOK'
    <3>1. clock \in Nat /\ clock' \in Nat /\ tick_now \in Nat /\ \A e \in decays : e.ts \in Nat
      <4>1. DaemonTypeOK'
        BY DaemonTypeStep
      <4> QED  BY <1>0, <4>1, DecayFacts
               DEF DaemonTypeOK, TickTypeOK, DecayTypeOK, StoreTypeOK
    <3> QED  BY <1>0, <2>1, <3>1 DEF Onward, DecaysOK, maintenance_run_id, utc_day
  <2>3. GapOver(U, R)' /\ setbacks' = 0
    BY <1>0, <1>1, <2>1, GapOnward DEF Onward
  <2>4. Cardinality(U) + uncleared' <= faults' + crashes' + rebuilds' * targets
    <3>1. CASE Loops
      <4>1. rebuilds' = rebuilds /\ uncleared' = uncleared
        BY <1>4, <3>1 DEF Loops
      <4>2. Cardinality(U) + uncleared' <= faults' + crashes' + K
        BY <1>0, <1>2, <1>3, <1>5, <1>9, <2>1, <4>1, MoreFailures
      <4> QED  BY <4>1, <4>2
    <3>2. CASE RebuildReads
      <4>1. rebuilds' = rebuilds + 1 /\ uncleared = 0 /\ uncleared' \in {0, targets}
        BY <1>3, <3>2 DEF RebuildReads, uncleared
      <4>2. rebuilds' * targets = K + targets
        BY <1>0, <1>3, <4>1
      <4>3. Cardinality(U) + (0 + targets) <= faults' + crashes' + (K + targets)
        BY <1>0, <1>2, <1>3, <1>5, <1>9, <2>1, <4>1, MoreFailures
      <4>4. Cardinality(U) \in Nat /\ targets \in Nat /\ K + targets \in Nat
        BY <1>2, <1>3, <1>9
      <4> QED  BY <1>3, <1>5, <1>9, <4>1, <4>2, <4>3, <4>4
    <3> QED  BY <1>6, <3>1, <3>2
  <2> QED  BY <1>3, <2>2, <2>3, <2>4 DEF EarlyInv
<1>7. CASE Ticks \/ Lives
  <2>1. [DecayNext]_decayAllVars /\ UNCHANGED <<setbacks, rebuildVars>>
    BY <1>7 DEF Ticks, Lives
  <2>2. ~ClockSetBack
    BY <1>0, <2>1 DEF ClockSetBack
  <2>3. DecaysOK' /\ setbacks' = 0
    BY <1>0, <2>1, DecaysStep
  <2>4. rebuilds' = rebuilds /\ uncleared' = uncleared
    BY <1>4, <2>1
  <2>5. \/ GapOver(U, R)' /\ faults' + crashes' = faults + crashes
        \/ /\ \E V : GapOver(V, R)' /\ \E x : V \subseteq U \cup {x}
           /\ faults' + crashes' = faults + crashes + 1
    BY <1>0, <1>1, <2>1, <2>2, GapStep
  <2>6. CASE GapOver(U, R)' /\ faults' + crashes' = faults + crashes
    <3>1. Cardinality(U) + uncleared' <= faults' + crashes' + rebuilds' * targets
      BY <1>9, <2>4, <2>6
    <3> QED  BY <1>3, <2>3, <2>6, <3>1 DEF EarlyInv
  <2>7. CASE /\ \E V : GapOver(V, R)' /\ \E x : V \subseteq U \cup {x}
             /\ faults' + crashes' = faults + crashes + 1
    <3>1. PICK V, x : GapOver(V, R)' /\ V \subseteq U \cup {x}
      BY <2>7
    <3>2. Cardinality(V) \in Nat /\ Cardinality(V) <= Cardinality(U) + 1
      BY <1>2, <3>1, GrownByOne
    <3>3. Cardinality(V) + uncleared <= (faults + crashes + 1) + K
      BY <1>0, <1>2, <1>5, <1>9, <3>2
    <3>4. Cardinality(V) + uncleared' <= faults' + crashes' + rebuilds' * targets
      BY <2>4, <2>7, <3>3
    <3> QED  BY <1>3, <2>3, <3>1, <3>4 DEF EarlyInv
  <2> QED  BY <2>5, <2>6, <2>7
<1>8. CASE RebuildCommits
  <2>1. /\ UNCHANGED <<events, clock, due, decay_pc, decay_event, tick_now, setbacks>>
        /\ UNCHANGED <<faults, crashes, rebuilds>>
        /\ rebuilt # NoRebuild /\ rebuilt' = NoRebuild
    BY <1>8 DEF RebuildCommits, settingVars, schedVars, tickVars
  <2>2. PICK V, W : V = U \cup last_decays /\ W = decays \ V
    OBVIOUS
  <2>3. GapOver(V, W)'
    <3>1. GapOver(U \cup last_decays, decays \ (U \cup last_decays))'
      BY <1>0, <1>1, <2>1, GapRebuild
    <3>2. last_decays' = last_decays /\ decays' = decays /\ U' = U
      BY <2>1 DEF last_decays, decays, replays_before
    <3> QED  BY <2>2, <3>1, <3>2
  <2>4. IsFiniteSet(last_decays) /\ Cardinality(last_decays) <= targets
    BY <1>0, LastDecaysFew
  <2>5. Cardinality(V) \in Nat /\ Cardinality(V) <= Cardinality(U) + targets
    <3>1. /\ IsFiniteSet(V)
          /\ Cardinality(V) = Cardinality(U) + Cardinality(last_decays)
                                - Cardinality(U \cap last_decays)
      BY <1>2, <2>2, <2>4, FS_Union
    <3>2. Cardinality(U \cap last_decays) \in Nat /\ Cardinality(last_decays) \in Nat
      BY <1>2, <2>4, FS_Subset, FS_CardinalityType
    <3> QED  BY <1>2, <1>3, <2>4, <3>1, <3>2, FS_CardinalityType
  <2>6. uncleared = targets /\ uncleared' = 0
    BY <2>1 DEF uncleared
  <2>7. Cardinality(V) + uncleared' <= faults' + crashes' + rebuilds' * targets
    <3>1. Cardinality(V) + 0 <= faults + crashes + K
      BY <1>0, <1>2, <1>3, <1>9, <2>5, <2>6
    <3> QED  BY <2>1, <2>6, <3>1
  <2>8. DecaysOK' /\ setbacks' = 0
    BY <1>0, <2>1 DEF DecaysOK, decays, maintenance_run_id, utc_day
  <2> QED  BY <1>3, <2>3, <2>7, <2>8 DEF EarlyInv
<1> QED  BY <1>6, <1>7, <1>8, AttrdSteps

(***************************************************************************)
(* EarlyDecayNeedsRebuild: for any targets and any length of the day, with *)
(* the run loop beside it, a row decays twice in 24h at most once per      *)
(* failed statement or crash, and once per target for each rebuild.        *)
(***************************************************************************)
THEOREM EarlyDecaysAreRebuilt == AttrdSpec => []EarlyDecayNeedsRebuild
<1>1. AttrdInit => EarlyInv
  <2> SUFFICES ASSUME AttrdInit  PROVE EarlyInv
    OBVIOUS
  <2>1. /\ decays = {} /\ decay_pc = "down" /\ faults = 0 /\ crashes = 0 /\ rebuilds = 0
        /\ setbacks = 0 /\ uncleared = 0
    BY DEF AttrdInit, LoopInit, StoreInit, SchedulerInit, decays, uncleared
  <2>2. DecaysOK
    BY <2>1 DEF DecaysOK, Flying, DecayStatements
  <2>3. GapOver({}, {})
    BY <2>1 DEF GapOver, Apart, Marked, Overtaken, Ripe
  <2>4. Cardinality({}) + uncleared <= faults + crashes + rebuilds * targets
    BY <2>1, FS_EmptySet, TargetsFinite
  <2> QED  BY <2>1, <2>2, <2>3, <2>4 DEF EarlyInv
<1>2. DaemonTypeOK /\ CounterAhead /\ EarlyInv /\ [AttrdNext]_attrdVars => EarlyInv'
  BY EarlyStep
<1>3. DaemonTypeOK /\ EarlyInv => EarlyDecayNeedsRebuild
  <2> SUFFICES ASSUME DaemonTypeOK, EarlyInv  PROVE EarlyDecayNeedsRebuild
    OBVIOUS
  <2>1. PICK U, R : /\ GapOver(U, R)
                    /\ Cardinality(U) + uncleared <= faults + crashes + rebuilds * targets
    BY DEF EarlyInv
  <2>2. /\ Cardinality(U) \in Nat /\ Cardinality(double_decays) \in Nat
        /\ Cardinality(double_decays) <= Cardinality(U)
    <3>1. TickTypeOK /\ LogOK /\ setbacks = 0
      BY DEF DaemonTypeOK, EarlyInv
    <3>2. IsFiniteSet(U) /\ IsFiniteSet(double_decays)
      BY <2>1, <3>1, DecayFacts, DoubleDecays, FS_Subset DEF GapOver
    <3> QED  BY <2>1, <3>1, <3>2, DoublesFollowUnstamped, FS_CardinalityType
  <2>3. uncleared \in Nat /\ targets \in Nat /\ rebuilds * targets \in Nat
        /\ faults \in Nat /\ crashes \in Nat
    BY TargetsFinite DEF DaemonTypeOK, TickTypeOK, DecayTypeOK, StoreTypeOK, uncleared
  <2>4. Cardinality(double_decays) <= faults + crashes + rebuilds * targets
    BY <2>1, <2>2, <2>3
  <2> QED  BY <2>4 DEF EarlyDecayNeedsRebuild, targets
<1> QED  BY <1>1, <1>2, <1>3, DaemonTypeInvariant, DayCounterInvariant, PTL DEF AttrdSpec
=============================================================================
