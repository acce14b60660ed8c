------------------------------- MODULE Decay -------------------------------
(***************************************************************************)
(* The idle-decay scheduler (src/decay.rs). An hourly timer runs tick(),   *)
(* which lowers each negative-pole attribute that has not decayed for 24h. *)
(* Every statement the tick awaits is a step of its own.                   *)
(*                                                                         *)
(* decay_pc names the statement the scheduler will execute next:           *)
(*   down            no daemon process                                     *)
(*   idle            waiting for the interval timer                        *)
(*   setting .. counter   tick() before its loop                           *)
(*   insert .. bump       the loop over the due rows                       *)
(***************************************************************************)
EXTENDS Store

CONSTANTS
  DECAY_TARGETS,    \* {shame, doubt, brooding, metamorphosis} in the code
  DAY,              \* 24h and the length of a UTC day, in units of the clock
  TICK_INTERVAL,    \* DECAY_TICK_INTERVAL, in the same units
  MAINTENANCE,      \* where the "maintenance:<day>" run ids sort
  InitialValues,    \* values an earlier process may have left
  MaxChanges        \* bound: writes of the switch and set-backs of the clock, together

ASSUME DecayAssumption ==
  /\ DECAY_TARGETS \subseteq Attrs
  /\ DAY \in Nat \ {0} /\ TICK_INTERVAL \in Nat \ {0}
  /\ MAINTENANCE \in Nat /\ \A r \in RunIds : r < MAINTENANCE
  /\ InitialValues \subseteq Value
  /\ MaxChanges \in Nat

VARIABLES
  last_decay_at,    \* satan_attributes.last_decay_at
  updates_enabled,  \* satan_attribute_settings.attribute_updates_enabled
  toggles, setbacks,  \* what the bound counts
  decay_pc,
  next_tick,        \* when the interval timer fires
  day, day_counter, \* DayCounterState
  tick_now,         \* locals of tick(): now, enabled, projection,
  tick_enabled,
  tick_values,
  due,              \*   the due rows not yet dispatched,
  decay_event       \*   and the event being written

settingVars == <<updates_enabled, toggles, setbacks>>
tickVars    == <<tick_now, tick_enabled, tick_values, due, decay_event>>
schedVars   == <<decay_pc, next_tick, day, day_counter, tickVars>>
decayVars   == <<last_decay_at, settingVars, schedVars>>
decayAllVars == <<faults, crashes, storeVars, decayVars>>

DECAY_DELTA == -4           \* -0.01
Never == -1                 \* last_decay_at IS NULL
NoDay == -1                 \* NaiveDate::MIN
NoEvent == <<>>

utc_day(t) == t \div DAY

\* Mutant: the run id lacks its "maintenance:" prefix.
bare_run_id(d) == d

maintenance_run_id(d) == MAINTENANCE + d

DecayStatements == {"setting", "values", "counter", "insert", "upsert", "audit",
                    "audit_notify", "bump"}

(***************************************************************************)
(* The type invariant: among the rest, a tick only ever holds targets, and *)
(* what it writes after insert_event is a valid event (tick()).            *)
(***************************************************************************)
DecayTypeOK ==
  /\ StoreTypeOK
  /\ last_decay_at \in [Attrs -> Nat \cup {Never}]
  /\ updates_enabled \in BOOLEAN /\ toggles \in Nat /\ setbacks \in Nat
  /\ decay_pc \in {"down", "idle"} \cup DecayStatements
  /\ next_tick \in Nat
  /\ day \in Nat \cup {NoDay} /\ day_counter \in Nat
  /\ tick_now \in Nat /\ tick_enabled \in BOOLEAN
  /\ tick_values \in [Attrs -> Value]
  /\ due \subseteq DECAY_TARGETS
  /\ decay_pc \in {"upsert", "audit", "audit_notify", "bump"} => decay_event \in Event

\* DecayScheduler::new: the sentinel day makes the first tick rotate.
SchedulerInit ==
  /\ decay_pc = "down" /\ next_tick = 0
  /\ day = NoDay /\ day_counter = 0
  /\ tick_now = 0 /\ tick_enabled = TRUE
  /\ tick_values = [n \in Attrs |-> 0]
  /\ due = {} /\ decay_event = NoEvent

\* Values, stamps and switch as an earlier process and a purged log leave them.
DecayInit ==
  /\ clock = 0 /\ faults = 0 /\ crashes = 0
  /\ \E v \in InitialValues : attributes = [n \in Attrs |-> v]
  /\ events = {} /\ audit_inbox = <<>>
  /\ \E t \in {Never, 0} : last_decay_at = [n \in Attrs |-> t]
  /\ updates_enabled \in BOOLEAN /\ toggles = 0 /\ setbacks = 0
  /\ SchedulerInit

-----------------------------------------------------------------------------
(***************************************************************************)
(* The environment: the broker's switch, and time.                         *)
(***************************************************************************)
set_setting_bool(b) ==
  /\ toggles + setbacks < MaxChanges
  /\ b # updates_enabled
  /\ updates_enabled' = b
  /\ toggles' = toggles + 1
  /\ UNCHANGED <<faults, crashes, storeVars, last_decay_at, setbacks, schedVars>>

DecayTimePasses ==
  /\ clock < MaxClock
  /\ clock' = clock + 1
  /\ UNCHANGED <<faults, crashes, attributes, events, audit_inbox, decayVars>>

\* Utc::now() is the wall clock: it may be set back, across midnight too. The
\* interval timer is monotonic and fires as long after as it would have. A tick
\* reads the clock only when it begins: setting it back later is as good as
\* after the tick.
ClockSetBack ==
  /\ decay_pc \in {"down", "idle"}
  /\ toggles + setbacks < MaxChanges
  /\ clock > 0
  /\ setbacks' = setbacks + 1
  /\ clock' = clock - 1
  /\ next_tick' = IF next_tick > 0 THEN next_tick - 1 ELSE 0
  /\ UNCHANGED <<faults, crashes, attributes, events, audit_inbox, last_decay_at,
                 updates_enabled, toggles, decay_pc, day, day_counter, tickVars>>

-----------------------------------------------------------------------------
(***************************************************************************)
(* run(): the first tick of tokio::time::interval fires at once, the next  *)
(* one an interval after the last (MissedTickBehavior::Delay).             *)
(***************************************************************************)
SchedulerStarts ==
  /\ decay_pc = "down"
  /\ decay_pc' = "idle"
  /\ next_tick' = clock
  /\ UNCHANGED <<faults, crashes, storeVars, last_decay_at, settingVars,
                 day, day_counter, tickVars>>

\* tick() returns, with the count or with an error that run() only logs.
TickReturns ==
  /\ decay_pc' = "idle"
  /\ due' = {} /\ decay_event' = NoEvent
  /\ tick_values' = [n \in Attrs |-> 0]

\* Mutant: a new UTC day makes a row due.
due_by_day(n, now) == last_decay_at[n] = Never \/ utc_day(now) # utc_day(last_decay_at[n])

\* Mutant: a NULL stamp compares as not due.
due_unless_null(n, now) == last_decay_at[n] # Never /\ now - last_decay_at[n] >= DAY

\* Mutant: any elapsed interval makes a row due.
due_by_interval(n, now) == last_decay_at[n] = Never \/ now - last_decay_at[n] >= TICK_INTERVAL

due_now(n, now) == last_decay_at[n] = Never \/ now - last_decay_at[n] >= DAY

\* Mutant: the names are not restricted to DECAY_TARGETS.
check_due_everywhere ==
  /\ decay_pc = "idle"
  /\ clock >= next_tick
  /\ next_tick' = clock + TICK_INTERVAL
  /\ due' = {n \in Attrs : due_now(n, clock)}
  /\ tick_now' = clock
  /\ decay_pc' = IF due' = {} THEN "idle" ELSE "setting"
  /\ UNCHANGED <<faults, crashes, storeVars, last_decay_at, settingVars,
                 day, day_counter, tick_enabled, tick_values, decay_event>>

\* The timer fires: tick() runs check_due. Both read the clock after the SELECT
\* has returned, with no await in between.
check_due ==
  /\ decay_pc = "idle"
  /\ clock >= next_tick
  /\ next_tick' = clock + TICK_INTERVAL
  /\ due' = {n \in DECAY_TARGETS : due_now(n, clock)}
  /\ tick_now' = clock
  /\ decay_pc' = IF due' = {} THEN "idle" ELSE "setting"
  /\ UNCHANGED <<faults, crashes, storeVars, last_decay_at, settingVars,
                 day, day_counter, tick_enabled, tick_values, decay_event>>

get_setting_bool ==
  /\ decay_pc = "setting"
  /\ tick_enabled' = updates_enabled
  /\ decay_pc' = "values"
  /\ UNCHANGED <<faults, crashes, storeVars, last_decay_at, settingVars, next_tick,
                 day, day_counter, tick_now, tick_values, due, decay_event>>

\* Mutant: the target values are not read.
keep_target_values ==
  /\ decay_pc = "values"
  /\ decay_pc' = IF day = utc_day(tick_now) THEN "insert" ELSE "counter"
  /\ UNCHANGED <<faults, crashes, storeVars, last_decay_at, settingVars, next_tick,
                 day, day_counter, tickVars>>

\* acquire_day_counter returns the cached counter without an await.
read_target_values ==
  /\ decay_pc = "values"
  /\ tick_values' = attributes
  /\ decay_pc' = IF day = utc_day(tick_now) THEN "insert" ELSE "counter"
  /\ UNCHANGED <<faults, crashes, storeVars, last_decay_at, settingVars, next_tick,
                 day, day_counter, tick_now, tick_enabled, due, decay_event>>

\* SELECT MAX(seq), and 0 for a run that has no events.
max_seq_for_run(run, m) ==
  LET seqs == {0} \cup {e.seq : e \in {f \in events : f.run_id = run}}
  IN m \in seqs /\ \A s \in seqs : s <= m

\* Mutant: a new day counter starts at zero.
reset_day_counter ==
  /\ decay_pc = "counter"
  /\ day' = utc_day(tick_now)
  /\ day_counter' = 0
  /\ decay_pc' = "insert"
  /\ UNCHANGED <<faults, crashes, storeVars, last_decay_at, settingVars, next_tick, tickVars>>

\* The day rolled: resume past the highest seq persisted for it.
acquire_day_counter ==
  /\ decay_pc = "counter"
  /\ day' = utc_day(tick_now)
  /\ \E m \in {0} \cup {e.seq : e \in events} :
       /\ max_seq_for_run(maintenance_run_id(utc_day(tick_now)), m)
       /\ day_counter' = m
  /\ decay_pc' = "insert"
  /\ UNCHANGED <<faults, crashes, storeVars, last_decay_at, settingVars, next_tick, tickVars>>

\* Mutant: the sign of DECAY_DELTA is applied twice.
dispatch_growth(n) ==
  [run_id       |-> maintenance_run_id(utc_day(tick_now)),
   seq          |-> day_counter + 1,
   ts           |-> tick_now,
   name         |-> n,
   old_value    |-> tick_values[n],
   new_value    |-> tick_values[n] - DECAY_DELTA,
   source       |-> "maintenance",
   reason       |-> "idle_decay",
   intervention_id |-> NoIntervention,
   caps_applied |-> {},
   disabled     |-> ~tick_enabled]

\* One due row's event; the delta is negative, so only the floor can clamp.
dispatch_maintenance(n) ==
  LET raw == tick_values[n] + DECAY_DELTA
  IN [run_id       |-> maintenance_run_id(utc_day(tick_now)),
      seq          |-> day_counter + 1,
      ts           |-> tick_now,
      name         |-> n,
      old_value    |-> tick_values[n],
      new_value    |-> IF raw < 0 THEN 0 ELSE raw,
      source       |-> "maintenance",
      reason       |-> "idle_decay",
      intervention_id |-> NoIntervention,
      caps_applied |-> IF raw < 0 THEN {"range_clamp"} ELSE {},
      disabled     |-> ~tick_enabled]

\* check_due has no ORDER BY: the due rows come in any order. An insert that
\* is refused (DecaySeqCollision, or a value out of range) aborts the tick.
DecayInsert ==
  /\ decay_pc = "insert"
  /\ day_counter' = day_counter + 1
  /\ \E n \in due :
       LET ev == dispatch_maintenance(n)
       IN IF insert_accepts(ev)
          THEN /\ insert_event(ev)
               /\ due' = due \ {n}
               /\ decay_event' = ev
               /\ decay_pc' = IF ev.disabled THEN "audit" ELSE "upsert"
               /\ UNCHANGED tick_values
          ELSE TickReturns /\ UNCHANGED events
  /\ UNCHANGED <<faults, crashes, clock, attributes, audit_inbox, last_decay_at,
                 settingVars, next_tick, day, tick_now, tick_enabled>>

\* Mutant: the whole projection the tick read is written back.
DecayUpsertsAll ==
  /\ decay_pc = "upsert"
  /\ attributes' = [tick_values EXCEPT ![decay_event.name] = decay_event.new_value]
  /\ decay_pc' = "audit"
  /\ UNCHANGED <<faults, crashes, clock, events, audit_inbox, last_decay_at,
                 settingVars, next_tick, day, day_counter, tickVars>>

DecayUpsert ==
  /\ decay_pc = "upsert"
  /\ upsert_attribute(decay_event)
  /\ decay_pc' = "audit"
  /\ UNCHANGED <<faults, crashes, clock, events, audit_inbox, last_decay_at,
                 settingVars, next_tick, day, day_counter, tickVars>>

DecayEnqueueAudit ==
  /\ decay_pc = "audit"
  /\ enqueue_audit_event(decay_event)
  /\ decay_pc' = "audit_notify"
  /\ UNCHANGED <<faults, crashes, clock, attributes, events, last_decay_at,
                 settingVars, next_tick, day, day_counter, tickVars>>

\* The next due row, or the end of the tick.
NextDueRow ==
  \/ due # {} /\ decay_pc' = "insert" /\ decay_event' = NoEvent
     /\ UNCHANGED <<due, tick_values>>
  \/ due = {} /\ TickReturns

\* pg_notify; a disabled row is not stamped and stays due.
DecayNotifyAudit ==
  /\ decay_pc = "audit_notify"
  /\ \/ decay_event.disabled /\ NextDueRow
     \/ ~decay_event.disabled /\ decay_pc' = "bump"
        /\ UNCHANGED <<due, tick_values, decay_event>>
  /\ UNCHANGED <<faults, crashes, storeVars, last_decay_at, settingVars, next_tick,
                 day, day_counter, tick_now, tick_enabled>>

bump_last_decay_at ==
  /\ decay_pc = "bump"
  /\ last_decay_at' = [last_decay_at EXCEPT ![decay_event.name] = decay_event.ts]
  /\ NextDueRow
  /\ UNCHANGED <<faults, crashes, storeVars, settingVars, next_tick, day, day_counter,
                 tick_now, tick_enabled>>

-----------------------------------------------------------------------------
(***************************************************************************)
(* Failures: a failing statement ends the tick, not the scheduler; a crash *)
(* loses the scheduler's memory, the day counter included.                 *)
(***************************************************************************)
TickFails ==
  /\ \/ decay_pc \in DecayStatements /\ UNCHANGED next_tick
     \/ decay_pc = "idle" /\ clock >= next_tick /\ next_tick' = clock + TICK_INTERVAL
  /\ faults < MaxFaults
  /\ faults' = faults + 1
  /\ day_counter' = IF decay_pc = "insert" THEN day_counter + 1 ELSE day_counter
  /\ TickReturns
  /\ UNCHANGED <<crashes, storeVars, last_decay_at, settingVars, day, tick_now, tick_enabled>>

SchedulerDies ==
  /\ decay_pc # "down"
  /\ decay_pc' = "down" /\ next_tick' = 0
  /\ day' = NoDay /\ day_counter' = 0
  /\ tick_now' = 0 /\ tick_enabled' = TRUE
  /\ tick_values' = [n \in Attrs |-> 0]
  /\ due' = {} /\ decay_event' = NoEvent

DecayCrash ==
  /\ SchedulerDies
  /\ crashes < MaxCrashes
  /\ crashes' = crashes + 1
  /\ UNCHANGED <<faults, storeVars, last_decay_at, settingVars>>

-----------------------------------------------------------------------------
\* The scheduler's own steps.
Scheduler ==
  \/ check_due \/ get_setting_bool \/ read_target_values \/ acquire_day_counter
  \/ DecayInsert \/ DecayUpsert \/ DecayEnqueueAudit
  \/ DecayNotifyAudit \/ bump_last_decay_at

DecayNext ==
  \/ Scheduler \/ SchedulerStarts \/ TickFails \/ DecayCrash
  \/ DecayTimePasses \/ ClockSetBack
  \/ \E b \in BOOLEAN : set_setting_bool(b)

DecaySpec == DecayInit /\ [][DecayNext]_decayAllVars

DecayFairSpec ==
  DecaySpec /\ WF_decayAllVars(Scheduler \/ SchedulerStarts) /\ WF_decayAllVars(DecayTimePasses)

-----------------------------------------------------------------------------
(***************************************************************************)
(* Properties                                                              *)
(***************************************************************************)

(***************************************************************************)
(* The per-day counter never re-issues a seq: no event a tick is about to  *)
(* insert is refused, however often the daemon restarts on the same day    *)
(* and whatever the switch does (store.rs max_seq_for_run: "closing the    *)
(* restart-while-disabled (run_id, seq) collision").                       *)
(***************************************************************************)
DecayNeverCollides ==
  decay_pc = "insert" => \A n \in due : insert_accepts(dispatch_maintenance(n))

\* The enabled decays that follow another one of the same row too closely.
double_decays ==
  {f \in events : /\ f.source = "maintenance" /\ ~f.disabled
                  /\ \E e \in events : /\ e.source = "maintenance" /\ ~e.disabled
                                       /\ e.name = f.name
                                       /\ replays_before(e, f)
                                       /\ f.ts - e.ts < DAY}

(***************************************************************************)
(* A row decays at most once in 24h, but for one extra time per failed     *)
(* statement or crash that fell between its INSERT and its stamp. Setting  *)
(* the clock back alone makes no row decay twice; together with such       *)
(* failures it may put one more decay within 24h of each unstamped one,    *)
(* however often it is done.                                               *)
(***************************************************************************)
DoubleDecayOnlyByFailure ==
  Cardinality(double_decays)
    <= (faults + crashes) * (IF setbacks = 0 THEN 1 ELSE 2)

(***************************************************************************)
(* Decay never raises an attribute and moves it by at most one step.       *)
(***************************************************************************)
DecayOnlyLowers ==
  [][\A n \in Attrs : attributes'[n] \in (attributes[n] + DECAY_DELTA)..attributes[n]]_decayAllVars

\* By the contract: never decayed, or not for 24 hours.
Overdue(n) == last_decay_at[n] # Never => clock - last_decay_at[n] >= DAY

(***************************************************************************)
(* A due row decays: once the daemon is down or the scheduler waits for a  *)
(* timer that fires within the horizon, a due target is stamped and due no *)
(* more, across restarts and although the clock was set back before,       *)
(* unless the switch is turned off or a statement fails first.             *)
(***************************************************************************)
DueRowDecays ==
  \A n \in DECAY_TARGETS, f \in 0..MaxFaults :
    (/\ Overdue(n) /\ faults = f
     /\ decay_pc = "down" \/ (decay_pc = "idle" /\ next_tick <= MaxClock))
      ~> (~Overdue(n) \/ ~updates_enabled \/ faults > f)
=============================================================================
