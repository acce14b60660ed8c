---------------------------- MODULE DecayProofs ----------------------------
(***************************************************************************)
(* Theorems about the decay scheduler, for every set of targets, every     *)
(* length of the day and the interval, and any number of restarts, failing *)
(* statements and switch toggles.                                          *)
(***************************************************************************)
EXTENDS Decay, Sums

-----------------------------------------------------------------------------
(***************************************************************************)
(* The event of a due row.                                                 *)
(***************************************************************************)
\* The UTC day of a timestamp is a natural number, so its run id is one too.
LEMMA DayType == \A t \in Nat : utc_day(t) \in Nat
<1> SUFFICES ASSUME NEW t \in Nat  PROVE utc_day(t) \in Nat
  OBVIOUS
<1>1. DAY \in Nat /\ DAY > 0
  BY DecayAssumption
<1> QED  BY <1>1 DEF utc_day

\* What dispatch_maintenance has to compute for its record to be an Event.
LEMMA MaintenanceRecord ==
  ASSUME NEW run \in Nat, NEW seq \in Nat, NEW ts \in Nat, NEW n \in Attrs,
         NEW old \in Value, NEW new \in Value, NEW caps \in SUBSET Cap, NEW off \in BOOLEAN,
         NEW reason \in Reason
  PROVE  [run_id |-> run, seq |-> seq, ts |-> ts, name |-> n,
          old_value |-> old, new_value |-> new,
          source |-> "maintenance", reason |-> reason,
          intervention_id |-> NoIntervention, caps_applied |-> caps,
          disabled |-> off] \in Event
BY DEF Event, NoIntervention

\* A decay event is valid and at most DECAY_DELTA below the value it read.
LEMMA MaintenanceType ==
  ASSUME NEW n \in Attrs, tick_values[n] \in Value, tick_now \in Nat,
         tick_enabled \in BOOLEAN, day_counter \in Nat,
         NEW ev, ev = dispatch_maintenance(n)
  PROVE  /\ ev \in Event /\ validate(ev)
         /\ ev.run_id = maintenance_run_id(utc_day(tick_now))
         /\ ev.seq = day_counter + 1 /\ ev.name = n /\ ev.old_value = tick_values[n]
         /\ ev.disabled = ~tick_enabled
         /\ ev.new_value \in (tick_values[n] + DECAY_DELTA)..tick_values[n]
<1> DEFINE raw == tick_values[n] + DECAY_DELTA
           new == IF raw < 0 THEN 0 ELSE raw
<1>1. new \in Value /\ new \in raw..tick_values[n]
  BY DEF Value, ONE, DECAY_DELTA
<1>2. maintenance_run_id(utc_day(tick_now)) \in Nat
  BY DayType, DecayAssumption DEF maintenance_run_id
<1>3. /\ ev.run_id = maintenance_run_id(utc_day(tick_now))
      /\ ev.seq = day_counter + 1 /\ ev.name = n /\ ev.old_value = tick_values[n]
      /\ ev.new_value = new /\ ev.disabled = ~tick_enabled
  BY DEF dispatch_maintenance
<1>4. ev \in Event
  <2> DEFINE caps == IF raw < 0 THEN {"range_clamp"} ELSE {}
             run  == maintenance_run_id(utc_day(tick_now))
             off  == ~tick_enabled
  <2>1. /\ day_counter + 1 \in Nat /\ off \in BOOLEAN /\ NoIntervention \in Nat
        /\ caps \in SUBSET Cap
    BY DEF NoIntervention, Cap
  <2>2. ev = [run_id |-> run, seq |-> day_counter + 1, ts |-> tick_now, name |-> n,
              old_value |-> tick_values[n], new_value |-> new,
              source |-> "maintenance", reason |-> "idle_decay",
              intervention_id |-> NoIntervention, caps_applied |-> caps,
              disabled |-> off]
    BY Zenon DEF dispatch_maintenance
  <2> HIDE DEF caps, run, off, new
  <2>3. run \in Nat
    BY <1>2 DEF run
  <2>4. "idle_decay" \in Reason
    BY DEF Reason, MaintenanceReason
  <2>5. [run_id |-> run, seq |-> day_counter + 1, ts |-> tick_now, name |-> n,
         old_value |-> tick_values[n], new_value |-> new,
         source |-> "maintenance", reason |-> "idle_decay",
         intervention_id |-> NoIntervention, caps_applied |-> caps,
         disabled |-> off] \in Event
    BY <1>1, <2>1, <2>3, <2>4, MaintenanceRecord, Zenon
  <2> QED  BY <2>2, <2>5, Zenon
<1> QED  BY <1>1, <1>3, <1>4 DEF validate

-----------------------------------------------------------------------------
(***************************************************************************)
(* Type correctness.                                                       *)
(***************************************************************************)

\* The rows still to decay are targets whose value the tick has read.
TickTypeOK ==
  /\ DecayTypeOK
  /\ decay_pc \in {"insert", "upsert", "audit", "audit_notify", "bump"} => day = utc_day(tick_now)

\* The values local is reset to values in range when a tick returns.
LEMMA ZeroValues == [n \in Attrs |-> 0] \in [Attrs -> Value]
BY DEF Value, ONE

\* Every step of the scheduler and of its environment.
LEMMA TickTypeStep ==
  ASSUME TickTypeOK, DecayNext
  PROVE  TickTypeOK'
<1> USE DEF storeVars, settingVars, tickVars, schedVars, decayVars
<1>1. ASSUME NEW b \in BOOLEAN, set_setting_bool(b)  PROVE TickTypeOK'
  BY <1>1 DEF set_setting_bool, TickTypeOK, DecayTypeOK, StoreTypeOK, DecayStatements
<1>2. CASE DecayTimePasses
  BY <1>2 DEF DecayTimePasses, TickTypeOK, DecayTypeOK, StoreTypeOK, DecayStatements
<1>3. CASE SchedulerStarts
  BY <1>3 DEF SchedulerStarts, TickTypeOK, DecayTypeOK, StoreTypeOK, DecayStatements
<1>4. CASE check_due
  BY <1>4, DecayAssumption DEF check_due, TickTypeOK, DecayTypeOK, StoreTypeOK, DecayStatements
<1>5. CASE get_setting_bool
  BY <1>5 DEF get_setting_bool, TickTypeOK, DecayTypeOK, StoreTypeOK, DecayStatements
<1>6. CASE read_target_values
  BY <1>6 DEF read_target_values, TickTypeOK, DecayTypeOK, StoreTypeOK, DecayStatements
<1>7. CASE acquire_day_counter
  <2>1. day' \in Nat
    BY <1>7, DayType DEF acquire_day_counter, TickTypeOK, DecayTypeOK
  <2>2. day_counter' \in Nat
    <3>1. \A e \in events : e.seq \in Nat
      BY DEF TickTypeOK, DecayTypeOK, StoreTypeOK, Event
    <3>2. PICK m \in {0} \cup {e.seq : e \in events} : day_counter' = m
      BY <1>7 DEF acquire_day_counter
    <3> QED  BY <3>1, <3>2
  <2>3. /\ decay_pc' = "insert" /\ day' = utc_day(tick_now)
        /\ UNCHANGED <<faults, crashes, storeVars, last_decay_at, settingVars, next_tick, tickVars>>
    BY <1>7 DEF acquire_day_counter
  <2> QED  BY <2>1, <2>2, <2>3 DEF TickTypeOK, DecayTypeOK, StoreTypeOK, DecayStatements
<1>8. CASE DecayInsert
  <2>1. PICK n \in due :
          LET ev == dispatch_maintenance(n)
          IN \/ /\ insert_event(ev) /\ due' = due \ {n} /\ decay_event' = ev
                /\ decay_pc' \in {"audit", "upsert"} /\ UNCHANGED tick_values
             \/ TickReturns /\ UNCHANGED events
    BY <1>8 DEF DecayInsert
  <2>2. n \in Attrs /\ tick_values[n] \in Value /\ tick_now \in Nat
          /\ tick_enabled \in BOOLEAN /\ day_counter \in Nat
    BY DecayAssumption DEF TickTypeOK, DecayTypeOK
  <2>3. dispatch_maintenance(n) \in Event
    BY <2>2, MaintenanceType
  <2>4. /\ day_counter' = day_counter + 1 /\ decay_pc = "insert"
        /\ UNCHANGED <<faults, crashes, clock, attributes, audit_inbox, last_decay_at,
                       settingVars, next_tick, day, tick_now, tick_enabled>>
    BY <1>8 DEF DecayInsert
  <2> HIDE DEF settingVars
  <2> DEFINE ev == dispatch_maintenance(n)
  <2> HIDE DEF ev
  <2>5. \/ /\ events' = events \cup {ev} /\ due' = due \ {n} /\ decay_event' = ev
           /\ decay_pc' \in {"audit", "upsert"} /\ UNCHANGED tick_values
        \/ /\ decay_pc' = "idle" /\ due' = {} /\ tick_values' = [m \in Attrs |-> 0]
           /\ UNCHANGED events
    BY <2>1 DEF insert_event, TickReturns, ev
  <2>6. ev \in Event
    BY <2>3 DEF ev
  <2>7. events' \subseteq Event /\ due' \subseteq DECAY_TARGETS /\ tick_values' \in [Attrs -> Value]
    BY <2>5, <2>6, ZeroValues DEF TickTypeOK, DecayTypeOK, StoreTypeOK
  <2>8. \/ decay_pc' \in {"audit", "upsert"} /\ decay_event' \in Event
        \/ decay_pc' = "idle"
    BY <2>5, <2>6
  <2>9. day = utc_day(tick_now) /\ day_counter' \in Nat
    BY <2>2, <2>4 DEF TickTypeOK
  <2> QED  BY <2>4, <2>7, <2>8, <2>9
       DEF TickTypeOK, DecayTypeOK, StoreTypeOK, DecayStatements, settingVars
<1>9. CASE DecayUpsert
  <2>1. decay_event \in Event
    BY <1>9 DEF DecayUpsert, TickTypeOK, DecayTypeOK
  <2>2. decay_event.new_value \in Value
    BY <2>1 DEF Event
  <2>3. attributes' \in [Attrs -> Value]
    BY <1>9, <2>2 DEF DecayUpsert, upsert_attribute, TickTypeOK, DecayTypeOK, StoreTypeOK
  <2> QED  BY <1>9, <2>3 DEF DecayUpsert, TickTypeOK, DecayTypeOK, StoreTypeOK, DecayStatements
<1>10. CASE DecayEnqueueAudit
  <2>1. decay_event \in Event
    BY <1>10 DEF DecayEnqueueAudit, TickTypeOK, DecayTypeOK
  <2>2. event_id(decay_event) \in Nat \X Nat
    BY <2>1 DEF Event, event_id
  <2>3. audit_inbox' \in Seq(Nat \X Nat)
    BY <1>10, <2>2 DEF DecayEnqueueAudit, enqueue_audit_event, TickTypeOK, DecayTypeOK, StoreTypeOK
  <2> QED  BY <1>10, <2>3 DEF DecayEnqueueAudit, TickTypeOK, DecayTypeOK, StoreTypeOK, DecayStatements
<1>11. CASE DecayNotifyAudit
  <2>4. \/ /\ decay_pc' \in {"insert", "bump"} /\ UNCHANGED <<due, tick_values>>
           /\ decay_pc' = "bump" => UNCHANGED decay_event
        \/ decay_pc' = "idle" /\ due' = {} /\ tick_values' = [n \in Attrs |-> 0]
    BY <1>11 DEF DecayNotifyAudit, NextDueRow, TickReturns
  <2>5. UNCHANGED <<faults, crashes, storeVars, settingVars, next_tick, day, day_counter,
                    tick_now, tick_enabled>>
    BY <1>11 DEF DecayNotifyAudit
  <2>6. decay_event \in Event /\ day = utc_day(tick_now)
    BY <1>11 DEF DecayNotifyAudit, TickTypeOK, DecayTypeOK
  <2>7. UNCHANGED last_decay_at
    BY <1>11 DEF DecayNotifyAudit
  <2> QED  BY <2>4, <2>5, <2>6, <2>7, ZeroValues
       DEF TickTypeOK, DecayTypeOK, StoreTypeOK, DecayStatements
<1>12. CASE bump_last_decay_at
  <2>1. decay_event \in Event
    BY <1>12 DEF bump_last_decay_at, TickTypeOK, DecayTypeOK
  <2>2. decay_event.ts \in Nat
    BY <2>1 DEF Event
  <2>3. last_decay_at' \in [Attrs -> Nat \cup {Never}]
    BY <1>12, <2>2 DEF bump_last_decay_at, TickTypeOK, DecayTypeOK
  <2>4. \/ /\ decay_pc' \in {"insert", "bump"} /\ UNCHANGED <<due, tick_values>>
           /\ decay_pc' = "bump" => UNCHANGED decay_event
        \/ decay_pc' = "idle" /\ due' = {} /\ tick_values' = [n \in Attrs |-> 0]
    BY <1>12 DEF bump_last_decay_at, NextDueRow, TickReturns
  <2>5. UNCHANGED <<faults, crashes, storeVars, settingVars, next_tick, day, day_counter,
                    tick_now, tick_enabled>>
    BY <1>12 DEF bump_last_decay_at
  <2>6. decay_event \in Event /\ day = utc_day(tick_now)
    BY <1>12 DEF bump_last_decay_at, TickTypeOK, DecayTypeOK
  <2> QED  BY <2>3, <2>4, <2>5, <2>6, ZeroValues
       DEF TickTypeOK, DecayTypeOK, StoreTypeOK, DecayStatements
<1>13. CASE TickFails
  <2>1. /\ decay_pc' = "idle" /\ due' = {} /\ tick_values' = [n \in Attrs |-> 0]
        /\ faults' = faults + 1 /\ day_counter' \in {day_counter, day_counter + 1}
        /\ next_tick' \in {next_tick, clock + TICK_INTERVAL}
    BY <1>13 DEF TickFails, TickReturns
  <2>2. UNCHANGED <<crashes, storeVars, last_decay_at, settingVars, day, tick_now, tick_enabled>>
    BY <1>13 DEF TickFails
  <2>3. next_tick' \in Nat /\ day_counter' \in Nat
    BY <2>1, DecayAssumption DEF TickTypeOK, DecayTypeOK, StoreTypeOK
  <2> QED  BY <2>1, <2>2, <2>3, ZeroValues
       DEF TickTypeOK, DecayTypeOK, StoreTypeOK, DecayStatements
<1>14. CASE DecayCrash
  BY <1>14, DecayAssumption DEF DecayCrash, SchedulerDies, TickTypeOK, DecayTypeOK, StoreTypeOK, DecayStatements, Value, ONE, NoDay
<1>15. CASE ClockSetBack
  BY <1>15 DEF ClockSetBack, TickTypeOK, DecayTypeOK, StoreTypeOK, DecayStatements
<1> QED
  BY <1>1, <1>2, <1>3, <1>4, <1>5, <1>6, <1>7,
     <1>8, <1>9, <1>10, <1>11, <1>12, <1>13, <1>14, <1>15, Zenon
     DEF DecayNext, Scheduler

\* A database left by any earlier process and a scheduler that is not running.
LEMMA TickTypeInit == DecayInit => TickTypeOK
BY DecayAssumption
   DEF DecayInit, SchedulerInit, TickTypeOK, DecayTypeOK, StoreTypeOK, Value, ONE, Never, NoDay

\* While a tick writes, the day counter is the one of the tick's own day.
LEMMA TickTypeInvariant == DecaySpec => []TickTypeOK
<1>1. TickTypeOK /\ [DecayNext]_decayAllVars => TickTypeOK'
  <2> SUFFICES ASSUME TickTypeOK, [DecayNext]_decayAllVars  PROVE TickTypeOK'
    OBVIOUS
  <2>1. CASE DecayNext
    BY <2>1, TickTypeStep
  <2>2. CASE UNCHANGED decayAllVars
    BY <2>2 DEF decayAllVars, storeVars, decayVars, settingVars, schedVars, tickVars,
                TickTypeOK, DecayTypeOK, StoreTypeOK
  <2> QED  BY <2>1, <2>2
<1> QED  BY <1>1, TickTypeInit, PTL DEF DecaySpec

(***************************************************************************)
(* DecayTypeOK: among the rest, every value a tick writes stays in [0, 1]. *)
(***************************************************************************)
THEOREM DecayTypeCorrect == DecaySpec => []DecayTypeOK
<1>1. TickTypeOK => DecayTypeOK
  BY DEF TickTypeOK
<1> QED  BY <1>1, TickTypeInvariant, PTL

-----------------------------------------------------------------------------
(***************************************************************************)
(* The day counter.                                                        *)
(***************************************************************************)

\* The counter of the current day is at or above every seq its run has in
\* the log, also after a restart that resumed it.
CounterAhead ==
  day # NoDay =>
    \A e \in events : e.run_id = maintenance_run_id(day) => e.seq <= day_counter

\* No step puts a seq of the current day above its counter.
LEMMA CounterStep ==
  ASSUME TickTypeOK, CounterAhead, DecayNext
  PROVE  CounterAhead'
<1> USE DEF storeVars, settingVars, tickVars, schedVars, decayVars
<1>1. ASSUME NEW b \in BOOLEAN, set_setting_bool(b)  PROVE CounterAhead'
  BY <1>1 DEF set_setting_bool, CounterAhead, TickTypeOK, DecayTypeOK
<1>2. CASE DecayTimePasses
  BY <1>2 DEF DecayTimePasses, CounterAhead, TickTypeOK, DecayTypeOK
<1>3. CASE SchedulerStarts
  BY <1>3 DEF SchedulerStarts, CounterAhead, TickTypeOK, DecayTypeOK
<1>4. CASE check_due
  BY <1>4 DEF check_due, CounterAhead, TickTypeOK, DecayTypeOK
<1>5. CASE get_setting_bool
  BY <1>5 DEF get_setting_bool, CounterAhead, TickTypeOK, DecayTypeOK
<1>6. CASE read_target_values
  BY <1>6 DEF read_target_values, CounterAhead, TickTypeOK, DecayTypeOK
<1>7. CASE acquire_day_counter
  <2>1. PICK m : /\ max_seq_for_run(maintenance_run_id(utc_day(tick_now)), m)
                 /\ day_counter' = m
    BY <1>7 DEF acquire_day_counter
  <2>2. day' = utc_day(tick_now) /\ UNCHANGED events
    BY <1>7 DEF acquire_day_counter
  <2>3. \A e \in events : e.run_id = maintenance_run_id(utc_day(tick_now)) => e.seq <= m
    BY <2>1 DEF max_seq_for_run
  <2> QED  BY <2>1, <2>2, <2>3 DEF CounterAhead
<1>8. CASE DecayInsert
  <2>1. PICK n \in due :
          \/ events' = events \cup {dispatch_maintenance(n)}
          \/ UNCHANGED events
    BY <1>8 DEF DecayInsert, insert_event
  <2>2. n \in Attrs /\ tick_values[n] \in Value /\ tick_now \in Nat
          /\ tick_enabled \in BOOLEAN /\ day_counter \in Nat
    BY DecayAssumption DEF TickTypeOK, DecayTypeOK
  <2>3. dispatch_maintenance(n).seq = day_counter + 1
    BY <2>2, MaintenanceType
  <2>4. day_counter' = day_counter + 1 /\ UNCHANGED day
    BY <1>8 DEF DecayInsert
  <2>5. \A e \in events : e.seq \in Nat
    BY DEF TickTypeOK, DecayTypeOK, StoreTypeOK, Event
  <2> QED  BY <2>1, <2>2, <2>3, <2>4, <2>5 DEF CounterAhead
<1>9. CASE DecayUpsert
  BY <1>9 DEF DecayUpsert, CounterAhead, TickTypeOK, DecayTypeOK
<1>10. CASE DecayEnqueueAudit
  BY <1>10 DEF DecayEnqueueAudit, CounterAhead, TickTypeOK, DecayTypeOK
<1>11. CASE DecayNotifyAudit
  BY <1>11 DEF DecayNotifyAudit, NextDueRow, TickReturns, CounterAhead, TickTypeOK, DecayTypeOK
<1>12. CASE bump_last_decay_at
  BY <1>12 DEF bump_last_decay_at, NextDueRow, TickReturns, CounterAhead, TickTypeOK, DecayTypeOK
<1>13. CASE TickFails
  <2>1. day_counter' \in {day_counter, day_counter + 1} /\ UNCHANGED <<day, events>>
    BY <1>13 DEF TickFails
  <2>2. day_counter \in Nat /\ \A e \in events : e.seq \in Nat
    BY DEF TickTypeOK, DecayTypeOK, StoreTypeOK, Event
  <2> QED  BY <2>1, <2>2 DEF CounterAhead
<1>14. CASE DecayCrash
  BY <1>14 DEF DecayCrash, SchedulerDies, CounterAhead, TickTypeOK, DecayTypeOK
<1>15. CASE ClockSetBack
  BY <1>15 DEF ClockSetBack, CounterAhead, TickTypeOK, DecayTypeOK
<1> QED
  BY <1>1, <1>2, <1>3, <1>4, <1>5, <1>6, <1>7,
     <1>8, <1>9, <1>10, <1>11, <1>12, <1>13, <1>14, <1>15, Zenon
     DEF DecayNext, Scheduler

LEMMA CounterInvariant == DecaySpec => []CounterAhead
<1>1. DecayInit => CounterAhead
  BY DEF DecayInit, SchedulerInit, CounterAhead
<1>2. TickTypeOK /\ CounterAhead /\ [DecayNext]_decayAllVars => CounterAhead'
  <2> SUFFICES ASSUME TickTypeOK, CounterAhead, [DecayNext]_decayAllVars  PROVE CounterAhead'
    OBVIOUS
  <2>1. CASE DecayNext
    BY <2>1, CounterStep
  <2>2. CASE UNCHANGED decayAllVars
    BY <2>2 DEF decayAllVars, storeVars, decayVars, settingVars, schedVars, tickVars,
                CounterAhead
  <2> QED  BY <2>1, <2>2
<1> QED  BY <1>1, <1>2, TickTypeInvariant, PTL DEF DecaySpec

\* Above the counter every seq of the day is free.
LEMMA CounterIsFresh ==
  ASSUME TickTypeOK, CounterAhead
  PROVE  DecayNeverCollides
<1> SUFFICES ASSUME decay_pc = "insert", NEW n \in due
             PROVE  insert_accepts(dispatch_maintenance(n))
  BY DEF DecayNeverCollides
<1> DEFINE ev == dispatch_maintenance(n)
<1>1. n \in Attrs /\ tick_values[n] \in Value /\ tick_now \in Nat
        /\ tick_enabled \in BOOLEAN /\ day_counter \in Nat
  BY DecayAssumption DEF TickTypeOK, DecayTypeOK
<1>2. /\ validate(ev) /\ ev.run_id = maintenance_run_id(utc_day(tick_now))
      /\ ev.seq = day_counter + 1
  BY <1>1, MaintenanceType
<1>3. day = utc_day(tick_now) /\ day # NoDay
  BY <1>1, DayType DEF TickTypeOK, NoDay
<1> HIDE DEF ev
<1>4. ASSUME NEW e \in events  PROVE event_id(e) # event_id(ev)
  <2>1. e.seq \in Nat
    BY DEF TickTypeOK, DecayTypeOK, StoreTypeOK, Event
  <2>2. e.run_id = ev.run_id => e.seq <= day_counter
    BY <1>2, <1>3 DEF CounterAhead
  <2> QED  BY <1>1, <1>2, <2>1, <2>2 DEF event_id
<1> QED  BY <1>2, <1>4 DEF insert_accepts, ev

(***************************************************************************)
(* DecayNeverCollides: the resumed counter never re-issues a seq, so the   *)
(* DecaySeqCollision branch of tick() is unreachable.                      *)
(***************************************************************************)
THEOREM DecaySeqsAreFresh == DecaySpec => []DecayNeverCollides
<1>1. TickTypeOK /\ CounterAhead => DecayNeverCollides
  BY CounterIsFresh
<1> QED  BY <1>1, TickTypeInvariant, CounterInvariant, PTL

-----------------------------------------------------------------------------
(***************************************************************************)
(* What a tick does to the projection.                                     *)
(***************************************************************************)

\* The values the tick read are current for the rows it has still to write.
TickCoherent ==
  /\ decay_pc \in {"counter", "insert", "upsert", "audit", "audit_notify", "bump"} =>
       \A n \in due : tick_values[n] = attributes[n]
  /\ decay_pc = "upsert" =>
       /\ decay_event.name \notin due
       /\ decay_event.new_value
            \in (attributes[decay_event.name] + DECAY_DELTA)..attributes[decay_event.name]

\* Without another writer the values read at the start of a tick stay current.
LEMMA CoherentStep ==
  ASSUME TickTypeOK, TickCoherent, DecayNext
  PROVE  TickCoherent'
<1> USE DEF storeVars, settingVars, tickVars, schedVars, decayVars
<1>1. ASSUME NEW b \in BOOLEAN, set_setting_bool(b)  PROVE TickCoherent'
  BY <1>1 DEF set_setting_bool, TickCoherent
<1>2. CASE DecayTimePasses
  BY <1>2 DEF DecayTimePasses, TickCoherent
<1>3. CASE SchedulerStarts
  BY <1>3 DEF SchedulerStarts, TickCoherent
<1>4. CASE check_due
  BY <1>4 DEF check_due, TickCoherent
<1>5. CASE get_setting_bool
  BY <1>5 DEF get_setting_bool, TickCoherent
<1>6. CASE read_target_values
  <2>1. tick_values' = attributes /\ decay_pc' \in {"insert", "counter"} /\ UNCHANGED attributes
    BY <1>6 DEF read_target_values
  <2> QED  BY <2>1 DEF TickCoherent
<1>7. CASE acquire_day_counter
  BY <1>7 DEF acquire_day_counter, TickCoherent
<1>8. CASE DecayInsert
  <2>1. PICK n \in due :
          \/ /\ due' = due \ {n} /\ decay_event' = dispatch_maintenance(n)
             /\ decay_pc' \in {"audit", "upsert"} /\ UNCHANGED tick_values
          \/ decay_pc' = "idle"
    BY <1>8 DEF DecayInsert, TickReturns
  <2>2. n \in Attrs /\ tick_values[n] \in Value /\ tick_now \in Nat
          /\ tick_enabled \in BOOLEAN /\ day_counter \in Nat
    BY DecayAssumption DEF TickTypeOK, DecayTypeOK
  <2> DEFINE ev == dispatch_maintenance(n)
  <2>3. ev.name = n /\ ev.new_value \in (tick_values[n] + DECAY_DELTA)..tick_values[n]
    BY <2>2, MaintenanceType
  <2>4. decay_pc = "insert" /\ UNCHANGED attributes
    BY <1>8 DEF DecayInsert
  <2>5. tick_values[n] = attributes[n] /\ \A m \in due : tick_values[m] = attributes[m]
    BY <2>4 DEF TickCoherent
  <2> HIDE DEF ev
  <2>6. \/ /\ due' = due \ {n} /\ decay_event' = ev
           /\ decay_pc' \in {"audit", "upsert"} /\ UNCHANGED tick_values
        \/ decay_pc' = "idle"
    BY <2>1 DEF ev
  <2> QED  BY <2>3, <2>4, <2>5, <2>6 DEF TickCoherent
<1>9. CASE DecayUpsert
  <2>1. /\ decay_pc = "upsert" /\ decay_pc' = "audit" /\ UNCHANGED <<due, tick_values>>
        /\ attributes' = [attributes EXCEPT ![decay_event.name] = decay_event.new_value]
    BY <1>9 DEF DecayUpsert, upsert_attribute
  <2>2. \A n \in due : n \in Attrs /\ n # decay_event.name /\ tick_values[n] = attributes[n]
    BY <2>1, DecayAssumption DEF TickCoherent, TickTypeOK, DecayTypeOK
  <2>3. attributes \in [Attrs -> Value]
    BY DEF TickTypeOK, DecayTypeOK, StoreTypeOK
  <2> QED  BY <2>1, <2>2, <2>3 DEF TickCoherent
<1>10. CASE DecayEnqueueAudit
  BY <1>10 DEF DecayEnqueueAudit, TickCoherent
<1>11. CASE DecayNotifyAudit
  BY <1>11 DEF DecayNotifyAudit, NextDueRow, TickReturns, TickCoherent
<1>12. CASE bump_last_decay_at
  BY <1>12 DEF bump_last_decay_at, NextDueRow, TickReturns, TickCoherent
<1>13. CASE TickFails
  BY <1>13 DEF TickFails, TickReturns, TickCoherent
<1>14. CASE DecayCrash
  BY <1>14 DEF DecayCrash, SchedulerDies, TickCoherent
<1>15. CASE ClockSetBack
  BY <1>15 DEF ClockSetBack, TickCoherent
<1> QED
  BY <1>1, <1>2, <1>3, <1>4, <1>5, <1>6, <1>7,
     <1>8, <1>9, <1>10, <1>11, <1>12, <1>13, <1>14, <1>15, Zenon
     DEF DecayNext, Scheduler

\* The only statement that moves an attribute is the tick's UPSERT.
LEMMA OnlyLowersStep ==
  ASSUME TickTypeOK, TickCoherent, DecayNext
  PROVE  \A n \in Attrs : attributes'[n] \in (attributes[n] + DECAY_DELTA)..attributes[n]
<1>1. attributes \in [Attrs -> Value]
  BY DEF TickTypeOK, DecayTypeOK, StoreTypeOK
<1>2. CASE DecayUpsert
  <2>1. /\ attributes' = [attributes EXCEPT ![decay_event.name] = decay_event.new_value]
        /\ decay_pc = "upsert"
    BY <1>2 DEF DecayUpsert, upsert_attribute
  <2>2. decay_event.new_value
          \in (attributes[decay_event.name] + DECAY_DELTA)..attributes[decay_event.name]
    BY <2>1 DEF TickCoherent
  <2> QED  BY <1>1, <2>1, <2>2 DEF DECAY_DELTA, Value, ONE
<1>3. CASE ~DecayUpsert
  <2>1. UNCHANGED attributes
    BY <1>3 DEF DecayNext, Scheduler, SchedulerStarts, check_due, get_setting_bool,
       read_target_values, acquire_day_counter, DecayInsert, DecayEnqueueAudit,
       DecayNotifyAudit, bump_last_decay_at, TickFails, DecayCrash, DecayTimePasses,
       ClockSetBack, set_setting_bool, storeVars
  <2> QED  BY <1>1, <2>1 DEF DECAY_DELTA, Value, ONE
<1> QED  BY <1>2, <1>3

(***************************************************************************)
(* DecayOnlyLowers: the scheduler alone, however it is interrupted, never  *)
(* raises an attribute and never lowers one by more than DECAY_DELTA in a  *)
(* step.                                                                   *)
(***************************************************************************)
THEOREM DecayLowersByOneStep == DecaySpec => DecayOnlyLowers
<1>1. DecayInit => TickCoherent
  BY DEF DecayInit, SchedulerInit, TickCoherent
<1>2. TickTypeOK /\ TickCoherent /\ [DecayNext]_decayAllVars => TickCoherent'
  <2> SUFFICES ASSUME TickTypeOK, TickCoherent, [DecayNext]_decayAllVars  PROVE TickCoherent'
    OBVIOUS
  <2>1. CASE DecayNext
    BY <2>1, CoherentStep
  <2>2. CASE UNCHANGED decayAllVars
    BY <2>2 DEF decayAllVars, storeVars, decayVars, settingVars, schedVars, tickVars,
                TickCoherent
  <2> QED  BY <2>1, <2>2
<1>3. TickTypeOK /\ TickCoherent /\ [DecayNext]_decayAllVars =>
        [\A n \in Attrs :
           attributes'[n] \in (attributes[n] + DECAY_DELTA)..attributes[n]]_decayAllVars
  BY OnlyLowersStep
<1> QED  BY <1>1, <1>2, <1>3, TickTypeInvariant, PTL DEF DecaySpec, DecayOnlyLowers

-----------------------------------------------------------------------------
(***************************************************************************)
(* How often a row decays. The enabled decays of a row lie a DAY apart,    *)
(* but for a set U of events that a failure or a crash left without their  *)
(* stamp. The invariant says so of a given U; U grows by the event in      *)
(* flight whenever a tick fails.                                           *)
(***************************************************************************)

\* The events double_decays compares.
decays == {e \in events : e.source = "maintenance" /\ ~e.disabled}

\* From its INSERT to its stamp an event is in flight.
Flying == {"upsert", "audit", "audit_notify", "bump"}

in_flight(e) == decay_pc \in Flying /\ e = decay_event

\* A decay is of a target and of the run of its day. Unless the clock is set
\* back no decay is of the future, and none later than the tick at work.
DecaysOK ==
  /\ \A e \in decays : /\ e.name \in DECAY_TARGETS
                       /\ e.run_id = maintenance_run_id(utc_day(e.ts))
  /\ decay_pc \in Flying => decay_event.ts = tick_now /\ decay_event.name \notin due
  /\ setbacks = 0 =>
       /\ \A e \in decays : e.ts <= clock
       /\ decay_pc \in DecayStatements =>
            tick_now <= clock /\ \A e \in decays : e.ts <= tick_now

\* Another decay of the row follows a stamped one no sooner than a DAY later.
\* If the clock was set back, an unstamped one may.
Apart(U) ==
  \A e \in decays \ U, f \in decays :
    e.name = f.name /\ replays_before(e, f) /\ (setbacks = 0 \/ f \notin U)
      => f.ts - e.ts >= DAY

\* The stamp of a row covers its decays, but for those of R.
Marked(U, R) ==
  \A e \in decays \ U :
    \/ in_flight(e) \/ e \in R
    \/ last_decay_at[e.name] # Never /\ e.ts <= last_decay_at[e.name]

\* R holds decays that a later one of the row has put a DAY behind.
Overtaken(R) ==
  \A e \in R : setbacks = 0 /\ \E g \in decays : g.name = e.name /\ e.ts + DAY <= g.ts

\* The rows still due, and the one in flight, decayed a DAY ago or earlier.
Ripe(U) ==
  \A e \in decays \ U :
    e.name \in due \/ (decay_pc \in Flying /\ e.name = decay_event.name /\ e # decay_event)
      => e.ts + DAY <= tick_now

GapOver(U, R) == U \subseteq decays /\ Apart(U) /\ Marked(U, R) /\ Overtaken(R) /\ Ripe(U)

\* The decays, the stamps and the tick's place in its loop do not move.
Onward ==
  /\ decays' = decays /\ UNCHANGED <<last_decay_at, due, decay_event, tick_now, setbacks>>
  /\ clock <= clock'
  /\ decay_pc' \in Flying <=> decay_pc \in Flying
  /\ decay_pc' \in DecayStatements <=> decay_pc \in DecayStatements

\* A row is finished: it is stamped, unless its event is disabled.
RowDone ==
  /\ UNCHANGED <<events, clock, tick_now, setbacks, faults, crashes>>
  /\ decay_pc \in Flying /\ decay_pc' \in {"insert", "idle"} /\ due' \subseteq due
  /\ \/ decay_event.disabled /\ UNCHANGED last_decay_at
     \/ last_decay_at' = [last_decay_at EXCEPT ![decay_event.name] = decay_event.ts]

\* A failing statement ends the tick, a crash the process.
Aborts ==
  /\ UNCHANGED <<events, clock, last_decay_at, setbacks>>
  /\ decay_pc' \in {"idle", "down"} /\ due' = {}
  /\ faults' + crashes' = faults + crashes + 1

\* Every step is one of these, or begins a tick, inserts, or turns the clock.
LEMMA DecaySteps ==
  ASSUME TickTypeOK, [DecayNext]_decayAllVars
  PROVE  \/ Onward /\ UNCHANGED <<faults, crashes>>
         \/ RowDone \/ Aborts \/ check_due \/ DecayInsert \/ ClockSetBack
<1> USE DEF storeVars, settingVars, tickVars, schedVars, decayVars
<1>0. clock \in Nat /\ faults \in Nat /\ crashes \in Nat
  BY DEF TickTypeOK, DecayTypeOK, StoreTypeOK
<1>1. CASE \/ (\E b \in BOOLEAN : set_setting_bool(b)) \/ DecayTimePasses
           \/ UNCHANGED decayAllVars
  <2>1. Onward /\ UNCHANGED <<faults, crashes>>
    BY <1>0, <1>1 DEF set_setting_bool, DecayTimePasses, decayAllVars, Onward, decays
  <2> QED  BY <2>1
<1>2. CASE SchedulerStarts \/ get_setting_bool \/ read_target_values \/ acquire_day_counter
  <2>1. Onward /\ UNCHANGED <<faults, crashes>>
    BY <1>0, <1>2 DEF SchedulerStarts, get_setting_bool, read_target_values,
             acquire_day_counter, Onward, decays, Flying, DecayStatements
  <2> QED  BY <2>1
<1>3. CASE DecayUpsert \/ DecayEnqueueAudit
  <2>1. Onward /\ UNCHANGED <<faults, crashes>>
    BY <1>0, <1>3 DEF DecayUpsert, DecayEnqueueAudit, Onward, decays, Flying, DecayStatements
  <2> QED  BY <2>1
<1>4. CASE DecayNotifyAudit
  <2>1. CASE ~decay_event.disabled
    <3>1. Onward /\ UNCHANGED <<faults, crashes>>
      BY <1>0, <1>4, <2>1 DEF DecayNotifyAudit, Onward, decays, Flying, DecayStatements
    <3> QED  BY <3>1
  <2>2. CASE decay_event.disabled
    <3>1. RowDone
      BY <1>4, <2>2 DEF DecayNotifyAudit, NextDueRow, TickReturns, RowDone, Flying
    <3> QED  BY <3>1
  <2> QED  BY <2>1, <2>2
<1>5. CASE bump_last_decay_at
  <2>1. RowDone
    BY <1>5 DEF bump_last_decay_at, NextDueRow, TickReturns, RowDone, Flying
  <2> QED  BY <2>1
<1>6. CASE TickFails \/ DecayCrash
  <2>1. Aborts
    BY <1>0, <1>6 DEF TickFails, TickReturns, DecayCrash, SchedulerDies, Aborts
  <2> QED  BY <2>1
<1> QED
  BY <1>1, <1>2, <1>3, <1>4, <1>5, <1>6, Zenon DEF DecayNext, Scheduler

\* What DecayInsert does: the event of one due row, or the end of the tick.
LEMMA DecayInsertFacts ==
  ASSUME TickTypeOK, DecayInsert
  PROVE  /\ decay_pc = "insert"
         /\ UNCHANGED <<faults, crashes, clock, attributes, last_decay_at, setbacks, day, tick_now>>
         /\ \/ /\ decay_pc' = "idle" /\ due' = {} /\ UNCHANGED events
            \/ \E n \in due, ev \in Event :
                 /\ ev.name = n /\ ev.ts = tick_now /\ ev.source = "maintenance"
                 /\ ev.run_id = maintenance_run_id(utc_day(tick_now))
                 /\ ev.seq = day_counter + 1
                 /\ \A e \in events : event_id(e) # event_id(ev)
                 /\ events' = events \cup {ev} /\ due' = due \ {n} /\ decay_event' = ev
                 /\ decay_pc' = IF ev.disabled THEN "audit" ELSE "upsert"
<1>1. /\ decay_pc = "insert"
      /\ UNCHANGED <<faults, crashes, clock, attributes, last_decay_at, setbacks, day, tick_now>>
  BY DEF DecayInsert, settingVars
<1>2. PICK n \in due :
        LET ev == dispatch_maintenance(n)
        IN IF insert_accepts(ev)
           THEN /\ insert_event(ev) /\ due' = due \ {n} /\ decay_event' = ev
                /\ decay_pc' = IF ev.disabled THEN "audit" ELSE "upsert"
           ELSE TickReturns /\ UNCHANGED events
  BY DEF DecayInsert
<1> DEFINE ev == dispatch_maintenance(n)
<1>3. n \in Attrs /\ tick_values[n] \in Value /\ tick_now \in Nat
        /\ tick_enabled \in BOOLEAN /\ day_counter \in Nat
  BY DecayAssumption DEF TickTypeOK, DecayTypeOK
<1>4. /\ ev \in Event /\ ev.run_id = maintenance_run_id(utc_day(tick_now))
      /\ ev.seq = day_counter + 1 /\ ev.name = n
  BY <1>3, MaintenanceType
<1>5. ev.ts = tick_now /\ ev.source = "maintenance"
  BY DEF dispatch_maintenance
<1>6. \/ /\ insert_accepts(ev) /\ insert_event(ev) /\ due' = due \ {n} /\ decay_event' = ev
         /\ decay_pc' = IF ev.disabled THEN "audit" ELSE "upsert"
      \/ TickReturns /\ UNCHANGED events
  BY <1>2
<1> HIDE DEF ev
<1>7. CASE TickReturns /\ UNCHANGED events
  BY <1>1, <1>7 DEF TickReturns
<1>8. CASE /\ insert_accepts(ev) /\ insert_event(ev) /\ due' = due \ {n} /\ decay_event' = ev
           /\ decay_pc' = IF ev.disabled THEN "audit" ELSE "upsert"
  <2>1. events' = events \cup {ev} /\ \A e \in events : event_id(e) # event_id(ev)
    BY <1>8 DEF insert_event, insert_accepts
  <2> QED  BY <1>1, <1>4, <1>5, <1>8, <2>1
<1> QED  BY <1>6, <1>7, <1>8

\* The scheduler never inserts an id twice.
LEMMA DecayLogStep ==
  ASSUME TickTypeOK, LogOK, [DecayNext]_decayAllVars
  PROVE  LogOK'
<1>1. CASE UNCHANGED events
  BY <1>1 DEF LogOK, Keyed, event_id
<1>2. CASE DecayInsert
  <2>1. SUFFICES ASSUME ~UNCHANGED events  PROVE LogOK'
    BY <1>1
  <2>2. PICK ev : /\ events' = events \cup {ev}
                  /\ \A e \in events : event_id(e) # event_id(ev)
    BY <1>2, <2>1, DecayInsertFacts
  <2>3. IsFiniteSet(events')
    BY <2>2, FS_AddElement DEF LogOK
  <2> QED  BY <2>2, <2>3 DEF LogOK, Keyed, event_id
<1>3. ~DecayInsert => UNCHANGED events
  BY DEF DecayNext, Scheduler, SchedulerStarts, check_due, get_setting_bool,
     read_target_values, acquire_day_counter, DecayUpsert, DecayEnqueueAudit,
     DecayNotifyAudit, bump_last_decay_at, TickFails, DecayCrash, DecayTimePasses,
     ClockSetBack, set_setting_bool, storeVars, decayAllVars
<1> QED  BY <1>1, <1>2, <1>3

\* What check_due leaves: nothing is in flight, and the tick's time is now.
LEMMA CheckDueFacts ==
  ASSUME check_due
  PROVE  /\ decay_pc = "idle" /\ decay_pc' \in {"idle", "setting"} /\ tick_now' = clock
         /\ due' = {n \in DECAY_TARGETS : due_now(n, clock)}
         /\ UNCHANGED <<events, clock, last_decay_at, setbacks, faults, crashes>>
BY DEF check_due, storeVars, settingVars

LEMMA DecaysStep ==
  ASSUME TickTypeOK, DecaysOK, [DecayNext]_decayAllVars
  PROVE  DecaysOK'
<1>0. /\ setbacks \in Nat /\ clock \in Nat /\ tick_now \in Nat /\ clock' \in Nat
      /\ \A e \in decays : e.ts \in Nat
  <2>1. TickTypeOK'
    <3>1. CASE DecayNext
      BY <3>1, TickTypeStep
    <3>2. CASE UNCHANGED decayAllVars
      BY <3>2 DEF decayAllVars, storeVars, decayVars, settingVars, schedVars, tickVars,
                  TickTypeOK, DecayTypeOK, StoreTypeOK
    <3> QED  BY <3>1, <3>2
  <2> QED  BY <2>1 DEF TickTypeOK, DecayTypeOK, StoreTypeOK, decays, Event
<1>1. CASE Onward
  BY <1>0, <1>1 DEF Onward, DecaysOK, maintenance_run_id, utc_day
<1>2. CASE RowDone
  BY <1>2 DEF RowDone, DecaysOK, decays, maintenance_run_id, utc_day, Flying, DecayStatements
<1>3. CASE Aborts
  BY <1>3 DEF Aborts, DecaysOK, decays, maintenance_run_id, utc_day, Flying, DecayStatements
<1>4. CASE check_due
  <2>1. /\ decay_pc' \in {"idle", "setting"} /\ tick_now' = clock
        /\ UNCHANGED <<events, clock, setbacks>>
    BY <1>4, CheckDueFacts
  <2>2. setbacks = 0 => \A e \in decays : e.ts <= clock
    BY DEF DecaysOK
  <2> QED  BY <1>0, <2>1, <2>2 DEF DecaysOK, decays, maintenance_run_id, utc_day, Flying
<1>5. CASE DecayInsert
  <2>1. /\ decay_pc = "insert" /\ UNCHANGED <<clock, setbacks, tick_now>>
    BY <1>5, DecayInsertFacts
  <2>2. CASE decay_pc' = "idle" /\ UNCHANGED events
    BY <2>1, <2>2 DEF DecaysOK, decays, maintenance_run_id, utc_day, Flying, DecayStatements
  <2>3. CASE ~(decay_pc' = "idle" /\ UNCHANGED events)
    <3>1. PICK n \in due, ev \in Event :
            /\ ev.name = n /\ ev.ts = tick_now
            /\ ev.run_id = maintenance_run_id(utc_day(tick_now))
            /\ events' = events \cup {ev} /\ due' = due \ {n} /\ decay_event' = ev
            /\ decay_pc' \in {"audit", "upsert"}
      BY <1>5, <2>3, DecayInsertFacts
    <3>2. decays' \subseteq decays \cup {ev} /\ n \in DECAY_TARGETS
      BY <3>1 DEF decays, TickTypeOK, DecayTypeOK
    <3>3. setbacks = 0 => tick_now <= clock /\ \A e \in decays : e.ts <= tick_now
      BY <2>1 DEF DecaysOK, DecayStatements
    <3>4. \A e \in decays' : e.name \in DECAY_TARGETS /\ e.run_id = maintenance_run_id(utc_day(e.ts))
      BY <3>1, <3>2 DEF DecaysOK
    <3>5. setbacks = 0 => \A e \in decays' : e.ts <= tick_now /\ e.ts <= clock
      BY <1>0, <3>1, <3>2, <3>3
    <3> QED  BY <2>1, <3>1, <3>3, <3>4, <3>5 DEF DecaysOK, maintenance_run_id, utc_day
  <2> QED  BY <2>2, <2>3
<1>6. CASE ClockSetBack
  BY <1>0, <1>6 DEF ClockSetBack, DecaysOK, decays, maintenance_run_id, utc_day, Flying, tickVars
<1> QED  BY <1>1, <1>2, <1>3, <1>4, <1>5, <1>6, DecaySteps

\* A step that leaves the decays alone leaves them apart.
LEMMA GapOnward ==
  ASSUME NEW U, NEW R, GapOver(U, R), Onward
  PROVE  GapOver(U, R)'
<1>1. U \subseteq decays' /\ Apart(U)' /\ Overtaken(R)'
  BY DEF Onward, GapOver, Apart, Overtaken, replays_before
<1>2. Marked(U, R)'
  BY DEF Onward, GapOver, Marked, in_flight
<1>3. Ripe(U)'
  BY DEF Onward, GapOver, Ripe
<1> QED  BY <1>1, <1>2, <1>3 DEF GapOver

\* Whoever is due has not decayed for a DAY.
LEMMA GapCheckDue ==
  ASSUME TickTypeOK, DecaysOK, NEW U, NEW R, GapOver(U, R), check_due
  PROVE  GapOver(U, R)'
<1>0. /\ decay_pc \notin Flying /\ decay_pc' \notin Flying
      /\ tick_now' = clock /\ due' = {n \in DECAY_TARGETS : due_now(n, clock)}
      /\ decays' = decays /\ UNCHANGED <<events, clock, last_decay_at, setbacks>>
  BY CheckDueFacts DEF decays, Flying
<1>1. U \subseteq decays' /\ Apart(U)' /\ Overtaken(R)' /\ Marked(U, R)'
  BY <1>0 DEF GapOver, Apart, Overtaken, Marked, in_flight, replays_before
<1>2. ASSUME NEW e \in decays \ U, e.name \in due'
      PROVE  e.ts + DAY <= clock
  <2>0. /\ e.ts \in Nat /\ e.name \in Attrs /\ clock \in Nat /\ DAY \in Nat
        /\ last_decay_at[e.name] \in Nat \cup {Never} /\ \A g \in decays : g.ts \in Nat
    BY DecayAssumption DEF decays, TickTypeOK, DecayTypeOK, StoreTypeOK, Event
  <2>1. e \in R \/ (last_decay_at[e.name] # Never /\ e.ts <= last_decay_at[e.name])
    BY <1>0 DEF GapOver, Marked, in_flight
  <2>2. CASE e \in R
    <3>1. PICK g \in decays : e.ts + DAY <= g.ts /\ setbacks = 0
      BY <2>2 DEF GapOver, Overtaken
    <3>2. g.ts <= clock
      BY <3>1 DEF DecaysOK
    <3> QED  BY <2>0, <3>1, <3>2
  <2>3. CASE last_decay_at[e.name] # Never /\ e.ts <= last_decay_at[e.name]
    <3>1. clock - last_decay_at[e.name] >= DAY
      BY <1>0, <1>2, <2>3 DEF due_now
    <3> QED  BY <2>0, <2>3, <3>1
  <2> QED  BY <2>1, <2>2, <2>3
<1>3. Ripe(U)'
  BY <1>0, <1>2 DEF Ripe
<1> QED  BY <1>1, <1>3 DEF GapOver

\* The event of a due row lies a DAY after the row's stamped decays, and after
\* all of them in replay order unless the clock was set back.
LEMMA GapInsert ==
  ASSUME TickTypeOK, CounterAhead, DecaysOK, NEW U, NEW R, GapOver(U, R), DecayInsert
  PROVE  GapOver(U, R)'
<1>0. /\ decay_pc = "insert" /\ decay_pc \notin Flying
      /\ UNCHANGED <<clock, last_decay_at, setbacks, day, tick_now>>
  BY DecayInsertFacts DEF Flying
<1>1. CASE decay_pc' = "idle" /\ due' = {} /\ UNCHANGED events
  <2>1. decays' = decays /\ decay_pc' \notin Flying
    BY <1>1 DEF decays, Flying
  <2>2. U \subseteq decays' /\ Apart(U)' /\ Overtaken(R)' /\ Marked(U, R)'
    BY <1>0, <2>1 DEF GapOver, Apart, Overtaken, Marked, in_flight, replays_before
  <2>3. Ripe(U)'
    BY <1>1, <2>1 DEF Ripe
  <2> QED  BY <2>2, <2>3 DEF GapOver
<1>2. CASE ~(decay_pc' = "idle" /\ due' = {} /\ UNCHANGED events)
  <2>1. PICK n \in due, ev \in Event :
          /\ ev.name = n /\ ev.ts = tick_now /\ ev.source = "maintenance"
          /\ ev.run_id = maintenance_run_id(utc_day(tick_now))
          /\ ev.seq = day_counter + 1
          /\ \A e \in events : event_id(e) # event_id(ev)
          /\ events' = events \cup {ev} /\ due' = due \ {n} /\ decay_event' = ev
          /\ decay_pc' = IF ev.disabled THEN "audit" ELSE "upsert"
    BY <1>2, DecayInsertFacts
  <2>2. decays' = IF ev.disabled THEN decays ELSE decays \cup {ev}
    BY <2>1 DEF decays
  <2>3. /\ \A e \in decays \cup {ev} : e \in Event
        /\ \A e \in Event : e.ts \in Nat /\ e.run_id \in Nat /\ e.seq \in Nat
        /\ DAY \in Nat /\ DAY > 0 /\ day_counter \in Nat /\ ev \notin decays
    BY <2>1, DecayAssumption DEF decays, TickTypeOK, DecayTypeOK, StoreTypeOK, Event
  <2>4. \A e \in decays \ U : e.name \in due => e.ts + DAY <= tick_now
    BY DEF GapOver, Ripe
  <2>5. ASSUME setbacks = 0, NEW f \in decays, f.name = n, replays_before(ev, f)
        PROVE  FALSE
    <3>1. f.ts <= tick_now /\ f.run_id = maintenance_run_id(utc_day(f.ts))
      BY <1>0, <2>5 DEF DecaysOK, DecayStatements
    <3>2. f.ts = tick_now
      BY <2>1, <2>3, <2>5, <3>1 DEF replays_before
    <3>3. f.run_id = ev.run_id /\ ev.seq < f.seq
      BY <2>1, <2>3, <2>5, <3>1, <3>2 DEF replays_before
    <3>4. day = utc_day(tick_now) /\ day # NoDay
      BY <1>0, DayType DEF TickTypeOK, DecayTypeOK, NoDay
    <3>5. f.seq <= day_counter
      BY <2>1, <3>3, <3>4 DEF CounterAhead, decays
    <3> QED  BY <2>1, <2>3, <3>3, <3>5
  <2>6. Apart(U)'
    <3> SUFFICES ASSUME NEW e \in decays' \ U, NEW f \in decays',
                        e.name = f.name, replays_before(e, f), setbacks = 0 \/ f \notin U
                 PROVE  f.ts - e.ts >= DAY
      BY <1>0 DEF Apart, replays_before
    <3>1. CASE e \in decays /\ f \in decays
      BY <3>1 DEF GapOver, Apart
    <3>2. CASE e \in decays /\ f = ev
      <4>1. e.ts + DAY <= tick_now
        BY <2>1, <2>4, <3>2
      <4> QED  BY <2>1, <2>3, <3>2, <4>1
    <3>3. CASE e = ev /\ f \in decays
      <4>1. CASE f \notin U
        <5>1. f.ts + DAY <= tick_now
          BY <2>1, <2>4, <3>3, <4>1
        <5> QED  BY <2>1, <2>3, <3>3, <5>1 DEF replays_before
      <4>2. CASE setbacks = 0
        BY <2>1, <2>5, <3>3, <4>2
      <4> QED  BY <4>1, <4>2
    <3>4. CASE e = ev /\ f = ev
      BY <2>3, <3>4 DEF replays_before
    <3> QED  BY <2>2, <3>1, <3>2, <3>3, <3>4
  <2>7. U \subseteq decays'
    BY <2>2 DEF GapOver
  <2>8. Marked(U, R)'
    <3> SUFFICES ASSUME NEW e \in decays' \ U
                 PROVE  \/ in_flight(e)' \/ e \in R
                        \/ last_decay_at[e.name] # Never /\ e.ts <= last_decay_at[e.name]
      BY <1>0 DEF Marked, in_flight
    <3>1. CASE e \in decays
      BY <1>0, <3>1 DEF GapOver, Marked, in_flight
    <3>2. CASE e = ev
      BY <2>1, <3>2 DEF in_flight, Flying
    <3> QED  BY <2>2, <3>1, <3>2
  <2>9. Overtaken(R)'
    <3>1. decays \subseteq decays'
      BY <2>2
    <3> QED  BY <1>0, <3>1 DEF GapOver, Overtaken
  <2>10. Ripe(U)'
    <3> SUFFICES ASSUME NEW e \in decays' \ U,
                        e.name \in due' \/ (e.name = ev.name /\ e # ev)
                 PROVE  e.ts + DAY <= tick_now
      BY <1>0, <2>1 DEF Ripe
    <3>1. e # ev
      BY <2>1
    <3>2. e \in decays /\ e.name \in due
      BY <2>1, <2>2, <3>1
    <3> QED  BY <2>4, <3>2
  <2> QED  BY <2>6, <2>7, <2>8, <2>9, <2>10 DEF GapOver
<1> QED  BY <1>1, <1>2

\* The stamp of a row is at or above its decays, the one in flight included.
LEMMA GapRowDone ==
  ASSUME TickTypeOK, DecaysOK, NEW U, NEW R, GapOver(U, R), RowDone
  PROVE  GapOver(U, R)'
<1>0. /\ decay_pc \in Flying /\ decay_pc' \notin Flying /\ due' \subseteq due
      /\ decays' = decays /\ UNCHANGED <<events, tick_now, setbacks>>
  BY DEF RowDone, decays, Flying
<1>1. U \subseteq decays' /\ Apart(U)' /\ Overtaken(R)'
  BY <1>0 DEF GapOver, Apart, Overtaken, replays_before
<1>2. Ripe(U)'
  BY <1>0 DEF GapOver, Ripe
<1>3. Marked(U, R)'
  <2> SUFFICES ASSUME NEW e \in decays \ U
               PROVE  e \in R \/ (last_decay_at'[e.name] # Never /\ e.ts <= last_decay_at'[e.name])
    BY <1>0 DEF Marked
  <2>0. /\ e.ts \in Nat /\ e.name \in Attrs /\ tick_now \in Nat /\ DAY \in Nat
        /\ last_decay_at \in [Attrs -> Nat \cup {Never}] /\ decay_event.ts = tick_now
    BY <1>0, DecayAssumption DEF decays, TickTypeOK, DecayTypeOK, StoreTypeOK, Event, DecaysOK
  <2>1. \/ e = decay_event \/ e \in R
        \/ last_decay_at[e.name] # Never /\ e.ts <= last_decay_at[e.name]
    BY DEF GapOver, Marked, in_flight
  <2>2. CASE decay_event.disabled /\ UNCHANGED last_decay_at
    BY <2>1, <2>2 DEF decays
  <2>3. CASE last_decay_at' = [last_decay_at EXCEPT ![decay_event.name] = decay_event.ts]
    <3>1. CASE e.name = decay_event.name
      <4>1. e.ts <= tick_now
        <5>1. CASE e = decay_event
          BY <2>0, <5>1
        <5>2. CASE e # decay_event
          <6>1. e.ts + DAY <= tick_now
            BY <1>0, <3>1, <5>2 DEF GapOver, Ripe
          <6> QED  BY <2>0, <6>1
        <5> QED  BY <5>1, <5>2
      <4>2. last_decay_at'[e.name] = tick_now /\ tick_now # Never
        BY <2>0, <2>3, <3>1 DEF Never
      <4> QED  BY <4>1, <4>2
    <3>2. CASE e.name # decay_event.name
      BY <2>0, <2>1, <2>3, <3>2
    <3> QED  BY <3>1, <3>2
  <2> QED  BY <2>2, <2>3 DEF RowDone
<1> QED  BY <1>1, <1>2, <1>3 DEF GapOver

\* A failure adds the decay in flight to U, and nothing else.
LEMMA GapAborts ==
  ASSUME NEW U, NEW R, GapOver(U, R), Aborts
  PROVE  \E V : GapOver(V, R)' /\ \E x : V \subseteq U \cup {x}
<1> PICK V : V = U \cup {e \in decays : in_flight(e)}
  OBVIOUS
<1>0. /\ decay_pc' \notin Flying /\ due' = {} /\ decays' = decays
      /\ UNCHANGED <<events, last_decay_at, setbacks>>
  BY DEF Aborts, decays, Flying
<1>1. V \subseteq U \cup {decay_event}
  BY DEF in_flight
<1>2. V \subseteq decays' /\ Apart(V)' /\ Overtaken(R)'
  BY <1>0 DEF GapOver, Apart, Overtaken, replays_before
<1>3. Marked(V, R)'
  BY <1>0 DEF GapOver, Marked, in_flight
<1>4. Ripe(V)'
  BY <1>0 DEF Ripe
<1>5. GapOver(V, R)'
  BY <1>2, <1>3, <1>4 DEF GapOver
<1> QED  BY <1>1, <1>5

LEMMA GapSetBack ==
  ASSUME TickTypeOK, NEW U, GapOver(U, {}), ClockSetBack
  PROVE  GapOver(U, {})'
<1>0. /\ decays' = decays /\ setbacks' # 0
      /\ UNCHANGED <<last_decay_at, decay_pc, due, decay_event, tick_now>>
  BY DEF ClockSetBack, decays, tickVars, TickTypeOK, DecayTypeOK
<1>1. U \subseteq decays' /\ Apart(U)'
  BY <1>0 DEF GapOver, Apart, replays_before
<1>2. Marked(U, {})' /\ Ripe(U)' /\ Overtaken({})'
  BY <1>0 DEF GapOver, Marked, Ripe, Overtaken, in_flight
<1> QED  BY <1>1, <1>2 DEF GapOver

\* Every step of the scheduler keeps the decays apart, over a U that only a
\* failure makes larger, by one.
LEMMA GapStep ==
  ASSUME TickTypeOK, CounterAhead, DecaysOK, NEW U, NEW R, GapOver(U, R),
         [DecayNext]_decayAllVars, R = {} \/ ~ClockSetBack
  PROVE  \/ GapOver(U, R)' /\ faults' + crashes' = faults + crashes
         \/ /\ \E V : GapOver(V, R)' /\ \E x : V \subseteq U \cup {x}
            /\ faults' + crashes' = faults + crashes + 1
<1>1. CASE Onward /\ UNCHANGED <<faults, crashes>>
  BY <1>1, GapOnward
<1>2. CASE RowDone
  BY <1>2, GapRowDone DEF RowDone
<1>3. CASE Aborts
  BY <1>3, GapAborts DEF Aborts
<1>4. CASE check_due
  BY <1>4, GapCheckDue, CheckDueFacts
<1>5. CASE DecayInsert
  BY <1>5, GapInsert, DecayInsertFacts
<1>6. CASE ClockSetBack
  BY <1>6, GapSetBack DEF ClockSetBack
<1> QED  BY <1>1, <1>2, <1>3, <1>4, <1>5, <1>6, DecaySteps

\* Counting: as many elements as an injection has distinct images.
LEMMA CountedBy ==
  ASSUME NEW D, NEW U, IsFiniteSet(U), NEW g \in [D -> U],
         \A x, y \in D : g[x] = g[y] => x = y
  PROVE  IsFiniteSet(D) /\ Cardinality(D) <= Cardinality(U)
<1>1. g \in Injection(D, U)
  BY DEF Injection, IsInjective
<1> QED  BY <1>1, FS_Injection

\* A decay too close to one before it, in the words of this section.
LEMMA DoubleDecays ==
  double_decays =
    {f \in decays : \E e \in decays : /\ e.name = f.name /\ replays_before(e, f)
                                      /\ f.ts - e.ts < DAY}
BY DEF double_decays, decays

LEMMA DecayFacts ==
  ASSUME TickTypeOK, LogOK
  PROVE  /\ decays \subseteq Event /\ IsFiniteSet(decays) /\ Keyed(decays)
         /\ \A e \in decays : e.ts \in Nat /\ e.run_id \in Nat /\ e.seq \in Nat
         /\ DAY \in Nat
<1>1. decays \subseteq events /\ events \subseteq Event
  BY DEF decays, TickTypeOK, DecayTypeOK, StoreTypeOK
<1>2. IsFiniteSet(decays)
  BY <1>1, FS_Subset DEF LogOK
<1> QED  BY <1>1, <1>2, DecayAssumption DEF LogOK, Keyed, Event

\* Unless the clock was set back, the decay right before a double one is in U,
\* and it is right before no other.
LEMMA DoublesFollowUnstamped ==
  ASSUME TickTypeOK, LogOK, NEW U, NEW R, GapOver(U, R), setbacks = 0
  PROVE  Cardinality(double_decays) <= Cardinality(U)
<1> DEFINE earlier(f) == {e \in decays : e.name = f.name /\ replays_before(e, f)}
           g == [f \in double_decays |-> latest(earlier(f))]
<1>0. /\ decays \subseteq Event /\ IsFiniteSet(decays) /\ Keyed(decays)
      /\ \A e \in decays : e.ts \in Nat /\ e.run_id \in Nat /\ e.seq \in Nat
      /\ DAY \in Nat
  BY DecayFacts
<1>1. U \subseteq decays /\ IsFiniteSet(U)
  BY <1>0, FS_Subset DEF GapOver
<1>2. double_decays \subseteq decays
  BY DoubleDecays
<1>3. ASSUME NEW f \in double_decays
      PROVE  /\ latest(earlier(f)) \in earlier(f)
             /\ \A e \in earlier(f) \ {latest(earlier(f))} : replays_before(e, latest(earlier(f)))
  <2> DEFINE S == earlier(f)
  <2>1. S # {} /\ S \subseteq decays
    BY DoubleDecays
  <2> HIDE DEF S
  <2>2. IsFiniteSet(S) /\ S \subseteq Event /\ Keyed(S)
    BY <1>0, <2>1, FS_Subset DEF Keyed
  <2>3. latest(S) \in S /\ \A e \in S \ {latest(S)} : replays_before(e, latest(S))
    BY <2>1, <2>2, LatestIsLast
  <2> QED  BY <2>3 DEF S
<1>4. ASSUME NEW f \in double_decays  PROVE latest(earlier(f)) \in U
  <2> DEFINE m == latest(earlier(f))
  <2>1. /\ m \in decays /\ m.name = f.name /\ replays_before(m, f)
        /\ \A e \in earlier(f) \ {m} : replays_before(e, m)
    BY <1>3
  <2>2. PICK e \in earlier(f) : f.ts - e.ts < DAY
    BY DoubleDecays
  <2>3. e = m \/ replays_before(e, m)
    BY <2>1
  <2> HIDE DEF m
  <2>4. e \in decays /\ f \in decays
    BY <1>2
  <2>5. e.ts <= m.ts
    BY <1>0, <2>1, <2>3, <2>4 DEF replays_before
  <2>6. m \notin U => f.ts - m.ts >= DAY
    BY <2>1, <2>4 DEF GapOver, Apart
  <2>7. m \in U
    BY <1>0, <2>1, <2>2, <2>4, <2>5, <2>6
  <2> QED  BY <2>7 DEF m
<1>5. ASSUME NEW x \in double_decays, NEW y \in double_decays,
             latest(earlier(x)) = latest(earlier(y))
      PROVE  x = y
  <2> DEFINE m == latest(earlier(x))
  <2>1. /\ m \in decays /\ m.name = x.name /\ replays_before(m, x)
        /\ m.name = y.name /\ replays_before(m, y)
        /\ \A e \in earlier(x) \ {m} : replays_before(e, m)
        /\ \A e \in earlier(y) \ {m} : replays_before(e, m)
    BY <1>3, <1>5
  <2> HIDE DEF m
  <2>2. x \in decays /\ y \in decays
    BY <1>2
  <2>3. ~replays_before(x, y)
    <3> SUFFICES ASSUME replays_before(x, y)  PROVE FALSE
      OBVIOUS
    <3>1. x \in earlier(y)
      BY <2>1, <2>2
    <3>2. x = m \/ replays_before(x, m)
      BY <2>1, <3>1
    <3> QED  BY <1>0, <2>1, <2>2, <3>2, ReplayOrder
  <2>4. ~replays_before(y, x)
    <3> SUFFICES ASSUME replays_before(y, x)  PROVE FALSE
      OBVIOUS
    <3>1. y \in earlier(x)
      BY <2>1, <2>2
    <3>2. y = m \/ replays_before(y, m)
      BY <2>1, <3>1
    <3> QED  BY <1>0, <2>1, <2>2, <3>2, ReplayOrder
  <2> QED  BY <1>0, <2>2, <2>3, <2>4, ReplayOrder DEF Keyed
<1> HIDE DEF earlier
<1>6. /\ g \in [double_decays -> U]
      /\ \A x, y \in double_decays : g[x] = g[y] => x = y
  BY <1>4, <1>5
<1> HIDE DEF g
<1> QED  BY <1>1, <1>6, CountedBy

\* In any case a double decay outside U is close to one before it in U, which
\* is so close to no other decay outside U.
LEMMA DoublesNearUnstamped ==
  ASSUME TickTypeOK, LogOK, NEW U, NEW R, GapOver(U, R)
  PROVE  Cardinality(double_decays) <= 2 * Cardinality(U)
<1> DEFINE D == double_decays \ U
           near(f) == {e \in U : e.name = f.name /\ replays_before(e, f) /\ f.ts - e.ts < DAY}
           g == [f \in D |-> CHOOSE e \in near(f) : TRUE]
<1>0. /\ decays \subseteq Event /\ IsFiniteSet(decays)
      /\ \A e \in decays : e.ts \in Nat /\ e.run_id \in Nat /\ e.seq \in Nat
      /\ DAY \in Nat /\ Keyed(decays)
  BY DecayFacts
<1>1. U \subseteq decays /\ IsFiniteSet(U) /\ double_decays \subseteq decays
  BY <1>0, FS_Subset, DoubleDecays DEF GapOver
<1>2. ASSUME NEW f \in D  PROVE near(f) # {}
  <2>1. PICK e \in decays : e.name = f.name /\ replays_before(e, f) /\ f.ts - e.ts < DAY
    BY DoubleDecays
  <2>2. e \notin U => f.ts - e.ts >= DAY
    BY <1>1, <2>1 DEF GapOver, Apart
  <2>3. e \in U
    BY <1>0, <1>1, <2>1, <2>2
  <2> QED  BY <2>1, <2>3
<1>3. ASSUME NEW x \in D, NEW y \in D, NEW e \in near(x), e \in near(y), replays_before(x, y)
      PROVE  FALSE
  <2>1. y.ts - x.ts >= DAY
    BY <1>1, <1>3 DEF GapOver, Apart
  <2>2. e.ts <= x.ts /\ y.ts - e.ts < DAY
    BY <1>0, <1>1, <1>3 DEF replays_before
  <2> QED  BY <1>0, <1>1, <2>1, <2>2
<1>4. ASSUME NEW x \in D, NEW y \in D, NEW e \in near(x), e \in near(y)
      PROVE  x = y
  <2>1. ~replays_before(x, y) /\ ~replays_before(y, x)
    BY <1>3, <1>4
  <2> QED  BY <1>0, <1>1, <2>1, ReplayOrder DEF Keyed
<1>5. \A f \in D : g[f] \in near(f)
  <2> HIDE DEF near
  <2> QED  BY <1>2
<1>6. /\ g \in [D -> U] /\ \A x, y \in D : g[x] = g[y] => x = y
  <2>1. \A f \in D : near(f) \subseteq U
    OBVIOUS
  <2>2. \A x, y \in D : g[x] = g[y] => x = y
    <3> HIDE DEF near, g
    <3> QED  BY <1>4, <1>5
  <2>3. \A f \in D : g[f] \in U
    <3> HIDE DEF near, g
    <3> QED  BY <1>5, <2>1
  <2>4. g = [f \in D |-> g[f]]
    OBVIOUS
  <2> HIDE DEF near, g, D
  <2> QED  BY <2>2, <2>3, <2>4
<1>7. IsFiniteSet(D) /\ Cardinality(D) <= Cardinality(U)
  <2> HIDE DEF D, g
  <2> QED  BY <1>1, <1>6, CountedBy
<1>8. double_decays \subseteq U \cup D
  OBVIOUS
<1> HIDE DEF D
<1>9. IsFiniteSet(U \cup D) /\ Cardinality(U \cup D) <= Cardinality(U) + Cardinality(D)
  <2>1. IsFiniteSet(U \cap D)
    BY <1>1, FS_Subset
  <2>2. /\ IsFiniteSet(U \cup D)
        /\ Cardinality(U \cup D) = Cardinality(U) + Cardinality(D) - Cardinality(U \cap D)
    BY <1>1, <1>7, FS_Union
  <2>3. Cardinality(U) \in Nat /\ Cardinality(D) \in Nat /\ Cardinality(U \cap D) \in Nat
    BY <1>1, <1>7, <2>1, FS_CardinalityType
  <2> QED  BY <2>2, <2>3
<1>10. IsFiniteSet(double_decays) /\ Cardinality(double_decays) <= Cardinality(U \cup D)
  BY <1>8, <1>9, FS_Subset
<1> QED  BY <1>1, <1>7, <1>9, <1>10, FS_CardinalityType

\* At most one decay per failure or crash is without its stamp.
GapInv == DecaysOK /\ \E U : GapOver(U, {}) /\ Cardinality(U) <= faults + crashes

LEMMA GapInvStep ==
  ASSUME TickTypeOK, LogOK, CounterAhead, GapInv, [DecayNext]_decayAllVars
  PROVE  GapInv'
<1>1. DecaysOK'
  BY DecaysStep DEF GapInv
<1>2. PICK U : GapOver(U, {}) /\ Cardinality(U) <= faults + crashes
  BY DEF GapInv
<1>3. IsFiniteSet(U) /\ Cardinality(U) \in Nat /\ faults \in Nat /\ crashes \in Nat
  <2>1. IsFiniteSet(U)
    BY <1>2, DecayFacts, FS_Subset DEF GapOver
  <2> QED  BY <2>1, FS_CardinalityType DEF TickTypeOK, DecayTypeOK, StoreTypeOK
<1>4. CASE GapOver(U, {})' /\ faults' + crashes' = faults + crashes
  BY <1>1, <1>2, <1>4 DEF GapInv
<1>5. CASE /\ \E V : GapOver(V, {})' /\ \E x : V \subseteq U \cup {x}
           /\ faults' + crashes' = faults + crashes + 1
  <2>1. PICK V, x : GapOver(V, {})' /\ V \subseteq U \cup {x}
    BY <1>5
  <2>2. IsFiniteSet(U \cup {x}) /\ Cardinality(U \cup {x}) <= Cardinality(U) + 1
    BY <1>3, FS_AddElement
  <2>3. Cardinality(V) <= Cardinality(U \cup {x}) /\ Cardinality(V) \in Nat
        /\ Cardinality(U \cup {x}) \in Nat
    BY <2>1, <2>2, FS_Subset, FS_CardinalityType
  <2>4. Cardinality(V) <= faults' + crashes'
    BY <1>2, <1>3, <1>5, <2>2, <2>3
  <2> QED  BY <1>1, <2>1, <2>4 DEF GapInv
<1>6. DecaysOK
  BY DEF GapInv
<1>7. \/ GapOver(U, {})' /\ faults' + crashes' = faults + crashes
      \/ /\ \E V : GapOver(V, {})' /\ \E x : V \subseteq U \cup {x}
         /\ faults' + crashes' = faults + crashes + 1
  BY <1>2, <1>6, GapStep
<1> QED  BY <1>4, <1>5, <1>7

(***************************************************************************)
(* DoubleDecayOnlyByFailure: for any targets, any length of the day and of *)
(* the interval, and any number of restarts, failing statements and        *)
(* set-backs of the clock, a row decays at most once in 24h but for once   *)
(* (twice if the clock was set back) per statement that failed or crash.   *)
(***************************************************************************)
THEOREM RowsDecayOnceADay == DecaySpec => []DoubleDecayOnlyByFailure
<1>1. DecayInit => LogOK
  BY FS_EmptySet DEF DecayInit, LogOK, Keyed
<1>2. DecayInit => GapInv
  <2> SUFFICES ASSUME DecayInit  PROVE GapInv
    OBVIOUS
  <2>1. decays = {} /\ decay_pc = "down" /\ faults = 0 /\ crashes = 0
    BY DEF DecayInit, SchedulerInit, decays
  <2>2. DecaysOK
    BY <2>1 DEF DecaysOK, Flying, DecayStatements
  <2>3. GapOver({}, {})
    BY <2>1 DEF GapOver, Apart, Marked, Overtaken, Ripe
  <2>4. Cardinality({}) <= faults + crashes
    BY <2>1, FS_EmptySet
  <2> QED  BY <2>2, <2>3, <2>4 DEF GapInv
<1>3. TickTypeOK /\ LogOK /\ [DecayNext]_decayAllVars => LogOK'
  BY DecayLogStep
<1>4. TickTypeOK /\ LogOK /\ CounterAhead /\ GapInv /\ [DecayNext]_decayAllVars => GapInv'
  BY GapInvStep
<1>5. TickTypeOK /\ LogOK /\ GapInv => DoubleDecayOnlyByFailure
  <2> SUFFICES ASSUME TickTypeOK, LogOK, GapInv  PROVE DoubleDecayOnlyByFailure
    OBVIOUS
  <2>1. PICK U : GapOver(U, {}) /\ Cardinality(U) <= faults + crashes
    BY DEF GapInv
  <2>2. IsFiniteSet(U) /\ IsFiniteSet(double_decays)
    BY <2>1, DecayFacts, DoubleDecays, FS_Subset DEF GapOver
  <2>3. /\ Cardinality(U) \in Nat /\ Cardinality(double_decays) \in Nat
        /\ faults \in Nat /\ crashes \in Nat
    BY <2>2, FS_CardinalityType DEF TickTypeOK, DecayTypeOK, StoreTypeOK
  <2>4. CASE setbacks = 0
    <3>1. Cardinality(double_decays) <= Cardinality(U)
      BY <2>1, <2>4, DoublesFollowUnstamped
    <3> QED  BY <2>1, <2>3, <2>4, <3>1 DEF DoubleDecayOnlyByFailure
  <2>5. CASE setbacks # 0
    <3>1. Cardinality(double_decays) <= 2 * Cardinality(U)
      BY <2>1, DoublesNearUnstamped
    <3> QED  BY <2>1, <2>3, <2>5, <3>1 DEF DoubleDecayOnlyByFailure
  <2> QED  BY <2>4, <2>5
<1> QED  BY <1>1, <1>2, <1>3, <1>4, <1>5, TickTypeInvariant, CounterInvariant, PTL DEF DecaySpec
=============================================================================
