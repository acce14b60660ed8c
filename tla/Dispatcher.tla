----------------------------- MODULE Dispatcher -----------------------------
(***************************************************************************)
(* The pure dispatch arithmetic (src/dispatcher.rs): from one source event *)
(* and the projection it read to the events it emits.                      *)
(*                                                                         *)
(* A source event p is a record with the fields of the parsed payload. The *)
(* Vec<EventInsert> a dispatcher returns is a function from the affected   *)
(* attributes to events; the code walks ATTR_ORDER, which is the order of  *)
(* the integers here.                                                      *)
(***************************************************************************)
EXTENDS Tuning, FiniteSets

\* evidence_json->>'intervention_id' of an event that has none.
NoIntervention == 0

Cap == {"friction_cap", "range_clamp"}

clamp(x, lo, hi) == IF x < lo THEN lo ELSE IF x > hi THEN hi ELSE x

weight_delta(base, conf) ==
  clamp((base * twice_weight(conf)) \div 2,
        -CONFIDENCE_MAGNITUDE_CAP, CONFIDENCE_MAGNITUDE_CAP)

(***************************************************************************)
(* The friction cap restrains only a positive friction delta. The range    *)
(* clamp compares with f64::EPSILON; exact values differ by whole units.   *)
(***************************************************************************)
plan_for(name, delta_in, old, snap) ==
  LET raw    == old + delta_in
      room   == ONE - snap.doubt - snap.shame
      bound  == IF room > 0 THEN room ELSE 0
      capped == name = friction /\ delta_in > 0 /\ raw > bound
      held   == IF capped THEN bound ELSE raw
      new    == clamp(held, 0, ONE)
  IN [old_value    |-> old,
      new_value    |-> new,
      caps_applied |-> (IF capped THEN {"friction_cap"} ELSE {})
                         \cup (IF new # held THEN {"range_clamp"} ELSE {})]

affected(row) == {n \in Attrs : row[n] # 0}

(***************************************************************************)
(* One EventInsert per attribute of DOMAIN delta, counter.next() being     *)
(* called once for each of them in ATTR_ORDER. counter is the value of the *)
(* run's Counter and proj the projection of the pre-dispatch snapshot.     *)
(***************************************************************************)
event_insert_from_plan(p, n, seq, plan) ==
  [run_id       |-> p.run_id,
   seq          |-> seq,
   ts           |-> p.ts,
   name         |-> n,
   old_value    |-> plan.old_value,
   new_value    |-> plan.new_value,
   source       |-> p.source,
   reason       |-> p.reason,
   intervention_id |-> p.intervention_id,
   caps_applied |-> plan.caps_applied,
   disabled     |-> ~p.enabled]

\* Mutant: the seqs run against ATTR_ORDER.
emit_seqs_reversed(p, counter, proj, delta) ==
  LET snap == [doubt |-> proj[doubt], shame |-> proj[shame]]
  IN [n \in DOMAIN delta |->
        event_insert_from_plan(p, n,
          counter + Cardinality({m \in DOMAIN delta : m >= n}),
          plan_for(n, delta[n], proj[n], snap))]

emit(p, counter, proj, delta) ==
  LET snap == [doubt |-> proj[doubt], shame |-> proj[shame]]
  IN [n \in DOMAIN delta |->
        event_insert_from_plan(p, n,
          counter + Cardinality({m \in DOMAIN delta : m <= n}),
          plan_for(n, delta[n], proj[n], snap))]

dispatch_outcome(p, counter, proj) ==
  LET row == outcome_base_deltas(p.reason)
  IN emit(p, counter, proj,
          [n \in affected(row) |-> weight_delta(row[n], p.confidence)])

\* Mutant: the attributes of the prior classification are not revisited.
revision_without_union(p, counter, proj, prior_classification, prior_actual) ==
  LET new_row == outcome_base_deltas(p.reason)
  IN emit(p, counter, proj,
          [n \in affected(new_row) |->
             weight_delta(new_row[n], p.confidence) - prior_actual[n]])

\* Mutant: what the prior classification intended is undone, not what it did.
revision_of_intended(p, counter, proj, prior_classification, prior_actual) ==
  LET new_row   == outcome_base_deltas(p.reason)
      prior_row == outcome_base_deltas(prior_classification)
  IN emit(p, counter, proj,
          [n \in affected(new_row) \cup affected(prior_row) |->
             weight_delta(new_row[n], p.confidence) - weight_delta(prior_row[n], p.confidence)])

(***************************************************************************)
(* A revision re-aims every attribute of either classification at the new  *)
(* row's weighted delta, relative to what the intervention has actually    *)
(* moved it by; it emits an event even where nothing is left to move.      *)
(***************************************************************************)
dispatch_revision(p, counter, proj, prior_classification, prior_actual) ==
  LET new_row   == outcome_base_deltas(p.reason)
      prior_row == outcome_base_deltas(prior_classification)
  IN emit(p, counter, proj,
          [n \in affected(new_row) \cup affected(prior_row) |->
             weight_delta(new_row[n], p.confidence) - prior_actual[n]])

dispatch_hippocampus(p, counter, proj) ==
  LET row == hippocampus_base_deltas(p.reason)
  IN emit(p, counter, proj, [n \in affected(row) |-> row[n]])

dispatch_sensor(p, counter, proj) ==
  LET row == sensor_base_deltas(p.reason)
  IN emit(p, counter, proj, [n \in affected(row) |-> row[n]])
=============================================================================
