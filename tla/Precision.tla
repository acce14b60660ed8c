----------------------------- MODULE Precision -----------------------------
(***************************************************************************)
(* What the machine numbers do to one attribute. The other modules count   *)
(* attribute values in exact units of 1/400 and seqs in Nat; here a value  *)
(* is the f64 and a seq the i32 of the code (dispatcher.rs plan_for and    *)
(* dispatch_maintenance, store.rs Counter::next and validate), run side by *)
(* side with the exact arithmetic.                                         *)
(*                                                                         *)
(* One run's counter, one attribute and the interventions that may still   *)
(* be revised: a new one takes the place of any of them, so that enough    *)
(* places make every history of classifications and revisions. Planning an *)
(* event, taking its seq, the INSERT and the UPSERT are one step here      *)
(* (RunLoop and Attrd take them apart). Friction is left out: it never     *)
(* leaves zero, whose sums are exact.                                      *)
(***************************************************************************)
EXTENDS Dispatcher

F == INSTANCE Binary64

CONSTANTS
  Names,         \* the attributes of interest
  Interventions, \* places for interventions that may still be revised
  SEQ_BITS,      \* width of a seq: 32 in the code
  MaxEvents,     \* bound: seqs drawn for each name (from 2^(SEQ_BITS - 1) up: none)
  MaxDecays      \* bound: maintenance events of each (0 unless a DECAY_TARGET)

ASSUME PrecisionAssumption ==
  /\ Names \subseteq Attrs \ {friction}
  /\ SEQ_BITS \in Nat \ {0, 1}
  /\ MaxEvents \in [Names -> Nat] /\ MaxDecays \in [Names -> Nat]

I32_MAX == 2^(SEQ_BITS - 1) - 1
I32     == (-I32_MAX - 1)..I32_MAX

VARIABLES
  name,         \* the attribute
  value,        \* its projected value, an f64
  exact,        \* the same in units, computed without rounding
  prior,        \* of each intervention its reason, actual f64 delta and exact delta
  inner,        \* Counter.inner, an AtomicI32
  last_seq,     \* the run's latest seq in satan_attribute_events
  decays,       \* maintenance events
  panicked      \* the run loop's task has died in next()

vars == <<name, value, exact, prior, inner, last_seq, decays, panicked>>

NoPrior == [reason |-> "neutral", actual |-> F!ZERO, units |-> 0]
NoChange == <<>>        \* of the prior: the event belongs to no intervention

-----------------------------------------------------------------------------
(***************************************************************************)
(* The f64 counterparts of the operators of Dispatcher.                    *)
(***************************************************************************)

\* The f64 literal of each number of units.
f64 == [u \in -ONE..ONE |-> IF u < 0 THEN F!negate(F!literal(-u, ONE))
                                     ELSE F!literal(u, ONE)]

\* Mutant: the magnitude cap is forgotten.
weight_delta64_uncapped(base, conf) == F!scale(f64[base], twice_weight(conf))

weight_delta64(base, conf) ==
  F!clamp(F!scale(f64[base], twice_weight(conf)),
          f64[-CONFIDENCE_MAGNITUDE_CAP], f64[CONFIDENCE_MAGNITUDE_CAP])

\* Mutant: only the lower clamp, as in dispatch_maintenance.
plan_for64_lower(old, delta_in) ==
  LET raw == F!add(old, delta_in)
      cut == F!less(raw, F!ZERO)
  IN [new_value    |-> IF cut THEN F!ZERO ELSE raw,
      caps_applied |-> IF cut THEN {"range_clamp"} ELSE {}]

\* plan_for without its friction cap: clamps what is off by more than EPSILON.
plan_for64(old, delta_in) ==
  LET raw     == F!add(old, delta_in)
      clamped == F!clamp(raw, F!ZERO, F!ONE)
      cut     == F!less(F!EPSILON, F!abs(F!sub(clamped, raw)))
  IN [new_value    |-> IF cut THEN clamped ELSE raw,
      caps_applied |-> IF cut THEN {"range_clamp"} ELSE {}]

DECAY_DELTA == -4       \* -0.01

\* Mutant: decay is planned like any other delta.
dispatch_maintenance64_by_plan(old) == plan_for64(old, f64[DECAY_DELTA])

\* dispatch_maintenance clamps whatever is below zero.
dispatch_maintenance64(old) ==
  LET raw == F!add(old, f64[DECAY_DELTA])
  IN [new_value    |-> IF F!less(raw, F!ZERO) THEN F!ZERO ELSE raw,
      caps_applied |-> IF F!less(raw, F!ZERO) THEN {"range_clamp"} ELSE {}]

NoSnapshot == [doubt |-> 0, shame |-> 0]    \* used by the friction cap only

exact_plan(units) == plan_for(name, units, exact, NoSnapshot)

\* Mutant: no value is refused.
validate64_nothing(x) == TRUE

validate64(x) == ~F!less(x, F!ZERO) /\ ~F!less(F!ONE, x)

-----------------------------------------------------------------------------
\* fetch_add wraps around; saturating_add is applied to the value it returns.
fetch_add(i)      == IF i = I32_MAX THEN -I32_MAX - 1 ELSE i + 1
saturating_add(i) == IF i = I32_MAX THEN I32_MAX ELSE i + 1

\* Mutant: the assertion of next() is missing.
next_accepts_any(seq) == TRUE

next_accepts(seq) == seq > 0

(***************************************************************************)
(* An event for the attribute: delta64 is what plan_for is given, units    *)
(* the same without rounding, and after what is kept of the intervention   *)
(* it belongs to, less what the event itself adds once it is logged.       *)
(***************************************************************************)
event(delta64, units, of, after) ==
  [plan |-> plan_for64(value, delta64), exact |-> exact_plan(units),
   intervention |-> of, prior |-> after]

\* The weighted deltas of an attribute, with the reason that causes each.
weighted_deltas ==
  [n \in Attrs |->
     {LET base == outcome_base_deltas(x[1])[n]
      IN [reason |-> x[1], delta64 |-> weight_delta64(base, x[2]),
          units |-> weight_delta(base, x[2])] : x \in OutcomeReason \X Confidence}]

\* The unweighted ones, of hippocampus and sensor events.
base_deltas ==
  [n \in Attrs |-> {hippocampus_base_deltas(r)[n] : r \in HippocampusReason}
                     \cup {sensor_base_deltas(r)[n] : r \in SensorReason}]

\* The first event of a new intervention, kept in the place of i: classified
\* here, or revised to here, which takes back a logged sum of zero.
outcome_events(i) ==
  {event(d.delta64, d.units, i, [NoPrior EXCEPT !.reason = d.reason]) :
     d \in {x \in weighted_deltas[name] : x.units # 0}}

\* Intervention i revised: to the new row, relative to its own logged sum.
revision_events(i) ==
  {event(F!sub(d.delta64, prior[i].actual), d.units - prior[i].units, i,
         [prior[i] EXCEPT !.reason = d.reason]) :
     d \in {x \in weighted_deltas[name] :
              x.units # 0 \/ outcome_base_deltas(prior[i].reason)[name] # 0}}

\* A hippocampus or sensor event belongs to no intervention.
unweighted_events ==
  {event(f64[base], base, NoChange, NoChange) : base \in base_deltas[name] \ {0}}

\* The interventions that have moved the attribute.
classified == {i \in Interventions : prior[i] # NoPrior}

\* What the run's dispatchers may build next.
events ==
  unweighted_events \cup (UNION {outcome_events(i)  : i \in Interventions})
                    \cup (UNION {revision_events(i) : i \in classified})

\* The decay scheduler's event, of a run and a counter of its own.
maintenance_event ==
  [plan |-> dispatch_maintenance64(value), exact |-> exact_plan(DECAY_DELTA),
   intervention |-> NoChange, prior |-> NoChange]

\* UNIQUE (run_id, seq). As long as the logged seqs grow, which is
\* SeqsGrowUntilPanic, only the latest of them can come again.
insert_accepts(e, seq) == validate64(e.plan.new_value) /\ seq # last_seq

\* upsert_attribute; the intervention's actual delta is the sum of the log.
Move(e) ==
  /\ value' = e.plan.new_value
  /\ exact' = e.exact.new_value
  /\ prior' = [i \in Interventions |->
                 IF e.prior = NoChange \/ i # e.intervention THEN prior[i]
                 ELSE [e.prior EXCEPT !.actual = F!add(@, F!sub(e.plan.new_value, value)),
                                      !.units  = @ + (e.exact.new_value - exact)]]

Emit(e) ==
  LET seq == saturating_add(inner)
  IN /\ ~panicked /\ next_accepts(seq)
     /\ inner' = fetch_add(inner)
     /\ insert_accepts(e, seq)
     /\ last_seq' = seq
     /\ Move(e)
     /\ UNCHANGED <<name, decays, panicked>>

\* insert_event returns its error and the row is abandoned.
EmitRefused(e) ==
  LET seq == saturating_add(inner)
  IN /\ ~panicked /\ next_accepts(seq)
     /\ inner' = fetch_add(inner)
     /\ ~insert_accepts(e, seq)
     /\ UNCHANGED <<name, value, exact, prior, last_seq, decays, panicked>>

NextPanics ==
  /\ ~panicked /\ ~next_accepts(saturating_add(inner))
  /\ inner' = fetch_add(inner)
  /\ panicked' = TRUE
  /\ UNCHANGED <<name, value, exact, prior, last_seq, decays>>

\* A seq of the maintenance run is never in the log of this one.
Decay ==
  /\ decays < MaxDecays[name]
  /\ decays' = decays + 1
  /\ validate64(maintenance_event.plan.new_value)
  /\ Move(maintenance_event)
  /\ UNCHANGED <<name, inner, last_seq, panicked>>

Init ==
  /\ name \in Names
  /\ value = F!ZERO /\ exact = 0
  /\ prior = [i \in Interventions |-> NoPrior]
  /\ inner = 0 /\ last_seq = 0 /\ decays = 0
  /\ panicked = FALSE

Next ==
  \/ inner < MaxEvents[name] /\ \E e \in events : Emit(e) \/ EmitRefused(e)
  \/ NextPanics
  \/ Decay

Spec == Init /\ [][Next]_vars

-----------------------------------------------------------------------------
(***************************************************************************)
(* Properties. Those about planned events speak of every event that may be *)
(* built from the state the history so far has led to.                     *)
(***************************************************************************)

Number == (-(2^30)..2^30) \X (0..(F!LIMB - 1))

(***************************************************************************)
(* The type invariant: the stored value is in range and a whole number of  *)
(* places, whatever insert_event was asked to store.                       *)
(***************************************************************************)
PrecisionTypeOK ==
  /\ name \in Names
  /\ value \in Number /\ ~F!less(value, F!ZERO) /\ ~F!less(F!ONE, value)
  /\ exact \in Value
  /\ prior \in [Interventions ->
                 [reason : OutcomeReason, actual : Number, units : -ONE..ONE]]
  /\ inner \in I32 /\ last_seq \in I32
  /\ decays \in 0..MaxDecays[name]
  /\ panicked \in BOOLEAN

\* k times EPSILON: 128 * k places.
epsilons(k) == <<k \div 2^23, (k % 2^23) * 128>>

\* x is u units, give or take an EPSILON for each of k events.
near(x, u, k) == ~F!less(epsilons(k), F!abs(F!plus(x, F!negate(f64[u]))))

\* As many events as can have moved the value.
moves == last_seq + decays

(***************************************************************************)
(* The exact units the other modules compute with are faithful to the f64  *)
(* of the code: the stored value differs from them by rounding only, one   *)
(* f64::EPSILON at most for each event, however the interventions are      *)
(* revised, and whatever is planned next fires the same caps. Only a plan  *)
(* that ends exactly at zero or one may record a clamp of nothing but      *)
(* rounding: 0.05 less five times 0.01 ends in one.                        *)
(***************************************************************************)
UnitsAreFaithful ==
  /\ near(value, exact, moves)
  /\ \A e \in events \cup {maintenance_event} :
       \/ e.plan.caps_applied = e.exact.caps_applied
       \/ e.exact.new_value \in {0, ONE} /\ e.exact.caps_applied = {}

(***************************************************************************)
(* plan_for hands insert_event a value out of range only where the exact   *)
(* plan is exactly zero or one, and no further out than the EPSILON below  *)
(* which its range clamp does not look.                                    *)
(***************************************************************************)
RefusedOnlyAtTheEdge ==
  \A e \in events : ~validate64(e.plan.new_value) =>
    /\ e.exact.new_value \in {0, ONE} /\ e.exact.caps_applied = {}
    /\ LET edge == f64[e.exact.new_value]
       IN ~F!less(F!EPSILON, F!abs(F!plus(e.plan.new_value, F!negate(edge))))

(***************************************************************************)
(* A decay is never refused, after however many rounded sums: the stored   *)
(* value is at most one and dispatch_maintenance clamps exactly.           *)
(***************************************************************************)
DecayIsNeverRefused == validate64(maintenance_event.plan.new_value)

(***************************************************************************)
(* The seqs a run logs only grow, up to and past the overflow of the i32:  *)
(* next() repeats the largest seq once, which the UNIQUE constraint then   *)
(* refuses or which is the first with that seq to get in, and the call     *)
(* after that panics (store.rs: "Wrapping at i32::MAX panics").            *)
(***************************************************************************)
SeqsGrowUntilPanic ==
  [][last_seq' # last_seq => last_seq' > last_seq]_vars

(***************************************************************************)
(* What plan_for plans is in range, so that insert_event accepts it        *)
(* (types.rs of its range clamp: "`new` clamped to `[0, 1]`").             *)
(***************************************************************************)
PlannedIsInRange == \A e \in events : validate64(e.plan.new_value)
=============================================================================
