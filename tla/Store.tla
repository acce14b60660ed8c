------------------------------- MODULE Store -------------------------------
(***************************************************************************)
(* The SATAN database as the daemon sees it (migrations 0007 and 0009) and *)
(* the storage API of src/store.rs. Each SQL statement is one atomic step  *)
(* of the module that issues it; here are the tables and what the          *)
(* statements compute.                                                     *)
(***************************************************************************)
EXTENDS Dispatcher, Sequences, FiniteSetsExt

CONSTANT RunIds    \* broker run ids; their order is the collation order
                   \* of the run_id column

CONSTANTS
  MaxClock,     \* bound: how far wall-clock time runs
  MaxFaults,    \* bound: failing SQL statements
  MaxCrashes    \* bound: daemon crashes

ASSUME StoreAssumption ==
  /\ RunIds \subseteq Nat \ {0}
  /\ MaxClock \in Nat /\ MaxFaults \in Nat /\ MaxCrashes \in Nat

VARIABLES
  faults, crashes,  \* what the bounds count
  clock,        \* wall-clock time, shared by broker, database and daemon
  attributes,   \* satan_attributes: value by name, scope 'global'
  events,       \* satan_attribute_events: the set of rows
  audit_inbox   \* satan_audit_inbox: the (run_id, seq) of each payload, by id

storeVars == <<clock, attributes, events, audit_inbox>>

Event == [run_id: Nat, seq: Nat, ts: Nat, name: Attrs,
          old_value: Value, new_value: Value,
          source: {"outcome", "hippocampus", "sensor", "maintenance"},
          reason: Reason, intervention_id: Nat,
          caps_applied: SUBSET Cap, disabled: BOOLEAN]

StoreTypeOK ==
  /\ clock \in Nat /\ faults \in Nat /\ crashes \in Nat
  /\ attributes \in [Attrs -> Value]
  /\ events \subseteq Event
  /\ audit_inbox \in Seq(Nat \X Nat)

StoreInit ==
  /\ clock = 0 /\ faults = 0 /\ crashes = 0
  /\ attributes = [n \in Attrs |-> 0]
  /\ events = {}
  /\ audit_inbox = <<>>

\* The primary key: format_event_id(run_id, seq).
event_id(ev) == <<ev.run_id, ev.seq>>

delta(ev) == ev.new_value - ev.old_value

validate(ev) == ev.old_value \in Value /\ ev.new_value \in Value

(***************************************************************************)
(* insert_event succeeds iff the structural check passes and neither the   *)
(* primary key nor UNIQUE (run_id, seq) is violated.                       *)
(***************************************************************************)
insert_accepts(ev) ==
  /\ validate(ev)
  /\ \A e \in events : event_id(e) # event_id(ev)

insert_event(ev) == events' = events \cup {ev}

upsert_attribute(ev) ==
  attributes' = [attributes EXCEPT ![ev.name] = ev.new_value]

enqueue_audit_event(ev) == audit_inbox' = Append(audit_inbox, event_id(ev))

\* ORDER BY ts, run_id, seq.
replays_before(e, f) ==
  \/ e.ts < f.ts
  \/ e.ts = f.ts /\ e.run_id < f.run_id
  \/ e.ts = f.ts /\ e.run_id = f.run_id /\ e.seq < f.seq

latest(S) == CHOOSE e \in S : \A f \in S \ {e} : replays_before(f, e)

lookup_prior_events_by_intervention(iv, n) ==
  {e \in events : e.intervention_id = iv /\ e.name = n}

\* Disabled rows are not summed.
gather_prior_actuals(iv) ==
  [n \in Attrs |->
     MapThenSumSet(delta, {e \in lookup_prior_events_by_intervention(iv, n) :
                             ~e.disabled})]

\* Mutant: the disabled filter is not applied.
rebuild_everything(include_disabled) ==
  [n \in Attrs |->
     LET rows == {e \in events : e.name = n}
     IN IF rows = {} THEN 0 ELSE latest(rows).new_value]

(***************************************************************************)
(* What rebuild_projection leaves in satan_attributes: zero everywhere,    *)
(* then the rows replayed in order, so that the last row of each attribute *)
(* decides.                                                                *)
(***************************************************************************)
rebuild_projection(include_disabled) ==
  [n \in Attrs |->
     LET rows == {e \in events : e.name = n /\ (include_disabled \/ ~e.disabled)}
     IN IF rows = {} THEN 0 ELSE latest(rows).new_value]
=============================================================================
