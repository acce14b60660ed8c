------------------------------- MODULE Inbox -------------------------------
(***************************************************************************)
(* What the daemon promises of satan_outcome_inbox (migration 0008: it     *)
(* "claims the row, dispatches [...] and DELETEs after writing the         *)
(* satan_attribute_events row(s)"), without listeners, backlogs, retries   *)
(* or program counters: rows are worked on one at a time and never twice,  *)
(* each attribute a row is to move gets one event, in ATTR_ORDER, and a    *)
(* row is deleted only when all of them have been written. A row may be    *)
(* abandoned at any point; then it stays claimed for ever.                 *)
(***************************************************************************)
EXTENDS Integers

CONSTANTS Row, Attr, None

VARIABLES
  row,        \* each id's row: none, queued, claimed or deleted
  busy,       \* the row being worked on, or None
  due,        \* the attributes it has still to move
  applied     \* the attributes each row has moved

vars == <<row, busy, due, applied>>

Init ==
  /\ row = [id \in Row |-> "none"]
  /\ busy = None /\ due = {}
  /\ applied = [id \in Row |-> {}]

\* SERIAL ids: rows come in the order of their ids.
Enqueue(id) ==
  /\ row[id] = "none" /\ \A other \in Row : other < id => row[other] # "none"
  /\ row' = [row EXCEPT ![id] = "queued"]
  /\ UNCHANGED <<busy, due, applied>>

Take(id) ==
  /\ busy = None /\ row[id] = "queued"
  /\ row' = [row EXCEPT ![id] = "claimed"]
  /\ busy' = id
  /\ UNCHANGED <<due, applied>>

\* The row is dispatched: once, before anything has been written for it.
Plan ==
  /\ busy # None /\ due = {} /\ applied[busy] = {}
  /\ due' \in SUBSET Attr
  /\ UNCHANGED <<row, busy, applied>>

Apply(n) ==
  /\ busy # None /\ n \in due /\ \A m \in due : n <= m
  /\ \A m \in applied[busy] : m < n
  /\ due' = due \ {n}
  /\ applied' = [applied EXCEPT ![busy] = @ \cup {n}]
  /\ UNCHANGED <<row, busy>>

Finish ==
  /\ busy # None /\ due = {}
  /\ row' = [row EXCEPT ![busy] = "deleted"]
  /\ busy' = None
  /\ UNCHANGED <<due, applied>>

Abandon ==
  /\ busy # None
  /\ busy' = None /\ due' = {}
  /\ UNCHANGED <<row, applied>>

Next ==
  \/ \E id \in Row : Enqueue(id) \/ Take(id)
  \/ Plan
  \/ \E n \in Attr : Apply(n)
  \/ Finish
  \/ Abandon

Spec == Init /\ [][Next]_vars
=============================================================================
