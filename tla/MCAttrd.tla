------------------------------ MODULE MCAttrd ------------------------------
(***************************************************************************)
(* Small instances of the whole daemon.                                    *)
(***************************************************************************)
EXTENDS Attrd

Sensed(reason) ==
  [schema_major |-> 1, source |-> "sensor", wellformed |-> TRUE,
   run_id |-> 1, ts |-> 0, reason |-> reason, confidence |-> "medium",
   intervention_id |-> NoIntervention, is_revision |-> FALSE, revises |-> FALSE,
   enabled |-> TRUE]

\* A row that moves a decay target (doubt) and another attribute (metamorphosis),
\* and one that moves a third (hunger).
AttrdPayloads == {Sensed("reading"), Sensed("ask_uncorrelated")}
=============================================================================
