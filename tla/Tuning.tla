------------------------------- MODULE Tuning -------------------------------
(***************************************************************************)
(* The tuning tables (src/tuning.rs): delta magnitudes, confidence weights *)
(* and the three reason -> delta-row tables.                               *)
(*                                                                         *)
(* Attribute values are reals in [0, 1]; every constant of the tables and  *)
(* every product with a confidence weight is a multiple of 1/400, so the   *)
(* model counts in units of 1/400 and its arithmetic is exact.             *)
(*                                                                         *)
(* An attribute IS its position in ATTR_ORDER, so a delta row is indexed   *)
(* by the attribute and "in ATTR_ORDER" is the order of the integers.      *)
(***************************************************************************)
EXTENDS Integers

ONE    == 400     \* 1.0
TINY   == 10      \* 0.025
SMALL  == 20      \* 0.05
MEDIUM == 60      \* 0.15
HIGH   == 120     \* 0.30

CONFIDENCE_MAGNITUDE_CAP == HIGH

\* ATTR_ORDER
Attrs == 1..8
curiosity     == 1
friction      == 2
shame         == 3
doubt         == 4
hunger        == 5
suspicion     == 6
brooding      == 7
metamorphosis == 8

Value == 0..ONE

OutcomeReason     == {"worked", "neutral", "ignored", "contradicted", "harmful"}
HippocampusReason == {"written", "overwritten", "renamed", "deleted",
                      "searched", "trace_marked"}
SensorReason      == {"segment_backlog", "typing_active", "typing_idle",
                      "reading", "ask_suppressed", "ask_uncorrelated"}
MaintenanceReason == {"idle_decay"}
Reason            == OutcomeReason \cup HippocampusReason \cup SensorReason
                       \cup MaintenanceReason
Confidence        == {"low", "medium", "high"}

NoDeltas == <<0, 0, 0, 0, 0, 0, 0, 0>>

\*                  curio friction shame    doubt    hunger  suspic  brood  meta
outcome_base_deltas(reason) ==
  CASE reason = "worked"       -> <<0, 0, -TINY, -SMALL, -SMALL, 0, SMALL, 0>>
    [] reason = "ignored"      -> <<0, -SMALL, SMALL, SMALL, 0, 0, SMALL, 0>>
    [] reason = "contradicted" -> <<0, -MEDIUM, MEDIUM, MEDIUM, 0, -SMALL, 0, SMALL>>
    [] reason = "harmful"      -> <<0, -HIGH, HIGH, HIGH, 0, 0, 0, MEDIUM>>
    [] OTHER                   -> NoDeltas                        \* neutral

hippocampus_base_deltas(reason) ==
  CASE reason \in {"written", "renamed"}     -> <<0, 0, 0, 0, 0, 0, -TINY, 0>>
    [] reason \in {"overwritten", "deleted"} -> <<0, 0, -TINY, 0, 0, 0, -TINY, 0>>
    [] reason = "searched"                   -> <<0, 0, 0, 0, 0, TINY, 0, 0>>
    [] OTHER                                 -> <<-TINY, 0, 0, 0, 0, 0, -TINY, 0>>

sensor_base_deltas(reason) ==
  CASE reason = "segment_backlog"            -> <<SMALL, 0, 0, 0, 0, 0, 0, 0>>
    [] reason = "typing_active"              -> <<0, 0, 0, 0, SMALL, 0, 0, 0>>
    [] reason \in {"typing_idle", "reading"} -> <<0, 0, 0, 0, TINY, 0, 0, 0>>
    [] reason = "ask_suppressed"             -> <<TINY, 0, 0, 0, 0, 0, 0, TINY>>
    [] OTHER                                 -> <<0, 0, 0, TINY, 0, 0, 0, TINY>>

\* The confidence weights 0.5, 1.0 and 1.5, doubled.
twice_weight(conf) ==
  CASE conf = "low" -> 1 [] conf = "medium" -> 2 [] OTHER -> 3
=============================================================================
