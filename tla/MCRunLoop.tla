----------------------------- MODULE MCRunLoop -----------------------------
(***************************************************************************)
(* Small instances of the run loop: the source events a broker may send.   *)
(***************************************************************************)
EXTENDS RunLoop

\* A well-formed source event.
Source(source, run, reason) ==
  [schema_major |-> 1, source |-> source, wellformed |-> TRUE,
   run_id |-> run, ts |-> 0, reason |-> reason, confidence |-> "medium",
   intervention_id |-> NoIntervention, is_revision |-> FALSE, revises |-> FALSE,
   enabled |-> TRUE]

Disabled(p) == [p EXCEPT !.enabled = FALSE]

Outcome(run, iv, reason, conf) ==
  [Source("outcome", run, reason) EXCEPT !.intervention_id = iv, !.confidence = conf]

Revision(run, iv, reason, conf) ==
  [Outcome(run, iv, reason, conf) EXCEPT !.is_revision = TRUE, !.revises = TRUE]

\* Delivery: one- and two-event rows, a disabled one, and one that is rejected.
DeliveryPayloads ==
  {Source("sensor", 1, "ask_uncorrelated"),
   Disabled(Source("hippocampus", 1, "searched")),
   [Source("sensor", 1, "reading") EXCEPT !.schema_major = 2]}

\* Liveness: rows of every kind that ends without a failure.
LivenessPayloads ==
  {Source("sensor", 1, "reading"),
   Outcome(1, 1, "neutral", "low"),
   [Revision(1, 1, "harmful", "high") EXCEPT !.revises = FALSE],
   [Source("unknown", 1, "reading") EXCEPT !.wellformed = FALSE]}

\* Revision chains of one intervention among other source events, one of these of
\* another run: as many runs as the counter map holds.
RevisionPayloads ==
  {Outcome(1, 1, "ignored", "medium"), Revision(1, 1, "worked", "high"),
   Revision(1, 1, "neutral", "high"), Source("hippocampus", 2, "trace_marked"),
   Disabled(Source("hippocampus", 1, "deleted"))}

\* A revision that was logged while updates were switched off.
DisabledRevisionPayloads ==
  {Outcome(1, 1, "harmful", "medium"), Disabled(Revision(1, 1, "worked", "medium")),
   Revision(1, 1, "ignored", "medium")}

\* An intervention first classified neutral, then revised.
NeutralPayloads ==
  {Outcome(1, 1, "neutral", "medium"), Revision(1, 1, "worked", "medium"),
   Revision(1, 1, "ignored", "low")}

\* One run that is still active when the daemon restarts.
RestartPayloads == {Source("sensor", 1, "reading")}
=============================================================================
