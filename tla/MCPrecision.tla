---------------------------- MODULE MCPrecision ----------------------------
(***************************************************************************)
(* Three attributes, each for what it reaches in a few events. Four of     *)
(* doubt reach both edges of the range, by deltas that the magnitude cap   *)
(* cuts. Brooding is a DECAY_TARGET: four decays and an event of the same  *)
(* size take it from one delta of 0.05 back to zero. Hunger has the fewest *)
(* deltas and goes on until the seq overflows. Two interventions are       *)
(* revised in any order; their places are alike.                           *)
(***************************************************************************)
EXTENDS Precision, TLC

EdgeNames == {doubt, brooding, hunger}

EdgeEvents == [n \in EdgeNames |->
                 CASE n = doubt -> 4 [] n = brooding -> 3 [] n = hunger -> 2^(SEQ_BITS - 1)]

EdgeDecays == [n \in EdgeNames |-> IF n = brooding THEN 4 ELSE 0]

AnyPlace == Permutations(Interventions)
=============================================================================
