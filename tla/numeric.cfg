SPECIFICATION Spec
CONSTANTS
  Names <- EdgeNames
  Interventions = {first, second}
  SEQ_BITS = 4
  MaxEvents <- EdgeEvents
  MaxDecays <- EdgeDecays
SYMMETRY AnyPlace
INVARIANTS
  PrecisionTypeOK
  UnitsAreFaithful
  RefusedOnlyAtTheEdge
  DecayIsNeverRefused
PROPERTIES
  SeqsGrowUntilPanic
CHECK_DEADLOCK FALSE
