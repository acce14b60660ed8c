SPECIFICATION Spec
CONSTANTS
  Names <- EdgeNames
  Interventions = {first, second}
  SEQ_BITS = 4
  MaxEvents <- EdgeEvents
  MaxDecays <- EdgeDecays
SYMMETRY AnyPlace
INVARIANT
  PlannedIsInRange
CHECK_DEADLOCK FALSE
