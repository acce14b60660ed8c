SPECIFICATION DecayFairSpec
CONSTANTS
  RunIds = {1}
  MaxClock = 2
  MaxFaults = 1
  MaxCrashes = 1
  DECAY_TARGETS = {3, 4}
  DAY = 2
  TICK_INTERVAL = 2
  MAINTENANCE = 10
  InitialValues = {6}
  MaxChanges = 1
INVARIANT DecayTypeOK
INVARIANT DecayNeverCollides
INVARIANT DoubleDecayOnlyByFailure
PROPERTY DecayOnlyLowers
PROPERTY DueRowDecays
CHECK_DEADLOCK FALSE
