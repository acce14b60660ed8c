SPECIFICATION LoopSpec
CONSTANTS
  RunIds = {1}
  COUNTER_LRU_CAP = 2
  Payloads <- DisabledRevisionPayloads
  MaxRows = 3
  MaxClock = 0
  MaxRejects = 0
  MaxStrays = 0
  MaxLost = 0
  MaxFaults = 0
  MaxCrashes = 0
INVARIANT RevisionIgnoresDisabled
CHECK_DEADLOCK FALSE
