SPECIFICATION AttrdSpec
CONSTANTS
  RunIds = {1}
  COUNTER_LRU_CAP = 2
  Payloads <- AttrdPayloads
  MaxRows = 2
  MaxClock = 2
  MaxRejects = 0
  MaxStrays = 0
  MaxLost = 0
  MaxFaults = 0
  MaxCrashes = 0
  DECAY_TARGETS = {4}
  DAY = 1
  TICK_INTERVAL = 1
  MAINTENANCE = 10
  InitialValues = {0}
  MaxChanges = 0
  MaxRebuilds = 0
INVARIANT ReplayIsProjectionAtRest
CHECK_DEADLOCK FALSE
