SPECIFICATION LoopSpec
CONSTANTS
  RunIds = {1}
  COUNTER_LRU_CAP = 2
  Payloads <- RestartPayloads
  MaxRows = 4
  MaxClock = 0
  MaxRejects = 0
  MaxStrays = 0
  MaxLost = 0
  MaxFaults = 0
  MaxCrashes = 1
INVARIANT StrandedOnlyByFailure
CHECK_DEADLOCK FALSE
