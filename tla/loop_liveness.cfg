SPECIFICATION LoopFairSpec
CONSTANTS
  RunIds = {1}
  COUNTER_LRU_CAP = 2
  Payloads <- LivenessPayloads
  MaxRows = 2
  MaxClock = 0
  MaxRejects = 1
  MaxStrays = 1
  MaxLost = 0
  MaxFaults = 0
  MaxCrashes = 1
PROPERTY EveryRowIsClaimed
PROPERTY EveryRowIsDeleted
PROPERTY EveryReplyIsDropped
CHECK_DEADLOCK FALSE
