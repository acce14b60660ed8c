SPECIFICATION LoopSpec
CONSTANTS
  RunIds = {1, 2}
  COUNTER_LRU_CAP = 2
  Payloads <- RevisionPayloads
  MaxRows = 3
  MaxClock = 1
  MaxRejects = 0
  MaxStrays = 0
  MaxLost = 0
  MaxFaults = 1
  MaxCrashes = 0
INVARIANT RevisionSupersedes
INVARIANT FrictionStaysZero
INVARIANT ReplayIsProjection
INVARIANT InsertIsAccepted
INVARIANT FailureStrandsOneRow
PROPERTY SeqMonotone
CHECK_DEADLOCK FALSE
