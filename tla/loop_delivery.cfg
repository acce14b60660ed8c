SPECIFICATION LoopSpec
CONSTANTS
  RunIds = {1}
  COUNTER_LRU_CAP = 2
  Payloads <- DeliveryPayloads
  MaxRows = 2
  MaxClock = 0
  MaxRejects = 0
  MaxStrays = 1
  MaxLost = 1
  MaxFaults = 1
  MaxCrashes = 1
INVARIANT LoopTypeOK
INVARIANT UnclaimedRowIsCovered
INVARIANT DispatchedAtMostOnce
INVARIANT SnapshotCoherent
INVARIANT AuditFollowsLog
INVARIANT DriftOnlyByFailure
INVARIANT FailureStrandsOneRow
PROPERTY InboxContract
CHECK_DEADLOCK FALSE
