SPECIFICATION GateFairSpec
CONSTANTS
  MaxRuns = 3
  Limits = {1, 2}
  MaxQueueDepth = 0
  MaxStarts = 2
  MaxDelayed = 1
  MaxGateFaults = 1
INVARIANTS GateTypeOK AtMostLimit BacklogBounded
PROPERTY GateDrains
CHECK_DEADLOCK FALSE
