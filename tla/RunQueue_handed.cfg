SPECIFICATION McSpec
CONSTANTS
  Engines = {e1, e2}
  Drains = {e2}
  Turns = 1
  MaxQueue = 1
  MaxResults = 1
  MaxFaults = 1
INVARIANTS RunQueueTypeOK TurnHoldsLease
PROPERTY RunEnds
CHECK_DEADLOCK FALSE
