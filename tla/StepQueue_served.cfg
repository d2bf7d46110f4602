SPECIFICATION McSpec
CONSTANTS
  Engines = {e1, e2}
  First = e1
  Steps = {1, 2, 3}
  KeyOf <- McKeyOf
  PriorityOf <- McPriorityOf
  Concurrencies = {1, 2}
  RateLimits = {0, 2}
  MaxAttempts = 2
  MaxQueueFaults = 1
INVARIANTS QueueTypeOK CapKept
PROPERTIES NoKeyMonopoly QueueServes
CHECK_DEADLOCK FALSE
