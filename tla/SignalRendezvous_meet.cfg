SPECIFICATION FairSpec
CONSTANTS
  s1 = s1
  s2 = s2
  Senders = {s1, s2}
  None = None
  NumWaits = 2
  Bounded = {1}
  MaxCrashes = 1
INVARIANTS TypeOK DeliveredOnce NoStrandedPair TimedOutUnregistered
PROPERTIES BufferedIsConsumed BoundedEnds
CHECK_DEADLOCK FALSE
