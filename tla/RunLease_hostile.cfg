SPECIFICATION FairSpec
CONSTANTS
  a = a
  b = b
  Engines = {a, b}
  Drivers = {a}
  Wakers = {a}
  None = None
  MaxSteps = 1
  RemoteUndo = TRUE
  MaxRecovery = 1
  Disturbances = {"crash", "stall", "cancel", "compensate", "requeue", "foreign"}
  MaxDisturbances = 1
INVARIANTS TypeOK
PROPERTIES EventuallyRests
CHECK_DEADLOCK FALSE
