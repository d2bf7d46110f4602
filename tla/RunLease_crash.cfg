SPECIFICATION Spec
CONSTANTS
  a = a
  b = b
  Engines = {a, b}
  Drivers = {a, b}
  Wakers = {b}
  None = None
  MaxSteps = 1
  RemoteUndo = FALSE
  MaxRecovery = 1
  Disturbances = {"crash", "cancel"}
  MaxDisturbances = 1
INVARIANTS CountedOnlyAfterCrash
CHECK_DEADLOCK FALSE
