SPECIFICATION Spec
CONSTANTS
  a = a
  b = b
  Engines = {a, b}
  Drivers = {a, b}
  Wakers = {a, b}
  None = None
  MaxSteps = 2
  RemoteUndo = FALSE
  MaxRecovery = 1
  Disturbances = {}
  MaxDisturbances = 0
SYMMETRY Interchangeable
INVARIANTS OneLiveExecutor RunningIsHeld
PROPERTIES TerminalIsFinal
CHECK_DEADLOCK FALSE
