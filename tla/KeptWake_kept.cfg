SPECIFICATION McSpec
CONSTANTS
  Engines = {e1, e2}
  First = e1
  Facts = {f1, f2}
  Starts <- FanOrSignal
  LongTurns = TRUE
  MaxKept = 4
  MaxWakeCrashes = 1
INVARIANTS WakeTypeOK NoKeptLeft
PROPERTY WakesArrive
CHECK_DEADLOCK FALSE
