SPECIFICATION WakeSpec
CONSTANTS
  Engines = {e1, e2}
  First = e1
  Facts = {f1, f2}
  Starts <- TwoSignals
  LongTurns = FALSE
  MaxKept = 4
  MaxWakeCrashes = 0
INVARIANT NeverStranded
CHECK_DEADLOCK FALSE
