SPECIFICATION McSpec
CONSTANTS
  Pollers = {p1, p2}
  Clients = {c1}
  Defs <- McDefs
  Grace = 0
  MaxTime = 3
  MaxCalls = 2
  MaxScheduleFaults = 1
INVARIANTS ScheduleTypeOK CountedOnce
PROPERTIES PollersForward SkipsOverlap DueMoves
CHECK_DEADLOCK FALSE
