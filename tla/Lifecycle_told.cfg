SPECIFICATION McSpec
CONSTANTS
  e1 = e1
  e2 = e2
  Engines = {e1, e2}
  Subs = {1, 2}
  On <- McOn
  KindsOf <- McKindsOf
  Early = {1}
  MaxRequeues = 1
  MaxLifecycleFaults = 1
INVARIANTS LifecycleTypeOK OwedUntilTold
PROPERTIES EventuallyTold MarkerGoes
CHECK_DEADLOCK FALSE
