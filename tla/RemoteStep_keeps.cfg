SPECIFICATION FairSpec
CONSTANTS
  a = a
  b = b
  Engines = {a, b}
  Retries = 2
  RedispatchMax = 2
  Prompt = TRUE
  MaxFaults = 1
INVARIANTS TypeOK ResultFindsRow
PROPERTIES KeepsPromise EventuallyTold
CHECK_DEADLOCK FALSE
