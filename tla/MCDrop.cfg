\* Two attempts at the drop, one process that may die, one cron.
SPECIFICATION FairSpec
CONSTANTS
  p1 = p1
  p2 = p2
  j1 = j1
  f1 = f1
  None = None
  Client = {p1, p2}
  Janitor = {j1}
  Path = {f1}
  MaxClaims = 2
  MaxCrashes = 1
INVARIANTS CopiesAccounted ConsumedWasDisclosed
PROPERTIES WipedDrains EventuallyWiped
CHECK_DEADLOCK FALSE
