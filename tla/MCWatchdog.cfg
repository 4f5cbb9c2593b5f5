\* Two sites, two workers, one that may die, a replayed occurrence.
SPECIFICATION Spec
CONSTANTS
  s1 = s1
  s2 = s2
  w1 = w1
  w2 = w2
  None = None
  Site <- Sites
  Worker = {w1, w2}
  Threshold <- Thresholds
  MaxRepairs = 1
  MaxOccurrence = 2
  MaxLeases = 2
  MaxChanges = 2
  MaxCrashes = 1
SYMMETRY Symmetry
INVARIANTS OutageOnRecord RepairIsExclusive
PROPERTY ImplementsLife
CHECK_DEADLOCK FALSE
