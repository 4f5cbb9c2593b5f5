\* A correction and one of its claim, of one approval; two cards, with faults, a crash and a moved card.
SPECIFICATION FairSpec
CONSTANTS
  c1 = c1
  c2 = c2
  k1 = k1
  k2 = k2
  None = None
  Original = Original
  Correction = {c1, c2}
  Card = {k1, k2}
  PriorOf <- Citing
  Staged = TRUE
  MaxFaults = 1
  MaxCrashes = 1
  MaxChanges = 1
INVARIANTS CommittedIsComplete RolledBackIsClean
PROPERTY Settles
CHECK_DEADLOCK FALSE
