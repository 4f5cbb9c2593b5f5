\* One correction of an approval whose process dies once and is replayed; nothing raises.
SPECIFICATION Spec
CONSTANTS
  c1 = c1
  c2 = c2
  k1 = k1
  k2 = k2
  None = None
  Original = Original
  Correction = {c1}
  Card = {k1}
  PriorOf <- Citing
  Staged = TRUE
  MaxFaults = 0
  MaxCrashes = 1
  MaxChanges = 0
INVARIANT WithdrawalStays
CHECK_DEADLOCK FALSE
