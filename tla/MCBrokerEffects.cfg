\* Two workers, two keys, a one-off and a standing approval, one lost transaction.
SPECIFICATION Spec
CONSTANTS
  w1 = w1
  w2 = w2
  k1 = k1
  k2 = k2
  i1 = i1
  i2 = i2
  once = once
  always = always
  t1 = t1
  None = None
  AnyKey = AnyKey
  InitialDigest = d1
  Worker = {w1, w2}
  OpKey = {k1, k2}
  Intent = {i1, i2}
  Approval = {once, always}
  Task = {t1}
  Correction = {}
  Digest = {d1}
  KeyOf <- MCKeyOf
  AuthorityType <- MCAuthorityType
  ApprovedKey <- MCApprovedKey
  Binds <- MCBinds
  TaskOf <- MCTaskOf
  Perishable = {once}
  Managed = FALSE
  MaxReconciliationAttempts = 1
  MaxApplied = 2
  MaxCrashes = 1
INVARIANTS EffectsAccounted OneOffOneKey OvershootBounded
PROPERTIES RecordedNeverRedispatched BlockedDrains
SYMMETRY Workers
CHECK_DEADLOCK FALSE
