\* Two workers, two policies, one correction, managed mode, with fairness.
SPECIFICATION FairSpec
CONSTANTS
  w1 = w1
  w2 = w2
  k1 = k1
  k2 = k2
  i1 = i1
  i2 = i2
  once = once
  always = always
  t1 = t1
  None = None
  AnyKey = AnyKey
  InitialDigest = d1
  Worker = {w1, w2}
  OpKey = {k1}
  Intent = {i1}
  Approval = {always}
  Task = {t1}
  Correction = {c1}
  Digest = {d1, d2}
  KeyOf <- MCKeyOf
  AuthorityType <- MCAuthorityType
  ApprovedKey <- MCApprovedKey
  Binds <- MCBinds
  TaskOf <- MCTaskOf
  Perishable = {}
  Managed = TRUE
  MaxReconciliationAttempts = 1
  MaxApplied = 2
  MaxCrashes = 1
INVARIANTS FenceFreezesAuthority RevocationExcludesOperation
CHECK_DEADLOCK FALSE
PROPERTIES ImplementsLedger
