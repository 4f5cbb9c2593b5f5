\* Two concurrent calls, two events, a revision, a failure.
SPECIFICATION FairSpec
CONSTANTS
  w1 = w1
  w2 = w2
  claim = claim
  blocker = blocker
  None = None
  Worker = {w1, w2}
  Event = {blocker, claim}
  Order <- Orders
  Says <- Sayings
  MaxVersion = 2
  MaxFaults = 1
INVARIANTS FieldsAreNewest SendsAccounted
PROPERTY AcceptedCompletes
CHECK_DEADLOCK FALSE
