\* Two callers of two brokers, two operations on one target of which the
\* budget affords either and not both, two runs, one death.
SPECIFICATION Spec
CONSTANTS
  c1 = c1
  c2 = c2
  b1 = b1
  b2 = b2
  t1 = t1
  o1 = o1
  o2 = o2
  None = None
  Caller = {c1, c2}
  Broker = {b1, b2}
  Target = {t1}
  OpKey = {o1, o2}
  BrokerOf <- MCBrokerOf
  TargetOf <- MCTargetOf
  Amount <- MCAmount
  Budget = 2
  MaxRun = 2
  MaxGeneration = 3
  MaxCrashes = 1
INVARIANTS LeaseIsNewest FenceAhead OneWriterPerFence BudgetRespected ConfirmedWasWritten
PROPERTIES ReplacedNeverWrites
CHECK_DEADLOCK FALSE
