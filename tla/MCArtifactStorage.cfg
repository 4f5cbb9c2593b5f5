\* Two objects, two contents, two policies, two keys, three uploads, two
\* decisions, two failures and two restarts; the system stops when the bounds
\* are used up.
SPECIFICATION Spec
CONSTANTS
    o1 = o1
    o2 = o2
    c1 = c1
    c2 = c2
    p1 = p1
    p2 = p2
    k1 = k1
    k2 = k2
    None = None
    Object <- MCObject
    Content <- MCContent
    Policy <- MCPolicy
    Key <- MCKey
    MaxUploads = 3
    MaxIssues = 2
    MaxFaults = 2
    MaxCrashes = 2
SYMMETRY Symmetry
CHECK_DEADLOCK FALSE
INVARIANTS EffectOnce TombstonesAccounted JournalIsCurrent LocalAnswersHold
