\* The lock's own promise, on the same instance without failures.
SPECIFICATION Spec
CONSTANTS
    a = a
    b = b
    c = c
    i1 = i1
    i2 = i2
    v1 = v1
    v2 = v2
    None = None
    Proc <- MCProc
    Inode <- MCInode
    Version <- MCVersion
    MaxEdits = 1
    MaxDeaths = 1
    MaxFaults = 0
SYMMETRY Symmetry
CHECK_DEADLOCK FALSE
PROPERTIES LiveLockKept
