\* Three processes, two inode numbers, two versions, one change of the
\* profile, one death and two failures; the system stops when every process
\* has run.
SPECIFICATION Spec
CONSTANTS
    a = a
    b = b
    c = c
    i1 = i1
    i2 = i2
    v1 = v1
    v2 = v2
    None = None
    Proc <- MCProc
    Inode <- MCInode
    Version <- MCVersion
    MaxEdits = 1
    MaxDeaths = 1
    MaxFaults = 2
SYMMETRY Symmetry
CHECK_DEADLOCK FALSE
INVARIANTS LockExcludes
PROPERTIES OwnProfileDeleted UpdateIsBackedUp
