SPECIFICATION FairSpec
CONSTANTS
    t1 = t1
    t2 = t2
    t3 = t3
    NONE = NONE
    sem = sem
    i1 = i1
    i2 = i2
    n1 = n1
    Tasks = {t1, t2}
    Sems = {sem}
    inode_sem = sem
    Priority <- SamePriority
    SEM_VALUE_MAX = 3
    Names = {n1}
    Nodes = {i1, i2}
    NFILES = 1
    Openers = {t1, t2}
    Unlinkers = {t2}
    HandlerNames = {n1}
    HeapMayFail = TRUE
    HeapWaits = {FALSE}
INVARIANTS
    TypeOK
    RefsCounted
    NoDangling
    NamesReach
PROPERTIES
    CallsReturn
CHECK_DEADLOCK FALSE
