SPECIFICATION FairSpec
CONSTANTS
    t1 = t1
    t2 = t2
    t3 = t3
    rd = rd
    wr = wr
    NONE = NONE
    Tasks = {t1, t2}
    Sems = {rd, wr}
    sRead = rd
    sWrite = wr
    Priority <- SamePriority
    SEM_VALUE_MAX = 10
    Readers = {t2}
    Writers = {t1, t2}
    Direct = {t2}
    Signalable = {}
    Openers = {t1}
    TxSize = 2
    RxSize = 3
    Chunk = 2
    Packet = 1
    PoolSize = 2
    NFILES = 1
    TextLen = 2
    MaxBytes = 1
    MaxConnects = 2
    MaxPrints = 1
INVARIANTS
    LocksExclude
    WritesNotMixed
    PrintedCounted
PROPERTIES
    PrintEnds
CHECK_DEADLOCK FALSE
