SPECIFICATION Spec
CONSTANTS
    t1 = t1
    t2 = t2
    t3 = t3
    rd = rd
    wr = wr
    NONE = NONE
    Tasks = {t1, t2}
    Sems = {rd, wr}
    sRead = rd
    sWrite = wr
    Priority <- SamePriority
    SEM_VALUE_MAX = 10
    Readers = {}
    Writers = {t1}
    Direct = {}
    Signalable = {}
    Openers = {}
    TxSize = 1
    RxSize = 3
    Chunk = 2
    Packet = 1
    PoolSize = 2
    NFILES = 1
    TextLen = 3
    MaxBytes = 0
    MaxConnects = 2
    MaxPrints = 1
INVARIANTS
    PrintedInOrder
CHECK_DEADLOCK FALSE
