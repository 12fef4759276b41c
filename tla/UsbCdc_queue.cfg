SPECIFICATION Spec
CONSTANTS
    t1 = t1
    t2 = t2
    t3 = t3
    rd = rd
    wr = wr
    NONE = NONE
    Tasks = {t1, t2}
    Sems = {rd, wr}
    sRead = rd
    sWrite = wr
    Priority <- SamePriority
    SEM_VALUE_MAX = 2
    Readers = {t1, t2}
    Writers = {}
    Direct = {}
    Signalable = {t2}
    Openers = {t1}
    TxSize = 2
    RxSize = 3
    Chunk = 2
    Packet = 3
    PoolSize = 2
    NFILES = 1
    TextLen = 2
    MaxBytes = 4
    MaxConnects = 2
    MaxPrints = 1
INVARIANTS
    MessagesAccounted
    ReadInOrder
PROPERTIES
    NoByteLost
CHECK_DEADLOCK FALSE
