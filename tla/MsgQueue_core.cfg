SPECIFICATION Spec
CONSTANTS
    t1 = t1  t2 = t2  t3 = t3  q1 = q1  q2 = q2  ISR = ISR  NONE = NONE
    Tasks = {t1, t2, t3}
    Queues = {q1}
    Priority <- T3Highest
    MsgPrios = {1, 2}
    MQ_PRIO_MAX = 2
    maxmsgs <- OneSlot
    PREALLOC_MQ_MSGS = 1
    PREALLOC_MQ_IRQ_MSGS = 1
    Senders = {t1}
    TimedSenders = {t3}
    Receivers = {t2, t3}
    TimedReceivers = {t2}
    Notifiers = {}
    IsrQueues = {q1}
    Signalable = {t1}
    Deletable = {t2}
    HeapMayFail = TRUE
    HeapWaits = TRUE
    MaxSends = 3
VIEW NoRet
INVARIANTS
    TypeOK
    CallsConsistent
    WaitCounts
    WaitLists
    PoolConservation
    TaskMessagesFit
    QueueOrder
PROPERTIES
    BestWaiterWoken
    IsPriorityChannel
CHECK_DEADLOCK FALSE
