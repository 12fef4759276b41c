SPECIFICATION Spec
CONSTANTS
    t1 = t1  t2 = t2  t3 = t3  q1 = q1  q2 = q2  ISR = ISR  NONE = NONE
    Tasks = {t1,t2}
    Queues = {q1}
    Priority <- EqualPriority
    MsgPrios = {1}
    MQ_PRIO_MAX = 1
    maxmsgs <- OneSlot
    PREALLOC_MQ_MSGS = 1
    PREALLOC_MQ_IRQ_MSGS = 1
    Senders = {}
    TimedSenders = {t1}
    Receivers = {t2}
    TimedReceivers = {}
    Notifiers = {}
    IsrQueues = {}
    Signalable = {}
    Deletable = {}
    HeapMayFail = FALSE
    HeapWaits = FALSE
    MaxSends = 3
INVARIANTS
    NoFault
CHECK_DEADLOCK FALSE
