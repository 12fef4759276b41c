SPECIFICATION FairSpec
CONSTANTS
    t1 = t1  t2 = t2  t3 = t3  q1 = q1  q2 = q2  ISR = ISR  NONE = NONE
    Tasks = {t1, t2}
    Queues = {q1}
    Priority <- EqualPriority
    MsgPrios = {1}
    MQ_PRIO_MAX = 1
    maxmsgs <- OneSlot
    PREALLOC_MQ_MSGS = 1
    PREALLOC_MQ_IRQ_MSGS = 1
    Senders = {t1, t2}
    TimedSenders = {}
    Receivers = {t1, t2}
    TimedReceivers = {t2}
    Notifiers = {t2}
    IsrQueues = {q1}
    Signalable = {}
    Deletable = {}
    HeapMayFail = FALSE
    HeapWaits = TRUE
    MaxSends = 3
INVARIANTS
    NoFault
    NotifiedOnce
    NoLostWakeup
PROPERTIES
    WaitersServed
CHECK_DEADLOCK FALSE
