SPECIFICATION FairSpec
CONSTANTS
    t1 = t1  t2 = t2  t3 = t3  s1 = s1  s2 = s2  NONE = NONE
    Tasks = {t1, t2, t3}
    Sems = {s1, s2}
    Priority <- T3Highest
    SEM_VALUE_MAX = 2
    InitCount <- OneEach
    Waiters = {t1, t3}
    TimedWaiters = {t2, t3}
    Posters = {t1}
    IsrSems = {s1, s2}
    Signalable = {t1, t2}
    Deletable = {t2}
INVARIANTS
    CountsWaiters
    WaitList
PROPERTIES
    BestWaiterWoken
    TimedWaitEnds
CHECK_DEADLOCK FALSE
