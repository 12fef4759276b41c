SPECIFICATION FairSpec
CONSTANTS
    t1 = t1  t2 = t2  t3 = t3  d1 = d1  d2 = d2  d3 = d3  p1 = p1  idle = idle
    Tasks = {t1, t2}
    Priorities = {1, 2}
    RR_INTERVAL = 2
    Wdogs = {d1, d2, p1}
    INT32_MAX = 3
    waitdog <- TwoWaitdogs
    Periodic = {p1}
    Delays = {1, 3}
    FirstPriority <- SamePriority
    MaxLock = 1
    MaxChanges = 0
    SharedTimers = FALSE
    ExitWakes = FALSE
    DeletePreempted = FALSE
INVARIANTS
    TimersOwned
PROPERTIES
    IsCountdown
    ReadyRuns
    TimedWaitEnds
