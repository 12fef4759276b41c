SPECIFICATION Spec
CONSTANTS
    t1 = t1  t2 = t2  t3 = t3  d1 = d1  d2 = d2  d3 = d3  p1 = p1  idle = idle
    Tasks = {t1, t2, t3}
    Priorities = {1, 2}
    RR_INTERVAL = 2
    Wdogs = {d1, d2, d3}
    INT32_MAX = 3
    waitdog <- Waitdogs
    Periodic = {}
    Delays = {1, 3}
    FirstPriority <- OneHigh
    MaxLock = 1
    MaxChanges = 1
    SharedTimers = FALSE
    ExitWakes = FALSE
    DeletePreempted = FALSE
INVARIANTS
    ListsOrdered
    NotStranded
    NoStrayTimeout
PROPERTIES
    LockKeepsProcessor
