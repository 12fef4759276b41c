----------------------------- MODULE Semaphore -----------------------------
(***************************************************************************)
(* The kernel's counting semaphores (sched/semaphore), without priority    *)
(* inheritance, which the board does not configure.  Every operation is    *)
(* one critical section, except nxsem_destroy, which has none; this module *)
(* gives its effect on the semaphores and on the waiting tasks, and leaves *)
(* to its users where a caller goes next.  SemaphoreUse drives the         *)
(* operations in every order; UsbCdc is the driver that uses two of them   *)
(* as locks.                                                               *)
(***************************************************************************)
EXTENDS PrioList

CONSTANTS
    Tasks,          \* the tasks that use semaphores
    NONE,           \* NULL
    Sems,           \* the semaphores
    Priority,       \* sched_priority of every task
    SEM_VALUE_MAX   \* the largest count of a semaphore

ASSUME SemTasks == IsFiniteSet(Tasks) /\ NONE \notin Sems
ASSUME SemPriorities == Priority \in [Tasks -> Nat]
ASSUME SemMaximum == SEM_VALUE_MAX \in Nat \ {0}

VARIABLES
    semcount,                      \* negative: that many tasks wait
    g_waitingforsemaphore,         \* the waiting tasks, by priority
    task_state, waitsem, errcode   \* fields of a task's TCB

semVars == <<semcount, g_waitingforsemaphore, task_state, waitsem, errcode>>

SemTypeOK ==
    /\ semcount \in [Sems -> Int]
    /\ g_waitingforsemaphore \in Seq(Tasks)
    /\ task_state \in [Tasks -> {"READY", "WAIT_SEM", "INVALID"}]
    /\ waitsem \in [Tasks -> Sems \cup {NONE}]
    /\ errcode \in [Tasks -> {"OK", "EINTR", "ETIMEDOUT"}]

\* nxsem_init of every semaphore, with these counts.
SemInit(counts) ==
    /\ semcount = counts
    /\ g_waitingforsemaphore = <<>>
    /\ task_state = [t \in Tasks |-> "READY"]
    /\ waitsem = [t \in Tasks |-> NONE]
    /\ errcode = [t \in Tasks |-> "OK"]

-----------------------------------------------------------------------------
\* Defect: tasks are queued first come, first served.
AddFifo(list, t) == Append(list, t)

\* Add a task to the wait list, behind the tasks of its priority.
nxsched_add_prioritized(list, t) ==
    InsertBefore(list, {i \in DOMAIN list : Priority[list[i]] < Priority[t]}, t)

\* What an operation on a semaphore changes, as a value.
SemState == [count |-> semcount, list |-> g_waitingforsemaphore,
             state |-> task_state, wait |-> waitsem]
SemBecomes(r) ==
    /\ semcount' = r.count /\ g_waitingforsemaphore' = r.list
    /\ task_state' = r.state /\ waitsem' = r.wait

SetCount(r, s, c) == [count |-> [r.count EXCEPT ![s] = c], list |-> r.list,
                      state |-> r.state, wait |-> r.wait]

\* Positions in the wait list of the tasks that wait for s.
WaitingIn(r, s) == {i \in DOMAIN r.list : r.wait[r.list[i]] = s}
WaitingFor(s) == WaitingIn(SemState, s)

Available(s) == semcount[s] > 0

\* nxsem_trywait, and the first half of nxsem_wait: take a count.
TakeCount(t, s) ==
    /\ Available(s)
    /\ semcount' = [semcount EXCEPT ![s] = @ - 1]
    /\ waitsem' = [waitsem EXCEPT ![t] = NONE]
    /\ UNCHANGED <<g_waitingforsemaphore, task_state, errcode>>

\* The second half of nxsem_wait, up to up_block_task.
BlockOn(t, s) ==
    /\ ~Available(s)
    /\ semcount' = [semcount EXCEPT ![s] = @ - 1]
    /\ waitsem' = [waitsem EXCEPT ![t] = s]
    /\ errcode' = [errcode EXCEPT ![t] = "OK"]
    /\ task_state' = [task_state EXCEPT ![t] = "WAIT_SEM"]
    /\ g_waitingforsemaphore' = nxsched_add_prioritized(g_waitingforsemaphore, t)

\* nxsem_post: add a count, and hand it to the first task that waits for s
\* when the sum is not positive.
Posted(r, s) ==
    LET w == WaitingIn(r, s)
        b == FirstOf(r.list, w)
    IN  IF r.count[s] >= SEM_VALUE_MAX THEN r
        ELSE IF r.count[s] + 1 <= 0 /\ w # {}
        THEN [count |-> [r.count EXCEPT ![s] = @ + 1],
              list |-> RemoveFirstOf(r.list, w),
              state |-> [r.state EXCEPT ![b] = "READY"],
              wait |-> [r.wait EXCEPT ![b] = NONE]]
        ELSE SetCount(r, s, r.count[s] + 1)
nxsem_post(s) == SemBecomes(Posted(SemState, s)) /\ UNCHANGED errcode

\* The loop of nxsem_reset: r after each of `posts` posts.
PostLoop(r, s, posts) ==
    LET after[n \in 0..posts] == IF n = 0 THEN r ELSE Posted(after[n - 1], s)
    IN  after

\* nxsem_reset: posts for the tasks that wait, as far as the new count goes;
\* the rest is the count when no task is left waiting.
nxsem_reset(s, count) ==
    LET posts == IF semcount[s] >= 0 THEN 0
                 ELSE IF count < -semcount[s] THEN count ELSE -semcount[s]
        r == PostLoop(SemState, s, posts)[posts]
    IN  /\ SemBecomes(IF r.count[s] >= 0 THEN SetCount(r, s, count - posts) ELSE r)
        /\ UNCHANGED errcode

\* nxsem_destroy leaves a semaphore alone for which a task waits; it tests
\* the count and stores it outside of any critical section.
MayDestroy(s) == semcount[s] >= 0
nxsem_destroy(s) ==
    /\ semcount' = [semcount EXCEPT ![s] = 1]
    /\ UNCHANGED <<g_waitingforsemaphore, task_state, waitsem, errcode>>

\* Defect: the count that the wait took is not given back.
WaitIrqKeepsCount(t, code) ==
    /\ task_state[t] = "WAIT_SEM"
    /\ waitsem' = [waitsem EXCEPT ![t] = NONE]
    /\ errcode' = [errcode EXCEPT ![t] = code]
    /\ task_state' = [task_state EXCEPT ![t] = "READY"]
    /\ g_waitingforsemaphore' = dq_rem(g_waitingforsemaphore, t)
    /\ UNCHANGED semcount

\* nxsem_wait_irq: a signal or a timeout ends the wait of a task.
nxsem_wait_irq(t, code) ==
    /\ task_state[t] = "WAIT_SEM"
    /\ semcount' = [semcount EXCEPT ![waitsem[t]] = @ + 1]
    /\ waitsem' = [waitsem EXCEPT ![t] = NONE]
    /\ errcode' = [errcode EXCEPT ![t] = code]
    /\ task_state' = [task_state EXCEPT ![t] = "READY"]
    /\ g_waitingforsemaphore' = dq_rem(g_waitingforsemaphore, t)
=============================================================================
