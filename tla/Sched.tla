------------------------------- MODULE Sched -------------------------------
(***************************************************************************)
(* The task lists of the scheduler (sched/sched, arch/arm/src/armv7-m) on  *)
(* one processor: the tasks that can run, by priority and the running one  *)
(* first; the tasks that became ready and may not run yet, because the     *)
(* running task holds sched_lock; and the time slice of the running task.  *)
(* task_state is which list holds the task.  Every operation is one        *)
(* critical section, given here by what it makes of the scheduler's state. *)
(***************************************************************************)
EXTENDS PrioList

CONSTANTS
    Tasks,          \* the tasks, but for the idle task
    idle,           \* the idle task, always ready
    Priorities,     \* priorities of the tasks
    RR_INTERVAL     \* ticks of a time slice

ASSUME SchedTasks == IsFiniteSet(Tasks) /\ idle \notin Tasks
ASSUME SchedPriorities == Priorities \subseteq Nat \ {0}
ASSUME SchedInterval == RR_INTERVAL \in Nat \ {0}

VARIABLES
    g_readytorun,     \* the running task and the others that can run
    g_pendingtasks,   \* the tasks that wait for sched_unlock
    sched_priority,   \* of a task
    lockcount,        \* how often a task has called sched_lock
    timeslice         \* of the running task: the others get a new one

schedVars == <<g_readytorun, g_pendingtasks, sched_priority, lockcount, timeslice>>

SchedTypeOK ==
    /\ g_readytorun \in Seq(Tasks \cup {idle}) /\ g_pendingtasks \in Seq(Tasks)
    /\ sched_priority \in [Tasks \cup {idle} -> Nat]
    /\ lockcount \in [Tasks \cup {idle} -> Nat]
    /\ timeslice \in 0..RR_INTERVAL

this_task == Head(g_readytorun)
InList(list, t) == PositionsOf(list, t) # {}
Ready(t) == InList(g_readytorun, t) \/ InList(g_pendingtasks, t)

\* The state of the scheduler, for the operators below, and its new value.
S == [ready |-> g_readytorun, pending |-> g_pendingtasks,
      priority |-> sched_priority, lock |-> lockcount, slice |-> timeslice]
Becomes(s) ==
    /\ g_readytorun' = s.ready /\ g_pendingtasks' = s.pending
    /\ sched_priority' = s.priority /\ lockcount' = s.lock /\ timeslice' = s.slice

-----------------------------------------------------------------------------
nxsched_add_prioritized(s, list, t) ==
    InsertBefore(list, {i \in DOMAIN list : s.priority[list[i]] < s.priority[t]}, t)

\* Defect: the lock is not looked at.
AddUnlocked(s, t) == [s EXCEPT !.ready = nxsched_add_prioritized(s, @, t)]

\* A task that would replace a running task that holds sched_lock is pending.
nxsched_add_readytorun(s, t) ==
    LET r == Head(s.ready)
    IN  IF s.lock[r] > 0 /\ s.priority[r] < s.priority[t]
        THEN [s EXCEPT !.pending = nxsched_add_prioritized(s, @, t)]
        ELSE [s EXCEPT !.ready = nxsched_add_prioritized(s, @, t)]

nxsched_remove_readytorun(s, t) == [s EXCEPT !.ready = dq_rem(@, t)]

\* nxsched_merge_pending, which is called when a task is pending.  The pending
\* tasks are in order, so that the one search that goes on from task to task
\* inserts each where a search of its own would.
MergeLoop(s) ==
    LET after[n \in 0..Len(s.pending)] ==
          IF n = 0 THEN s.ready
          ELSE nxsched_add_prioritized(s, after[n - 1], s.pending[n])
    IN  after
nxsched_merge_pending(s) ==
    IF s.pending = <<>> THEN s
    ELSE [s EXCEPT !.pending = <<>>, !.ready = MergeLoop(s)[Len(s.pending)]]

\* nxsched_resume_scheduler, when the context switches: a new time slice.
Resumed(old, s) ==
    IF Head(s.ready) = Head(old.ready) THEN s ELSE [s EXCEPT !.slice = RR_INTERVAL]

-----------------------------------------------------------------------------
\* Defect: pending tasks stay pending when the running task waits.
BlockOnly(s, t) == Resumed(s, nxsched_remove_readytorun(s, t))

\* up_block_task, for the running task; also nxtask_exit up to the new head.
up_block_task(s, t) ==
    Resumed(s, nxsched_merge_pending(nxsched_remove_readytorun(s, t)))

up_unblock_task(s, t) == Resumed(s, nxsched_add_readytorun(s, t))

\* Pending tasks are merged when the head of the list changes.
up_reprioritize_rtr(s, t, p) ==
    LET r == nxsched_add_readytorun([nxsched_remove_readytorun(s, t)
                                       EXCEPT !.priority[t] = p], t)
    IN  IF Head(r.ready) = Head(s.ready) THEN r
        ELSE Resumed(s, nxsched_merge_pending(r))

\* Defect: the task stays where it is in its list.
ChangeOnly(s, t, p) == [s EXCEPT !.priority[t] = p]

\* nxsched_set_priority of the running task, of one that is ready, of one
\* that is pending, and of one that waits.
nxsched_set_priority(s, t, p) ==
    LET r == Head(s.ready)
        next == s.ready[2]
        changed == [s EXCEPT !.priority[t] = p]
    IN  CASE t = r ->
               IF p <= s.priority[next] THEN up_reprioritize_rtr(s, t, p) ELSE changed
          [] t # r /\ InList(s.ready, t) ->
               IF p > s.priority[r] THEN up_reprioritize_rtr(s, t, p)
               ELSE nxsched_add_readytorun(nxsched_remove_readytorun(changed, t), t)
          [] InList(s.pending, t) ->
               [changed EXCEPT !.pending =
                  nxsched_add_prioritized(changed, dq_rem(@, t), t)]
          [] OTHER -> changed

sched_lock(s) == [s EXCEPT !.lock[Head(s.ready)] = @ + 1]

\* The last sched_unlock releases the pending tasks.  The caller's time slice
\* would be renewed if it were no longer the running task, which cannot be:
\* it runs on in this call only when it is the running task again.
sched_unlock(s) ==
    LET r == Head(s.ready)
        u == [s EXCEPT !.lock[r] = IF @ > 0 THEN @ - 1 ELSE 0]
    IN  IF u.lock[r] = 0
        THEN Resumed(s, nxsched_merge_pending(u)) ELSE u

\* Defect: the time slice ends and the task stays in front.
KeepRunning(s) == [s EXCEPT !.slice = IF @ > 1 THEN @ - 1 ELSE RR_INTERVAL]

\* nxsched_process_roundrobin, at a tick: when the slice of the running task
\* has ended it goes behind the tasks of its priority, unless it holds
\* sched_lock.  The idle task is not a round-robin task.
nxsched_process_scheduler(s) ==
    LET r == Head(s.ready)
        left == IF s.slice > 0 THEN s.slice - 1 ELSE 0
    IN  IF r = idle THEN s
        ELSE IF left > 0 \/ s.lock[r] > 0 THEN [s EXCEPT !.slice = left]
        ELSE LET n == [s EXCEPT !.slice = RR_INTERVAL]
             IN  IF s.priority[s.ready[2]] >= s.priority[r]
                 THEN up_reprioritize_rtr(n, r, s.priority[r]) ELSE n

\* Task t is created: nxtask_activate.  Its TCB starts without locks.
nxtask_activate(s, t) == up_unblock_task([s EXCEPT !.lock[t] = 0], t)

\* nxtask_exit of the running task.  Task `woken`, unless it is idle, is unblocked
\* by the exit hooks while the lock count of the next task is raised, and it
\* is lowered without a look at the pending tasks.
nxtask_exit(s, woken) ==
    LET b == up_block_task(s, Head(s.ready))
        locked == [b EXCEPT !.lock[Head(b.ready)] = @ + 1]
        w == IF woken = idle THEN locked ELSE nxsched_add_readytorun(locked, woken)
    IN  [w EXCEPT !.lock[Head(b.ready)] = @ - 1]
=============================================================================
