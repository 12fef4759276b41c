------------------------------- MODULE Kernel ------------------------------
(***************************************************************************)
(* The scheduler's lists and the watchdog timers at work: tasks lock and   *)
(* unlock the scheduler, change priorities, wait with and without a        *)
(* timeout, set periodic timers, exit and are created, and the timer       *)
(* interrupt ends time slices and waits.  A task that waits does so in     *)
(* nxsem_wait or nxsem_tickwait, for a semaphore without a count.          *)
(***************************************************************************)
EXTENDS Sched, Wdog

CONSTANTS
    waitdog,          \* the watchdog in the TCB of a task
    Periodic,         \* watchdogs of POSIX timers
    Delays,           \* delays of timed waits and timers
    FirstPriority,    \* the priorities at the start
    MaxLock,          \* bound on nested calls of sched_lock
    MaxChanges,       \* bound on the calls of sched_setparam
    SharedTimers,     \* tasks may set and delete the timers of other tasks
    ExitWakes,        \* tasks may call _exit while another waits for that
    DeletePreempted   \* the timer interrupt may come inside nxtask_terminate

ASSUME KernelAssumption ==
    /\ waitdog \in [Tasks -> Wdogs] /\ Delays \subseteq 1..INT32_MAX
    /\ \A t, u \in Tasks : waitdog[t] = waitdog[u] => t = u
    /\ Periodic = Wdogs \ {waitdog[t] : t \in Tasks}
    /\ FirstPriority \in [Tasks -> Priorities]
    /\ MaxLock \in Nat /\ MaxChanges \in Nat
    /\ SharedTimers \in BOOLEAN
    /\ ExitWakes \in BOOLEAN /\ DeletePreempted \in BOOLEAN

VARIABLES
    wait,       \* the wait a task is in, until the call goes on
    pt_owner,   \* the task that created a timer, idle when there is none
    pt_delay,   \* the period of a timer
    setting,    \* what a task in timer_settime does next, and its timer
    victim,     \* the task that nxtask_terminate has taken from its list, or idle
    ticking,    \* the timer interrupt runs the watchdogs that have expired
    g_system_timer,   \* the system time, modulo 2
    changes     \* calls of sched_setparam so far

timerVars == <<pt_owner, pt_delay, setting>>
clockVars == <<ticking, g_system_timer>>
vars == <<schedVars, wdVars, wait, timerVars, victim, clockVars, changes>>

\* Every variable keeps its type, and every task is in one place.
TypeOK ==
    /\ SchedTypeOK /\ WdTypeOK
    /\ wait \in [Tasks -> {"no", "wait", "timed", "inactive"}]
    /\ pt_owner \in [Periodic -> Tasks \cup {idle}]
    /\ pt_delay \in [Periodic -> Delays \cup {0}]
    /\ setting \in [Tasks -> {<<>>} \cup ({"period", "start"} \X Periodic)]
    /\ victim \in Tasks \cup {idle}
    /\ ticking \in BOOLEAN /\ g_system_timer \in 0..1 /\ changes \in 0..MaxChanges

Init ==
    /\ g_readytorun = <<idle>> /\ g_pendingtasks = <<>>
    /\ sched_priority = [t \in Tasks \cup {idle} |->
                           IF t = idle THEN 0 ELSE FirstPriority[t]]
    /\ lockcount = [t \in Tasks \cup {idle} |-> 0] /\ timeslice = RR_INTERVAL
    /\ g_wdactivelist = <<>> /\ lag = [d \in Wdogs |-> 0]
    /\ wait = [t \in Tasks |-> "inactive"]
    /\ pt_owner = [d \in Periodic |-> idle] /\ pt_delay = [d \in Periodic |-> 0]
    /\ setting = [t \in Tasks |-> <<>>] /\ victim = idle
    /\ ticking = FALSE /\ g_system_timer = 0 /\ changes = 0

-----------------------------------------------------------------------------
\* The running task, when no interrupt, wait or task_delete has to end first.
Executes(t) == ~ticking /\ victim = idle /\ t = this_task /\ wait[t] = "no"

\* The running task, when it executes its own code.
Runs(t) == Executes(t) /\ setting[t] = <<>>

Blocked(t) == wait[t] \in {"wait", "timed"} /\ ~Ready(t)

\* A task that was unblocked is switched to with interrupts off, in nxsem_wait.
InterruptsOn ==
    /\ ~ticking /\ (victim = idle \/ DeletePreempted)
    /\ \A t \in Tasks : t = this_task => wait[t] = "no"

Lock(t) ==
    /\ Runs(t) /\ lockcount[t] < MaxLock
    /\ Becomes(sched_lock(S))
    /\ UNCHANGED <<wdVars, wait, timerVars, victim, clockVars, changes>>

Unlock(t) ==
    /\ Runs(t) /\ lockcount[t] > 0
    /\ Becomes(sched_unlock(S))
    /\ UNCHANGED <<wdVars, wait, timerVars, victim, clockVars, changes>>

sched_yield(t) ==
    /\ Runs(t)
    /\ Becomes(nxsched_set_priority(S, t, sched_priority[t]))
    /\ UNCHANGED <<wdVars, wait, timerVars, victim, clockVars, changes>>

SetPriority(t, u, p) ==
    /\ Runs(t) /\ wait[u] # "inactive" /\ changes < MaxChanges
    /\ changes' = changes + 1
    /\ Becomes(nxsched_set_priority(S, u, p))
    /\ UNCHANGED <<wdVars, wait, timerVars, victim, clockVars>>

\* nxsem_wait without a count.
Wait(t) ==
    /\ Runs(t)
    /\ wait' = [wait EXCEPT ![t] = "wait"]
    /\ Becomes(up_block_task(S, t))
    /\ UNCHANGED <<wdVars, timerVars, victim, clockVars, changes>>

\* Defect: the watchdog is not started.
TickwaitUntimed(t, delay) ==
    /\ Runs(t)
    /\ wait' = [wait EXCEPT ![t] = "timed"]
    /\ Becomes(up_block_task(S, t))
    /\ UNCHANGED <<wdVars, timerVars, victim, clockVars, changes>>

\* nxsem_tickwait without a count: the watchdog is started first.
nxsem_tickwait(t, delay) ==
    /\ Runs(t)
    /\ WdBecomes(wd_start(W, waitdog[t], delay))
    /\ wait' = [wait EXCEPT ![t] = "timed"]
    /\ Becomes(up_block_task(S, t))
    /\ UNCHANGED <<timerVars, victim, clockVars, changes>>

\* Defect: the watchdog goes on.
ReturnKeepsDog(t) ==
    /\ ~ticking /\ t = this_task /\ wait[t] \in {"wait", "timed"}
    /\ wait' = [wait EXCEPT ![t] = "no"]
    /\ UNCHANGED <<schedVars, wdVars, timerVars, victim, clockVars, changes>>

\* The wait returns in the task that waited, which stops its watchdog.
WaitReturns(t) ==
    /\ ~ticking /\ t = this_task /\ wait[t] \in {"wait", "timed"}
    /\ wait' = [wait EXCEPT ![t] = "no"]
    /\ IF wait[t] = "timed" THEN WdBecomes(wd_cancel(W, waitdog[t]))
       ELSE UNCHANGED wdVars
    /\ UNCHANGED <<schedVars, timerVars, victim, clockVars, changes>>

\* A post by the running task or by an interrupt handler.
Post(t) ==
    /\ InterruptsOn /\ Blocked(t) /\ t # victim
    /\ Becomes(up_unblock_task(S, t))
    /\ UNCHANGED <<wdVars, wait, timerVars, victim, clockVars, changes>>

-----------------------------------------------------------------------------
\* A timer is allocated.  The memset over a released timer whose watchdog was
\* started again, possible with SharedTimers, is beyond this model.
timer_create(t, d) ==
    /\ Runs(t) /\ pt_owner[d] = idle /\ ~WDOG_ISACTIVE(W, d)
    /\ pt_owner' = [pt_owner EXCEPT ![d] = t]
    /\ pt_delay' = [pt_delay EXCEPT ![d] = 0]
    /\ UNCHANGED <<schedVars, wdVars, wait, setting, victim, clockVars, changes>>

\* "The pre-thread timer, previously created by the call to timer_create()".
MayUse(t, d) == pt_owner[d] # idle /\ (SharedTimers \/ pt_owner[d] = t)

\* timer_settime with no time: the timer stops.
Disarm(t, d) ==
    /\ Runs(t) /\ MayUse(t, d)
    /\ WdBecomes(wd_cancel(W, d))
    /\ UNCHANGED <<schedVars, wait, timerVars, victim, clockVars, changes>>

\* timer_settime with a time: the timer stops first.  Interrupts are on from
\* here to the critical section in which it starts again.
timer_settime(t, d) ==
    /\ Runs(t) /\ MayUse(t, d)
    /\ WdBecomes(wd_cancel(W, d))
    /\ setting' = [setting EXCEPT ![t] = <<"period", d>>]
    /\ UNCHANGED <<schedVars, wait, pt_owner, pt_delay, victim, clockVars, changes>>

\* The period is stored, in whatever has become of the timer.
StorePeriod(t, d, period) ==
    /\ Executes(t) /\ setting[t] = <<"period", d>>
    /\ pt_delay' = [pt_delay EXCEPT ![d] = period]
    /\ setting' = [setting EXCEPT ![t] = <<"start", d>>]
    /\ UNCHANGED <<schedVars, wdVars, wait, pt_owner, victim, clockVars, changes>>

\* The watchdog starts, with the time that is left: 0 when it has passed, and
\* then with the period.
StartTimer(t, d, delay) ==
    LET first == IF delay > 0 THEN delay ELSE pt_delay[d]
    IN  /\ Executes(t) /\ setting[t] = <<"start", d>>
        /\ IF first > 0 THEN WdBecomes(wd_start(W, d, first)) ELSE UNCHANGED wdVars
        /\ setting' = [setting EXCEPT ![t] = <<>>]
        /\ UNCHANGED <<schedVars, wait, pt_owner, pt_delay, victim, clockVars, changes>>

\* timer_delete of the timers of a set, one by one.
timer_release(w, timers) ==
    /\ WdBecomes(CancelLoop(w, SetToSeq(timers))[Cardinality(timers)])
    /\ pt_owner' = [d \in Periodic |-> IF d \in timers THEN idle ELSE pt_owner[d]]
    /\ pt_delay' = [d \in Periodic |-> IF d \in timers THEN 0 ELSE pt_delay[d]]

timer_delete(t, d) ==
    /\ Runs(t) /\ MayUse(t, d)
    /\ timer_release(W, {d})
    /\ UNCHANGED <<schedVars, wait, setting, victim, clockVars, changes>>

-----------------------------------------------------------------------------
Create(t) ==
    /\ InterruptsOn /\ victim = idle /\ wait[t] = "inactive"
    /\ wait' = [wait EXCEPT ![t] = "no"]
    /\ Becomes(nxtask_activate(S, t))
    /\ UNCHANGED <<wdVars, timerVars, victim, clockVars, changes>>

\* Defect: the timers of a task outlive it.
KeepTimers(t) ==
    /\ wait' = [wait EXCEPT ![t] = "inactive"]
    /\ WdBecomes(wd_cancel(W, waitdog[t])) /\ UNCHANGED timerVars

\* The end of nxtask_terminate: nxtask_recover stops the watchdog of the task
\* and nxsched_release_tcb deletes the timers that it created.
Released(t) ==
    /\ wait' = [wait EXCEPT ![t] = "inactive"]
    /\ timer_release(wd_cancel(W, waitdog[t]), {d \in Periodic : pt_owner[d] = t})
    /\ setting' = [setting EXCEPT ![t] = <<>>]

\* The task that an exit may wake, idle when there is none.
Woken == {idle} \cup {u \in Tasks : ExitWakes /\ Blocked(u)}

Exit(t, woken) ==
    /\ Runs(t)
    /\ Becomes(nxtask_exit(S, woken))
    /\ Released(t)
    /\ UNCHANGED <<victim, clockVars, changes>>

\* task_delete of another task: nxtask_terminate takes it from its list in a
\* critical section, which it leaves before it goes on.
task_delete(t, u) ==
    /\ Runs(t) /\ u # t /\ wait[u] # "inactive"
    /\ victim' = u
    /\ Becomes([S EXCEPT !.ready = dq_rem(@, u), !.pending = dq_rem(@, u)])
    /\ UNCHANGED <<wdVars, wait, timerVars, clockVars, changes>>

Terminated(t) ==
    /\ ~ticking /\ t = this_task /\ wait[t] = "no" /\ victim # idle
    /\ Released(victim) /\ victim' = idle
    /\ UNCHANGED <<schedVars, clockVars, changes>>

-----------------------------------------------------------------------------
\* The timer interrupt: the time goes on by a tick.
clock_timer == InterruptsOn /\ g_system_timer' = (g_system_timer + 1) % 2

\* nxsched_process_timer, up to the watchdogs that have expired.
Tick ==
    /\ clock_timer
    /\ Becomes(nxsched_process_scheduler(S))
    /\ WdBecomes(Ticked(W))
    /\ ticking' = Expired(Ticked(W))
    /\ UNCHANGED <<wait, timerVars, victim, changes>>

\* wd_expiration runs one watchdog: nxsem_timeout, which looks at the state of
\* the task, or timer_timeout, which starts a periodic timer again.
Expire ==
    /\ ticking
    /\ LET d == Head(g_wdactivelist)
           late == {t \in Tasks : waitdog[t] = d /\ Blocked(t)}
           w == IF d \in Periodic /\ pt_delay[d] > 0
                THEN wd_start(Removed(W), d, pt_delay[d]) ELSE Removed(W)
       IN  /\ WdBecomes(w)
           /\ ticking' = Expired(w)
           /\ \/ late = {} /\ UNCHANGED schedVars
              \/ \E t \in late : Becomes(up_unblock_task(S, t))
    /\ UNCHANGED <<wait, timerVars, victim, g_system_timer, changes>>

-----------------------------------------------------------------------------
\* timer_settime goes on.
SettimeStep(t) ==
    \E d \in Periodic, ticks \in Delays \cup {0} :
      StorePeriod(t, d, ticks) \/ StartTimer(t, d, ticks)

TaskStep(t) ==
    \/ Lock(t) \/ Unlock(t) \/ sched_yield(t) \/ Wait(t) \/ WaitReturns(t)
    \/ \E u \in Tasks, p \in Priorities : SetPriority(t, u, p)
    \/ \E delay \in Delays : nxsem_tickwait(t, delay)
    \/ \E d \in Periodic : timer_create(t, d) \/ Disarm(t, d) \/ timer_delete(t, d)
    \/ \E d \in Periodic : timer_settime(t, d)
    \/ SettimeStep(t)
    \/ \E woken \in Woken : Exit(t, woken)
    \/ \E u \in Tasks : task_delete(t, u)
    \/ Terminated(t)

Next == \/ \E t \in Tasks : TaskStep(t) \/ Post(t) \/ Create(t)
        \/ Tick \/ Expire

Spec == Init /\ [][Next]_vars

Unlocked == lockcount[this_task] = 0

\* The running task gives a sched_lock back.
Unlocks ==
    \E t \in Tasks : Runs(t) /\ lockcount[t] > 0
                     /\ lockcount' = [lockcount EXCEPT ![t] = @ - 1]

\* The timer interrupts go on, also while the scheduler is not locked; the
\* interrupt handler ends; tasks that hold sched_lock do not all keep it;
\* waits and task_delete return, and so does timer_settime between interrupts.
Fairness ==
    /\ SF_g_system_timer(clock_timer) /\ SF_g_system_timer(clock_timer /\ Unlocked)
    /\ SF_lockcount(Unlocks)
    /\ WF_vars(Expire)
    /\ SF_vars(\E t \in Tasks : WaitReturns(t) \/ Terminated(t) \/ SettimeStep(t))
FairSpec == Spec /\ Fairness

-----------------------------------------------------------------------------
Sorted(list) ==
    \A i, j \in DOMAIN list : i < j => sched_priority[list[i]] >= sched_priority[list[j]]

\* Both lists are in the order of priority through every change of a priority,
\* no task is twice in them, the idle task is last, and every task that is
\* not waiting is in one of them.
ListsOrdered ==
    /\ Sorted(g_readytorun) /\ Sorted(g_pendingtasks)
    /\ IsInjective(g_readytorun \o g_pendingtasks)
    /\ Last(g_readytorun) = idle
    /\ \A t \in Tasks : wait[t] = "no" /\ t # victim => Ready(t)
    /\ \A t \in Tasks : wait[t] = "inactive" => ~Ready(t)

\* "The pending tasks will be made ready-to-run when preemption is unlocked":
\* no task is pending unless the running task holds sched_lock, and so the
\* running task has the highest priority of all ready tasks when it does not.
NotStranded ==
    /\ Unlocked => g_pendingtasks = <<>>
    /\ Unlocked => \A t \in Tasks : Ready(t) => sched_priority[t] <= sched_priority[this_task]

\* A task that holds sched_lock loses the processor only by its own act: no
\* interrupt and no task that is unblocked or created takes its place.
LockKeepsProcessor ==
    [][(Tick \/ Expire \/ \E t \in Tasks : Post(t) \/ Create(t)) /\ ~Unlocked
         => this_task' = this_task]_vars

\* The watchdog of a task is active only during its timed wait, so that no
\* timeout of an earlier wait ends a later one.
NoStrayTimeout == \A t \in Tasks : WDOG_ISACTIVE(W, waitdog[t]) => wait[t] = "timed"

\* A timer that can expire belongs to a task that lives: no timeout looks for
\* the TCB of a task that has ended.
TimersOwned ==
    \A d \in Periodic : WDOG_ISACTIVE(W, d) =>
      pt_owner[d] \in Tasks /\ wait[pt_owner[d]] # "inactive"

\* "At this point, the TCB should no longer be accessible to the system": a
\* task that nxtask_terminate has taken from its list does not become ready.
DeletedIsGone == victim # idle => ~Ready(victim)

\* The lags implement timers that expire at their tick, in order.
CD == INSTANCE Countdown
        WITH Timers <- Wdogs, MaxTicks <- INT32_MAX, queue <- g_wdactivelist,
             left <- [d \in Wdogs |-> wd_gettime(W, d)]
IsCountdown == CD!Spec

Outranked(t) ==
    \E u \in Tasks : u # t /\ Ready(u) /\ sched_priority[u] > sched_priority[t]

\* A ready task runs, or a task of higher priority is ready: tasks of one
\* priority take turns.
ReadyRuns ==
    \A t \in Tasks :
      Ready(t) ~> (this_task = t \/ ~Ready(t) \/ Outranked(t))

\* A timed wait ends, whatever the others do.
TimedWaitEnds == \A t \in Tasks : (wait[t] = "timed" /\ Blocked(t)) ~> ~Blocked(t)
=============================================================================
