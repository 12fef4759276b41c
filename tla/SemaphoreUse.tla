---------------------------- MODULE SemaphoreUse ----------------------------
(***************************************************************************)
(* Tasks and interrupt handlers that use semaphores in any order: wait,    *)
(* wait with a timeout, try, post, reset, destroy; with signals, timeouts  *)
(* and the deletion of a task that waits.                                  *)
(***************************************************************************)
EXTENDS Semaphore

CONSTANTS
    InitCount,              \* the count nxsem_init gives each semaphore
    Waiters, TimedWaiters,  \* tasks that wait, without or with a timeout
    Posters,                \* tasks that post
    IsrSems,                \* semaphores an interrupt handler posts
    Signalable,             \* tasks that get unmasked signals
    Deletable               \* tasks another task may delete

ASSUME SemUsers ==
    /\ InitCount \in [Sems -> 0..SEM_VALUE_MAX]
    /\ Waiters \subseteq Tasks /\ TimedWaiters \subseteq Tasks
    /\ Posters \subseteq Tasks /\ IsrSems \subseteq Sems
    /\ Signalable \subseteq Tasks /\ Deletable \subseteq Tasks

VARIABLES
    pc,        \* where a task is: "out" of a call, in a "wait", in the
               \* middle of a "destroy", or deleted
    doomed,    \* the semaphore that a task is about to destroy
    destroyedInUse, \* semaphores that were destroyed while tasks waited
    waitdog,   \* the timeout of a wait runs
    ret,       \* what the last call to return returned
    fault      \* a TCB was used that is in no list any more

destroyVars == <<doomed, destroyedInUse>>
vars == <<semVars, pc, destroyVars, waitdog, ret, fault>>

Codes == {"OK", "EINTR", "ETIMEDOUT", "EAGAIN", "EINVAL"}

\* Every variable keeps its type.
TypeOK ==
    /\ SemTypeOK
    /\ pc \in [Tasks -> {"out", "wait", "destroy", "removed", "dead"}]
    /\ doomed \in [Tasks -> Sems \cup {NONE}] /\ destroyedInUse \subseteq Sems
    /\ \A t \in Tasks : pc[t] = "destroy" => doomed[t] \in Sems
    /\ waitdog \in [Tasks -> BOOLEAN]
    /\ ret \in Codes
    /\ fault \in BOOLEAN

Init ==
    /\ SemInit(InitCount)
    /\ pc = [t \in Tasks |-> "out"]
    /\ doomed = [t \in Tasks |-> NONE]
    /\ destroyedInUse = {}
    /\ waitdog = [t \in Tasks |-> FALSE]
    /\ ret = "OK"
    /\ fault = FALSE

CanCall(t) == ~fault /\ pc[t] = "out"
Return(code) == ret' = code

\* nxsem_wait and sem_wait.
SemWait(t, s) ==
    /\ CanCall(t) /\ t \in Waiters
    /\ \/ /\ TakeCount(t, s) /\ Return("OK")
          /\ UNCHANGED pc
       \/ /\ BlockOn(t, s)
          /\ pc' = [pc EXCEPT ![t] = "wait"]
          /\ UNCHANGED ret
    /\ UNCHANGED <<waitdog, fault, destroyVars>>

\* nxsem_tickwait and nxsem_clockwait: `time` is what the code finds out
\* about the time limit when there is no count to take.
SemTimedWait(t, s, time) ==
    /\ CanCall(t) /\ t \in TimedWaiters
    /\ \/ /\ TakeCount(t, s) /\ Return("OK")
          /\ UNCHANGED <<pc, waitdog>>
       \/ /\ ~Available(s) /\ time # "OK"
          /\ Return(time)
          /\ UNCHANGED <<semVars, pc, waitdog>>
       \/ /\ time = "OK" /\ BlockOn(t, s)
          /\ waitdog' = [waitdog EXCEPT ![t] = TRUE]
          /\ pc' = [pc EXCEPT ![t] = "wait"]
          /\ UNCHANGED ret
    /\ UNCHANGED <<fault, destroyVars>>

\* nxsem_trywait.
SemTryWait(t, s) ==
    /\ CanCall(t) /\ t \in Waiters
    /\ \/ TakeCount(t, s) /\ Return("OK")
       \/ ~Available(s) /\ Return("EAGAIN") /\ UNCHANGED semVars
    /\ UNCHANGED <<pc, waitdog, fault, destroyVars>>

\* The task runs again after up_block_task and returns from the wait.
ResumeWait(t) ==
    /\ ~fault /\ pc[t] = "wait" /\ task_state[t] = "READY"
    /\ Return(errcode[t])
    /\ waitdog' = [waitdog EXCEPT ![t] = FALSE]
    /\ pc' = [pc EXCEPT ![t] = "out"]
    /\ UNCHANGED <<semVars, fault, destroyVars>>

\* sem_post by a task, and by an interrupt handler.
SemPost(t, s) ==
    /\ CanCall(t) /\ t \in Posters
    /\ nxsem_post(s)
    /\ UNCHANGED <<pc, waitdog, ret, fault, destroyVars>>
IsrPost(s) ==
    /\ ~fault /\ s \in IsrSems
    /\ nxsem_post(s)
    /\ UNCHANGED <<pc, waitdog, ret, fault, destroyVars>>

\* nxsem_reset by a task.
SemReset(t, s, count) ==
    /\ CanCall(t) /\ t \in Posters
    /\ nxsem_reset(s, count)
    /\ UNCHANGED <<pc, waitdog, ret, fault, destroyVars>>

\* sem_destroy by a task: the test of the count ...
SemDestroy(t, s) ==
    /\ CanCall(t) /\ t \in Posters
    /\ \/ /\ MayDestroy(s)
          /\ pc' = [pc EXCEPT ![t] = "destroy"]
          /\ doomed' = [doomed EXCEPT ![t] = s]
          /\ UNCHANGED ret
       \/ /\ ~MayDestroy(s)
          /\ Return("OK")
          /\ UNCHANGED <<pc, doomed>>
    /\ UNCHANGED <<semVars, destroyedInUse, waitdog, fault>>

\* ... and the store, with whatever came in between.  That a task waits by
\* now is noted: "the behavior is undefined".
SemDestroyStore(t) ==
    LET s == doomed[t] IN
    /\ ~fault /\ pc[t] = "destroy"
    /\ nxsem_destroy(s)
    /\ destroyedInUse' = IF semcount[s] < 0 THEN destroyedInUse \cup {s}
                         ELSE destroyedInUse
    /\ Return("OK")
    /\ pc' = [pc EXCEPT ![t] = "out"]
    /\ doomed' = [doomed EXCEPT ![t] = NONE]
    /\ UNCHANGED <<waitdog, fault>>

\* Defect: the timeout is served only before the task blocks.
TimeoutIgnoresWaiter(t) ==
    /\ ~fault /\ waitdog[t]
    /\ waitdog' = [waitdog EXCEPT ![t] = FALSE]
    /\ UNCHANGED <<semVars, pc, ret, fault, destroyVars>>

\* nxsem_timeout: the watchdog expires.
nxsem_timeout(t) ==
    /\ ~fault /\ waitdog[t]
    /\ waitdog' = [waitdog EXCEPT ![t] = FALSE]
    /\ \/ /\ nxsem_wait_irq(t, "ETIMEDOUT")
          /\ fault' = (pc[t] = "removed")
       \/ /\ task_state[t] # "WAIT_SEM"
          /\ UNCHANGED <<semVars, fault>>
    /\ UNCHANGED <<pc, ret, destroyVars>>

\* nxsig_tcbdispatch: an unmasked signal reaches a task that waits.
SignalTask(t) ==
    /\ ~fault /\ t \in Signalable
    /\ nxsem_wait_irq(t, "EINTR")
    /\ fault' = (pc[t] = "removed")
    /\ UNCHANGED <<pc, waitdog, ret, destroyVars>>

\* Defect: only a task that is ready is taken out of its list.
TerminateLeavesWaiter(t) ==
    /\ ~fault /\ t \in Deletable /\ pc[t] \in {"out", "wait", "destroy"}
    /\ pc' = [pc EXCEPT ![t] = "removed"]
    /\ UNCHANGED <<semVars, waitdog, ret, fault, destroyVars>>

\* nxtask_terminate, first half: the TCB leaves its task list.
TaskTerminate(t) ==
    /\ ~fault /\ t \in Deletable /\ pc[t] \in {"out", "wait", "destroy"}
    /\ g_waitingforsemaphore' = dq_rem(g_waitingforsemaphore, t)
    /\ pc' = [pc EXCEPT ![t] = "removed"]
    /\ UNCHANGED <<semcount, task_state, waitsem, errcode, waitdog, ret, fault,
                   destroyVars>>

\* Second half: wd_recover and nxsem_recover, then the TCB is released.
TaskRecover(t) ==
    /\ ~fault /\ pc[t] = "removed"
    /\ waitdog' = [waitdog EXCEPT ![t] = FALSE]
    /\ semcount' = IF task_state[t] = "WAIT_SEM"
                   THEN [semcount EXCEPT ![waitsem[t]] = @ + 1]
                   ELSE semcount
    /\ waitsem' = [waitsem EXCEPT ![t] = NONE]
    /\ task_state' = [task_state EXCEPT ![t] = "INVALID"]
    /\ pc' = [pc EXCEPT ![t] = "dead"]
    /\ UNCHANGED <<g_waitingforsemaphore, errcode, ret, fault, destroyVars>>

\* After a fault the system is down.
Halted == fault /\ UNCHANGED vars

Next ==
    \/ \E t \in Tasks :
         \/ \E s \in Sems :
              \/ SemWait(t, s) \/ SemTryWait(t, s) \/ SemPost(t, s)
              \/ SemDestroy(t, s)
              \/ \E count \in 0..SEM_VALUE_MAX : SemReset(t, s, count)
              \/ \E time \in {"OK", "EAGAIN", "ETIMEDOUT", "EINVAL"} :
                   SemTimedWait(t, s, time)
         \/ SemDestroyStore(t) \/ ResumeWait(t) \/ nxsem_timeout(t)
         \/ SignalTask(t) \/ TaskTerminate(t) \/ TaskRecover(t)
    \/ \E s \in IsrSems : IsrPost(s)
    \/ Halted

Spec == Init /\ [][Next]_vars

\* A watchdog that was started expires unless it is cancelled.
Fairness == \A t \in Tasks : WF_vars(nxsem_timeout(t))
FairSpec == Spec /\ Fairness

-----------------------------------------------------------------------------
\* Tasks that wait for s and can be unblocked, by their state.
Waits(s) == {t \in Tasks : task_state[t] = "WAIT_SEM" /\ waitsem[t] = s}

\* A negative count is the number of tasks that wait: however waits, posts,
\* resets, timeouts and signals meet, no count is lost and none is given twice,
\* so no task waits while a count is there to take, and no count passes
\* SEM_VALUE_MAX.  With a deletion under way, in its two steps and with the
\* wake-ups that race it, or after a destruction that a wait overtook between
\* its test and its store, a missing count is still always a task that waits or
\* that waited and is being deleted.  (Destroying drops the counts it finds.)
CountsWaiters ==
    \A s \in Sems :
      /\ semcount[s] + Cardinality(Waits(s)) >= 0
      /\ /\ s \notin destroyedInUse
         /\ \A t \in Tasks : pc[t] \notin {"removed", "dead"}
         =>
           /\ Cardinality(Waits(s)) = IF semcount[s] < 0 THEN -semcount[s] ELSE 0
           /\ semcount[s] <= SEM_VALUE_MAX

\* The wait list holds the tasks that wait, once each, by priority, and a
\* task waits only inside a call.
WaitList ==
    /\ \A t \in Tasks :
         /\ (\E i \in DOMAIN g_waitingforsemaphore : g_waitingforsemaphore[i] = t)
              <=> task_state[t] = "WAIT_SEM" /\ pc[t] # "removed"
         /\ task_state[t] = "WAIT_SEM" => /\ pc[t] \in {"wait", "removed"}
                                          /\ waitsem[t] \in Sems
    /\ \A i, j \in DOMAIN g_waitingforsemaphore :
         i < j => /\ g_waitingforsemaphore[i] # g_waitingforsemaphore[j]
                  /\ Priority[g_waitingforsemaphore[i]]
                       >= Priority[g_waitingforsemaphore[j]]

\* A post, and a reset for several, unblocks waiters of the highest priority:
\* none that stays blocked has a higher one.
BestWaiterWoken ==
    [][\A t, u \in Tasks :
         /\ task_state[t] = "WAIT_SEM" /\ task_state'[t] = "READY"
         /\ errcode'[t] = "OK"
         /\ task_state[u] = "WAIT_SEM" /\ waitsem[u] = waitsem[t]
         /\ task_state'[u] = "WAIT_SEM" /\ pc[u] # "removed"
         => Priority[u] <= Priority[t]]_vars

\* A timed wait ends, by a post, a signal or its timeout: the task does not
\* stay blocked, whichever comes first.
TimedWaitEnds ==
    \A t \in Tasks :
      waitdog[t] /\ task_state[t] = "WAIT_SEM"
        ~> task_state[t] # "WAIT_SEM" \/ fault
=============================================================================
