------------------------------ MODULE MsgQueue ------------------------------
(***************************************************************************)
(* POSIX message queues of the kernel (sched/mqueue): mq_send, mq_receive, *)
(* their timed forms and mq_notify, with the message pools, the two wait   *)
(* lists, the watchdog timeouts, the wake-up by a signal and the deletion  *)
(* of a task that is inside a call.                                        *)
(*                                                                         *)
(* The board has one core.  A step below is one critical section, or one   *)
(* piece of code between two of them; between two steps an interrupt may   *)
(* come.  Another task runs between two steps only when the running task   *)
(* does not hold sched_lock(), or when it blocks: `locked` is the running  *)
(* task while its lockcount is positive.  An interrupt handler runs to its *)
(* end before any task; it is the context ISR, and up_interrupt_context()  *)
(* is x = ISR.                                                             *)
(***************************************************************************)
EXTENDS PrioList

CONSTANTS
    Tasks,                 \* the tasks that use message queues
    ISR,                   \* the interrupt handler
    NONE,                  \* NULL, and INVALID_PROCESS_ID
    Queues,                \* the message queues, all open
    Priority,              \* sched_priority of every task
    MsgPrios,              \* message priorities offered to a send
    MQ_PRIO_MAX,           \* the largest legal message priority
    maxmsgs,               \* the mq_maxmsg attribute of every queue
    PREALLOC_MQ_MSGS,      \* messages initially in g_msgfree
    PREALLOC_MQ_IRQ_MSGS,  \* messages initially in g_msgfreeirq
    Senders, TimedSenders, Receivers, TimedReceivers, Notifiers,
                           \* which tasks make which calls
    IsrQueues,             \* queues an interrupt handler sends to
    Signalable,            \* tasks that get unmasked signals
    Deletable,             \* tasks another task may delete
    HeapMayFail,           \* whether kmm_malloc may return NULL
    HeapWaits,             \* whether another task may be inside the heap
    MaxSends               \* bound: messages ever put in a queue

ASSUME CallersAreTasks ==
    /\ Senders \subseteq Tasks /\ TimedSenders \subseteq Tasks
    /\ Receivers \subseteq Tasks /\ TimedReceivers \subseteq Tasks
    /\ Notifiers \subseteq Tasks
    /\ Signalable \subseteq Tasks /\ Deletable \subseteq Tasks
    /\ IsrQueues \subseteq Queues
ASSUME ContextsDiffer ==
    /\ ISR \notin Tasks /\ NONE \notin Tasks /\ NONE # ISR /\ NONE \notin Queues
    /\ IsFiniteSet(Tasks)
ASSUME AttributesAreNumbers ==
    /\ Priority \in [Tasks -> Nat]
    /\ MsgPrios \subseteq Nat /\ MQ_PRIO_MAX \in Nat
    /\ maxmsgs \in [Queues -> Nat]
    /\ PREALLOC_MQ_MSGS \in Nat /\ PREALLOC_MQ_IRQ_MSGS \in Nat
    /\ HeapMayFail \in BOOLEAN /\ HeapWaits \in BOOLEAN /\ MaxSends \in Nat

VARIABLES
    msglist, nmsgs,          \* struct mqueue_inode_s
    nwaitnotempty, nwaitnotfull,
    ntpid,
    g_msgfree, g_msgfreeirq, \* how many messages each free list holds
    g_waitingformqnotempty, g_waitingformqnotfull,
    task_state, msgwaitq, errcode, waitdog,  \* fields of a task's TCB
    pc, frame, mqmsg,        \* where a context is in a call, its locals
    ret,                     \* what the last call to return returned
    locked,                  \* the running task, if it holds sched_lock()
    fault,                   \* a NULL or dangling TCB was dereferenced
    nsent                    \* messages put in a queue so far

queueVars == <<msglist, nmsgs>>
poolVars  == <<g_msgfree, g_msgfreeirq>>
waitVars  == <<nwaitnotempty, nwaitnotfull, g_waitingformqnotempty,
               g_waitingformqnotfull, task_state, msgwaitq>>
callVars  == <<pc, frame, mqmsg, ret>>
vars == <<queueVars, poolVars, waitVars, ntpid, errcode, waitdog, callVars,
          locked, fault, nsent>>

Contexts == Tasks \cup {ISR}
OFlags   == SUBSET {"O_RDOK", "O_WROK", "O_NONBLOCK"}
Codes    == {"OK", "EAGAIN", "EINTR", "ETIMEDOUT", "ENOMEM", "EINVAL",
             "EPERM", "EMSGSIZE", "EBUSY"}

(***************************************************************************)
(* A message: its priority, the pool it came from, who sent it (a task, a  *)
(* task that waited for the heap after its test for room, or an interrupt  *)
(* handler) and, once it is queued, its place in the order in which        *)
(* messages were queued.                                                   *)
(***************************************************************************)
Messages == [prio : MsgPrios, type : {"FIXED", "IRQ", "DYN"},
             src : {"task", "late", "isr"}, stamp : Nat]
ASSUME NullIsNoMessage == NONE \notin Messages

(***************************************************************************)
(* The local variables of a call: its queue, the priority of the message   *)
(* to send, whether it has an abstime, and the pid to notify.              *)
(***************************************************************************)
Frames == [q : Queues \cup {NONE}, prio : MsgPrios \cup {0}, timed : BOOLEAN,
           pid : Tasks \cup {NONE}]
NoFrame == [q |-> NONE, prio |-> 0, timed |-> FALSE, pid |-> NONE]

SendPcs == {"alloc", "heap", "tstart", "insert", "wait_send", "ntest", "ntake",
            "nsend", "wake"}
RecvPcs == {"wait_recv", "free", "hfree", "check", "wakenf"}
PcStates == SendPcs \cup RecvPcs \cup {"out", "removed", "dead"}

\* Where a task waits for the semaphore of the heap.
HeapPcs == {"heap", "hfree"}

\* Every variable keeps the type of its C declaration; the free lists are
\* never asked for a message they do not have.
TypeOK ==
    /\ msglist \in [Queues -> Seq(Messages)]
    /\ nmsgs \in [Queues -> Int]
    /\ nwaitnotempty \in [Queues -> Int]
    /\ nwaitnotfull \in [Queues -> Int]
    /\ ntpid \in [Queues -> Tasks \cup {NONE}]
    /\ g_msgfree \in Nat /\ g_msgfreeirq \in Nat
    /\ g_waitingformqnotempty \in Seq(Tasks)
    /\ g_waitingformqnotfull \in Seq(Tasks)
    /\ task_state \in [Tasks -> {"READY", "WAIT_MQNOTEMPTY",
                                 "WAIT_MQNOTFULL", "INVALID"}]
    /\ msgwaitq \in [Tasks -> Queues \cup {NONE}]
    /\ errcode \in [Tasks -> {"OK", "EINTR", "ETIMEDOUT"}]
    /\ waitdog \in [Tasks -> BOOLEAN]
    /\ pc \in [Contexts -> PcStates]
    /\ frame \in [Contexts -> Frames]
    /\ mqmsg \in [Contexts -> Messages \cup {NONE}]
    /\ ret \in Codes
    /\ locked \in Tasks \cup {NONE}
    /\ fault \in {"none", "nowaiter", "zombie"}
    /\ nsent \in Nat

Init ==
    /\ msglist = [q \in Queues |-> <<>>]
    /\ nmsgs = [q \in Queues |-> 0]
    /\ nwaitnotempty = [q \in Queues |-> 0]
    /\ nwaitnotfull = [q \in Queues |-> 0]
    /\ ntpid = [q \in Queues |-> NONE]
    /\ g_msgfree = PREALLOC_MQ_MSGS
    /\ g_msgfreeirq = PREALLOC_MQ_IRQ_MSGS
    /\ g_waitingformqnotempty = <<>>
    /\ g_waitingformqnotfull = <<>>
    /\ task_state = [t \in Tasks |-> "READY"]
    /\ msgwaitq = [t \in Tasks |-> NONE]
    /\ errcode = [t \in Tasks |-> "OK"]
    /\ waitdog = [t \in Tasks |-> FALSE]
    /\ pc = [x \in Contexts |-> "out"]
    /\ frame = [x \in Contexts |-> NoFrame]
    /\ mqmsg = [x \in Contexts |-> NONE]
    /\ ret = "OK"
    /\ locked = NONE
    /\ fault = "none"
    /\ nsent = 0

-----------------------------------------------------------------------------
(***************************************************************************)
(* Who may take a step.  No task runs while an interrupt handler does.     *)
(* The task that holds sched_lock() keeps the processor; otherwise a task  *)
(* runs if no task that is ready inside a call has a higher priority.      *)
(* Tasks of equal priority share the processor (SCHED_RR).                 *)
(***************************************************************************)
Running == fault = "none" /\ pc[ISR] = "out"
Ready(t) == task_state[t] = "READY" /\ pc[t] \notin {"removed", "dead"}
CanRun(t) ==
    /\ Running /\ Ready(t)
    /\ \/ locked = t
       \/ /\ locked = NONE
          /\ \A u \in Tasks :
               Ready(u) /\ pc[u] \notin {"out"} \cup HeapPcs
                 => Priority[u] <= Priority[t]
Steps(x) == IF x = ISR THEN fault = "none" ELSE CanRun(x)

\* Defect: pre-emption stays enabled.
NoLock(x) == UNCHANGED locked

\* sched_lock(): a no-op in an interrupt handler.
Lock(x) == locked' = IF x = ISR THEN locked ELSE x

Goto(x, l) == pc' = [pc EXCEPT ![x] = l]

\* The return of a call, with its last sched_unlock().
Return(x, code) ==
    /\ Goto(x, "out")
    /\ ret' = code
    /\ frame' = [frame EXCEPT ![x] = NoFrame]
    /\ mqmsg' = [mqmsg EXCEPT ![x] = NONE]
    /\ locked' = IF x = ISR THEN locked ELSE NONE

\* A new send is within the bound on messages.
MaySend ==
    nsent + Cardinality({x \in Contexts : pc[x] \in SendPcs}) < MaxSends

IsFull(q) == nmsgs[q] >= maxmsgs[q]

-----------------------------------------------------------------------------
(***************************************************************************)
(* Blocking and unblocking.                                                *)
(***************************************************************************)

\* Defect: tasks are queued first come, first served.
AddFifo(list, t) == Append(list, t)

\* Add a task to a wait list: nxsched_add_prioritized.
nxsched_add_prioritized(list, t) ==
    InsertBefore(list, {i \in DOMAIN list : Priority[list[i]] < Priority[t]}, t)

\* Positions in a wait list of the tasks that wait for queue q.
Waiting(list, q) == {i \in DOMAIN list : msgwaitq[list[i]] = q}

\* Defect: msgwaitq is not set before the task blocks.
BlockWithoutQueue(t, q) ==
    /\ nwaitnotfull' = [nwaitnotfull EXCEPT ![q] = @ + 1]
    /\ errcode' = [errcode EXCEPT ![t] = "OK"]
    /\ task_state' = [task_state EXCEPT ![t] = "WAIT_MQNOTFULL"]
    /\ g_waitingformqnotfull' =
         nxsched_add_prioritized(g_waitingformqnotfull, t)
    /\ locked' = NONE
    /\ UNCHANGED <<msgwaitq, nwaitnotempty, g_waitingformqnotempty>>

\* up_block_task(rtcb, TSTATE_WAIT_MQNOTFULL) in nxmq_wait_send.
BlockNotFull(t, q) ==
    /\ msgwaitq' = [msgwaitq EXCEPT ![t] = q]
    /\ nwaitnotfull' = [nwaitnotfull EXCEPT ![q] = @ + 1]
    /\ errcode' = [errcode EXCEPT ![t] = "OK"]
    /\ task_state' = [task_state EXCEPT ![t] = "WAIT_MQNOTFULL"]
    /\ g_waitingformqnotfull' =
         nxsched_add_prioritized(g_waitingformqnotfull, t)
    /\ locked' = NONE
    /\ UNCHANGED <<nwaitnotempty, g_waitingformqnotempty>>

\* up_block_task(rtcb, TSTATE_WAIT_MQNOTEMPTY) in nxmq_wait_receive.
BlockNotEmpty(t, q) ==
    /\ msgwaitq' = [msgwaitq EXCEPT ![t] = q]
    /\ nwaitnotempty' = [nwaitnotempty EXCEPT ![q] = @ + 1]
    /\ errcode' = [errcode EXCEPT ![t] = "OK"]
    /\ task_state' = [task_state EXCEPT ![t] = "WAIT_MQNOTEMPTY"]
    /\ g_waitingformqnotempty' =
         nxsched_add_prioritized(g_waitingformqnotempty, t)
    /\ locked' = NONE
    /\ UNCHANGED <<nwaitnotfull, g_waitingformqnotfull>>

\* Defect: a receiver is unblocked only when the queue was empty before.
WakeNotEmptyOnEdge(q) ==
    LET w == Waiting(g_waitingformqnotempty, q)
        b == FirstOf(g_waitingformqnotempty, w)
    IN  /\ IF nmsgs[q] = 1 /\ w # {}
           THEN /\ msgwaitq' = [msgwaitq EXCEPT ![b] = NONE]
                /\ nwaitnotempty' = [nwaitnotempty EXCEPT ![q] = @ - 1]
                /\ task_state' = [task_state EXCEPT ![b] = "READY"]
                /\ g_waitingformqnotempty' =
                     RemoveFirstOf(g_waitingformqnotempty, w)
           ELSE UNCHANGED <<msgwaitq, nwaitnotempty, task_state,
                            g_waitingformqnotempty>>
        /\ UNCHANGED <<fault, nwaitnotfull, g_waitingformqnotfull>>

\* The end of nxmq_do_send: unblock the first task in g_waitingformqnotempty
\* that waits for q.  With nobody in the list the code uses a NULL TCB.
WakeNotEmpty(q) ==
    LET w == Waiting(g_waitingformqnotempty, q)
        b == FirstOf(g_waitingformqnotempty, w)
    IN  /\ IF nwaitnotempty[q] > 0 /\ w # {}
           THEN /\ msgwaitq' = [msgwaitq EXCEPT ![b] = NONE]
                /\ nwaitnotempty' = [nwaitnotempty EXCEPT ![q] = @ - 1]
                /\ task_state' = [task_state EXCEPT ![b] = "READY"]
                /\ g_waitingformqnotempty' =
                     RemoveFirstOf(g_waitingformqnotempty, w)
           ELSE UNCHANGED <<msgwaitq, nwaitnotempty, task_state,
                            g_waitingformqnotempty>>
        /\ fault' = IF nwaitnotempty[q] > 0 /\ w = {} THEN "nowaiter" ELSE fault
        /\ UNCHANGED <<nwaitnotfull, g_waitingformqnotfull>>

\* The end of nxmq_do_receive, after nwaitnotfull > 0 was seen.
WakeNotFull(q) ==
    LET w == Waiting(g_waitingformqnotfull, q)
        b == FirstOf(g_waitingformqnotfull, w)
    IN  /\ IF w # {}
           THEN /\ msgwaitq' = [msgwaitq EXCEPT ![b] = NONE]
                /\ nwaitnotfull' = [nwaitnotfull EXCEPT ![q] = @ - 1]
                /\ task_state' = [task_state EXCEPT ![b] = "READY"]
                /\ g_waitingformqnotfull' =
                     RemoveFirstOf(g_waitingformqnotfull, w)
           ELSE UNCHANGED <<msgwaitq, nwaitnotfull, task_state,
                            g_waitingformqnotfull>>
        /\ fault' = IF w = {} THEN "nowaiter" ELSE fault
        /\ UNCHANGED <<nwaitnotempty, g_waitingformqnotempty>>

\* Defect: the counters of waiting tasks are not decremented.
WaitIrqNoCount(t, code) ==
    /\ msgwaitq' = [msgwaitq EXCEPT ![t] = NONE]
    /\ errcode' = [errcode EXCEPT ![t] = code]
    /\ task_state' = [task_state EXCEPT ![t] = "READY"]
    /\ g_waitingformqnotempty' = dq_rem(g_waitingformqnotempty, t)
    /\ g_waitingformqnotfull' = dq_rem(g_waitingformqnotfull, t)
    /\ UNCHANGED <<nwaitnotempty, nwaitnotfull, fault>>

\* Cancel the wait of a task with an error.  A task whose TCB is in no list
\* any more is unlinked a second time and put back in the ready list.
nxmq_wait_irq(t, code) ==
    LET q == msgwaitq[t] IN
    /\ msgwaitq' = [msgwaitq EXCEPT ![t] = NONE]
    /\ nwaitnotempty' = IF task_state[t] = "WAIT_MQNOTEMPTY"
                        THEN [nwaitnotempty EXCEPT ![q] = @ - 1]
                        ELSE nwaitnotempty
    /\ nwaitnotfull' = IF task_state[t] = "WAIT_MQNOTFULL"
                       THEN [nwaitnotfull EXCEPT ![q] = @ - 1]
                       ELSE nwaitnotfull
    /\ errcode' = [errcode EXCEPT ![t] = code]
    /\ task_state' = [task_state EXCEPT ![t] = "READY"]
    /\ g_waitingformqnotempty' = dq_rem(g_waitingformqnotempty, t)
    /\ g_waitingformqnotfull' = dq_rem(g_waitingformqnotfull, t)
    /\ fault' = IF pc[t] = "removed" THEN "zombie" ELSE fault

\* task_state is one of the two waits for a message queue.
InMqWait(t) == task_state[t] \in {"WAIT_MQNOTEMPTY", "WAIT_MQNOTFULL"}

-----------------------------------------------------------------------------
(***************************************************************************)
(* Messages.                                                               *)
(***************************************************************************)

\* Defect: the free list is not tested before it is used.
AllocUnchecked(x) == {"FIXED"}

\* What kmm_malloc may return.
kmm_malloc == {"DYN"} \cup (IF HeapMayFail THEN {"NULL"} ELSE {})

\* nxmq_alloc_msg: the pools a message may come from, "NULL" if none.  A task
\* that waited for the heap does not look at g_msgfree again.
nxmq_alloc_msg(x) ==
    IF g_msgfree > 0 /\ pc[x] # "heap" THEN {"FIXED"}
    ELSE IF x = ISR THEN {IF g_msgfreeirq > 0 THEN "IRQ" ELSE "NULL"}
    ELSE kmm_malloc

TakeFrom(type) ==
    /\ g_msgfree' = IF type = "FIXED" THEN g_msgfree - 1 ELSE g_msgfree
    /\ g_msgfreeirq' = IF type = "IRQ" THEN g_msgfreeirq - 1 ELSE g_msgfreeirq

\* Defect: interrupt messages are freed to the general list.
FreeToGeneral(m) ==
    /\ g_msgfree' = IF m.type # "DYN" THEN g_msgfree + 1 ELSE g_msgfree
    /\ UNCHANGED g_msgfreeirq

nxmq_free_msg(m) ==
    /\ g_msgfree' = IF m.type = "FIXED" THEN g_msgfree + 1 ELSE g_msgfree
    /\ g_msgfreeirq' = IF m.type = "IRQ" THEN g_msgfreeirq + 1 ELSE g_msgfreeirq

NewMessage(x, type, prio) ==
    [prio |-> prio, type |-> type, stamp |-> 0,
     src |-> IF x = ISR THEN "isr" ELSE IF pc[x] = "heap" THEN "late" ELSE "task"]

nxmq_verify_send(oflags, fits, prio) ==
    CASE prio > MQ_PRIO_MAX -> "EINVAL"
      [] prio <= MQ_PRIO_MAX /\ "O_WROK" \notin oflags -> "EPERM"
      [] prio <= MQ_PRIO_MAX /\ "O_WROK" \in oflags /\ ~fits -> "EMSGSIZE"
      [] OTHER -> "OK"

nxmq_verify_receive(oflags, fits) ==
    CASE "O_RDOK" \notin oflags -> "EPERM"
      [] "O_RDOK" \in oflags /\ ~fits -> "EMSGSIZE"
      [] OTHER -> "OK"

-----------------------------------------------------------------------------
(***************************************************************************)
(* mq_send.                                                                *)
(***************************************************************************)

\* A call that nxmq_verify_send rejects.
MqSendRejected(t, oflags, fits, prio) ==
    /\ CanRun(t) /\ pc[t] = "out" /\ t \in Senders \cup TimedSenders
    /\ nxmq_verify_send(oflags, fits, prio) # "OK"
    /\ ret' = nxmq_verify_send(oflags, fits, prio)
    /\ UNCHANGED <<queueVars, poolVars, waitVars, ntpid, errcode, waitdog,
                   pc, frame, mqmsg, locked, fault, nsent>>

\* file_mq_send up to the end of its critical section.
MqSend(t, q, oflags, prio) ==
    /\ CanRun(t) /\ pc[t] = "out" /\ t \in Senders /\ MaySend
    /\ nxmq_verify_send(oflags, TRUE, prio) = "OK"
    /\ \/ /\ ~IsFull(q)
          /\ Goto(t, "alloc") /\ Lock(t)
          /\ frame' = [frame EXCEPT ![t] = [NoFrame EXCEPT !.q = q, !.prio = prio]]
          /\ UNCHANGED <<waitVars, errcode, mqmsg, ret>>
       \/ /\ IsFull(q) /\ "O_NONBLOCK" \in oflags
          /\ Return(t, "EAGAIN")
          /\ UNCHANGED <<waitVars, errcode>>
       \/ /\ IsFull(q) /\ "O_NONBLOCK" \notin oflags
          /\ BlockNotFull(t, q) /\ Goto(t, "wait_send")
          /\ frame' = [frame EXCEPT ![t] = [NoFrame EXCEPT !.q = q, !.prio = prio]]
          /\ UNCHANGED <<mqmsg, ret>>
    /\ UNCHANGED <<queueVars, poolVars, ntpid, waitdog, fault, nsent>>

\* An interrupt handler sends: it neither waits nor looks at maxmsgs.
IsrSend(q, prio) ==
    /\ Running /\ q \in IsrQueues /\ MaySend
    /\ nxmq_verify_send({"O_WROK"}, TRUE, prio) = "OK"
    /\ Goto(ISR, "alloc")
    /\ frame' = [frame EXCEPT ![ISR] = [NoFrame EXCEPT !.q = q, !.prio = prio]]
    /\ UNCHANGED <<queueVars, poolVars, waitVars, ntpid, errcode, waitdog,
                   mqmsg, ret, locked, fault, nsent>>

(***************************************************************************)
(* mm_takesemaphore, in the kmm_malloc of nxmq_alloc_msg when g_msgfree is *)
(* empty or in the kmm_free of a message from the heap: the task waits and *)
(* with it its sched_lock, until the task that holds the semaphore posts   *)
(* it.  (A wait before sched_lock() or right before the return of a call   *)
(* is a call that comes or goes later.)                                    *)
(***************************************************************************)
HeapWait(t) ==
    /\ CanRun(t) /\ HeapWaits
    /\ \/ pc[t] = "alloc" /\ g_msgfree = 0 /\ Goto(t, "heap")
       \/ pc[t] = "free" /\ mqmsg[t].type = "DYN" /\ Goto(t, "hfree")
    /\ locked' = NONE
    /\ UNCHANGED <<queueVars, poolVars, waitVars, ntpid, errcode, waitdog, frame,
                   mqmsg, ret, fault, nsent>>

\* The allocation that follows the wait in file_mq_send.
SendAlloc(x) ==
    /\ Steps(x) /\ pc[x] \in {"alloc", "heap"}
    /\ \E type \in nxmq_alloc_msg(x) :
         \/ /\ type = "NULL"
            /\ Return(x, "ENOMEM")
            /\ UNCHANGED poolVars
         \/ /\ type # "NULL"
            /\ TakeFrom(type)
            /\ mqmsg' = [mqmsg EXCEPT ![x] = NewMessage(x, type, frame[x].prio)]
            /\ Goto(x, "insert") /\ Lock(x)
            /\ UNCHANGED <<frame, ret>>
    /\ UNCHANGED <<queueVars, waitVars, ntpid, errcode, waitdog, fault, nsent>>

\* nxmq_wait_send after up_block_task returns, and its caller's next step.
ResumeSend(t) ==
    LET q == frame[t].q  timed == frame[t].timed IN
    /\ CanRun(t) /\ pc[t] = "wait_send"
    /\ \/ /\ errcode[t] # "OK"
          /\ Return(t, errcode[t])
          /\ waitdog' = [waitdog EXCEPT ![t] = FALSE]
          /\ IF timed THEN nxmq_free_msg(mqmsg[t]) ELSE UNCHANGED poolVars
          /\ UNCHANGED <<waitVars, errcode>>
       \/ /\ errcode[t] = "OK" /\ IsFull(q)
          /\ BlockNotFull(t, q)
          /\ UNCHANGED <<poolVars, waitdog, callVars>>
       \/ /\ errcode[t] = "OK" /\ ~IsFull(q)
          /\ Goto(t, IF timed THEN "insert" ELSE "alloc") /\ Lock(t)
          /\ waitdog' = [waitdog EXCEPT ![t] = FALSE]
          /\ UNCHANGED <<poolVars, waitVars, errcode, frame, mqmsg, ret>>
    /\ UNCHANGED <<queueVars, ntpid, fault, nsent>>

-----------------------------------------------------------------------------
(***************************************************************************)
(* mq_timedsend.                                                           *)
(***************************************************************************)

\* The message is allocated first, before sched_lock().
MqTimedSend(t, q, oflags, prio) ==
    /\ CanRun(t) /\ pc[t] = "out" /\ t \in TimedSenders /\ MaySend
    /\ nxmq_verify_send(oflags, TRUE, prio) = "OK"
    /\ \E type \in nxmq_alloc_msg(t) :
         \/ /\ type = "NULL"
            /\ ret' = "ENOMEM"
            /\ UNCHANGED <<poolVars, pc, frame, mqmsg>>
         \/ /\ type # "NULL"
            /\ TakeFrom(type)
            /\ mqmsg' = [mqmsg EXCEPT ![t] = NewMessage(t, type, prio)]
            /\ frame' = [frame EXCEPT ![t] =
                           [q |-> q, prio |-> prio, timed |-> TRUE, pid |-> NONE]]
            /\ Goto(t, "tstart")
            /\ UNCHANGED ret
    /\ UNCHANGED <<queueVars, waitVars, ntpid, errcode, waitdog, locked,
                   fault, nsent>>

\* The rest of file_mq_timedsend up to nxmq_do_send or the wait.  `time` is
\* what the code finds out about abstime: "EINVAL", "ETIMEDOUT" or "OK".
TimedSendStart(t, nonblock, time) ==
    LET q == frame[t].q IN
    /\ CanRun(t) /\ pc[t] = "tstart"
    /\ \/ /\ ~IsFull(q)
          /\ Goto(t, "insert") /\ Lock(t)
          /\ UNCHANGED <<poolVars, waitVars, errcode, waitdog, frame, mqmsg, ret>>
       \/ /\ IsFull(q) /\ (time # "OK" \/ nonblock)
          /\ Return(t, IF time # "OK" THEN time ELSE "EAGAIN")
          /\ nxmq_free_msg(mqmsg[t])
          /\ UNCHANGED <<waitVars, errcode, waitdog>>
       \/ /\ IsFull(q) /\ time = "OK" /\ ~nonblock
          /\ waitdog' = [waitdog EXCEPT ![t] = TRUE]
          /\ BlockNotFull(t, q) /\ Goto(t, "wait_send")
          /\ UNCHANGED <<poolVars, frame, mqmsg, ret>>
    /\ UNCHANGED <<queueVars, ntpid, fault, nsent>>

-----------------------------------------------------------------------------
(***************************************************************************)
(* nxmq_do_send.                                                           *)
(***************************************************************************)

\* Defect: `<' for `<=' in the search, so a message overtakes its equals.
InsertBeforeEquals(x) ==
    LET q == frame[x].q
        m == [mqmsg[x] EXCEPT !.stamp = nsent + 1]
        lower == {i \in DOMAIN msglist[q] : msglist[q][i].prio <= m.prio}
    IN  /\ Steps(x) /\ pc[x] = "insert"
        /\ msglist' = [msglist EXCEPT ![q] = InsertBefore(@, lower, m)]
        /\ nmsgs' = [nmsgs EXCEPT ![q] = @ + 1]
        /\ nsent' = nsent + 1
        /\ mqmsg' = [mqmsg EXCEPT ![x] = NONE]
        /\ Goto(x, "ntest")
        /\ UNCHANGED <<poolVars, waitVars, ntpid, errcode, waitdog, frame, ret,
                       locked, fault>>

\* Queue the message behind every message of the same or a higher priority.
SendInsert(x) ==
    LET q == frame[x].q
        m == [mqmsg[x] EXCEPT !.stamp = nsent + 1]
        lower == {i \in DOMAIN msglist[q] : msglist[q][i].prio < m.prio}
    IN  /\ Steps(x) /\ pc[x] = "insert"
        /\ msglist' = [msglist EXCEPT ![q] = InsertBefore(@, lower, m)]
        /\ nmsgs' = [nmsgs EXCEPT ![q] = @ + 1]
        /\ nsent' = nsent + 1
        /\ mqmsg' = [mqmsg EXCEPT ![x] = NONE]
        /\ Goto(x, "ntest")
        /\ UNCHANGED <<poolVars, waitVars, ntpid, errcode, waitdog, frame, ret,
                       locked, fault>>

\* Is a notification attached?
NotifyTest(x) ==
    /\ Steps(x) /\ pc[x] = "ntest"
    /\ Goto(x, IF ntpid[frame[x].q] # NONE THEN "ntake" ELSE "wake")
    /\ UNCHANGED <<queueVars, poolVars, waitVars, ntpid, errcode, waitdog,
                   frame, mqmsg, ret, locked, fault, nsent>>

\* Copy it out of the queue.
NotifyTake(x) ==
    /\ Steps(x) /\ pc[x] = "ntake"
    /\ frame' = [frame EXCEPT ![x].pid = ntpid[frame[x].q]]
    /\ Goto(x, "nsend")
    /\ UNCHANGED <<queueVars, poolVars, waitVars, ntpid, errcode, waitdog,
                   mqmsg, ret, locked, fault, nsent>>

\* Detach it and signal the task, which interrupts a wait in any queue.
NotifySend(x) ==
    LET p == frame[x].pid IN
    /\ Steps(x) /\ pc[x] = "nsend"
    /\ ntpid' = [ntpid EXCEPT ![frame[x].q] = NONE]
    /\ Goto(x, "wake")
    /\ IF p # NONE /\ p \in Signalable /\ InMqWait(p)
       THEN nxmq_wait_irq(p, "EINTR")
       ELSE UNCHANGED <<waitVars, errcode, fault>>
    /\ UNCHANGED <<queueVars, poolVars, waitdog, frame, mqmsg, ret, locked, nsent>>

\* Unblock one receiver and return from mq_send.
SendWake(x) ==
    /\ Steps(x) /\ pc[x] = "wake"
    /\ WakeNotEmpty(frame[x].q)
    /\ Return(x, "OK")
    /\ UNCHANGED <<queueVars, poolVars, ntpid, errcode, waitdog, nsent>>

-----------------------------------------------------------------------------
(***************************************************************************)
(* mq_receive and mq_timedreceive.                                         *)
(***************************************************************************)

MqReceiveRejected(t, oflags, fits) ==
    /\ CanRun(t) /\ pc[t] = "out" /\ t \in Receivers \cup TimedReceivers
    /\ nxmq_verify_receive(oflags, fits) # "OK"
    /\ ret' = nxmq_verify_receive(oflags, fits)
    /\ UNCHANGED <<queueVars, poolVars, waitVars, ntpid, errcode, waitdog,
                   pc, frame, mqmsg, locked, fault, nsent>>

\* Defect: the message is taken from the tail of the list.
TakeLast(t, q) ==
    /\ msglist' = [msglist EXCEPT ![q] = SubSeq(@, 1, Len(@) - 1)]
    /\ nmsgs' = [nmsgs EXCEPT ![q] = @ - 1]
    /\ mqmsg' = [mqmsg EXCEPT ![t] = msglist[q][Len(msglist[q])]]
    /\ Goto(t, "free") /\ Lock(t)

\* sq_remfirst and nmsgs-- in nxmq_wait_receive.
TakeMessage(t, q) ==
    /\ msglist' = [msglist EXCEPT ![q] = Tail(@)]
    /\ nmsgs' = [nmsgs EXCEPT ![q] = @ - 1]
    /\ mqmsg' = [mqmsg EXCEPT ![t] = Head(msglist[q])]
    /\ Goto(t, "free") /\ Lock(t)

\* A receive up to the end of its critical section or the wait.  For a timed
\* one, `time` is what the code finds out about abstime, as in a timed send.
ReceiveStart(t, q, oflags, timed, time) ==
    /\ CanRun(t) /\ pc[t] = "out"
    /\ t \in (IF timed THEN TimedReceivers ELSE Receivers)
    /\ nxmq_verify_receive(oflags, TRUE) = "OK"
    /\ \/ /\ timed /\ time = "EINVAL"
          /\ Return(t, "EINVAL")
          /\ UNCHANGED <<queueVars, waitVars, errcode, waitdog>>
       \/ /\ time # "EINVAL" /\ msglist[q] # <<>>
          /\ TakeMessage(t, q)
          /\ frame' = [frame EXCEPT ![t] = [NoFrame EXCEPT !.q = q, !.timed = timed]]
          /\ UNCHANGED <<waitVars, errcode, waitdog, ret>>
       \/ /\ time # "EINVAL" /\ msglist[q] = <<>>
          /\ time = "ETIMEDOUT" \/ "O_NONBLOCK" \in oflags
          /\ Return(t, IF time = "ETIMEDOUT" THEN time ELSE "EAGAIN")
          /\ UNCHANGED <<queueVars, waitVars, errcode, waitdog>>
       \/ /\ time = "OK" /\ msglist[q] = <<>> /\ "O_NONBLOCK" \notin oflags
          /\ waitdog' = [waitdog EXCEPT ![t] = timed]
          /\ BlockNotEmpty(t, q) /\ Goto(t, "wait_recv")
          /\ frame' = [frame EXCEPT ![t] = [NoFrame EXCEPT !.q = q, !.timed = timed]]
          /\ UNCHANGED <<queueVars, mqmsg, ret>>
    /\ UNCHANGED <<poolVars, ntpid, fault, nsent>>

\* file_mq_receive and file_mq_timedreceive.
MqReceive(t, q, oflags) == ReceiveStart(t, q, oflags, FALSE, "OK")
MqTimedReceive(t, q, oflags, time) == ReceiveStart(t, q, oflags, TRUE, time)

\* nxmq_wait_receive after up_block_task returns.
ResumeReceive(t) ==
    LET q == frame[t].q IN
    /\ CanRun(t) /\ pc[t] = "wait_recv"
    /\ \/ /\ errcode[t] # "OK"
          /\ Return(t, errcode[t])
          /\ waitdog' = [waitdog EXCEPT ![t] = FALSE]
          /\ UNCHANGED <<queueVars, waitVars, errcode>>
       \/ /\ errcode[t] = "OK" /\ msglist[q] = <<>>
          /\ BlockNotEmpty(t, q)
          /\ UNCHANGED <<queueVars, waitdog, callVars>>
       \/ /\ errcode[t] = "OK" /\ msglist[q] # <<>>
          /\ TakeMessage(t, q)
          /\ waitdog' = [waitdog EXCEPT ![t] = FALSE]
          /\ UNCHANGED <<waitVars, errcode, frame, ret>>
    /\ UNCHANGED <<poolVars, ntpid, fault, nsent>>

\* nxmq_do_receive: give the message back to its pool ...
ReceiveFree(t) ==
    /\ CanRun(t) /\ pc[t] \in {"free", "hfree"}
    /\ nxmq_free_msg(mqmsg[t])
    /\ mqmsg' = [mqmsg EXCEPT ![t] = NONE]
    /\ Goto(t, "check") /\ Lock(t)
    /\ UNCHANGED <<queueVars, waitVars, ntpid, errcode, waitdog, frame, ret,
                   fault, nsent>>

\* Defect: an off-by-one in the test of nwaitnotfull.
CheckOffByOne(t) ==
    /\ CanRun(t) /\ pc[t] = "check"
    /\ \/ /\ nwaitnotfull[frame[t].q] > 1
          /\ Goto(t, "wakenf")
          /\ UNCHANGED <<frame, mqmsg, ret, locked>>
       \/ /\ ~(nwaitnotfull[frame[t].q] > 1)
          /\ Return(t, "OK")
    /\ UNCHANGED <<queueVars, poolVars, waitVars, ntpid, errcode, waitdog,
                   fault, nsent>>

\* ... test nwaitnotfull outside of any critical section ...
ReceiveCheck(t) ==
    /\ CanRun(t) /\ pc[t] = "check"
    /\ \/ /\ nwaitnotfull[frame[t].q] > 0
          /\ Goto(t, "wakenf")
          /\ UNCHANGED <<frame, mqmsg, ret, locked>>
       \/ /\ ~(nwaitnotfull[frame[t].q] > 0)
          /\ Return(t, "OK")
    /\ UNCHANGED <<queueVars, poolVars, waitVars, ntpid, errcode, waitdog,
                   fault, nsent>>

\* ... and in one, unblock one sender.
ReceiveWake(t) ==
    /\ CanRun(t) /\ pc[t] = "wakenf"
    /\ WakeNotFull(frame[t].q)
    /\ Return(t, "OK")
    /\ UNCHANGED <<queueVars, poolVars, ntpid, errcode, waitdog, nsent>>

-----------------------------------------------------------------------------
(***************************************************************************)
(* mq_notify: attach (attach = TRUE; goodsigno is GOOD_SIGNO of its signal *)
(* number) or detach a notification.                                       *)
(***************************************************************************)
mq_notify(t, q, attach, goodsigno) ==
    /\ CanRun(t) /\ pc[t] = "out" /\ t \in Notifiers
    /\ \/ /\ ntpid[q] = NONE /\ attach /\ goodsigno
          /\ ntpid' = [ntpid EXCEPT ![q] = t]
          /\ ret' = "OK"
       \/ /\ ntpid[q] = NONE /\ ~(attach /\ goodsigno)
          /\ ret' = IF attach THEN "EINVAL" ELSE "OK"
          /\ UNCHANGED ntpid
       \/ /\ ntpid[q] # NONE /\ (ntpid[q] # t \/ attach)
          /\ ret' = "EBUSY"
          /\ UNCHANGED ntpid
       \/ /\ ntpid[q] = t /\ ~attach
          /\ ntpid' = [ntpid EXCEPT ![q] = NONE]
          /\ ret' = "OK"
    /\ UNCHANGED <<queueVars, poolVars, waitVars, errcode, waitdog, pc, frame,
                   mqmsg, locked, fault, nsent>>

-----------------------------------------------------------------------------
(***************************************************************************)
(* What happens to a task from outside.                                    *)
(***************************************************************************)

\* The watchdog expires: nxmq_rcvtimeout or nxmq_sndtimeout, which act only
\* on a task that still waits.
WaitTimeout(t) ==
    /\ Running /\ waitdog[t]
    /\ waitdog' = [waitdog EXCEPT ![t] = FALSE]
    /\ IF InMqWait(t)
       THEN nxmq_wait_irq(t, "ETIMEDOUT")
       ELSE UNCHANGED <<waitVars, errcode, fault>>
    /\ UNCHANGED <<queueVars, poolVars, ntpid, callVars, locked, nsent>>

\* An unmasked signal is dispatched to a task that waits.
SignalTask(t) ==
    /\ Running /\ t \in Signalable /\ InMqWait(t)
    /\ nxmq_wait_irq(t, "EINTR")
    /\ UNCHANGED <<queueVars, poolVars, ntpid, waitdog, callVars, locked, nsent>>

\* nxtask_terminate, first half: the TCB leaves its task list.  The task is
\* not the running one.  task_state keeps its value.
TaskTerminate(t) ==
    /\ Running /\ locked = NONE /\ t \in Deletable
    /\ pc[t] \notin {"removed", "dead"}
    /\ g_waitingformqnotempty' = dq_rem(g_waitingformqnotempty, t)
    /\ g_waitingformqnotfull' = dq_rem(g_waitingformqnotfull, t)
    /\ Goto(t, "removed")
    /\ UNCHANGED <<queueVars, poolVars, nwaitnotempty, nwaitnotfull, task_state,
                   msgwaitq, ntpid, errcode, waitdog, frame, mqmsg, ret, locked,
                   fault, nsent>>

\* Defect: nxmq_recover runs after task_state was reset and finds no wait.
RecoverTooLate(t) ==
    /\ Running /\ locked = NONE /\ pc[t] = "removed"
    /\ waitdog' = [waitdog EXCEPT ![t] = FALSE]
    /\ task_state' = [task_state EXCEPT ![t] = "INVALID"]
    /\ msgwaitq' = [msgwaitq EXCEPT ![t] = NONE]
    /\ Goto(t, "dead")
    /\ UNCHANGED <<queueVars, poolVars, nwaitnotempty, nwaitnotfull,
                   g_waitingformqnotempty, g_waitingformqnotfull, ntpid, errcode,
                   frame, mqmsg, ret, locked, fault, nsent>>

\* nxtask_terminate, second half: nxtask_exithook calls nxtask_recover
\* (wd_recover, nxmq_recover), then the TCB is released.
TaskRecover(t) ==
    LET q == msgwaitq[t] IN
    /\ Running /\ locked = NONE /\ pc[t] = "removed"
    /\ waitdog' = [waitdog EXCEPT ![t] = FALSE]
    /\ nwaitnotempty' = IF task_state[t] = "WAIT_MQNOTEMPTY"
                        THEN [nwaitnotempty EXCEPT ![q] = @ - 1]
                        ELSE nwaitnotempty
    /\ nwaitnotfull' = IF task_state[t] = "WAIT_MQNOTFULL"
                       THEN [nwaitnotfull EXCEPT ![q] = @ - 1]
                       ELSE nwaitnotfull
    /\ task_state' = [task_state EXCEPT ![t] = "INVALID"]
    /\ msgwaitq' = [msgwaitq EXCEPT ![t] = NONE]
    /\ Goto(t, "dead")
    /\ UNCHANGED <<queueVars, poolVars, g_waitingformqnotempty,
                   g_waitingformqnotfull, ntpid, errcode, frame, mqmsg, ret,
                   locked, fault, nsent>>

\* After a fault the system is down.
Halted == fault # "none" /\ UNCHANGED vars

-----------------------------------------------------------------------------
Times == {"OK", "ETIMEDOUT", "EINVAL"}

\* The steps of a call that are under way in context x.
SendStep(x) ==
    \/ SendAlloc(x) \/ SendInsert(x)
    \/ NotifyTest(x) \/ NotifyTake(x) \/ NotifySend(x) \/ SendWake(x)
TaskStep(t) ==
    \/ SendStep(t) \/ ResumeSend(t) \/ ResumeReceive(t)
    \/ \E nonblock \in BOOLEAN, time \in Times : TimedSendStart(t, nonblock, time)
    \/ ReceiveFree(t) \/ ReceiveCheck(t) \/ ReceiveWake(t) \/ HeapWait(t)

\* A task makes a call.
Call(t) ==
    \/ \E oflags \in OFlags :
         \/ \E fits \in BOOLEAN, prio \in MsgPrios :
              MqSendRejected(t, oflags, fits, prio)
         \/ \E fits \in BOOLEAN : MqReceiveRejected(t, oflags, fits)
         \/ \E q \in Queues, prio \in MsgPrios :
              MqSend(t, q, oflags, prio) \/ MqTimedSend(t, q, oflags, prio)
         \/ \E q \in Queues : MqReceive(t, q, oflags)
         \/ \E q \in Queues, time \in Times : MqTimedReceive(t, q, oflags, time)
    \/ \E q \in Queues, attach, goodsigno \in BOOLEAN :
         mq_notify(t, q, attach, goodsigno)

Next ==
    \/ \E t \in Tasks : Call(t) \/ TaskStep(t)
    \/ \E q \in Queues, prio \in MsgPrios : IsrSend(q, prio)
    \/ SendStep(ISR)
    \/ \E t \in Tasks :
         WaitTimeout(t) \/ SignalTask(t) \/ TaskTerminate(t) \/ TaskRecover(t)
    \/ Halted

Spec == Init /\ [][Next]_vars

(***************************************************************************)
(* Fairness.  Interrupt handlers run to their end.  A task inside a call   *)
(* gets the processor again and again although interrupts and the calls of *)
(* other tasks keep taking it away: tasks of equal priority share it by    *)
(* time slices (CONFIG_RR_INTERVAL), and a slice that ends under           *)
(* sched_lock() is given up at the next tick that comes while the task     *)
(* does not hold it.  So this is used with equal priorities only.  The     *)
(* heap is given back by the task that uses it.  A watchdog that was       *)
(* started expires unless it is cancelled, and a deletion that was begun   *)
(* is completed.                                                           *)
(***************************************************************************)
Fairness ==
    /\ WF_vars(SendStep(ISR))
    /\ \A t \in Tasks : /\ SF_vars(TaskStep(t))
                        /\ SF_vars(WaitTimeout(t))
                        /\ SF_vars(TaskRecover(t))

FairSpec == Spec /\ Fairness

-----------------------------------------------------------------------------
(***************************************************************************)
(* Properties.                                                             *)
(***************************************************************************)

\* Tasks whose TCB says that they wait in this state for queue q.
BlockedOn(state, q) ==
    {t \in Tasks : task_state[t] = state /\ msgwaitq[t] = q}

\* The wait counters of a queue, which every waker tests before it searches
\* a wait list, are the numbers of tasks that wait for the queue: whatever
\* interleaving of sends, receives, timeouts, signals and deletions led here,
\* no decrement was lost or done twice.
WaitCounts ==
    \A q \in Queues :
      /\ nwaitnotempty[q] = Cardinality(BlockedOn("WAIT_MQNOTEMPTY", q))
      /\ nwaitnotfull[q] = Cardinality(BlockedOn("WAIT_MQNOTFULL", q))

\* What a context holds fits the place where it is in a call: a task waits
\* only inside a call and for the queue of that call, a message structure is
\* held from its allocation to the insertion and from its removal to the free
\* and never otherwise, and an interrupt handler never waits or receives.
CallsConsistent ==
    /\ pc[ISR] \in {"out", "alloc", "insert", "ntest", "ntake", "nsend", "wake"}
    /\ \A x \in Contexts :
         /\ pc[x] \in SendPcs \cup RecvPcs => frame[x].q \in Queues
         /\ pc[x] \in {"alloc", "heap", "tstart", "wait_send"}
              => frame[x].prio \in MsgPrios
         /\ pc[x] = "tstart" => frame[x].timed
         /\ pc[x] \notin {"removed", "dead"} =>
              ( mqmsg[x] # NONE <=>
                \/ pc[x] \in {"tstart", "insert", "free", "hfree"}
                \/ pc[x] = "wait_send" /\ frame[x].timed )
    /\ \A t \in Tasks :
         /\ InMqWait(t) => msgwaitq[t] \in Queues
         /\ task_state[t] = "WAIT_MQNOTEMPTY" => pc[t] \in {"wait_recv", "removed"}
         /\ task_state[t] = "WAIT_MQNOTFULL" => pc[t] \in {"wait_send", "removed"}
         /\ InMqWait(t) /\ pc[t] # "removed" => msgwaitq[t] = frame[t].q
         /\ waitdog[t] => pc[t] \in {"wait_recv", "wait_send", "removed"}

\* A wait list that holds the tasks in one state, each once, in priority order.
IsWaitList(list, state) ==
    /\ \A t \in Tasks :
         (\E i \in DOMAIN list : list[i] = t)
           <=> task_state[t] = state /\ pc[t] # "removed"
    /\ \A i, j \in DOMAIN list :
         i < j => list[i] # list[j] /\ Priority[list[i]] >= Priority[list[j]]

\* The two global wait lists hold exactly the tasks in the state of the list
\* (a task being deleted has left its list), without duplicates and highest
\* priority first: the order nxmq_do_send and nxmq_do_receive rely on when
\* they take the first match for the highest-priority waiter.
WaitLists ==
    /\ IsWaitList(g_waitingformqnotempty, "WAIT_MQNOTEMPTY")
    /\ IsWaitList(g_waitingformqnotfull, "WAIT_MQNOTFULL")

\* m is to be received before n.
Before(m, n) == m.prio > n.prio \/ (m.prio = n.prio /\ m.stamp < n.stamp)

\* A message list is in descending priority order and, within a priority, in
\* the order of arrival, and nmsgs is its length.
QueueOrder ==
    \A q \in Queues :
      /\ nmsgs[q] = Len(msglist[q])
      /\ \A i, j \in DOMAIN msglist[q] :
           i < j => Before(msglist[q][i], msglist[q][j])

\* Messages of a pool that sit in queues, or that a context holds.
Queued(type) ==
    UNION {{q} \X {i \in DOMAIN msglist[q] : msglist[q][i].type = type} :
             q \in Queues}
Held(type) == {x \in Contexts : mqmsg[x] # NONE /\ mqmsg[x].type = type}

\* No pre-allocated message is lost or freed twice, and none changes its
\* pool: what is not in the free list is in a queue or in the hands of one
\* call.  (A deleted task counts as the holder of what it held.)
PoolConservation ==
    /\ g_msgfree + Cardinality(Queued("FIXED")) + Cardinality(Held("FIXED"))
         = PREALLOC_MQ_MSGS
    /\ g_msgfreeirq + Cardinality(Queued("IRQ")) + Cardinality(Held("IRQ"))
         = PREALLOC_MQ_IRQ_MSGS

\* The messages in a queue that came from these kinds of senders.
SentBy(q, srcs) == {i \in DOMAIN msglist[q] : msglist[q][i].src \in srcs}

\* Tasks test for room in one critical section and queue the message in
\* another.  Nevertheless the messages of tasks fit in mq_maxmsg, but for those
\* of senders that had to wait for the heap in between, which let other tasks
\* send; and these exceed it by one for each such sender and no more, however
\* often they send.  (Interrupt handlers exceed it without limit.)
TaskMessagesFit ==
    \A q \in Queues :
      /\ Cardinality(SentBy(q, {"task"})) <= maxmsgs[q]
      /\ Cardinality(SentBy(q, {"task", "late"})) <= maxmsgs[q] + Cardinality(Senders)

\* Receivers that were unblocked and have not looked at the queue yet, and
\* sends that queued a message and have not unblocked anyone yet.
WokenReceivers(q) ==
    {t \in Tasks : /\ pc[t] = "wait_recv" /\ frame[t].q = q
                   /\ task_state[t] = "READY" /\ errcode[t] = "OK"}
SendsToSignal(q) ==
    {x \in Contexts : /\ pc[x] \in {"ntest", "ntake", "nsend", "wake"}
                      /\ frame[x].q = q}

\* While a task waits for a message of q, there are no more messages in q than
\* unblocked receivers on their way to them and sends about to unblock one.
ReceiversWoken ==
    \A q \in Queues :
      BlockedOn("WAIT_MQNOTEMPTY", q) # {} =>
        nmsgs[q] <= Cardinality(WokenReceivers(q)) + Cardinality(SendsToSignal(q))

\* Senders that were unblocked and have not looked at the queue yet, tasks
\* that saw room and are about to fill it, and receives that made room and
\* have not unblocked anyone yet.
WokenSenders(q) ==
    {t \in Tasks : /\ pc[t] = "wait_send" /\ frame[t].q = q
                   /\ task_state[t] = "READY" /\ errcode[t] = "OK"}
SendersWithRoom(q) ==
    {t \in Tasks : pc[t] \in {"alloc", "heap", "insert"} /\ frame[t].q = q}
ReceivesToSignal(q) ==
    {t \in Tasks : pc[t] \in {"free", "hfree", "check", "wakenf"} /\ frame[t].q = q}

\* While a task waits for room in q, every free place is spoken for by an
\* unblocked sender, by one about to queue its message, or by a receive about
\* to unblock one.
SendersWoken ==
    \A q \in Queues :
      BlockedOn("WAIT_MQNOTFULL", q) # {} =>
        maxmsgs[q] - nmsgs[q] <= Cardinality(WokenSenders(q))
                                 + Cardinality(SendersWithRoom(q))
                                 + Cardinality(ReceivesToSignal(q))

\* No wake-up is lost, of a receiver by the tasks that race it to a message or
\* of a sender by those that race it to a free place.
NoLostWakeup == ReceiversWoken /\ SendersWoken

\* The task that a send or a receive unblocks has the highest priority among
\* the tasks that wait for the same event of the same queue.
BestWaiterWoken ==
    [][\A t \in Tasks :
         /\ InMqWait(t) /\ task_state'[t] = "READY" /\ errcode'[t] = "OK"
         => \A u \in Tasks :
              /\ task_state[u] = task_state[t] /\ msgwaitq[u] = msgwaitq[t]
              /\ pc[u] # "removed"
              => Priority[u] <= Priority[t]]_vars

\* The kernel never uses a NULL or a dangling TCB when it wakes a waiter: the
\* DEBUGASSERT(btcb) of nxmq_do_send and nxmq_do_receive hold.
NoFault == fault = "none"

\* A notification that tasks send is sent once: no two tasks have both taken
\* the same registration out of a queue, although they test for it, copy it
\* and detach it in steps of their own.  (A handler that sends between the copy
\* and the detachment of a task copies the registration too.)
NotifiedOnce ==
    \A x, y \in Tasks :
      pc[x] = "nsend" /\ pc[y] = "nsend" /\ frame[x].q = frame[y].q
        => x = y \/ frame[x].pid # frame[y].pid

\* A message that arrives while a receiver waits is received by somebody, and
\* a place that becomes free while a sender waits is filled: no task waits for
\* ever next to what it waits for.
WaitersServed ==
    \A t \in Tasks, q \in Queues :
      /\ t \in BlockedOn("WAIT_MQNOTEMPTY", q) /\ nmsgs[q] > 0
           ~> (t \notin BlockedOn("WAIT_MQNOTEMPTY", q) \/ nmsgs[q] = 0)
      /\ t \in BlockedOn("WAIT_MQNOTFULL", q) /\ ~IsFull(q)
           ~> (t \notin BlockedOn("WAIT_MQNOTFULL", q) \/ IsFull(q))

\* The message queues, seen from outside, are priority channels: a message
\* that is sent arrives once, and a receive takes the oldest message of the
\* highest priority.  The contents of a queue are the messages in its list.
Channel == INSTANCE PriorityChannel
             WITH content <- [q \in Queues |-> {msglist[q][i] : i \in DOMAIN msglist[q]}]
IsPriorityChannel == Channel!Spec
=============================================================================
