# Formal models of the USB CDC device and the kernel under it

This directory holds TLA+ models of the firmware in `src/`: NuttX on a TM4C1294
LaunchPad board with a USB CDC character driver (`/dev/usb0`) and a command
terminal written for it.  Received bytes travel from the USB interrupt handler to
the reading task through a POSIX message queue that both open again for every
use; readers and writers exclude each other with two semaphores; tasks wait with
timeouts that the timer interrupt ends.  The kernel's message queues carry the
device and nearly all of its concurrency, so they are the core of the model.

## The system

| Component | State | Operations | Where it interacts |
|---|---|---|---|
| POSIX message queues, `nuttx/sched/mqueue` | per queue: `msglist`, `nmsgs`, `nwaitnotempty`, `nwaitnotfull`, `ntpid`; global: `g_msgfree`, `g_msgfreeirq`, `g_waitingformqnotempty`, `g_waitingformqnotfull`; per task: `task_state`, `msgwaitq`, `errcode`, `waitdog` | `mq_send`, `mq_receive`, `mq_timedsend`, `mq_timedreceive`, `mq_notify`, `nxmq_wait_irq`, `nxmq_recover` | called by tasks and, `mq_send` only, by interrupt handlers; the scheduler blocks and unblocks the callers; watchdogs, signals and task deletion cancel their waits |
| Priority lists, `sched_addprioritized.c`, `libc/queue` | the links in the TCBs and messages | insert by priority, find the first match, unlink | every wait list, the task lists and the message list |
| Semaphores, `nuttx/sched/semaphore` | `semcount`, `waitsem`, `g_waitingforsemaphore` | wait, timed wait, try, post, reset, destroy, `nxsem_wait_irq`, `nxsem_recover` | the driver's mutual exclusion, the inode semaphore; cancelled like message queue waits |
| USB CDC driver, `tm4c1294-launchpad/src/test_driver.c`, `USB/cdc/virtual_com.c` | `sRead`, `sWrite`, `g_sRxBuffer`, `g_sTxBuffer`, the queue `/usb_queue`, `g_bUSBConfigured` | `cdc_read`, `cdc_write`, `printf_usb`, `RxHandler`, `TxHandler`, `ControlHandler` | file operations of tasks against callbacks of the USB library in interrupt context |
| Message queue descriptors and inodes, `nuttx/fs/mqueue`, `fs/inode`, `fs/vfs` | the name tree, `i_crefs`, descriptors, `g_inode_sem` | `mq_open`, `mq_close`, `mq_unlink` | around every use of `/usb_queue`, in interrupt context too |
| Command terminal, `apps/examples/usbcdc` | `usb_cmd_line`, `last_cmd_line`, the command table | read a key, edit, recall, run | the user of `/dev/usb0` |
| Scheduler task lists and `sched_lock`, `nuttx/sched/sched` | `g_readytorun`, `g_pendingtasks`, `lockcount`, `sched_priority`, `timeslice` | block, unblock, lock, unlock, merge, change priority, yield, end a time slice | under every call above |
| Watchdog timers, `nuttx/sched/wdog` | `g_wdactivelist`, `lag` | start, cancel, tick, expire | the ceiling of timed calls, POSIX timers |
| POSIX timers, `nuttx/sched/timer` | owner, period, watchdog | create, set, delete, delete with the owner | restart their watchdog from its own function |
| Task creation, exit and deletion, `nuttx/sched/task` | `task_state` | `nxtask_activate`, `nxtask_exit`, `nxtask_terminate`, `nxtask_recover` | cancel waits, release what a task held |
| Signal dispatch, `nuttx/sched/signal` | - | the end of a wait with `EINTR` | cancels waits |
| The rest of NuttX: network, memory manager, file systems, other boards | - | - | not exercised through these interfaces |

What is hard here: an interrupt may come between any two critical sections, and
the message queue code tests and acts in different ones; one wake-up serves one
waiter and may be taken by a third task; a timeout, a signal, a wake-up and a
deletion compete for the same waiting task; a deleted task is taken apart in two
steps; `sched_lock` stops protecting as soon as its holder waits, and whoever
gives the processor away must then serve the pending tasks; interrupt handlers
neither wait nor respect `mq_maxmsg`, and use message structures of their own and
descriptors of the task they interrupt.  `PROJECT.json` lists these hazards with
the line where each bites and the properties that watch it.

## Modules

| Module | Models | Notes |
|---|---|---|
| `PrioList` | lists kept by priority | insertion, search, removal as operators on sequences |
| `MsgQueue` | `sched/mqueue` with the scheduler, watchdogs, signals and deletion as they meet it | the core |
| `PriorityChannel` | what a message queue promises | the abstract specification that `MsgQueue` implements |
| `Semaphore` | the effect of each operation of `sched/semaphore` | fragments without control flow |
| `SemaphoreUse` | tasks and handlers that use semaphores in any order | composes `Semaphore` with calls, timeouts, signals, deletion |
| `UsbCdc` | the driver, its interrupt handler, `printf_usb_app` and `printf_usb` | composes `Semaphore` with the queue, its descriptors and the USB buffers |
| `MqFiles` | `fs/mqueue` and the parts of `fs/inode`, `fs/vfs` under it | composes `Semaphore` (the inode semaphore) with names, inodes and descriptors |
| `Terminal` | the loop of `usb_terminal_process` | one action per turn of the loop |
| `LineEditor` | what a command line promises | the abstract specification that `Terminal` implements |
| `Sched` | the task lists | each operation as a function from lists to lists |
| `Wdog` | the list of watchdogs | each operation as a function, like `Sched` |
| `Countdown` | what timers promise | the abstract specification that the watchdogs implement |
| `Kernel` | tasks, waits, POSIX timers, creation, exit and deletion under the timer interrupt | composes `Sched` and `Wdog` |
| `MCMsgQueue`, `MCSemaphore`, `MCUsbCdc`, `MCMqFiles`, `MCTerminal`, `MCKernel` | - | constants for TLC |
| `PrioListProofs`, `SemaphoreProofs` | - | lemmas on lists and on semaphore operations |
| `MsgQueueProofs`, `SemaphoreUseProofs`, `UsbCdcProofs`, `MqFilesProofs`, `TerminalProofs`, `KernelProofs` | - | theorems about the module of that name |

Definitions called "Defect" in a comment are plausible mistakes in the operation
that follows them.  They are not part of any specification; each is used to see
that a property notices it.

### MsgQueue

The board has one core.  A step is one critical section or one piece of code
between two of them, so an interrupt may come between any two steps.  Another
task runs between two steps only when the running task has not called
`sched_lock` (`locked`), or when it blocks.  An interrupt handler is the context
`ISR`; it runs to its end before a task continues.

The variables are the fields of `struct mqueue_inode_s` and of the TCB and the
global lists, under their own names.  `pc`, `frame` and `mqmsg` are the place of
a context in its call and the locals that it keeps across critical sections.
`ret` is what the last call returned, `fault` records the use of a NULL or a
dangling TCB, `nsent` numbers the queued messages.  A message is its priority,
the pool it came from, its sender and its number: payloads are not looked at by
the code.

A send is `MqSend` (verify, wait for room), `SendAlloc`, `SendInsert`,
`NotifyTest`, `NotifyTake`, `NotifySend`, `SendWake`; a timed send allocates
first (`MqTimedSend`, `TimedSendStart`); a blocked one resumes in `ResumeSend`.
A receive is `MqReceive` or `MqTimedReceive`, `ResumeReceive` when it blocked,
then `ReceiveFree`, `ReceiveCheck`, `ReceiveWake`.  The test of `ReceiveCheck` is
a step of its own because the code tests `nwaitnotfull` outside the critical
section in which it searches the list.  `WaitTimeout`, `SignalTask`,
`TaskTerminate` and `TaskRecover` are what cancels waits.

A task that finds `g_msgfree` empty calls `kmm_malloc`, and one that frees a
message from the heap calls `kmm_free`; both take the semaphore of the heap.  If
another task holds it, the caller waits, and its `sched_lock` is given up with it
(`HeapWait`, enabled by the constant `HeapWaits`).  So other tasks may send
between the test for room and the insertion; the message of a sender to which
this happened is marked "late".  The heap itself is not modelled: a wait for it
ends, and an allocation may fail (`HeapMayFail`).

### Semaphore and SemaphoreUse

Every operation of a semaphore but one is a critical section.  `Semaphore` gives
what it does to `semcount`, `g_waitingforsemaphore` and the TCBs; its users say where
the caller goes.  A timed wait is told by its argument `time` what the code finds
out about the time limit.  Deletion has two steps, as for message queues: the TCB
leaves its list in `TaskTerminate` and the count is corrected in `TaskRecover`.
`SemReset` posts while tasks wait and counts are left, in one critical section:
`PostLoop` is a recursive function, the state after each turn of that loop.

The exception is `nxsem_destroy`, which tests the count and stores 1 with
interrupts on.  `SemDestroy` is the test, `SemDestroyStore` the store, and any
step of another context may come between.  A semaphore on which tasks began to
wait in between gets the count 1 although they wait; the code calls this
undefined, and `destroyedInUse` notes such semaphores.

### UsbCdc

Bytes from the host are numbered.  `rxBuffer`, `queue` and `got` are where they
are, `txlog` is everything that the transmit buffer ever accepted and `txlen` how
much of it the host has not read.  The interrupt handler is atomic for tasks, so
`RxHandler` with `USBUARTPrimeTransmit` is one action; its argument is the task
that was interrupted, because the handler opens the queue with that task's
descriptors.  `cdc_read` and `cdc_write` are split at the semaphore, at each step
of `mq_open`, at each byte.  `printf_usb` (`PrintfStart`, `PrintfWrite`) writes to
the same buffer without `sWrite`; the tasks in `Direct` call it.  The queue is a FIFO here: all its messages have one
priority, and `PriorityChannel` is proved of the real one.  `nfree` stands for
both message pools, since only the handler sends.

The USB library is present in the repository as headers only.  `g_sTxBuffer` and
`g_sRxBuffer` are modelled from their use: a write of a byte is accepted when
there is room, a read takes what is there, a flush empties the buffer, and an
event is reported after a packet was stored and possibly again.  Those parts are
marked external in the comments.

### MqFiles

A step is the code between two operations on the inode semaphore: `Take` waits
for it or enters, and the work under it is one step, because others can only wait
meanwhile.  `sched_lock` is `locked`; it falls when its holder waits for the
semaphore and is in force again when that task runs.  `mq_open` is `find`,
`reserve`, `new`, then the descriptor (`alloc`, `alloc_in`), with the error paths
`drop`, `undo`, `e_check` and `e_release`; `mq_close` is `c_check`, `c_release`;
`mq_unlink` is `u_find`, `u_remove`, `u_free`.  An inode has a type (`plain` while
it is reserved and carries no queue), a count, a queue, and `lost`, the references
that unlinking never gives back.  The handler's `mq_open` on the interrupted
task's descriptors is atomic; `fault` records that it would have had to wait.
Message contents are the subject of `MsgQueue`.

### Terminal

The buffers are arrays with what earlier lines left in them, and the end of a
string is found by its NUL, as the library functions do.  A turn of the loop
opens the device, takes a key and closes it, except where it leaves with
`continue`.  The loop runs alone on its buffers, so the turn is atomic.
`overrun` records that a buffer was left, after which the model stops.
`LineEditor` has sequences in place of buffers: the line, the history and the
command that Enter ran.

### Sched, Wdog and Kernel

All operations on the task lists and on the watchdog list run with interrupts
off.  They are functions here, so that an action of `Kernel` can apply several of
them in the order of the code: block and merge, cancel and unblock, exit and pick
the next.  `Kernel` says who may call what: the running task, the timer
interrupt, or another interrupt that posts.  A tick and the functions of the
watchdogs that it ends are separate steps (`Tick`, `Expire`), since each function
may restart a watchdog.  A task that was unblocked finishes its wait in
`WaitReturns`, before which its watchdog is still active.  Deletion of another
task is `task_delete` and `Terminated`, the critical section that takes it from
its list and the cleanup after it.  `timer_settime` is three steps: the cancel
(`timer_settime`), the store of the period (`StorePeriod`) and the start in a
second critical section (`StartTimer`); `setting` is where a task is between
them.  Interrupts, other tasks and the end of the caller may come in between.
`SharedTimers` says whether tasks use timers that others created.
`g_system_timer` is kept modulo 2: nothing
modelled compares times, and fairness needs to see it move.

## Runs

| Run | Instance | Shows |
|---|---|---|
| `core` | 3 tasks of 2 priorities, a handler, 1 queue of 1 place, 2 message priorities, 1 message of each pool, 3 sends; timed sends and receives, signals, a deletion, a heap that fails or makes its caller wait | types, calls, wait counters and lists, pools, `mq_maxmsg`, list order, the best waiter is unblocked, refinement of `PriorityChannel` |
| `live` | 2 tasks of equal priority that send and receive, a handler, timed receives by one, notification, waits for the heap; no timed send, signal or deletion | no missing waiter, one notification per registration, no wake-up is lost, blocked calls are served |
| `sem_use` | 3 tasks of 2 priorities, 2 semaphores, a handler, signals, resets, destructions, a deletion | counts agree with waiters and none is lost, list order, best waiter first, timed waits end |
| `usb_queue` | 2 readers, one signalled, one that runs out of descriptors; 4 bytes, 2 messages, 2 connections | message structures accounted for, bytes in order, none lost without cause |
| `usb_print` | 2 printing tasks, one of which also uses `printf_usb` and reads; 2 characters, 2 bytes of buffer, an echo, a host that reads at any time and leaves once | locks exclude, writes not mixed, as many bytes as characters, every print ends |
| `mq_files` | 2 tasks that open and close, one that unlinks, the handler, 1 name, 2 inodes, 1 descriptor each, a failing heap | references counted, nothing in use is freed, a name leads to one queue, calls return |
| `terminal` | 2 letters, 2 commands, lines of 4, 2 line feeds | no index leaves its buffer through an erase key, refinement of `LineEditor` |
| `kernel` | 3 tasks of 2 priorities, timed waits, one change of priority, one level of `sched_lock`, exit, deletion | both task lists ordered, no task left pending, `sched_lock` keeps the processor, no old timeout in a new wait |
| `kernel_live` | 2 tasks of one priority, 2 delays, a POSIX timer that restarts itself, set by its owner | refinement of `Countdown`, a ready task runs, a timed wait ends, timers end with their task |

The three runs whose name ends in `_v` are described under Findings.  The type
invariants of `UsbCdc`, `SemaphoreUse` and `Kernel` are stated in the modules and
hold in these instances, but no run is spent on them.

What the passing runs leave out, because it fails there (see below): `live` has
no third task, failing heap, timed send, signal or deletion; `usb_print` has no
signals; `mq_files` has `HeapWaits = {FALSE}`; `terminal` has `LeadingBlanks =
FALSE`; both kernel runs have `SharedTimers`, `ExitWakes` and `DeletePreempted`
`FALSE`.  That a notification's signal ends the wait of the notified task
(`NotifySend`) is in no run, since `live` has no signals; the theorems cover it.

**Bounds.**  One place per queue makes full and empty alternate at every message,
handlers put more messages into it than it has places, so that with two
priorities their order matters, three
tasks are a waker, a waiter and a thief.  In `core`, states that differ only in
`ret`, which nothing reads, count as one (`NoRet`).  `MaxSends` (3) lets a place be
filled, emptied and filled again while a third context is on its way, and lets a
late sender fill a place that another has taken.  One
message per pool makes both free lists run dry.  For the driver, a packet is
larger than the chunk that an event takes and the host sends more than the pool
holds, so that remainders, losses and refused echoes occur; `TextLen` is more
than the room that an echo or the other task has left, so that a string takes
several writes (in `print_v` more than the whole buffer).
`SEM_VALUE_MAX` (32767 in the code) is small so that the overflow check is met.
Two inodes for one name let a name be unlinked and used again while the old inode
is open; one descriptor (`NFILES`) makes a table full.  `LineSize` (128 in the
code) is 4: a command, a blank and what a longer line left behind fit in it;
`MaxNewlines` counts the turns that keep a descriptor.  `INT32_MAX` is 3, so that
the longest delay meets its clipping and differs from the shorter one by a tick;
`RR_INTERVAL` is 2, so that a slice can end under the lock and not;
`MaxLock` bounds nested locks (the code asserts a limit, nesting only counts) and
`MaxChanges` changes of priority.  Every bound is a constant named in its module.

Deadlock is checked in the kernel runs, where the timer never stops.  Elsewhere
it is not: tasks may legally all wait, and the bounds let the models run out of
work.

**Fairness.**  Handlers run to their end.  A task that is ready gets the
processor again: tasks of equal priority share it by time slices
(`CONFIG_RR_INTERVAL`), so liveness is checked with equal priorities only, and a
slice that ends under `sched_lock` is given up later.  In `MsgQueue` and `MqFiles`
this is strong fairness, since the lock of another task disables a ready task
again and again.  A watchdog that was started expires unless it is cancelled; a
deletion that was begun is finished, and the heap is given back.  `SemaphoreUse` needs the watchdogs only,
because its property is that the task becomes ready, not that it runs.  In
`UsbCdc` the host is assumed to reconnect and to read when it can again and
again; the code can do nothing without that.  No task is assumed to make a call.

`Kernel` derives what the other modules assume.  Its own assumptions are that the
hardware timer goes on, that a task which holds `sched_lock` gives it back again
and again, that functions of expired watchdogs, the return of a wait, a
deletion and, between interrupts, the steps of `timer_settime` are finished, and that the timer interrupt does not for ever come only
while the scheduler is locked.  The last one is needed because the code does
not do what its comment says in the configuration without tickless mode: a slice
that ended under the lock is not taken away at `sched_unlock`
(`sched_unlock.c`, "we need to swap the task out now") but at the next tick that
finds it unlocked.

## Findings

- `race_v`: `nxmq_do_receive` tests `nwaitnotfull` before the critical section;
  the timeout of the last sender in between ends in a NULL dereference.
- `term_leak_v`: a line feed leaves the terminal's loop with `continue`, before
  `close(fd)`.  When the descriptors are used up, `mq_open` inside `cdc_read`
  fails and unlinks the existing queue (`mq_open.c:181` reports it as created),
  and the terminal is deaf from then on.

- `print_v`: `cdc_write` tries the characters behind one that was refused.  Once
  the host has read, a later one is accepted, and the count that is returned is
  not that of a prefix; `printf_usb_app` goes on from there, so that one character
  is lost and another comes twice (`test_driver.c:174`).  `PrintedCounted` is what
  remains true: the number of bytes is right.

Seen with other constants of the same modules, without a run of their own:

- `MsgQueue` with two receivers: a timed receive need not return.  When it is
  unblocked, loses the message to the other and waits again, it does so without
  its timer (`mq_rcvinternal.c:150`; the comment at `mq_timedreceive.c:323`
  promises the ceiling).
- `MsgQueue` with `HeapWaits`: a queue holds more than `mq_maxmsg` messages of
  tasks.  A sender has seen room, waits for the heap, and others send meanwhile
  (`mq_send.c:116`, `mq_sndinternal.c:166`).  `TaskMessagesFit` says how far this
  goes: one message for each sender.
- `MsgQueue`, `live` with `HeapMayFail`: `WaitersServed` fails.  A sender that
  fails to allocate swallows the wake-up of the next (`mq_send.c:137`, `:221`).
- `MsgQueue` with `Deletable` receivers: `NoFault` fails as in `race_v`, because
  the task leaves its list before the counter is corrected; deleting a task
  inside `mq_timedsend` leaves its message in nobody's hands; a handler that
  sends between the test and the clearing of `ntpid` makes `NotifiedOnce` fail.
- `SemaphoreUse`: a wait between the test and the store of `nxsem_destroy` leaves
  a task in the list of a semaphore with count 1 (`sem_destroy.c:75`), and the
  posts that follow do not wake it.  `CountsWaiters` excepts such semaphores.
- `SemaphoreUse`: deleting a task that waits, with a post between the two halves,
  can leave another task blocked while `semcount` becomes positive.
- `UsbCdc` with `Signalable` writers: `LocksExclude` fails.  The driver ignores
  that its wait was interrupted and posts a lock that it does not hold
  (`test_driver.c:169`).
- `UsbCdc` with a task that runs out of descriptors: its `QueueReachable` fails
  for the reason of `term_leak_v`, whoever the task is.
- `MqFiles` with 3 tasks and `HeapWaits = {TRUE, FALSE}`, no handler and no
  failing heap: `NoDangling` fails.  `mq_open` waits for the heap between
  `inode_reserve` and `i_crefs = 1`; another open finds the inode without a type,
  fails with `ENXIO`, and its late release takes the reference of the first; then
  `mq_unlink` frees an open queue (the comment at `mq_unlink.c:164` relies on the
  reference).
- `MqFiles` with 3 tasks of 2 priorities, two of which unlink: an unlink that was
  overtaken by another and by a new `mq_open` removes the new queue, and the close
  that follows frees the queue while the descriptor is still in the table.  The
  owner is inside `mq_close` and holds its list of descriptors, so `NoDangling`
  excepts the descriptor that is being closed (`Closing`).
- `MqFiles` with 4 tasks of 2 priorities and `HeapMayFail`: the part of
  `NoDangling` about calls fails.  An `mq_open` whose queue got no memory calls
  `inode_release` for an inode whose count it never raised (`mq_open.c:250`), and
  so gives back the reference of another open that found the inode without a type
  and is about to release it; an overtaken unlink then frees the inode under that
  release.  Descriptors are not affected (`DescriptorsGood`).
- `MqFiles` with 2 tasks: `AtomicCreate` (the comment at `mq_open.c:131`, that the
  check and the creation are one step under `sched_lock`) fails, since
  `inode_find` may wait.  `file_mq_unlink` never gives back the reference that its
  search took, so the queue of an unlinked open inode is never freed (`lost`).  Two
  racing unlinks meet the assertion at `mq_unlink.c:162`.  A failed
  `nxmq_alloc_msgq` leaves an inode without a type under the name.
- `Kernel` with `ExitWakes`: `NotStranded` fails.  `nxtask_exit` raises the lock
  count of the next task while it notifies those that wait for the exit, and
  lowers it by hand (`task_exit.c:178`) without the merge that its comment
  expects of "unlocked".
- `Kernel` with `DeletePreempted`: `DeletedIsGone` fails.  `nxtask_terminate`
  takes a task from its list and stops its watchdog in different critical
  sections; `task_state` still says that the task waits, so a timeout in between
  puts it back into the ready list (`task_terminate.c:160`; "At this point, the
  TCB should no longer be accessible to the system").
- `Kernel` with `SharedTimers`: `TimersOwned` fails.  A task is inside
  `timer_settime` for a timer of another one, which exits and so releases the
  timer; the first then starts the watchdog of a timer that is free
  (`timer_settime.c:248`, `:282`).  `IsCountdown` holds there as well.
- `Kernel`: tasks of one priority do not keep their order when a task that holds
  `sched_lock` raises its own priority past a pending one.
- `Terminal` with `LeadingBlanks`: `IsLineEditor` fails, because after a command
  behind blanks Enter on an empty line runs that command again: the first word is
  searched behind the NUL that ends the line.  `LineFits` fails: the
  guard that ends a long line is commented out (`usb_terminal.c:446`).

## Theorems

All are proved for any finite set of tasks and any sizes, priorities and bounds,
from the named assumptions of the modules: callers are tasks, NULL is none of
them, sizes are natural numbers.  A hypothesis that a theorem has beside these is
named here with the reason.  `PrioListProofs` (insertion, search and removal in a
sorted list without duplicates) and `SemaphoreProofs` (the effect of each
semaphore operation) hold the lemmas that several modules use.

**Message queues** (`MsgQueueProofs`).

- `TypeCorrect`, `CallsCorrect`.  The inductive invariant is
  `Inv`, the conjunction of both: a step keeps its types only if the caller holds
  the message and waits for the queue that its place in the call says, and that
  is kept only between well-typed states.
- `WaitListsCorrect`.  First the effect of every action on the
  wait state is reduced to six cases (`WaitEffects`): nothing, block, wake,
  cancel, terminate, recover.  Each case keeps the lists by the lemmas on sorted
  lists.
- `WaitCountsCorrect`: a counter equals the number of waiters, by cardinality of
  the set of waiters with one element added or removed.
- `BestWaiterCorrect`: an action property, from the order of the lists: the
  first match in a sorted list is a best one.
- `QueueOrderCorrect`.  The strengthening adds that no message in a queue is newer
  than `nsent`; without it the new message could not be placed behind all equals.
- `ChannelImplemented`: every step is a send, a receive or a stutter of
  `PriorityChannel`.
- `WakeupsNotLost`, of `NoLostWakeup`.  `FlowInv` says of each
  queue that, while a receiver waits, the messages in it are at most the calls on
  their way to a message or to waking a receiver, and the same for senders and
  free places; `WakeInv` adds lists, counters and order.  Hypotheses: no deletion
  and a heap that does not fail, since such a task takes its wake-up along (see
  Findings).
- `NotificationsOnce`, of `NotifiedOnce`.  `sched_lock` has one owner (`LockInv`),
  and a task neither blocks nor waits for the heap between the copy of a
  registration and its detachment, so that no other task gets in between.  A
  handler may, and the property is about the sends of tasks only.
- `NobodyFaults`, of `NoFault`.  `FaultInv`: a receive that is about to search the
  list of waiting senders has seen a positive counter, and it is still positive.
  Hypotheses: no deletion and `SendersStay` (no timed send, and a sender that gets
  signals is the only receiver).  `race_v` shows what happens otherwise.
- `PoolsConserved`, of `PoolConservation`.  `PoolInv` counts
  the pairs of a queue and a position that hold a message of a pool, the calls that
  hold one, and the free list; each step moves one between two of them.
- `TaskMessagesBounded`, of `TaskMessagesFit`.  `FitInv` adds that a task between
  its test and its insertion still has room (`HasRoom`) unless it waited for the
  heap, in which case its message will be a late one (`IsLate`); and that the messages
  of tasks together with the late senders that are still on their way (`Late`)
  exceed `mq_maxmsg` by at most one for each sender.  A late sender that sends
  again has to see room again, which is why the excess does not grow.  What a
  handler queues is not a message of a task.

**Semaphores** (`SemaphoreUseProofs`).  `SemaphoreTypes`, `CountsAreWaiters`,
`WaitListHoldsWaiters` and the action property `BestWaiterIsWoken` rest on one
inductive invariant, `IInv`: types; the list is the waiting tasks but for those
that are between the two halves of a deletion (`Listed`); a task waits only inside
a call; and count and waiters agree exactly until a first deletion begins, in one
direction after it, but for semaphores destroyed while in use (`CountOK`).  A
destruction whose store finds no waiter keeps this, whatever came after its test.  `nxsem_reset` is a loop of posts; what its
recursive function `PostLoop` does is proved by the least number of posts at
which the claim would fail.

**The driver** (`UsbCdcProofs`).  `IInv` is: the semaphores are consistent and a
task waits only in the two calls of `nxsem_wait` (`SemInv`), descriptors, locals
and places fit each other (`TaskInv`), the receive side (`RxInv`: every task that
will close the queue has a reference, and the free structures, the queue and the
readers about to free one make up the pool), the transmit side (`TxInv`) and the
flags (`FlagInv`).

- `DriverTypes`, `StructuresAccounted` follow from it.
- `BytesInOrder`, of `ReadInOrder`.  `OrderInv`: what was read, the queue and the
  receive buffer are increasing, each below the next; by `RxInv` none is beyond
  the last byte sent.
- `BytesKept`, of the action property `NoByteLost`: the step of each operation
  leaves that concatenation as it is or appends the bytes of the host, except for
  the three reasons that the property names.
- `LocksAreExclusive`, of `LocksExclude`.  `LockInv`: the count of a
  lock is one minus the tasks between the wait and the post, those that still wait
  included, and at most one of them does not wait.  Hypothesis: `Signalable = {}`, because `cdc_read` and
  `cdc_write` ignore what `nxsem_wait` returned (see Findings).
- `WritesStayTogether`, of `WritesNotMixed`, from the above and `MixInv`: the
  strings are counted, a call has begun before its bytes are in `txlog`, and
  while a call goes on nobody else's call has written after it.  Same hypothesis.
- `StringsCountedRight`, of `PrintedCounted`.  `CountInv` ties the bytes of a task
  in `txlog` to the strings it has finished, what the writes of the present one
  returned and what the present write has counted so far; a byte enters the log
  exactly when the count of its call goes up (`WriteByteCounts`), and nobody else
  adds bytes of that task (`OtherBytes`).  No hypothesis: the host reads at any
  moment, and neither the lock nor the absence of signals is needed.  That the
  bytes are also the right ones is false (`print_v`).

**Names, inodes and descriptors** (`MqFilesProofs`).

- `FilesTypes`, of `TypeOK`.  `TypeInv` adds that the inode semaphore's list is
  consistent, by the lemmas of `SemaphoreProofs`, and that a call has the name,
  inode and descriptor that its place needs (`CallInv`).
- `FilesRefsCounted`, of `RefsCounted`, and `FilesNamesReach`, of `NamesReach`.
  Neither is inductive alone: an inode is freed by what its count says, so whoever
  has the last reference must be known to be alone with it (`Alone`), and a name
  is removed by what the tree says.  `RefInv` joins both with `HoldersOK` (the
  type, name and queue of the inode of each call, by its place, and of each
  descriptor), `NodeInv` and `TreeInv` (the inode of a name has that name, is not
  deleted and has its queue), and `NewInv`: a task between `inode_reserve` and
  `i_crefs = 1` has `sched_lock`, and nobody refers to its inode.  `ChangeOK` says
  what a step may do to the inodes that other tasks refer to; each action is shown
  to respect it.  Hypothesis: `TRUE \notin HeapWaits`, that `nxmq_alloc_msgq` does
  not wait for the heap, since then `sched_lock` keeps nobody out (see Findings).
  Waiting for the inode semaphore, which gives up `sched_lock` as well, is allowed
  everywhere.
- `DescriptorsGood`: the parts of `NoDangling` about descriptors and names, from
  `RefInv`, also when allocations fail.
- `FilesNoDangling`, of `NoDangling`.  Additional hypothesis `~HeapMayFail`: the
  cleanup after a failed allocation takes a reference that is not its own (see
  Findings).  `PlainInv`: an inode without its queue is only met by its creator.

**The terminal** (`TerminalProofs`).

- `TerminalTypes`, of `TypeOK`: it is inductive, given that a search in a buffer
  ends within it and that a string in a buffer is no longer than it.
- `BuffersAreLine`, of `IsLineEditor`: each key is a step of `LineEditor`.
  `LineInv`: neither buffer begins with a blank, and before the index there is no
  NUL of an earlier line.  Then the first word that Enter cuts out is the first
  word that was typed, whether the blank, the index or an old NUL ends it.
  Hypothesis: `~LeadingBlanks` (see Findings).

**Tasks, waits and timers** (`KernelProofs`).

- `ListsCorrect`, of `ListsOrdered`.  `Holds` says that the two lists hold two
  disjoint sets of tasks in order of priority, with idle last; every function of
  `Sched` is shown to take such lists to such lists, with the sets it leaves.
  `ListInv` says which sets: the tasks that do not wait.  The loop of
  `nxsched_merge_pending` is a recursive function, treated by the least turn at
  which the claim would fail.  Hypothesis: `~DeletePreempted`; a timeout in the
  middle of `nxtask_terminate` puts a task without a state back into a list.
- `NobodyStranded`, of `NotStranded`.  `Served`: nothing is pending unless the head
  of the ready list holds `sched_lock`.  Additional hypothesis `~ExitWakes`,
  because `nxtask_exit` lowers the lock count without looking at what became
  pending (see Findings).
- `LockKeepsTask`, of the action property `LockKeepsProcessor`, from `ListInv`.
- `NoTimeoutStrays` and `TimersHaveOwners`, of `NoStrayTimeout` and `TimersOwned`,
  and `WatchdogsCountDown`, of the refinement `IsCountdown`.  One invariant serves
  all three, `TimerInv`: the watchdog list has no duplicates and the sums of its
  lags fit 32 bits (`WdGood`), and every active watchdog belongs to a timed wait
  or to a timer whose owner lives; `SettingInv` adds that a task inside
  `timer_settime` still owns the timer it sets, unless `SharedTimers`.  The refinement needs what each operation does
  to the sums of the lags (`Expiry`): a cancel gives its lag to the next watchdog
  and a start takes it from there, so that all other sums stay; a tick lowers
  all of them by one.  Deleting all timers of a task is a loop of cancels, shown
  equal to one step of `Countdown` that stops a set of timers.  `TimersHaveOwners`
  has the hypothesis `~SharedTimers`, since otherwise the owner may go between two
  steps of `timer_settime` of another task (see Findings); the other two have
  none.  All hold with preempted deletions and waking exits as well.

Model-checked only: the liveness properties (`WaitersServed`, `TimedWaitEnds`,
 `PrintEnds`, `CallsReturn`, `ReadyRuns`), since fairness and
ENABLED are out of the prover's reach.  Every invariant, action property and
refinement of the passing runs is proved.

## Not modelled

The USB library and the hardware; line coding (`cdc_ioctl`), which only sets and
prints UART registers; priority inheritance, SMP, sporadic scheduling and the
tickless clock, which the board does not configure; cancellation points;
`task_restart`; the signals that timers send and everything of signals but the
end of a wait; a change of scheduling policy; deletion of a task that holds a
semaphore, which loses the semaphore as the code's own comment says; paths,
directories and mount points; the parameters of terminal commands, which the
commands ignore; `USBTerminalBackup`, the silent mode, `usb_terminal_delete_cmd`
and `putchar_usb`, which nothing calls; `putchar_usb_app`, which prints erasures
and the blanks of the help text and takes its character for an address
(`strlen(c)`, `usb_terminal.c:97`), so that what it writes is undefined; a NUL byte
from the host, which the terminal would store as a key; the heap, beyond that an
allocation may fail or wait; a timer created anew over a released one whose
watchdog was started again; `mq_maxmsg` values that do not fit its
16-bit field; start-up; the network stack, the memory manager and the drivers and
boards that this device does not use.  `PROJECT.json` lists every component with
the reason.

## Plan

What the models could still take in: task restart, the signals of timers, the
deletion of tasks that hold a lock, and a change of scheduling policy.  A weaker
hypothesis than `HeapWaits = {FALSE}` for `MqFiles` (opens that wait for the heap
while nobody unlinks) and the consistency of counts after a deletion in
`SemaphoreUse` in both directions are the next theorems worth stating.
