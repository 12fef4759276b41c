------------------------------- MODULE UsbCdc -------------------------------
(***************************************************************************)
(* The driver of /dev/usb0 (test_driver.c, USB/cdc/virtual_com.c) and the  *)
(* printing loop of the terminal.  A byte from the host goes from the USB  *)
(* receive buffer, in the interrupt handler, to the message queue          *)
(* /usb_queue and is echoed; cdc_read takes it from there.  cdc_write puts *)
(* bytes one by one into the transmit buffer, from which the host reads.   *)
(* sRead and sWrite are meant as locks.  The vendor's USB library is not   *)
(* part of the repository: its two buffers are modelled from their use.    *)
(***************************************************************************)
EXTENDS Semaphore

CONSTANTS
    Readers, Writers,    \* tasks that call cdc_read, printf_usb_app
    Direct,              \* tasks that call printf_usb, for the command "ver"
    Signalable,          \* tasks that get unmasked signals
    Openers,             \* tasks that also open other files
    sRead, sWrite,       \* the two semaphores
    TxSize, RxSize,      \* sizes of the USB buffers
    Chunk,               \* bytes that a receive event takes (32)
    Packet,              \* bytes in a packet of the host
    PoolSize,            \* message structures that a handler may allocate
    NFILES,              \* descriptors of a task
    TextLen,             \* characters of a printed string
    \* Bounds: bytes the host sends, connections, strings printed by a task.
    MaxBytes, MaxConnects, MaxPrints

ASSUME UsbAssumption ==
    /\ Readers \subseteq Tasks /\ Writers \subseteq Tasks /\ Direct \subseteq Tasks
    /\ Signalable \subseteq Tasks /\ Openers \subseteq Tasks
    /\ sRead # sWrite /\ Sems = {sRead, sWrite}
    /\ TxSize \in Nat \ {0} /\ RxSize \in Nat \ {0} /\ Chunk \in Nat \ {0}
    /\ Packet \in Nat /\ PoolSize \in Nat /\ NFILES \in Nat
    /\ TextLen \in Nat \ {0}
    /\ NONE \notin Tasks
    /\ MaxBytes \in Nat /\ MaxConnects \in Nat /\ MaxPrints \in Nat

VARIABLES
    pc,               \* where a task is
    written_char,     \* of printf_usb_app: characters counted as written
    pos, nbytes,      \* of cdc_write: bytes tried, bytes accepted
    prints,           \* strings a task has printed
    files,            \* descriptors in use of a task
    rxBuffer,         \* bytes from the host, numbered in order
    sent,             \* bytes the host has sent
    queue, linked,    \* /usb_queue, and whether its name still exists
    crefs,            \* references to the inode of the queue
    nfree,            \* free message structures
    got,              \* the bytes read, in order
    txlen,            \* bytes in the transmit buffer
    txlog,            \* every byte the buffer accepted, in order
    connects,         \* connections of the host
    g_bUSBConfigured  \* the host is connected

rxVars == <<rxBuffer, sent>>
queueVars == <<queue, linked, crefs, nfree>>
txVars == <<txlen, txlog>>
writeVars == <<written_char, pos, nbytes, prints>>
hostVars == <<connects, g_bUSBConfigured>>
vars == <<semVars, pc, writeVars, files, rxVars, queueVars, got, txVars, hostVars>>

ReadSteps == {"lock_r", "open", "alloc", "recv", "free", "post", "post_fd", "close"}
WriteSteps == {"print", "lock_w", "write", "direct"}

Origins == Tasks \cup {NONE}
TxBytes == [src : Origins, call : Nat \X Nat, char : Nat]

\* The `call` of bytes that are not written by cdc_write.
UNLOCKED == <<0, 0>>

\* Every variable keeps its type, and no buffer, table or
\* counter passes its limit.
TypeOK ==
    /\ SemTypeOK
    /\ pc \in [Tasks -> {"out"} \cup ReadSteps \cup WriteSteps]
    /\ written_char \in [Tasks -> 0..TextLen]
    /\ pos \in [Tasks -> 0..TextLen] /\ nbytes \in [Tasks -> 0..TextLen]
    /\ prints \in [Tasks -> Nat] /\ files \in [Tasks -> 0..NFILES]
    /\ rxBuffer \in Seq(1..sent) /\ Len(rxBuffer) <= RxSize /\ sent \in Nat
    /\ queue \in Seq(1..sent) /\ linked \in BOOLEAN
    /\ crefs \in Nat /\ nfree \in 0..PoolSize
    /\ got \in Seq(1..sent)
    /\ txlen \in 0..TxSize /\ txlog \in Seq(TxBytes)
    /\ connects \in Nat /\ g_bUSBConfigured \in BOOLEAN

\* After up_usbcdc: both semaphores were posted once, Virtual_Comm_Init has
\* created the queue and closed it.
Init ==
    /\ SemInit([s \in Sems |-> 1])
    /\ pc = [t \in Tasks |-> "out"]
    /\ written_char = [t \in Tasks |-> 0]
    /\ pos = [t \in Tasks |-> 0] /\ nbytes = [t \in Tasks |-> 0]
    /\ prints = [t \in Tasks |-> 0] /\ files = [t \in Tasks |-> 0]
    /\ rxBuffer = <<>> /\ sent = 0
    /\ queue = <<>> /\ linked = TRUE /\ crefs = 0 /\ nfree = PoolSize
    /\ got = <<>> /\ txlen = 0 /\ txlog = <<>>
    /\ connects = 0 /\ g_bUSBConfigured = FALSE

Least(a, b) == IF a < b THEN a ELSE b
Goto(t, label) == pc' = [pc EXCEPT ![t] = label]
HasFile(t) == files[t] < NFILES

\* (void)nxsem_wait(&s): whatever the wait returns, the caller goes on.
WaitIgnored(t, s, blocked, next) ==
    \/ /\ pc[t] # blocked /\ TakeCount(t, s) /\ Goto(t, next)
    \/ /\ pc[t] # blocked /\ BlockOn(t, s) /\ Goto(t, blocked)
    \/ /\ pc[t] = blocked /\ task_state[t] = "READY" /\ Goto(t, next)
       /\ UNCHANGED semVars

-----------------------------------------------------------------------------
\* cdc_read.
ReadLock(t) ==
    /\ t \in Readers /\ pc[t] \in {"out", "lock_r"}
    /\ WaitIgnored(t, sRead, "lock_r", "open")
    /\ UNCHANGED <<writeVars, files, rxVars, queueVars, got, txVars, hostVars>>

\* file_mq_vopen: without O_CREAT the queue must exist.
MqVopen(t) ==
    /\ pc[t] = "open"
    /\ \/ linked /\ crefs' = crefs + 1 /\ Goto(t, "alloc")
       \/ ~linked /\ crefs' = crefs /\ Goto(t, "post")
    /\ UNCHANGED <<semVars, writeVars, files, rxVars, queue, linked, nfree,
                   got, txVars, hostVars>>

\* Defect: the queue is freed and its messages are not.
UnlinkLeaks(refs) ==
    /\ linked' = FALSE
    /\ crefs' = IF linked THEN refs + 1 ELSE refs
    /\ queue' = IF linked /\ refs = 0 THEN <<>> ELSE queue
    /\ UNCHANGED nfree

\* The error path of nxmq_vopen when the task has no free descriptor: close
\* the queue, which leaves refs references, and unlink it, because `created`
\* is 1 for a queue that existed.  file_mq_unlink takes a reference that it
\* never gives back; the messages are freed if it is the only one.
CloseAndUnlink(refs) ==
    /\ linked' = FALSE
    /\ crefs' = IF linked THEN refs + 1 ELSE refs
    /\ IF linked /\ refs = 0
       THEN queue' = <<>> /\ nfree' = nfree + Len(queue)
       ELSE UNCHANGED <<queue, nfree>>

\* files_allocate, in nxmq_vopen.
FilesAllocate(t) ==
    /\ pc[t] = "alloc"
    /\ \/ /\ HasFile(t)
          /\ files' = [files EXCEPT ![t] = @ + 1]
          /\ Goto(t, "recv")
          /\ UNCHANGED queueVars
       \/ /\ ~HasFile(t)
          /\ CloseAndUnlink(crefs - 1)
          /\ Goto(t, "post")
          /\ UNCHANGED files
    /\ UNCHANGED <<semVars, writeVars, rxVars, got, txVars, hostVars>>

\* mq_receive with O_NONBLOCK: take the first message, or fail with EAGAIN.
MqReceive(t) ==
    /\ pc[t] = "recv"
    /\ \/ /\ queue # <<>>
          /\ got' = Append(got, Head(queue)) /\ queue' = Tail(queue)
          /\ Goto(t, "free")
       \/ /\ queue = <<>>
          /\ Goto(t, "post_fd")
          /\ UNCHANGED <<queue, got>>
    /\ UNCHANGED <<semVars, writeVars, files, rxVars, linked, crefs, nfree,
                   txVars, hostVars>>

\* nxmq_free_msg, at the end of mq_receive.
FreeMessage(t) ==
    /\ pc[t] = "free"
    /\ nfree' = nfree + 1
    /\ Goto(t, "post_fd")
    /\ UNCHANGED <<semVars, writeVars, files, rxVars, queue, linked, crefs, got,
                   txVars, hostVars>>

\* Defect: the lock is given back only when a message was received.
UnlockIfReceived(t) ==
    /\ pc[t] \in {"post", "post_fd"}
    /\ IF queue = <<>> THEN UNCHANGED semVars ELSE nxsem_post(sRead)
    /\ Goto(t, IF pc[t] = "post" THEN "out" ELSE "close")
    /\ UNCHANGED <<writeVars, files, rxVars, queueVars, got, txVars, hostVars>>

ReadUnlock(t) ==
    /\ pc[t] \in {"post", "post_fd"}
    /\ nxsem_post(sRead)
    /\ Goto(t, IF pc[t] = "post" THEN "out" ELSE "close")
    /\ UNCHANGED <<writeVars, files, rxVars, queueVars, got, txVars, hostVars>>

\* mq_close: nxmq_file_close frees an unlinked queue with its last reference.
MqClose(t) ==
    /\ pc[t] = "close"
    /\ files' = [files EXCEPT ![t] = @ - 1]
    /\ crefs' = crefs - 1
    /\ IF crefs <= 1 /\ ~linked
       THEN queue' = <<>> /\ nfree' = nfree + Len(queue)
       ELSE UNCHANGED <<queue, nfree>>
    /\ Goto(t, "out")
    /\ UNCHANGED <<semVars, writeVars, rxVars, linked, got, txVars, hostVars>>

-----------------------------------------------------------------------------
\* printf_usb_app: open the device.  When no descriptor is free, every write
\* fails and the loop ends, after 2^32 turns, with nothing written.
PrintStart(t) ==
    /\ t \in Writers /\ pc[t] = "out" /\ prints[t] < MaxPrints
    /\ prints' = [prints EXCEPT ![t] = @ + 1]
    /\ \/ /\ HasFile(t)
          /\ files' = [files EXCEPT ![t] = @ + 1]
          /\ written_char' = [written_char EXCEPT ![t] = 0]
          /\ Goto(t, "print")
       \/ /\ ~HasFile(t)
          /\ UNCHANGED <<files, written_char, pc>>
    /\ UNCHANGED <<semVars, pos, nbytes, rxVars, queueVars, got, txVars, hostVars>>

\* Defect: the writers do not lock.
WriteUnlocked(t) ==
    /\ pc[t] \in {"print", "lock_w"}
    /\ Goto(t, "write")
    /\ pos' = [pos EXCEPT ![t] = written_char[t]]
    /\ nbytes' = [nbytes EXCEPT ![t] = 0]
    /\ UNCHANGED <<semVars, written_char, prints, files, rxVars, queueVars, got,
                   txVars, hostVars>>

\* cdc_write, of the string from written_char on.
WriteLock(t) ==
    /\ pc[t] \in {"print", "lock_w"}
    /\ WaitIgnored(t, sWrite, "lock_w", "write")
    /\ pos' = [pos EXCEPT ![t] = written_char[t]]
    /\ nbytes' = [nbytes EXCEPT ![t] = 0]
    /\ UNCHANGED <<written_char, prints, files, rxVars, queueVars, got, txVars,
                   hostVars>>

\* USBBufferWrite of one byte: accepted when there is room.
WriteByte(t) ==
    /\ pc[t] = "write" /\ pos[t] < TextLen
    /\ pos' = [pos EXCEPT ![t] = @ + 1]
    /\ IF txlen < TxSize
       THEN /\ nbytes' = [nbytes EXCEPT ![t] = @ + 1]
            /\ txlen' = txlen + 1
            /\ txlog' = Append(txlog, [src |-> t, char |-> pos[t] + 1,
                                       call |-> <<prints[t], written_char[t]>>])
       ELSE UNCHANGED <<nbytes, txVars>>
    /\ UNCHANGED <<semVars, pc, written_char, prints, files, rxVars, queueVars,
                   got, hostVars>>

\* Defect: the lock is kept for the rest of the string.
UnlockForgetsPost(t) ==
    /\ pc[t] = "write" /\ pos[t] = TextLen
    /\ written_char' = [written_char EXCEPT ![t] = @ + nbytes[t]]
    /\ IF written_char[t] + nbytes[t] = TextLen
       THEN /\ files' = [files EXCEPT ![t] = @ - 1] /\ Goto(t, "out")
            /\ nxsem_post(sWrite)
       ELSE UNCHANGED <<files, semVars>> /\ Goto(t, "print")
    /\ UNCHANGED <<pos, nbytes, prints, rxVars, queueVars, got, txVars, hostVars>>

\* Defect: the loop starts again from the beginning of the string.
UnlockStartsAgain(t) ==
    /\ pc[t] = "write" /\ pos[t] = TextLen
    /\ nxsem_post(sWrite)
    /\ UNCHANGED written_char
    /\ IF written_char[t] + nbytes[t] = TextLen
       THEN files' = [files EXCEPT ![t] = @ - 1] /\ Goto(t, "out")
       ELSE UNCHANGED files /\ Goto(t, "print")
    /\ UNCHANGED <<pos, nbytes, prints, rxVars, queueVars, got, txVars, hostVars>>

\* The end of cdc_write, and of a turn of printf_usb_app's loop.
WriteUnlock(t) ==
    /\ pc[t] = "write" /\ pos[t] = TextLen
    /\ nxsem_post(sWrite)
    /\ written_char' = [written_char EXCEPT ![t] = @ + nbytes[t]]
    /\ IF written_char[t] + nbytes[t] = TextLen
       THEN files' = [files EXCEPT ![t] = @ - 1] /\ Goto(t, "out")
       ELSE UNCHANGED files /\ Goto(t, "print")
    /\ UNCHANGED <<pos, nbytes, prints, rxVars, queueVars, got, txVars, hostVars>>

\* printf_usb, which writes to the transmit buffer without the driver and its
\* lock: USBBufferWrite takes what has room, until all is taken.
PrintfStart(t) ==
    /\ t \in Direct /\ pc[t] = "out" /\ prints[t] < MaxPrints
    /\ prints' = [prints EXCEPT ![t] = @ + 1]
    /\ written_char' = [written_char EXCEPT ![t] = 0]
    /\ Goto(t, "direct")
    /\ UNCHANGED <<semVars, pos, nbytes, files, rxVars, queueVars, got, txVars,
                   hostVars>>
PrintfWrite(t) ==
    LET n == Least(TextLen - written_char[t], TxSize - txlen)
    IN  /\ pc[t] = "direct"
        /\ written_char' = [written_char EXCEPT ![t] = @ + n]
        /\ txlen' = txlen + n
        /\ txlog' = txlog \o [i \in 1..n |-> [src |-> t, call |-> UNLOCKED,
                                              char |-> written_char[t] + i]]
        /\ Goto(t, IF written_char[t] + n = TextLen THEN "out" ELSE "direct")
        /\ UNCHANGED <<semVars, pos, nbytes, prints, files, rxVars, queueVars, got,
                       hostVars>>

-----------------------------------------------------------------------------
\* The interrupt handler.  It runs to its end on behalf of the interrupted
\* task t, whose descriptors it uses; NONE is the idle task.

\* Defect: the last byte of a chunk is left out of the queue.
PrimeDropsLast(t, bytes) ==
    LET n == Least(Chunk, Len(bytes))
        queued == Least(IF n > 0 THEN n - 1 ELSE 0, nfree)
        echoed == Least(n, TxSize - txlen)
    IN  /\ rxBuffer' = SubSeq(bytes, n + 1, Len(bytes))
        /\ queue' = queue \o SubSeq(bytes, 1, queued)
        /\ nfree' = nfree - queued
        /\ txlen' = txlen + echoed
        /\ txlog' = txlog \o [i \in 1..echoed |->
                                [src |-> NONE, call |-> UNLOCKED, char |-> bytes[i]]]
        /\ UNCHANGED <<linked, crefs>>

\* Defect: the chunk stays in the buffer and is queued again.
PrimeRepeats(t, bytes) ==
    LET n == Least(Chunk, Len(bytes))
        queued == Least(n, nfree)
    IN  /\ rxBuffer' = bytes
        /\ queue' = queue \o SubSeq(bytes, 1, queued)
        /\ nfree' = nfree - queued
        /\ UNCHANGED <<linked, crefs, txVars>>

\* USBUARTPrimeTransmit: every byte of a chunk is sent to the queue, with a
\* descriptor of t, and echoed.  A send fails when no message is free, and an
\* echo when the transmit buffer is full; the handler goes on.
USBUARTPrimeTransmit(t, bytes) ==
    LET n == Least(Chunk, Len(bytes))
        opens == linked /\ (t = NONE \/ HasFile(t))
        queued == IF opens THEN Least(n, nfree) ELSE 0
        echoed == Least(n, TxSize - txlen)
    IN  /\ rxBuffer' = SubSeq(bytes, n + 1, Len(bytes))
        /\ IF n > 0 /\ linked /\ ~opens
           THEN CloseAndUnlink(crefs)
           ELSE /\ queue' = queue \o SubSeq(bytes, 1, queued)
                /\ nfree' = nfree - queued
                /\ UNCHANGED <<linked, crefs>>
        /\ txlen' = txlen + echoed
        /\ txlog' = txlog \o [i \in 1..echoed |->
                                [src |-> NONE, call |-> UNLOCKED, char |-> bytes[i]]]

\* RxHandler, USB_EVENT_RX_AVAILABLE: a packet of n bytes came (external: the
\* library stores it first; n = 0 reports again what is left in the buffer).
RxHandler(t, n) ==
    /\ t # NONE => task_state[t] = "READY"
    /\ g_bUSBConfigured /\ sent + n <= MaxBytes
    /\ Len(rxBuffer) + n \in 1..RxSize
    /\ sent' = sent + n
    /\ USBUARTPrimeTransmit(t, rxBuffer \o [i \in 1..n |-> sent + i])
    /\ UNCHANGED <<semVars, pc, writeVars, files, got, hostVars>>

\* ControlHandler: both buffers are flushed when the host connects.
ControlConnected ==
    /\ ~g_bUSBConfigured /\ connects < MaxConnects
    /\ g_bUSBConfigured' = TRUE /\ connects' = connects + 1
    /\ rxBuffer' = <<>> /\ txlen' = 0
    /\ UNCHANGED <<semVars, pc, writeVars, files, sent, queueVars, got, txlog>>
ControlDisconnected ==
    /\ g_bUSBConfigured /\ connects < MaxConnects
    /\ g_bUSBConfigured' = FALSE
    /\ UNCHANGED <<semVars, pc, writeVars, files, rxVars, queueVars, got, txVars,
                   connects>>

\* The host reads a byte of the transmit buffer (external), TxHandler ignores
\* the event.
TxHandler ==
    /\ g_bUSBConfigured /\ txlen > 0
    /\ txlen' = txlen - 1
    /\ UNCHANGED <<semVars, pc, writeVars, files, rxVars, queueVars, got, txlog,
                   hostVars>>

\* An unmasked signal ends the wait of a task for a semaphore.
SignalTask(t) ==
    /\ t \in Signalable
    /\ nxsem_wait_irq(t, "EINTR")
    /\ UNCHANGED <<pc, writeVars, files, rxVars, queueVars, got, txVars, hostVars>>

\* A task opens or closes another file.
OpenFile(t) ==
    /\ t \in Openers /\ pc[t] = "out" /\ HasFile(t)
    /\ files' = [files EXCEPT ![t] = @ + 1]
    /\ UNCHANGED <<semVars, pc, writeVars, rxVars, queueVars, got, txVars, hostVars>>
CloseFile(t) ==
    /\ t \in Openers /\ pc[t] = "out" /\ files[t] > 0
    /\ files' = [files EXCEPT ![t] = @ - 1]
    /\ UNCHANGED <<semVars, pc, writeVars, rxVars, queueVars, got, txVars, hostVars>>

Step(t) ==
    \/ MqVopen(t) \/ FilesAllocate(t) \/ MqReceive(t)
    \/ FreeMessage(t) \/ ReadUnlock(t) \/ MqClose(t)
    \/ WriteLock(t) \/ WriteByte(t) \/ WriteUnlock(t)
    \/ PrintfWrite(t)

Next ==
    \/ \E t \in Tasks :
         Step(t) \/ ReadLock(t) \/ PrintStart(t) \/ PrintfStart(t) \/ SignalTask(t)
           \/ OpenFile(t) \/ CloseFile(t)
    \/ \E t \in Origins, n \in 0..Packet : RxHandler(t, n)
    \/ ControlConnected \/ ControlDisconnected \/ TxHandler

Spec == Init /\ [][Next]_vars

\* Every task that is ready runs, which time slices give to tasks of equal
\* priority; the host comes back after a disconnection and reads what is sent
\* to it whenever it gets the chance again and again.
Fairness ==
    /\ \A t \in Tasks : WF_vars(Step(t)) /\ WF_vars(pc[t] = "lock_r" /\ ReadLock(t))
    /\ SF_vars(ControlConnected) /\ SF_vars(TxHandler)
FairSpec == Spec /\ Fairness

-----------------------------------------------------------------------------
\* Tasks between the return of the wait and the post.
Inside(s) ==
    {t \in Tasks :
       \/ s = sWrite /\ pc[t] = "write"
       \/ s = sRead /\ pc[t] \in {"open", "alloc", "recv", "free", "post", "post_fd"}
       \/ /\ pc[t] = (IF s = sWrite THEN "lock_w" ELSE "lock_r")
          /\ task_state[t] = "READY"}

\* sRead and sWrite are locks: one task at a time is between the wait and the
\* post, and the count says exactly who is inside and who waits.
LocksExclude ==
    \A s \in Sems :
      /\ Cardinality(Inside(s)) <= 1
      /\ semcount[s] = 1 - Cardinality(Inside(s)) - Cardinality(WaitingFor(s))

\* The bytes of one cdc_write reach the transmit buffer without bytes of
\* another task's cdc_write between them.  Echoed bytes and those of
\* printf_usb may come in between.
WritesNotMixed ==
    \A i, j, k \in DOMAIN txlog :
      /\ i < j /\ j < k
      /\ txlog[i].src = txlog[k].src
      /\ txlog[i].call = txlog[k].call /\ txlog[i].call # UNLOCKED
      => txlog[j].src = txlog[i].src \/ txlog[j].call = UNLOCKED

\* Bytes are delivered in the order in which the host sent them and none
\* twice, whatever is lost on the way.
ReadInOrder ==
    LET all == got \o queue \o rxBuffer
    IN  \A i, j \in DOMAIN all : i < j => all[i] < all[j]

\* A byte is lost only when there is no message structure left to carry it,
\* when the queue is gone, or when a new connection flushes the buffers: every
\* other step keeps what was sent, in its place between host and reader.
NoByteLost ==
    [][LET all == got \o queue \o rxBuffer
       IN  \/ all' = all \o [i \in 1..(sent' - sent) |-> sent + i]
           \/ nfree' = 0 \/ ~linked' \/ connects' # connects]_vars

\* A message structure is free, in the queue, or with a task that is about to
\* free it, also when the queue is unlinked under a reader.
MessagesAccounted ==
    nfree + Len(queue) + Cardinality({t \in Tasks : pc[t] = "free"}) = PoolSize

\* The places in the log of what cdc_write has written of string p of a task.
BytesOf(log, t, p) == {i \in DOMAIN log : log[i].src = t /\ log[i].call[1] = p}

\* How many characters of string p may be in the log: as many as the task has
\* counted while it prints it, and before and after that all or none.
MayHave(t, p) ==
    IF p = prints[t] /\ pc[t] \in {"print", "lock_w"} THEN {written_char[t]}
    ELSE IF p = prints[t] /\ pc[t] = "write" THEN {written_char[t] + nbytes[t]}
    ELSE IF p > prints[t] THEN {0} ELSE {0, TextLen}

\* printf_usb_app brings exactly as many bytes of a string into the transmit
\* buffer as the string has characters, or none when it got no descriptor:
\* none is counted that was refused and none forgotten that was accepted, in
\* all the turns of the loop and whatever host and other tasks do meanwhile.
PrintedCounted ==
    \A t \in Tasks, p \in 1..MaxPrints :
      Cardinality(BytesOf(txlog, t, p)) \in MayHave(t, p)

\* The character that a task prints after its c-th.
After(c) == IF c = TextLen THEN 1 ELSE c + 1

\* The character c continues what the first n bytes of a log have of task t.
Follows(log, n, t, c) ==
    LET mine == {j \in 1..n : log[j].src = t}
    IN  /\ mine = {} => c = 1
        /\ \A j \in mine : (\A k \in mine : k <= j) => c = After(log[j].char)

\* "nx_write() writes up to nytes bytes [...] from the buffer starting at buf"
\* and returns how many: what the transmit buffer has accepted of a string is
\* the beginning of that string, from which printf_usb_app goes on.  But
\* cdc_write tries the characters behind one that was refused, and counts
\* those that are taken once the host has made room.
PrintedInOrder ==
    \A i \in DOMAIN txlog :
      txlog[i].src \in Writers \cup Direct =>
        Follows(txlog, i - 1, txlog[i].src, txlog[i].char)

\* mq_open finds the queue that Virtual_Comm_Init has created.
QueueReachable == linked

\* printf_usb_app and printf_usb end when the host reads.
PrintEnds == \A t \in Tasks : pc[t] \in WriteSteps ~> pc[t] = "out"
=============================================================================
