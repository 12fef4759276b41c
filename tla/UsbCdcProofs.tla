---------------------------- MODULE UsbCdcProofs ----------------------------
(***************************************************************************)
(* The invariants of UsbCdc, for every set of tasks, buffer size, packet   *)
(* and string length.                                                      *)
(***************************************************************************)
EXTENDS UsbCdc, SemaphoreProofs

(***************************************************************************)
(* The tasks that are at one of the labels L, when p says where they are.  *)
(***************************************************************************)
At(p, L) == {t \in Tasks : p[t] \in L}

(***************************************************************************)
(* A task waits only in one of the two calls of nxsem_wait, and there for  *)
(* the lock of that call.                                                  *)
(***************************************************************************)
WaitPlace ==
    \A t \in Tasks :
      /\ task_state[t] \in {"READY", "WAIT_SEM"}
      /\ task_state[t] = "WAIT_SEM" =>
           \/ pc[t] = "lock_r" /\ waitsem[t] = sRead
           \/ pc[t] = "lock_w" /\ waitsem[t] = sWrite
SemInv == SemTypeOK /\ Listed(SemState, {}) /\ WaitPlace

(***************************************************************************)
(* Where a task holds a descriptor, and where a reference to the queue.    *)
(***************************************************************************)
WithFile == {"recv", "free", "post_fd", "close", "print", "lock_w", "write"}
WithQueue == {"alloc", "recv", "free", "post_fd", "close"}
Labels == {"out"} \cup ReadSteps \cup WriteSteps

(***************************************************************************)
(* The type of the variables of tasks, with what makes it inductive: a     *)
(* task that will close a file has one, and cdc_write has not accepted     *)
(* more than it has tried.                                                 *)
(***************************************************************************)
TaskInv ==
    /\ pc \in [Tasks -> Labels]
    /\ written_char \in [Tasks -> 0 .. TextLen]
    /\ pos \in [Tasks -> 0 .. TextLen] /\ nbytes \in [Tasks -> 0 .. TextLen]
    /\ prints \in [Tasks -> Nat] /\ files \in [Tasks -> 0 .. NFILES]
    /\ \A t \in Tasks : pc[t] \in WithFile => files[t] >= 1
    /\ \A t \in Tasks : pc[t] = "write" => written_char[t] + nbytes[t] <= pos[t]

(***************************************************************************)
(* The same for what comes from the host: every task that will close the   *)
(* queue has a reference, and every message structure is accounted for.    *)
(***************************************************************************)
RxInv ==
    /\ rxBuffer \in Seq(1 .. sent) /\ Len(rxBuffer) <= RxSize /\ sent \in Nat
    /\ queue \in Seq(1 .. sent) /\ got \in Seq(1 .. sent)
    /\ crefs \in Nat /\ crefs >= Cardinality(At(pc, WithQueue))
    /\ nfree \in Nat
    /\ nfree + Len(queue) + Cardinality(At(pc, {"free"})) = PoolSize

(***************************************************************************)
(* And for what goes to the host.                                          *)
(***************************************************************************)
TxInv ==
    /\ txlen \in 0 .. TxSize /\ txlog \in Seq(TxBytes)
    /\ connects \in Nat

(***************************************************************************)
(* The two flags.                                                          *)
(***************************************************************************)
FlagInv == linked \in BOOLEAN /\ g_bUSBConfigured \in BOOLEAN

(***************************************************************************)
(* The inductive invariant.                                                *)
(***************************************************************************)
IInv == SemInv /\ TaskInv /\ RxInv /\ TxInv /\ FlagInv

-----------------------------------------------------------------------------
(***************************************************************************)
(* A step of one task changes the number of tasks at some labels by one,   *)
(* at most.                                                                *)
(***************************************************************************)
LEMMA AtFinite ==
  ASSUME NEW p, NEW L
  PROVE  IsFiniteSet(At(p, L)) /\ Cardinality(At(p, L)) \in Nat
<1>1. At(p, L) \in SUBSET Tasks
  BY DEF At
<1> QED BY <1>1, SemTasks, FS_Subset, FS_CardinalityType

(***************************************************************************)
(* The change of that number, by where the task was and where it goes.     *)
(***************************************************************************)
MovesCount(p, n, t, L) ==
    Cardinality(At(n, L)) + (IF p[t] \in L THEN 1 ELSE 0)
      = Cardinality(At(p, L)) + (IF n[t] \in L THEN 1 ELSE 0)

LEMMA AtMoves ==
  ASSUME NEW p, NEW n, NEW t \in Tasks, NEW L, \A u \in Tasks \ {t} : n[u] = p[u]
  PROVE  MovesCount(p, n, t, L)
<1> DEFINE A == At(p, L) \ {t}
<1>1. IsFiniteSet(A) /\ Cardinality(A) \in Nat /\ t \notin A
  BY AtFinite, FS_RemoveElement, FS_CardinalityType
<1>2. IsFiniteSet(A \cup {t}) /\ Cardinality(A \cup {t}) = Cardinality(A) + 1
  BY <1>1, FS_AddElement
<1>3. At(p, L) = (IF p[t] \in L THEN A \cup {t} ELSE A)
  BY DEF At
<1>4. At(n, L) = (IF n[t] \in L THEN A \cup {t} ELSE A)
  BY DEF At
<1> HIDE DEF A
<1> QED BY <1>1, <1>2, <1>3, <1>4 DEF MovesCount

(***************************************************************************)
(* The initial states.                                                     *)
(***************************************************************************)
LEMMA InitInv ==
  ASSUME Init
  PROVE  IInv
<1>1. SemInv
  <2>1. SemTypeOK /\ WaitPlace
    BY DEF Init, SemInit, SemTypeOK, WaitPlace
  <2>2. SemState \in SemStates
    BY <2>1, SemStateType
  <2>3. Waiting(SemState) = {} /\ SemState.list = << >>
    BY DEF Init, SemInit, SemState, Waiting
  <2>4. Lists(<< >>, {}, Priority)
    BY DEF Lists
  <2> QED BY <2>1, <2>2, <2>3, <2>4 DEF SemInv, Listed
<1>2. TaskInv
  BY UsbAssumption DEF Init, TaskInv, Labels, WithFile
<1>3. RxInv
  <2>1. At(pc, WithQueue) = {} /\ At(pc, {"free"}) = {}
    BY DEF Init, At, WithQueue
  <2>2. Cardinality({}) = 0
    BY FS_EmptySet
  <2>3. /\ rxBuffer \in Seq(1 .. sent) /\ Len(rxBuffer) <= RxSize /\ sent \in Nat
        /\ queue \in Seq(1 .. sent) /\ got \in Seq(1 .. sent) /\ Len(queue) = 0
    BY UsbAssumption DEF Init
  <2>4. /\ crefs = 0 /\ nfree = PoolSize /\ PoolSize \in Nat
        /\ Cardinality(At(pc, WithQueue)) = 0 /\ Cardinality(At(pc, {"free"})) = 0
    BY <2>1, <2>2, UsbAssumption DEF Init
  <2> QED BY <2>3, <2>4 DEF RxInv
<1>4. TxInv
  BY UsbAssumption DEF Init, TxInv
<1>5. FlagInv
  BY Zenon DEF Init, FlagInv
<1> QED BY <1>1, <1>2, <1>3, <1>4, <1>5 DEF IInv

-----------------------------------------------------------------------------
(***************************************************************************)
(* A wait whose result is ignored keeps the wait list consistent.          *)
(***************************************************************************)
LEMMA WaitKeepsList ==
  ASSUME SemInv, TaskInv, NEW t \in Tasks, NEW s \in Sems, NEW blocked, NEW next \in Labels,
         WaitIgnored(t, s, blocked, next),
         \/ s = sRead /\ blocked = "lock_r" /\ pc[t] \in {"out", "lock_r"}
         \/ s = sWrite /\ blocked = "lock_w" /\ pc[t] \in {"print", "lock_w"}
  PROVE  SemInv'
<1>0. /\ Listed(SemState, {}) /\ WaitPlace /\ pc \in [Tasks -> Labels]
      /\ errcode \in [Tasks -> {"OK", "EINTR", "ETIMEDOUT"}]
      /\ task_state \in [Tasks -> {"READY", "WAIT_SEM", "INVALID"}]
      /\ waitsem \in [Tasks -> Sems \cup {NONE}]
  BY DEF SemInv, SemTypeOK, TaskInv
<1>1. pc[t] # blocked => t \notin Waiting(SemState) /\ task_state[t] = "READY"
  BY <1>0 DEF WaitPlace, Waiting, SemState
<1>2. CASE pc[t] # blocked /\ TakeCount(t, s) /\ Goto(t, next)
  <2>1. SemState' = Taken(SemState, t, s)
    BY <1>2, WaitStates
  <2>2. Listed(Taken(SemState, t, s), {})
    BY <1>0, <1>1, <1>2, TakeEffect
  <2>3. Listed(SemState', {})
    BY <2>1, <2>2
  <2>4. SemTypeOK'
    <3>1. errcode' \in [Tasks -> {"OK", "EINTR", "ETIMEDOUT"}]
      BY <1>0, <1>2 DEF TakeCount
    <3>2. SemState' \in SemStates
      BY <2>3 DEF Listed
    <3> QED BY <3>1, <3>2 DEF SemTypeOK, SemState, SemStates
  <2>5. WaitPlace'
    BY <1>0, <1>1, <1>2 DEF WaitPlace, TakeCount, Goto
  <2> QED BY <2>3, <2>4, <2>5 DEF SemInv
<1>3. CASE pc[t] # blocked /\ BlockOn(t, s) /\ Goto(t, blocked)
  <2>1. SemState' = Blocked(SemState, t, s)
    BY <1>3, WaitStates
  <2>2. Listed(Blocked(SemState, t, s), {})
    BY <1>0, <1>1, <1>3, BlockEffect
  <2>3. Listed(SemState', {})
    BY <2>1, <2>2
  <2>4. SemTypeOK'
    <3>1. errcode' \in [Tasks -> {"OK", "EINTR", "ETIMEDOUT"}]
      BY <1>0, <1>3 DEF BlockOn
    <3>2. SemState' \in SemStates
      BY <2>3 DEF Listed
    <3> QED BY <3>1, <3>2 DEF SemTypeOK, SemState, SemStates
  <2>5. WaitPlace'
    BY <1>0, <1>1, <1>3 DEF WaitPlace, BlockOn, Goto
  <2> QED BY <2>3, <2>4, <2>5 DEF SemInv
<1>4. CASE pc[t] = blocked /\ task_state[t] = "READY" /\ Goto(t, next) /\ UNCHANGED semVars
  <2>1. SemState' = SemState /\ (SemTypeOK' <=> SemTypeOK)
    BY <1>4 DEF semVars, SemState, SemTypeOK
  <2>2. WaitPlace'
    BY <1>0, <1>4 DEF WaitPlace, Goto, semVars
  <2>3. Listed(SemState', {})
    BY <1>0, <2>1
  <2> QED BY <2>1, <2>2, <2>3 DEF SemInv
<1> QED BY <1>2, <1>3, <1>4 DEF WaitIgnored

(***************************************************************************)
(* A step that leaves the semaphores alone, of a task that is in no wait.  *)
(***************************************************************************)
MovesOutside ==
    /\ pc' \in [Tasks -> Labels]
    /\ \A u \in Tasks : pc'[u] = pc[u] \/ pc[u] \notin {"lock_r", "lock_w"}

LEMMA MoveKeepsList ==
  ASSUME SemInv, MovesOutside, UNCHANGED semVars
  PROVE  SemInv'
<1>1. SemState' = SemState /\ (SemTypeOK' <=> SemTypeOK)
  BY DEF semVars, SemState, SemTypeOK
<1>2. WaitPlace'
  BY DEF SemInv, WaitPlace, MovesOutside, semVars
<1>3. Listed(SemState', {})
  BY <1>1 DEF SemInv
<1> QED BY <1>1, <1>2, <1>3 DEF SemInv

(***************************************************************************)
(* The same for a post, which begins no wait.                              *)
(***************************************************************************)
LEMMA PostKeepsList ==
  ASSUME SemInv, MovesOutside, NEW s \in Sems, nxsem_post(s)
  PROVE  SemInv'
<1> DEFINE r == SemState
           n == Posted(SemState, s)
<1>0. /\ Listed(r, {}) /\ WaitPlace /\ r \in SemStates
      /\ errcode \in [Tasks -> {"OK", "EINTR", "ETIMEDOUT"}]
  BY DEF SemInv, SemTypeOK, Listed
<1>1. SemState' = n
  BY <1>0, PostStates
<1>2. Listed(n, {})
  BY <1>0, PostEffect
<1>3. \/ n = r \/ n = SetCount(r, s, r.count[s] + 1)
      \/ \E b \in WaitersOf(r, s) : Unblocked(r, n, s, b)
  BY <1>0, PostEffect, Zenon
<1>4. r.state = task_state /\ r.wait = waitsem /\ r.state' = task_state' /\ r.wait' = waitsem'
  BY DEF SemState
<1> HIDE DEF n, r
<1>5. \A u \in Tasks : \/ n.state[u] = r.state[u] /\ n.wait[u] = r.wait[u]
                       \/ n.state[u] = "READY"
  <2>1. /\ r.state \in [Tasks -> {"READY", "WAIT_SEM", "INVALID"}]
        /\ r.wait \in [Tasks -> Sems \cup {NONE}]
    BY <1>0 DEF SemStates
  <2>2. ASSUME NEW b \in WaitersOf(r, s), Unblocked(r, n, s, b)
        PROVE  /\ n.state = [r.state EXCEPT ![b] = "READY"]
               /\ n.wait = [r.wait EXCEPT ![b] = NONE]
    BY <2>2 DEF Unblocked
  <2>3. n = SetCount(r, s, r.count[s] + 1) => n.state = r.state /\ n.wait = r.wait
    BY DEF SetCount
  <2> QED BY <1>3, <2>1, <2>2, <2>3
<1>6. n.state = task_state' /\ n.wait = waitsem'
  BY <1>1, <1>4 DEF r
<1>7. WaitPlace'
  BY <1>0, <1>4, <1>5, <1>6 DEF WaitPlace, MovesOutside
<1>8. Listed(SemState', {})
  BY <1>1, <1>2
<1>9. SemTypeOK'
  <2>1. errcode' \in [Tasks -> {"OK", "EINTR", "ETIMEDOUT"}]
    BY <1>0 DEF nxsem_post
  <2>2. SemState' \in SemStates
    BY <1>8 DEF Listed
  <2> QED BY <2>1, <2>2 DEF SemTypeOK, SemState, SemStates
<1> QED BY <1>7, <1>8, <1>9 DEF SemInv

(***************************************************************************)
(* And for a signal, which ends a wait.                                    *)
(***************************************************************************)
LEMMA SignalKeepsList ==
  ASSUME SemInv, NEW t \in Tasks, nxsem_wait_irq(t, "EINTR"), UNCHANGED pc
  PROVE  SemInv'
<1>0. /\ Listed(SemState, {}) /\ WaitPlace /\ task_state[t] = "WAIT_SEM"
      /\ errcode \in [Tasks -> {"OK", "EINTR", "ETIMEDOUT"}]
      /\ task_state \in [Tasks -> {"READY", "WAIT_SEM", "INVALID"}]
      /\ waitsem \in [Tasks -> Sems \cup {NONE}]
  BY DEF SemInv, SemTypeOK, nxsem_wait_irq
<1>1. t \in Waiting(SemState)
  BY <1>0 DEF Waiting, SemState
<1>2. sRead \in Sems
  BY UsbAssumption
<1>3. SemState' = Ended(SemState, t)
  BY <1>2, WaitStates
<1>4. Listed(Ended(SemState, t), {})
  BY <1>0, <1>1, EndEffect
<1>5. Listed(SemState', {})
  BY <1>3, <1>4
<1>6. WaitPlace'
  BY <1>0 DEF WaitPlace, nxsem_wait_irq
<1>7. SemTypeOK'
  <2>1. errcode' \in [Tasks -> {"OK", "EINTR", "ETIMEDOUT"}]
    BY <1>0 DEF nxsem_wait_irq
  <2>2. SemState' \in SemStates
    BY <1>5 DEF Listed
  <2> QED BY <2>1, <2>2 DEF SemTypeOK, SemState, SemStates
<1> QED BY <1>5, <1>6, <1>7 DEF SemInv

(***************************************************************************)
(* The variables of tasks.                                                 *)
(***************************************************************************)
LEMMA TaskStep ==
  ASSUME TaskInv, TxInv, [Next]_vars
  PROVE  TaskInv'
<1> USE DEF TaskInv, Labels, WithFile, ReadSteps, WriteSteps, Goto, writeVars
<1>1. ASSUME NEW t \in Tasks, MqVopen(t) PROVE TaskInv'
  BY <1>1, UsbAssumption DEF MqVopen
<1>2. ASSUME NEW t \in Tasks, FilesAllocate(t) PROVE TaskInv'
  BY <1>2, UsbAssumption DEF FilesAllocate, HasFile
<1>3. ASSUME NEW t \in Tasks, MqReceive(t) PROVE TaskInv'
  BY <1>3, UsbAssumption DEF MqReceive
<1>4. ASSUME NEW t \in Tasks, FreeMessage(t) PROVE TaskInv'
  BY <1>4, UsbAssumption DEF FreeMessage
<1>5. ASSUME NEW t \in Tasks, ReadUnlock(t) PROVE TaskInv'
  BY <1>5, UsbAssumption DEF ReadUnlock
<1>6. ASSUME NEW t \in Tasks, MqClose(t) PROVE TaskInv'
  BY <1>6, UsbAssumption DEF MqClose
<1>7. ASSUME NEW t \in Tasks, WriteLock(t) PROVE TaskInv'
  BY <1>7, UsbAssumption DEF WriteLock, WaitIgnored
<1>8. ASSUME NEW t \in Tasks, WriteByte(t) PROVE TaskInv'
  <2>1. /\ pc[t] = "write" /\ pos[t] < TextLen /\ pos' = [pos EXCEPT ![t] = @ + 1]
        /\ nbytes' = [nbytes EXCEPT ![t] = @ + 1] \/ nbytes' = nbytes
        /\ UNCHANGED <<pc, written_char, prints, files>>
    BY <1>8 DEF WriteByte
  <2>2. written_char[t] + nbytes[t] <= pos[t] /\ pos[t] \in Nat /\ nbytes[t] \in Nat
        /\ written_char[t] \in Nat /\ TextLen \in Nat
    BY <2>1, UsbAssumption
  <2>3. nbytes' \in [Tasks -> 0 .. TextLen] /\ pos' \in [Tasks -> 0 .. TextLen]
    BY <2>1, <2>2
  <2>4. \A u \in Tasks : pc[u] = "write" => written_char[u] + nbytes'[u] <= pos'[u]
    BY <2>1, <2>2
  <2> QED BY <2>1, <2>3, <2>4
<1>9. ASSUME NEW t \in Tasks, WriteUnlock(t) PROVE TaskInv'
  BY <1>9, UsbAssumption DEF WriteUnlock
<1>10. ASSUME NEW t \in Tasks, PrintfWrite(t) PROVE TaskInv'
  <2> DEFINE n == Least(TextLen - written_char[t], TxSize - txlen)
  <2>1. /\ pc[t] = "direct" /\ written_char' = [written_char EXCEPT ![t] = @ + n]
        /\ Goto(t, "out") \/ Goto(t, "direct")
        /\ UNCHANGED <<pos, nbytes, prints, files>>
    BY <1>10 DEF PrintfWrite
  <2>2. n \in Nat /\ written_char[t] + n <= TextLen /\ written_char[t] \in Nat
    BY UsbAssumption DEF Least, TxInv
  <2> HIDE DEF n
  <2>3. written_char' \in [Tasks -> 0 .. TextLen]
    BY <2>1, <2>2, UsbAssumption
  <2> QED BY <2>1, <2>3
<1>11. ASSUME NEW t \in Tasks, ReadLock(t) PROVE TaskInv'
  BY <1>11, UsbAssumption DEF ReadLock, WaitIgnored
<1>12. ASSUME NEW t \in Tasks, PrintStart(t) PROVE TaskInv'
  BY <1>12, UsbAssumption DEF PrintStart, HasFile
<1>13. ASSUME NEW t \in Tasks, PrintfStart(t) PROVE TaskInv'
  BY <1>13, UsbAssumption DEF PrintfStart
<1>14. ASSUME NEW t \in Tasks, SignalTask(t) PROVE TaskInv'
  BY <1>14, UsbAssumption DEF SignalTask
<1>15. ASSUME NEW t \in Tasks, OpenFile(t) PROVE TaskInv'
  BY <1>15, UsbAssumption DEF OpenFile, HasFile
<1>16. ASSUME NEW t \in Tasks, CloseFile(t) PROVE TaskInv'
  BY <1>16, UsbAssumption DEF CloseFile
<1>17. ASSUME UNCHANGED <<pc, writeVars, files>> PROVE TaskInv'
  BY <1>17
<1> HIDE DEF TaskInv
<1> QED BY <1>1, <1>2, <1>3, <1>4, <1>5, <1>6, <1>7, <1>8, <1>9, <1>10, <1>11,
           <1>12, <1>13, <1>14, <1>15, <1>16, <1>17
        DEF Next, Step, RxHandler, ControlConnected, ControlDisconnected, TxHandler, vars

(***************************************************************************)
(* The semaphores.                                                         *)
(***************************************************************************)
LEMMA SemStep ==
  ASSUME SemInv, TaskInv, TaskInv', [Next]_vars
  PROVE  SemInv'
<1>0. pc \in [Tasks -> Labels] /\ pc' \in [Tasks -> Labels] /\ sRead \in Sems /\ sWrite \in Sems
  BY UsbAssumption DEF TaskInv
<1>1. ASSUME NEW t \in Tasks, ReadLock(t) PROVE SemInv'
  BY <1>0, <1>1, WaitKeepsList DEF ReadLock, Labels, ReadSteps
<1>2. ASSUME NEW t \in Tasks, WriteLock(t) PROVE SemInv'
  BY <1>0, <1>2, WaitKeepsList DEF WriteLock, Labels, WriteSteps
<1>3. ASSUME NEW t \in Tasks, ReadUnlock(t) PROVE SemInv'
  <2>1. MovesOutside /\ nxsem_post(sRead)
    BY <1>0, <1>3 DEF ReadUnlock, MovesOutside, Goto
  <2> QED BY <1>0, <2>1, PostKeepsList
<1>4. ASSUME NEW t \in Tasks, WriteUnlock(t) PROVE SemInv'
  <2>1. MovesOutside /\ nxsem_post(sWrite)
    BY <1>0, <1>4 DEF WriteUnlock, MovesOutside, Goto
  <2> QED BY <1>0, <2>1, PostKeepsList
<1>5. ASSUME NEW t \in Tasks, SignalTask(t) PROVE SemInv'
  BY <1>5, SignalKeepsList DEF SignalTask
<1>6. ASSUME NEW t \in Tasks,
             \/ MqVopen(t) \/ FilesAllocate(t) \/ MqReceive(t) \/ FreeMessage(t)
             \/ MqClose(t) \/ PrintStart(t) \/ PrintfStart(t) \/ PrintfWrite(t)
      PROVE  SemInv'
  <2>1. UNCHANGED semVars
    BY <1>6 DEF MqVopen, FilesAllocate, MqReceive, FreeMessage, MqClose, PrintStart,
                PrintfStart, PrintfWrite
  <2>2. pc[t] \notin {"lock_r", "lock_w"} /\ \A u \in Tasks \ {t} : pc'[u] = pc[u]
    BY <1>0, <1>6 DEF MqVopen, FilesAllocate, MqReceive, FreeMessage, MqClose, PrintStart,
                PrintfStart, PrintfWrite, Goto
  <2> QED BY <1>0, <2>1, <2>2, MoveKeepsList DEF MovesOutside
<1>7. ASSUME UNCHANGED <<semVars, pc>> PROVE SemInv'
  BY <1>0, <1>7, MoveKeepsList DEF MovesOutside
<1> QED BY <1>1, <1>2, <1>3, <1>4, <1>5, <1>6, <1>7
        DEF Next, Step, WriteByte, OpenFile, CloseFile, RxHandler, ControlConnected,
            ControlDisconnected, TxHandler, vars

-----------------------------------------------------------------------------
(***************************************************************************)
(* A slice of a sequence.                                                  *)
(***************************************************************************)
LEMMA Slice ==
  ASSUME NEW S, NEW s \in Seq(S), NEW a \in 1 .. Len(s) + 1, NEW b \in a - 1 .. Len(s)
  PROVE  /\ SubSeq(s, a, b) \in Seq(S) /\ Len(SubSeq(s, a, b)) = b - a + 1
         /\ \A i \in 1 .. b - a + 1 : SubSeq(s, a, b)[i] = s[a + i - 1]
<1>1. Len(s) \in Nat /\ \A i \in 1 .. Len(s) : s[i] \in S
  BY LenProperties, ElementOfSeq
<1>2. a \in Int /\ b \in Int /\ \A i \in a .. b : s[i] \in S
  BY <1>1
<1>3. /\ SubSeq(s, a, b) \in Seq(S)
      /\ Len(SubSeq(s, a, b)) = IF a <= b THEN b - a + 1 ELSE 0
      /\ \A i \in 1 .. b - a + 1 : SubSeq(s, a, b)[i] = s[a + i - 1]
  BY <1>2, SubSeqProperties
<1>4. (IF a <= b THEN b - a + 1 ELSE 0) = b - a + 1
  BY <1>1
<1> QED BY <1>3, <1>4

(***************************************************************************)
(* What the receive buffer holds when RxHandler takes bytes from it.       *)
(***************************************************************************)
Received(n) == rxBuffer \o [i \in 1 .. n |-> sent + i]

LEMMA ReceivedBytes ==
  ASSUME RxInv, NEW n \in Nat
  PROVE  /\ Received(n) \in Seq(1 .. sent + n)
         /\ Len(Received(n)) = Len(rxBuffer) + n
         /\ \A i \in 1 .. Len(rxBuffer) : Received(n)[i] = rxBuffer[i]
         /\ \A i \in 1 .. n : Received(n)[Len(rxBuffer) + i] = sent + i
<1> DEFINE new == [i \in 1 .. n |-> sent + i]
<1>0. sent \in Nat /\ rxBuffer \in Seq(1 .. sent) /\ Len(rxBuffer) \in Nat
  BY LenProperties DEF RxInv
<1>1. rxBuffer \in Seq(1 .. sent + n)
  <2>1. 1 .. sent \subseteq 1 .. sent + n
    BY <1>0
  <2> QED BY <1>0, <2>1, SeqMonotonic
<1>2. new \in Seq(1 .. sent + n) /\ Len(new) = n
  <2>1. \A i \in 1 .. n : sent + i \in 1 .. sent + n
    BY <1>0
  <2> QED BY <2>1, IsASeq
<1> HIDE DEF new
<1>3. /\ rxBuffer \o new \in Seq(1 .. sent + n)
      /\ Len(rxBuffer \o new) = Len(rxBuffer) + n
      /\ \A i \in 1 .. Len(rxBuffer) + n :
           (rxBuffer \o new)[i] = IF i <= Len(rxBuffer) THEN rxBuffer[i]
                                  ELSE new[i - Len(rxBuffer)]
  BY <1>1, <1>2, ConcatProperties
<1>4. ASSUME NEW i \in 1 .. n
      PROVE  (rxBuffer \o new)[Len(rxBuffer) + i] = sent + i
  <2>1. /\ Len(rxBuffer) + i \in 1 .. Len(rxBuffer) + n
        /\ ~(Len(rxBuffer) + i <= Len(rxBuffer))
        /\ (Len(rxBuffer) + i) - Len(rxBuffer) = i
    BY <1>0
  <2>2. (rxBuffer \o new)[Len(rxBuffer) + i] = new[i]
    BY <1>3, <2>1
  <2> QED BY <2>2 DEF new
<1>5. ASSUME NEW i \in 1 .. Len(rxBuffer)
      PROVE  (rxBuffer \o new)[i] = rxBuffer[i]
  BY <1>0, <1>3
<1> QED BY <1>3, <1>4, <1>5 DEF Received, new

(***************************************************************************)
(* One receive event, in numbers: n bytes come, k leave the buffer, q of   *)
(* them get into the queue, and e are echoed.                              *)
(***************************************************************************)
RxTakes(n, k, q, e) ==
    /\ sent' = sent + n /\ k = Least(Chunk, Len(Received(n))) /\ k >= 1
    /\ rxBuffer' = SubSeq(Received(n), k + 1, Len(Received(n)))
    /\ \/ CloseAndUnlink(crefs) /\ linked /\ q = 0
       \/ /\ queue' = queue \o SubSeq(Received(n), 1, q)
          /\ nfree' = nfree - q /\ UNCHANGED <<linked, crefs>>
          /\ q = (IF linked THEN Least(k, nfree) ELSE 0)
    /\ e = Least(k, TxSize - txlen) /\ txlen' = txlen + e
    /\ txlog' = txlog \o [i \in 1 .. e |-> [src |-> NONE, call |-> UNLOCKED,
                                            char |-> Received(n)[i]]]
    /\ UNCHANGED <<semVars, pc, writeVars, files, got, hostVars>>

LEMMA RxNumbers ==
  ASSUME RxInv, TxInv, NEW t \in Origins, NEW n \in 0 .. Packet, RxHandler(t, n)
  PROVE  /\ n \in Nat /\ Len(rxBuffer) + n \in 1 .. RxSize
         /\ \E k, q, e \in 0 .. Len(Received(n)) :
              /\ RxTakes(n, k, q, e)
              /\ q <= k /\ q <= nfree /\ e <= k /\ txlen + e <= TxSize
<1> DEFINE bytes == Received(n)
           k == Least(Chunk, Len(bytes))
           opens == linked /\ (t = NONE \/ HasFile(t))
           q == IF opens THEN Least(k, nfree) ELSE 0
           e == Least(k, TxSize - txlen)
<1>1. n \in Nat /\ Len(rxBuffer) + n \in 1 .. RxSize /\ nfree \in Nat
      /\ txlen \in 0 .. TxSize /\ TxSize \in Nat /\ Chunk \in Nat \ {0}
  BY UsbAssumption DEF RxHandler, RxInv, TxInv
<1>2. Len(bytes) \in Nat /\ Len(bytes) >= 1
  <2>1. Len(Received(n)) = Len(rxBuffer) + n
    BY <1>1, ReceivedBytes
  <2> QED BY <1>1, <2>1, UsbAssumption
<1>3. /\ sent' = sent + n /\ USBUARTPrimeTransmit(t, bytes)
      /\ UNCHANGED <<semVars, pc, writeVars, files, got, hostVars>>
  BY DEF RxHandler, Received
<1>4. /\ rxBuffer' = SubSeq(bytes, k + 1, Len(bytes))
      /\ IF k > 0 /\ linked /\ ~opens
           THEN CloseAndUnlink(crefs)
           ELSE /\ queue' = queue \o SubSeq(bytes, 1, q)
                /\ nfree' = nfree - q
                /\ UNCHANGED <<linked, crefs>>
      /\ txlen' = txlen + e
      /\ txlog' = txlog \o [i \in 1 .. e |-> [src |-> NONE, call |-> UNLOCKED,
                                             char |-> bytes[i]]]
  BY <1>3 DEF USBUARTPrimeTransmit
<1> HIDE DEF bytes
<1>5. k \in 1 .. Len(bytes)
  BY <1>1, <1>2 DEF Least
<1>6. e \in 0 .. k /\ txlen + e <= TxSize
  BY <1>1, <1>5 DEF Least
<1>7. q \in 0 .. k /\ q <= nfree /\ (opens => q = Least(k, nfree)) /\ (~opens => q = 0)
  BY <1>1, <1>5 DEF Least
<1>8. \/ CloseAndUnlink(crefs) /\ linked /\ q = 0
      \/ /\ queue' = queue \o SubSeq(bytes, 1, q)
         /\ nfree' = nfree - q /\ UNCHANGED <<linked, crefs>>
         /\ q = (IF linked THEN Least(k, nfree) ELSE 0)
  <2>1. (opens => linked) /\ k > 0
    BY <1>5
  <2> HIDE DEF k, q, opens
  <2>2. CASE linked /\ ~opens
    BY <1>4, <1>7, <2>1, <2>2
  <2>3. CASE ~(linked /\ ~opens)
    <3>1. /\ queue' = queue \o SubSeq(bytes, 1, q)
          /\ nfree' = nfree - q /\ UNCHANGED <<linked, crefs>>
      BY <1>4, <2>3
    <3>2. q = (IF linked THEN Least(k, nfree) ELSE 0)
      BY <1>7, <2>1, <2>3
    <3> QED BY <3>1, <3>2
  <2> QED BY <2>2, <2>3
<1>9. /\ k = Least(Chunk, Len(bytes)) /\ e = Least(k, TxSize - txlen)
      /\ rxBuffer' = SubSeq(bytes, k + 1, Len(bytes)) /\ txlen' = txlen + e
      /\ txlog' = txlog \o [i \in 1 .. e |-> [src |-> NONE, call |-> UNLOCKED,
                                              char |-> bytes[i]]]
  BY <1>4
<1>10. k \in 0 .. Len(bytes) /\ q \in 0 .. Len(bytes) /\ e \in 0 .. Len(bytes) /\ q <= k /\ e <= k
  BY <1>2, <1>5, <1>6, <1>7
<1> HIDE DEF k, q, e, opens
<1>11. k >= 1
  BY <1>5
<1>12. RxTakes(n, k, q, e)
  BY <1>3, <1>8, <1>9, <1>11, Zenon DEF RxTakes, bytes
<1> QED BY <1>1, <1>6, <1>7, <1>10, <1>12 DEF bytes

(***************************************************************************)
(* A step that concerns neither the queue nor the receive buffer.          *)
(***************************************************************************)
RxQuiet ==
    /\ UNCHANGED <<rxVars, queueVars, got>>
    /\ At(pc', WithQueue) = At(pc, WithQueue) /\ At(pc', {"free"}) = At(pc, {"free"})

(***************************************************************************)
(* Which steps do.                                                         *)
(***************************************************************************)
RxTaskStep(t) ==
    \/ linked /\ MqVopen(t)
    \/ ~HasFile(t) /\ FilesAllocate(t)
    \/ queue # << >> /\ MqReceive(t)
    \/ FreeMessage(t) \/ MqClose(t)

LEMMA RxEffects ==
  ASSUME TaskInv, RxInv, TxInv, [Next]_vars
  PROVE  \/ RxQuiet \/ ControlConnected
         \/ \E t \in Tasks : RxTaskStep(t)
         \/ \E n \in 0 .. Packet, k, q, e \in Nat :
              /\ RxTakes(n, k, q, e)
              /\ Len(rxBuffer) + n \in 1 .. RxSize /\ k <= Len(Received(n))
              /\ q <= k /\ q <= nfree /\ e <= k /\ txlen + e <= TxSize
<1> DEFINE Goal == \/ RxQuiet \/ ControlConnected
                   \/ \E t \in Tasks : RxTaskStep(t)
                   \/ \E n \in 0 .. Packet, k, q, e \in Nat :
                        /\ RxTakes(n, k, q, e)
                        /\ Len(rxBuffer) + n \in 1 .. RxSize /\ k <= Len(Received(n))
                        /\ q <= k /\ q <= nfree /\ e <= k /\ txlen + e <= TxSize
<1>0. pc \in [Tasks -> Labels]
  BY DEF TaskInv
<1>1. ASSUME NEW t \in Tasks, NEW l, UNCHANGED <<rxVars, queueVars, got>>,
             pc' = [pc EXCEPT ![t] = l],
             l \in WithQueue <=> pc[t] \in WithQueue, l = "free" <=> pc[t] = "free"
      PROVE  RxQuiet
  BY <1>0, <1>1 DEF RxQuiet, At
<1>2. ASSUME UNCHANGED <<pc, rxVars, queueVars, got>> PROVE RxQuiet
  BY <1>2 DEF RxQuiet
<1>3. ASSUME NEW t \in Tasks, MqVopen(t) PROVE Goal
  <2>1. CASE linked
    BY <1>3, <2>1 DEF RxTaskStep
  <2>2. CASE ~linked
    BY <1>1, <1>3, <2>2 DEF MqVopen, Goto, WithQueue, queueVars
  <2> QED BY <2>1, <2>2
<1>4. ASSUME NEW t \in Tasks, FilesAllocate(t) PROVE Goal
  <2>1. CASE ~HasFile(t)
    BY <1>4, <2>1 DEF RxTaskStep
  <2>2. CASE HasFile(t)
    BY <1>1, <1>4, <2>2 DEF FilesAllocate, Goto, WithQueue
  <2> QED BY <2>1, <2>2
<1>5. ASSUME NEW t \in Tasks, MqReceive(t) PROVE Goal
  <2>1. CASE queue # << >>
    BY <1>5, <2>1 DEF RxTaskStep
  <2>2. CASE queue = << >>
    BY <1>1, <1>5, <2>2 DEF MqReceive, Goto, WithQueue, queueVars
  <2> QED BY <2>1, <2>2
<1>6. ASSUME NEW t \in Tasks, FreeMessage(t) \/ MqClose(t) PROVE Goal
  BY <1>6 DEF RxTaskStep
<1>7. ASSUME NEW t \in Tasks, ReadLock(t) \/ WriteLock(t) PROVE Goal
  <2>1. PICK l \in {"lock_r", "open", "lock_w", "write"} : Goto(t, l)
    BY <1>7 DEF ReadLock, WriteLock, WaitIgnored
  <2>2. pc[t] \in {"out", "lock_r", "print", "lock_w"} /\ UNCHANGED <<rxVars, queueVars, got>>
    BY <1>7 DEF ReadLock, WriteLock
  <2> QED BY <1>1, <2>1, <2>2 DEF Goto, WithQueue
<1>8. ASSUME NEW t \in Tasks, ReadUnlock(t) PROVE Goal
  BY <1>1, <1>8 DEF ReadUnlock, Goto, WithQueue
<1>9. ASSUME NEW t \in Tasks,
             WriteUnlock(t) \/ PrintfWrite(t) \/ PrintStart(t) \/ PrintfStart(t)
      PROVE  Goal
  <2>1. pc[t] \in {"write", "direct", "out"} /\ UNCHANGED <<rxVars, queueVars, got>>
    BY <1>9 DEF WriteUnlock, PrintfWrite, PrintStart, PrintfStart
  <2>2. UNCHANGED pc \/ \E l \in {"out", "print", "direct"} : Goto(t, l)
    BY <1>9 DEF WriteUnlock, PrintfWrite, PrintStart, PrintfStart
  <2> QED BY <1>1, <1>2, <2>1, <2>2 DEF Goto, WithQueue
<1>10. ASSUME NEW t \in Origins, NEW n \in 0 .. Packet, RxHandler(t, n) PROVE Goal
  <2>1. n \in Nat
    BY UsbAssumption
  <2>2. Len(Received(n)) \in Nat
    BY <2>1, ReceivedBytes, LenProperties
  <2>3. PICK k, q, e \in 0 .. Len(Received(n)) :
              /\ RxTakes(n, k, q, e)
              /\ q <= k /\ q <= nfree /\ e <= k /\ txlen + e <= TxSize
    BY <1>10, RxNumbers
  <2>4. Len(rxBuffer) + n \in 1 .. RxSize
    BY <1>10, RxNumbers
  <2>5. k \in Nat /\ q \in Nat /\ e \in Nat /\ k <= Len(Received(n))
    BY <2>2
  <2> QED BY <2>3, <2>4, <2>5
<1>11. ASSUME NEW t \in Tasks,
              WriteByte(t) \/ SignalTask(t) \/ OpenFile(t) \/ CloseFile(t)
       PROVE  Goal
  BY <1>2, <1>11 DEF WriteByte, SignalTask, OpenFile, CloseFile
<1>12. ASSUME ControlConnected \/ ControlDisconnected \/ TxHandler \/ UNCHANGED vars PROVE Goal
  BY <1>2, <1>12 DEF ControlDisconnected, TxHandler, vars
<1> HIDE DEF Goal
<1>13. Goal
  BY <1>3, <1>4, <1>5, <1>6, <1>7, <1>8, <1>9, <1>10, <1>11, <1>12 DEF Next, Step
<1> QED BY <1>13 DEF Goal

(***************************************************************************)
(* The structures in the queue are freed with it, or the queue is kept.    *)
(***************************************************************************)
FreedOrKept ==
    \/ queue' = << >> /\ nfree' = nfree + Len(queue)
    \/ queue' = queue /\ nfree' = nfree

LEMMA NoneLeaked ==
  ASSUME queue \in Seq(1 .. sent), nfree \in Nat, FreedOrKept
  PROVE  queue' \in Seq(1 .. sent) /\ nfree' \in Nat /\ Len(queue') \in Nat
         /\ nfree' + Len(queue') = nfree + Len(queue)
<1>1. Len(queue) \in Nat
  BY LenProperties
<1>2. CASE queue' = << >> /\ nfree' = nfree + Len(queue)
  <2>1. queue' \in Seq(1 .. sent) /\ Len(queue') = 0
    BY <1>2
  <2> QED BY <1>1, <1>2, <2>1
<1>3. CASE queue' = queue /\ nfree' = nfree
  BY <1>1, <1>3
<1> QED BY <1>2, <1>3 DEF FreedOrKept

(***************************************************************************)
(* What the host has sent, the queue and its references.                   *)
(***************************************************************************)
LEMMA RxStep ==
  ASSUME TaskInv, RxInv, TxInv, [Next]_vars
  PROVE  RxInv'
<1> DEFINE users == Cardinality(At(pc, WithQueue))
           newUsers == Cardinality(At(pc', WithQueue))
           holders == Cardinality(At(pc, {"free"}))
           newHolders == Cardinality(At(pc', {"free"}))
<1>0. /\ pc \in [Tasks -> Labels] /\ sent \in Nat
      /\ rxBuffer \in Seq(1 .. sent) /\ Len(rxBuffer) <= RxSize
      /\ queue \in Seq(1 .. sent) /\ got \in Seq(1 .. sent)
      /\ crefs \in Nat /\ crefs >= users /\ nfree \in Nat /\ PoolSize \in Nat
      /\ nfree + Len(queue) + holders = PoolSize /\ Len(queue) \in Nat
  BY UsbAssumption, LenProperties DEF TaskInv, RxInv
<1>1. users \in Nat /\ newUsers \in Nat /\ holders \in Nat /\ newHolders \in Nat
  BY AtFinite
<1>2. ASSUME NEW t \in Tasks, NEW l, Goto(t, l)
      PROVE  /\ newUsers + (IF pc[t] \in WithQueue THEN 1 ELSE 0)
                  = users + (IF l \in WithQueue THEN 1 ELSE 0)
             /\ newHolders + (IF pc[t] \in {"free"} THEN 1 ELSE 0)
                  = holders + (IF l \in {"free"} THEN 1 ELSE 0)
  <2> DEFINE p == pc'
  <2>1. p[t] = l /\ \A u \in Tasks \ {t} : p[u] = pc[u]
    BY <1>0, <1>2 DEF Goto
  <2> HIDE DEF p
  <2>2. MovesCount(pc, p, t, WithQueue) /\ MovesCount(pc, p, t, {"free"})
    BY <2>1, AtMoves
  <2> QED BY <2>1, <2>2 DEF MovesCount, p
<1> HIDE DEF users, newUsers, holders, newHolders
<1>3. ASSUME rxBuffer' \in Seq(1 .. sent'), Len(rxBuffer') <= RxSize, sent' \in Nat,
             queue' \in Seq(1 .. sent'), got' \in Seq(1 .. sent'),
             crefs' \in Nat, crefs' >= newUsers, nfree' \in Nat,
             nfree' + Len(queue') + newHolders = PoolSize
      PROVE  RxInv'
  BY <1>3 DEF RxInv, newUsers, newHolders
<1>4. ASSUME RxQuiet PROVE RxInv'
  BY <1>4 DEF RxQuiet, RxInv, rxVars, queueVars
<1>5. ASSUME NEW t \in Tasks, linked, MqVopen(t) PROVE RxInv'
  <2>1. crefs' = crefs + 1 /\ Goto(t, "alloc") /\ pc[t] = "open"
        /\ UNCHANGED <<rxBuffer, sent, queue, linked, nfree, got>>
    BY <1>5 DEF MqVopen, rxVars
  <2>2. newUsers = users + 1 /\ newHolders = holders
    BY <1>1, <1>2, <2>1 DEF WithQueue
  <2> QED BY <1>0, <1>1, <1>3, <2>1, <2>2
<1>6. ASSUME NEW t \in Tasks, ~HasFile(t), FilesAllocate(t) PROVE RxInv'
  <2>1. /\ CloseAndUnlink(crefs - 1) /\ Goto(t, "post") /\ pc[t] = "alloc"
        /\ UNCHANGED <<rxBuffer, sent, got>>
    BY <1>6 DEF FilesAllocate, rxVars
  <2>2. users = newUsers + 1 /\ newHolders = holders
    BY <1>1, <1>2, <2>1 DEF WithQueue
  <2>3. crefs' \in Nat /\ crefs' >= newUsers
    BY <1>0, <1>1, <2>1, <2>2 DEF CloseAndUnlink
  <2>4. FreedOrKept
    BY <2>1 DEF CloseAndUnlink, FreedOrKept
  <2>5. queue' \in Seq(1 .. sent) /\ nfree' \in Nat
        /\ nfree' + Len(queue') + newHolders = PoolSize
    BY <1>0, <1>1, <2>2, <2>4, NoneLeaked
  <2> QED BY <1>0, <1>3, <2>1, <2>3, <2>5
<1>7. ASSUME NEW t \in Tasks, queue # << >>, MqReceive(t) PROVE RxInv'
  <2>1. /\ got' = Append(got, Head(queue)) /\ queue' = Tail(queue)
        /\ Goto(t, "free") /\ pc[t] = "recv"
        /\ UNCHANGED <<rxBuffer, sent, linked, crefs, nfree>>
    BY <1>7 DEF MqReceive, rxVars
  <2>2. newUsers = users /\ newHolders = holders + 1
    BY <1>1, <1>2, <2>1 DEF WithQueue
  <2>3. /\ Head(queue) \in 1 .. sent /\ Tail(queue) \in Seq(1 .. sent)
        /\ Len(Tail(queue)) = Len(queue) - 1
    BY <1>0, <1>7, HeadTailProperties
  <2>4. Append(got, Head(queue)) \in Seq(1 .. sent)
    BY <1>0, <2>3, AppendProperties
  <2>5. nfree' + Len(queue') + newHolders = PoolSize
    <3>1. Len(queue') = Len(queue) - 1 /\ nfree' = nfree
      BY <2>1, <2>3
    <3>2. nfree \in Nat /\ Len(queue) \in Nat /\ nfree + Len(queue) + holders = PoolSize
      BY <1>0
    <3> QED BY <1>1, <2>2, <3>1, <3>2
  <2>6. crefs' \in Nat /\ crefs' >= newUsers /\ nfree' \in Nat
    BY <1>0, <2>1, <2>2
  <2> QED BY <1>0, <1>3, <2>1, <2>3, <2>4, <2>5, <2>6
<1>8. ASSUME NEW t \in Tasks, FreeMessage(t) PROVE RxInv'
  <2>1. /\ nfree' = nfree + 1 /\ Goto(t, "post_fd") /\ pc[t] = "free"
        /\ UNCHANGED <<rxBuffer, sent, queue, linked, crefs, got>>
    BY <1>8 DEF FreeMessage, rxVars
  <2>2. newUsers = users /\ holders = newHolders + 1
    BY <1>1, <1>2, <2>1 DEF WithQueue
  <2> QED BY <1>0, <1>1, <1>3, <2>1, <2>2
<1>9. ASSUME NEW t \in Tasks, MqClose(t) PROVE RxInv'
  <2>1. /\ crefs' = crefs - 1 /\ Goto(t, "out") /\ pc[t] = "close"
        /\ UNCHANGED <<rxBuffer, sent, linked, got>>
        /\ FreedOrKept
    BY <1>9 DEF MqClose, rxVars, FreedOrKept
  <2>2. users = newUsers + 1 /\ newHolders = holders
    BY <1>1, <1>2, <2>1 DEF WithQueue
  <2>3. crefs' \in Nat /\ crefs' >= newUsers
    BY <1>0, <1>1, <2>1, <2>2
  <2>4. queue' \in Seq(1 .. sent) /\ nfree' \in Nat
        /\ nfree' + Len(queue') + newHolders = PoolSize
    BY <1>0, <1>1, <2>1, <2>2, NoneLeaked
  <2> QED BY <1>0, <1>3, <2>1, <2>3, <2>4
<1>10. ASSUME ControlConnected PROVE RxInv'
  <2>1. rxBuffer' = << >> /\ UNCHANGED <<pc, sent, queueVars, got>>
    BY <1>10 DEF ControlConnected
  <2>2. << >> \in Seq(1 .. sent) /\ Len(<< >>) <= RxSize
    BY UsbAssumption
  <2>3. newUsers = users /\ newHolders = holders
    BY <2>1 DEF newUsers, users, newHolders, holders
  <2> QED BY <1>0, <1>3, <2>1, <2>2, <2>3 DEF queueVars
<1>11. ASSUME NEW n \in 0 .. Packet, NEW k \in Nat, NEW q \in Nat, NEW e \in Nat,
              RxTakes(n, k, q, e), Len(rxBuffer) + n \in 1 .. RxSize,
              k <= Len(Received(n)), q <= k, q <= nfree
       PROVE  RxInv'
  <2> DEFINE bytes == Received(n)
  <2>1. n \in Nat /\ Packet \in Nat /\ RxSize \in Nat
    BY UsbAssumption
  <2>2. bytes \in Seq(1 .. sent + n) /\ Len(bytes) = Len(rxBuffer) + n
    BY <2>1, ReceivedBytes
  <2>3. Len(bytes) \in Nat /\ k <= Len(bytes) /\ Len(bytes) <= RxSize
    BY <1>11, <2>1, <2>2, LenProperties
  <2> HIDE DEF bytes
  <2>4. /\ sent' = sent + n /\ rxBuffer' = SubSeq(bytes, k + 1, Len(bytes))
        /\ UNCHANGED <<pc, got>>
        /\ \/ CloseAndUnlink(crefs)
           \/ /\ queue' = queue \o SubSeq(bytes, 1, q)
              /\ nfree' = nfree - q /\ UNCHANGED <<linked, crefs>>
    BY <1>11, Zenon DEF RxTakes, bytes
  <2>5. newUsers = users /\ newHolders = holders
    BY <2>4 DEF newUsers, users, newHolders, holders
  <2>6. rxBuffer' \in Seq(1 .. sent') /\ Len(rxBuffer') <= RxSize /\ sent' \in Nat
    <3>1. /\ SubSeq(bytes, k + 1, Len(bytes)) \in Seq(1 .. sent + n)
          /\ Len(SubSeq(bytes, k + 1, Len(bytes))) = Len(bytes) - (k + 1) + 1
      <4>1. k + 1 \in 1 .. Len(bytes) + 1 /\ Len(bytes) \in (k + 1) - 1 .. Len(bytes)
        BY <2>3
      <4> QED BY <2>2, <4>1, Slice
    <3> QED BY <1>0, <2>1, <2>3, <2>4, <3>1
  <2>7. queue \in Seq(1 .. sent') /\ got' \in Seq(1 .. sent')
    <3>1. 1 .. sent \subseteq 1 .. sent'
      BY <1>0, <2>1, <2>4
    <3> QED BY <1>0, <2>4, <3>1, SeqMonotonic
  <2>8. CASE CloseAndUnlink(crefs)
    <3>1. crefs' \in Nat /\ crefs' >= users
      BY <1>0, <1>1, <2>8 DEF CloseAndUnlink
    <3>2. FreedOrKept
      BY <2>8 DEF CloseAndUnlink, FreedOrKept
    <3>3. nfree' \in Nat /\ nfree' + Len(queue') + newHolders = PoolSize
      BY <1>0, <1>1, <2>5, <3>2, NoneLeaked
    <3>4. queue' \in Seq(1 .. sent')
      <4>1. << >> \in Seq(1 .. sent') /\ (queue' = << >> \/ queue' = queue)
        BY <3>2 DEF FreedOrKept
      <4> QED BY <2>7, <4>1, Zenon
    <3> QED BY <1>3, <2>5, <2>6, <2>7, <3>1, <3>3, <3>4
  <2>9. CASE /\ queue' = queue \o SubSeq(bytes, 1, q)
             /\ nfree' = nfree - q /\ UNCHANGED <<linked, crefs>>
    <3>1. SubSeq(bytes, 1, q) \in Seq(1 .. sent') /\ Len(SubSeq(bytes, 1, q)) = q
      <4>1. 1 \in 1 .. Len(bytes) + 1 /\ q \in 1 - 1 .. Len(bytes) /\ q - 1 + 1 = q
        BY <1>11, <2>3
      <4>2. /\ SubSeq(bytes, 1, q) \in Seq(1 .. sent + n)
            /\ Len(SubSeq(bytes, 1, q)) = q - 1 + 1
        BY <2>2, <4>1, Slice
      <4> QED BY <2>4, <4>1, <4>2
    <3>2. queue' \in Seq(1 .. sent') /\ Len(queue') = Len(queue) + q
      <4> DEFINE b == SubSeq(bytes, 1, q)
      <4> HIDE DEF b
      <4>1. b \in Seq(1 .. sent') /\ Len(b) = q /\ queue' = queue \o b
        BY <2>9, <3>1 DEF b
      <4> QED BY <2>7, <4>1, ConcatProperties
    <3>3. nfree' \in Nat /\ nfree' + Len(queue') + newHolders = PoolSize
      <4>1. nfree \in Nat /\ Len(queue) \in Nat /\ nfree + Len(queue) + holders = PoolSize
        BY <1>0
      <4>2. nfree' = nfree - q /\ q <= nfree /\ Len(queue') = Len(queue) + q
        BY <1>11, <2>9, <3>2
      <4> QED BY <1>1, <2>5, <4>1, <4>2
    <3> QED BY <1>0, <1>3, <2>5, <2>6, <2>7, <2>9, <3>2, <3>3
  <2> QED BY <2>4, <2>8, <2>9
<1> QED BY <1>4, <1>5, <1>6, <1>7, <1>8, <1>9, <1>10, <1>11, RxEffects DEF RxTaskStep

(***************************************************************************)
(* What goes to the host.                                                  *)
(***************************************************************************)
LEMMA TxStep ==
  ASSUME TaskInv, RxInv, TxInv, [Next]_vars
  PROVE  TxInv'
<1>0. /\ txlen \in 0 .. TxSize /\ TxSize \in Nat /\ txlog \in Seq(TxBytes) /\ connects \in Nat
      /\ prints \in [Tasks -> Nat] /\ written_char \in [Tasks -> 0 .. TextLen]
      /\ pos \in [Tasks -> 0 .. TextLen] /\ TextLen \in Nat
  BY UsbAssumption DEF TxInv, TaskInv
<1>1. ASSUME txlen' \in 0 .. TxSize, txlog' \in Seq(TxBytes), UNCHANGED connects PROVE TxInv'
  BY <1>0, <1>1 DEF TxInv
<1>2. ASSUME UNCHANGED <<txVars, connects>> PROVE TxInv'
  BY <1>2 DEF TxInv, txVars
<1>3. ASSUME NEW t \in Tasks, WriteByte(t) PROVE TxInv'
  <2>1. CASE txlen < TxSize
    <3> DEFINE b == [src |-> t, char |-> pos[t] + 1, call |-> <<prints[t], written_char[t]>>]
    <3>1. txlen' = txlen + 1 /\ txlog' = Append(txlog, b) /\ UNCHANGED connects
      BY <1>3, <2>1 DEF WriteByte, hostVars
    <3>2. b \in TxBytes
      BY <1>0 DEF TxBytes, Origins
    <3> HIDE DEF b
    <3>3. Append(txlog, b) \in Seq(TxBytes)
      BY <1>0, <3>2, AppendProperties
    <3> QED BY <1>0, <1>1, <2>1, <3>1, <3>3
  <2>2. CASE ~(txlen < TxSize)
    BY <1>2, <1>3, <2>2 DEF WriteByte, hostVars
  <2> QED BY <2>1, <2>2
<1>4. ASSUME NEW t, NEW l \in Nat, NEW char, UNCHANGED connects, txlen' = txlen + l,
             txlen + l <= TxSize, t \in Origins, \A i \in 1 .. l : char[i] \in Nat,
             txlog' = txlog \o [i \in 1 .. l |-> [src |-> t, call |-> UNLOCKED,
                                                  char |-> char[i]]]
      PROVE  TxInv'
  <2> DEFINE b == [i \in 1 .. l |-> [src |-> t, call |-> UNLOCKED, char |-> char[i]]]
  <2>1. \A i \in 1 .. l : [src |-> t, call |-> UNLOCKED, char |-> char[i]] \in TxBytes
    BY <1>4 DEF TxBytes, UNLOCKED
  <2>2. b \in Seq(TxBytes)
    BY <2>1, IsASeq
  <2> HIDE DEF b
  <2>3. txlog \o b \in Seq(TxBytes)
    BY <1>0, <2>2, ConcatProperties
  <2>4. txlog' = txlog \o b
    BY <1>4 DEF b
  <2>5. txlen' \in 0 .. TxSize /\ UNCHANGED connects
    BY <1>0, <1>4
  <2> QED BY <1>1, <2>3, <2>4, <2>5
<1>5. ASSUME NEW t \in Tasks, PrintfWrite(t) PROVE TxInv'
  <2> DEFINE l == Least(TextLen - written_char[t], TxSize - txlen)
             char == [i \in 1 .. l |-> written_char[t] + i]
  <2>1. l \in Nat /\ txlen + l <= TxSize /\ written_char[t] \in Nat
    BY <1>0 DEF Least
  <2>2. \A i \in 1 .. l : char[i] = written_char[t] + i /\ char[i] \in Nat
    BY <2>1
  <2>3. /\ txlen' = txlen + l /\ UNCHANGED connects
        /\ txlog' = txlog \o [i \in 1 .. l |-> [src |-> t, call |-> UNLOCKED,
                                                char |-> written_char[t] + i]]
    BY <1>5 DEF PrintfWrite, hostVars
  <2>4. txlog' = txlog \o [i \in 1 .. l |-> [src |-> t, call |-> UNLOCKED,
                                             char |-> char[i]]]
    <3> HIDE DEF l, char
    <3> QED BY <2>2, <2>3
  <2>5. t \in Origins
    BY DEF Origins
  <2> HIDE DEF l, char
  <2> QED BY <1>4, <2>1, <2>2, <2>3, <2>4, <2>5
<1>6. ASSUME NEW t \in Origins, NEW n \in 0 .. Packet, RxHandler(t, n) PROVE TxInv'
  <2>1. n \in Nat
    BY UsbAssumption
  <2>2. PICK k, q, e \in 0 .. Len(Received(n)) :
              /\ RxTakes(n, k, q, e)
              /\ q <= k /\ q <= nfree /\ e <= k /\ txlen + e <= TxSize
    BY <1>6, RxNumbers
  <2>3. Received(n) \in Seq(1 .. sent + n) /\ sent \in Nat
    BY <2>1, ReceivedBytes DEF RxInv
  <2>4. Len(Received(n)) \in Nat /\ \A i \in 1 .. Len(Received(n)) : Received(n)[i] \in Nat
    BY <2>1, <2>3, LenProperties, ElementOfSeq
  <2>5. e \in Nat /\ \A i \in 1 .. e : Received(n)[i] \in Nat
    BY <2>4
  <2>6. /\ txlen' = txlen + e /\ UNCHANGED connects
        /\ txlog' = txlog \o [i \in 1 .. e |-> [src |-> NONE, call |-> UNLOCKED,
                                                char |-> Received(n)[i]]]
    BY <2>2 DEF RxTakes, hostVars
  <2>7. NONE \in Origins
    BY DEF Origins
  <2> QED BY <1>4, <2>2, <2>5, <2>6, <2>7
<1>7. ASSUME ControlConnected PROVE TxInv'
  BY <1>0, <1>7 DEF ControlConnected, TxInv
<1>8. ASSUME TxHandler PROVE TxInv'
  BY <1>0, <1>1, <1>8 DEF TxHandler, hostVars
<1>9. ASSUME NEW t \in Tasks,
             \/ MqVopen(t) \/ FilesAllocate(t) \/ MqReceive(t) \/ FreeMessage(t)
             \/ ReadUnlock(t) \/ MqClose(t) \/ WriteLock(t) \/ WriteUnlock(t) \/ ReadLock(t)
             \/ PrintStart(t) \/ PrintfStart(t) \/ SignalTask(t) \/ OpenFile(t) \/ CloseFile(t)
      PROVE  UNCHANGED <<txVars, connects>>
  BY <1>9 DEF MqVopen, FilesAllocate, MqReceive, FreeMessage, ReadUnlock, MqClose, WriteLock,
              WriteUnlock, ReadLock, PrintStart, PrintfStart, SignalTask, OpenFile, CloseFile,
              hostVars
<1>10. ASSUME ControlDisconnected \/ UNCHANGED vars PROVE UNCHANGED <<txVars, connects>>
  BY <1>10 DEF ControlDisconnected, vars, hostVars
<1> QED BY <1>2, <1>3, <1>5, <1>6, <1>7, <1>8, <1>9, <1>10 DEF Next, Step

(***************************************************************************)
(* The flags keep their type.                                              *)
(***************************************************************************)
LEMMA FlagStep ==
  ASSUME FlagInv, [Next]_vars
  PROVE  FlagInv'
<1>1. linked' = linked \/ linked' = FALSE
  <2>1. ASSUME NEW t \in Tasks, Step(t) PROVE linked' = linked \/ linked' = FALSE
    BY <2>1 DEF Step, MqVopen, FilesAllocate, MqReceive, FreeMessage, ReadUnlock, MqClose,
                WriteLock, WriteByte, WriteUnlock, PrintfWrite, CloseAndUnlink, queueVars
  <2>2. ASSUME NEW t \in Tasks,
               ReadLock(t) \/ PrintStart(t) \/ PrintfStart(t) \/ SignalTask(t)
               \/ OpenFile(t) \/ CloseFile(t)
        PROVE  linked' = linked
    BY <2>2 DEF ReadLock, PrintStart, PrintfStart, SignalTask, OpenFile, CloseFile, queueVars
  <2>3. ASSUME NEW t \in Origins, NEW n \in 0 .. Packet, RxHandler(t, n)
        PROVE  linked' = linked \/ linked' = FALSE
    BY <2>3 DEF RxHandler, USBUARTPrimeTransmit, CloseAndUnlink
  <2>4. ASSUME ControlConnected \/ ControlDisconnected \/ TxHandler \/ UNCHANGED vars
        PROVE  linked' = linked
    BY <2>4 DEF ControlConnected, ControlDisconnected, TxHandler, queueVars, vars
  <2> QED BY <2>1, <2>2, <2>3, <2>4, Zenon DEF Next
<1>2. g_bUSBConfigured' \in {TRUE, FALSE, g_bUSBConfigured}
  <2>1. ASSUME NEW t \in Tasks, Step(t) PROVE UNCHANGED hostVars
    BY <2>1 DEF Step, MqVopen, FilesAllocate, MqReceive, FreeMessage, ReadUnlock, MqClose,
                WriteLock, WriteByte, WriteUnlock, PrintfWrite
  <2>2. ASSUME NEW t \in Tasks,
               ReadLock(t) \/ PrintStart(t) \/ PrintfStart(t) \/ SignalTask(t)
               \/ OpenFile(t) \/ CloseFile(t)
        PROVE  UNCHANGED hostVars
    BY <2>2 DEF ReadLock, PrintStart, PrintfStart, SignalTask, OpenFile, CloseFile
  <2>3. ASSUME NEW t \in Origins, NEW n \in 0 .. Packet, RxHandler(t, n)
        PROVE  UNCHANGED hostVars
    BY <2>3 DEF RxHandler
  <2>4. ASSUME ControlConnected \/ ControlDisconnected \/ TxHandler \/ UNCHANGED vars
        PROVE  g_bUSBConfigured' \in {TRUE, FALSE, g_bUSBConfigured}
    BY <2>4, Zenon DEF ControlConnected, ControlDisconnected, TxHandler, vars, hostVars
  <2>5. UNCHANGED hostVars => g_bUSBConfigured' \in {TRUE, FALSE, g_bUSBConfigured}
    BY Zenon DEF hostVars
  <2> QED BY <2>1, <2>2, <2>3, <2>4, <2>5, Zenon DEF Next
<1> QED BY <1>1, <1>2, Zenon DEF FlagInv

(***************************************************************************)
(* The invariant is inductive.                                             *)
(***************************************************************************)
LEMMA NextInv ==
  ASSUME IInv, [Next]_vars
  PROVE  IInv'
<1>1. TaskInv'
  BY TaskStep DEF IInv
<1>2. SemInv'
  BY <1>1, SemStep DEF IInv
<1>3. RxInv' /\ TxInv' /\ FlagInv'
  BY RxStep, TxStep, FlagStep DEF IInv
<1> QED BY <1>1, <1>2, <1>3 DEF IInv

(***************************************************************************)
(* And it holds in every state.                                            *)
(***************************************************************************)
LEMMA Invariant == Spec => []IInv
<1>1. Init => IInv
  BY InitInv
<1>2. IInv /\ [Next]_vars => IInv'
  BY NextInv
<1> QED BY <1>1, <1>2, PTL DEF Spec

(***************************************************************************)
(* It says that every structure is accounted for.                          *)
(***************************************************************************)
LEMMA Accounted ==
  ASSUME IInv
  PROVE  MessagesAccounted /\ nfree <= PoolSize
<1>1. {t \in Tasks : pc[t] = "free"} = At(pc, {"free"})
  BY DEF At
<1>2. nfree + Len(queue) + Cardinality(At(pc, {"free"})) = PoolSize
  BY DEF IInv, RxInv
<1>3. nfree \in Nat /\ Len(queue) \in Nat /\ Cardinality(At(pc, {"free"})) \in Nat
  BY LenProperties, AtFinite DEF IInv, RxInv
<1>4. MessagesAccounted
  BY <1>1, <1>2 DEF MessagesAccounted
<1> QED BY <1>2, <1>3, <1>4

(***************************************************************************)
(* Every variable of the driver keeps its type, and no buffer, table or    *)
(* counter passes its limit: a task that closes the queue or a file has    *)
(* one, and printf_usb_app never counts more characters than the string    *)
(* has.                                                                    *)
(***************************************************************************)
THEOREM DriverTypes == Spec => []TypeOK
<1>1. IInv => TypeOK
  <2> SUFFICES ASSUME IInv PROVE TypeOK
    OBVIOUS
  <2>1. nfree \in 0 .. PoolSize
    BY Accounted DEF IInv, RxInv
  <2>2. linked \in BOOLEAN /\ g_bUSBConfigured \in BOOLEAN
    BY DEF IInv, FlagInv
  <2>3. SemTypeOK
    BY DEF IInv, SemInv
  <2> QED BY <2>1, <2>2, <2>3 DEF IInv, TaskInv, RxInv, TxInv, TypeOK, Labels
<1> QED BY <1>1, Invariant, PTL

(***************************************************************************)
(* A message structure is never lost or used twice, whatever the readers,  *)
(* the interrupt handler and the unlinking of the queue do.                *)
(***************************************************************************)
THEOREM StructuresAccounted == Spec => []MessagesAccounted
<1>1. IInv => MessagesAccounted
  BY Accounted
<1> QED BY <1>1, Invariant, PTL

-----------------------------------------------------------------------------
(***************************************************************************)
(* A sequence of bytes in the order in which they were sent, and two       *)
(* sequences of which the first was sent before the second.                *)
(***************************************************************************)
Increasing(s) == \A i, j \in 1 .. Len(s) : i < j => s[i] < s[j]
Below(a, b) == \A i \in 1 .. Len(a), j \in 1 .. Len(b) : a[i] < b[j]

(***************************************************************************)
(* What makes ReadInOrder inductive.                                       *)
(***************************************************************************)
OrderInv ==
    /\ Increasing(got) /\ Increasing(queue) /\ Increasing(rxBuffer)
    /\ Below(got, queue) /\ Below(got, rxBuffer) /\ Below(queue, rxBuffer)

(***************************************************************************)
(* The places of a concatenation.                                          *)
(***************************************************************************)
LEMMA ConcatPlaces ==
  ASSUME NEW S, NEW a \in Seq(S), NEW b \in Seq(S), NEW i \in 1 .. Len(a \o b)
  PROVE  \/ i \in 1 .. Len(a) /\ (a \o b)[i] = a[i]
         \/ i - Len(a) \in 1 .. Len(b) /\ (a \o b)[i] = b[i - Len(a)]
<1>1. /\ Len(a) \in Nat /\ Len(b) \in Nat /\ Len(a \o b) = Len(a) + Len(b)
      /\ \A h \in 1 .. Len(a) + Len(b) :
           (a \o b)[h] = IF h <= Len(a) THEN a[h] ELSE b[h - Len(a)]
  BY LenProperties, ConcatProperties
<1>2. i \in 1 .. Len(a) + Len(b)
  BY <1>1
<1>3. CASE i <= Len(a)
  BY <1>1, <1>2, <1>3
<1>4. CASE ~(i <= Len(a))
  <2>1. i - Len(a) \in 1 .. Len(b)
    BY <1>1, <1>2, <1>4
  <2> QED BY <1>1, <1>2, <1>4, <2>1
<1> QED BY <1>3, <1>4

(***************************************************************************)
(* Order and concatenation.                                                *)
(***************************************************************************)
LEMMA ConcatOrder ==
  ASSUME NEW a \in Seq(Nat), NEW b \in Seq(Nat), NEW c \in Seq(Nat)
  PROVE  /\ Increasing(a) /\ Increasing(b) /\ Below(a, b) => Increasing(a \o b)
         /\ Below(a, c) /\ Below(b, c) => Below(a \o b, c)
         /\ Below(c, a) /\ Below(c, b) => Below(c, a \o b)
<1>0. Len(a) \in Nat /\ Len(b) \in Nat /\ Len(a \o b) = Len(a) + Len(b)
  BY LenProperties, ConcatProperties
<1>1. \A i \in 1 .. Len(a \o b) :
         \/ i \in 1 .. Len(a) /\ (a \o b)[i] = a[i]
         \/ i - Len(a) \in 1 .. Len(b) /\ (a \o b)[i] = b[i - Len(a)]
  BY ConcatPlaces
<1> DEFINE d == a \o b
<1> HIDE DEF d
<1>2. \A i \in 1 .. Len(d) :
         \/ i \in 1 .. Len(a) /\ d[i] = a[i]
         \/ i - Len(a) \in 1 .. Len(b) /\ d[i] = b[i - Len(a)]
  BY <1>1 DEF d
<1>3. ASSUME Increasing(a), Increasing(b), Below(a, b) PROVE Increasing(d)
  <2> SUFFICES ASSUME NEW i \in 1 .. Len(d), NEW j \in 1 .. Len(d), i < j
               PROVE  d[i] < d[j]
    BY DEF Increasing
  <2>0. Len(d) \in Nat /\ Len(d) = Len(a) + Len(b)
    BY <1>0 DEF d
  <2>1. CASE j \in 1 .. Len(a) /\ d[j] = a[j]
    <3>1. i \in 1 .. Len(a) /\ d[i] = a[i]
      <4>1. ~(i - Len(a) \in 1 .. Len(b))
        BY <1>0, <2>1
      <4> QED BY <1>2, <4>1
    <3> QED BY <1>3, <2>1, <3>1 DEF Increasing
  <2>2. CASE j - Len(a) \in 1 .. Len(b) /\ d[j] = b[j - Len(a)]
    <3>1. CASE i \in 1 .. Len(a) /\ d[i] = a[i]
      BY <1>3, <2>2, <3>1 DEF Below
    <3>2. CASE i - Len(a) \in 1 .. Len(b) /\ d[i] = b[i - Len(a)]
      <4>1. i - Len(a) < j - Len(a)
        BY <1>0, <2>0
      <4> QED BY <1>3, <2>2, <3>2, <4>1 DEF Increasing
    <3> QED BY <1>2, <3>1, <3>2
  <2> QED BY <1>2, <2>1, <2>2
<1>4. ASSUME Below(a, c), Below(b, c) PROVE Below(d, c)
  BY <1>2, <1>4 DEF Below
<1>5. ASSUME Below(c, a), Below(c, b) PROVE Below(c, d)
  BY <1>2, <1>5 DEF Below
<1> QED BY <1>3, <1>4, <1>5 DEF d

(***************************************************************************)
(* Order and slices.                                                       *)
(***************************************************************************)
LEMMA SliceOrder ==
  ASSUME NEW s \in Seq(Nat), Increasing(s), NEW k \in 0 .. Len(s), NEW q \in 0 .. k,
         NEW c \in Seq(Nat), Below(c, s)
  PROVE  LET a == SubSeq(s, 1, q)
             b == SubSeq(s, k + 1, Len(s))
         IN  /\ a \in Seq(Nat) /\ b \in Seq(Nat) /\ Increasing(a) /\ Increasing(b)
             /\ Below(a, b) /\ Below(c, a) /\ Below(c, b)
<1> DEFINE a == SubSeq(s, 1, q)
           b == SubSeq(s, k + 1, Len(s))
<1>0. Len(s) \in Nat /\ k \in Nat /\ q \in Nat /\ q <= k /\ k <= Len(s)
  BY LenProperties
<1>1. a \in Seq(Nat) /\ Len(a) = q /\ \A i \in 1 .. q : a[i] = s[i]
  <2>1. 1 \in 1 .. Len(s) + 1 /\ q \in 1 - 1 .. Len(s)
    BY <1>0
  <2>2. /\ a \in Seq(Nat) /\ Len(a) = q - 1 + 1
        /\ \A i \in 1 .. q - 1 + 1 : a[i] = s[1 + i - 1]
    BY <2>1, Slice, Zenon
  <2>3. q - 1 + 1 = q /\ \A i \in 1 .. q : 1 + i - 1 = i
    BY <1>0
  <2> QED BY <2>2, <2>3
<1>2. b \in Seq(Nat) /\ Len(b) = Len(s) - k /\ \A i \in 1 .. Len(s) - k : b[i] = s[k + i]
  <2>1. k + 1 \in 1 .. Len(s) + 1 /\ Len(s) \in (k + 1) - 1 .. Len(s)
    BY <1>0
  <2>2. /\ b \in Seq(Nat) /\ Len(b) = Len(s) - (k + 1) + 1
        /\ \A i \in 1 .. Len(s) - (k + 1) + 1 : b[i] = s[(k + 1) + i - 1]
    BY <2>1, Slice, Zenon
  <2>3. Len(s) - (k + 1) + 1 = Len(s) - k
        /\ \A i \in 1 .. Len(s) - k : (k + 1) + i - 1 = k + i
    BY <1>0
  <2> QED BY <2>2, <2>3, Zenon
<1> HIDE DEF a, b
<1>3. \A i \in 1 .. q : i \in 1 .. Len(s)
  BY <1>0
<1>4. \A i \in 1 .. Len(s) - k : k + i \in 1 .. Len(s)
  BY <1>0
<1>5. Increasing(a) /\ Below(c, a)
  BY <1>1, <1>3 DEF Increasing, Below
<1>6. Increasing(b)
  <2> SUFFICES ASSUME NEW i \in 1 .. Len(b), NEW j \in 1 .. Len(b), i < j
               PROVE  b[i] < b[j]
    BY DEF Increasing
  <2>1. i \in 1 .. Len(s) - k /\ j \in 1 .. Len(s) - k /\ k + i < k + j
    BY <1>0, <1>2
  <2> QED BY <1>2, <1>4, <2>1 DEF Increasing
<1>7. Below(a, b)
  <2> SUFFICES ASSUME NEW i \in 1 .. Len(a), NEW j \in 1 .. Len(b)
               PROVE  a[i] < b[j]
    BY DEF Below
  <2>1. i \in 1 .. q /\ j \in 1 .. Len(s) - k /\ i < k + j
    BY <1>0, <1>1, <1>2
  <2> QED BY <1>1, <1>2, <1>3, <1>4, <2>1 DEF Increasing
<1>8. Below(c, b)
  BY <1>2, <1>4 DEF Below
<1> QED BY <1>1, <1>2, <1>5, <1>6, <1>7, <1>8 DEF a, b

(***************************************************************************)
(* The bytes that a receive event finds in the buffer are in order, and    *)
(* behind all that were taken before.                                      *)
(***************************************************************************)
LEMMA ReceivedOrder ==
  ASSUME RxInv, NEW n \in Nat, Increasing(rxBuffer),
         NEW c \in Seq(1 .. sent), Below(c, rxBuffer)
  PROVE  Increasing(Received(n)) /\ Below(c, Received(n))
<1> DEFINE b == Received(n)
           l == Len(rxBuffer)
<1>0. /\ sent \in Nat /\ l \in Nat /\ \A i \in 1 .. l : rxBuffer[i] \in 1 .. sent
      /\ \A i \in 1 .. Len(c) : c[i] \in 1 .. sent
  BY LenProperties, ElementOfSeq DEF RxInv
<1>1. /\ Len(b) = l + n
      /\ \A i \in 1 .. l : b[i] = rxBuffer[i]
      /\ \A i \in 1 .. n : b[l + i] = sent + i
  BY ReceivedBytes
<1> HIDE DEF b, l
<1>2. ASSUME NEW i \in 1 .. Len(b), ~(i \in 1 .. l)
      PROVE  b[i] = sent + (i - l) /\ i - l \in 1 .. n
  <2>1. i - l \in 1 .. n /\ l + (i - l) = i
    BY <1>0, <1>1, <1>2
  <2> QED BY <1>1, <2>1
<1>3. Increasing(b)
  <2> SUFFICES ASSUME NEW i \in 1 .. Len(b), NEW j \in 1 .. Len(b), i < j
               PROVE  b[i] < b[j]
    BY DEF Increasing
  <2>1. CASE i \in 1 .. l /\ j \in 1 .. l
    BY <1>1, <2>1 DEF Increasing, l
  <2>2. CASE i \in 1 .. l /\ ~(j \in 1 .. l)
    <3>1. b[i] \in 1 .. sent /\ b[j] = sent + (j - l) /\ j - l \in 1 .. n
      BY <1>0, <1>1, <1>2, <2>2
    <3> QED BY <1>0, <3>1
  <2>3. CASE ~(i \in 1 .. l)
    <3>1. ~(j \in 1 .. l)
      BY <1>0, <1>1, <2>3
    <3>2. b[i] = sent + (i - l) /\ b[j] = sent + (j - l)
      BY <1>2, <2>3, <3>1
    <3> QED BY <1>0, <1>1, <3>2
  <2> QED BY <2>1, <2>2, <2>3
<1>4. Below(c, b)
  <2> SUFFICES ASSUME NEW i \in 1 .. Len(c), NEW j \in 1 .. Len(b)
               PROVE  c[i] < b[j]
    BY DEF Below
  <2>1. CASE j \in 1 .. l
    BY <1>1, <2>1 DEF Below, l
  <2>2. CASE ~(j \in 1 .. l)
    <3>1. c[i] \in 1 .. sent /\ b[j] = sent + (j - l) /\ j - l \in 1 .. n
      BY <1>0, <1>2, <2>2
    <3> QED BY <1>0, <3>1
  <2> QED BY <2>1, <2>2
<1> QED BY <1>3, <1>4 DEF b

(***************************************************************************)
(* No step changes the order of bytes or delivers one twice.               *)
(***************************************************************************)
LEMMA OrderStep ==
  ASSUME IInv, OrderInv, [Next]_vars
  PROVE  OrderInv'
<1>0. /\ TaskInv /\ RxInv /\ TxInv /\ sent \in Nat
      /\ rxBuffer \in Seq(1 .. sent) /\ queue \in Seq(1 .. sent) /\ got \in Seq(1 .. sent)
  BY DEF IInv, RxInv
<1>1. rxBuffer \in Seq(Nat) /\ queue \in Seq(Nat) /\ got \in Seq(Nat)
  <2>1. 1 .. sent \subseteq Nat
    BY <1>0
  <2> QED BY <1>0, <2>1, SeqMonotonic
<1>2. /\ Increasing(<< >>) /\ \A s \in Seq(Nat) : Below(s, << >>) /\ Below(<< >>, s)
  BY DEF Increasing, Below
<1>3. ASSUME queue' = queue \/ queue' = << >>, UNCHANGED <<rxBuffer, got>>
      PROVE  OrderInv'
  BY <1>1, <1>2, <1>3 DEF OrderInv
<1>4. ASSUME RxQuiet PROVE OrderInv'
  BY <1>3, <1>4 DEF RxQuiet, rxVars, queueVars
<1>5. ASSUME NEW t \in Tasks, RxTaskStep(t), ~(queue # << >> /\ MqReceive(t)) PROVE OrderInv'
  BY <1>3, <1>5 DEF RxTaskStep, MqVopen, FilesAllocate, FreeMessage, MqClose, CloseAndUnlink,
                    rxVars, queueVars
<1>6. ASSUME NEW t \in Tasks, queue # << >>, MqReceive(t) PROVE OrderInv'
  <2> DEFINE h == Head(queue)
             r == Tail(queue)
             g == Append(got, h)
  <2>1. got' = g /\ queue' = r /\ rxBuffer' = rxBuffer
    BY <1>6 DEF MqReceive, rxVars
  <2>2. /\ h \in Nat /\ r \in Seq(Nat) /\ Len(r) = Len(queue) - 1 /\ h = queue[1]
        /\ \A i \in 1 .. Len(r) : r[i] = queue[i + 1]
    BY <1>1, <1>6, HeadTailProperties
  <2>3. Len(queue) \in Nat /\ Len(queue) >= 1 /\ Len(got) \in Nat
    BY <1>1, <1>6, LenProperties, EmptySeq
  <2>4. g \in Seq(Nat) /\ Len(g) = Len(got) + 1 /\ g[Len(got) + 1] = h
        /\ \A i \in 1 .. Len(got) : g[i] = got[i]
    BY <1>1, <2>2, AppendProperties
  <2> HIDE DEF h, r, g
  <2>5. 1 \in 1 .. Len(queue) /\ \A i \in 1 .. Len(r) : i + 1 \in 1 .. Len(queue) /\ 1 < i + 1
    BY <2>2, <2>3
  <2>6. \A i \in 1 .. Len(g) : i \in 1 .. Len(got) \/ i = Len(got) + 1
    BY <2>3, <2>4
  <2>7. Increasing(r) /\ Below(r, rxBuffer)
    <3>1. Increasing(queue) /\ Below(queue, rxBuffer)
      BY DEF OrderInv
    <3>2. Below(r, rxBuffer)
      BY <2>2, <2>5, <3>1 DEF Below
    <3>3. ASSUME NEW i \in 1 .. Len(r), NEW j \in 1 .. Len(r), i < j PROVE r[i] < r[j]
      <4>1. i + 1 < j + 1
        BY <2>2, <2>3, <3>3
      <4> QED BY <2>2, <2>5, <3>1, <4>1 DEF Increasing
    <3> QED BY <3>2, <3>3 DEF Increasing
  <2>8. Increasing(g)
    <3> SUFFICES ASSUME NEW i \in 1 .. Len(g), NEW j \in 1 .. Len(g), i < j
                 PROVE  g[i] < g[j]
      BY DEF Increasing
    <3>1. i \in 1 .. Len(got)
      BY <2>3, <2>4
    <3>2. CASE j \in 1 .. Len(got)
      BY <2>4, <3>1, <3>2 DEF OrderInv, Increasing
    <3>3. CASE j = Len(got) + 1
      BY <2>2, <2>4, <2>5, <3>1, <3>3 DEF OrderInv, Below
    <3> QED BY <2>6, <3>2, <3>3
  <2>9. Below(g, r)
    <3> SUFFICES ASSUME NEW i \in 1 .. Len(g), NEW j \in 1 .. Len(r)
                 PROVE  g[i] < r[j]
      BY DEF Below
    <3>1. CASE i \in 1 .. Len(got)
      BY <2>2, <2>4, <2>5, <3>1 DEF OrderInv, Below
    <3>2. CASE i = Len(got) + 1
      BY <2>2, <2>4, <2>5, <3>2 DEF OrderInv, Increasing
    <3> QED BY <2>6, <3>1, <3>2
  <2>10. Below(g, rxBuffer)
    BY <2>2, <2>4, <2>5, <2>6 DEF OrderInv, Below
  <2> QED BY <2>1, <2>7, <2>8, <2>9, <2>10 DEF OrderInv
<1>7. ASSUME ControlConnected PROVE OrderInv'
  BY <1>1, <1>2, <1>7 DEF ControlConnected, OrderInv, queueVars
<1>8. ASSUME NEW n \in 0 .. Packet, NEW k \in Nat, NEW q \in Nat, NEW e \in Nat,
             RxTakes(n, k, q, e), k <= Len(Received(n)), q <= k
      PROVE  OrderInv'
  <2> DEFINE s == Received(n)
             a == SubSeq(s, 1, q)
             b == SubSeq(s, k + 1, Len(s))
  <2>1. n \in Nat
    BY UsbAssumption
  <2>2. Increasing(s) /\ Below(got, s) /\ Below(queue, s)
    BY <1>0, <2>1, ReceivedOrder DEF OrderInv
  <2>3. s \in Seq(Nat)
    <3>1. s \in Seq(1 .. sent + n) /\ 1 .. sent + n \subseteq Nat
      BY <1>0, <2>1, ReceivedBytes
    <3> QED BY <3>1, SeqMonotonic
  <2>4. /\ rxBuffer' = b /\ got' = got
        /\ queue' \in {queue, << >>, queue \o a}
    BY <1>8 DEF RxTakes, CloseAndUnlink
  <2> HIDE DEF s
  <2>5. k \in 0 .. Len(s) /\ q \in 0 .. k
    BY <1>8, <2>3, LenProperties DEF s
  <2>6. /\ a \in Seq(Nat) /\ b \in Seq(Nat) /\ Increasing(a) /\ Increasing(b)
        /\ Below(a, b) /\ Below(got, a) /\ Below(got, b) /\ Below(queue, a) /\ Below(queue, b)
    BY <1>1, <2>2, <2>3, <2>5, SliceOrder
  <2> HIDE DEF a, b
  <2>7. Increasing(queue \o a) /\ Below(queue \o a, b) /\ Below(got, queue \o a)
    BY <1>1, <2>6, ConcatOrder DEF OrderInv
  <2>8. CASE queue' = queue
    BY <2>4, <2>6, <2>8 DEF OrderInv
  <2>9. CASE queue' = << >>
    BY <1>1, <1>2, <2>4, <2>6, <2>9 DEF OrderInv
  <2>10. CASE queue' = queue \o a
    BY <2>4, <2>6, <2>7, <2>10 DEF OrderInv
  <2> QED BY <2>4, <2>8, <2>9, <2>10
<1> QED BY <1>0, <1>4, <1>5, <1>6, <1>7, <1>8, RxEffects

(***************************************************************************)
(* cdc_read delivers the bytes in the order in which the host sent them,   *)
(* and none twice, whatever is lost on the way: no interleaving of readers *)
(* and interrupt handlers, no flush and no unlinking changes the order.    *)
(***************************************************************************)
THEOREM BytesInOrder == Spec => []ReadInOrder
<1>1. Init => OrderInv
  BY DEF Init, OrderInv, Increasing, Below
<1>2. IInv /\ OrderInv /\ [Next]_vars => OrderInv'
  BY OrderStep
<1>3. IInv /\ OrderInv => ReadInOrder
  <2> SUFFICES ASSUME IInv, OrderInv PROVE ReadInOrder
    OBVIOUS
  <2>1. rxBuffer \in Seq(Nat) /\ queue \in Seq(Nat) /\ got \in Seq(Nat)
    <3>1. sent \in Nat /\ 1 .. sent \subseteq Nat
      BY DEF IInv, RxInv
    <3> QED BY <3>1, SeqMonotonic DEF IInv, RxInv
  <2> DEFINE a == got \o queue
             all == a \o rxBuffer
  <2>2. a \in Seq(Nat) /\ Increasing(a) /\ Below(a, rxBuffer)
    BY <2>1, ConcatOrder, ConcatProperties DEF OrderInv
  <2> HIDE DEF a
  <2>3. all \in Seq(Nat) /\ Increasing(all)
    BY <2>1, <2>2, ConcatOrder, ConcatProperties DEF OrderInv
  <2> HIDE DEF all
  <2>4. DOMAIN all = 1 .. Len(all)
    BY <2>3, LenProperties
  <2>5. \A i, j \in DOMAIN all : i < j => all[i] < all[j]
    BY <2>3, <2>4 DEF Increasing
  <2> QED BY <2>5 DEF ReadInOrder, all, a
<1> QED BY <1>1, <1>2, <1>3, Invariant, PTL DEF Spec

(***************************************************************************)
(* The bytes that a step adds behind those that are on their way.          *)
(***************************************************************************)
NewBytes == [i \in 1 .. sent' - sent |-> sent + i]
Kept == got' \o queue' \o rxBuffer' = got \o queue \o rxBuffer \o NewBytes

(***************************************************************************)
(* Concatenation under a name of its own, so that facts about it are used  *)
(* as they are stated.                                                     *)
(***************************************************************************)
Cat(u, v) == u \o v

(***************************************************************************)
(* It stays in the sequences over S and is associative.                    *)
(***************************************************************************)
LEMMA CatFacts ==
  ASSUME NEW S
  PROVE  /\ \A u, v \in Seq(S) : Cat(u, v) \in Seq(S)
         /\ \A u, v, w \in Seq(S) : Cat(Cat(u, v), w) = Cat(u, Cat(v, w))
<1>1. \A u, v \in Seq(S) : Cat(u, v) \in Seq(S)
  BY ConcatProperties DEF Cat
<1>2. ASSUME NEW u \in Seq(S), NEW v \in Seq(S), NEW w \in Seq(S)
      PROVE  (u \o v) \o w = u \o (v \o w)
  BY ConcatAssociative
<1> QED BY <1>1, <1>2 DEF Cat

(***************************************************************************)
(* Bytes that move from the buffer r, with x behind it, to the queue q.    *)
(***************************************************************************)
LEMMA MovedAlong ==
  ASSUME NEW S, NEW g \in Seq(S), NEW q \in Seq(S), NEW r \in Seq(S), NEW x \in Seq(S),
         NEW a \in Seq(S), NEW b \in Seq(S), Cat(a, b) = Cat(r, x)
  PROVE  Cat(Cat(g, Cat(q, a)), b) = Cat(Cat(Cat(g, q), r), x)
<1>1. Cat(g, q) \in Seq(S)
  BY CatFacts
<1>2. Cat(g, Cat(q, a)) = Cat(Cat(g, q), a)
  BY CatFacts
<1>3. Cat(Cat(Cat(g, q), a), b) = Cat(Cat(g, q), Cat(a, b))
  BY <1>1, CatFacts
<1>4. Cat(Cat(g, q), Cat(r, x)) = Cat(Cat(Cat(g, q), r), x)
  BY <1>1, CatFacts
<1> QED BY <1>2, <1>3, <1>4

(***************************************************************************)
(* What a step may lose bytes by.                                          *)
(***************************************************************************)
LEMMA StepKeepsBytes ==
  ASSUME IInv, [Next]_vars
  PROVE  Kept \/ nfree' = 0 \/ ~linked' \/ connects' # connects
<1>0. /\ TaskInv /\ RxInv /\ TxInv /\ sent \in Nat
      /\ rxBuffer \in Seq(1 .. sent) /\ queue \in Seq(1 .. sent) /\ got \in Seq(1 .. sent)
  BY DEF IInv, RxInv
<1>1. got \o queue \in Seq(1 .. sent) /\ got \o queue \o rxBuffer \in Seq(1 .. sent)
  BY <1>0, ConcatProperties
<1>2. ASSUME UNCHANGED <<rxBuffer, sent, queue, got>> PROVE Kept
  <2>1. NewBytes = << >>
    <3>1. sent' - sent = 0 /\ 1 .. 0 = {}
      BY <1>0, <1>2
    <3> QED BY <3>1 DEF NewBytes
  <2>2. got \o queue \o rxBuffer \o << >> = got \o queue \o rxBuffer
    BY <1>1, ConcatEmptySeq
  <2> QED BY <1>2, <2>1, <2>2 DEF Kept
<1>3. ASSUME RxQuiet PROVE Kept
  BY <1>2, <1>3 DEF RxQuiet, rxVars, queueVars
<1>4. ASSUME NEW t \in Tasks, (linked /\ MqVopen(t)) \/ FreeMessage(t) PROVE Kept
  BY <1>2, <1>4 DEF MqVopen, FreeMessage, rxVars
<1>5. ASSUME NEW t \in Tasks, ~HasFile(t), FilesAllocate(t) PROVE ~linked'
  BY <1>5 DEF FilesAllocate, CloseAndUnlink
<1>6. ASSUME NEW t \in Tasks, MqClose(t) PROVE Kept \/ ~linked'
  <2>1. linked' = linked /\ UNCHANGED <<rxBuffer, sent, got>> /\ (linked => UNCHANGED queue)
    BY <1>6 DEF MqClose, rxVars
  <2> QED BY <1>2, <2>1
<1>7. ASSUME NEW t \in Tasks, queue # << >>, MqReceive(t) PROVE Kept
  <2> DEFINE h == Head(queue)
             r == Tail(queue)
  <2>1. got' = Append(got, h) /\ queue' = r /\ UNCHANGED <<rxBuffer, sent>>
    BY <1>7 DEF MqReceive, rxVars
  <2>2. h \in 1 .. sent /\ r \in Seq(1 .. sent) /\ queue = <<h>> \o r
    BY <1>0, <1>7, HeadTailProperties, ConcatProperties
  <2> HIDE DEF h, r
  <2>3. Append(got, h) \o r = got \o queue
    <3>1. Append(got, h) = got \o <<h>> /\ <<h>> \in Seq(1 .. sent)
      BY <1>0, <2>2, AppendIsConcat
    <3>2. (got \o <<h>>) \o r = got \o (<<h>> \o r)
      BY <1>0, <2>2, <3>1, ConcatAssociative
    <3> QED BY <2>2, <3>1, <3>2
  <2>4. NewBytes = << >>
    <3>1. sent' - sent = 0 /\ 1 .. 0 = {}
      BY <1>0, <2>1
    <3> QED BY <3>1 DEF NewBytes
  <2>5. got \o queue \o rxBuffer \o << >> = got \o queue \o rxBuffer
    BY <1>1, ConcatEmptySeq
  <2> QED BY <2>1, <2>3, <2>4, <2>5 DEF Kept
<1>8. ASSUME ControlConnected PROVE connects' # connects
  BY <1>8 DEF ControlConnected, IInv, TxInv
<1>9. ASSUME NEW n \in 0 .. Packet, NEW k \in Nat, NEW q \in Nat, NEW e \in Nat,
             RxTakes(n, k, q, e), k <= Len(Received(n)), q <= k, q <= nfree
      PROVE  Kept \/ nfree' = 0 \/ ~linked'
  <2> DEFINE s == Received(n)
             a == SubSeq(s, 1, k)
             b == SubSeq(s, k + 1, Len(s))
  <2>1. CASE CloseAndUnlink(crefs)
    BY <2>1 DEF CloseAndUnlink
  <2>2. CASE q # k /\ ~CloseAndUnlink(crefs)
    <3>1. nfree' = nfree - q /\ linked' = linked /\ q = (IF linked THEN Least(k, nfree) ELSE 0)
      BY <1>9, <2>2 DEF RxTakes
    <3>2. nfree \in Nat /\ (linked => q = nfree)
      BY <1>0, <2>2, <3>1 DEF Least, RxInv
    <3> QED BY <3>1, <3>2
  <2>3. CASE q = k /\ ~CloseAndUnlink(crefs)
    <3>1. /\ got' = got /\ queue' = queue \o a /\ rxBuffer' = b /\ sent' = sent + n
      BY <1>9, <2>3 DEF RxTakes
    <3>2. n \in Nat
      BY UsbAssumption
    <3>3. s \in Seq(1 .. sent + n) /\ s = rxBuffer \o NewBytes
      <4>1. sent' - sent = n
        BY <1>0, <3>1, <3>2
      <4>2. NewBytes = [i \in 1 .. n |-> sent + i]
        BY <4>1 DEF NewBytes
      <4> QED BY <1>0, <3>2, <4>2, ReceivedBytes DEF Received
    <3> HIDE DEF s
    <3>4. Len(s) \in Nat /\ k <= Len(s)
      <4>1. Len(s) \in Nat
        BY <3>3, LenProperties
      <4>2. k <= Len(s)
        BY <1>9 DEF s
      <4> QED BY <4>1, <4>2
    <3>5. a \o b = s /\ a \in Seq(1 .. sent + n) /\ b \in Seq(1 .. sent + n)
      <4>1. 1 \in 1 .. Len(s) + 1 /\ k \in 1 - 1 .. Len(s) /\ Len(s) \in k .. Len(s)
            /\ k + 1 \in 1 .. Len(s) + 1 /\ Len(s) \in (k + 1) - 1 .. Len(s)
        BY <3>4
      <4>2. a \o b = SubSeq(s, 1, Len(s))
        BY <3>3, <4>1, ConcatAdjacentSubSeq
      <4>3. SubSeq(s, 1, Len(s)) = s
        BY <3>3, SubSeqFull
      <4>4. a \in Seq(1 .. sent + n) /\ b \in Seq(1 .. sent + n)
        BY <3>3, <4>1, Slice
      <4> QED BY <4>2, <4>3, <4>4, Zenon
    <3> HIDE DEF a, b
    <3>6. /\ got \in Seq(1 .. sent + n) /\ queue \in Seq(1 .. sent + n)
          /\ rxBuffer \in Seq(1 .. sent + n) /\ got \o queue \in Seq(1 .. sent + n)
      <4>1. 1 .. sent \subseteq 1 .. sent + n
        BY <1>0, <3>2
      <4> QED BY <1>0, <1>1, <4>1, SeqMonotonic
    <3>7. NewBytes \in Seq(1 .. sent + n)
      <4>1. sent' - sent = n /\ \A i \in 1 .. n : sent + i \in 1 .. sent + n
        BY <1>0, <3>1, <3>2
      <4>2. NewBytes = [i \in 1 .. n |-> sent + i]
        BY <4>1 DEF NewBytes
      <4> QED BY <3>2, <4>1, <4>2, IsASeq
    <3> DEFINE x == NewBytes
    <3> HIDE DEF x
    <3>8. got \o (queue \o a) \o b = got \o queue \o rxBuffer \o x
      <4>1. a \o b = rxBuffer \o x /\ x \in Seq(1 .. sent + n)
        BY <3>3, <3>5, <3>7 DEF x
      <4> DEFINE T == 1 .. sent + n
      <4> HIDE DEF T
      <4>2. /\ got \in Seq(T) /\ queue \in Seq(T) /\ rxBuffer \in Seq(T)
            /\ x \in Seq(T) /\ a \in Seq(T) /\ b \in Seq(T)
        BY <3>5, <3>6, <4>1 DEF T
      <4>3. Cat(a, b) = Cat(rxBuffer, x)
        BY <4>1 DEF Cat
      <4>4. Cat(Cat(got, Cat(queue, a)), b) = Cat(Cat(Cat(got, queue), rxBuffer), x)
        BY <4>2, <4>3, MovedAlong
      <4> QED BY <4>4 DEF Cat
    <3> QED BY <3>1, <3>8 DEF Kept, x
  <2> QED BY <2>1, <2>2, <2>3
<1> QED BY <1>0, <1>3, <1>4, <1>5, <1>6, <1>7, <1>8, <1>9, RxEffects DEF RxTaskStep

(***************************************************************************)
(* Between the host and the reader a byte is lost only when no message     *)
(* structure is left, when the queue is unlinked, or when a new connection *)
(* flushes the buffers.  No other step drops, repeats or moves a byte.     *)
(***************************************************************************)
THEOREM BytesKept == Spec => NoByteLost
<1>1. ASSUME IInv, [Next]_vars
      PROVE  [LET all == got \o queue \o rxBuffer
              IN  \/ all' = all \o [i \in 1 .. (sent' - sent) |-> sent + i]
                  \/ nfree' = 0 \/ ~linked' \/ connects' # connects]_vars
  <2>1. Kept \/ nfree' = 0 \/ ~linked' \/ connects' # connects
    BY <1>1, StepKeepsBytes
  <2> QED BY <2>1 DEF Kept, NewBytes
<1> QED BY <1>1, Invariant, PTL DEF Spec, NoByteLost
-----------------------------------------------------------------------------
(***************************************************************************)
(* Where a task uses a lock: it waits for it or is inside.                 *)
(***************************************************************************)
LockSteps(s) ==
    IF s = sWrite THEN {"lock_w", "write"}
    ELSE {"lock_r", "open", "alloc", "recv", "free", "post", "post_fd"}

(***************************************************************************)
(* The count of a lock says how many tasks use it, and of those at most    *)
(* one does not wait.                                                      *)
(***************************************************************************)
LockInv ==
    \A s \in Sems :
      /\ semcount[s] = 1 - Cardinality(At(pc, LockSteps(s)))
      /\ \A t, u \in At(pc, LockSteps(s)) :
           task_state[t] = "READY" /\ task_state[u] = "READY" => t = u

(***************************************************************************)
(* A step that neither begins nor ends a use of a lock.                    *)
(***************************************************************************)
LEMMA LockQuiet ==
  ASSUME LockInv, UNCHANGED semVars,
         \A s \in Sems : At(pc', LockSteps(s)) = At(pc, LockSteps(s))
  PROVE  LockInv'
BY DEF LockInv, semVars

(***************************************************************************)
(* A wait: it takes the count only when nobody uses the lock.              *)
(***************************************************************************)
LEMMA LockWaits ==
  ASSUME SemInv, LockInv, NEW t \in Tasks, NEW s \in Sems, NEW l, pc \in [Tasks -> Labels],
         pc[t] \in {"out", "print"}, l \in LockSteps(s), l \in Labels, Goto(t, l),
         TakeCount(t, s) \/ BlockOn(t, s)
  PROVE  LockInv'
<1> DEFINE U(x) == At(pc, LockSteps(x))
           V(x) == At(pc', LockSteps(x))
<1>0. /\ semcount \in [Sems -> Int] /\ task_state[t] = "READY"
      /\ task_state \in [Tasks -> {"READY", "WAIT_SEM", "INVALID"}]
  BY DEF SemInv, SemTypeOK, WaitPlace
<1>1. pc'[t] = l /\ \A u \in Tasks \ {t} : pc'[u] = pc[u]
  BY DEF Goto
<1>2. /\ pc[t] \notin LockSteps(s)
      /\ \A x \in Sems \ {s} : l \notin LockSteps(x) /\ pc[t] \notin LockSteps(x)
  BY UsbAssumption DEF LockSteps
<1>3. V(s) = U(s) \cup {t} /\ t \notin U(s) /\ \A x \in Sems \ {s} : V(x) = U(x)
  BY <1>1, <1>2 DEF At
<1>4. Cardinality(V(s)) = Cardinality(U(s)) + 1
  <2>1. IsFiniteSet(U(s))
    BY AtFinite
  <2> HIDE DEF U, V
  <2> QED BY <1>3, <2>1, FS_AddElement
<1>5. semcount' = [semcount EXCEPT ![s] = @ - 1]
  BY DEF TakeCount, BlockOn
<1>6. ASSUME NEW x \in Sems PROVE semcount'[x] = 1 - Cardinality(V(x))
  <2>1. semcount[x] = 1 - Cardinality(U(x)) /\ Cardinality(U(x)) \in Nat
    BY AtFinite DEF LockInv
  <2>2. x # s => V(x) = U(x)
    BY <1>3
  <2>3. x # s => semcount'[x] = semcount[x]
    BY <1>0, <1>5
  <2>4. x = s => semcount'[x] = semcount[x] - 1 /\ Cardinality(V(x)) = Cardinality(U(x)) + 1
    BY <1>0, <1>4, <1>5
  <2> HIDE DEF U, V
  <2> QED BY <2>1, <2>2, <2>3, <2>4
<1>7. ASSUME NEW x \in Sems, NEW a \in V(x), NEW b \in V(x),
             task_state'[a] = "READY", task_state'[b] = "READY"
      PROVE  a = b
  <2>1. CASE BlockOn(t, s)
    <3>1. task_state' = [task_state EXCEPT ![t] = "WAIT_SEM"]
      BY <2>1 DEF BlockOn
    <3>2. a # t /\ b # t /\ a \in U(x) /\ b \in U(x)
      BY <1>0, <1>3, <1>7, <3>1
    <3>3. task_state[a] = "READY" /\ task_state[b] = "READY"
      BY <1>0, <1>7, <3>1, <3>2 DEF At
    <3> QED BY <3>2, <3>3 DEF LockInv
  <2>2. CASE TakeCount(t, s)
    <3>1. task_state' = task_state /\ semcount[s] > 0
      BY <2>2 DEF TakeCount, Available
    <3>2. U(s) = {}
      <4>1. semcount[s] = 1 - Cardinality(U(s)) /\ Cardinality(U(s)) \in Nat
        BY AtFinite DEF LockInv
      <4>2. Cardinality(U(s)) = 0
        BY <3>1, <4>1
      <4> QED BY <4>2, AtFinite, FS_EmptySet
    <3>3. x = s => a = t /\ b = t
      BY <1>3, <3>2
    <3>4. x # s => a \in U(x) /\ b \in U(x)
      BY <1>3
    <3> QED BY <1>7, <3>1, <3>3, <3>4 DEF LockInv
  <2> QED BY <2>1, <2>2
<1> QED BY <1>6, <1>7 DEF LockInv

(***************************************************************************)
(* A post: its caller is the one task inside, so the task that it wakes    *)
(* is alone there.                                                         *)
(***************************************************************************)
LEMMA LockPosts ==
  ASSUME SemInv, LockInv, NEW t \in Tasks, NEW s \in Sems, NEW l, pc \in [Tasks -> Labels],
         pc[t] \in LockSteps(s) \ {"lock_r", "lock_w"}, l \in {"out", "close", "print"},
         Goto(t, l), nxsem_post(s)
  PROVE  LockInv'
<1> DEFINE U(x) == At(pc, LockSteps(x))
           V(x) == At(pc', LockSteps(x))
           r == SemState
           n == Posted(SemState, s)
<1>0. /\ Listed(r, {}) /\ r \in SemStates /\ semcount \in [Sems -> Int]
      /\ SEM_VALUE_MAX \in Nat \ {0}
      /\ task_state \in [Tasks -> {"READY", "WAIT_SEM", "INVALID"}]
      /\ task_state[t] = "READY"
  BY SemMaximum DEF SemInv, SemTypeOK, Listed, WaitPlace
<1>1. pc'[t] = l /\ \A u \in Tasks \ {t} : pc'[u] = pc[u]
  BY DEF Goto
<1>2. /\ l \notin LockSteps(s)
      /\ \A x \in Sems \ {s} : l \notin LockSteps(x) /\ pc[t] \notin LockSteps(x)
  BY UsbAssumption DEF LockSteps
<1>3. V(s) = U(s) \ {t} /\ t \in U(s) /\ \A x \in Sems \ {s} : V(x) = U(x)
  BY <1>1, <1>2 DEF At
<1>4. Cardinality(V(s)) = Cardinality(U(s)) - 1
  <2>1. IsFiniteSet(U(s))
    BY AtFinite
  <2> HIDE DEF U, V
  <2> QED BY <1>3, <2>1, FS_RemoveElement
<1>5. semcount[s] <= 0
  <2>1. Cardinality(U(s)) # 0
    BY <1>3, AtFinite, FS_EmptySet
  <2>2. semcount[s] = 1 - Cardinality(U(s)) /\ Cardinality(U(s)) \in Nat
    BY AtFinite DEF LockInv
  <2> QED BY <2>1, <2>2
<1>6. SemState' = n
  BY <1>0, PostStates
<1>7. r.count = semcount /\ r.state = task_state /\ n.count = semcount' /\ n.state = task_state'
  BY <1>6 DEF SemState
<1>8. \/ n = SetCount(r, s, r.count[s] + 1)
      \/ \E b \in WaitersOf(r, s) : Unblocked(r, n, s, b)
  <2>1. ~(r.count[s] >= SEM_VALUE_MAX)
    BY <1>0, <1>5, <1>7
  <2> QED BY <1>0, <2>1, PostEffect, Zenon
<1> HIDE DEF n, r
<1>9. semcount' = [semcount EXCEPT ![s] = @ + 1]
  BY <1>7, <1>8 DEF SetCount, Unblocked
<1>10. \/ task_state' = task_state
       \/ \E b \in Tasks : task_state' = [task_state EXCEPT ![b] = "READY"] /\ waitsem[b] = s
                           /\ task_state[b] = "WAIT_SEM"
  <2>1. ASSUME NEW b \in WaitersOf(r, s), Unblocked(r, n, s, b)
        PROVE  b \in Tasks /\ task_state' = [task_state EXCEPT ![b] = "READY"] /\ waitsem[b] = s
               /\ task_state[b] = "WAIT_SEM"
    BY <1>7, <2>1 DEF Unblocked, WaitersOf, Waiting, r, SemState
  <2>2. n = SetCount(r, s, r.count[s] + 1) => task_state' = task_state
    BY <1>7 DEF SetCount
  <2> QED BY <1>8, <2>1, <2>2
<1>11. ASSUME NEW x \in Sems PROVE semcount'[x] = 1 - Cardinality(V(x))
  <2>1. semcount[x] = 1 - Cardinality(U(x)) /\ Cardinality(U(x)) \in Nat
    BY AtFinite DEF LockInv
  <2>2. x # s => V(x) = U(x)
    BY <1>3
  <2>3. x # s => semcount'[x] = semcount[x]
    BY <1>0, <1>9
  <2>4. x = s => semcount'[x] = semcount[x] + 1 /\ Cardinality(V(x)) = Cardinality(U(x)) - 1
    BY <1>0, <1>4, <1>9
  <2> HIDE DEF U, V
  <2> QED BY <2>1, <2>2, <2>3, <2>4
<1>12. \A u \in V(s) : task_state[u] # "READY"
  BY <1>0, <1>3 DEF LockInv
<1>13. ASSUME NEW x \in Sems, NEW a \in V(x), NEW b \in V(x),
              task_state'[a] = "READY", task_state'[b] = "READY"
       PROVE  a = b
  <2>1. a \in Tasks /\ b \in Tasks /\ (x # s => a \in U(x) /\ b \in U(x))
    BY <1>3 DEF At
  <2>2. CASE task_state' = task_state
    BY <1>12, <1>13, <2>1, <2>2 DEF LockInv
  <2>3. ASSUME NEW w \in Tasks, task_state' = [task_state EXCEPT ![w] = "READY"],
               waitsem[w] = s, task_state[w] = "WAIT_SEM"
        PROVE  a = b
    <3>1. \A u \in Tasks \ {w} : task_state'[u] = task_state[u]
      BY <1>0, <2>3
    <3>2. CASE x = s
      BY <1>12, <1>13, <2>1, <3>1, <3>2
    <3>3. CASE x # s
      <4>1. w \notin U(x)
        BY <2>3, <3>3, UsbAssumption DEF At, LockSteps, SemInv, WaitPlace
      <4> QED BY <1>13, <2>1, <3>1, <3>3, <4>1 DEF LockInv
    <3> QED BY <3>2, <3>3
  <2> QED BY <1>10, <2>2, <2>3
<1> QED BY <1>11, <1>13 DEF LockInv

(***************************************************************************)
(* Every step, when no signal ends a wait.                                 *)
(***************************************************************************)
LEMMA LockStep ==
  ASSUME IInv, LockInv, Signalable = {}, [Next]_vars
  PROVE  LockInv'
<1>0. /\ SemInv /\ pc \in [Tasks -> Labels] /\ sRead \in Sems /\ sWrite \in Sems
      /\ Sems = {sRead, sWrite} /\ sRead # sWrite
  BY UsbAssumption DEF IInv, TaskInv
<1>1. ASSUME NEW t \in Tasks, NEW s \in Sems, NEW b, NEW l,
             pc[t] \in {"out", "print"} \/ pc[t] = b, b \in LockSteps(s), l \in LockSteps(s),
             b \in Labels, l \in Labels,
             WaitIgnored(t, s, b, l)
      PROVE  LockInv'
  <2>1. CASE pc[t] # b /\ TakeCount(t, s) /\ Goto(t, l)
    BY <1>0, <1>1, <2>1, LockWaits
  <2>2. CASE pc[t] # b /\ BlockOn(t, s) /\ Goto(t, b)
    BY <1>0, <1>1, <2>2, LockWaits
  <2>3. CASE pc[t] = b /\ task_state[t] = "READY" /\ Goto(t, l) /\ UNCHANGED semVars
    <3>1. ASSUME NEW x \in Sems PROVE At(pc', LockSteps(x)) = At(pc, LockSteps(x))
      <4>1. b \in LockSteps(x) <=> l \in LockSteps(x)
        BY <1>0, <1>1 DEF LockSteps
      <4> QED BY <1>0, <2>3, <4>1 DEF At, Goto
    <3> QED BY <2>3, <3>1, LockQuiet
  <2> QED BY <1>1, <2>1, <2>2, <2>3 DEF WaitIgnored
<1>2. ASSUME NEW t \in Tasks, ReadLock(t) PROVE LockInv'
  <2>1. /\ "lock_r" \in LockSteps(sRead) /\ "open" \in LockSteps(sRead)
        /\ "lock_r" \in Labels /\ "open" \in Labels
    BY <1>0 DEF LockSteps, Labels, ReadSteps
  <2> QED BY <1>0, <1>1, <1>2, <2>1 DEF ReadLock
<1>3. ASSUME NEW t \in Tasks, WriteLock(t) PROVE LockInv'
  <2>1. /\ "lock_w" \in LockSteps(sWrite) /\ "write" \in LockSteps(sWrite)
        /\ "lock_w" \in Labels /\ "write" \in Labels
    BY DEF LockSteps, Labels, WriteSteps
  <2> QED BY <1>0, <1>1, <1>3, <2>1 DEF WriteLock
<1>4. ASSUME NEW t \in Tasks, ReadUnlock(t) PROVE LockInv'
  <2>1. /\ pc[t] \in LockSteps(sRead) \ {"lock_r", "lock_w"} /\ nxsem_post(sRead)
        /\ Goto(t, "out") \/ Goto(t, "close")
    BY <1>0, <1>4 DEF ReadUnlock, LockSteps
  <2> QED BY <1>0, <2>1, LockPosts
<1>5. ASSUME NEW t \in Tasks, WriteUnlock(t) PROVE LockInv'
  <2>1. /\ pc[t] \in LockSteps(sWrite) \ {"lock_r", "lock_w"} /\ nxsem_post(sWrite)
        /\ Goto(t, "out") \/ Goto(t, "print")
    BY <1>5 DEF WriteUnlock, LockSteps
  <2> QED BY <1>0, <2>1, LockPosts
<1>6. ASSUME NEW t \in Tasks,
             \/ MqVopen(t) \/ FilesAllocate(t) \/ MqReceive(t) \/ FreeMessage(t)
             \/ MqClose(t) \/ PrintStart(t) \/ PrintfStart(t) \/ PrintfWrite(t)
      PROVE  LockInv'
  <2>1. UNCHANGED semVars
    BY <1>6 DEF MqVopen, FilesAllocate, MqReceive, FreeMessage, MqClose, PrintStart,
                PrintfStart, PrintfWrite
  <2>2. \A u \in Tasks \ {t} : pc'[u] = pc[u]
    BY <1>0, <1>6 DEF MqVopen, FilesAllocate, MqReceive, FreeMessage, MqClose, PrintStart,
                PrintfStart, PrintfWrite, Goto
  <2>3. \/ /\ pc[t] \in {"open", "alloc", "recv", "free"}
           /\ pc'[t] \in {"alloc", "recv", "free", "post", "post_fd"}
        \/ pc[t] \in {"out", "close", "direct"} /\ pc'[t] \in {"out", "print", "direct"}
    BY <1>0, <1>6 DEF MqVopen, FilesAllocate, MqReceive, FreeMessage, MqClose, PrintStart,
                PrintfStart, PrintfWrite, Goto
  <2>4. \A x \in Sems : pc[t] \in LockSteps(x) <=> pc'[t] \in LockSteps(x)
    BY <1>0, <2>3 DEF LockSteps
  <2>5. \A x \in Sems : At(pc', LockSteps(x)) = At(pc, LockSteps(x))
    BY <2>2, <2>4 DEF At
  <2> QED BY <2>1, <2>5, LockQuiet
<1>7. ASSUME UNCHANGED <<semVars, pc>> PROVE LockInv'
  BY <1>7, LockQuiet
<1> QED BY <1>2, <1>3, <1>4, <1>5, <1>6, <1>7
        DEF Next, Step, SignalTask, WriteByte, OpenFile, CloseFile, RxHandler, ControlConnected,
            ControlDisconnected, TxHandler, vars

(***************************************************************************)
(* The wait list has one place for every task that waits for s.            *)
(***************************************************************************)
LEMMA PlacesAreWaiters ==
  ASSUME SemInv, NEW s \in Sems
  PROVE  Cardinality(WaitingFor(s)) = Cardinality(WaitersOf(SemState, s))
<1> DEFINE l == g_waitingforsemaphore
           S == WaitingFor(s)
           T == WaitersOf(SemState, s)
           f == [i \in S |-> l[i]]
<1>1. /\ l \in Seq(Tasks) /\ DOMAIN l = 1 .. Len(l) /\ Len(l) \in Nat
      /\ Lists(l, Waiting(SemState), Priority)
  <2>1. Waiting(SemState) \ {} = Waiting(SemState)
    OBVIOUS
  <2> QED BY <2>1, LenProperties DEF SemInv, SemTypeOK, Listed, SemState
<1>2. S = {i \in 1 .. Len(l) : waitsem[l[i]] = s}
  BY <1>1 DEF WaitingFor, WaitingIn, SemState
<1>3. T = {t \in Waiting(SemState) : waitsem[t] = s}
  BY DEF WaitersOf, SemState
<1> HIDE DEF S, T, l
<1>4. IsFiniteSet(S)
  <2>1. IsFiniteSet(1 .. Len(l)) /\ S \in SUBSET (1 .. Len(l))
    BY <1>1, <1>2, FS_Interval
  <2> QED BY <2>1, FS_Subset
<1>5. ExistsBijection(S, T)
  <2>1. f \in [S -> T]
    BY <1>1, <1>2, <1>3 DEF Lists
  <2>2. \A i, j \in S : f[i] = f[j] => i = j
    <3>1. ASSUME NEW i \in 1 .. Len(l), NEW j \in 1 .. Len(l), l[i] = l[j] PROVE i = j
      <4>1. ~(i < j) /\ ~(j < i)
        BY <1>1, <3>1 DEF Lists
      <4> QED BY <1>1, <4>1
    <3> QED BY <1>2, <3>1
  <2>3. \A t \in T : \E i \in S : f[i] = t
    BY <1>1, <1>2, <1>3 DEF Lists
  <2>4. f \in Injection(S, T) /\ f \in Surjection(S, T)
    BY <2>1, <2>2, <2>3 DEF Injection, Surjection, IsInjective
  <2> QED BY <2>4 DEF ExistsBijection, Bijection
<1>6. Cardinality(S) = Cardinality(T)
  BY <1>4, <1>5, FS_Bijection
<1> QED BY <1>6 DEF S, T

(***************************************************************************)
(* A task that uses a lock is inside or waits for it.                      *)
(***************************************************************************)
LEMMA UsersOfLock ==
  ASSUME SemInv, TaskInv, NEW s \in Sems
  PROVE  /\ Inside(s) = {t \in At(pc, LockSteps(s)) : task_state[t] = "READY"}
         /\ WaitersOf(SemState, s) = {t \in At(pc, LockSteps(s)) : task_state[t] # "READY"}
<1>0. s \in {sRead, sWrite} /\ sRead # sWrite /\ WaitPlace /\ pc \in [Tasks -> Labels]
  BY UsbAssumption DEF SemInv, TaskInv
<1>1. ASSUME NEW t \in Tasks
      PROVE  /\ t \in Inside(s) <=> pc[t] \in LockSteps(s) /\ task_state[t] = "READY"
             /\ t \in WaitersOf(SemState, s) <=> pc[t] \in LockSteps(s) /\ task_state[t] # "READY"
  <2>1. \/ task_state[t] = "READY"
        \/ task_state[t] = "WAIT_SEM" /\ pc[t] = "lock_r" /\ waitsem[t] = sRead
        \/ task_state[t] = "WAIT_SEM" /\ pc[t] = "lock_w" /\ waitsem[t] = sWrite
    BY <1>0 DEF WaitPlace
  <2>2. t \in WaitersOf(SemState, s) <=> task_state[t] = "WAIT_SEM" /\ waitsem[t] = s
    BY DEF WaitersOf, Waiting, SemState
  <2> QED BY <1>0, <2>1, <2>2 DEF Inside, LockSteps
<1>2. Inside(s) \subseteq Tasks /\ WaitersOf(SemState, s) \subseteq Tasks
  BY DEF Inside, WaitersOf, Waiting
<1> QED BY <1>1, <1>2 DEF At

(***************************************************************************)
(* Initially both locks are free.                                          *)
(***************************************************************************)
LEMMA InitLock ==
  ASSUME Init
  PROVE  LockInv
<1>1. \A L : "out" \notin L => At(pc, L) = {}
  BY DEF Init, At
<1>2. \A s \in Sems : At(pc, LockSteps(s)) = {}
  BY <1>1 DEF LockSteps
<1>3. \A s \in Sems : semcount[s] = 1
  BY DEF Init, SemInit
<1> QED BY <1>2, <1>3, FS_EmptySet DEF LockInv

(***************************************************************************)
(* While no signal ends a wait, sRead and sWrite are locks: at most one    *)
(* task is between nxsem_wait and nxsem_post, and the count says exactly   *)
(* who is inside and who waits.  The hypothesis is needed, because         *)
(* cdc_read and cdc_write ignore what nxsem_wait returns.                  *)
(***************************************************************************)
THEOREM LocksAreExclusive ==
  ASSUME Signalable = {}
  PROVE  Spec => []LocksExclude
<1>1. Init => LockInv
  BY InitLock
<1>2. IInv /\ LockInv /\ [Next]_vars => LockInv'
  BY LockStep
<1>3. ASSUME IInv, LockInv PROVE LocksExclude
  <2> SUFFICES ASSUME NEW s \in Sems
               PROVE  /\ Cardinality(Inside(s)) <= 1
                      /\ semcount[s] = 1 - Cardinality(Inside(s)) - Cardinality(WaitingFor(s))
    BY DEF LocksExclude
  <2> DEFINE U == At(pc, LockSteps(s))
             I == Inside(s)
             W == WaitersOf(SemState, s)
  <2>0. SemInv /\ TaskInv
    BY <1>3 DEF IInv
  <2>1. I \cup W = U /\ I \cap W = {} /\ \A t, u \in I : t = u
    BY <1>3, <2>0, UsersOfLock DEF LockInv
  <2>2. IsFiniteSet(U) /\ semcount[s] = 1 - Cardinality(U)
    BY <1>3, AtFinite DEF LockInv
  <2>3. Cardinality(WaitingFor(s)) = Cardinality(W)
    BY <2>0, PlacesAreWaiters
  <2> HIDE DEF I, W, U
  <2>4. IsFiniteSet(I) /\ IsFiniteSet(W) /\ Cardinality(I) \in Nat /\ Cardinality(W) \in Nat
    BY <2>1, <2>2, FS_Subset, FS_CardinalityType
  <2>5. Cardinality(U) = Cardinality(I) + Cardinality(W) - Cardinality({})
    BY <2>1, <2>4, FS_Union
  <2>6. Cardinality({}) = 0
    BY FS_EmptySet
  <2>7. Cardinality(I) <= 1
    <3>1. CASE I = {}
      BY <2>6, <3>1
    <3>2. CASE I # {}
      <4>1. PICK t : t \in I
        BY <3>2
      <4>2. I = {t}
        BY <2>1, <4>1
      <4>3. Cardinality(I) = 1
        BY <4>2, FS_Singleton
      <4> QED BY <4>3
    <3> QED BY <3>1, <3>2
  <2>8. semcount[s] = 1 - Cardinality(I) - Cardinality(W)
    BY <2>2, <2>4, <2>5, <2>6
  <2> QED BY <2>3, <2>7, <2>8 DEF I
<1> QED BY <1>1, <1>2, <1>3, Invariant, PTL DEF Spec

-----------------------------------------------------------------------------
(***************************************************************************)
(* A call of cdc_write is identified by the string and by the character    *)
(* from which on it writes.  The calls c of a task that had begun to put   *)
(* bytes into the buffer before it is in string p at character w, at label *)
(* l with n bytes accepted.                                                *)
(***************************************************************************)
Earlier(p, w, l, n, c) ==
    \/ c[1] < p
    \/ c[1] = p /\ c[2] < w
    \/ c[1] = p /\ c[2] = w /\ l = "write" /\ n > 0

(***************************************************************************)
(* The byte e is of the call of cdc_write that t is in.                    *)
(***************************************************************************)
Current(t, e) ==
    e.src = t /\ pc[t] = "write" /\ e.call = <<prints[t], written_char[t]>>

(***************************************************************************)
(* Bytes of cdc_write are of calls that have begun, strings are numbered   *)
(* from 1, and behind the first byte of a call that goes on there is none  *)
(* of another task's call.                                                 *)
(***************************************************************************)
StringsCounted == \A t \in Tasks : pc[t] \in {"print", "lock_w", "write"} => prints[t] >= 1
CallsBegun ==
    \A i \in 1 .. Len(txlog) : txlog[i].call # UNLOCKED =>
      /\ txlog[i].src \in Tasks
      /\ LET t == txlog[i].src
         IN  Earlier(prints[t], written_char[t], pc[t], nbytes[t], txlog[i].call)
CallGoesOn ==
    \A t \in Tasks : \A i, j \in 1 .. Len(txlog) :
      i < j /\ Current(t, txlog[i]) => txlog[j].src = t \/ txlog[j].call = UNLOCKED
MixInv == StringsCounted /\ CallsBegun /\ CallGoesOn /\ WritesNotMixed

(***************************************************************************)
(* No step makes a call later than it was, and a call that goes on keeps   *)
(* its name.                                                               *)
(***************************************************************************)
CallsMoveOn ==
    /\ \A t \in Tasks, c \in Nat \X Nat :
         Earlier(prints[t], written_char[t], pc[t], nbytes[t], c)
           => Earlier(prints'[t], written_char'[t], pc'[t], nbytes'[t], c)
    /\ \A t \in Tasks : pc'[t] = "write" =>
         prints'[t] = prints[t] /\ written_char'[t] = written_char[t]

(***************************************************************************)
(* The log grows by bytes that are not of cdc_write, or by one byte of t.  *)
(***************************************************************************)
LogGrows ==
    /\ txlog' \in Seq(TxBytes) /\ Len(txlog') >= Len(txlog)
    /\ \A i \in 1 .. Len(txlog) : txlog'[i] = txlog[i]
GrowsUnlocked ==
    LogGrows /\ \A i \in Len(txlog) + 1 .. Len(txlog') : txlog'[i].call = UNLOCKED
GrowsByByte(t) ==
    /\ LogGrows /\ Len(txlog') = Len(txlog) + 1
    /\ pc[t] = "write" /\ pc'[t] = "write" /\ nbytes'[t] > 0
    /\ txlog'[Len(txlog) + 1].src = t
    /\ txlog'[Len(txlog) + 1].call = <<prints[t], written_char[t]>>

(***************************************************************************)
(* The bytes in the log are of a call that goes on only if they were.      *)
(***************************************************************************)
LEMMA CurrentBefore ==
  ASSUME TaskInv, TaskInv', TxInv, MixInv, StringsCounted', CallsMoveOn, LogGrows,
         NEW t \in Tasks, NEW i \in 1 .. Len(txlog), Current(t, txlog[i])'
  PROVE  Current(t, txlog[i])
<1> DEFINE e == txlog[i]
<1>0. /\ txlog \in Seq(TxBytes) /\ e \in TxBytes /\ txlog'[i] = e
      /\ prints[t] \in Nat /\ written_char[t] \in Nat
  BY UsbAssumption, ElementOfSeq DEF TxInv, TaskInv, LogGrows
<1> HIDE DEF e
<1>1. e.src = t /\ pc'[t] = "write" /\ e.call = <<prints'[t], written_char'[t]>>
  BY <1>0 DEF Current
<1>2. prints'[t] = prints[t] /\ written_char'[t] = written_char[t] /\ prints'[t] >= 1
  BY <1>1 DEF CallsMoveOn, StringsCounted
<1>3. e.call = <<prints[t], written_char[t]>> /\ e.call # UNLOCKED
      /\ e.call[1] = prints[t] /\ e.call[2] = written_char[t]
  BY <1>0, <1>1, <1>2 DEF UNLOCKED
<1>4. Earlier(prints[t], written_char[t], pc[t], nbytes[t], e.call)
  BY <1>1, <1>3 DEF MixInv, CallsBegun, e
<1>5. pc[t] = "write"
  BY <1>0, <1>3, <1>4 DEF Earlier
<1> QED BY <1>1, <1>3, <1>5 DEF Current, e

(***************************************************************************)
(* Echoed bytes and bytes of printf_usb mix with no call.                  *)
(***************************************************************************)
LEMMA UnlockedKeepsCalls ==
  ASSUME TaskInv, TaskInv', TxInv, MixInv, StringsCounted', CallsMoveOn, GrowsUnlocked
  PROVE  MixInv'
<1>0. /\ txlog \in Seq(TxBytes) /\ Len(txlog) \in Nat /\ Len(txlog') \in Nat
      /\ DOMAIN txlog = 1 .. Len(txlog) /\ DOMAIN txlog' = 1 .. Len(txlog')
      /\ LogGrows /\ \A i \in 1 .. Len(txlog') : i > Len(txlog) => txlog'[i].call = UNLOCKED
  BY LenProperties DEF TxInv, GrowsUnlocked, LogGrows
<1>1. CallsBegun'
  <2> SUFFICES ASSUME NEW i \in 1 .. Len(txlog'), txlog'[i].call # UNLOCKED
               PROVE  /\ txlog'[i].src \in Tasks
                      /\ LET t == txlog'[i].src
                         IN  Earlier(prints'[t], written_char'[t], pc'[t], nbytes'[t],
                                     txlog'[i].call)
    BY DEF CallsBegun
  <2>1. i \in 1 .. Len(txlog) /\ txlog'[i] = txlog[i]
    BY <1>0 DEF LogGrows
  <2>2. txlog[i].call \in Nat \X Nat
    <3>1. txlog[i] \in TxBytes
      BY <1>0, <2>1, ElementOfSeq
    <3> QED BY <3>1 DEF TxBytes
  <2> QED BY <2>1, <2>2 DEF MixInv, CallsBegun, CallsMoveOn
<1>2. CallGoesOn'
  <2> SUFFICES ASSUME NEW t \in Tasks, NEW i \in 1 .. Len(txlog'), NEW j \in 1 .. Len(txlog'),
                      i < j, Current(t, txlog[i])'
               PROVE  txlog'[j].src = t \/ txlog'[j].call = UNLOCKED
    BY DEF CallGoesOn
  <2>1. i \in 1 .. Len(txlog)
    <3>1. txlog'[i].call = <<prints'[t], written_char'[t]>> /\ prints'[t] >= 1
          /\ prints'[t] \in Nat
      BY DEF Current, StringsCounted, TaskInv
    <3>2. txlog'[i].call # UNLOCKED
      BY <3>1 DEF UNLOCKED
    <3> QED BY <1>0, <3>2
  <2>2. Current(t, txlog[i])
    BY <1>0, <2>1, CurrentBefore
  <2>3. CASE j \in 1 .. Len(txlog)
    BY <1>0, <2>1, <2>2, <2>3 DEF MixInv, CallGoesOn, LogGrows
  <2>4. CASE j > Len(txlog)
    BY <1>0, <2>4
  <2> QED BY <1>0, <2>3, <2>4
<1>3. WritesNotMixed'
  <2> SUFFICES ASSUME NEW i \in 1 .. Len(txlog'), NEW j \in 1 .. Len(txlog'),
                      NEW k \in 1 .. Len(txlog'), i < j, j < k, txlog'[i].src = txlog'[k].src,
                      txlog'[i].call = txlog'[k].call, txlog'[i].call # UNLOCKED
               PROVE  txlog'[j].src = txlog'[i].src \/ txlog'[j].call = UNLOCKED
    BY <1>0 DEF WritesNotMixed
  <2>1. k \in 1 .. Len(txlog)
    BY <1>0
  <2>2. i \in 1 .. Len(txlog) /\ j \in 1 .. Len(txlog)
    BY <1>0, <2>1
  <2> QED BY <1>0, <2>1, <2>2 DEF MixInv, WritesNotMixed, LogGrows
<1> QED BY <1>1, <1>2, <1>3 DEF MixInv

(***************************************************************************)
(* Neither does a byte of cdc_write, whose task alone is inside sWrite.    *)
(***************************************************************************)
LEMMA ByteKeepsCalls ==
  ASSUME TaskInv, TaskInv', TxInv, MixInv, StringsCounted', CallsMoveOn,
         NEW t \in Tasks, GrowsByByte(t), \A u \in Tasks : pc[u] = "write" => u = t
  PROVE  MixInv'
<1> DEFINE m == Len(txlog) + 1
<1>0. /\ txlog \in Seq(TxBytes) /\ Len(txlog) \in Nat /\ Len(txlog') = m
      /\ DOMAIN txlog = 1 .. Len(txlog) /\ DOMAIN txlog' = 1 .. m
      /\ LogGrows /\ \A i \in 1 .. m : i \in 1 .. Len(txlog) \/ i = m
  BY LenProperties DEF TxInv, GrowsByByte, LogGrows
<1>1. /\ txlog'[m].src = t /\ txlog'[m].call = <<prints[t], written_char[t]>>
      /\ pc[t] = "write" /\ pc'[t] = "write" /\ nbytes'[t] > 0
      /\ prints'[t] = prints[t] /\ written_char'[t] = written_char[t]
      /\ prints[t] \in Nat /\ written_char[t] \in Nat /\ nbytes'[t] \in Nat
  BY UsbAssumption DEF GrowsByByte, CallsMoveOn, TaskInv
<1>2. CallsBegun'
  <2> SUFFICES ASSUME NEW i \in 1 .. Len(txlog'), txlog'[i].call # UNLOCKED
               PROVE  /\ txlog'[i].src \in Tasks
                      /\ LET u == txlog'[i].src
                         IN  Earlier(prints'[u], written_char'[u], pc'[u], nbytes'[u],
                                     txlog'[i].call)
    BY DEF CallsBegun
  <2>1. CASE i = m
    BY <1>1, <2>1 DEF Earlier
  <2>2. CASE i \in 1 .. Len(txlog)
    <3>1. txlog'[i] = txlog[i] /\ txlog[i] \in TxBytes
      BY <1>0, <2>2, ElementOfSeq DEF LogGrows
    <3>2. txlog[i].call \in Nat \X Nat
      BY <3>1 DEF TxBytes
    <3> QED BY <2>2, <3>1, <3>2 DEF MixInv, CallsBegun, CallsMoveOn
  <2> QED BY <1>0, <2>1, <2>2
<1>3. CallGoesOn'
  <2> SUFFICES ASSUME NEW u \in Tasks, NEW i \in 1 .. Len(txlog'), NEW j \in 1 .. Len(txlog'),
                      i < j, Current(u, txlog[i])'
               PROVE  txlog'[j].src = u \/ txlog'[j].call = UNLOCKED
    BY DEF CallGoesOn
  <2>1. i \in 1 .. Len(txlog)
    BY <1>0
  <2>2. Current(u, txlog[i])
    BY <1>0, <2>1, CurrentBefore
  <2>3. CASE j \in 1 .. Len(txlog)
    BY <1>0, <2>1, <2>2, <2>3 DEF MixInv, CallGoesOn, LogGrows
  <2>4. CASE j = m
    BY <1>1, <2>2, <2>4 DEF Current
  <2> QED BY <1>0, <2>3, <2>4
<1>4. WritesNotMixed'
  <2> SUFFICES ASSUME NEW i \in 1 .. Len(txlog'), NEW j \in 1 .. Len(txlog'),
                      NEW k \in 1 .. Len(txlog'), i < j, j < k, txlog'[i].src = txlog'[k].src,
                      txlog'[i].call = txlog'[k].call, txlog'[i].call # UNLOCKED
               PROVE  txlog'[j].src = txlog'[i].src \/ txlog'[j].call = UNLOCKED
    BY <1>0 DEF WritesNotMixed
  <2>1. i \in 1 .. Len(txlog) /\ j \in 1 .. Len(txlog)
    BY <1>0
  <2>2. txlog'[i] = txlog[i] /\ txlog'[j] = txlog[j]
    BY <1>0, <2>1 DEF LogGrows
  <2>3. CASE k = m
    <3>1. Current(t, txlog[i])
      BY <1>1, <2>2, <2>3 DEF Current
    <3> QED BY <1>1, <2>1, <2>2, <2>3, <3>1 DEF MixInv, CallGoesOn
  <2>4. CASE k \in 1 .. Len(txlog)
    <3>1. txlog'[k] = txlog[k]
      BY <1>0, <2>4 DEF LogGrows
    <3> QED BY <1>0, <2>1, <2>2, <2>4, <3>1 DEF MixInv, WritesNotMixed
  <2> QED BY <1>0, <2>3, <2>4
<1> QED BY <1>2, <1>3, <1>4 DEF MixInv

(***************************************************************************)
(* One task moves on.                                                      *)
(***************************************************************************)
LEMMA OneMovesOn ==
  ASSUME StringsCounted, NEW t \in Tasks,
         \A u \in Tasks \ {t} : /\ pc'[u] = pc[u] /\ prints'[u] = prints[u]
                                /\ written_char'[u] = written_char[u] /\ nbytes'[u] = nbytes[u],
         pc'[t] \in {"print", "lock_w", "write"} => prints'[t] >= 1,
         pc'[t] = "write" => prints'[t] = prints[t] /\ written_char'[t] = written_char[t],
         \A c \in Nat \X Nat :
           Earlier(prints[t], written_char[t], pc[t], nbytes[t], c)
             => Earlier(prints'[t], written_char'[t], pc'[t], nbytes'[t], c)
  PROVE  CallsMoveOn /\ StringsCounted'
<1>1. ASSUME NEW u \in Tasks, NEW c \in Nat \X Nat
      PROVE  Earlier(prints[u], written_char[u], pc[u], nbytes[u], c)
               => Earlier(prints'[u], written_char'[u], pc'[u], nbytes'[u], c)
  <2>1. CASE u = t
    BY <2>1
  <2>2. CASE u # t
    BY <2>2
  <2> QED BY <2>1, <2>2
<1>2. \A u \in Tasks : pc'[u] = "write" =>
         prints'[u] = prints[u] /\ written_char'[u] = written_char[u]
  OBVIOUS
<1>3. \A u \in Tasks : pc'[u] \in {"print", "lock_w", "write"} => prints'[u] >= 1
  BY DEF StringsCounted
<1> QED BY <1>1, <1>2, <1>3 DEF CallsMoveOn, StringsCounted

(***************************************************************************)
(* In every step.                                                          *)
(***************************************************************************)
LEMMA MovesOnStep ==
  ASSUME TaskInv, TxInv, StringsCounted, [Next]_vars
  PROVE  CallsMoveOn /\ StringsCounted'
<1> USE DEF Goto, writeVars
<1>0. /\ pc \in [Tasks -> Labels] /\ written_char \in [Tasks -> 0 .. TextLen]
      /\ nbytes \in [Tasks -> 0 .. TextLen] /\ prints \in [Tasks -> Nat]
      /\ TextLen \in Nat
  BY UsbAssumption DEF TaskInv
<1>1. ASSUME UNCHANGED <<pc, writeVars>> PROVE CallsMoveOn /\ StringsCounted'
  BY <1>1 DEF CallsMoveOn, StringsCounted
<1>2. ASSUME NEW t \in Tasks, UNCHANGED writeVars, \A u \in Tasks \ {t} : pc'[u] = pc[u],
             pc[t] # "write", pc'[t] \notin {"print", "lock_w", "write"}
      PROVE  CallsMoveOn /\ StringsCounted'
  <2>1. \A c \in Nat \X Nat :
          Earlier(prints[t], written_char[t], pc[t], nbytes[t], c)
            => Earlier(prints'[t], written_char'[t], pc'[t], nbytes'[t], c)
    BY <1>2 DEF Earlier
  <2> QED BY <1>2, <2>1, OneMovesOn
<1>3. ASSUME NEW t \in Tasks,
             \/ MqVopen(t) \/ FilesAllocate(t) \/ MqReceive(t) \/ FreeMessage(t)
             \/ MqClose(t) \/ ReadUnlock(t) \/ ReadLock(t)
      PROVE  CallsMoveOn /\ StringsCounted'
  <2>1. UNCHANGED writeVars
    BY <1>3 DEF MqVopen, FilesAllocate, MqReceive, FreeMessage, MqClose, ReadUnlock, ReadLock
  <2>2. /\ \A u \in Tasks \ {t} : pc'[u] = pc[u]
        /\ pc[t] # "write" /\ pc'[t] \notin {"print", "lock_w", "write"}
    BY <1>0, <1>3 DEF MqVopen, FilesAllocate, MqReceive, FreeMessage, MqClose, ReadUnlock,
                      ReadLock, WaitIgnored
  <2> QED BY <1>2, <2>1, <2>2
<1>4. ASSUME NEW t \in Tasks, PrintStart(t) \/ PrintfStart(t)
      PROVE  CallsMoveOn /\ StringsCounted'
  <2>1. /\ pc[t] = "out" /\ prints' = [prints EXCEPT ![t] = @ + 1] /\ nbytes' = nbytes
        /\ pc' = [pc EXCEPT ![t] = "print"] \/ pc' = [pc EXCEPT ![t] = "direct"] \/ pc' = pc
        /\ written_char' = [written_char EXCEPT ![t] = 0] \/ written_char' = written_char
    BY <1>4 DEF PrintStart, PrintfStart
  <2>2. /\ \A u \in Tasks \ {t} : /\ pc'[u] = pc[u] /\ prints'[u] = prints[u]
                                  /\ written_char'[u] = written_char[u] /\ nbytes'[u] = nbytes[u]
        /\ prints'[t] = prints[t] + 1 /\ prints[t] \in Nat /\ pc'[t] # "write"
    BY <1>0, <2>1
  <2>3. \A c \in Nat \X Nat :
          Earlier(prints[t], written_char[t], pc[t], nbytes[t], c)
            => Earlier(prints'[t], written_char'[t], pc'[t], nbytes'[t], c)
    BY <2>2 DEF Earlier
  <2>4. prints'[t] >= 1
    BY <2>2
  <2> QED BY <2>2, <2>3, <2>4, OneMovesOn
<1>5. ASSUME NEW t \in Tasks, WriteLock(t) PROVE CallsMoveOn /\ StringsCounted'
  <2>1. /\ pc[t] \in {"print", "lock_w"} /\ UNCHANGED <<prints, written_char>>
        /\ nbytes' = [nbytes EXCEPT ![t] = 0]
        /\ pc' = [pc EXCEPT ![t] = "write"] \/ pc' = [pc EXCEPT ![t] = "lock_w"]
    BY <1>5 DEF WriteLock, WaitIgnored
  <2>2. /\ \A u \in Tasks \ {t} : /\ pc'[u] = pc[u] /\ prints'[u] = prints[u]
                                  /\ written_char'[u] = written_char[u] /\ nbytes'[u] = nbytes[u]
        /\ prints'[t] = prints[t] /\ written_char'[t] = written_char[t] /\ prints[t] >= 1
    BY <1>0, <2>1 DEF StringsCounted
  <2>3. \A c \in Nat \X Nat :
          Earlier(prints[t], written_char[t], pc[t], nbytes[t], c)
            => Earlier(prints'[t], written_char'[t], pc'[t], nbytes'[t], c)
    BY <2>1, <2>2 DEF Earlier
  <2> QED BY <2>2, <2>3, OneMovesOn
<1>6. ASSUME NEW t \in Tasks, WriteByte(t) PROVE CallsMoveOn /\ StringsCounted'
  <2>1. /\ pc[t] = "write" /\ UNCHANGED <<prints, written_char, pc>>
        /\ nbytes' = [nbytes EXCEPT ![t] = @ + 1] \/ nbytes' = nbytes
    BY <1>6 DEF WriteByte, txVars
  <2>2. /\ \A u \in Tasks \ {t} : nbytes'[u] = nbytes[u]
        /\ nbytes'[t] \in {nbytes[t], nbytes[t] + 1} /\ nbytes[t] \in Nat /\ prints[t] >= 1
    BY <1>0, <2>1 DEF StringsCounted
  <2>3. \A c \in Nat \X Nat :
          Earlier(prints[t], written_char[t], pc[t], nbytes[t], c)
            => Earlier(prints'[t], written_char'[t], pc'[t], nbytes'[t], c)
    BY <2>1, <2>2 DEF Earlier
  <2> QED BY <2>1, <2>2, <2>3, OneMovesOn
<1>7. ASSUME NEW t \in Tasks, WriteUnlock(t) PROVE CallsMoveOn /\ StringsCounted'
  <2>1. /\ pc[t] = "write" /\ UNCHANGED <<prints, nbytes>>
        /\ written_char' = [written_char EXCEPT ![t] = @ + nbytes[t]]
        /\ pc' = [pc EXCEPT ![t] = "out"] \/ pc' = [pc EXCEPT ![t] = "print"]
    BY <1>7 DEF WriteUnlock
  <2>2. /\ \A u \in Tasks \ {t} : pc'[u] = pc[u] /\ written_char'[u] = written_char[u]
        /\ written_char'[t] = written_char[t] + nbytes[t] /\ nbytes[t] \in Nat
        /\ written_char[t] \in Nat /\ prints[t] >= 1 /\ pc'[t] # "write"
    BY <1>0, <2>1 DEF StringsCounted
  <2>3. \A c \in Nat \X Nat :
          Earlier(prints[t], written_char[t], pc[t], nbytes[t], c)
            => Earlier(prints'[t], written_char'[t], pc'[t], nbytes'[t], c)
    BY <2>1, <2>2 DEF Earlier
  <2> QED BY <2>1, <2>2, <2>3, OneMovesOn
<1>8. ASSUME NEW t \in Tasks, PrintfWrite(t) PROVE CallsMoveOn /\ StringsCounted'
  <2> DEFINE n == Least(TextLen - written_char[t], TxSize - txlen)
  <2>1. /\ pc[t] = "direct" /\ written_char' = [written_char EXCEPT ![t] = @ + n]
        /\ pc' = [pc EXCEPT ![t] = "out"] \/ pc' = [pc EXCEPT ![t] = "direct"]
        /\ UNCHANGED <<nbytes, prints>>
    BY <1>8 DEF PrintfWrite
  <2>2. n \in Nat /\ written_char[t] \in Nat
    BY <1>0, UsbAssumption DEF Least, TxInv
  <2> HIDE DEF n
  <2>3. /\ \A u \in Tasks \ {t} : pc'[u] = pc[u] /\ written_char'[u] = written_char[u]
        /\ written_char'[t] = written_char[t] + n
        /\ pc'[t] \notin {"print", "lock_w", "write"}
    BY <1>0, <2>1
  <2>4. \A c \in Nat \X Nat :
          Earlier(prints[t], written_char[t], pc[t], nbytes[t], c)
            => Earlier(prints'[t], written_char'[t], pc'[t], nbytes'[t], c)
    BY <2>1, <2>2, <2>3 DEF Earlier
  <2> QED BY <2>1, <2>3, <2>4, OneMovesOn
<1> QED BY <1>1, <1>3, <1>4, <1>5, <1>6, <1>7, <1>8
        DEF Next, Step, SignalTask, OpenFile, CloseFile, RxHandler, ControlConnected,
            ControlDisconnected, TxHandler, vars

(***************************************************************************)
(* How the log grows: n bytes outside the lock.                            *)
(***************************************************************************)
LEMMA AddsUnlocked ==
  ASSUME TxInv, NEW n \in Nat, NEW src, NEW char,
         txlog' = txlog \o [i \in 1 .. n |-> [src |-> src, call |-> UNLOCKED, char |-> char[i]]],
         txlog' \in Seq(TxBytes), src \in Origins, \A i \in 1 .. n : char[i] \in Nat
  PROVE  GrowsUnlocked
<1> DEFINE new == [i \in 1 .. n |-> [src |-> src, call |-> UNLOCKED, char |-> char[i]]]
<1>1. txlog \in Seq(TxBytes) /\ Len(txlog) \in Nat
  BY LenProperties DEF TxInv
<1>2. new \in Seq(TxBytes) /\ Len(new) = n /\ \A i \in 1 .. n : new[i].call = UNLOCKED
  <2>1. \A i \in 1 .. n : new[i] \in TxBytes
    BY DEF TxBytes, UNLOCKED
  <2> QED BY <2>1, IsASeq
<1>3. txlog' = txlog \o new
  OBVIOUS
<1> HIDE DEF new
<1>4. /\ Len(txlog') = Len(txlog) + n
      /\ \A i \in 1 .. Len(txlog) + n :
           txlog'[i] = IF i <= Len(txlog) THEN txlog[i] ELSE new[i - Len(txlog)]
  BY ONLY <1>1, <1>2, <1>3, ConcatProperties
<1>5. \A i \in 1 .. Len(txlog) : txlog'[i] = txlog[i]
  BY <1>1, <1>4
<1>6. ASSUME NEW i \in Len(txlog) + 1 .. Len(txlog') PROVE txlog'[i].call = UNLOCKED
  <2>1. i \in 1 .. Len(txlog) + n /\ ~(i <= Len(txlog)) /\ i - Len(txlog) \in 1 .. n
    BY <1>1, <1>4
  <2>2. txlog'[i] = new[i - Len(txlog)]
    BY <1>4, <2>1
  <2> QED BY <1>2, <2>1, <2>2
<1>7. Len(txlog') >= Len(txlog)
  BY <1>1, <1>4
<1> QED BY <1>5, <1>6, <1>7 DEF GrowsUnlocked, LogGrows

(***************************************************************************)
(* How it grows in every step.                                             *)
(***************************************************************************)
LEMMA TxEffects ==
  ASSUME TaskInv, TaskInv', RxInv, TxInv, TxInv', [Next]_vars
  PROVE  GrowsUnlocked \/ \E t \in Tasks : WriteByte(t) /\ GrowsByByte(t)
<1>0. /\ txlog \in Seq(TxBytes) /\ txlog' \in Seq(TxBytes) /\ Len(txlog) \in Nat
      /\ txlen \in 0 .. TxSize /\ TxSize \in Nat
      /\ written_char \in [Tasks -> 0 .. TextLen] /\ TextLen \in Nat
      /\ nbytes \in [Tasks -> 0 .. TextLen]
  BY UsbAssumption, LenProperties DEF TxInv, TaskInv
<1>1. ASSUME UNCHANGED txlog PROVE GrowsUnlocked
  BY <1>0, <1>1 DEF GrowsUnlocked, LogGrows
<1>2. ASSUME NEW t \in Tasks, WriteByte(t) PROVE GrowsUnlocked \/ GrowsByByte(t)
  <2>1. CASE txlen < TxSize
    <3> DEFINE b == [src |-> t, char |-> pos[t] + 1, call |-> <<prints[t], written_char[t]>>]
    <3>1. /\ txlog' = Append(txlog, b) /\ nbytes' = [nbytes EXCEPT ![t] = @ + 1]
          /\ pc[t] = "write" /\ UNCHANGED pc
      BY <1>2, <2>1 DEF WriteByte
    <3>2. b.src = t /\ b.call = <<prints[t], written_char[t]>>
      OBVIOUS
    <3>3. b \in TxBytes
      BY UsbAssumption DEF TaskInv, TxBytes, Origins
    <3> HIDE DEF b
    <3>4. /\ Len(txlog') = Len(txlog) + 1 /\ txlog'[Len(txlog) + 1] = b
          /\ \A i \in 1 .. Len(txlog) : txlog'[i] = txlog[i]
      BY <1>0, <3>1, <3>3, AppendProperties
    <3>5. nbytes'[t] > 0
      BY <1>0, <3>1
    <3>6. LogGrows
      BY <1>0, <3>4 DEF LogGrows
    <3> QED BY <3>1, <3>2, <3>4, <3>5, <3>6 DEF GrowsByByte
  <2>2. CASE ~(txlen < TxSize)
    BY <1>1, <1>2, <2>2 DEF WriteByte, txVars
  <2> QED BY <2>1, <2>2
<1>3. ASSUME NEW t \in Tasks, PrintfWrite(t) PROVE GrowsUnlocked
  <2> DEFINE l == Least(TextLen - written_char[t], TxSize - txlen)
             char == [i \in 1 .. l |-> written_char[t] + i]
  <2>1. l \in Nat /\ written_char[t] \in Nat /\ t \in Origins
    BY <1>0 DEF Least, Origins
  <2>2. \A i \in 1 .. l : char[i] = written_char[t] + i /\ char[i] \in Nat
    BY <2>1
  <2>3. txlog' = txlog \o [i \in 1 .. l |-> [src |-> t, call |-> UNLOCKED,
                                             char |-> written_char[t] + i]]
    BY <1>3 DEF PrintfWrite
  <2>4. txlog' = txlog \o [i \in 1 .. l |-> [src |-> t, call |-> UNLOCKED,
                                             char |-> char[i]]]
    <3> HIDE DEF l, char
    <3> QED BY <2>2, <2>3
  <2> HIDE DEF l, char
  <2> QED BY <1>0, <2>1, <2>2, <2>4, AddsUnlocked
<1>4. ASSUME NEW t \in Origins, NEW n \in 0 .. Packet, RxHandler(t, n) PROVE GrowsUnlocked
  <2>1. n \in Nat
    BY UsbAssumption
  <2>2. PICK k, q, e \in 0 .. Len(Received(n)) :
              /\ RxTakes(n, k, q, e)
              /\ q <= k /\ q <= nfree /\ e <= k /\ txlen + e <= TxSize
    BY <1>4, RxNumbers
  <2>3. Received(n) \in Seq(1 .. sent + n) /\ sent \in Nat
    BY <2>1, ReceivedBytes DEF RxInv
  <2>4. Len(Received(n)) \in Nat /\ \A i \in 1 .. Len(Received(n)) : Received(n)[i] \in Nat
    BY <2>1, <2>3, LenProperties, ElementOfSeq
  <2>5. e \in Nat /\ \A i \in 1 .. e : Received(n)[i] \in Nat
    BY <2>4
  <2>6. txlog' = txlog \o [i \in 1 .. e |-> [src |-> NONE, call |-> UNLOCKED,
                                             char |-> Received(n)[i]]]
    BY <2>2 DEF RxTakes
  <2>7. NONE \in Origins
    BY DEF Origins
  <2> DEFINE char == Received(n)
  <2> HIDE DEF char
  <2>8. /\ txlog' = txlog \o [i \in 1 .. e |-> [src |-> NONE, call |-> UNLOCKED,
                                                char |-> char[i]]]
        /\ \A i \in 1 .. e : char[i] \in Nat
    BY <2>5, <2>6 DEF char
  <2> QED BY <1>0, <2>5, <2>7, <2>8, AddsUnlocked
<1> QED BY <1>1, <1>2, <1>3, <1>4
        DEF Next, Step, MqVopen, FilesAllocate, MqReceive, FreeMessage, ReadUnlock, MqClose,
            WriteLock, WriteUnlock, ReadLock, PrintStart, PrintfStart, SignalTask, OpenFile,
            CloseFile, ControlConnected, ControlDisconnected, TxHandler, vars, txVars

(***************************************************************************)
(* While no signal ends a wait, the bytes of one call of cdc_write reach   *)
(* the transmit buffer without bytes of another task's call between them.  *)
(***************************************************************************)
THEOREM WritesStayTogether ==
  ASSUME Signalable = {}
  PROVE  Spec => []WritesNotMixed
<1>1. ASSUME Init PROVE LockInv /\ MixInv
  <2>1. LockInv
    BY <1>1, InitLock
  <2>2. StringsCounted
    BY <1>1 DEF Init, StringsCounted
  <2>3. txlog = << >> /\ Len(txlog) = 0 /\ DOMAIN txlog = {}
    BY <1>1 DEF Init
  <2>4. CallsBegun /\ CallGoesOn /\ WritesNotMixed
    BY <2>3 DEF CallsBegun, CallGoesOn, WritesNotMixed
  <2> QED BY <2>1, <2>2, <2>4 DEF MixInv
<1>2. ASSUME IInv, IInv', LockInv, MixInv, [Next]_vars PROVE LockInv' /\ MixInv'
  <2>0. TaskInv /\ TaskInv' /\ RxInv /\ TxInv /\ TxInv' /\ SemInv
    BY <1>2 DEF IInv
  <2>1. LockInv'
    BY <1>2, LockStep
  <2>2. CallsMoveOn /\ StringsCounted'
    BY <1>2, <2>0, MovesOnStep DEF MixInv
  <2>3. CASE GrowsUnlocked
    BY <1>2, <2>0, <2>1, <2>2, <2>3, UnlockedKeepsCalls
  <2>4. ASSUME NEW t \in Tasks, GrowsByByte(t) PROVE MixInv'
    <3>1. \A u \in Tasks : pc[u] = "write" =>
            task_state[u] = "READY" /\ u \in At(pc, LockSteps(sWrite))
      BY <2>0 DEF SemInv, WaitPlace, At, LockSteps
    <3>2. \A u \in Tasks : pc[u] = "write" => u = t
      BY <1>2, <2>4, <3>1, UsbAssumption DEF LockInv, GrowsByByte
    <3> QED BY <1>2, <2>0, <2>2, <2>4, <3>2, ByteKeepsCalls
  <2> QED BY <1>2, <2>0, <2>1, <2>3, <2>4, TxEffects
<1>3. MixInv => WritesNotMixed
  BY DEF MixInv
<1> QED BY <1>1, <1>2, <1>3, Invariant, PTL DEF Spec

-----------------------------------------------------------------------------
(***************************************************************************)
(* The number of characters of string p of a task that are in the log is   *)
(* one of those that it may have.                                          *)
(***************************************************************************)
Counted(t, p) == Cardinality(BytesOf(txlog, t, p)) \in MayHave(t, p)
CountInv == \A t \in Tasks, p \in Nat \ {0} : Counted(t, p)

(***************************************************************************)
(* What a log has of a string is finite.                                   *)
(***************************************************************************)
LEMMA BytesFinite ==
  ASSUME NEW log \in Seq(TxBytes), NEW t, NEW p
  PROVE  /\ IsFiniteSet(BytesOf(log, t, p)) /\ Cardinality(BytesOf(log, t, p)) \in Nat
         /\ BytesOf(log, t, p) = {i \in 1 .. Len(log) : log[i].src = t /\ log[i].call[1] = p}
         /\ Len(log) \in Nat
<1>1. DOMAIN log = 1 .. Len(log) /\ Len(log) \in Nat
  BY LenProperties
<1>2. BytesOf(log, t, p) \in SUBSET (1 .. Len(log))
  BY <1>1 DEF BytesOf
<1>3. IsFiniteSet(1 .. Len(log))
  BY <1>1, FS_Interval
<1> QED BY <1>1, <1>2, <1>3, FS_Subset, FS_CardinalityType DEF BytesOf

(***************************************************************************)
(* Bytes that are not of this string do not count.                         *)
(***************************************************************************)
LEMMA OthersNotCounted ==
  ASSUME TxInv, TxInv', LogGrows, NEW t, NEW p,
         \A i \in Len(txlog) + 1 .. Len(txlog') : txlog'[i].src # t \/ txlog'[i].call[1] # p
  PROVE  BytesOf(txlog', t, p) = BytesOf(txlog, t, p)
<1> DEFINE M == BytesOf(txlog, t, p)
           N == BytesOf(txlog', t, p)
<1>1. /\ M = {i \in 1 .. Len(txlog) : txlog[i].src = t /\ txlog[i].call[1] = p}
      /\ Len(txlog) \in Nat
  BY BytesFinite DEF TxInv
<1>2. /\ N = {i \in 1 .. Len(txlog') : txlog'[i].src = t /\ txlog'[i].call[1] = p}
      /\ Len(txlog') \in Nat
  BY BytesFinite DEF TxInv
<1> HIDE DEF M, N
<1>3. Len(txlog') >= Len(txlog) /\ \A i \in 1 .. Len(txlog) : txlog'[i] = txlog[i]
  BY DEF LogGrows
<1>4. ASSUME NEW i \in M PROVE i \in N
  BY <1>1, <1>2, <1>3, <1>4
<1>5. ASSUME NEW i \in N PROVE i \in M
  <2>1. i \notin Len(txlog) + 1 .. Len(txlog') /\ i \in 1 .. Len(txlog')
    BY <1>2, <1>5
  <2>2. i \in 1 .. Len(txlog)
    BY <1>1, <1>2, <2>1
  <2> QED BY <1>1, <1>2, <1>3, <1>5, <2>2
<1>6. M = N
  BY <1>4, <1>5
<1> QED BY <1>6 DEF M, N

(***************************************************************************)
(* A byte of the string makes one more.                                    *)
(***************************************************************************)
LEMMA OneMoreCounted ==
  ASSUME TaskInv, TxInv, TxInv', NEW t \in Tasks, GrowsByByte(t)
  PROVE  Cardinality(BytesOf(txlog', t, prints[t])) =
           Cardinality(BytesOf(txlog, t, prints[t])) + 1
<1> DEFINE p == prints[t]
           M == BytesOf(txlog, t, p)
           N == BytesOf(txlog', t, p)
           l == Len(txlog)
<1>1. /\ M = {i \in 1 .. l : txlog[i].src = t /\ txlog[i].call[1] = p}
      /\ l \in Nat /\ IsFiniteSet(M)
  BY BytesFinite DEF TxInv
<1>2. /\ N = {i \in 1 .. Len(txlog') : txlog'[i].src = t /\ txlog'[i].call[1] = p}
  BY BytesFinite DEF TxInv
<1>3. /\ Len(txlog') = l + 1 /\ \A i \in 1 .. l : txlog'[i] = txlog[i]
      /\ txlog'[l + 1].src = t /\ txlog'[l + 1].call = <<prints[t], written_char[t]>>
  BY DEF GrowsByByte, LogGrows
<1>4. txlog'[l + 1].call[1] = p
  BY <1>3
<1> HIDE DEF M, N, l, p
<1>5. ASSUME NEW i \in M \cup {l + 1} PROVE i \in N
  BY <1>1, <1>2, <1>3, <1>4, <1>5
<1>6. ASSUME NEW i \in N PROVE i \in M \cup {l + 1}
  <2>1. i \in 1 .. l \/ i = l + 1
    BY <1>1, <1>2, <1>3, <1>6
  <2> QED BY <1>1, <1>2, <1>3, <1>6, <2>1
<1>7. N = M \cup {l + 1} /\ l + 1 \notin M
  <2>1. N = M \cup {l + 1}
    BY <1>5, <1>6
  <2> QED BY <1>1, <2>1
<1>8. Cardinality(M \cup {l + 1}) = Cardinality(M) + 1
  BY <1>1, <1>7, FS_AddElement
<1> QED BY <1>7, <1>8 DEF M, N, p

(***************************************************************************)
(* The number that a task may have goes with what it has counted.          *)
(***************************************************************************)
MayGoOn(t) == \A p \in Nat \ {0} : \A n \in MayHave(t, p) : n \in MayHave(t, p)'

LEMMA OthersGoOn ==
  ASSUME NEW u, prints'[u] = prints[u], pc'[u] = pc[u], written_char'[u] = written_char[u],
         nbytes'[u] = nbytes[u]
  PROVE  MayGoOn(u)
BY DEF MayGoOn, MayHave

(***************************************************************************)
(* Every step but those of the loop in cdc_write keeps the count.          *)
(***************************************************************************)
LEMMA MayStep ==
  ASSUME TaskInv, TxInv, CountInv, [Next]_vars, NEW u \in Tasks, ~WriteByte(u)
  PROVE  MayGoOn(u)
<1> USE DEF Goto, writeVars
<1>0. /\ pc \in [Tasks -> Labels] /\ written_char \in [Tasks -> 0 .. TextLen]
      /\ nbytes \in [Tasks -> 0 .. TextLen] /\ prints \in [Tasks -> Nat]
      /\ TextLen \in Nat
  BY UsbAssumption DEF TaskInv
<1>1. ASSUME UNCHANGED <<pc, writeVars>> PROVE MayGoOn(u)
  BY <1>1, OthersGoOn
<1>2. ASSUME NEW t \in Tasks,
             \/ MqVopen(t) \/ FilesAllocate(t) \/ MqReceive(t) \/ FreeMessage(t)
             \/ MqClose(t) \/ ReadUnlock(t) \/ ReadLock(t)
      PROVE  MayGoOn(u)
  <2>1. UNCHANGED writeVars
    BY <1>2 DEF MqVopen, FilesAllocate, MqReceive, FreeMessage, MqClose, ReadUnlock, ReadLock
  <2>2. /\ \A v \in Tasks \ {t} : pc'[v] = pc[v]
        /\ pc[t] \notin {"print", "lock_w", "write"} /\ pc'[t] \notin {"print", "lock_w", "write"}
    BY <1>0, <1>2 DEF MqVopen, FilesAllocate, MqReceive, FreeMessage, MqClose, ReadUnlock,
                      ReadLock, WaitIgnored
  <2> QED BY <2>1, <2>2 DEF MayGoOn, MayHave
<1>3. ASSUME NEW t \in Tasks, PrintStart(t) \/ PrintfStart(t) PROVE MayGoOn(u)
  <2>1. /\ pc[t] = "out" /\ prints' = [prints EXCEPT ![t] = @ + 1] /\ nbytes' = nbytes
        /\ \/ pc' = [pc EXCEPT ![t] = "print"] /\ written_char' = [written_char EXCEPT ![t] = 0]
           \/ pc' = [pc EXCEPT ![t] = "direct"] /\ written_char' = [written_char EXCEPT ![t] = 0]
           \/ UNCHANGED <<pc, written_char>>
    BY <1>3 DEF PrintStart, PrintfStart
  <2>2. CASE u # t
    BY <1>0, <2>1, <2>2, OthersGoOn
  <2>3. CASE u = t
    <3>1. /\ prints'[u] = prints[u] + 1 /\ prints[u] \in Nat /\ pc[u] = "out"
          /\ \/ pc'[u] = "print" /\ written_char'[u] = 0
             \/ pc'[u] \in {"direct", "out"}
      BY <1>0, <2>1, <2>3
    <3>2. ASSUME NEW p \in Nat \ {0}, NEW n \in MayHave(u, p) PROVE n \in MayHave(u, p)'
      <4>1. CASE p = prints[u] + 1
        <5>1. n = 0
          BY <3>1, <3>2, <4>1 DEF MayHave
        <5> QED BY <3>1, <4>1, <5>1 DEF MayHave
      <4>2. CASE p # prints[u] + 1
        BY <3>1, <3>2, <4>2 DEF MayHave
      <4> QED BY <4>1, <4>2
    <3> QED BY <3>2 DEF MayGoOn
  <2> QED BY <2>2, <2>3
<1>4. ASSUME NEW t \in Tasks, WriteLock(t) PROVE MayGoOn(u)
  <2>1. /\ pc[t] \in {"print", "lock_w"} /\ UNCHANGED <<prints, written_char>>
        /\ nbytes' = [nbytes EXCEPT ![t] = 0]
        /\ pc' = [pc EXCEPT ![t] = "write"] \/ pc' = [pc EXCEPT ![t] = "lock_w"]
    BY <1>4 DEF WriteLock, WaitIgnored
  <2>2. CASE u # t
    BY <1>0, <2>1, <2>2, OthersGoOn
  <2>3. CASE u = t
    <3>1. /\ prints'[u] = prints[u] /\ written_char'[u] = written_char[u] /\ nbytes'[u] = 0
          /\ written_char[u] \in Nat /\ pc'[u] \in {"lock_w", "write"}
          /\ pc[u] \in {"print", "lock_w"}
      BY <1>0, <2>1, <2>3
    <3> QED BY <3>1 DEF MayGoOn, MayHave
  <2> QED BY <2>2, <2>3
<1>5. ASSUME NEW t \in Tasks, WriteByte(t) PROVE MayGoOn(u)
  <2>1. /\ UNCHANGED <<prints, written_char, pc>> /\ u # t
        /\ nbytes' = [nbytes EXCEPT ![t] = @ + 1] \/ nbytes' = nbytes
    BY <1>5 DEF WriteByte, txVars
  <2> QED BY <1>0, <2>1, OthersGoOn
<1>6. ASSUME NEW t \in Tasks, WriteUnlock(t) PROVE MayGoOn(u)
  <2>1. /\ pc[t] = "write" /\ UNCHANGED <<prints, nbytes>>
        /\ written_char' = [written_char EXCEPT ![t] = @ + nbytes[t]]
        /\ pc' = [pc EXCEPT ![t] = IF written_char[t] + nbytes[t] = TextLen
                                   THEN "out" ELSE "print"]
    BY <1>6 DEF WriteUnlock
  <2>2. CASE u # t
    BY <1>0, <2>1, <2>2, OthersGoOn
  <2>3. CASE u = t
    <3>1. /\ prints'[u] = prints[u] /\ written_char'[u] = written_char[u] + nbytes[u]
          /\ pc[u] = "write" /\ prints[u] \in Nat
          /\ pc'[u] = IF written_char[u] + nbytes[u] = TextLen THEN "out" ELSE "print"
      BY <1>0, <2>1, <2>3
    <3> QED BY <3>1 DEF MayGoOn, MayHave
  <2> QED BY <2>2, <2>3
<1>7. ASSUME NEW t \in Tasks, PrintfWrite(t) PROVE MayGoOn(u)
  <2> DEFINE n == Least(TextLen - written_char[t], TxSize - txlen)
  <2>1. /\ pc[t] = "direct" /\ written_char' = [written_char EXCEPT ![t] = @ + n]
        /\ pc' = [pc EXCEPT ![t] = "out"] \/ pc' = [pc EXCEPT ![t] = "direct"]
        /\ UNCHANGED <<nbytes, prints>>
    BY <1>7 DEF PrintfWrite
  <2> HIDE DEF n
  <2>2. CASE u # t
    BY <1>0, <2>1, <2>2, OthersGoOn
  <2>3. CASE u = t
    <3>1. prints'[u] = prints[u] /\ pc[u] = "direct" /\ pc'[u] \in {"out", "direct"}
      BY <1>0, <2>1, <2>3
    <3> QED BY <3>1 DEF MayGoOn, MayHave
  <2> QED BY <2>2, <2>3
<1> QED BY <1>1, <1>2, <1>3, <1>4, <1>5, <1>6, <1>7
        DEF Next, Step, SignalTask, OpenFile, CloseFile, RxHandler, ControlConnected,
            ControlDisconnected, TxHandler, vars

(***************************************************************************)
(* The loop of cdc_write counts the byte that the buffer accepts.          *)
(***************************************************************************)
LEMMA WriteByteCounts ==
  ASSUME TaskInv, TaskInv', TxInv, TxInv', StringsCounted, NEW t \in Tasks, WriteByte(t),
         NEW p \in Nat \ {0}, Counted(t, p)
  PROVE  Counted(t, p)'
<1>0. /\ pc[t] = "write" /\ UNCHANGED <<pc, prints, written_char>>
      /\ nbytes \in [Tasks -> 0 .. TextLen] /\ TextLen \in Nat
      /\ written_char[t] \in Nat /\ prints[t] \in Nat
  BY UsbAssumption DEF WriteByte, TaskInv
<1>1. CASE ~(txlen < TxSize)
  <2>1. UNCHANGED <<nbytes, txlog>>
    BY <1>1 DEF WriteByte, txVars
  <2> QED BY <1>0, <2>1 DEF Counted, MayHave
<1>2. CASE txlen < TxSize
  <2> DEFINE b == [src |-> t, char |-> pos[t] + 1, call |-> <<prints[t], written_char[t]>>]
  <2>1. txlog' = Append(txlog, b) /\ nbytes' = [nbytes EXCEPT ![t] = @ + 1]
    BY <1>2 DEF WriteByte
  <2>2. b.src = t /\ b.call = <<prints[t], written_char[t]>> /\ b \in TxBytes
    BY UsbAssumption DEF TaskInv, TxBytes, Origins
  <2> HIDE DEF b
  <2>3. /\ Len(txlog') = Len(txlog) + 1 /\ txlog'[Len(txlog) + 1] = b
        /\ \A i \in 1 .. Len(txlog) : txlog'[i] = txlog[i] /\ Len(txlog) \in Nat
    BY <2>1, <2>2, AppendProperties DEF TxInv
  <2>4. nbytes'[t] = nbytes[t] + 1 /\ nbytes[t] \in Nat
    BY <1>0, <2>1
  <2>l. Len(txlog) \in Nat
    BY LenProperties DEF TxInv
  <2>5. LogGrows
    BY <2>3, <2>l DEF LogGrows, TxInv
  <2>6. GrowsByByte(t)
    BY <1>0, <2>2, <2>3, <2>4, <2>5 DEF GrowsByByte
  <2>7. CASE p = prints[t]
    <3>1. Cardinality(BytesOf(txlog, t, p)) = written_char[t] + nbytes[t]
      BY <1>0, <2>7 DEF Counted, MayHave
    <3>2. Cardinality(BytesOf(txlog', t, p)) = written_char[t] + nbytes[t] + 1
      BY <2>6, <2>7, <3>1, OneMoreCounted
    <3>3. Cardinality(BytesOf(txlog', t, p)) = written_char'[t] + nbytes'[t]
      BY <1>0, <2>4, <3>2
    <3> QED BY <1>0, <2>7, <3>3 DEF Counted, MayHave
  <2>8. CASE p # prints[t]
    <3>1. ASSUME NEW i \in Len(txlog) + 1 .. Len(txlog') PROVE txlog'[i].call[1] # p
      <4>1. i = Len(txlog) + 1
        BY <2>3, <2>l
      <4>2. b.call[1] = prints[t]
        BY <2>2
      <4> QED BY <2>3, <2>8, <4>1, <4>2
    <3>2. BytesOf(txlog', t, p) = BytesOf(txlog, t, p)
      BY <2>5, <3>1, OthersNotCounted
    <3> QED BY <1>0, <2>8, <3>2 DEF Counted, MayHave
  <2> QED BY <2>7, <2>8
<1> QED BY <1>1, <1>2

(***************************************************************************)
(* Bytes of the strings of a task come only from its cdc_write.            *)
(***************************************************************************)
LEMMA OtherBytes ==
  ASSUME TaskInv, TaskInv', RxInv, TxInv, TxInv', [Next]_vars, NEW u \in Tasks, ~WriteByte(u),
         NEW p \in Nat \ {0}
  PROVE  BytesOf(txlog', u, p) = BytesOf(txlog, u, p)
<1>1. CASE GrowsUnlocked
  <2>1. UNLOCKED[1] = 0
    BY DEF UNLOCKED
  <2>2. \A i \in Len(txlog) + 1 .. Len(txlog') : txlog'[i].call[1] # p
    BY <1>1, <2>1 DEF GrowsUnlocked
  <2> QED BY <1>1, <2>2, OthersNotCounted DEF GrowsUnlocked
<1>2. ASSUME NEW t \in Tasks, WriteByte(t), GrowsByByte(t)
      PROVE  BytesOf(txlog', u, p) = BytesOf(txlog, u, p)
  <2>1. Len(txlog) \in Nat /\ Len(txlog') = Len(txlog) + 1 /\ txlog'[Len(txlog) + 1].src = t
        /\ LogGrows /\ t # u
    BY <1>2, LenProperties DEF GrowsByByte, TxInv
  <2>2. \A i \in Len(txlog) + 1 .. Len(txlog') : i = Len(txlog) + 1
    BY <2>1
  <2>3. \A i \in Len(txlog) + 1 .. Len(txlog') : txlog'[i].src # u
    BY <2>1, <2>2
  <2> QED BY <2>1, <2>3, OthersNotCounted
<1> QED BY <1>1, <1>2, TxEffects

(***************************************************************************)
(* PrintedCounted: printf_usb_app brings as many bytes of a string into    *)
(* the transmit buffer as it counts, in every turn of its loop, and all or *)
(* none of a string that it does not print at the moment.  Neither the     *)
(* lock nor what the host reads matters for that.                          *)
(***************************************************************************)
THEOREM StringsCountedRight == Spec => []PrintedCounted
<1>1. ASSUME Init PROVE CountInv /\ StringsCounted
  <2>1. /\ txlog = << >> /\ pc = [t \in Tasks |-> "out"] /\ prints = [t \in Tasks |-> 0]
    BY <1>1 DEF Init
  <2>2. ASSUME NEW t \in Tasks, NEW p \in Nat \ {0} PROVE Counted(t, p)
    <3>1. BytesOf(txlog, t, p) = {}
      BY <2>1 DEF BytesOf
    <3>2. Cardinality(BytesOf(txlog, t, p)) = 0
      BY <3>1, FS_EmptySet
    <3> QED BY <2>1, <3>2 DEF Counted, MayHave
  <2> QED BY <2>1, <2>2 DEF CountInv, StringsCounted
<1>2. ASSUME IInv, IInv', CountInv, StringsCounted, [Next]_vars
      PROVE  CountInv' /\ StringsCounted'
  <2>0. TaskInv /\ TaskInv' /\ RxInv /\ TxInv /\ TxInv'
    BY <1>2 DEF IInv
  <2>1. StringsCounted'
    BY <1>2, <2>0, MovesOnStep
  <2>2. ASSUME NEW u \in Tasks, NEW p \in Nat \ {0} PROVE Counted(u, p)'
    <3>1. Counted(u, p)
      BY <1>2 DEF CountInv
    <3>2. CASE WriteByte(u)
      BY <1>2, <2>0, <3>1, <3>2, WriteByteCounts
    <3>3. CASE ~WriteByte(u)
      <4>1. MayGoOn(u)
        BY <1>2, <2>0, <3>3, MayStep
      <4>2. BytesOf(txlog', u, p) = BytesOf(txlog, u, p)
        BY <1>2, <2>0, <3>3, OtherBytes
      <4> QED BY <3>1, <4>1, <4>2 DEF Counted, MayGoOn
    <3> QED BY <3>2, <3>3
  <2> QED BY <2>1, <2>2 DEF CountInv
<1>3. CountInv => PrintedCounted
  BY DEF CountInv, Counted, PrintedCounted
<1> QED BY <1>1, <1>2, <1>3, Invariant, PTL DEF Spec
=============================================================================
