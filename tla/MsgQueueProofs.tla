--------------------------- MODULE MsgQueueProofs ---------------------------
(***************************************************************************)
(* Theorems about MsgQueue, for any numbers of tasks, queues and messages. *)
(***************************************************************************)
EXTENDS MsgQueue, PrioListProofs

Inv == TypeOK /\ CallsConsistent

(***************************************************************************)
(* The types of what the helpers of the actions leave behind.              *)
(***************************************************************************)
LEMMA AddPrioritizedType ==
  ASSUME NEW list \in Seq(Tasks), NEW t \in Tasks
  PROVE  nxsched_add_prioritized(list, t) \in Seq(Tasks)
<1> DEFINE lower == {i \in DOMAIN list : Priority[list[i]] < Priority[t]}
<1>1. lower \in SUBSET (1 .. Len(list))
  BY LenProperties
<1>2. nxsched_add_prioritized(list, t) = InsertBefore(list, lower, t)
  BY DEF nxsched_add_prioritized
<1> HIDE DEF lower
<1>3. PICK i \in 1 .. Len(list) + 1 : InsertBefore(list, lower, t) = InsertAt(list, i, t)
  BY <1>1, InsertBeforePosition
<1>4. InsertAt(list, i, t) \in Seq(Tasks)
  BY InsertAtProperties DEF IsInsertion
<1> QED BY <1>2, <1>3, <1>4

(***************************************************************************)
(* dq_rem adds nothing to a list.                                          *)
(***************************************************************************)
LEMMA DqRemType ==
  ASSUME NEW S, NEW list \in Seq(S), NEW t
  PROVE  dq_rem(list, t) \in Seq(S)
<1>1. CASE dq_rem(list, t) = list
  BY <1>1
<1>2. CASE \E i \in 1 .. Len(list) : dq_rem(list, t) = RemoveAt(list, i)
  <2>1. PICK i \in 1 .. Len(list) : dq_rem(list, t) = RemoveAt(list, i)
    BY <1>2
  <2>2. RemoveAt(list, i) \in Seq(S)
    BY RemoveAtProperties DEF IsRemoval
  <2> QED BY <2>1, <2>2
<1> QED BY <1>1, <1>2, DqRemPosition

(***************************************************************************)
(* The first task that waits for a queue is a task, and the list without   *)
(* it is a list of tasks.                                                  *)
(***************************************************************************)
LEMMA FirstWaiting ==
  ASSUME NEW list \in Seq(Tasks), NEW q, Waiting(list, q) # {}
  PROVE  \E i \in 1 .. Len(list) :
            /\ FirstOf(list, Waiting(list, q)) = list[i]
            /\ list[i] \in Tasks /\ msgwaitq[list[i]] = q
            /\ RemoveFirstOf(list, Waiting(list, q)) = RemoveAt(list, i)
            /\ RemoveAt(list, i) \in Seq(Tasks)
            /\ \A j \in 1 .. i - 1 : msgwaitq[list[j]] # q
<1>0. DOMAIN list = 1 .. Len(list) /\ Len(list) \in Nat
  BY LenProperties
<1>1. Waiting(list, q) \in SUBSET Nat
  BY <1>0 DEF Waiting
<1>2. PICK i \in Waiting(list, q) :
             /\ FirstOf(list, Waiting(list, q)) = list[i]
             /\ RemoveFirstOf(list, Waiting(list, q)) = RemoveAt(list, i)
             /\ \A j \in Waiting(list, q) : i <= j
  BY <1>1, RemoveFirstOfPosition
<1>3. i \in 1 .. Len(list) /\ msgwaitq[list[i]] = q
  BY <1>0 DEF Waiting
<1>4. RemoveAt(list, i) \in Seq(Tasks)
  BY <1>3, RemoveAtProperties DEF IsRemoval
<1>5. list[i] \in Tasks
  BY <1>3, ElementOfSeq
<1>6. ASSUME NEW j \in 1 .. i - 1, msgwaitq[list[j]] = q PROVE FALSE
  <2>1. j \in Waiting(list, q)
    BY <1>6, <1>3, <1>0 DEF Waiting
  <2> QED BY <2>1, <1>2, <1>3, <1>0
<1> QED BY <1>2, <1>3, <1>4, <1>5, <1>6

(***************************************************************************)
(* The conjuncts of TypeOK about the waits of tasks.                       *)
(***************************************************************************)
TaskStates == {"READY", "WAIT_MQNOTEMPTY", "WAIT_MQNOTFULL", "INVALID"}
ErrCodes == {"OK", "EINTR", "ETIMEDOUT"}
WaitTypes ==
    /\ nwaitnotempty \in [Queues -> Int]
    /\ nwaitnotfull \in [Queues -> Int]
    /\ g_waitingformqnotempty \in Seq(Tasks)
    /\ g_waitingformqnotfull \in Seq(Tasks)
    /\ task_state \in [Tasks -> TaskStates]
    /\ msgwaitq \in [Tasks -> Queues \cup {NONE}]
    /\ errcode \in [Tasks -> ErrCodes]

(***************************************************************************)
(* Blocking, waking and the cancellation of a wait keep these types.       *)
(***************************************************************************)
LEMMA BlockTypes ==
  ASSUME WaitTypes, NEW t \in Tasks, NEW q \in Queues,
         BlockNotFull(t, q) \/ BlockNotEmpty(t, q)
  PROVE  WaitTypes'
<1>1. /\ nxsched_add_prioritized(g_waitingformqnotfull, t) \in Seq(Tasks)
      /\ nxsched_add_prioritized(g_waitingformqnotempty, t) \in Seq(Tasks)
  BY AddPrioritizedType DEF WaitTypes
<1>2. CASE BlockNotFull(t, q)
  BY <1>1, <1>2 DEF WaitTypes, BlockNotFull, TaskStates, ErrCodes
<1>3. CASE BlockNotEmpty(t, q)
  BY <1>1, <1>3 DEF WaitTypes, BlockNotEmpty, TaskStates, ErrCodes
<1> QED BY <1>2, <1>3

(***************************************************************************)
(* Waking the first waiter of a queue keeps the types.                     *)
(***************************************************************************)
LEMMA WakeTypes ==
  ASSUME WaitTypes, NEW q \in Queues, UNCHANGED errcode,
         WakeNotFull(q) \/ WakeNotEmpty(q)
  PROVE  WaitTypes'
<1>1. CASE WakeNotFull(q)
  <2>1. CASE Waiting(g_waitingformqnotfull, q) = {}
    BY <1>1, <2>1 DEF WaitTypes, WakeNotFull
  <2>2. CASE Waiting(g_waitingformqnotfull, q) # {}
    <3> DEFINE w == Waiting(g_waitingformqnotfull, q)
               b == FirstOf(g_waitingformqnotfull, w)
               r == RemoveFirstOf(g_waitingformqnotfull, w)
    <3>1. g_waitingformqnotfull \in Seq(Tasks)
      BY DEF WaitTypes
    <3>2. b \in Tasks /\ r \in Seq(Tasks)
      BY <3>1, <2>2, FirstWaiting
    <3>3. /\ msgwaitq' = [msgwaitq EXCEPT ![b] = NONE]
          /\ nwaitnotfull' = [nwaitnotfull EXCEPT ![q] = @ - 1]
          /\ task_state' = [task_state EXCEPT ![b] = "READY"]
          /\ g_waitingformqnotfull' = r
          /\ UNCHANGED <<nwaitnotempty, g_waitingformqnotempty>>
      BY <1>1, <2>2 DEF WakeNotFull
    <3> HIDE DEF b, r
    <3> QED BY <3>2, <3>3 DEF WaitTypes, TaskStates
  <2> QED BY <2>1, <2>2
<1>2. CASE WakeNotEmpty(q)
  <2>1. CASE Waiting(g_waitingformqnotempty, q) = {} \/ ~(nwaitnotempty[q] > 0)
    BY <1>2, <2>1 DEF WaitTypes, WakeNotEmpty
  <2>2. CASE Waiting(g_waitingformqnotempty, q) # {} /\ nwaitnotempty[q] > 0
    <3> DEFINE w == Waiting(g_waitingformqnotempty, q)
               b == FirstOf(g_waitingformqnotempty, w)
               r == RemoveFirstOf(g_waitingformqnotempty, w)
    <3>1. g_waitingformqnotempty \in Seq(Tasks)
      BY DEF WaitTypes
    <3>2. b \in Tasks /\ r \in Seq(Tasks)
      BY <3>1, <2>2, FirstWaiting
    <3>3. /\ msgwaitq' = [msgwaitq EXCEPT ![b] = NONE]
          /\ nwaitnotempty' = [nwaitnotempty EXCEPT ![q] = @ - 1]
          /\ task_state' = [task_state EXCEPT ![b] = "READY"]
          /\ g_waitingformqnotempty' = r
          /\ UNCHANGED <<nwaitnotfull, g_waitingformqnotfull>>
      BY <1>2, <2>2 DEF WakeNotEmpty
    <3> HIDE DEF b, r
    <3> QED BY <3>2, <3>3 DEF WaitTypes, TaskStates
  <2> QED BY <2>1, <2>2
<1> QED BY <1>1, <1>2

(***************************************************************************)
(* Cancelling a wait keeps the types.                                      *)
(***************************************************************************)
LEMMA WaitIrqTypes ==
  ASSUME WaitTypes, NEW t \in Tasks, NEW code \in {"EINTR", "ETIMEDOUT"},
         msgwaitq[t] \in Queues, nxmq_wait_irq(t, code)
  PROVE  WaitTypes'
<1>1. /\ dq_rem(g_waitingformqnotfull, t) \in Seq(Tasks)
      /\ dq_rem(g_waitingformqnotempty, t) \in Seq(Tasks)
  BY DqRemType DEF WaitTypes
<1> QED BY <1>1 DEF WaitTypes, nxmq_wait_irq, TaskStates, ErrCodes

(***************************************************************************)
(* nxmq_alloc_msg takes a message only from a list that has one, and       *)
(* nxmq_free_msg returns one: the free lists stay lists.                   *)
(***************************************************************************)
LEMMA PoolTypes ==
  ASSUME TypeOK
  PROVE  /\ \A x \in Contexts : \A type \in nxmq_alloc_msg(x) :
              /\ type \in {"FIXED", "IRQ", "DYN", "NULL"}
              /\ TakeFrom(type) => g_msgfree' \in Nat /\ g_msgfreeirq' \in Nat
         /\ \A m : nxmq_free_msg(m) => g_msgfree' \in Nat /\ g_msgfreeirq' \in Nat
BY DEF TypeOK, nxmq_alloc_msg, kmm_malloc, TakeFrom, nxmq_free_msg

(***************************************************************************)
(* The types of what a return leaves behind.                               *)
(***************************************************************************)
LEMMA ReturnTypes ==
  ASSUME TypeOK, NEW x \in Contexts, NEW code \in Codes, Return(x, code)
  PROVE  /\ pc' \in [Contexts -> PcStates] /\ frame' \in [Contexts -> Frames]
         /\ mqmsg' \in [Contexts -> Messages \cup {NONE}] /\ ret' \in Codes
         /\ locked' \in Tasks \cup {NONE}
BY DEF TypeOK, Return, Goto, NoFrame, Frames, PcStates, Contexts

(***************************************************************************)
(* The conjuncts of TypeOK about the queues and the pools, and about the   *)
(* calls that are under way.                                               *)
(***************************************************************************)
QueueTypes ==
    /\ msglist \in [Queues -> Seq(Messages)]
    /\ nmsgs \in [Queues -> Int]
    /\ ntpid \in [Queues -> Tasks \cup {NONE}]
    /\ g_msgfree \in Nat /\ g_msgfreeirq \in Nat
    /\ nsent \in Nat
CallTypes ==
    /\ waitdog \in [Tasks -> BOOLEAN]
    /\ pc \in [Contexts -> PcStates]
    /\ frame \in [Contexts -> Frames]
    /\ mqmsg \in [Contexts -> Messages \cup {NONE}]
    /\ ret \in Codes
    /\ locked \in Tasks \cup {NONE}
    /\ fault \in {"none", "nowaiter", "zombie"}

(***************************************************************************)
(* The type invariant in three parts that few actions share.               *)
(***************************************************************************)
LEMMA TypeSplit == TypeOK <=> WaitTypes /\ QueueTypes /\ CallTypes
BY DEF TypeOK, WaitTypes, QueueTypes, CallTypes, TaskStates, ErrCodes

(***************************************************************************)
(* The frames and the messages that the calls build.                       *)
(***************************************************************************)
LEMMA FrameFacts ==
  ASSUME NEW q \in Queues, NEW prio \in MsgPrios, NEW timed \in BOOLEAN
  PROVE  /\ NoFrame \in Frames
         /\ [NoFrame EXCEPT !.q = q, !.prio = prio] \in Frames
         /\ [NoFrame EXCEPT !.q = q, !.prio = prio].q = q
         /\ [NoFrame EXCEPT !.q = q, !.prio = prio].prio = prio
         /\ [NoFrame EXCEPT !.q = q, !.prio = prio].timed = FALSE
         /\ [NoFrame EXCEPT !.q = q, !.timed = timed] \in Frames
         /\ [NoFrame EXCEPT !.q = q, !.timed = timed].q = q
BY DEF NoFrame, Frames

(***************************************************************************)
(* An allocated message is a message, so it is not NULL.                   *)
(***************************************************************************)
LEMMA MessageFacts ==
  ASSUME NEW x \in Contexts, NEW type \in {"FIXED", "IRQ", "DYN"},
         NEW prio \in MsgPrios
  PROVE  NewMessage(x, type, prio) \in Messages /\ NewMessage(x, type, prio) # NONE
<1>1. NewMessage(x, type, prio) \in Messages
  BY DEF NewMessage, Messages
<1> QED BY <1>1, NullIsNoMessage

(***************************************************************************)
(* Stamping a message changes nothing else of it.                          *)
(***************************************************************************)
LEMMA StampFacts ==
  ASSUME NEW m \in Messages, NEW k \in Nat
  PROVE  /\ [m EXCEPT !.stamp = k] \in Messages
         /\ [m EXCEPT !.stamp = k].prio = m.prio
         /\ [m EXCEPT !.stamp = k].stamp = k
BY DEF Messages

(***************************************************************************)
(* The call a task makes keeps every variable in its type.                 *)
(***************************************************************************)
LEMMA CallTypesKept ==
  ASSUME TypeOK, NEW t \in Tasks, Call(t)
  PROVE  TypeOK'
<1> SUFFICES WaitTypes' /\ QueueTypes' /\ CallTypes'
  BY DEF TypeOK, WaitTypes, QueueTypes, CallTypes, TaskStates, ErrCodes
<1>0. WaitTypes /\ QueueTypes /\ CallTypes /\ t \in Contexts
  BY TypeSplit DEF Contexts
<1>1. ASSUME NEW oflags \in OFlags, NEW fits \in BOOLEAN, NEW prio \in MsgPrios,
             MqSendRejected(t, oflags, fits, prio)
      PROVE  WaitTypes' /\ QueueTypes' /\ CallTypes'
  BY <1>0, <1>1 DEF MqSendRejected, nxmq_verify_send, WaitTypes, QueueTypes,
     CallTypes, Codes, queueVars, poolVars, waitVars
<1>2. ASSUME NEW oflags \in OFlags, NEW fits \in BOOLEAN,
             MqReceiveRejected(t, oflags, fits)
      PROVE  WaitTypes' /\ QueueTypes' /\ CallTypes'
  BY <1>0, <1>2 DEF MqReceiveRejected, nxmq_verify_receive, WaitTypes,
     QueueTypes, CallTypes, Codes, queueVars, poolVars, waitVars
<1>3. ASSUME NEW oflags \in OFlags, NEW q \in Queues, NEW prio \in MsgPrios,
             MqSend(t, q, oflags, prio)
      PROVE  WaitTypes' /\ QueueTypes' /\ CallTypes'
  <2>1. WaitTypes'
    BY <1>0, <1>3, BlockTypes DEF MqSend, WaitTypes, waitVars
  <2>2. QueueTypes'
    BY <1>0, <1>3 DEF MqSend, QueueTypes, queueVars, poolVars
  <2> DEFINE f == [NoFrame EXCEPT !.q = q, !.prio = prio]
  <2>3. f \in Frames /\ NoFrame \in Frames
    BY FrameFacts
  <2> HIDE DEF f
  <2>4. CallTypes'
    <3>1. CASE Return(t, "EAGAIN")
      BY <1>0, <1>3, <2>3, <3>1 DEF MqSend, CallTypes, Return, Goto, PcStates, Codes
    <3>2. CASE Goto(t, "alloc") /\ Lock(t) /\ frame' = [frame EXCEPT ![t] = f]
               /\ UNCHANGED <<mqmsg, ret>>
      BY <1>0, <1>3, <2>3, <3>2, ContextsDiffer
      DEF MqSend, CallTypes, Goto, Lock, PcStates, SendPcs
    <3>3. CASE Goto(t, "wait_send") /\ locked' = NONE
               /\ frame' = [frame EXCEPT ![t] = f] /\ UNCHANGED <<mqmsg, ret>>
      BY <1>0, <1>3, <2>3, <3>3 DEF MqSend, CallTypes, Goto, PcStates, SendPcs
    <3> QED BY <1>3, <3>1, <3>2, <3>3 DEF MqSend, BlockNotFull, f
  <2> QED BY <2>1, <2>2, <2>4
<1>4. ASSUME NEW oflags \in OFlags, NEW q \in Queues, NEW prio \in MsgPrios,
             MqTimedSend(t, q, oflags, prio)
      PROVE  WaitTypes' /\ QueueTypes' /\ CallTypes'
  <2> DEFINE f == [q |-> q, prio |-> prio, timed |-> TRUE, pid |-> NONE]
  <2>1. WaitTypes'
    BY <1>0, <1>4 DEF MqTimedSend, WaitTypes, waitVars
  <2>2. PICK type \in nxmq_alloc_msg(t) :
          \/ /\ type = "NULL"
             /\ ret' = "ENOMEM"
             /\ UNCHANGED <<poolVars, pc, frame, mqmsg>>
          \/ /\ type # "NULL"
             /\ TakeFrom(type)
             /\ mqmsg' = [mqmsg EXCEPT ![t] = NewMessage(t, type, prio)]
             /\ frame' = [frame EXCEPT ![t] = f]
             /\ Goto(t, "tstart")
             /\ UNCHANGED ret
    BY <1>4 DEF MqTimedSend
  <2>3. f \in Frames
    BY DEF Frames
  <2>4. /\ type \in {"FIXED", "IRQ", "DYN", "NULL"}
        /\ TakeFrom(type) => g_msgfree' \in Nat /\ g_msgfreeirq' \in Nat
    BY <1>0, PoolTypes
  <2>5. QueueTypes'
    BY <1>0, <1>4, <2>2, <2>4 DEF MqTimedSend, QueueTypes, queueVars, poolVars
  <2>6. CASE type = "NULL"
    BY <1>0, <1>4, <2>1, <2>2, <2>5, <2>6 DEF MqTimedSend, CallTypes, Codes
  <2>7. CASE type # "NULL"
    <3>1. NewMessage(t, type, prio) \in Messages
      BY <1>0, <2>4, <2>7, MessageFacts
    <3> HIDE DEF f
    <3>2. CallTypes'
      BY <1>0, <1>4, <2>2, <2>3, <2>7, <3>1
      DEF MqTimedSend, CallTypes, Goto, PcStates, SendPcs
    <3> QED BY <2>1, <2>5, <3>2
  <2> QED BY <2>6, <2>7
<1>5. ASSUME NEW oflags \in OFlags, NEW q \in Queues, NEW timed \in BOOLEAN,
             NEW time \in Times, ReceiveStart(t, q, oflags, timed, time)
      PROVE  WaitTypes' /\ QueueTypes' /\ CallTypes'
  <2> DEFINE f == [NoFrame EXCEPT !.q = q, !.timed = timed]
  <2>1. WaitTypes'
    BY <1>0, <1>5, BlockTypes DEF ReceiveStart, WaitTypes, waitVars
  <2>2. msglist[q] \in Seq(Messages)
    BY <1>0 DEF QueueTypes
  <2>3. msglist[q] # <<>> => /\ Head(msglist[q]) \in Messages
                             /\ Tail(msglist[q]) \in Seq(Messages)
    BY <2>2, HeadTailProperties
  <2>4. QueueTypes'
    <3>1. CASE UNCHANGED queueVars
      BY <1>0, <1>5, <3>1 DEF ReceiveStart, QueueTypes, queueVars, poolVars
    <3>2. CASE msglist[q] # <<>> /\ TakeMessage(t, q)
      BY <1>0, <1>5, <2>3, <3>2 DEF ReceiveStart, TakeMessage, QueueTypes, poolVars
    <3> QED BY <1>5, <3>1, <3>2 DEF ReceiveStart
  <2>5. f \in Frames /\ NoFrame \in Frames
    <3>1. f \in Frames
      BY DEF Frames, NoFrame
    <3> QED BY <3>1 DEF Frames, NoFrame
  <2>6. CASE Return(t, "EINVAL") /\ UNCHANGED waitdog
    BY <1>0, <1>5, <2>1, <2>4, <2>5, <2>6
    DEF ReceiveStart, CallTypes, Return, Goto, PcStates, Codes
  <2>7. CASE Return(t, IF time = "ETIMEDOUT" THEN time ELSE "EAGAIN")
             /\ UNCHANGED waitdog
    <3>1. PICK code \in Codes : Return(t, code)
      BY <2>7 DEF Codes
    <3> QED BY <1>0, <1>5, <2>1, <2>4, <2>5, <2>7, <3>1
            DEF ReceiveStart, CallTypes, Return, Goto, PcStates
  <2> HIDE DEF f
  <2>8. CASE msglist[q] # <<>> /\ TakeMessage(t, q)
             /\ frame' = [frame EXCEPT ![t] = f] /\ UNCHANGED <<waitdog, ret>>
    BY <1>0, <1>5, <2>1, <2>3, <2>4, <2>5, <2>8, ContextsDiffer
    DEF ReceiveStart, TakeMessage, CallTypes, Goto, Lock, PcStates, RecvPcs
  <2>9. CASE waitdog' = [waitdog EXCEPT ![t] = timed] /\ Goto(t, "wait_recv")
             /\ locked' = NONE /\ frame' = [frame EXCEPT ![t] = f]
             /\ UNCHANGED <<mqmsg, ret>>
    BY <1>0, <1>5, <2>1, <2>4, <2>5, <2>9
    DEF ReceiveStart, CallTypes, Goto, PcStates, RecvPcs
  <2> QED BY <1>5, <2>6, <2>7, <2>8, <2>9 DEF ReceiveStart, BlockNotEmpty, f
<1>6. ASSUME NEW q \in Queues, NEW attach \in BOOLEAN, NEW goodsigno \in BOOLEAN,
             mq_notify(t, q, attach, goodsigno)
      PROVE  WaitTypes' /\ QueueTypes' /\ CallTypes'
  BY <1>0, <1>6 DEF mq_notify, WaitTypes, QueueTypes, CallTypes, Codes,
     queueVars, poolVars, waitVars
<1> QED
  <2>1. "OK" \in Times /\ TRUE \in BOOLEAN /\ FALSE \in BOOLEAN
    BY DEF Times
  <2> QED BY <1>1, <1>2, <1>3, <1>4, <1>5, <1>6, <2>1 DEF Call, MqReceive, MqTimedReceive

(***************************************************************************)
(* So do the steps of a send that is under way, in a task or an interrupt  *)
(* handler.                                                                *)
(***************************************************************************)
LEMMA SendTypesKept ==
  ASSUME Inv, NEW x \in Contexts, SendStep(x)
  PROVE  TypeOK'
<1> SUFFICES WaitTypes' /\ QueueTypes' /\ CallTypes'
  BY DEF TypeOK, WaitTypes, QueueTypes, CallTypes, TaskStates, ErrCodes
<1>0. /\ WaitTypes /\ QueueTypes /\ CallTypes /\ CallsConsistent
      /\ NoFrame \in Frames
  BY TypeSplit DEF Inv, NoFrame, Frames
<1>1. CASE SendAlloc(x)
  <2>1. WaitTypes'
    BY <1>0, <1>1 DEF SendAlloc, WaitTypes, waitVars
  <2>2. PICK type \in nxmq_alloc_msg(x) :
          \/ /\ type = "NULL"
             /\ Return(x, "ENOMEM")
             /\ UNCHANGED poolVars
          \/ /\ type # "NULL"
             /\ TakeFrom(type)
             /\ mqmsg' = [mqmsg EXCEPT ![x] = NewMessage(x, type, frame[x].prio)]
             /\ Goto(x, "insert") /\ Lock(x)
             /\ UNCHANGED <<frame, ret>>
    BY <1>1 DEF SendAlloc
  <2>3. /\ type \in {"FIXED", "IRQ", "DYN", "NULL"}
        /\ TakeFrom(type) => g_msgfree' \in Nat /\ g_msgfreeirq' \in Nat
    BY PoolTypes DEF Inv
  <2>4. QueueTypes'
    BY <1>0, <1>1, <2>2, <2>3 DEF SendAlloc, QueueTypes, queueVars, poolVars
  <2>5. CASE type = "NULL"
    BY <1>0, <1>1, <2>1, <2>2, <2>4, <2>5
    DEF SendAlloc, CallTypes, Return, Goto, PcStates, Codes
  <2>6. CASE type # "NULL"
    <3>1. NewMessage(x, type, frame[x].prio) \in Messages
      BY <1>0, <1>1, <2>3, <2>6, MessageFacts DEF SendAlloc, CallsConsistent
    <3>2. CallTypes'
      BY <1>0, <1>1, <2>2, <2>6, <3>1
      DEF SendAlloc, CallTypes, Goto, Lock, PcStates, SendPcs, Contexts
    <3> QED BY <2>1, <2>4, <3>2
  <2> QED BY <2>5, <2>6
<1>2. CASE SendInsert(x)
  <2> DEFINE q == frame[x].q
             m == [mqmsg[x] EXCEPT !.stamp = nsent + 1]
             lower == {i \in DOMAIN msglist[q] : msglist[q][i].prio < m.prio}
             n == InsertBefore(msglist[q], lower, m)
  <2>1. q \in Queues /\ msglist[q] \in Seq(Messages) /\ mqmsg[x] \in Messages
    BY <1>0, <1>2 DEF SendInsert, CallsConsistent, SendPcs, CallTypes, QueueTypes
  <2>2. m \in Messages
    <3>1. nsent + 1 \in Nat
      BY <1>0 DEF QueueTypes
    <3> QED BY <2>1, <3>1, StampFacts
  <2>3. lower \in SUBSET (1 .. Len(msglist[q]))
    BY <2>1, LenProperties
  <2>4. /\ msglist' = [msglist EXCEPT ![q] = n]
        /\ nmsgs' = [nmsgs EXCEPT ![q] = @ + 1]
        /\ nsent' = nsent + 1
        /\ mqmsg' = [mqmsg EXCEPT ![x] = NONE]
        /\ UNCHANGED <<ntpid, g_msgfree, g_msgfreeirq>>
    BY <1>2 DEF SendInsert, poolVars
  <2>5. n \in Seq(Messages)
    <3> HIDE DEF m, lower, q
    <3>1. PICK i \in 1 .. Len(msglist[q]) + 1 : n = InsertAt(msglist[q], i, m)
      BY <2>1, <2>2, <2>3, InsertBeforePosition
    <3>2. InsertAt(msglist[q], i, m) \in Seq(Messages)
      BY <2>1, <2>2, InsertAtProperties DEF IsInsertion
    <3> QED BY <3>1, <3>2
  <2> HIDE DEF q, n
  <2>6. QueueTypes'
    BY <1>0, <2>1, <2>4, <2>5 DEF QueueTypes
  <2>7. WaitTypes' /\ CallTypes'
    BY <1>0, <1>2 DEF SendInsert, WaitTypes, CallTypes, waitVars, Goto, PcStates, SendPcs
  <2> QED BY <2>6, <2>7
<1>3. CASE NotifyTest(x)
  BY <1>0, <1>3 DEF NotifyTest, Goto, WaitTypes, QueueTypes, CallTypes, PcStates,
     SendPcs, queueVars, poolVars, waitVars
<1>4. CASE NotifyTake(x)
  <2>1. ntpid[frame[x].q] \in Tasks \cup {NONE}
    BY <1>0, <1>4 DEF NotifyTake, CallsConsistent, QueueTypes, SendPcs
  <2>2. [frame[x] EXCEPT !.pid = ntpid[frame[x].q]] \in Frames
    <3>1. frame[x] \in Frames
      BY <1>0 DEF CallTypes
    <3> QED BY <2>1, <3>1 DEF Frames
  <2>3. frame' = [frame EXCEPT ![x] = [frame[x] EXCEPT !.pid = ntpid[frame[x].q]]]
    BY <1>4 DEF NotifyTake
  <2>4. frame' \in [Contexts -> Frames]
    BY <1>0, <2>2, <2>3 DEF CallTypes
  <2> QED BY <1>0, <1>4, <2>4 DEF NotifyTake, Goto, WaitTypes, QueueTypes,
      CallTypes, PcStates, SendPcs, queueVars, poolVars, waitVars
<1>5. CASE NotifySend(x)
  <2> DEFINE p == frame[x].pid
  <2>1. frame[x].q \in Queues
    BY <1>0, <1>5 DEF NotifySend, CallsConsistent, SendPcs
  <2>2. QueueTypes'
    BY <1>0, <1>5, <2>1 DEF NotifySend, QueueTypes, queueVars, poolVars
  <2>3. CASE p # NONE /\ p \in Signalable /\ InMqWait(p)
    <3>1. p \in Tasks /\ msgwaitq[p] \in Queues
      BY <1>0, <2>3, CallersAreTasks DEF CallsConsistent
    <3>2. nxmq_wait_irq(p, "EINTR")
      BY <1>5, <2>3 DEF NotifySend
    <3> HIDE DEF p
    <3>3. WaitTypes'
      BY <1>0, <3>1, <3>2, WaitIrqTypes
    <3>4. CallTypes'
      BY <1>0, <1>5, <3>2 DEF NotifySend, nxmq_wait_irq, CallTypes, Goto, PcStates, SendPcs
    <3> QED BY <2>2, <3>3, <3>4
  <2>4. CASE ~(p # NONE /\ p \in Signalable /\ InMqWait(p))
    BY <1>0, <1>5, <2>2, <2>4
    DEF NotifySend, WaitTypes, CallTypes, waitVars, Goto, PcStates, SendPcs
  <2> QED BY <2>3, <2>4
<1>6. CASE SendWake(x)
  <2>1. frame[x].q \in Queues
    BY <1>0, <1>6 DEF SendWake, CallsConsistent, SendPcs
  <2>2. WaitTypes'
    BY <1>0, <1>6, <2>1, WakeTypes DEF SendWake
  <2>3. QueueTypes'
    BY <1>0, <1>6 DEF SendWake, QueueTypes, queueVars, poolVars
  <2>4. fault' \in {"none", "nowaiter", "zombie"}
    BY <1>0, <1>6 DEF SendWake, WakeNotEmpty, CallTypes
  <2>5. CallTypes'
    BY <1>0, <1>6, <2>4 DEF SendWake, Return, Goto, CallTypes, PcStates, Codes
  <2> QED BY <2>2, <2>3, <2>5
<1> QED BY <1>1, <1>2, <1>3, <1>4, <1>5, <1>6 DEF SendStep

(***************************************************************************)
(* So do the other steps of a task that is inside a call.                  *)
(***************************************************************************)
LEMMA TaskTypesKept ==
  ASSUME Inv, NEW t \in Tasks, TaskStep(t)
  PROVE  TypeOK'
<1>0. /\ WaitTypes /\ QueueTypes /\ CallTypes /\ CallsConsistent
      /\ NoFrame \in Frames /\ t \in Contexts
  BY TypeSplit DEF Inv, NoFrame, Frames, Contexts
<1>a. ASSUME WaitTypes' /\ QueueTypes' /\ CallTypes' PROVE TypeOK'
  BY <1>a DEF TypeOK, WaitTypes, QueueTypes, CallTypes, TaskStates, ErrCodes
<1>b. ASSUME pc[t] \in SendPcs \cup RecvPcs PROVE frame[t].q \in Queues
  BY <1>0, <1>b DEF CallsConsistent
<1>1. CASE SendStep(t)
  BY <1>0, <1>1, SendTypesKept
<1>2. CASE ResumeSend(t)
  <2>1. frame[t].q \in Queues
    BY <1>2, <1>b DEF ResumeSend, SendPcs
  <2>2. WaitTypes'
    BY <1>0, <1>2, <2>1, BlockTypes DEF ResumeSend, WaitTypes, waitVars
  <2>3. g_msgfree' \in Nat /\ g_msgfreeirq' \in Nat
    BY <1>0, <1>2, PoolTypes DEF ResumeSend, Inv, QueueTypes, poolVars
  <2>4. QueueTypes'
    BY <1>0, <1>2, <2>3 DEF ResumeSend, QueueTypes, queueVars
  <2>5. errcode[t] \in Codes
    BY <1>0 DEF WaitTypes, ErrCodes, Codes
  <2>6. CASE Return(t, errcode[t]) /\ waitdog' = [waitdog EXCEPT ![t] = FALSE]
    <3>1. CallTypes'
      BY <1>0, <1>2, <2>5, <2>6 DEF ResumeSend, CallTypes, Return, Goto, PcStates
    <3> QED BY <2>2, <2>4, <3>1, <1>a
  <2>7. CASE locked' = NONE /\ UNCHANGED <<waitdog, callVars>>
    <3>1. CallTypes'
      BY <1>0, <1>2, <2>7 DEF ResumeSend, CallTypes, callVars
    <3> QED BY <2>2, <2>4, <3>1, <1>a
  <2>8. CASE /\ Goto(t, IF frame[t].timed THEN "insert" ELSE "alloc") /\ Lock(t)
             /\ waitdog' = [waitdog EXCEPT ![t] = FALSE]
             /\ UNCHANGED <<frame, mqmsg, ret>>
    <3>1. CallTypes'
      BY <1>0, <1>2, <2>8, ContextsDiffer
      DEF ResumeSend, CallTypes, Goto, Lock, PcStates, SendPcs
    <3> QED BY <2>2, <2>4, <3>1, <1>a
  <2> QED BY <1>2, <2>6, <2>7, <2>8 DEF ResumeSend, BlockNotFull
<1>3. CASE ResumeReceive(t)
  <2> DEFINE q == frame[t].q
  <2>1. q \in Queues /\ msglist[q] \in Seq(Messages)
    BY <1>0, <1>3, <1>b DEF ResumeReceive, RecvPcs, QueueTypes
  <2>2. WaitTypes'
    BY <1>0, <1>3, <2>1, BlockTypes DEF ResumeReceive, WaitTypes, waitVars
  <2>3. msglist[q] # <<>> => /\ Head(msglist[q]) \in Messages
                             /\ Tail(msglist[q]) \in Seq(Messages)
    BY <2>1, HeadTailProperties
  <2>4. QueueTypes'
    <3>1. CASE UNCHANGED queueVars
      BY <1>0, <1>3, <3>1 DEF ResumeReceive, QueueTypes, queueVars, poolVars
    <3>2. CASE msglist[q] # <<>> /\ TakeMessage(t, q)
      BY <1>0, <1>3, <2>1, <2>3, <3>2
      DEF ResumeReceive, TakeMessage, QueueTypes, poolVars
    <3> QED BY <1>3, <3>1, <3>2 DEF ResumeReceive
  <2>5. errcode[t] \in Codes
    BY <1>0 DEF WaitTypes, ErrCodes, Codes
  <2>6. CASE Return(t, errcode[t]) /\ waitdog' = [waitdog EXCEPT ![t] = FALSE]
    <3>1. CallTypes'
      BY <1>0, <1>3, <2>5, <2>6 DEF ResumeReceive, CallTypes, Return, Goto, PcStates
    <3> QED BY <2>2, <2>4, <3>1, <1>a
  <2>7. CASE locked' = NONE /\ UNCHANGED <<waitdog, callVars>>
    <3>1. CallTypes'
      BY <1>0, <1>3, <2>7 DEF ResumeReceive, CallTypes, callVars
    <3> QED BY <2>2, <2>4, <3>1, <1>a
  <2>8. CASE /\ msglist[q] # <<>> /\ TakeMessage(t, q)
             /\ waitdog' = [waitdog EXCEPT ![t] = FALSE]
             /\ UNCHANGED <<frame, ret>>
    <3> HIDE DEF q
    <3>1. CallTypes'
      BY <1>0, <1>3, <2>3, <2>8, ContextsDiffer
      DEF ResumeReceive, TakeMessage, CallTypes, Goto, Lock, PcStates, RecvPcs
    <3> QED BY <2>2, <2>4, <3>1, <1>a
  <2> QED BY <1>3, <2>6, <2>7, <2>8 DEF ResumeReceive, BlockNotEmpty
<1>4. ASSUME NEW nonblock \in BOOLEAN, NEW time \in Times,
             TimedSendStart(t, nonblock, time)
      PROVE  TypeOK'
  <2>1. frame[t].q \in Queues
    BY <1>4, <1>b DEF TimedSendStart, SendPcs
  <2>2. WaitTypes'
    BY <1>0, <1>4, <2>1, BlockTypes DEF TimedSendStart, WaitTypes, waitVars
  <2>3. g_msgfree' \in Nat /\ g_msgfreeirq' \in Nat
    BY <1>0, <1>4, PoolTypes DEF TimedSendStart, Inv, QueueTypes, poolVars
  <2>4. QueueTypes'
    BY <1>0, <1>4, <2>3 DEF TimedSendStart, QueueTypes, queueVars
  <2>5. CASE /\ Return(t, IF time # "OK" THEN time ELSE "EAGAIN")
             /\ UNCHANGED waitdog
    <3>1. PICK code \in Codes : Return(t, code)
      BY <2>5 DEF Codes, Times
    <3>2. CallTypes'
      BY <1>0, <1>4, <2>5, <3>1 DEF TimedSendStart, CallTypes, Return, Goto, PcStates
    <3> QED BY <2>2, <2>4, <3>2, <1>a
  <2>6. CASE /\ Goto(t, "insert") /\ Lock(t)
             /\ UNCHANGED <<waitdog, frame, mqmsg, ret>>
    <3>1. CallTypes'
      BY <1>0, <1>4, <2>6, ContextsDiffer
      DEF TimedSendStart, CallTypes, Goto, Lock, PcStates, SendPcs
    <3> QED BY <2>2, <2>4, <3>1, <1>a
  <2>7. CASE /\ waitdog' = [waitdog EXCEPT ![t] = TRUE] /\ locked' = NONE
             /\ Goto(t, "wait_send") /\ UNCHANGED <<frame, mqmsg, ret>>
    <3>1. CallTypes'
      BY <1>0, <1>4, <2>7 DEF TimedSendStart, CallTypes, Goto, PcStates, SendPcs
    <3> QED BY <2>2, <2>4, <3>1, <1>a
  <2> QED BY <1>4, <2>5, <2>6, <2>7 DEF TimedSendStart, BlockNotFull
<1>5. CASE ReceiveFree(t)
  <2>1. WaitTypes' /\ CallTypes'
    BY <1>0, <1>5
    DEF ReceiveFree, WaitTypes, CallTypes, Goto, Lock, PcStates, RecvPcs, waitVars
  <2>2. QueueTypes'
    BY <1>0, <1>5, PoolTypes DEF ReceiveFree, Inv, QueueTypes, queueVars
  <2> QED BY <2>1, <2>2, <1>a
<1>6. CASE ReceiveCheck(t)
  <2>1. WaitTypes' /\ QueueTypes'
    BY <1>0, <1>6 DEF ReceiveCheck, WaitTypes, QueueTypes, waitVars, queueVars, poolVars
  <2>2. CallTypes'
    BY <1>0, <1>6 DEF ReceiveCheck, CallTypes, Return, Goto, PcStates, RecvPcs, Codes
  <2> QED BY <2>1, <2>2, <1>a
<1>7. CASE ReceiveWake(t)
  <2>1. frame[t].q \in Queues
    BY <1>7, <1>b DEF ReceiveWake, RecvPcs
  <2>2. WaitTypes'
    BY <1>0, <1>7, <2>1, WakeTypes DEF ReceiveWake
  <2>3. QueueTypes'
    BY <1>0, <1>7 DEF ReceiveWake, QueueTypes, queueVars, poolVars
  <2>4. fault' \in {"none", "nowaiter", "zombie"}
    BY <1>0, <1>7 DEF ReceiveWake, WakeNotFull, CallTypes
  <2>5. CallTypes'
    BY <1>0, <1>7, <2>4 DEF ReceiveWake, Return, Goto, CallTypes, PcStates, Codes
  <2> QED BY <2>2, <2>3, <2>5, <1>a
<1>8. CASE HeapWait(t)
  <2>1. WaitTypes' /\ QueueTypes'
    BY <1>0, <1>8 DEF HeapWait, WaitTypes, QueueTypes, waitVars, queueVars, poolVars
  <2>2. CallTypes'
    BY <1>0, <1>8 DEF HeapWait, CallTypes, Goto, PcStates, SendPcs, RecvPcs
  <2> QED BY <2>1, <2>2, <1>a
<1> QED BY <1>1, <1>2, <1>3, <1>4, <1>5, <1>6, <1>7, <1>8 DEF TaskStep

(***************************************************************************)
(* And so does everything that happens to a task from outside.             *)
(***************************************************************************)
LEMMA TypeStep ==
  ASSUME Inv, [Next]_vars
  PROVE  TypeOK'
<1>0. /\ WaitTypes /\ QueueTypes /\ CallTypes /\ CallsConsistent /\ TypeOK
      /\ ISR \in Contexts
  BY TypeSplit DEF Inv, Contexts
<1>a. ASSUME WaitTypes' /\ QueueTypes' /\ CallTypes' PROVE TypeOK'
  BY <1>a DEF TypeOK, WaitTypes, QueueTypes, CallTypes, TaskStates, ErrCodes
<1>1. ASSUME NEW t \in Tasks, Call(t) PROVE TypeOK'
  BY <1>0, <1>1, CallTypesKept
<1>2. ASSUME NEW t \in Tasks, TaskStep(t) PROVE TypeOK'
  BY <1>2, TaskTypesKept
<1>3. ASSUME NEW q \in Queues, NEW prio \in MsgPrios, IsrSend(q, prio)
      PROVE  TypeOK'
  <2> DEFINE f == [NoFrame EXCEPT !.q = q, !.prio = prio]
  <2>1. f \in Frames
    BY FrameFacts
  <2>2. frame' = [frame EXCEPT ![ISR] = f]
    BY <1>3 DEF IsrSend
  <2> HIDE DEF f
  <2>3. WaitTypes' /\ QueueTypes'
    BY <1>0, <1>3 DEF IsrSend, WaitTypes, QueueTypes, waitVars, queueVars, poolVars
  <2>4. CallTypes'
    BY <1>0, <1>3, <2>1, <2>2 DEF IsrSend, CallTypes, Goto, PcStates, SendPcs
  <2> QED BY <2>3, <2>4, <1>a
<1>4. CASE SendStep(ISR)
  BY <1>0, <1>4, SendTypesKept
<1>5. ASSUME NEW t \in Tasks, WaitTimeout(t) PROVE TypeOK'
  <2>1. QueueTypes' /\ CallTypes'
    BY <1>0, <1>5 DEF WaitTimeout, QueueTypes, CallTypes, nxmq_wait_irq,
       queueVars, poolVars, callVars
  <2>2. CASE InMqWait(t)
    <3>1. msgwaitq[t] \in Queues /\ nxmq_wait_irq(t, "ETIMEDOUT")
      BY <1>0, <1>5, <2>2 DEF WaitTimeout, CallsConsistent
    <3> QED BY <1>0, <2>1, <3>1, <1>a, WaitIrqTypes
  <2>3. CASE ~InMqWait(t)
    <3>1. WaitTypes'
      BY <1>0, <1>5, <2>3 DEF WaitTimeout, WaitTypes, waitVars
    <3> QED BY <2>1, <3>1, <1>a
  <2> QED BY <2>2, <2>3
<1>6. ASSUME NEW t \in Tasks, SignalTask(t) PROVE TypeOK'
  <2>1. QueueTypes' /\ CallTypes'
    BY <1>0, <1>6 DEF SignalTask, QueueTypes, CallTypes, nxmq_wait_irq,
       queueVars, poolVars, callVars
  <2>2. msgwaitq[t] \in Queues /\ nxmq_wait_irq(t, "EINTR")
    BY <1>0, <1>6 DEF SignalTask, CallsConsistent
  <2> QED BY <1>0, <2>1, <2>2, <1>a, WaitIrqTypes
<1>7. ASSUME NEW t \in Tasks, TaskTerminate(t) PROVE TypeOK'
  <2>1. /\ g_waitingformqnotfull' \in Seq(Tasks)
        /\ g_waitingformqnotempty' \in Seq(Tasks)
    BY <1>0, <1>7, DqRemType DEF TaskTerminate, WaitTypes
  <2>2. WaitTypes' /\ QueueTypes'
    BY <1>0, <1>7, <2>1 DEF TaskTerminate, WaitTypes, QueueTypes, queueVars, poolVars
  <2>3. CallTypes'
    BY <1>0, <1>7 DEF TaskTerminate, CallTypes, Goto, PcStates, Contexts
  <2> QED BY <2>2, <2>3, <1>a
<1>8. ASSUME NEW t \in Tasks, TaskRecover(t) PROVE TypeOK'
  <2>1. InMqWait(t) => msgwaitq[t] \in Queues
    BY <1>0 DEF CallsConsistent
  <2>2. WaitTypes' /\ QueueTypes'
    BY <1>0, <1>8, <2>1 DEF TaskRecover, WaitTypes, QueueTypes, queueVars,
       poolVars, TaskStates, InMqWait
  <2>3. CallTypes'
    BY <1>0, <1>8 DEF TaskRecover, CallTypes, Goto, PcStates, Contexts
  <2> QED BY <2>2, <2>3, <1>a
<1>9. CASE UNCHANGED vars
  BY <1>0, <1>9 DEF TypeOK, vars, queueVars, poolVars, waitVars, callVars
<1> QED BY <1>1, <1>2, <1>3, <1>4, <1>5, <1>6, <1>7, <1>8, <1>9 DEF Next, Halted

(***************************************************************************)
(* What CallsConsistent says of a context and of a task.                   *)
(***************************************************************************)
ContextOK(x) ==
    /\ pc[x] \in SendPcs \cup RecvPcs => frame[x].q \in Queues
    /\ pc[x] \in {"alloc", "heap", "tstart", "wait_send"} => frame[x].prio \in MsgPrios
    /\ pc[x] = "tstart" => frame[x].timed
    /\ pc[x] \notin {"removed", "dead"} =>
         ( mqmsg[x] # NONE <=>
           \/ pc[x] \in {"tstart", "insert", "free", "hfree"}
           \/ pc[x] = "wait_send" /\ frame[x].timed )
TaskOK(t) ==
    /\ InMqWait(t) => msgwaitq[t] \in Queues
    /\ task_state[t] = "WAIT_MQNOTEMPTY" => pc[t] \in {"wait_recv", "removed"}
    /\ task_state[t] = "WAIT_MQNOTFULL" => pc[t] \in {"wait_send", "removed"}
    /\ InMqWait(t) /\ pc[t] # "removed" => msgwaitq[t] = frame[t].q
    /\ waitdog[t] => pc[t] \in {"wait_recv", "wait_send", "removed"}

(***************************************************************************)
(* CallsConsistent, context by context and task by task.                   *)
(***************************************************************************)
LEMMA CallsSplit ==
  CallsConsistent <=>
    /\ pc[ISR] \in {"out", "alloc", "insert", "ntest", "ntake", "nsend", "wake"}
    /\ \A x \in Contexts : ContextOK(x)
    /\ \A t \in Tasks : TaskOK(t)
BY DEF CallsConsistent, ContextOK, TaskOK

(***************************************************************************)
(* The step belongs to context x: it leaves the call of every other        *)
(* context alone, and does no more to another task than to end its wait or *)
(* its timeout.                                                            *)
(***************************************************************************)
StepOf(x) ==
    /\ \A y \in Contexts \ {x} :
         pc'[y] = pc[y] /\ frame'[y] = frame[y] /\ mqmsg'[y] = mqmsg[y]
    /\ \A u \in Tasks \ {x} :
         /\ \/ task_state'[u] = "READY"
            \/ task_state'[u] = task_state[u] /\ msgwaitq'[u] = msgwaitq[u]
         /\ waitdog'[u] => waitdog[u]

(***************************************************************************)
(* A step that belongs to x keeps CallsConsistent if it does so for x.     *)
(***************************************************************************)
LEMMA StepOfKeepsCalls ==
  ASSUME CallsConsistent, NEW x \in Contexts, StepOf(x), ContextOK(x)',
         x \in Tasks => TaskOK(x)',
         x = ISR => pc'[ISR] \in {"out", "alloc", "insert", "ntest", "ntake",
                                  "nsend", "wake"}
  PROVE  CallsConsistent'
<1>0. /\ \A y \in Contexts : ContextOK(y)
      /\ \A u \in Tasks : TaskOK(u)
      /\ pc[ISR] \in {"out", "alloc", "insert", "ntest", "ntake", "nsend", "wake"}
  BY CallsSplit
<1>1. pc'[ISR] \in {"out", "alloc", "insert", "ntest", "ntake", "nsend", "wake"}
  BY <1>0 DEF StepOf, Contexts
<1>2. ASSUME NEW y \in Contexts PROVE ContextOK(y)'
  <2>1. CASE y = x
    BY <2>1
  <2>2. CASE y # x
    <3>1. pc'[y] = pc[y] /\ frame'[y] = frame[y] /\ mqmsg'[y] = mqmsg[y]
      BY <2>2 DEF StepOf
    <3> QED BY <3>1, <1>0 DEF ContextOK
  <2> QED BY <2>1, <2>2
<1>3. ASSUME NEW u \in Tasks PROVE TaskOK(u)'
  <2>1. CASE u = x
    BY <2>1
  <2>2. CASE u # x
    <3>1. /\ pc'[u] = pc[u] /\ frame'[u] = frame[u]
          /\ \/ task_state'[u] = "READY"
             \/ task_state'[u] = task_state[u] /\ msgwaitq'[u] = msgwaitq[u]
          /\ waitdog'[u] => waitdog[u]
      BY <2>2 DEF StepOf, Contexts
    <3> QED BY <3>1, <1>0 DEF TaskOK, InMqWait
  <2> QED BY <2>1, <2>2
<1> QED BY <1>1, <1>2, <1>3 DEF CallsConsistent, ContextOK, TaskOK

(***************************************************************************)
(* Waking a task or cancelling its wait leaves every other task alone.     *)
(***************************************************************************)
LEMMA WakeTouches ==
  ASSUME WaitTypes, NEW q, NEW u \in Tasks, WakeNotFull(q) \/ WakeNotEmpty(q)
  PROVE  \/ task_state'[u] = "READY"
         \/ task_state'[u] = task_state[u] /\ msgwaitq'[u] = msgwaitq[u]
BY DEF WaitTypes, WakeNotFull, WakeNotEmpty

(***************************************************************************)
(* nxmq_wait_irq touches the wait of its task only.                        *)
(***************************************************************************)
LEMMA WaitIrqTouches ==
  ASSUME WaitTypes, NEW t \in Tasks, NEW u \in Tasks, NEW code, nxmq_wait_irq(t, code)
  PROVE  \/ task_state'[u] = "READY"
         \/ task_state'[u] = task_state[u] /\ msgwaitq'[u] = msgwaitq[u]
BY DEF WaitTypes, nxmq_wait_irq

(***************************************************************************)
(* The steps of a send keep CallsConsistent.                               *)
(***************************************************************************)
LEMMA SendCallsKept ==
  ASSUME Inv, NEW x \in Contexts, SendStep(x)
  PROVE  CallsConsistent'
<1>0. WaitTypes /\ CallTypes /\ CallsConsistent /\ ContextOK(x)
  BY TypeSplit, CallsSplit DEF Inv
<1>1. /\ pc[x] \in {"alloc", "heap", "insert", "ntest", "ntake", "nsend", "wake"}
      /\ UNCHANGED waitdog
      /\ x \in Tasks => TaskOK(x) /\ task_state[x] = "READY"
  <2>1. x \in Tasks => x # ISR /\ TaskOK(x)
    BY <1>0, CallsSplit, ContextsDiffer
  <2> QED BY <2>1 DEF SendStep, SendAlloc, SendInsert, NotifyTest, NotifyTake,
      NotifySend, SendWake, Steps, CanRun, Ready
<1>2. ASSUME pc'[x] \in {"out", "alloc", "insert", "ntest", "ntake", "nsend", "wake"},
             x \in Tasks => task_state'[x] = "READY"
      PROVE  /\ x \in Tasks => TaskOK(x)'
             /\ x = ISR => pc'[ISR] \in {"out", "alloc", "insert", "ntest", "ntake",
                                         "nsend", "wake"}
  BY <1>0, <1>1, <1>2 DEF TaskOK, InMqWait
<1>3. CASE SendAlloc(x)
  <2>1. StepOf(x) /\ (x \in Tasks => task_state'[x] = "READY")
    BY <1>0, <1>1, <1>3 DEF SendAlloc, StepOf, Return, Goto, CallTypes, waitVars
  <2>2. ContextOK(x)' /\ pc'[x] \in {"out", "insert"}
    <3>1. CASE Return(x, "ENOMEM")
      BY <1>0, <1>3, <3>1 DEF SendAlloc, Return, Goto, CallTypes, ContextOK, SendPcs, RecvPcs
    <3>2. CASE \E type \in nxmq_alloc_msg(x) : type # "NULL"
                 /\ mqmsg' = [mqmsg EXCEPT ![x] = NewMessage(x, type, frame[x].prio)]
                 /\ Goto(x, "insert") /\ UNCHANGED frame
      <4>1. PICK type \in nxmq_alloc_msg(x) : type # "NULL"
                 /\ mqmsg' = [mqmsg EXCEPT ![x] = NewMessage(x, type, frame[x].prio)]
                 /\ Goto(x, "insert") /\ UNCHANGED frame
        BY <3>2
      <4>2. type \in {"FIXED", "IRQ", "DYN"}
        BY <4>1, PoolTypes DEF Inv
      <4>3. NewMessage(x, type, frame[x].prio) # NONE
        BY <1>0, <1>3, <4>2, MessageFacts DEF SendAlloc, ContextOK
      <4> QED BY <1>0, <1>3, <4>1, <4>3
              DEF SendAlloc, Goto, CallTypes, ContextOK, SendPcs, RecvPcs
    <3> QED BY <1>3, <3>1, <3>2 DEF SendAlloc
  <2> QED BY <1>0, <1>2, <2>1, <2>2, StepOfKeepsCalls
<1>4. CASE SendInsert(x)
  <2>1. /\ pc' = [pc EXCEPT ![x] = "ntest"] /\ mqmsg' = [mqmsg EXCEPT ![x] = NONE]
        /\ UNCHANGED <<frame, waitVars>> /\ pc[x] = "insert"
    BY <1>4 DEF SendInsert, Goto
  <2>2. StepOf(x) /\ (x \in Tasks => task_state'[x] = "READY")
    BY <1>0, <1>1, <2>1 DEF StepOf, CallTypes, waitVars
  <2>3. ContextOK(x)' /\ pc'[x] = "ntest"
    BY <1>0, <2>1 DEF CallTypes, ContextOK, SendPcs, RecvPcs
  <2> QED BY <1>0, <1>2, <2>2, <2>3, StepOfKeepsCalls
<1>5. CASE NotifyTest(x)
  <2>1. /\ pc' = [pc EXCEPT ![x] = pc'[x]] /\ pc'[x] \in {"ntake", "wake"}
        /\ UNCHANGED <<frame, mqmsg, waitVars>> /\ pc[x] = "ntest"
    BY <1>0, <1>5 DEF NotifyTest, Goto, CallTypes
  <2>2. StepOf(x) /\ (x \in Tasks => task_state'[x] = "READY")
    BY <1>0, <1>1, <2>1 DEF StepOf, CallTypes, waitVars
  <2>3. ContextOK(x)'
    BY <1>0, <2>1 DEF CallTypes, ContextOK, SendPcs, RecvPcs
  <2> QED BY <1>0, <1>2, <2>1, <2>2, <2>3, StepOfKeepsCalls
<1>6. CASE NotifyTake(x)
  <2>1. /\ pc' = [pc EXCEPT ![x] = "nsend"] /\ UNCHANGED <<mqmsg, waitVars>>
        /\ frame' = [frame EXCEPT ![x] = [frame[x] EXCEPT !.pid = ntpid[frame[x].q]]]
        /\ pc[x] = "ntake"
    BY <1>6 DEF NotifyTake, Goto
  <2>2. StepOf(x) /\ (x \in Tasks => task_state'[x] = "READY")
    BY <1>0, <1>1, <2>1 DEF StepOf, CallTypes, waitVars
  <2>3. frame'[x].q = frame[x].q
    <3>1. frame[x] \in Frames /\ frame'[x] = [frame[x] EXCEPT !.pid = ntpid[frame[x].q]]
      BY <1>0, <2>1 DEF CallTypes
    <3> QED BY <3>1 DEF Frames
  <2>4. ContextOK(x)' /\ pc'[x] = "nsend"
    BY <1>0, <2>1, <2>3 DEF CallTypes, ContextOK, SendPcs, RecvPcs
  <2> QED BY <1>0, <1>2, <2>2, <2>4, StepOfKeepsCalls
<1>7. CASE NotifySend(x)
  <2>1. /\ pc' = [pc EXCEPT ![x] = "wake"] /\ UNCHANGED <<frame, mqmsg>>
        /\ pc[x] = "nsend"
    BY <1>7 DEF NotifySend, Goto
  <2>2. ASSUME NEW u \in Tasks
        PROVE  \/ task_state'[u] = "READY"
               \/ task_state'[u] = task_state[u] /\ msgwaitq'[u] = msgwaitq[u]
    <3> DEFINE p == frame[x].pid
    <3>1. CASE p # NONE /\ p \in Signalable /\ InMqWait(p)
      <4>1. nxmq_wait_irq(p, "EINTR") /\ p \in Tasks
        BY <1>7, <3>1, CallersAreTasks DEF NotifySend
      <4> HIDE DEF p
      <4> QED BY <1>0, <4>1, WaitIrqTouches
    <3>2. CASE ~(p # NONE /\ p \in Signalable /\ InMqWait(p))
      BY <1>7, <3>2 DEF NotifySend, waitVars
    <3> QED BY <3>1, <3>2
  <2>3. StepOf(x) /\ (x \in Tasks => task_state'[x] = "READY")
    BY <1>0, <1>1, <2>1, <2>2 DEF StepOf, CallTypes
  <2>4. ContextOK(x)' /\ pc'[x] = "wake"
    BY <1>0, <2>1 DEF CallTypes, ContextOK, SendPcs, RecvPcs
  <2> QED BY <1>0, <1>2, <2>3, <2>4, StepOfKeepsCalls
<1>8. CASE SendWake(x)
  <2>1. Return(x, "OK") /\ WakeNotEmpty(frame[x].q)
    BY <1>8 DEF SendWake
  <2>2. ASSUME NEW u \in Tasks
        PROVE  \/ task_state'[u] = "READY"
               \/ task_state'[u] = task_state[u] /\ msgwaitq'[u] = msgwaitq[u]
    BY <1>0, <2>1, WakeTouches
  <2>3. StepOf(x) /\ (x \in Tasks => task_state'[x] = "READY")
    BY <1>0, <1>1, <2>1, <2>2 DEF StepOf, CallTypes, Return, Goto
  <2>4. ContextOK(x)' /\ pc'[x] = "out"
    BY <1>0, <2>1 DEF CallTypes, ContextOK, Return, Goto, SendPcs, RecvPcs
  <2> QED BY <1>0, <1>2, <2>3, <2>4, StepOfKeepsCalls
<1> QED BY <1>3, <1>4, <1>5, <1>6, <1>7, <1>8 DEF SendStep

(***************************************************************************)
(* A return, and a task that blocks, leave consistent calls behind.        *)
(***************************************************************************)
LEMMA ReturnKeepsCalls ==
  ASSUME Inv, NEW t \in Tasks, NEW code, Return(t, code), UNCHANGED waitVars,
         task_state[t] = "READY", ~waitdog'[t],
         \A u \in Tasks \ {t} : waitdog'[u] = waitdog[u]
  PROVE  CallsConsistent'
<1>0. CallTypes /\ CallsConsistent /\ t \in Contexts /\ t # ISR
  BY TypeSplit, ContextsDiffer DEF Inv, Contexts
<1>1. StepOf(t)
  BY <1>0 DEF StepOf, Return, Goto, CallTypes, waitVars
<1>2. ContextOK(t)' /\ TaskOK(t)'
  BY <1>0 DEF ContextOK, TaskOK, InMqWait, Return, Goto, CallTypes, SendPcs,
     RecvPcs, waitVars
<1> QED BY <1>0, <1>1, <1>2, StepOfKeepsCalls

(***************************************************************************)
(* A task that blocks waits inside a call and for the queue of the call.   *)
(***************************************************************************)
LEMMA BlockKeepsCalls ==
  ASSUME Inv, NEW t \in Tasks, NEW q \in Queues,
         \/ BlockNotFull(t, q) /\ pc'[t] = "wait_send"
         \/ BlockNotEmpty(t, q) /\ pc'[t] = "wait_recv",
         frame'[t].q = q, ContextOK(t)',
         \A y \in Contexts \ {t} : pc'[y] = pc[y] /\ frame'[y] = frame[y],
         mqmsg' = mqmsg,
         \A u \in Tasks \ {t} : waitdog'[u] = waitdog[u]
  PROVE  CallsConsistent'
<1>0. WaitTypes /\ CallTypes /\ CallsConsistent /\ t \in Contexts /\ t # ISR
  BY TypeSplit, ContextsDiffer DEF Inv, Contexts
<1>1. StepOf(t)
  BY <1>0 DEF StepOf, BlockNotFull, BlockNotEmpty, WaitTypes
<1>2. TaskOK(t)'
  BY <1>0 DEF TaskOK, InMqWait, BlockNotFull, BlockNotEmpty, WaitTypes
<1> QED BY <1>0, <1>1, <1>2, StepOfKeepsCalls

(***************************************************************************)
(* The calls a task makes keep CallsConsistent.                            *)
(***************************************************************************)
LEMMA CallCallsKept ==
  ASSUME Inv, NEW t \in Tasks, Call(t)
  PROVE  CallsConsistent'
<1>0. /\ WaitTypes /\ QueueTypes /\ CallTypes /\ CallsConsistent
      /\ ContextOK(t) /\ TaskOK(t)
      /\ t \in Contexts /\ t # ISR
  BY TypeSplit, CallsSplit, ContextsDiffer DEF Inv, Contexts
<1>1. ASSUME UNCHANGED <<waitVars, waitdog, pc, frame, mqmsg>> PROVE CallsConsistent'
  BY <1>0, <1>1 DEF CallsConsistent, InMqWait, waitVars
<1>2. ASSUME CanRun(t), pc[t] = "out"
      PROVE  task_state[t] = "READY" /\ ~waitdog[t] /\ mqmsg[t] = NONE
  BY <1>0, <1>2 DEF CanRun, Ready, TaskOK, ContextOK
<1>3. ASSUME NEW oflags \in OFlags, NEW q \in Queues, NEW prio \in MsgPrios,
             MqSend(t, q, oflags, prio)
      PROVE  CallsConsistent'
  <2> DEFINE f == [NoFrame EXCEPT !.q = q, !.prio = prio]
  <2>1. f.q = q /\ f.prio = prio /\ f.timed = FALSE
    BY DEF NoFrame
  <2>2. task_state[t] = "READY" /\ ~waitdog[t] /\ mqmsg[t] = NONE /\ UNCHANGED waitdog
    BY <1>2, <1>3 DEF MqSend
  <2> HIDE DEF f
  <2>3. CASE /\ Goto(t, "alloc") /\ frame' = [frame EXCEPT ![t] = f]
             /\ UNCHANGED <<waitVars, mqmsg>>
    <3>1. StepOf(t)
      BY <1>0, <2>2, <2>3 DEF StepOf, Goto, CallTypes, waitVars
    <3>2. ContextOK(t)' /\ TaskOK(t)'
      BY <1>0, <2>1, <2>2, <2>3 DEF ContextOK, TaskOK, InMqWait, Goto, CallTypes, waitVars
    <3> QED BY <1>0, <3>1, <3>2, StepOfKeepsCalls
  <2>4. CASE Return(t, "EAGAIN") /\ UNCHANGED waitVars
    BY <2>2, <2>4, ReturnKeepsCalls
  <2>5. CASE /\ BlockNotFull(t, q) /\ Goto(t, "wait_send")
             /\ frame' = [frame EXCEPT ![t] = f] /\ UNCHANGED mqmsg
    <3>1. /\ pc'[t] = "wait_send" /\ frame'[t] = f
          /\ \A y \in Contexts \ {t} : pc'[y] = pc[y] /\ frame'[y] = frame[y]
      BY <1>0, <2>5 DEF Goto, CallTypes
    <3>2. ContextOK(t)'
      BY <2>1, <2>2, <2>5, <3>1 DEF ContextOK
    <3> QED BY <2>1, <2>2, <2>5, <3>1, <3>2, BlockKeepsCalls
  <2> QED BY <1>3, <2>3, <2>4, <2>5 DEF MqSend, f
<1>4. ASSUME NEW oflags \in OFlags, NEW q \in Queues, NEW prio \in MsgPrios,
             MqTimedSend(t, q, oflags, prio)
      PROVE  CallsConsistent'
  <2> DEFINE f == [q |-> q, prio |-> prio, timed |-> TRUE, pid |-> NONE]
  <2>1. task_state[t] = "READY" /\ ~waitdog[t] /\ UNCHANGED <<waitdog, waitVars>>
    BY <1>2, <1>4 DEF MqTimedSend
  <2>2. CASE UNCHANGED <<pc, frame, mqmsg>>
    BY <1>1, <2>1, <2>2
  <2>3. CASE \E type \in nxmq_alloc_msg(t) :
               /\ type # "NULL"
               /\ mqmsg' = [mqmsg EXCEPT ![t] = NewMessage(t, type, prio)]
               /\ frame' = [frame EXCEPT ![t] = f] /\ Goto(t, "tstart")
    <3>1. PICK type \in nxmq_alloc_msg(t) :
               /\ type # "NULL"
               /\ mqmsg' = [mqmsg EXCEPT ![t] = NewMessage(t, type, prio)]
               /\ frame' = [frame EXCEPT ![t] = f] /\ Goto(t, "tstart")
      BY <2>3
    <3>2. f.q = q /\ f.prio = prio /\ f.timed = TRUE
      OBVIOUS
    <3>3. type \in {"FIXED", "IRQ", "DYN"}
      BY <1>0, <3>1, PoolTypes DEF Inv
    <3>4. NewMessage(t, type, prio) # NONE
      BY <1>0, <3>3, MessageFacts
    <3> HIDE DEF f
    <3>5. StepOf(t)
      BY <1>0, <2>1, <3>1 DEF StepOf, Goto, CallTypes, waitVars
    <3>6. ContextOK(t)' /\ TaskOK(t)'
      BY <1>0, <2>1, <3>1, <3>2, <3>4
      DEF ContextOK, TaskOK, InMqWait, Goto, CallTypes, waitVars
    <3> QED BY <1>0, <3>5, <3>6, StepOfKeepsCalls
  <2> QED BY <1>4, <2>2, <2>3 DEF MqTimedSend
<1>5. ASSUME NEW oflags \in OFlags, NEW q \in Queues, NEW timed \in BOOLEAN,
             NEW time \in Times, ReceiveStart(t, q, oflags, timed, time)
      PROVE  CallsConsistent'
  <2> DEFINE f == [NoFrame EXCEPT !.q = q, !.timed = timed]
  <2>1. f.q = q
    BY DEF NoFrame
  <2>2. task_state[t] = "READY" /\ ~waitdog[t] /\ mqmsg[t] = NONE
    BY <1>2, <1>5 DEF ReceiveStart
  <2> HIDE DEF f
  <2>3. CASE \E code : Return(t, code) /\ UNCHANGED <<waitVars, waitdog>>
    BY <2>2, <2>3, ReturnKeepsCalls
  <2>4. CASE /\ msglist[q] # <<>> /\ TakeMessage(t, q)
             /\ frame' = [frame EXCEPT ![t] = f] /\ UNCHANGED <<waitVars, waitdog>>
    <3>1. Head(msglist[q]) # NONE
      <4>1. msglist[q] \in Seq(Messages)
        BY <1>0 DEF QueueTypes
      <4>2. Head(msglist[q]) \in Messages
        BY <2>4, <4>1, HeadTailProperties
      <4> QED BY <4>2, NullIsNoMessage
    <3>2. StepOf(t)
      BY <1>0, <2>2, <2>4 DEF StepOf, TakeMessage, Goto, CallTypes, waitVars
    <3>3. ContextOK(t)' /\ TaskOK(t)'
      BY <1>0, <2>1, <2>2, <2>4, <3>1
      DEF ContextOK, TaskOK, InMqWait, TakeMessage, Goto, CallTypes, waitVars
    <3> QED BY <1>0, <3>2, <3>3, StepOfKeepsCalls
  <2>5. CASE /\ waitdog' = [waitdog EXCEPT ![t] = timed]
             /\ BlockNotEmpty(t, q) /\ Goto(t, "wait_recv")
             /\ frame' = [frame EXCEPT ![t] = f] /\ UNCHANGED mqmsg
    <3>1. /\ pc'[t] = "wait_recv" /\ frame'[t] = f
          /\ \A y \in Contexts \ {t} : pc'[y] = pc[y] /\ frame'[y] = frame[y]
          /\ \A u \in Tasks \ {t} : waitdog'[u] = waitdog[u]
      BY <1>0, <2>5 DEF Goto, CallTypes
    <3>2. ContextOK(t)'
      BY <2>1, <2>2, <2>5, <3>1 DEF ContextOK
    <3> QED BY <2>1, <2>5, <3>1, <3>2, BlockKeepsCalls
  <2> QED BY <1>5, <2>3, <2>4, <2>5 DEF ReceiveStart, f
<1>6. ASSUME NEW oflags \in OFlags, NEW fits \in BOOLEAN,
             \/ MqReceiveRejected(t, oflags, fits)
             \/ \E prio \in MsgPrios : MqSendRejected(t, oflags, fits, prio)
      PROVE  CallsConsistent'
  BY <1>1, <1>6 DEF MqReceiveRejected, MqSendRejected
<1>7. ASSUME NEW q \in Queues, NEW attach \in BOOLEAN, NEW goodsigno \in BOOLEAN,
             mq_notify(t, q, attach, goodsigno)
      PROVE  CallsConsistent'
  BY <1>1, <1>7 DEF mq_notify
<1> QED
  <2>1. "OK" \in Times /\ TRUE \in BOOLEAN /\ FALSE \in BOOLEAN
    BY DEF Times
  <2> QED BY <1>3, <1>4, <1>5, <1>6, <1>7, <2>1 DEF Call, MqReceive, MqTimedReceive

(***************************************************************************)
(* So do the other steps of a task that is inside a call.                  *)
(***************************************************************************)
LEMMA TaskCallsKept ==
  ASSUME Inv, NEW t \in Tasks, TaskStep(t)
  PROVE  CallsConsistent'
<1>0. /\ WaitTypes /\ QueueTypes /\ CallTypes /\ CallsConsistent
      /\ ContextOK(t) /\ TaskOK(t)
      /\ t \in Contexts /\ t # ISR
  BY TypeSplit, CallsSplit, ContextsDiffer DEF Inv, Contexts
<1>1. CASE SendStep(t)
  BY <1>0, <1>1, SendCallsKept
<1>2. CASE ResumeSend(t)
  <2> DEFINE q == frame[t].q
  <2>1. task_state[t] = "READY" /\ pc[t] = "wait_send" /\ q \in Queues
    BY <1>0, <1>2 DEF ResumeSend, CanRun, Ready, ContextOK, SendPcs
  <2>2. CASE Return(t, errcode[t]) /\ waitdog' = [waitdog EXCEPT ![t] = FALSE]
             /\ UNCHANGED waitVars
    <3>1. ~waitdog'[t] /\ \A u \in Tasks \ {t} : waitdog'[u] = waitdog[u]
      BY <1>0, <2>2 DEF CallTypes
    <3> QED BY <2>1, <2>2, <3>1, ReturnKeepsCalls
  <2>3. CASE BlockNotFull(t, q) /\ UNCHANGED <<waitdog, callVars>>
    <3>1. UNCHANGED <<waitdog, pc, frame, mqmsg>>
      BY <2>3 DEF callVars
    <3>2. ContextOK(t)' /\ pc'[t] = "wait_send" /\ frame'[t].q = q
      BY <1>0, <2>1, <3>1 DEF ContextOK
    <3> QED BY <2>1, <2>3, <3>1, <3>2, BlockKeepsCalls
  <2>4. CASE /\ Goto(t, IF frame[t].timed THEN "insert" ELSE "alloc")
             /\ waitdog' = [waitdog EXCEPT ![t] = FALSE]
             /\ UNCHANGED <<waitVars, frame, mqmsg>>
    <3>1. StepOf(t)
      BY <1>0, <2>1, <2>4 DEF StepOf, Goto, CallTypes, waitVars
    <3>2. ContextOK(t)' /\ TaskOK(t)'
      BY <1>0, <2>1, <2>4
      DEF ContextOK, TaskOK, InMqWait, Goto, CallTypes, waitVars
    <3> QED BY <1>0, <3>1, <3>2, StepOfKeepsCalls
  <2> QED BY <1>2, <2>2, <2>3, <2>4 DEF ResumeSend
<1>3. CASE ResumeReceive(t)
  <2> DEFINE q == frame[t].q
  <2>1. task_state[t] = "READY" /\ pc[t] = "wait_recv" /\ q \in Queues
    BY <1>0, <1>3 DEF ResumeReceive, CanRun, Ready, ContextOK, RecvPcs
  <2>2. CASE Return(t, errcode[t]) /\ waitdog' = [waitdog EXCEPT ![t] = FALSE]
             /\ UNCHANGED waitVars
    <3>1. ~waitdog'[t] /\ \A u \in Tasks \ {t} : waitdog'[u] = waitdog[u]
      BY <1>0, <2>2 DEF CallTypes
    <3> QED BY <2>1, <2>2, <3>1, ReturnKeepsCalls
  <2>3. CASE BlockNotEmpty(t, q) /\ UNCHANGED <<waitdog, callVars>>
    <3>1. UNCHANGED <<waitdog, pc, frame, mqmsg>>
      BY <2>3 DEF callVars
    <3>2. ContextOK(t)' /\ pc'[t] = "wait_recv" /\ frame'[t].q = q
      BY <1>0, <2>1, <3>1 DEF ContextOK
    <3> QED BY <2>1, <2>3, <3>1, <3>2, BlockKeepsCalls
  <2>4. CASE /\ msglist[q] # <<>> /\ TakeMessage(t, q)
             /\ waitdog' = [waitdog EXCEPT ![t] = FALSE]
             /\ UNCHANGED <<waitVars, frame>>
    <3>1. Head(msglist[q]) # NONE
      <4>1. msglist[q] \in Seq(Messages)
        BY <1>0, <2>1 DEF QueueTypes
      <4>2. Head(msglist[q]) \in Messages
        BY <2>4, <4>1, HeadTailProperties
      <4> QED BY <4>2, NullIsNoMessage
    <3>2. StepOf(t)
      BY <1>0, <2>1, <2>4 DEF StepOf, TakeMessage, Goto, CallTypes, waitVars
    <3>3. ContextOK(t)' /\ TaskOK(t)'
      BY <1>0, <2>1, <2>4, <3>1
      DEF ContextOK, TaskOK, InMqWait, TakeMessage, Goto, CallTypes, waitVars
    <3> QED BY <1>0, <3>2, <3>3, StepOfKeepsCalls
  <2> QED BY <1>3, <2>2, <2>3, <2>4 DEF ResumeReceive
<1>4. ASSUME NEW nonblock \in BOOLEAN, NEW time \in Times,
             TimedSendStart(t, nonblock, time)
      PROVE  CallsConsistent'
  <2> DEFINE q == frame[t].q
  <2>1. /\ task_state[t] = "READY" /\ pc[t] = "tstart" /\ q \in Queues
        /\ ~waitdog[t] /\ mqmsg[t] # NONE
    BY <1>0, <1>4 DEF TimedSendStart, CanRun, Ready, ContextOK, TaskOK, SendPcs
  <2>2. CASE \E code : Return(t, code) /\ UNCHANGED <<waitVars, waitdog>>
    BY <2>1, <2>2, ReturnKeepsCalls
  <2>3. CASE Goto(t, "insert") /\ UNCHANGED <<waitVars, waitdog, frame, mqmsg>>
    <3>1. StepOf(t)
      BY <1>0, <2>1, <2>3 DEF StepOf, Goto, CallTypes, waitVars
    <3>2. ContextOK(t)' /\ TaskOK(t)'
      BY <1>0, <2>1, <2>3
      DEF ContextOK, TaskOK, InMqWait, Goto, CallTypes, waitVars
    <3> QED BY <1>0, <3>1, <3>2, StepOfKeepsCalls
  <2>4. CASE /\ waitdog' = [waitdog EXCEPT ![t] = TRUE] /\ BlockNotFull(t, q)
             /\ Goto(t, "wait_send") /\ UNCHANGED <<frame, mqmsg>>
    <3>1. /\ pc'[t] = "wait_send" /\ frame'[t].q = q
          /\ \A y \in Contexts \ {t} : pc'[y] = pc[y] /\ frame'[y] = frame[y]
          /\ \A u \in Tasks \ {t} : waitdog'[u] = waitdog[u]
      BY <1>0, <2>4 DEF Goto, CallTypes
    <3>2. ContextOK(t)'
      BY <1>0, <2>1, <2>4, <3>1 DEF ContextOK
    <3> QED BY <2>1, <2>4, <3>1, <3>2, BlockKeepsCalls
  <2> QED BY <1>4, <2>2, <2>3, <2>4 DEF TimedSendStart
<1>5. CASE ReceiveFree(t)
  <2>1. /\ task_state[t] = "READY" /\ pc[t] \in {"free", "hfree"} /\ ~waitdog[t]
        /\ Goto(t, "check") /\ mqmsg' = [mqmsg EXCEPT ![t] = NONE]
        /\ UNCHANGED <<waitVars, waitdog, frame>>
    BY <1>0, <1>5 DEF ReceiveFree, CanRun, Ready, TaskOK
  <2>2. StepOf(t)
    BY <1>0, <2>1 DEF StepOf, Goto, CallTypes, waitVars
  <2>3. ContextOK(t)' /\ TaskOK(t)'
    BY <1>0, <2>1
    DEF ContextOK, TaskOK, InMqWait, Goto, CallTypes, waitVars, SendPcs, RecvPcs
  <2> QED BY <1>0, <2>2, <2>3, StepOfKeepsCalls
<1>6. CASE ReceiveCheck(t)
  <2>1. /\ task_state[t] = "READY" /\ pc[t] = "check" /\ ~waitdog[t]
        /\ UNCHANGED <<waitVars, waitdog>>
    BY <1>0, <1>6 DEF ReceiveCheck, CanRun, Ready, TaskOK
  <2>2. CASE Return(t, "OK")
    BY <2>1, <2>2, ReturnKeepsCalls
  <2>3. CASE Goto(t, "wakenf") /\ UNCHANGED <<frame, mqmsg>>
    <3>1. StepOf(t)
      BY <1>0, <2>1, <2>3 DEF StepOf, Goto, CallTypes, waitVars
    <3>2. ContextOK(t)' /\ TaskOK(t)'
      BY <1>0, <2>1, <2>3
      DEF ContextOK, TaskOK, InMqWait, Goto, CallTypes, waitVars, SendPcs, RecvPcs
    <3> QED BY <1>0, <3>1, <3>2, StepOfKeepsCalls
  <2> QED BY <1>6, <2>2, <2>3 DEF ReceiveCheck
<1>7. CASE ReceiveWake(t)
  <2>1. /\ task_state[t] = "READY" /\ pc[t] = "wakenf" /\ ~waitdog[t]
        /\ UNCHANGED waitdog /\ Return(t, "OK") /\ WakeNotFull(frame[t].q)
    BY <1>0, <1>7 DEF ReceiveWake, CanRun, Ready, TaskOK
  <2>2. ASSUME NEW u \in Tasks
        PROVE  \/ task_state'[u] = "READY"
               \/ task_state'[u] = task_state[u] /\ msgwaitq'[u] = msgwaitq[u]
    BY <1>0, <2>1, WakeTouches
  <2>3. StepOf(t) /\ task_state'[t] = "READY"
    BY <1>0, <2>1, <2>2 DEF StepOf, CallTypes, Return, Goto
  <2>4. ContextOK(t)' /\ TaskOK(t)'
    BY <1>0, <2>1, <2>3
    DEF CallTypes, ContextOK, TaskOK, InMqWait, Return, Goto, SendPcs, RecvPcs
  <2> QED BY <1>0, <2>3, <2>4, StepOfKeepsCalls
<1>8. CASE HeapWait(t)
  <2>1. /\ task_state[t] = "READY" /\ ~waitdog[t]
        /\ \/ pc[t] = "alloc" /\ Goto(t, "heap")
           \/ pc[t] = "free" /\ Goto(t, "hfree")
        /\ UNCHANGED <<waitVars, waitdog, frame, mqmsg>>
    BY <1>0, <1>8 DEF HeapWait, CanRun, Ready, TaskOK
  <2>2. StepOf(t)
    BY <1>0, <2>1 DEF StepOf, Goto, CallTypes, waitVars
  <2>3. ContextOK(t)' /\ TaskOK(t)'
    BY <1>0, <2>1
    DEF ContextOK, TaskOK, InMqWait, Goto, CallTypes, waitVars, SendPcs, RecvPcs
  <2> QED BY <1>0, <2>2, <2>3, StepOfKeepsCalls
<1> QED BY <1>1, <1>2, <1>3, <1>4, <1>5, <1>6, <1>7, <1>8 DEF TaskStep

(***************************************************************************)
(* So does every step.                                                     *)
(***************************************************************************)
LEMMA CallsStep ==
  ASSUME Inv, [Next]_vars
  PROVE  CallsConsistent'
<1>0. /\ WaitTypes /\ QueueTypes /\ CallTypes /\ CallsConsistent
      /\ ISR \in Contexts /\ ISR \notin Tasks /\ ContextOK(ISR)
  BY TypeSplit, CallsSplit, ContextsDiffer DEF Inv, Contexts
<1>1. ASSUME NEW t \in Tasks, Call(t) PROVE CallsConsistent'
  BY <1>1, CallCallsKept
<1>2. ASSUME NEW t \in Tasks, TaskStep(t) PROVE CallsConsistent'
  BY <1>2, TaskCallsKept
<1>3. ASSUME NEW q \in Queues, NEW prio \in MsgPrios, IsrSend(q, prio)
      PROVE  CallsConsistent'
  <2> DEFINE f == [NoFrame EXCEPT !.q = q, !.prio = prio]
  <2>1. f.q = q /\ f.prio = prio
    BY FrameFacts
  <2>2. /\ frame' = [frame EXCEPT ![ISR] = f] /\ Goto(ISR, "alloc")
        /\ pc[ISR] = "out" /\ UNCHANGED <<waitVars, waitdog, mqmsg>>
    BY <1>3 DEF IsrSend, Running
  <2> HIDE DEF f
  <2>3. StepOf(ISR) /\ pc'[ISR] = "alloc"
    BY <1>0, <2>2 DEF StepOf, Goto, CallTypes, waitVars
  <2>4. ContextOK(ISR)'
    BY <1>0, <2>1, <2>2 DEF ContextOK, Goto, CallTypes
  <2> QED BY <1>0, <2>3, <2>4, StepOfKeepsCalls
<1>4. CASE SendStep(ISR)
  BY <1>0, <1>4, SendCallsKept
<1>5. ASSUME NEW t \in Tasks, WaitTimeout(t) \/ SignalTask(t) PROVE CallsConsistent'
  <2>1. /\ UNCHANGED <<pc, frame, mqmsg>>
        /\ UNCHANGED waitdog \/ waitdog' = [waitdog EXCEPT ![t] = FALSE]
        /\ UNCHANGED waitVars \/ \E code : nxmq_wait_irq(t, code)
    BY <1>5 DEF WaitTimeout, SignalTask, callVars
  <2>2. ASSUME NEW u \in Tasks
        PROVE  \/ task_state'[u] = "READY"
               \/ task_state'[u] = task_state[u] /\ msgwaitq'[u] = msgwaitq[u]
    <3>1. CASE UNCHANGED waitVars
      BY <3>1 DEF waitVars
    <3>2. CASE \E code : nxmq_wait_irq(t, code)
      BY <1>0, <3>2, WaitIrqTouches
    <3> QED BY <2>1, <3>1, <3>2
  <2>3. StepOf(ISR)
    BY <1>0, <2>1, <2>2 DEF StepOf, CallTypes
  <2>4. ContextOK(ISR)' /\ pc'[ISR] = pc[ISR]
    BY <1>0, <2>1 DEF ContextOK
  <2> QED BY <1>0, <2>3, <2>4, StepOfKeepsCalls DEF CallsConsistent
<1>6. ASSUME NEW t \in Tasks, TaskTerminate(t) PROVE CallsConsistent'
  <2>1. /\ pc' = [pc EXCEPT ![t] = "removed"] /\ t \in Contexts
        /\ UNCHANGED <<frame, mqmsg, task_state, msgwaitq, waitdog>>
    BY <1>6 DEF TaskTerminate, Goto, Contexts
  <2>2. StepOf(t) /\ t # ISR
    BY <1>0, <2>1 DEF StepOf, CallTypes
  <2>3. ContextOK(t)' /\ TaskOK(t)'
    <3>1. ContextOK(t) /\ TaskOK(t)
      BY <1>0, <2>1, CallsSplit
    <3> QED BY <1>0, <2>1, <3>1
            DEF ContextOK, TaskOK, InMqWait, CallTypes, SendPcs, RecvPcs
  <2> QED BY <1>0, <2>1, <2>2, <2>3, StepOfKeepsCalls
<1>7. ASSUME NEW t \in Tasks, TaskRecover(t) PROVE CallsConsistent'
  <2>1. /\ pc' = [pc EXCEPT ![t] = "dead"] /\ t \in Contexts
        /\ task_state' = [task_state EXCEPT ![t] = "INVALID"]
        /\ msgwaitq' = [msgwaitq EXCEPT ![t] = NONE]
        /\ waitdog' = [waitdog EXCEPT ![t] = FALSE]
        /\ UNCHANGED <<frame, mqmsg>>
    BY <1>7 DEF TaskRecover, Goto, Contexts
  <2>2. StepOf(t) /\ t # ISR
    BY <1>0, <2>1 DEF StepOf, CallTypes, WaitTypes
  <2>3. ContextOK(t)' /\ TaskOK(t)'
    BY <1>0, <2>1
    DEF ContextOK, TaskOK, InMqWait, CallTypes, WaitTypes, SendPcs, RecvPcs
  <2> QED BY <1>0, <2>1, <2>2, <2>3, StepOfKeepsCalls
<1>8. CASE UNCHANGED vars
  BY <1>0, <1>8 DEF CallsConsistent, InMqWait, vars, waitVars, callVars
<1> QED BY <1>1, <1>2, <1>3, <1>4, <1>5, <1>6, <1>7, <1>8 DEF Next, Halted

(***************************************************************************)
(* The inductive invariant: TypeOK is not inductive alone, because a send  *)
(* or a wake-up uses the queue and the message that its call recorded some *)
(* steps before, and CallsConsistent is what says they are there.          *)
(***************************************************************************)
LEMMA InvInit == Init => Inv
<1> SUFFICES ASSUME Init PROVE Inv
  OBVIOUS
<1>1. NoFrame \in Frames
  BY DEF NoFrame, Frames
<1>2. TypeOK
  BY <1>1, AttributesAreNumbers DEF Init, TypeOK, PcStates, Codes
<1>3. CallsConsistent
  BY DEF Init, CallsConsistent, Contexts, InMqWait, SendPcs, RecvPcs
<1> QED BY <1>2, <1>3 DEF Inv

(***************************************************************************)
(* The inductive invariant Inv, TypeOK with CallsConsistent, holds in every*)
(* reachable state: each handler finds the queue, the message and the wait *)
(* state that the place in its call promises.                              *)
(***************************************************************************)
THEOREM InvAlways == Spec => []Inv
<1>1. Inv /\ [Next]_vars => Inv'
  BY TypeStep, CallsStep DEF Inv
<1> QED BY <1>1, InvInit, PTL DEF Spec

(***************************************************************************)
(* Every variable of the message queues keeps its type: in particular no   *)
(* message is taken from an empty free list, and a wake-up only ever picks *)
(* a task out of a wait list.                                              *)
(***************************************************************************)
THEOREM TypeCorrect == Spec => []TypeOK
BY InvAlways, PTL DEF Inv

(***************************************************************************)
(* What a task holds and waits for always fits the place where it is in a  *)
(* call, whatever timeouts, signals, interrupts and deletions come.        *)
(***************************************************************************)
THEOREM CallsCorrect == Spec => []CallsConsistent
BY InvAlways, PTL DEF Inv

-----------------------------------------------------------------------------
(***************************************************************************)
(* The lists of the message queues.  First the tasks that wait: the wait   *)
(* lists, the counters of waiting tasks and the choice of the task to      *)
(* wake.  Then the messages: their order, and that the queues implement    *)
(* PriorityChannel.                                                        *)
(***************************************************************************)

(***************************************************************************)
(* What a step may do to the waits of tasks.  Every action is of one of    *)
(* six kinds; the theorems below look at these only.                       *)
(***************************************************************************)
RemovedKept == \A u \in Tasks : pc'[u] = "removed" <=> pc[u] = "removed"

NoWaitEffect == UNCHANGED waitVars /\ RemovedKept
Blocks(t, q) ==
    /\ BlockNotFull(t, q) \/ BlockNotEmpty(t, q)
    /\ task_state[t] = "READY" /\ pc[t] # "removed" /\ RemovedKept
Wakes(q) ==
    (WakeNotFull(q) \/ WakeNotEmpty(q)) /\ UNCHANGED errcode /\ RemovedKept
Cancels(t, code) ==
    nxmq_wait_irq(t, code) /\ InMqWait(t) /\ RemovedKept

(***************************************************************************)
(* Every step has one of these effects.                                    *)
(***************************************************************************)
LEMMA WaitEffects ==
  ASSUME Inv, [Next]_vars
  PROVE  \/ NoWaitEffect
         \/ \E t \in Tasks, q \in Queues : Blocks(t, q)
         \/ \E q \in Queues : Wakes(q)
         \/ \E t \in Tasks, code \in {"EINTR", "ETIMEDOUT"} : Cancels(t, code)
         \/ \E t \in Tasks : TaskTerminate(t) \/ TaskRecover(t)
<1> DEFINE Goal == \/ NoWaitEffect
                   \/ \E t \in Tasks, q \in Queues : Blocks(t, q)
                   \/ \E q \in Queues : Wakes(q)
                   \/ \E t \in Tasks, code \in {"EINTR", "ETIMEDOUT"} : Cancels(t, code)
                   \/ \E t \in Tasks : TaskTerminate(t) \/ TaskRecover(t)
<1> SUFFICES Goal
  OBVIOUS
<1>0. CallTypes /\ CallsConsistent
  BY TypeSplit DEF Inv
<1>a. ASSUME NEW x \in Contexts, NEW l \in PcStates, Goto(x, l), l # "removed",
             pc[x] # "removed"
      PROVE  RemovedKept
  BY <1>0, <1>a DEF Goto, RemovedKept, CallTypes, Contexts
<1>b. ASSUME UNCHANGED pc PROVE RemovedKept
  BY <1>b DEF RemovedKept
<1>c. ASSUME NEW t \in Tasks, CanRun(t)
      PROVE  task_state[t] = "READY" /\ pc[t] # "removed" /\ t \in Contexts
  BY <1>c DEF CanRun, Ready, Contexts
<1>d. /\ SendPcs \subseteq PcStates /\ RecvPcs \subseteq PcStates
      /\ "out" \in PcStates /\ "removed" \notin SendPcs \cup RecvPcs \cup {"out"}
  BY DEF PcStates, SendPcs, RecvPcs
<1>1. ASSUME NEW t \in Tasks, Call(t) PROVE Goal
  <2>1. CASE UNCHANGED <<waitVars, pc>>
    BY <2>1, <1>b DEF NoWaitEffect
  <2>2. ASSUME NEW oflags \in OFlags, NEW q \in Queues, NEW prio \in MsgPrios,
               MqSend(t, q, oflags, prio)
        PROVE  Goal
    <3>1. CanRun(t)
      BY <2>2 DEF MqSend
    <3>2. RemovedKept
      BY <1>a, <1>c, <1>d, <2>2, <3>1 DEF MqSend, Return, SendPcs
    <3>3. UNCHANGED waitVars \/ BlockNotFull(t, q)
      BY <2>2 DEF MqSend
    <3> QED BY <1>c, <3>1, <3>2, <3>3 DEF NoWaitEffect, Blocks
  <2>3. ASSUME NEW oflags \in OFlags, NEW q \in Queues, NEW prio \in MsgPrios,
               MqTimedSend(t, q, oflags, prio)
        PROVE  Goal
    BY <1>a, <1>b, <1>c, <1>d, <2>3 DEF MqTimedSend, NoWaitEffect, SendPcs
  <2>4. ASSUME NEW oflags \in OFlags, NEW q \in Queues, NEW timed \in BOOLEAN,
               NEW time \in Times, ReceiveStart(t, q, oflags, timed, time)
        PROVE  Goal
    <3>1. CanRun(t)
      BY <2>4 DEF ReceiveStart
    <3>2. RemovedKept
      BY <1>a, <1>c, <1>d, <2>4, <3>1 DEF ReceiveStart, TakeMessage, Return, RecvPcs
    <3>3. UNCHANGED waitVars \/ BlockNotEmpty(t, q)
      BY <2>4 DEF ReceiveStart
    <3> QED BY <1>c, <3>1, <3>2, <3>3 DEF NoWaitEffect, Blocks
  <2>5. ASSUME NEW oflags \in OFlags, NEW fits \in BOOLEAN,
               \/ MqReceiveRejected(t, oflags, fits)
               \/ \E prio \in MsgPrios : MqSendRejected(t, oflags, fits, prio)
        PROVE  Goal
    BY <2>1, <2>5 DEF MqReceiveRejected, MqSendRejected
  <2>6. ASSUME NEW q \in Queues, NEW attach \in BOOLEAN, NEW goodsigno \in BOOLEAN,
               mq_notify(t, q, attach, goodsigno)
        PROVE  Goal
    BY <2>1, <2>6 DEF mq_notify
  <2>7. "OK" \in Times /\ TRUE \in BOOLEAN /\ FALSE \in BOOLEAN
    BY DEF Times
  <2> HIDE DEF Goal
  <2> QED BY <1>1, <2>2, <2>3, <2>4, <2>5, <2>6, <2>7 DEF Call, MqReceive, MqTimedReceive
<1>2. ASSUME NEW x \in Contexts, SendStep(x) PROVE Goal
  <2>1. pc[x] \in SendPcs /\ pc[x] # "removed" /\ frame[x].q \in Queues
    BY <1>0, <1>2 DEF SendStep, SendAlloc, SendInsert, NotifyTest, NotifyTake,
       NotifySend, SendWake, SendPcs, CallsConsistent
  <2>2. RemovedKept
    BY <1>2, <1>a, <1>d, <2>1 DEF SendStep, SendAlloc, SendInsert, NotifyTest,
       NotifyTake, NotifySend, SendWake, Return, SendPcs
  <2>3. CASE SendAlloc(x) \/ SendInsert(x) \/ NotifyTest(x) \/ NotifyTake(x)
    BY <2>2, <2>3 DEF NoWaitEffect, SendAlloc, SendInsert, NotifyTest, NotifyTake
  <2>4. CASE NotifySend(x)
    <3> DEFINE p == frame[x].pid
    <3>1. CASE p # NONE /\ p \in Signalable /\ InMqWait(p)
      <4>1. nxmq_wait_irq(p, "EINTR") /\ p \in Tasks
        BY <2>4, <3>1, CallersAreTasks DEF NotifySend
      <4> HIDE DEF p
      <4> QED BY <2>2, <3>1, <4>1 DEF Cancels
    <3>2. CASE ~(p # NONE /\ p \in Signalable /\ InMqWait(p))
      BY <2>2, <2>4, <3>2 DEF NotifySend, NoWaitEffect
    <3> QED BY <3>1, <3>2
  <2>5. CASE SendWake(x)
    BY <2>1, <2>2, <2>5 DEF SendWake, Wakes
  <2> QED BY <1>2, <2>3, <2>4, <2>5 DEF SendStep
<1>3. ASSUME NEW t \in Tasks, TaskStep(t) PROVE Goal
  <2>1. CASE SendStep(t)
    <3>1. t \in Contexts
      BY DEF Contexts
    <3> QED BY <1>2, <2>1, <3>1
  <2>2. CASE ResumeSend(t)
    <3>1. CanRun(t) /\ frame[t].q \in Queues
      BY <1>0, <1>c, <2>2 DEF ResumeSend, CallsConsistent, SendPcs
    <3>2. RemovedKept
      BY <1>a, <1>b, <1>c, <1>d, <2>2, <3>1 DEF ResumeSend, Return, SendPcs, callVars
    <3>3. UNCHANGED waitVars \/ BlockNotFull(t, frame[t].q)
      BY <2>2 DEF ResumeSend
    <3> QED BY <1>c, <3>1, <3>2, <3>3 DEF NoWaitEffect, Blocks
  <2>3. CASE ResumeReceive(t)
    <3>1. CanRun(t) /\ frame[t].q \in Queues
      BY <1>0, <1>c, <2>3 DEF ResumeReceive, CallsConsistent, RecvPcs
    <3>2. RemovedKept
      BY <1>a, <1>b, <1>c, <1>d, <2>3, <3>1
      DEF ResumeReceive, TakeMessage, Return, RecvPcs, callVars
    <3>3. UNCHANGED waitVars \/ BlockNotEmpty(t, frame[t].q)
      BY <2>3 DEF ResumeReceive
    <3> QED BY <1>c, <3>1, <3>2, <3>3 DEF NoWaitEffect, Blocks
  <2>4. ASSUME NEW nonblock \in BOOLEAN, NEW time \in Times,
               TimedSendStart(t, nonblock, time)
        PROVE  Goal
    <3>1. CanRun(t) /\ frame[t].q \in Queues
      BY <1>0, <1>c, <2>4 DEF TimedSendStart, CallsConsistent, SendPcs
    <3>2. RemovedKept
      BY <1>a, <1>c, <1>d, <2>4, <3>1 DEF TimedSendStart, Return, SendPcs
    <3>3. UNCHANGED waitVars \/ BlockNotFull(t, frame[t].q)
      BY <2>4 DEF TimedSendStart
    <3> QED BY <1>c, <3>1, <3>2, <3>3 DEF NoWaitEffect, Blocks
  <2>5. CASE ReceiveFree(t) \/ ReceiveCheck(t)
    <3>1. RemovedKept
      BY <1>a, <1>c, <1>d, <2>5 DEF ReceiveFree, ReceiveCheck, Return, RecvPcs
    <3> QED BY <2>5, <3>1 DEF ReceiveFree, ReceiveCheck, NoWaitEffect
  <2>7. CASE HeapWait(t)
    <3>1. RemovedKept
      BY <1>a, <1>c, <1>d, <2>7 DEF HeapWait, SendPcs, RecvPcs
    <3> QED BY <2>7, <3>1 DEF HeapWait, NoWaitEffect
  <2>6. CASE ReceiveWake(t)
    <3>1. RemovedKept
      BY <1>a, <1>c, <1>d, <2>6 DEF ReceiveWake, Return
    <3>2. frame[t].q \in Queues
      BY <1>0, <1>c, <2>6 DEF ReceiveWake, CallsConsistent, RecvPcs
    <3> QED BY <2>6, <3>1, <3>2 DEF ReceiveWake, Wakes
  <2> HIDE DEF Goal
  <2> QED BY <1>3, <2>1, <2>2, <2>3, <2>4, <2>5, <2>6, <2>7 DEF TaskStep
<1>4. ASSUME NEW q \in Queues, NEW prio \in MsgPrios, IsrSend(q, prio) PROVE Goal
  BY <1>4, <1>a, <1>d DEF IsrSend, Running, NoWaitEffect, Contexts, SendPcs
<1>5. ASSUME NEW t \in Tasks, WaitTimeout(t) \/ SignalTask(t) PROVE Goal
  <2>1. RemovedKept
    BY <1>5, <1>b DEF WaitTimeout, SignalTask, callVars
  <2>2. CASE InMqWait(t)
    <3>1. nxmq_wait_irq(t, "ETIMEDOUT") \/ nxmq_wait_irq(t, "EINTR")
      BY <1>5, <2>2 DEF WaitTimeout, SignalTask
    <3> QED BY <2>1, <2>2, <3>1 DEF Cancels
  <2>3. CASE ~InMqWait(t)
    BY <1>5, <2>1, <2>3 DEF WaitTimeout, SignalTask, NoWaitEffect
  <2> QED BY <2>2, <2>3
<1>6. CASE UNCHANGED vars
  BY <1>6, <1>b DEF vars, waitVars, callVars, NoWaitEffect
<1>7. ISR \in Contexts
  BY DEF Contexts
<1>8. ASSUME NEW t \in Tasks, TaskTerminate(t) \/ TaskRecover(t) PROVE Goal
  BY <1>8
<1> HIDE DEF Goal
<1> QED BY <1>1, <1>2, <1>3, <1>4, <1>5, <1>6, <1>7, <1>8 DEF Next, Halted

(***************************************************************************)
(* The tasks that belong in the wait list of a state.                      *)
(***************************************************************************)
Members(state) == {t \in Tasks : task_state[t] = state /\ pc[t] # "removed"}

(***************************************************************************)
(* IsWaitList says that the list enumerates its members in order.          *)
(***************************************************************************)
LEMMA WaitListIsLists ==
  ASSUME NEW list \in Seq(Tasks), NEW state
  PROVE  IsWaitList(list, state) <=> Lists(list, Members(state), Priority)
<1>1. DOMAIN list = 1 .. Len(list) /\ \A i \in 1 .. Len(list) : list[i] \in Tasks
  BY LenProperties, ElementOfSeq
<1> QED BY <1>1 DEF IsWaitList, Lists, Members

(***************************************************************************)
(* The invariant about the wait lists in terms of Lists, so that the       *)
(* lemmas about insertion and removal apply.                               *)
(***************************************************************************)
ListsInv ==
    /\ Lists(g_waitingformqnotempty, Members("WAIT_MQNOTEMPTY"), Priority)
    /\ Lists(g_waitingformqnotfull, Members("WAIT_MQNOTFULL"), Priority)

(***************************************************************************)
(* WaitLists in the terms of the lemmas.                                   *)
(***************************************************************************)
LEMMA ListsInvIsWaitLists ==
  ASSUME TypeOK
  PROVE  WaitLists <=> ListsInv
BY WaitListIsLists DEF TypeOK, WaitLists, ListsInv

(***************************************************************************)
(* dq_rem of a task takes it out of the list, or out of neither list.      *)
(***************************************************************************)
LEMMA DqRemKeepsList ==
  ASSUME NEW list \in Seq(Tasks), NEW M \in SUBSET Tasks, NEW t,
         Lists(list, M, Priority)
  PROVE  Lists(dq_rem(list, t), M \ {t}, Priority)
<1>1. CASE /\ \A i \in 1 .. Len(list) : list[i] # t
           /\ dq_rem(list, t) = list
  <2>1. t \notin M
    BY <1>1 DEF Lists
  <2>2. M \ {t} = M
    BY <2>1
  <2> QED BY <1>1, <2>2
<1>2. CASE \E i \in 1 .. Len(list) : list[i] = t /\ dq_rem(list, t) = RemoveAt(list, i)
  <2>1. PICK i \in 1 .. Len(list) : list[i] = t /\ dq_rem(list, t) = RemoveAt(list, i)
    BY <1>2
  <2>2. Priority \in [Tasks -> Nat]
    BY AttributesAreNumbers
  <2>3. Lists(RemoveAt(list, i), M \ {list[i]}, Priority)
    BY <2>2, RemoveKeepsList
  <2> QED BY <2>1, <2>3
<1> QED BY <1>1, <1>2, DqRemPosition

(***************************************************************************)
(* The first task that waits for a queue is taken out of the list.         *)
(***************************************************************************)
LEMMA WakeKeepsList ==
  ASSUME NEW list \in Seq(Tasks), NEW M \in SUBSET Tasks, NEW q,
         Lists(list, M, Priority), Waiting(list, q) # {}
  PROVE  LET b == FirstOf(list, Waiting(list, q))
         IN  /\ b \in M /\ msgwaitq[b] = q
             /\ Lists(RemoveFirstOf(list, Waiting(list, q)), M \ {b}, Priority)
             /\ \A u \in M : msgwaitq[u] = q => Priority[u] <= Priority[b]
<1> DEFINE b == FirstOf(list, Waiting(list, q))
<1>1. PICK i \in 1 .. Len(list) :
             /\ b = list[i] /\ list[i] \in Tasks /\ msgwaitq[list[i]] = q
             /\ RemoveFirstOf(list, Waiting(list, q)) = RemoveAt(list, i)
             /\ \A j \in 1 .. i - 1 : msgwaitq[list[j]] # q
  BY FirstWaiting
<1>2. Priority \in [Tasks -> Nat]
  BY AttributesAreNumbers
<1>3. Lists(RemoveAt(list, i), M \ {list[i]}, Priority)
  BY <1>2, RemoveKeepsList
<1>4. list[i] \in M
  BY DEF Lists
<1>5. ASSUME NEW u \in M, msgwaitq[u] = q PROVE Priority[u] <= Priority[list[i]]
  <2>1. PICK j \in 1 .. Len(list) : list[j] = u
    BY DEF Lists
  <2>2. Len(list) \in Nat
    BY LenProperties
  <2>3. ~(j < i)
    BY <1>1, <1>5, <2>1, <2>2
  <2>4. CASE j = i
    BY <1>1, <1>2, <2>1, <2>4
  <2>5. CASE i < j
    BY <1>2, <2>1, <2>5 DEF Lists
  <2> QED BY <2>2, <2>3, <2>4, <2>5
<1> HIDE DEF b
<1>6. /\ b \in M /\ msgwaitq[b] = q
      /\ Lists(RemoveFirstOf(list, Waiting(list, q)), M \ {b}, Priority)
      /\ \A u \in M : msgwaitq[u] = q => Priority[u] <= Priority[b]
  BY <1>1, <1>3, <1>4, <1>5
<1> QED BY <1>6 DEF b

(***************************************************************************)
(* Every kind of step keeps the wait lists.                                *)
(***************************************************************************)
LEMMA ListsInit == Init => ListsInv
<1>1. ASSUME NEW M, M = {} PROVE Lists(<<>>, M, Priority)
  BY <1>1 DEF Lists
<1>2. Init => Members("WAIT_MQNOTEMPTY") = {} /\ Members("WAIT_MQNOTFULL") = {}
  BY DEF Init, Members
<1> QED BY <1>1, <1>2 DEF Init, ListsInv

(***************************************************************************)
(* Every step keeps the wait lists.                                        *)
(***************************************************************************)
LEMMA ListsStep ==
  ASSUME Inv, ListsInv, [Next]_vars
  PROVE  ListsInv'
<1> DEFINE E == Members("WAIT_MQNOTEMPTY")
           F == Members("WAIT_MQNOTFULL")
           Goal == ListsInv'
<1> SUFFICES Goal
  OBVIOUS
<1>0. /\ WaitTypes /\ CallTypes /\ CallsConsistent
      /\ g_waitingformqnotempty \in Seq(Tasks) /\ g_waitingformqnotfull \in Seq(Tasks)
      /\ Lists(g_waitingformqnotempty, E, Priority)
      /\ Lists(g_waitingformqnotfull, F, Priority)
      /\ E \in SUBSET Tasks /\ F \in SUBSET Tasks
      /\ Priority \in [Tasks -> Nat]
  BY TypeSplit, AttributesAreNumbers DEF Inv, WaitTypes, ListsInv, Members
<1>a. ASSUME Lists(g_waitingformqnotempty', E', Priority),
             Lists(g_waitingformqnotfull', F', Priority)
      PROVE  Goal
  BY <1>a DEF ListsInv
<1>1. CASE NoWaitEffect
  <2>1. E' = E /\ F' = F
    BY <1>1 DEF NoWaitEffect, RemovedKept, Members, waitVars
  <2>2. UNCHANGED <<g_waitingformqnotempty, g_waitingformqnotfull>>
    BY <1>1 DEF NoWaitEffect, waitVars
  <2> QED BY <1>0, <1>a, <2>1, <2>2
<1>2. ASSUME NEW t \in Tasks, NEW q \in Queues, Blocks(t, q) PROVE Goal
  <2>0. t \notin E /\ t \notin F
    BY <1>2 DEF Blocks, Members
  <2>1. CASE BlockNotFull(t, q)
    <3>1. F' = F \cup {t} /\ E' = E
      BY <1>0, <1>2, <2>1 DEF Blocks, BlockNotFull, RemovedKept, Members, WaitTypes
    <3>2. Lists(nxsched_add_prioritized(g_waitingformqnotfull, t), F \cup {t}, Priority)
      <4> HIDE DEF E, F
      <4> QED BY <1>0, <2>0, InsertKeepsList DEF nxsched_add_prioritized
    <3>3. /\ g_waitingformqnotfull' = nxsched_add_prioritized(g_waitingformqnotfull, t)
          /\ UNCHANGED g_waitingformqnotempty
      BY <2>1 DEF BlockNotFull
    <3> HIDE DEF E, F, Goal
    <3> QED BY <1>0, <1>a, <3>1, <3>2, <3>3
  <2>2. CASE BlockNotEmpty(t, q)
    <3>1. E' = E \cup {t} /\ F' = F
      BY <1>0, <1>2, <2>2 DEF Blocks, BlockNotEmpty, RemovedKept, Members, WaitTypes
    <3>2. Lists(nxsched_add_prioritized(g_waitingformqnotempty, t), E \cup {t}, Priority)
      <4> HIDE DEF E, F
      <4> QED BY <1>0, <2>0, InsertKeepsList DEF nxsched_add_prioritized
    <3>3. /\ g_waitingformqnotempty' = nxsched_add_prioritized(g_waitingformqnotempty, t)
          /\ UNCHANGED g_waitingformqnotfull
      BY <2>2 DEF BlockNotEmpty
    <3> HIDE DEF E, F, Goal
    <3> QED BY <1>0, <1>a, <3>1, <3>2, <3>3
  <2> QED BY <1>2, <2>1, <2>2 DEF Blocks
<1>3. ASSUME NEW q \in Queues, Wakes(q) PROVE Goal
  <2>1. CASE UNCHANGED waitVars
    BY <1>1, <1>3, <2>1 DEF Wakes, NoWaitEffect
  <2>2. CASE WakeNotFull(q) /\ Waiting(g_waitingformqnotfull, q) # {}
    <3> DEFINE w == Waiting(g_waitingformqnotfull, q)
               b == FirstOf(g_waitingformqnotfull, w)
               r == RemoveFirstOf(g_waitingformqnotfull, w)
    <3>1. b \in F /\ Lists(r, F \ {b}, Priority)
      <4> HIDE DEF E, F
      <4> QED BY <1>0, <2>2, WakeKeepsList
    <3>2. /\ task_state' = [task_state EXCEPT ![b] = "READY"]
          /\ g_waitingformqnotfull' = r /\ UNCHANGED g_waitingformqnotempty
      BY <2>2 DEF WakeNotFull
    <3> HIDE DEF b, r
    <3>3. F' = F \ {b} /\ E' = E
      BY <1>0, <1>3, <3>1, <3>2 DEF Wakes, RemovedKept, Members, WaitTypes
    <3> HIDE DEF E, F, Goal
    <3> QED BY <1>0, <1>a, <3>1, <3>2, <3>3
  <2>3. CASE WakeNotEmpty(q) /\ Waiting(g_waitingformqnotempty, q) # {}
             /\ nwaitnotempty[q] > 0
    <3> DEFINE w == Waiting(g_waitingformqnotempty, q)
               b == FirstOf(g_waitingformqnotempty, w)
               r == RemoveFirstOf(g_waitingformqnotempty, w)
    <3>1. b \in E /\ Lists(r, E \ {b}, Priority)
      <4> HIDE DEF E, F
      <4> QED BY <1>0, <2>3, WakeKeepsList
    <3>2. /\ task_state' = [task_state EXCEPT ![b] = "READY"]
          /\ g_waitingformqnotempty' = r /\ UNCHANGED g_waitingformqnotfull
      BY <2>3 DEF WakeNotEmpty
    <3> HIDE DEF b, r
    <3>3. E' = E \ {b} /\ F' = F
      BY <1>0, <1>3, <3>1, <3>2 DEF Wakes, RemovedKept, Members, WaitTypes
    <3> HIDE DEF E, F, Goal
    <3> QED BY <1>0, <1>a, <3>1, <3>2, <3>3
  <2> QED BY <1>3, <2>1, <2>2, <2>3 DEF Wakes, WakeNotFull, WakeNotEmpty, waitVars
<1>4. ASSUME NEW t \in Tasks, NEW code, Cancels(t, code) \/ TaskTerminate(t)
      PROVE  Goal
  <2>1. /\ g_waitingformqnotempty' = dq_rem(g_waitingformqnotempty, t)
        /\ g_waitingformqnotfull' = dq_rem(g_waitingformqnotfull, t)
    BY <1>4 DEF Cancels, nxmq_wait_irq, TaskTerminate
  <2>2. E' = E \ {t} /\ F' = F \ {t}
    BY <1>0, <1>4 DEF Cancels, nxmq_wait_irq, TaskTerminate, Goto, RemovedKept,
       Members, WaitTypes, CallTypes, Contexts
  <2> HIDE DEF E, F, Goal
  <2>3. /\ Lists(dq_rem(g_waitingformqnotempty, t), E \ {t}, Priority)
        /\ Lists(dq_rem(g_waitingformqnotfull, t), F \ {t}, Priority)
    BY <1>0, DqRemKeepsList
  <2> QED BY <1>a, <2>1, <2>2, <2>3
<1>5. ASSUME NEW t \in Tasks, TaskRecover(t) PROVE Goal
  <2>1. E' = E /\ F' = F
    BY <1>0, <1>5 DEF TaskRecover, Goto, Members, WaitTypes, CallTypes, Contexts
  <2>2. UNCHANGED <<g_waitingformqnotempty, g_waitingformqnotfull>>
    BY <1>5 DEF TaskRecover
  <2> QED BY <1>0, <1>a, <2>1, <2>2
<1> HIDE DEF Goal
<1> QED
  <2>1. ASSUME NEW t \in Tasks, TaskTerminate(t) PROVE Goal
    BY <1>4, <2>1
  <2>2. ASSUME NEW t \in Tasks, NEW code, Cancels(t, code) PROVE Goal
    BY <1>4, <2>2
  <2>3. \/ NoWaitEffect
        \/ \E v \in Tasks, q \in Queues : Blocks(v, q)
        \/ \E q \in Queues : Wakes(q)
        \/ \E v \in Tasks, code \in {"EINTR", "ETIMEDOUT"} : Cancels(v, code)
        \/ \E v \in Tasks : TaskTerminate(v) \/ TaskRecover(v)
    BY WaitEffects
  <2> QED BY <1>1, <1>2, <1>3, <1>5, <2>1, <2>2, <2>3

(***************************************************************************)
(* WaitLists: the two wait lists hold exactly the tasks in their state,    *)
(* once each and in priority order, for any number of tasks.               *)
(***************************************************************************)
THEOREM WaitListsCorrect == Spec => []WaitLists
<1>1. Inv /\ ListsInv /\ [Next]_vars => ListsInv'
  BY ListsStep
<1>2. Spec => []ListsInv
  BY <1>1, ListsInit, InvAlways, PTL DEF Spec
<1>3. Inv /\ ListsInv => WaitLists
  BY ListsInvIsWaitLists DEF Inv
<1> QED BY <1>2, <1>3, InvAlways, PTL

(***************************************************************************)
(* BestWaiterWoken: the task that a send or a receive unblocks is one of   *)
(* the highest priority among those that wait for the same event.          *)
(***************************************************************************)
LEMMA BestWaiterStep ==
  ASSUME Inv, ListsInv, [Next]_vars, NEW t \in Tasks, InMqWait(t),
         task_state'[t] = "READY", errcode'[t] = "OK", NEW u \in Tasks,
         task_state[u] = task_state[t], msgwaitq[u] = msgwaitq[t],
         pc[u] # "removed"
  PROVE  Priority[u] <= Priority[t]
<1> DEFINE E == Members("WAIT_MQNOTEMPTY")
           F == Members("WAIT_MQNOTFULL")
           Goal == Priority[u] <= Priority[t]
<1> SUFFICES Goal
  OBVIOUS
<1>0. /\ WaitTypes /\ CallTypes
      /\ g_waitingformqnotempty \in Seq(Tasks) /\ g_waitingformqnotfull \in Seq(Tasks)
      /\ Lists(g_waitingformqnotempty, E, Priority)
      /\ Lists(g_waitingformqnotfull, F, Priority)
      /\ E \in SUBSET Tasks /\ F \in SUBSET Tasks
  BY TypeSplit DEF Inv, WaitTypes, ListsInv, Members
<1>1. task_state[t] # "READY" /\ (u \in E \/ u \in F)
  BY DEF InMqWait, Members
<1>2. CASE NoWaitEffect
  BY <1>1, <1>2 DEF NoWaitEffect, waitVars
<1>3. ASSUME NEW v \in Tasks, NEW q \in Queues, Blocks(v, q) PROVE Goal
  BY <1>0, <1>1, <1>3 DEF Blocks, BlockNotFull, BlockNotEmpty, WaitTypes
<1>4. ASSUME NEW q \in Queues, Wakes(q) PROVE Goal
  <2>1. CASE WakeNotFull(q)
    <3> DEFINE w == Waiting(g_waitingformqnotfull, q)
               b == FirstOf(g_waitingformqnotfull, w)
    <3>1. w # {} /\ task_state' = [task_state EXCEPT ![b] = "READY"]
      BY <1>1, <2>1 DEF WakeNotFull
    <3>2. /\ b \in F /\ msgwaitq[b] = q
          /\ \A v \in F : msgwaitq[v] = q => Priority[v] <= Priority[b]
      <4> HIDE DEF E, F
      <4> QED BY <1>0, <3>1, WakeKeepsList
    <3> HIDE DEF b, w
    <3>3. t = b
      BY <1>0, <1>1, <3>1 DEF WaitTypes
    <3>4. u \in F
      BY <3>2, <3>3 DEF Members
    <3> QED BY <3>2, <3>3, <3>4
  <2>2. CASE WakeNotEmpty(q)
    <3> DEFINE w == Waiting(g_waitingformqnotempty, q)
               b == FirstOf(g_waitingformqnotempty, w)
    <3>1. w # {} /\ task_state' = [task_state EXCEPT ![b] = "READY"]
      BY <1>1, <2>2 DEF WakeNotEmpty
    <3>2. /\ b \in E /\ msgwaitq[b] = q
          /\ \A v \in E : msgwaitq[v] = q => Priority[v] <= Priority[b]
      <4> HIDE DEF E, F
      <4> QED BY <1>0, <3>1, WakeKeepsList
    <3> HIDE DEF b, w
    <3>3. t = b
      BY <1>0, <1>1, <3>1 DEF WaitTypes
    <3>4. u \in E
      BY <3>2, <3>3 DEF Members
    <3> QED BY <3>2, <3>3, <3>4
  <2> QED BY <1>4, <2>1, <2>2 DEF Wakes
<1>5. ASSUME NEW v \in Tasks, NEW code \in {"EINTR", "ETIMEDOUT"}, Cancels(v, code)
      PROVE  Goal
  <2>1. /\ task_state' = [task_state EXCEPT ![v] = "READY"]
        /\ errcode' = [errcode EXCEPT ![v] = code]
    BY <1>5 DEF Cancels, nxmq_wait_irq
  <2>2. t = v
    BY <1>0, <1>1, <2>1 DEF WaitTypes
  <2>3. errcode'[t] = code
    BY <1>0, <2>1, <2>2 DEF WaitTypes
  <2> QED BY <2>3
<1>6. ASSUME NEW v \in Tasks, TaskTerminate(v) \/ TaskRecover(v) PROVE Goal
  BY <1>0, <1>1, <1>6 DEF TaskTerminate, TaskRecover, WaitTypes
<1> HIDE DEF Goal
<1> QED
  <2>1. \/ NoWaitEffect
        \/ \E v \in Tasks, q \in Queues : Blocks(v, q)
        \/ \E q \in Queues : Wakes(q)
        \/ \E v \in Tasks, code \in {"EINTR", "ETIMEDOUT"} : Cancels(v, code)
        \/ \E v \in Tasks : TaskTerminate(v) \/ TaskRecover(v)
    BY WaitEffects
  <2> QED BY <1>2, <1>3, <1>4, <1>5, <1>6, <2>1

(***************************************************************************)
(* BestWaiterWoken: the task that a send or a receive unblocks is one of   *)
(* the highest priority among those that wait for the same event of the    *)
(* same queue, for any set of tasks and priorities.                        *)
(***************************************************************************)
THEOREM BestWaiterCorrect == Spec => BestWaiterWoken
<1> DEFINE A == \A t \in Tasks :
                  /\ InMqWait(t) /\ task_state'[t] = "READY" /\ errcode'[t] = "OK"
                  => \A u \in Tasks :
                       /\ task_state[u] = task_state[t] /\ msgwaitq[u] = msgwaitq[t]
                       /\ pc[u] # "removed"
                       => Priority[u] <= Priority[t]
<1>1. Inv /\ ListsInv /\ [Next]_vars => A
  BY BestWaiterStep
<1>2. Inv /\ ListsInv /\ [Next]_vars => ListsInv'
  BY ListsStep
<1> HIDE DEF A
<1>3. Spec => [][A]_vars
  BY <1>1, <1>2, ListsInit, InvAlways, PTL DEF Spec
<1> QED BY <1>3 DEF BestWaiterWoken, A

(***************************************************************************)
(* The counters of waiting tasks.  A step changes the set of tasks that    *)
(* wait for one event by at most one task; the counter follows.            *)
(***************************************************************************)
LEMMA BlockedFinite ==
  ASSUME NEW state, NEW q
  PROVE  /\ IsFiniteSet(BlockedOn(state, q))
         /\ Cardinality(BlockedOn(state, q)) \in Nat
<1>1. IsFiniteSet(BlockedOn(state, q))
  BY ContextsDiffer, FS_Subset DEF BlockedOn
<1> QED BY <1>1, FS_CardinalityType

(***************************************************************************)
(* Every step keeps the counters of waiting tasks.                         *)
(***************************************************************************)
LEMMA CountsStep ==
  ASSUME Inv, ListsInv, WaitCounts, [Next]_vars
  PROVE  WaitCounts'
<1> DEFINE E(q) == BlockedOn("WAIT_MQNOTEMPTY", q)
           F(q) == BlockedOn("WAIT_MQNOTFULL", q)
           Goal == WaitCounts'
<1> SUFFICES Goal
  OBVIOUS
<1>0. /\ WaitTypes /\ CallTypes /\ CallsConsistent
      /\ \A q \in Queues : /\ nwaitnotempty[q] = Cardinality(E(q))
                           /\ nwaitnotfull[q] = Cardinality(F(q))
      /\ \A q \in Queues : /\ IsFiniteSet(E(q)) /\ Cardinality(E(q)) \in Nat
                           /\ IsFiniteSet(F(q)) /\ Cardinality(F(q)) \in Nat
  BY TypeSplit, BlockedFinite DEF Inv, WaitCounts
<1>a. ASSUME \A q \in Queues : /\ nwaitnotempty'[q] = Cardinality(E(q)')
                               /\ nwaitnotfull'[q] = Cardinality(F(q)')
      PROVE  Goal
  BY <1>a DEF WaitCounts
<1>b. ASSUME NEW S, IsFiniteSet(S), NEW t, t \notin S
      PROVE  Cardinality(S \cup {t}) = Cardinality(S) + 1
  BY <1>b, FS_AddElement
<1>c. ASSUME NEW S, IsFiniteSet(S), NEW t, t \in S
      PROVE  Cardinality(S \ {t}) = Cardinality(S) - 1
  BY <1>c, FS_RemoveElement
<1>1. CASE UNCHANGED waitVars
  <2>1. ASSUME NEW q \in Queues PROVE E(q)' = E(q) /\ F(q)' = F(q)
    BY <1>1 DEF waitVars, BlockedOn
  <2>2. UNCHANGED <<nwaitnotempty, nwaitnotfull>>
    BY <1>1 DEF waitVars
  <2> QED BY <1>0, <1>a, <2>1, <2>2
<1>2. ASSUME NEW t \in Tasks, NEW q \in Queues, Blocks(t, q) PROVE Goal
  <2>0. \A r \in Queues : t \notin E(r) /\ t \notin F(r)
    BY <1>2 DEF Blocks, BlockedOn
  <2>1. CASE BlockNotFull(t, q)
    <3>1. ASSUME NEW r \in Queues
          PROVE  E(r)' = E(r) /\ F(r)' = IF r = q THEN F(r) \cup {t} ELSE F(r)
      BY <1>0, <1>2, <2>1 DEF Blocks, BlockNotFull, BlockedOn, WaitTypes
    <3>2. /\ nwaitnotfull' = [nwaitnotfull EXCEPT ![q] = @ + 1]
          /\ UNCHANGED nwaitnotempty
      BY <2>1 DEF BlockNotFull
    <3> HIDE DEF E, F, Goal
    <3>3. Cardinality(F(q) \cup {t}) = Cardinality(F(q)) + 1
      BY <1>0, <1>b, <2>0
    <3> QED BY <1>0, <1>a, <3>1, <3>2, <3>3 DEF WaitTypes
  <2>2. CASE BlockNotEmpty(t, q)
    <3>1. ASSUME NEW r \in Queues
          PROVE  F(r)' = F(r) /\ E(r)' = IF r = q THEN E(r) \cup {t} ELSE E(r)
      BY <1>0, <1>2, <2>2 DEF Blocks, BlockNotEmpty, BlockedOn, WaitTypes
    <3>2. /\ nwaitnotempty' = [nwaitnotempty EXCEPT ![q] = @ + 1]
          /\ UNCHANGED nwaitnotfull
      BY <2>2 DEF BlockNotEmpty
    <3> HIDE DEF E, F, Goal
    <3>3. Cardinality(E(q) \cup {t}) = Cardinality(E(q)) + 1
      BY <1>0, <1>b, <2>0
    <3> QED BY <1>0, <1>a, <3>1, <3>2, <3>3 DEF WaitTypes
  <2> QED BY <1>2, <2>1, <2>2 DEF Blocks
<1>d. ASSUME NEW t \in Tasks, NEW q \in Queues, t \in F(q), task_state'[t] \notin
               {"WAIT_MQNOTEMPTY", "WAIT_MQNOTFULL"},
             \A u \in Tasks \ {t} : /\ task_state'[u] = task_state[u]
                                    /\ msgwaitq'[u] = msgwaitq[u],
             nwaitnotfull' = [nwaitnotfull EXCEPT ![q] = @ - 1],
             UNCHANGED nwaitnotempty
      PROVE  Goal
  <2>1. ASSUME NEW r \in Queues
        PROVE  E(r)' = E(r) /\ F(r)' = IF r = q THEN F(r) \ {t} ELSE F(r)
    BY <1>0, <1>d DEF BlockedOn
  <2> HIDE DEF E, F, Goal
  <2>2. Cardinality(F(q) \ {t}) = Cardinality(F(q)) - 1
    BY <1>0, <1>c, <1>d
  <2> QED BY <1>0, <1>a, <1>d, <2>1, <2>2 DEF WaitTypes
<1>e. ASSUME NEW t \in Tasks, NEW q \in Queues, t \in E(q), task_state'[t] \notin
               {"WAIT_MQNOTEMPTY", "WAIT_MQNOTFULL"},
             \A u \in Tasks \ {t} : /\ task_state'[u] = task_state[u]
                                    /\ msgwaitq'[u] = msgwaitq[u],
             nwaitnotempty' = [nwaitnotempty EXCEPT ![q] = @ - 1],
             UNCHANGED nwaitnotfull
      PROVE  Goal
  <2>1. ASSUME NEW r \in Queues
        PROVE  F(r)' = F(r) /\ E(r)' = IF r = q THEN E(r) \ {t} ELSE E(r)
    BY <1>0, <1>e DEF BlockedOn
  <2> HIDE DEF E, F, Goal
  <2>2. Cardinality(E(q) \ {t}) = Cardinality(E(q)) - 1
    BY <1>0, <1>c, <1>e
  <2> QED BY <1>0, <1>a, <1>e, <2>1, <2>2 DEF WaitTypes
<1>3. ASSUME NEW q \in Queues, Wakes(q) PROVE Goal
  <2>1. CASE WakeNotFull(q) /\ Waiting(g_waitingformqnotfull, q) # {}
    <3> DEFINE w == Waiting(g_waitingformqnotfull, q)
               b == FirstOf(g_waitingformqnotfull, w)
    <3>1. b \in Members("WAIT_MQNOTFULL") /\ msgwaitq[b] = q
      <4>1. Members("WAIT_MQNOTFULL") \in SUBSET Tasks
        BY DEF Members
      <4> QED BY <1>0, <2>1, <4>1, WakeKeepsList DEF WaitTypes, ListsInv
    <3>2. /\ task_state' = [task_state EXCEPT ![b] = "READY"]
          /\ msgwaitq' = [msgwaitq EXCEPT ![b] = NONE]
          /\ nwaitnotfull' = [nwaitnotfull EXCEPT ![q] = @ - 1]
          /\ UNCHANGED nwaitnotempty
      BY <2>1 DEF WakeNotFull
    <3> HIDE DEF b, Goal
    <3>3. b \in Tasks /\ b \in F(q)
      BY <3>1 DEF Members, BlockedOn
    <3>4. /\ task_state'[b] \notin {"WAIT_MQNOTEMPTY", "WAIT_MQNOTFULL"}
          /\ \A u \in Tasks \ {b} : /\ task_state'[u] = task_state[u]
                                    /\ msgwaitq'[u] = msgwaitq[u]
      BY <1>0, <3>2, <3>3 DEF WaitTypes
    <3> QED BY <1>d, <3>2, <3>3, <3>4
  <2>2. CASE WakeNotEmpty(q) /\ Waiting(g_waitingformqnotempty, q) # {}
             /\ nwaitnotempty[q] > 0
    <3> DEFINE w == Waiting(g_waitingformqnotempty, q)
               b == FirstOf(g_waitingformqnotempty, w)
    <3>1. b \in Members("WAIT_MQNOTEMPTY") /\ msgwaitq[b] = q
      <4>1. Members("WAIT_MQNOTEMPTY") \in SUBSET Tasks
        BY DEF Members
      <4> QED BY <1>0, <2>2, <4>1, WakeKeepsList DEF WaitTypes, ListsInv
    <3>2. /\ task_state' = [task_state EXCEPT ![b] = "READY"]
          /\ msgwaitq' = [msgwaitq EXCEPT ![b] = NONE]
          /\ nwaitnotempty' = [nwaitnotempty EXCEPT ![q] = @ - 1]
          /\ UNCHANGED nwaitnotfull
      BY <2>2 DEF WakeNotEmpty
    <3> HIDE DEF b, Goal
    <3>3. b \in Tasks /\ b \in E(q)
      BY <3>1 DEF Members, BlockedOn
    <3>4. /\ task_state'[b] \notin {"WAIT_MQNOTEMPTY", "WAIT_MQNOTFULL"}
          /\ \A u \in Tasks \ {b} : /\ task_state'[u] = task_state[u]
                                    /\ msgwaitq'[u] = msgwaitq[u]
      BY <1>0, <3>2, <3>3 DEF WaitTypes
    <3> QED BY <1>e, <3>2, <3>3, <3>4
  <2>3. CASE UNCHANGED waitVars
    BY <1>1, <2>3
  <2> HIDE DEF Goal
  <2> QED BY <1>3, <2>1, <2>2, <2>3 DEF Wakes, WakeNotFull, WakeNotEmpty, waitVars
<1>4. ASSUME NEW t \in Tasks, NEW code,
             (Cancels(t, code) \/ TaskRecover(t)) /\ InMqWait(t)
      PROVE  Goal
  <2> DEFINE q == msgwaitq[t]
  <2>1. q \in Queues
    BY <1>0, <1>4 DEF CallsConsistent
  <2>2. /\ task_state'[t] \notin {"WAIT_MQNOTEMPTY", "WAIT_MQNOTFULL"}
        /\ \A u \in Tasks \ {t} : /\ task_state'[u] = task_state[u]
                                  /\ msgwaitq'[u] = msgwaitq[u]
    BY <1>0, <1>4 DEF Cancels, nxmq_wait_irq, TaskRecover, WaitTypes
  <2>3. CASE task_state[t] = "WAIT_MQNOTFULL"
    <3>1. /\ nwaitnotfull' = [nwaitnotfull EXCEPT ![q] = @ - 1]
          /\ UNCHANGED nwaitnotempty
      BY <1>4, <2>3 DEF Cancels, nxmq_wait_irq, TaskRecover
    <3>2. t \in F(q)
      BY <2>3 DEF BlockedOn
    <3> HIDE DEF Goal
    <3> QED BY <1>d, <2>1, <2>2, <3>1, <3>2
  <2>4. CASE task_state[t] = "WAIT_MQNOTEMPTY"
    <3>1. /\ nwaitnotempty' = [nwaitnotempty EXCEPT ![q] = @ - 1]
          /\ UNCHANGED nwaitnotfull
      BY <1>4, <2>4 DEF Cancels, nxmq_wait_irq, TaskRecover
    <3>2. t \in E(q)
      BY <2>4 DEF BlockedOn
    <3> HIDE DEF Goal
    <3> QED BY <1>e, <2>1, <2>2, <3>1, <3>2
  <2> QED BY <1>4, <2>3, <2>4 DEF InMqWait
<1>5. ASSUME NEW t \in Tasks, TaskTerminate(t) \/ (TaskRecover(t) /\ ~InMqWait(t))
      PROVE  Goal
  <2>1. ASSUME NEW q \in Queues PROVE E(q)' = E(q) /\ F(q)' = F(q)
    BY <1>0, <1>5 DEF TaskTerminate, TaskRecover, InMqWait, BlockedOn, WaitTypes
  <2>2. UNCHANGED <<nwaitnotempty, nwaitnotfull>>
    BY <1>5 DEF TaskTerminate, TaskRecover, InMqWait
  <2> QED BY <1>0, <1>a, <2>1, <2>2
<1> HIDE DEF Goal
<1> QED
  <2>1. ASSUME NEW t \in Tasks, TaskTerminate(t) \/ TaskRecover(t) PROVE Goal
    BY <1>4, <1>5, <2>1
  <2>2. ASSUME NEW t \in Tasks, NEW code, Cancels(t, code) PROVE Goal
    BY <1>4, <2>2 DEF Cancels
  <2>3. \/ NoWaitEffect
        \/ \E v \in Tasks, q \in Queues : Blocks(v, q)
        \/ \E q \in Queues : Wakes(q)
        \/ \E v \in Tasks, code \in {"EINTR", "ETIMEDOUT"} : Cancels(v, code)
        \/ \E v \in Tasks : TaskTerminate(v) \/ TaskRecover(v)
    BY WaitEffects
  <2>4. CASE NoWaitEffect
    BY <1>1, <2>4 DEF NoWaitEffect
  <2> QED BY <1>2, <1>3, <2>1, <2>2, <2>3, <2>4

(***************************************************************************)
(* WaitCounts: the counters that a send and a receive test before they     *)
(* search a wait list are the numbers of tasks that wait.  The proof needs *)
(* the wait lists: a wake-up decrements the counter of the queue it was    *)
(* asked for, and the task it takes off the list must wait for that queue. *)
(***************************************************************************)
THEOREM WaitCountsCorrect == Spec => []WaitCounts
<1>1. Init => WaitCounts
  <2> SUFFICES ASSUME Init, NEW q \in Queues
               PROVE  /\ nwaitnotempty[q] = Cardinality(BlockedOn("WAIT_MQNOTEMPTY", q))
                      /\ nwaitnotfull[q] = Cardinality(BlockedOn("WAIT_MQNOTFULL", q))
    BY DEF WaitCounts
  <2>1. BlockedOn("WAIT_MQNOTEMPTY", q) = {} /\ BlockedOn("WAIT_MQNOTFULL", q) = {}
    BY DEF Init, BlockedOn
  <2> QED BY <2>1, FS_EmptySet DEF Init
<1>2. Inv /\ ListsInv /\ [Next]_vars => ListsInv'
  BY ListsStep
<1>3. Inv /\ ListsInv /\ WaitCounts /\ [Next]_vars => WaitCounts'
  BY CountsStep
<1> QED BY <1>1, <1>2, <1>3, ListsInit, InvAlways, PTL DEF Spec

-----------------------------------------------------------------------------

(***************************************************************************)
(* What a step may do to the queues: a send queues its message, a receive  *)
(* takes the head of a list, and nothing else touches them.                *)
(***************************************************************************)
Takes(t, q) ==
    msglist[q] # <<>> /\ TakeMessage(t, q) /\ UNCHANGED nsent

(***************************************************************************)
(* Every step is of one of these three kinds.                              *)
(***************************************************************************)
LEMMA QueueEffects ==
  ASSUME Inv, [Next]_vars
  PROVE  \/ UNCHANGED <<queueVars, nsent>>
         \/ \E x \in Contexts : SendInsert(x)
         \/ \E t \in Tasks, q \in Queues : Takes(t, q)
<1> DEFINE Goal == \/ UNCHANGED <<queueVars, nsent>>
                   \/ \E x \in Contexts : SendInsert(x)
                   \/ \E t \in Tasks, q \in Queues : Takes(t, q)
<1> SUFFICES Goal
  OBVIOUS
<1>0. CallsConsistent
  BY DEF Inv
<1>1. ASSUME NEW t \in Tasks, Call(t) PROVE Goal
  <2>1. ASSUME NEW oflags \in OFlags, NEW q \in Queues, NEW timed \in BOOLEAN,
               NEW time \in Times, ReceiveStart(t, q, oflags, timed, time)
        PROVE  Goal
    BY <2>1 DEF ReceiveStart, Takes
  <2>2. "OK" \in Times /\ TRUE \in BOOLEAN /\ FALSE \in BOOLEAN
    BY DEF Times
  <2>3. ASSUME NEW oflags \in OFlags, NEW q \in Queues, NEW prio \in MsgPrios,
               MqSend(t, q, oflags, prio) \/ MqTimedSend(t, q, oflags, prio)
        PROVE  Goal
    BY <2>3 DEF MqSend, MqTimedSend
  <2>4. ASSUME NEW oflags \in OFlags, NEW fits \in BOOLEAN,
               \/ MqReceiveRejected(t, oflags, fits)
               \/ \E prio \in MsgPrios : MqSendRejected(t, oflags, fits, prio)
        PROVE  Goal
    BY <2>4 DEF MqReceiveRejected, MqSendRejected
  <2>5. ASSUME NEW q \in Queues, NEW attach \in BOOLEAN, NEW goodsigno \in BOOLEAN,
               mq_notify(t, q, attach, goodsigno)
        PROVE  Goal
    BY <2>5 DEF mq_notify
  <2> HIDE DEF Goal
  <2> QED BY <1>1, <2>1, <2>2, <2>3, <2>4, <2>5 DEF Call, MqReceive, MqTimedReceive
<1>2. ASSUME NEW x \in Contexts, SendStep(x) PROVE Goal
  BY <1>2 DEF SendStep, SendAlloc, NotifyTest, NotifyTake, NotifySend, SendWake
<1>3. ASSUME NEW t \in Tasks, TaskStep(t) PROVE Goal
  <2>0. t \in Contexts
    BY DEF Contexts
  <2>1. CASE ResumeReceive(t)
    <3>1. frame[t].q \in Queues
      BY <1>0, <2>0, <2>1 DEF ResumeReceive, CallsConsistent, RecvPcs
    <3> QED BY <2>1, <3>1 DEF ResumeReceive, Takes
  <2>2. CASE \/ ResumeSend(t) \/ ReceiveFree(t) \/ ReceiveCheck(t) \/ ReceiveWake(t)
             \/ \E nonblock \in BOOLEAN, time \in Times :
                  TimedSendStart(t, nonblock, time)
             \/ HeapWait(t)
    BY <2>2 DEF ResumeSend, ReceiveFree, ReceiveCheck, ReceiveWake, TimedSendStart, HeapWait
  <2> HIDE DEF Goal
  <2> QED BY <1>2, <1>3, <2>0, <2>1, <2>2 DEF TaskStep
<1>4. ASSUME NEW q \in Queues, NEW prio \in MsgPrios, IsrSend(q, prio) PROVE Goal
  BY <1>4 DEF IsrSend
<1>5. ASSUME NEW t \in Tasks,
             WaitTimeout(t) \/ SignalTask(t) \/ TaskTerminate(t) \/ TaskRecover(t)
      PROVE  Goal
  BY <1>5 DEF WaitTimeout, SignalTask, TaskTerminate, TaskRecover
<1>6. CASE UNCHANGED vars
  BY <1>6 DEF vars
<1>7. ISR \in Contexts
  BY DEF Contexts
<1> HIDE DEF Goal
<1> QED BY <1>1, <1>2, <1>3, <1>4, <1>5, <1>6, <1>7 DEF Next, Halted

(***************************************************************************)
(* The order of a message list, and that its messages were queued before   *)
(* now.                                                                    *)
(***************************************************************************)
Ordered(s) == \A i, j \in 1 .. Len(s) : i < j => Before(s[i], s[j])
OrderInv ==
    /\ QueueOrder
    /\ \A q \in Queues : \A i \in 1 .. Len(msglist[q]) :
         msglist[q][i].stamp <= nsent

(***************************************************************************)
(* The search of nxmq_do_send puts a message that is newer than all others *)
(* where it keeps the order.                                               *)
(***************************************************************************)
LEMMA InsertKeepsOrder ==
  ASSUME NEW s \in Seq(Messages), NEW m \in Messages, Ordered(s),
         \A i \in 1 .. Len(s) : s[i].stamp < m.stamp
  PROVE  LET n == InsertBefore(s, {i \in DOMAIN s : s[i].prio < m.prio}, m)
         IN  /\ n \in Seq(Messages) /\ Len(n) = Len(s) + 1 /\ Ordered(n)
             /\ {n[i] : i \in 1 .. Len(n)} = {s[i] : i \in 1 .. Len(s)} \cup {m}
<1> DEFINE lower == {i \in DOMAIN s : s[i].prio < m.prio}
           n == InsertBefore(s, lower, m)
<1>0. /\ DOMAIN s = 1 .. Len(s) /\ Len(s) \in Nat
      /\ \A i \in 1 .. Len(s) : s[i] \in Messages /\ s[i].prio \in Nat
      /\ m.prio \in Nat
  <2>1. /\ DOMAIN s = 1 .. Len(s) /\ Len(s) \in Nat
        /\ \A i \in 1 .. Len(s) : s[i] \in Messages
    BY LenProperties, ElementOfSeq
  <2>2. \A r \in Messages : r.prio \in Nat
    BY AttributesAreNumbers DEF Messages
  <2> QED BY <2>1, <2>2
<1>1. lower \in SUBSET (1 .. Len(s))
  BY <1>0
<1>2. PICK k \in 1 .. Len(s) + 1 :
             /\ IsInsertion(n, s, k, m, Messages)
             /\ k <= Len(s) => k \in lower
             /\ \A j \in 1 .. k - 1 : j \notin lower
  <2> HIDE DEF lower
  <2> QED BY <1>1, InsertBeforeProperties
<1>3. /\ n \in Seq(Messages) /\ Len(n) = Len(s) + 1
      /\ \A j \in 1 .. Len(s) + 1 :
           n[j] = IF j < k THEN s[j] ELSE IF j = k THEN m ELSE s[j - 1]
  <2> HIDE DEF n, lower
  <2> QED BY <1>2 DEF IsInsertion
<1>4. ASSUME NEW j \in 1 .. k - 1 PROVE Before(s[j], m)
  <2>1. j \in 1 .. Len(s)
    BY <1>0
  <2>2. ~(s[j].prio < m.prio) /\ s[j].stamp < m.stamp
    BY <1>0, <1>2, <2>1
  <2>3. s[j].prio \in Nat /\ m.prio \in Nat
    BY <1>0, <2>1
  <2> QED BY <2>2, <2>3 DEF Before
<1>5. ASSUME NEW j \in k .. Len(s) PROVE Before(m, s[j])
  <2>1. k \in lower /\ j \in 1 .. Len(s) /\ k \in 1 .. Len(s)
    BY <1>0, <1>2
  <2>2. s[k].prio < m.prio
    BY <2>1
  <2>3. s[k].prio >= s[j].prio
    <3>1. CASE k = j
      BY <1>0, <2>1, <3>1
    <3>2. CASE k < j
      <4>1. Before(s[k], s[j])
        BY <2>1, <3>2 DEF Ordered
      <4>2. s[k].prio \in Nat /\ s[j].prio \in Nat
        BY <1>0, <2>1
      <4> QED BY <4>1, <4>2 DEF Before
    <3> QED BY <1>0, <3>1, <3>2
  <2>4. s[k].prio \in Nat /\ s[j].prio \in Nat /\ m.prio \in Nat
    BY <1>0, <2>1
  <2> QED BY <2>2, <2>3, <2>4 DEF Before
<1> HIDE DEF n, lower
<1>6. ASSUME NEW i \in 1 .. Len(n), NEW j \in 1 .. Len(n), i < j
      PROVE  Before(n[i], n[j])
  <2>1. CASE j < k
    <3>1. n[i] = s[i] /\ n[j] = s[j] /\ i \in 1 .. Len(s) /\ j \in 1 .. Len(s)
      BY <2>1, <1>6, <1>3, <1>0
    <3> QED BY <3>1, <1>6 DEF Ordered
  <2>2. CASE j = k
    <3>1. n[i] = s[i] /\ n[j] = m /\ i \in 1 .. k - 1
      BY <2>2, <1>6, <1>3, <1>0
    <3> QED BY <3>1, <1>4
  <2>3. CASE j > k /\ i < k
    <3>1. n[i] = s[i] /\ n[j] = s[j - 1] /\ i \in 1 .. Len(s)
          /\ j - 1 \in 1 .. Len(s) /\ i < j - 1
      BY <2>3, <1>6, <1>3, <1>0
    <3> QED BY <3>1 DEF Ordered
  <2>4. CASE j > k /\ i = k
    <3>1. n[i] = m /\ n[j] = s[j - 1] /\ j - 1 \in k .. Len(s)
      BY <2>4, <1>6, <1>3, <1>0
    <3> QED BY <3>1, <1>5
  <2>5. CASE j > k /\ i > k
    <3>1. n[i] = s[i - 1] /\ n[j] = s[j - 1] /\ i - 1 \in 1 .. Len(s)
          /\ j - 1 \in 1 .. Len(s) /\ i - 1 < j - 1
      BY <2>5, <1>6, <1>3, <1>0
    <3> QED BY <3>1 DEF Ordered
  <2> QED BY <2>1, <2>2, <2>3, <2>4, <2>5, <1>0, <1>3
<1>7. {n[i] : i \in 1 .. Len(n)} = {s[i] : i \in 1 .. Len(s)} \cup {m}
  <2>1. ASSUME NEW i \in 1 .. Len(n)
        PROVE  n[i] = m \/ \E h \in 1 .. Len(s) : n[i] = s[h]
    <3>1. CASE i < k
      <4>1. n[i] = s[i] /\ i \in 1 .. Len(s)
        BY <3>1, <1>3, <1>0
      <4> QED BY <4>1
    <3>2. CASE i = k
      BY <3>2, <1>3, <1>0
    <3>3. CASE i > k
      <4>1. n[i] = s[i - 1] /\ i - 1 \in 1 .. Len(s)
        BY <3>3, <1>3, <1>0
      <4> QED BY <4>1
    <3> QED BY <3>1, <3>2, <3>3, <1>0, <1>3
  <2>2. k \in 1 .. Len(n) /\ n[k] = m
    BY <1>3, <1>0
  <2>3. ASSUME NEW h \in 1 .. Len(s) PROVE \E i \in 1 .. Len(n) : n[i] = s[h]
    <3>1. CASE h < k
      <4>1. h \in 1 .. Len(n) /\ n[h] = s[h]
        BY <3>1, <1>3, <1>0
      <4> QED BY <4>1
    <3>2. CASE h >= k
      <4>1. h + 1 \in 1 .. Len(n) /\ n[h + 1] = s[(h + 1) - 1] /\ (h + 1) - 1 = h
        BY <3>2, <1>3, <1>0
      <4> QED BY <4>1
    <3> QED BY <3>1, <3>2, <1>0
  <2>4. {n[i] : i \in 1 .. Len(n)} \subseteq {s[i] : i \in 1 .. Len(s)} \cup {m}
    BY <2>1
  <2>5. {s[i] : i \in 1 .. Len(s)} \cup {m} \subseteq {n[i] : i \in 1 .. Len(n)}
    BY <2>2, <2>3
  <2> QED BY <2>4, <2>5
<1>8. Ordered(n)
  BY <1>6 DEF Ordered
<1> QED BY <1>3, <1>7, <1>8 DEF n, lower

(***************************************************************************)
(* Taking the head keeps the order and removes one message, which comes    *)
(* before all others.                                                      *)
(***************************************************************************)
LEMMA TakeKeepsOrder ==
  ASSUME NEW s \in Seq(Messages), s # <<>>, Ordered(s)
  PROVE  /\ Head(s) \in Messages /\ Tail(s) \in Seq(Messages)
         /\ Len(Tail(s)) = Len(s) - 1 /\ Ordered(Tail(s))
         /\ \A i \in 1 .. Len(Tail(s)) : Tail(s)[i] = s[i + 1] /\ i + 1 \in 1 .. Len(s)
         /\ \A i \in 1 .. Len(Tail(s)) : Before(Head(s), Tail(s)[i])
         /\ {s[i] : i \in 1 .. Len(s)} =
              {Tail(s)[i] : i \in 1 .. Len(Tail(s))} \cup {Head(s)}
<1> DEFINE n == Tail(s)
           h == Head(s)
<1>0. Len(s) \in Nat /\ Len(s) > 0
  BY LenProperties, EmptySeq
<1>1. /\ n \in Seq(Messages) /\ Len(n) = Len(s) - 1 /\ h \in Messages /\ h = s[1]
      /\ \A i \in 1 .. Len(n) : n[i] = s[i + 1]
  BY <1>0, HeadTailProperties, ElementOfSeq
<1> HIDE DEF n, h
<1>2. \A i \in 1 .. Len(n) : i + 1 \in 1 .. Len(s) /\ 1 < i + 1 /\ 1 \in 1 .. Len(s)
  BY <1>0, <1>1
<1>3. Ordered(n)
  BY <1>0, <1>1, <1>2 DEF Ordered
<1>4. \A i \in 1 .. Len(n) : Before(h, n[i])
  BY <1>0, <1>1, <1>2 DEF Ordered
<1>5. {s[i] : i \in 1 .. Len(s)} = {n[i] : i \in 1 .. Len(n)} \cup {h}
  <2>1. ASSUME NEW i \in 1 .. Len(s)
        PROVE  s[i] = h \/ \E j \in 1 .. Len(n) : s[i] = n[j]
    <3>1. CASE i = 1
      BY <1>1, <3>1
    <3>2. CASE i # 1
      <4>1. i - 1 \in 1 .. Len(n) /\ (i - 1) + 1 = i
        BY <1>0, <1>1, <3>2
      <4> QED BY <1>1, <4>1
    <3> QED BY <3>1, <3>2
  <2>2. {s[i] : i \in 1 .. Len(s)} \subseteq {n[i] : i \in 1 .. Len(n)} \cup {h}
    BY <2>1
  <2>3. {n[i] : i \in 1 .. Len(n)} \cup {h} \subseteq {s[i] : i \in 1 .. Len(s)}
    BY <1>0, <1>1, <1>2
  <2> QED BY <2>2, <2>3
<1> QED BY <1>1, <1>2, <1>3, <1>4, <1>5 DEF n, h

(***************************************************************************)
(* The order invariant, spelled out for one queue.                         *)
(***************************************************************************)
LEMMA OrderFacts ==
  ASSUME Inv, OrderInv, NEW q \in Queues
  PROVE  /\ msglist[q] \in Seq(Messages) /\ nmsgs[q] = Len(msglist[q])
         /\ DOMAIN msglist[q] = 1 .. Len(msglist[q]) /\ Len(msglist[q]) \in Nat
         /\ Ordered(msglist[q])
         /\ \A i \in 1 .. Len(msglist[q]) :
              msglist[q][i] \in Messages /\ msglist[q][i].stamp <= nsent
<1>1. msglist[q] \in Seq(Messages)
  BY DEF Inv, TypeOK
<1>2. DOMAIN msglist[q] = 1 .. Len(msglist[q]) /\ Len(msglist[q]) \in Nat
  BY <1>1, LenProperties
<1>3. \A i \in 1 .. Len(msglist[q]) : msglist[q][i] \in Messages
  BY <1>1, ElementOfSeq
<1> QED BY <1>1, <1>2, <1>3 DEF OrderInv, QueueOrder, Ordered

(***************************************************************************)
(* The message that a step queues, and the list it queues it in.           *)
(***************************************************************************)
LEMMA InsertFacts ==
  ASSUME Inv, OrderInv, NEW x \in Contexts, SendInsert(x)
  PROVE  \E q \in Queues, m \in Messages, n \in Seq(Messages) :
           /\ m.stamp = nsent + 1 /\ nsent' = nsent + 1
           /\ msglist' = [msglist EXCEPT ![q] = n]
           /\ nmsgs' = [nmsgs EXCEPT ![q] = @ + 1]
           /\ Len(n) = Len(msglist[q]) + 1 /\ Ordered(n)
           /\ {n[i] : i \in 1 .. Len(n)} =
                {msglist[q][i] : i \in 1 .. Len(msglist[q])} \cup {m}
<1> DEFINE q == frame[x].q
           m == [mqmsg[x] EXCEPT !.stamp = nsent + 1]
           lower == {i \in DOMAIN msglist[q] : msglist[q][i].prio < m.prio}
           n == InsertBefore(msglist[q], lower, m)
<1>1. q \in Queues /\ mqmsg[x] \in Messages /\ nsent \in Nat
  BY DEF Inv, TypeOK, SendInsert, CallsConsistent, SendPcs
<1>2. m \in Messages /\ m.stamp = nsent + 1
  BY <1>1, StampFacts
<1>3. /\ msglist' = [msglist EXCEPT ![q] = n]
      /\ nmsgs' = [nmsgs EXCEPT ![q] = @ + 1] /\ nsent' = nsent + 1
  BY DEF SendInsert
<1>5. /\ msglist[q] \in Seq(Messages) /\ Ordered(msglist[q])
      /\ \A i \in 1 .. Len(msglist[q]) :
           msglist[q][i] \in Messages /\ msglist[q][i].stamp <= nsent
  BY <1>1, OrderFacts
<1> HIDE DEF q, m
<1>6. \A i \in 1 .. Len(msglist[q]) : msglist[q][i].stamp < m.stamp
  <2>1. \A r \in Messages : r.stamp \in Nat
    BY DEF Messages
  <2> QED BY <1>1, <1>2, <1>5, <2>1
<1>7. /\ n \in Seq(Messages) /\ Len(n) = Len(msglist[q]) + 1 /\ Ordered(n)
      /\ {n[i] : i \in 1 .. Len(n)} =
           {msglist[q][i] : i \in 1 .. Len(msglist[q])} \cup {m}
  BY <1>2, <1>5, <1>6, InsertKeepsOrder
<1> HIDE DEF n
<1> QED BY <1>1, <1>2, <1>3, <1>7

(***************************************************************************)
(* Every step keeps the order.                                             *)
(***************************************************************************)
LEMMA OrderStep ==
  ASSUME Inv, OrderInv, [Next]_vars
  PROVE  OrderInv'
<1> SUFFICES ASSUME NEW r \in Queues
             PROVE  /\ nmsgs'[r] = Len(msglist'[r])
                    /\ \A i, j \in DOMAIN msglist'[r] :
                         i < j => Before(msglist'[r][i], msglist'[r][j])
                    /\ \A i \in 1 .. Len(msglist'[r]) : msglist'[r][i].stamp <= nsent'
  BY DEF OrderInv, QueueOrder
<1> DEFINE Goal == /\ nmsgs'[r] = Len(msglist'[r])
                   /\ \A i, j \in DOMAIN msglist'[r] :
                        i < j => Before(msglist'[r][i], msglist'[r][j])
                   /\ \A i \in 1 .. Len(msglist'[r]) : msglist'[r][i].stamp <= nsent'
<1> SUFFICES Goal
  OBVIOUS
<1>0. /\ nmsgs \in [Queues -> Int] /\ msglist \in [Queues -> Seq(Messages)]
      /\ nsent \in Nat
  BY DEF Inv, TypeOK
<1>1. /\ nmsgs[r] = Len(msglist[r]) /\ Ordered(msglist[r])
      /\ DOMAIN msglist[r] = 1 .. Len(msglist[r])
      /\ \A i \in 1 .. Len(msglist[r]) :
           msglist[r][i] \in Messages /\ msglist[r][i].stamp <= nsent
  BY OrderFacts
<1>2. \A m \in Messages : m.stamp \in Nat
  BY DEF Messages
<1>3. CASE UNCHANGED <<queueVars, nsent>>
  BY <1>1, <1>3 DEF queueVars, Ordered
<1>a. ASSUME msglist'[r] = msglist[r], nmsgs'[r] = nmsgs[r], nsent' \in Nat,
             nsent <= nsent'
      PROVE  Goal
  BY <1>0, <1>1, <1>2, <1>a DEF Ordered
<1>4. ASSUME NEW x \in Contexts, SendInsert(x) PROVE Goal
  <2>1. PICK q \in Queues, m \in Messages, n \in Seq(Messages) :
           /\ m.stamp = nsent + 1 /\ nsent' = nsent + 1
           /\ msglist' = [msglist EXCEPT ![q] = n]
           /\ nmsgs' = [nmsgs EXCEPT ![q] = @ + 1]
           /\ Len(n) = Len(msglist[q]) + 1 /\ Ordered(n)
           /\ {n[i] : i \in 1 .. Len(n)} =
                {msglist[q][i] : i \in 1 .. Len(msglist[q])} \cup {m}
    BY <1>4, InsertFacts
  <2>2. CASE q # r
    <3>1. msglist'[r] = msglist[r] /\ nmsgs'[r] = nmsgs[r] /\ nsent' = nsent + 1
      BY <1>0, <2>1, <2>2
    <3> HIDE DEF Goal
    <3> QED BY <1>0, <1>a, <3>1
  <2>3. CASE q = r
    <3>1. /\ Len(n) = Len(msglist[r]) + 1 /\ Ordered(n)
          /\ {n[i] : i \in 1 .. Len(n)} =
               {msglist[r][i] : i \in 1 .. Len(msglist[r])} \cup {m}
      BY <2>1, <2>3
    <3>2. msglist'[r] = n /\ nmsgs'[r] = Len(n)
      BY <1>0, <1>1, <2>1, <2>3, <3>1
    <3>3. DOMAIN n = 1 .. Len(n)
      BY LenProperties
    <3>4. \A i \in 1 .. Len(n) : n[i].stamp <= nsent + 1
      <4>1. ASSUME NEW i \in 1 .. Len(n) PROVE n[i].stamp <= nsent + 1
        <5>1. n[i] = m \/ \E j \in 1 .. Len(msglist[r]) : n[i] = msglist[r][j]
          BY <3>1
        <5>2. CASE n[i] = m
          BY <1>0, <2>1, <5>2
        <5>3. CASE \E j \in 1 .. Len(msglist[r]) : n[i] = msglist[r][j]
          BY <1>0, <1>1, <1>2, <5>3
        <5> QED BY <5>1, <5>2, <5>3
      <4> QED BY <4>1
    <3> QED BY <2>1, <3>1, <3>2, <3>3, <3>4 DEF Ordered
  <2> QED BY <2>2, <2>3
<1>5. ASSUME NEW t \in Tasks, NEW q \in Queues, Takes(t, q) PROVE Goal
  <2>1. /\ msglist' = [msglist EXCEPT ![q] = Tail(msglist[q])]
        /\ nmsgs' = [nmsgs EXCEPT ![q] = @ - 1] /\ nsent' = nsent
        /\ msglist[q] # <<>>
    BY <1>5 DEF Takes, TakeMessage
  <2>2. CASE q # r
    <3>1. msglist'[r] = msglist[r] /\ nmsgs'[r] = nmsgs[r]
      BY <1>0, <2>1, <2>2
    <3> HIDE DEF Goal
    <3> QED BY <1>0, <1>a, <2>1, <3>1
  <2>3. CASE q = r
    <3> DEFINE n == Tail(msglist[r])
    <3>1. /\ n \in Seq(Messages) /\ Ordered(n) /\ Len(n) = Len(msglist[r]) - 1
          /\ \A i \in 1 .. Len(n) : n[i] = msglist[r][i + 1]
                                    /\ i + 1 \in 1 .. Len(msglist[r])
      BY <1>0, <1>1, <2>1, <2>3, TakeKeepsOrder
    <3> HIDE DEF n
    <3>2. msglist'[r] = n /\ nmsgs'[r] = Len(n)
      BY <1>0, <1>1, <2>1, <2>3, <3>1 DEF n
    <3>3. DOMAIN n = 1 .. Len(n)
      BY <3>1, LenProperties
    <3>4. \A i \in 1 .. Len(n) : n[i].stamp <= nsent
      BY <1>1, <3>1
    <3> QED BY <2>1, <3>1, <3>2, <3>3, <3>4 DEF Ordered
  <2> QED BY <2>2, <2>3
<1> HIDE DEF Goal
<1> QED
  <2>1. \/ UNCHANGED <<queueVars, nsent>>
        \/ \E x \in Contexts : SendInsert(x)
        \/ \E t \in Tasks, q \in Queues : Takes(t, q)
    BY QueueEffects
  <2> QED BY <1>3, <1>4, <1>5, <2>1

(***************************************************************************)
(* Empty queues are in order.                                              *)
(***************************************************************************)
LEMMA OrderInit == Init => OrderInv
<1>1. DOMAIN <<>> = {} /\ Len(<<>>) = 0
  OBVIOUS
<1> QED BY <1>1 DEF Init, OrderInv, QueueOrder

(***************************************************************************)
(* The order invariant always holds.                                       *)
(***************************************************************************)
LEMMA OrderAlways == Spec => []OrderInv
<1>1. Inv /\ OrderInv /\ [Next]_vars => OrderInv'
  BY OrderStep
<1> QED BY <1>1, OrderInit, InvAlways, PTL DEF Spec

(***************************************************************************)
(* QueueOrder: every message list is in descending order of priority and,  *)
(* within a priority, in the order of arrival, and nmsgs is its length, no *)
(* matter how many tasks and interrupt handlers send and receive.          *)
(***************************************************************************)
THEOREM QueueOrderCorrect == Spec => []QueueOrder
BY OrderAlways, PTL DEF OrderInv

(***************************************************************************)
(* The messages in a queue, as a set: the value of the abstract variable.  *)
(***************************************************************************)
Contents == [q \in Queues |-> {msglist[q][i] : i \in DOMAIN msglist[q]}]

(***************************************************************************)
(* Queueing a message is a Send of the priority channel.                   *)
(***************************************************************************)
LEMMA InsertIsSend ==
  ASSUME Inv, OrderInv, NEW x \in Contexts, SendInsert(x)
  PROVE  \E q \in Queues, m \in Messages :
           /\ m \in Contents'[q]
           /\ \A n \in Contents[q] : n.stamp < m.stamp
           /\ Contents' = [Contents EXCEPT ![q] = @ \cup {m}]
<1>0. msglist \in [Queues -> Seq(Messages)] /\ nsent \in Nat
  BY DEF Inv, TypeOK
<1>1. PICK q \in Queues, m \in Messages, n \in Seq(Messages) :
         /\ m.stamp = nsent + 1 /\ nsent' = nsent + 1
         /\ msglist' = [msglist EXCEPT ![q] = n]
         /\ nmsgs' = [nmsgs EXCEPT ![q] = @ + 1]
         /\ Len(n) = Len(msglist[q]) + 1 /\ Ordered(n)
         /\ {n[i] : i \in 1 .. Len(n)} =
              {msglist[q][i] : i \in 1 .. Len(msglist[q])} \cup {m}
  BY InsertFacts
<1>2. /\ DOMAIN n = 1 .. Len(n)
      /\ DOMAIN msglist[q] = 1 .. Len(msglist[q])
  BY <1>0, LenProperties
<1>3. \A i \in 1 .. Len(msglist[q]) :
        msglist[q][i] \in Messages /\ msglist[q][i].stamp <= nsent
  BY OrderFacts
<1>4. \A r \in Messages : r.stamp \in Nat
  BY DEF Messages
<1>5. Contents[q] = {msglist[q][i] : i \in 1 .. Len(msglist[q])}
  BY <1>2 DEF Contents
<1>6. ASSUME NEW e \in Contents[q] PROVE e.stamp < m.stamp
  BY <1>0, <1>1, <1>3, <1>4, <1>5
<1>7. msglist'[q] = n
  BY <1>0, <1>1
<1>8. Contents'[q] = Contents[q] \cup {m}
  <2>1. Contents'[q] = {msglist'[q][i] : i \in DOMAIN msglist'[q]}
    BY DEF Contents
  <2>2. Contents'[q] = {n[i] : i \in 1 .. Len(n)}
    BY <1>2, <1>7, <2>1
  <2>3. {n[i] : i \in 1 .. Len(n)} =
          {msglist[q][i] : i \in 1 .. Len(msglist[q])} \cup {m}
    BY <1>1
  <2> HIDE DEF Contents
  <2> QED BY <1>5, <2>2, <2>3
<1>9. \A r \in Queues : r # q => Contents'[r] = Contents[r]
  BY <1>0, <1>1 DEF Contents
<1>10. Contents' = [Contents EXCEPT ![q] = @ \cup {m}]
  BY <1>8, <1>9 DEF Contents
<1> QED BY <1>6, <1>8, <1>10

(***************************************************************************)
(* Taking the head of a message list is a Receive of the priority channel. *)
(***************************************************************************)
LEMMA TakeIsReceive ==
  ASSUME Inv, OrderInv, NEW t \in Tasks, NEW q \in Queues, Takes(t, q)
  PROVE  \E m \in Contents[q] :
           /\ \A n \in Contents[q] \ {m} : Before(m, n)
           /\ Contents' = [Contents EXCEPT ![q] = @ \ {m}]
<1> DEFINE s == msglist[q]
           n == Tail(s)
           m == Head(s)
<1>0. msglist \in [Queues -> Seq(Messages)]
  BY DEF Inv, TypeOK
<1>1. /\ msglist' = [msglist EXCEPT ![q] = n] /\ s # <<>>
  BY DEF Takes, TakeMessage
<1>2. /\ s \in Seq(Messages) /\ Ordered(s) /\ DOMAIN s = 1 .. Len(s)
  BY OrderFacts
<1> HIDE DEF s
<1>3. /\ m \in Messages /\ n \in Seq(Messages)
      /\ \A i \in 1 .. Len(n) : Before(m, n[i])
      /\ {s[i] : i \in 1 .. Len(s)} = {n[i] : i \in 1 .. Len(n)} \cup {m}
  BY <1>1, <1>2, TakeKeepsOrder
<1> HIDE DEF n, m
<1>4. DOMAIN n = 1 .. Len(n)
  BY <1>3, LenProperties
<1>5. Contents[q] = {s[i] : i \in 1 .. Len(s)}
  BY <1>2 DEF Contents, s
<1>6. msglist'[q] = n
  BY <1>0, <1>1
<1>7. Contents'[q] = {n[i] : i \in 1 .. Len(n)}
  BY <1>4, <1>6 DEF Contents
<1>8. ~Before(m, m)
  <2>1. m.prio \in Nat /\ m.stamp \in Nat
    BY <1>3, AttributesAreNumbers DEF Messages
  <2> QED BY <2>1 DEF Before
<1>9. m \notin Contents'[q]
  BY <1>3, <1>7, <1>8
<1>10. Contents[q] = Contents'[q] \cup {m}
  BY <1>3, <1>5, <1>7
<1>11. Contents'[q] = Contents[q] \ {m} /\ m \in Contents[q]
  BY <1>9, <1>10
<1>12. \A e \in Contents[q] \ {m} : Before(m, e)
  BY <1>3, <1>7, <1>11
<1>13. \A r \in Queues : r # q => Contents'[r] = Contents[r]
  BY <1>0, <1>1 DEF Contents
<1>14. Contents' = [Contents EXCEPT ![q] = @ \ {m}]
  BY <1>11, <1>13 DEF Contents
<1> QED BY <1>11, <1>12, <1>14

(***************************************************************************)
(* IsPriorityChannel: the kernel's queues, with their lists, free pools,   *)
(* blocking and preemption, implement the priority channels: a message is  *)
(* delivered once, and a receive always gets the oldest message of the     *)
(* highest priority.                                                       *)
(***************************************************************************)
THEOREM ChannelImplemented == Spec => IsPriorityChannel
<1>1. Init => Channel!Init
  <2>1. DOMAIN <<>> = {}
    OBVIOUS
  <2> QED BY <2>1 DEF Init, Channel!Init
<1>2. Inv /\ OrderInv /\ [Next]_vars => [Channel!Next]_Contents
  <2> SUFFICES ASSUME Inv, OrderInv, [Next]_vars
               PROVE  Channel!Next \/ Contents' = Contents
    OBVIOUS
  <2>1. CASE UNCHANGED <<queueVars, nsent>>
    BY <2>1 DEF Contents, queueVars
  <2>2. ASSUME NEW x \in Contexts, SendInsert(x) PROVE Channel!Next
    <3>1. PICK q \in Queues, m \in Messages :
            /\ m \in Contents'[q]
            /\ \A n \in Contents[q] : n.stamp < m.stamp
            /\ Contents' = [Contents EXCEPT ![q] = @ \cup {m}]
      BY <2>2, InsertIsSend
    <3>2. Channel!Send(q, m)
      BY <3>1 DEF Channel!Send, Contents
    <3> QED BY <3>1, <3>2 DEF Channel!Next, Contents
  <2>3. ASSUME NEW t \in Tasks, NEW q \in Queues, Takes(t, q) PROVE Channel!Next
    <3>1. PICK m \in Contents[q] :
            /\ \A n \in Contents[q] \ {m} : Before(m, n)
            /\ Contents' = [Contents EXCEPT ![q] = @ \ {m}]
      BY <2>3, TakeIsReceive
    <3>2. Channel!Receive(q, m)
      BY <3>1 DEF Channel!Receive, Contents, Before
    <3> QED BY <3>1, <3>2 DEF Channel!Next, Contents
  <2> QED BY <2>1, <2>2, <2>3, QueueEffects
<1>3. [Channel!Next]_Contents =>
        [Channel!Next]_([q \in Queues |-> {msglist[q][i] : i \in DOMAIN msglist[q]}])
  BY DEF Contents
<1> QED BY <1>1, <1>2, <1>3, InvAlways, OrderAlways, PTL
         DEF Spec, IsPriorityChannel, Channel!Spec

-----------------------------------------------------------------------------
(***************************************************************************)
(* What the calls on message queues do together: the exclusion by          *)
(* sched_lock, the wake-ups, the notifications, the search for a task to   *)
(* wake, and the messages of the pools.                                    *)
(***************************************************************************)

(***************************************************************************)
(* The places in a call where a task holds sched_lock: it is the running   *)
(* task, so there is one such task.                                        *)
(***************************************************************************)
LockedPcs == {"alloc", "insert", "ntest", "ntake", "nsend", "wake",
              "free", "check", "wakenf"}
LockInv == \A t \in Tasks : pc[t] \in LockedPcs => locked = t

(***************************************************************************)
(* A task that waits has no error yet.                                     *)
(***************************************************************************)
ErrInv == \A t \in Tasks : InMqWait(t) => errcode[t] = "OK"

(***************************************************************************)
(* A step of a task that can run keeps LockInv if it does so for the task. *)
(***************************************************************************)
LEMMA LockedTaskSteps ==
  ASSUME LockInv, NEW t \in Tasks, CanRun(t),
         \A u \in Tasks \ {t} : pc'[u] = pc[u],
         pc'[t] \in LockedPcs => locked' = t
  PROVE  LockInv'
<1> SUFFICES ASSUME NEW u \in Tasks, u # t, pc[u] \in LockedPcs PROVE FALSE
  BY DEF LockInv
<1> QED BY ContextsDiffer DEF LockInv, CanRun

(***************************************************************************)
(* Every step keeps LockInv: a task comes to such a place only by          *)
(* sched_lock, and leaves it when it blocks or returns.                    *)
(***************************************************************************)
LEMMA LockStep ==
  ASSUME Inv, LockInv, [Next]_vars
  PROVE  LockInv'
<1> DEFINE Goal == LockInv'
<1> SUFFICES Goal
  OBVIOUS
<1>0. /\ pc \in [Contexts -> PcStates] /\ Tasks \subseteq Contexts /\ ISR \in Contexts
      /\ ISR \notin Tasks /\ NONE \notin Tasks
  BY ContextsDiffer DEF Inv, TypeOK, Contexts
<1>a. ASSUME UNCHANGED locked, \A u \in Tasks : pc'[u] = pc[u] \/ pc'[u] \notin LockedPcs
      PROVE  Goal
  BY <1>a DEF LockInv
<1>b. ASSUME NEW t \in Tasks, CanRun(t), NEW l, pc' = [pc EXCEPT ![t] = l],
             l \in LockedPcs => locked' = t
      PROVE  Goal
  <2>1. \A u \in Tasks \ {t} : pc'[u] = pc[u]
    BY <1>0, <1>b
  <2>2. pc'[t] = l
    BY <1>0, <1>b
  <2> QED BY <1>b, <2>1, <2>2, LockedTaskSteps
<1>c. "out" \notin LockedPcs /\ "wait_send" \notin LockedPcs /\ "wait_recv" \notin LockedPcs
      /\ "heap" \notin LockedPcs /\ "hfree" \notin LockedPcs
      /\ "tstart" \notin LockedPcs /\ "removed" \notin LockedPcs /\ "dead" \notin LockedPcs
  BY DEF LockedPcs
<1>d. ASSUME NEW t \in Tasks, CanRun(t), NEW code, Return(t, code) PROVE Goal
  BY <1>b, <1>c, <1>d DEF Return, Goto
<1>e. ASSUME NEW t \in Tasks, NEW l, Goto(t, l), Lock(t), CanRun(t) PROVE Goal
  BY <1>0, <1>b, <1>e DEF Goto, Lock
<1>f. ASSUME NEW t \in Tasks, CanRun(t), NEW l, Goto(t, l), l \notin LockedPcs PROVE Goal
  BY <1>b, <1>f DEF Goto
<1>g. ASSUME NEW t \in Tasks, NEW q, CanRun(t), UNCHANGED pc, pc[t] \notin LockedPcs
      PROVE  Goal
  BY <1>0, <1>g, LockedTaskSteps
<1>h. ASSUME NEW t \in Tasks, CanRun(t), NEW l, Goto(t, l), UNCHANGED locked,
             pc[t] \in LockedPcs
      PROVE  Goal
  BY <1>b, <1>h DEF Goto, LockInv
<1>1. ASSUME NEW t \in Tasks, Call(t) PROVE Goal
  <2>1. CASE UNCHANGED <<pc, locked>>
    BY <2>1, <1>a
  <2>2. ASSUME NEW oflags, NEW q, NEW prio, MqSend(t, q, oflags, prio) PROVE Goal
    BY <2>2, <1>c, <1>d, <1>e, <1>f DEF MqSend
  <2>3. ASSUME NEW oflags, NEW q, NEW prio, MqTimedSend(t, q, oflags, prio) PROVE Goal
    BY <2>3, <2>1, <1>c, <1>f DEF MqTimedSend
  <2>4. ASSUME NEW oflags, NEW q, NEW timed, NEW time,
               ReceiveStart(t, q, oflags, timed, time)
        PROVE  Goal
    BY <2>4, <1>c, <1>d, <1>e, <1>f DEF ReceiveStart, TakeMessage
  <2> HIDE DEF Goal
  <2> QED
    BY <1>1, <2>1, <2>2, <2>3, <2>4
    DEF Call, MqReceive, MqTimedReceive, MqSendRejected, MqReceiveRejected, mq_notify
<1>2. ASSUME SendStep(ISR) PROVE Goal
  <2>1. \A u \in Tasks : pc'[u] = pc[u]
    BY <1>0, <1>2 DEF SendStep, SendAlloc, SendInsert, NotifyTest, NotifyTake,
       NotifySend, SendWake, Return, Goto
  <2>2. UNCHANGED locked
    BY <1>2 DEF SendStep, SendAlloc, SendInsert, NotifyTest, NotifyTake,
       NotifySend, SendWake, Return, Lock
  <2> QED BY <1>a, <2>1, <2>2
<1>3. ASSUME NEW t \in Tasks, TaskStep(t) PROVE Goal
  <2>0. t # ISR
    BY <1>0
  <2>1. CASE SendStep(t)
    <3>1. CanRun(t)
      BY <2>0, <2>1 DEF SendStep, SendAlloc, SendInsert, NotifyTest, NotifyTake,
         NotifySend, SendWake, Steps
    <3>2. SendAlloc(t) \/ pc[t] \in LockedPcs
      BY <2>1 DEF SendStep, SendInsert, NotifyTest, NotifyTake, NotifySend, SendWake,
         LockedPcs
    <3>3. \/ \E code : Return(t, code)
          \/ \E l : Goto(t, l) /\ Lock(t)
          \/ ~SendAlloc(t) /\ UNCHANGED locked /\ \E l : Goto(t, l)
      BY <2>1 DEF SendStep, SendAlloc, SendInsert, NotifyTest, NotifyTake,
         NotifySend, SendWake
    <3> HIDE DEF Goal
    <3> QED BY <3>1, <3>2, <3>3, <1>d, <1>e, <1>h
  <2>2. CASE ResumeSend(t) \/ ResumeReceive(t)
    <3>1. CanRun(t) /\ pc[t] \notin LockedPcs
      BY <2>2 DEF ResumeSend, ResumeReceive, LockedPcs
    <3>2. \/ \E code : Return(t, code)
          \/ UNCHANGED pc
          \/ \E l : Goto(t, l) /\ Lock(t)
      BY <2>2 DEF ResumeSend, ResumeReceive, TakeMessage, callVars
    <3> HIDE DEF Goal
    <3> QED BY <3>1, <3>2, <1>d, <1>e, <1>g
  <2>3. ASSUME NEW nonblock, NEW time, TimedSendStart(t, nonblock, time) PROVE Goal
    BY <2>3, <1>c, <1>d, <1>e, <1>f DEF TimedSendStart
  <2>4. CASE ReceiveFree(t) \/ ReceiveCheck(t) \/ ReceiveWake(t)
    <3>1. CanRun(t) /\ (ReceiveFree(t) \/ pc[t] \in LockedPcs)
      BY <2>4 DEF ReceiveFree, ReceiveCheck, ReceiveWake, LockedPcs
    <3>3. \/ \E code : Return(t, code)
          \/ \E l : Goto(t, l) /\ Lock(t)
          \/ ~ReceiveFree(t) /\ UNCHANGED locked /\ \E l : Goto(t, l)
      BY <2>4 DEF ReceiveFree, ReceiveCheck, ReceiveWake
    <3> HIDE DEF Goal
    <3> QED BY <3>1, <3>3, <1>d, <1>e, <1>h
  <2>5. CASE HeapWait(t)
    BY <2>5, <1>c, <1>f DEF HeapWait
  <2> HIDE DEF Goal
  <2> QED BY <1>3, <2>1, <2>2, <2>3, <2>4, <2>5 DEF TaskStep
<1>4. ASSUME NEW q, NEW prio, IsrSend(q, prio) PROVE Goal
  BY <1>0, <1>4, <1>a DEF IsrSend, Goto
<1>5. ASSUME NEW t \in Tasks, WaitTimeout(t) \/ SignalTask(t) PROVE Goal
  BY <1>5, <1>a DEF WaitTimeout, SignalTask, callVars
<1>6. ASSUME NEW t \in Tasks, TaskTerminate(t) \/ TaskRecover(t) PROVE Goal
  BY <1>0, <1>6, <1>a, <1>c DEF TaskTerminate, TaskRecover, Goto
<1>7. CASE UNCHANGED vars
  BY <1>7, <1>a DEF vars, callVars
<1> HIDE DEF Goal
<1> QED BY <1>1, <1>2, <1>3, <1>4, <1>5, <1>6, <1>7 DEF Next, Halted

(***************************************************************************)
(* sched_lock excludes: at most one task is in the part of a call where    *)
(* the code relies on it.                                                  *)
(***************************************************************************)
LEMMA LockAlways == Spec => []LockInv
<1>1. Init => LockInv
  BY DEF Init, LockInv, LockedPcs, Contexts
<1>2. Inv /\ LockInv /\ [Next]_vars => LockInv'
  BY LockStep
<1> QED BY <1>1, <1>2, InvAlways, PTL DEF Spec

(***************************************************************************)
(* Every step keeps ErrInv: a block clears errcode, and what sets it ends  *)
(* the wait.                                                               *)
(***************************************************************************)
LEMMA ErrStep ==
  ASSUME Inv, ErrInv, [Next]_vars
  PROVE  ErrInv'
<1> DEFINE Goal == ErrInv'
<1> SUFFICES Goal
  OBVIOUS
<1>0. /\ task_state \in [Tasks -> TaskStates] /\ errcode \in [Tasks -> ErrCodes]
      /\ WaitTypes
  BY TypeSplit DEF Inv, WaitTypes
<1>a. ASSUME UNCHANGED <<task_state, errcode>> PROVE Goal
  BY <1>a DEF ErrInv, InMqWait
<1>b. ASSUME NEW t \in Tasks, NEW q, BlockNotFull(t, q) \/ BlockNotEmpty(t, q) PROVE Goal
  BY <1>0, <1>b DEF ErrInv, InMqWait, BlockNotFull, BlockNotEmpty
<1>c. ASSUME NEW t \in Tasks, NEW code, nxmq_wait_irq(t, code) PROVE Goal
  BY <1>0, <1>c DEF ErrInv, InMqWait, nxmq_wait_irq
<1>d. ASSUME NEW q, WakeNotFull(q) \/ WakeNotEmpty(q), UNCHANGED errcode PROVE Goal
  <2>1. \A u \in Tasks : task_state'[u] = "READY" \/ task_state'[u] = task_state[u]
    BY <1>0, <1>d, WakeTouches
  <2> QED BY <1>d, <2>1 DEF ErrInv, InMqWait
<1>1. ASSUME NEW t \in Tasks, Call(t) PROVE Goal
  <2>2. ASSUME NEW oflags, NEW q, NEW prio, MqSend(t, q, oflags, prio) PROVE Goal
    BY <2>2, <1>a, <1>b DEF MqSend, waitVars
  <2>3. ASSUME NEW oflags, NEW q, NEW prio, MqTimedSend(t, q, oflags, prio) PROVE Goal
    BY <2>3, <1>a DEF MqTimedSend, waitVars
  <2>4. ASSUME NEW oflags, NEW q, NEW timed, NEW time,
               ReceiveStart(t, q, oflags, timed, time)
        PROVE  Goal
    BY <2>4, <1>a, <1>b DEF ReceiveStart, waitVars
  <2>5. CASE UNCHANGED <<waitVars, errcode>>
    BY <2>5, <1>a DEF waitVars
  <2> HIDE DEF Goal
  <2> QED
    BY <1>1, <2>2, <2>3, <2>4, <2>5
    DEF Call, MqReceive, MqTimedReceive, MqSendRejected, MqReceiveRejected, mq_notify
<1>2. ASSUME NEW x \in Contexts, SendStep(x) PROVE Goal
  <2>1. CASE NotifySend(x)
    <3>0. frame[x] \in Frames
      BY TypeSplit DEF Inv, CallTypes
    <3>1. frame[x].pid # NONE => frame[x].pid \in Tasks
      BY <3>0 DEF Frames
    <3> QED BY <2>1, <3>1, <1>a, <1>c DEF NotifySend, waitVars
  <2>2. CASE SendWake(x)
    BY <2>2, <1>d DEF SendWake
  <2>3. CASE UNCHANGED <<waitVars, errcode>>
    BY <2>3, <1>a DEF waitVars
  <2> HIDE DEF Goal
  <2> QED BY <1>2, <2>1, <2>2, <2>3
          DEF SendStep, SendAlloc, SendInsert, NotifyTest, NotifyTake
<1>3. ASSUME NEW t \in Tasks, TaskStep(t) PROVE Goal
  <2>0. t \in Contexts
    BY DEF Contexts
  <2>1. CASE ResumeSend(t) \/ ResumeReceive(t)
    BY <2>1, <1>a, <1>b DEF ResumeSend, ResumeReceive, waitVars
  <2>2. ASSUME NEW nonblock, NEW time, TimedSendStart(t, nonblock, time) PROVE Goal
    BY <2>2, <1>a, <1>b DEF TimedSendStart, waitVars
  <2>3. CASE ReceiveFree(t) \/ ReceiveCheck(t) \/ HeapWait(t)
    BY <2>3, <1>a DEF ReceiveFree, ReceiveCheck, HeapWait, waitVars
  <2>4. CASE ReceiveWake(t)
    BY <2>4, <1>d DEF ReceiveWake
  <2> HIDE DEF Goal
  <2> QED BY <1>2, <1>3, <2>0, <2>1, <2>2, <2>3, <2>4 DEF TaskStep
<1>4. ASSUME NEW q, NEW prio, IsrSend(q, prio) PROVE Goal
  BY <1>4, <1>a DEF IsrSend, waitVars
<1>5. ASSUME NEW t \in Tasks, WaitTimeout(t) \/ SignalTask(t) PROVE Goal
  BY <1>5, <1>a, <1>c DEF WaitTimeout, SignalTask, waitVars
<1>6. ASSUME NEW t \in Tasks, TaskTerminate(t) \/ TaskRecover(t) PROVE Goal
  BY <1>0, <1>6 DEF TaskTerminate, TaskRecover, ErrInv, InMqWait
<1>7. CASE UNCHANGED vars
  BY <1>7, <1>a DEF vars, waitVars
<1>8. ISR \in Contexts
  BY DEF Contexts
<1> HIDE DEF Goal
<1> QED BY <1>1, <1>2, <1>3, <1>4, <1>5, <1>6, <1>7, <1>8 DEF Next, Halted

(***************************************************************************)
(* No task is being deleted, or has been.                                  *)
(***************************************************************************)
NoneDeleted == \A t \in Tasks : pc[t] \notin {"removed", "dead"}

(***************************************************************************)
(* A task that nobody may delete stays.                                    *)
(***************************************************************************)
LEMMA DeletedStep ==
  ASSUME Inv, NoneDeleted, Deletable = {}, [Next]_vars
  PROVE  NoneDeleted'
<1> DEFINE Goal == NoneDeleted'
<1> SUFFICES Goal
  OBVIOUS
<1>0. pc \in [Contexts -> PcStates] /\ Tasks \subseteq Contexts /\ ISR \in Contexts
  BY ContextsDiffer DEF Inv, TypeOK, Contexts
<1>a. ASSUME NEW x \in Contexts, NEW l, Goto(x, l), l \notin {"removed", "dead"} PROVE Goal
  BY <1>0, <1>a DEF Goto, NoneDeleted
<1>b. ASSUME UNCHANGED pc PROVE Goal
  BY <1>b DEF NoneDeleted
<1>1. ASSUME NEW t \in Tasks, Call(t) PROVE Goal
  <2>1. t \in Contexts
    BY <1>0
  <2>2. ASSUME NEW oflags, NEW q, NEW prio,
               MqSend(t, q, oflags, prio) \/ MqTimedSend(t, q, oflags, prio)
        PROVE  Goal
    BY <2>1, <2>2, <1>a, <1>b DEF MqSend, MqTimedSend, Return
  <2>4. ASSUME NEW oflags, NEW q, NEW timed, NEW time,
               ReceiveStart(t, q, oflags, timed, time)
        PROVE  Goal
    BY <2>1, <2>4, <1>a, <1>b DEF ReceiveStart, TakeMessage, Return
  <2> HIDE DEF Goal
  <2> QED
    BY <1>1, <1>b, <2>2, <2>4
    DEF Call, MqReceive, MqTimedReceive, MqSendRejected, MqReceiveRejected, mq_notify
<1>2. ASSUME NEW x \in Contexts, SendStep(x) PROVE Goal
  BY <1>2, <1>a DEF SendStep, SendAlloc, SendInsert, NotifyTest, NotifyTake, NotifySend,
     SendWake, Return
<1>3. ASSUME NEW t \in Tasks, TaskStep(t) PROVE Goal
  <2>1. t \in Contexts
    BY <1>0
  <2>2. CASE ResumeSend(t) \/ ResumeReceive(t)
    BY <2>1, <2>2, <1>a, <1>b DEF ResumeSend, ResumeReceive, Return, TakeMessage, callVars
  <2>3. ASSUME NEW nonblock, NEW time, TimedSendStart(t, nonblock, time) PROVE Goal
    BY <2>1, <2>3, <1>a DEF TimedSendStart, Return
  <2>4. CASE ReceiveFree(t) \/ ReceiveCheck(t) \/ ReceiveWake(t) \/ HeapWait(t)
    BY <2>1, <2>4, <1>a DEF ReceiveFree, ReceiveCheck, ReceiveWake, HeapWait, Return
  <2> HIDE DEF Goal
  <2> QED BY <1>2, <1>3, <2>1, <2>2, <2>3, <2>4 DEF TaskStep
<1>4. ASSUME NEW q, NEW prio, IsrSend(q, prio) PROVE Goal
  BY <1>0, <1>4, <1>a DEF IsrSend
<1>5. ASSUME NEW t \in Tasks, WaitTimeout(t) \/ SignalTask(t) PROVE Goal
  BY <1>5, <1>b DEF WaitTimeout, SignalTask, callVars
<1>6. ASSUME NEW t \in Tasks, TaskTerminate(t) \/ TaskRecover(t) PROVE Goal
  BY <1>6 DEF TaskTerminate, TaskRecover, NoneDeleted
<1>7. CASE UNCHANGED vars
  BY <1>7, <1>b DEF vars, callVars
<1> HIDE DEF Goal
<1> QED BY <1>0, <1>1, <1>2, <1>3, <1>4, <1>5, <1>6, <1>7 DEF Next, Halted

(***************************************************************************)
(* The contexts that account for a message of q while a receiver waits,    *)
(* and those that account for a free place in q while a sender waits.      *)
(***************************************************************************)
Takers(q) == WokenReceivers(q) \cup SendsToSignal(q)
Fillers(q) == WokenSenders(q) \cup SendersWithRoom(q) \cup ReceivesToSignal(q)

(***************************************************************************)
(* NoLostWakeup queue by queue, with one set for the contexts it counts.   *)
(***************************************************************************)
Flow(q) ==
    /\ BlockedOn("WAIT_MQNOTEMPTY", q) # {} => nmsgs[q] <= Cardinality(Takers(q))
    /\ BlockedOn("WAIT_MQNOTFULL", q) # {} =>
         maxmsgs[q] - nmsgs[q] <= Cardinality(Fillers(q))
FlowInv == \A q \in Queues : Flow(q)

(***************************************************************************)
(* There are finitely many contexts, so the sets have cardinalities.       *)
(***************************************************************************)
LEMMA FlowFinite ==
  ASSUME NEW q
  PROVE  /\ IsFiniteSet(Takers(q)) /\ IsFiniteSet(Fillers(q))
         /\ IsFiniteSet(WokenReceivers(q)) /\ IsFiniteSet(SendsToSignal(q))
         /\ IsFiniteSet(WokenSenders(q)) /\ IsFiniteSet(SendersWithRoom(q))
         /\ IsFiniteSet(ReceivesToSignal(q))
<1>1. IsFiniteSet(Tasks) /\ IsFiniteSet(Contexts)
  BY ContextsDiffer, FS_AddElement DEF Contexts
<1>2. /\ WokenReceivers(q) \subseteq Tasks /\ SendsToSignal(q) \subseteq Contexts
      /\ WokenSenders(q) \subseteq Tasks /\ SendersWithRoom(q) \subseteq Tasks
      /\ ReceivesToSignal(q) \subseteq Tasks
  BY DEF WokenReceivers, SendsToSignal, WokenSenders, SendersWithRoom, ReceivesToSignal
<1>3. Takers(q) \subseteq Contexts /\ Fillers(q) \subseteq Tasks
  BY <1>2 DEF Takers, Fillers, Contexts
<1> QED BY <1>1, <1>2, <1>3, FS_Subset

(***************************************************************************)
(* The cardinality of the union of two disjoint sets.                      *)
(***************************************************************************)
LEMMA DisjointUnion ==
  ASSUME NEW A, NEW B, IsFiniteSet(A), IsFiniteSet(B), A \cap B = {}
  PROVE  /\ IsFiniteSet(A \cup B)
         /\ Cardinality(A \cup B) = Cardinality(A) + Cardinality(B)
<1>1. Cardinality(A \cap B) = 0
  BY FS_EmptySet
<1>2. /\ IsFiniteSet(A \cup B)
      /\ Cardinality(A \cup B) = Cardinality(A) + Cardinality(B) - Cardinality(A \cap B)
  BY FS_Union
<1>3. Cardinality(A) \in Nat /\ Cardinality(B) \in Nat
  BY FS_CardinalityType
<1> QED BY <1>1, <1>2, <1>3

(***************************************************************************)
(* The contexts that NoLostWakeup counts are at different places in their  *)
(* calls, so none is counted twice.                                        *)
(***************************************************************************)
LEMMA FlowCounts == NoLostWakeup <=> FlowInv
<1>1. ASSUME NEW q
      PROVE  Cardinality(Takers(q)) =
               Cardinality(WokenReceivers(q)) + Cardinality(SendsToSignal(q))
  <2>1. WokenReceivers(q) \cap SendsToSignal(q) = {}
    BY DEF WokenReceivers, SendsToSignal
  <2>2. IsFiniteSet(WokenReceivers(q)) /\ IsFiniteSet(SendsToSignal(q))
    BY FlowFinite
  <2> QED BY <2>1, <2>2, DisjointUnion DEF Takers
<1>2. ASSUME NEW q
      PROVE  Cardinality(Fillers(q)) =
               Cardinality(WokenSenders(q)) + Cardinality(SendersWithRoom(q))
               + Cardinality(ReceivesToSignal(q))
  <2> DEFINE A == WokenSenders(q)
             B == SendersWithRoom(q)
             C == ReceivesToSignal(q)
  <2>1. A \cap B = {} /\ (A \cup B) \cap C = {}
    BY DEF WokenSenders, SendersWithRoom, ReceivesToSignal
  <2>2. IsFiniteSet(A) /\ IsFiniteSet(B) /\ IsFiniteSet(C)
    BY FlowFinite
  <2>4. Fillers(q) = (A \cup B) \cup C
    BY DEF Fillers
  <2> HIDE DEF A, B, C
  <2>5. IsFiniteSet(A \cup B) /\ Cardinality(A \cup B) = Cardinality(A) + Cardinality(B)
    BY <2>1, <2>2, DisjointUnion
  <2>6. Cardinality((A \cup B) \cup C) = Cardinality(A) + Cardinality(B) + Cardinality(C)
    BY <2>1, <2>2, <2>5, DisjointUnion
  <2> QED BY <2>4, <2>6 DEF A, B, C
<1> QED BY <1>1, <1>2 DEF NoLostWakeup, ReceiversWoken, SendersWoken, FlowInv, Flow

(***************************************************************************)
(* A number that a set bounds is still bounded when the set loses no more  *)
(* than the number does, or wins as much.                                  *)
(***************************************************************************)
LEMMA Covered ==
  ASSUME NEW U, NEW W, IsFiniteSet(U), IsFiniteSet(W), NEW n \in Int, NEW m \in Int,
         NEW x, NEW b, n <= Cardinality(U),
         \/ m <= n /\ U \subseteq W
         \/ m <= n + 1 /\ x \notin U /\ U \cup {x} \subseteq W
         \/ m <= n - 1 /\ U \ {x} \subseteq W
         \/ m <= n /\ b \notin U /\ (U \ {x}) \cup {b} \subseteq W
  PROVE  m <= Cardinality(W)
<1>0. Cardinality(U) \in Nat /\ Cardinality(W) \in Nat
  BY FS_CardinalityType
<1>1. CASE m <= n /\ U \subseteq W
  BY <1>0, <1>1, FS_Subset
<1>2. CASE m <= n + 1 /\ x \notin U /\ U \cup {x} \subseteq W
  <2>1. Cardinality(U \cup {x}) = Cardinality(U) + 1
    BY <1>2, FS_AddElement
  <2> QED BY <1>0, <1>2, <2>1, FS_Subset
<1>3. IsFiniteSet(U \ {x}) /\ Cardinality(U \ {x}) \in Nat
      /\ Cardinality(U \ {x}) >= Cardinality(U) - 1
  BY <1>0, FS_RemoveElement, FS_CardinalityType
<1>4. CASE m <= n - 1 /\ U \ {x} \subseteq W
  BY <1>0, <1>3, <1>4, FS_Subset
<1>5. CASE m <= n /\ b \notin U /\ (U \ {x}) \cup {b} \subseteq W
  <2>1. Cardinality((U \ {x}) \cup {b}) = Cardinality(U \ {x}) + 1
    BY <1>3, <1>5, FS_AddElement
  <2>2. Cardinality((U \ {x}) \cup {b}) <= Cardinality(W)
    BY <1>5, FS_Subset
  <2> QED BY <1>0, <1>3, <1>5, <2>1, <2>2
<1> QED BY <1>1, <1>2, <1>4, <1>5

(***************************************************************************)
(* The step belongs to context x, and what it does to another task is at   *)
(* most to end its wait.                                                   *)
(***************************************************************************)
Undisturbed(x) ==
    /\ \A y \in Contexts \ {x} : pc'[y] = pc[y] /\ frame'[y] = frame[y]
    /\ \A u \in Tasks \ {x} :
         /\ \/ task_state'[u] = "READY"
            \/ task_state'[u] = task_state[u] /\ msgwaitq'[u] = msgwaitq[u]
         /\ task_state[u] = "READY" => errcode'[u] = errcode[u]

(***************************************************************************)
(* Such a step takes no other context out of Takers or Fillers and blocks  *)
(* no other task.                                                          *)
(***************************************************************************)
LEMMA UndisturbedKeeps ==
  ASSUME NEW x, Undisturbed(x), NEW q
  PROVE  /\ Takers(q) \ {x} \subseteq Takers(q)'
         /\ Fillers(q) \ {x} \subseteq Fillers(q)'
         /\ BlockedOn("WAIT_MQNOTEMPTY", q)' \subseteq BlockedOn("WAIT_MQNOTEMPTY", q) \cup {x}
         /\ BlockedOn("WAIT_MQNOTFULL", q)' \subseteq BlockedOn("WAIT_MQNOTFULL", q) \cup {x}
<1>1. Takers(q) \ {x} \subseteq Takers(q)'
  BY DEF Undisturbed, Takers, WokenReceivers, SendsToSignal, Contexts
<1>2. Fillers(q) \ {x} \subseteq Fillers(q)'
  BY DEF Undisturbed, Fillers, WokenSenders, SendersWithRoom, ReceivesToSignal, Contexts
<1>3. ASSUME NEW state \in {"WAIT_MQNOTEMPTY", "WAIT_MQNOTFULL"}
      PROVE  BlockedOn(state, q)' \subseteq BlockedOn(state, q) \cup {x}
  BY <1>3 DEF Undisturbed, BlockedOn
<1> QED BY <1>1, <1>2, <1>3

(***************************************************************************)
(* The task that takes a step is not blocked after it.                     *)
(***************************************************************************)
LEMMA NotBlocked ==
  ASSUME NEW x, x \in Tasks => task_state'[x] = "READY", NEW q
  PROVE  /\ x \notin BlockedOn("WAIT_MQNOTEMPTY", q)'
         /\ x \notin BlockedOn("WAIT_MQNOTFULL", q)'
BY DEF BlockedOn

(***************************************************************************)
(* The flow of a queue after a step, from what the step does to the        *)
(* number of messages and to the two sets of contexts.                     *)
(***************************************************************************)
LEMMA FlowKept ==
  ASSUME NEW q \in Queues, Flow(q), nmsgs[q] \in Int, nmsgs'[q] \in Int,
         NEW x, NEW b, NEW x2, NEW b2,
         LET n == nmsgs[q]
             E == BlockedOn("WAIT_MQNOTEMPTY", q)
             U == Takers(q)
         IN  \/ E' = {}
             \/ nmsgs'[q] <= 0
             \/ E' \subseteq E /\ nmsgs'[q] <= n /\ U \subseteq U'
             \/ E' \subseteq E /\ nmsgs'[q] <= n + 1 /\ x \notin U /\ U \cup {x} \subseteq U'
             \/ E' \subseteq E /\ nmsgs'[q] <= n - 1 /\ U \ {x} \subseteq U'
             \/ E' \subseteq E /\ nmsgs'[q] <= n /\ b \notin U /\ (U \ {x}) \cup {b} \subseteq U',
         LET n == nmsgs[q]
             F == BlockedOn("WAIT_MQNOTFULL", q)
             U == Fillers(q)
         IN  \/ F' = {}
             \/ nmsgs'[q] >= maxmsgs[q]
             \/ F' \subseteq F /\ nmsgs'[q] >= n /\ U \subseteq U'
             \/ F' \subseteq F /\ nmsgs'[q] >= n - 1 /\ x2 \notin U /\ U \cup {x2} \subseteq U'
             \/ F' \subseteq F /\ nmsgs'[q] >= n + 1 /\ U \ {x2} \subseteq U'
             \/ F' \subseteq F /\ nmsgs'[q] >= n /\ b2 \notin U /\ (U \ {x2}) \cup {b2} \subseteq U'
  PROVE  Flow(q)'
<1> DEFINE E == BlockedOn("WAIT_MQNOTEMPTY", q)
           F == BlockedOn("WAIT_MQNOTFULL", q)
           U == Takers(q)
           V == Fillers(q)
           n == nmsgs[q]
           m == nmsgs'[q]
           d == maxmsgs[q] - n
           e == maxmsgs[q] - m
<1>0. /\ IsFiniteSet(U) /\ IsFiniteSet(U') /\ IsFiniteSet(V) /\ IsFiniteSet(V')
      /\ Cardinality(U') \in Nat /\ Cardinality(V') \in Nat
  <2>1. IsFiniteSet(U) /\ IsFiniteSet(V)
    BY FlowFinite
  <2>2. Takers(q)' \subseteq Contexts /\ Fillers(q)' \subseteq Tasks
    BY DEF Takers, Fillers, WokenReceivers, SendsToSignal, WokenSenders, SendersWithRoom,
       ReceivesToSignal, Contexts
  <2>3. IsFiniteSet(Tasks) /\ IsFiniteSet(Contexts)
    BY ContextsDiffer, FS_AddElement DEF Contexts
  <2>4. IsFiniteSet(U') /\ IsFiniteSet(V')
    BY <2>2, <2>3, FS_Subset
  <2> QED BY <2>1, <2>4, FS_CardinalityType
<1>1. n \in Int /\ m \in Int /\ d \in Int /\ e \in Int /\ maxmsgs[q] \in Nat
  BY AttributesAreNumbers
<1>2. (E # {} => n <= Cardinality(U)) /\ (F # {} => d <= Cardinality(V))
  BY DEF Flow
<1> HIDE DEF E, F, U, V
<1>3. ASSUME E' # {} PROVE m <= Cardinality(U')
  <2>1. CASE m <= 0
    BY <1>0, <1>1, <2>1
  <2>2. CASE ~(m <= 0)
    <3>1. /\ E' \subseteq E
          /\ \/ m <= n /\ U \subseteq U'
             \/ m <= n + 1 /\ x \notin U /\ U \cup {x} \subseteq U'
             \/ m <= n - 1 /\ U \ {x} \subseteq U'
             \/ m <= n /\ b \notin U /\ (U \ {x}) \cup {b} \subseteq U'
      BY <1>3, <2>2 DEF E, U
    <3>2. n <= Cardinality(U)
      BY <1>2, <1>3, <3>1
    <3> DEFINE W == U'
    <3>3. /\ IsFiniteSet(U) /\ IsFiniteSet(W) /\ n \in Int /\ m \in Int
          /\ \/ m <= n /\ U \subseteq W
             \/ m <= n + 1 /\ x \notin U /\ U \cup {x} \subseteq W
             \/ m <= n - 1 /\ U \ {x} \subseteq W
             \/ m <= n /\ b \notin U /\ (U \ {x}) \cup {b} \subseteq W
      BY <1>0, <1>1, <3>1
    <3> HIDE DEF n, m, W
    <3>4. m <= Cardinality(W)
      BY ONLY <3>2, <3>3, Covered
    <3> QED BY <3>4 DEF W
  <2> QED BY <2>1, <2>2
<1>4. ASSUME F' # {} PROVE e <= Cardinality(V')
  <2>1. CASE e <= 0
    BY <1>0, <1>1, <2>1
  <2>2. CASE ~(e <= 0)
    <3>1. /\ F' \subseteq F
          /\ \/ m >= n /\ V \subseteq V'
             \/ m >= n - 1 /\ x2 \notin V /\ V \cup {x2} \subseteq V'
             \/ m >= n + 1 /\ V \ {x2} \subseteq V'
             \/ m >= n /\ b2 \notin V /\ (V \ {x2}) \cup {b2} \subseteq V'
      BY <1>1, <1>4, <2>2 DEF F, V
    <3>2. \/ e <= d /\ V \subseteq V'
          \/ e <= d + 1 /\ x2 \notin V /\ V \cup {x2} \subseteq V'
          \/ e <= d - 1 /\ V \ {x2} \subseteq V'
          \/ e <= d /\ b2 \notin V /\ (V \ {x2}) \cup {b2} \subseteq V'
      BY <1>1, <3>1
    <3>3. d <= Cardinality(V)
      BY <1>2, <1>4, <3>1
    <3> DEFINE W == V'
    <3>4. /\ IsFiniteSet(V) /\ IsFiniteSet(W) /\ d \in Int /\ e \in Int
          /\ \/ e <= d /\ V \subseteq W
             \/ e <= d + 1 /\ x2 \notin V /\ V \cup {x2} \subseteq W
             \/ e <= d - 1 /\ V \ {x2} \subseteq W
             \/ e <= d /\ b2 \notin V /\ (V \ {x2}) \cup {b2} \subseteq W
      BY <1>0, <1>1, <3>2
    <3> HIDE DEF d, e, n, m, W
    <3>5. e <= Cardinality(W)
      BY ONLY <3>3, <3>4, Covered
    <3> QED BY <3>5 DEF W
  <2> QED BY <2>1, <2>2
<1> QED BY <1>3, <1>4 DEF E, F, U, V, Flow

(***************************************************************************)
(* A step that moves one context in its call and waits for nothing.        *)
(***************************************************************************)
Moves(x, l, f) ==
    pc' = [pc EXCEPT ![x] = l] /\ frame' = [frame EXCEPT ![x] = f]

(***************************************************************************)
(* A move is the business of its context alone.                            *)
(***************************************************************************)
LEMMA MoveUndisturbed ==
  ASSUME Inv, NEW x \in Contexts, NEW l, NEW f, Moves(x, l, f)
  PROVE  /\ pc'[x] = l /\ frame'[x] = f
         /\ \A y \in Contexts \ {x} : pc'[y] = pc[y] /\ frame'[y] = frame[y]
         /\ UNCHANGED <<waitVars, errcode>> => Undisturbed(x)
<1>1. pc \in [Contexts -> PcStates] /\ frame \in [Contexts -> Frames]
  BY DEF Inv, TypeOK
<1>2. /\ pc'[x] = l /\ frame'[x] = f
      /\ \A y \in Contexts \ {x} : pc'[y] = pc[y] /\ frame'[y] = frame[y]
  BY <1>1 DEF Moves
<1> QED BY <1>2 DEF Undisturbed, waitVars

(***************************************************************************)
(* A return and a change of pc alone are moves.                            *)
(***************************************************************************)
LEMMA MoveForms ==
  ASSUME Inv, NEW x \in Contexts
  PROVE  /\ \A code : Return(x, code) => Moves(x, "out", NoFrame)
         /\ \A l : Goto(x, l) /\ UNCHANGED frame => Moves(x, l, frame[x])
<1>1. frame \in [Contexts -> Frames]
  BY DEF Inv, TypeOK
<1> QED BY <1>1 DEF Return, Goto, Moves

(***************************************************************************)
(* A step that leaves its context in the sets it was in keeps the flow.    *)
(***************************************************************************)
LEMMA QuietFlow ==
  ASSUME Inv, FlowInv, NEW x, Undisturbed(x), UNCHANGED nmsgs,
         x \in Tasks => task_state'[x] = "READY",
         \A q \in Queues : /\ x \in Takers(q) => x \in Takers(q)'
                           /\ x \in Fillers(q) => x \in Fillers(q)'
  PROVE  FlowInv'
<1> SUFFICES ASSUME NEW q \in Queues PROVE Flow(q)'
  BY DEF FlowInv
<1>1. /\ BlockedOn("WAIT_MQNOTEMPTY", q)' \subseteq BlockedOn("WAIT_MQNOTEMPTY", q)
      /\ BlockedOn("WAIT_MQNOTFULL", q)' \subseteq BlockedOn("WAIT_MQNOTFULL", q)
      /\ Takers(q) \subseteq Takers(q)' /\ Fillers(q) \subseteq Fillers(q)'
  BY UndisturbedKeeps, NotBlocked
<1>2. nmsgs[q] \in Int /\ nmsgs'[q] <= nmsgs[q] /\ nmsgs'[q] >= nmsgs[q]
      /\ nmsgs'[q] \in Int /\ Flow(q)
  BY DEF Inv, TypeOK, FlowInv
<1> QED BY <1>1, <1>2, FlowKept

(***************************************************************************)
(* A task that finds the queue full, or empty, and blocks keeps the flow.  *)
(***************************************************************************)
LEMMA BlockFlow ==
  ASSUME Inv, FlowInv, NEW t \in Tasks, NEW r \in Queues, UNCHANGED nmsgs,
         \A y \in Contexts \ {t} : pc'[y] = pc[y] /\ frame'[y] = frame[y],
         \/ /\ BlockNotFull(t, r) /\ nmsgs[r] >= maxmsgs[r]
            /\ pc[t] \in {"out", "tstart", "wait_send"}
         \/ /\ BlockNotEmpty(t, r) /\ nmsgs[r] = 0
            /\ pc[t] \in {"out", "wait_recv"},
         pc[t] \in {"wait_send", "wait_recv"} => frame[t].q = r
  PROVE  FlowInv'
<1> SUFFICES ASSUME NEW q \in Queues PROVE Flow(q)'
  BY DEF FlowInv
<1> DEFINE E == BlockedOn("WAIT_MQNOTEMPTY", q)
           F == BlockedOn("WAIT_MQNOTFULL", q)
<1>0. WaitTypes /\ nmsgs[q] \in Int /\ nmsgs'[q] \in Int /\ Flow(q)
      /\ maxmsgs[q] \in Nat /\ nmsgs'[q] = nmsgs[q]
  BY TypeSplit, AttributesAreNumbers DEF Inv, QueueTypes, FlowInv
<1>1. Undisturbed(t)
  BY <1>0 DEF Undisturbed, BlockNotFull, BlockNotEmpty, WaitTypes
<1>2. Takers(q) \ {t} \subseteq Takers(q)' /\ Fillers(q) \ {t} \subseteq Fillers(q)'
  BY <1>1, UndisturbedKeeps
<1>3. CASE BlockNotFull(t, r) /\ nmsgs[r] >= maxmsgs[r]
           /\ pc[t] \in {"out", "tstart", "wait_send"}
  <2>1. Takers(q) \subseteq Takers(q)'
    BY <1>2, <1>3 DEF Takers, WokenReceivers, SendsToSignal
  <2>2. E' \subseteq E
    BY <1>0, <1>1, <1>3, UndisturbedKeeps DEF BlockNotFull, BlockedOn, WaitTypes
  <2>3. CASE q = r
    BY <1>0, <1>3, <2>1, <2>2, <2>3, FlowKept
  <2>4. CASE q # r
    <3>1. F' \subseteq F
      BY <1>0, <1>1, <1>3, <2>4, UndisturbedKeeps DEF BlockNotFull, BlockedOn, WaitTypes
    <3>2. Fillers(q) \subseteq Fillers(q)'
      BY <1>2, <1>3, <2>4 DEF Fillers, WokenSenders, SendersWithRoom, ReceivesToSignal
    <3> QED BY <1>0, <2>1, <2>2, <3>1, <3>2, FlowKept
  <2> QED BY <2>3, <2>4
<1>4. CASE BlockNotEmpty(t, r) /\ nmsgs[r] = 0 /\ pc[t] \in {"out", "wait_recv"}
  <2>1. Fillers(q) \subseteq Fillers(q)'
    BY <1>2, <1>4 DEF Fillers, WokenSenders, SendersWithRoom, ReceivesToSignal
  <2>2. F' \subseteq F
    BY <1>0, <1>1, <1>4, UndisturbedKeeps DEF BlockNotEmpty, BlockedOn, WaitTypes
  <2>3. CASE q = r
    BY <1>0, <1>4, <2>1, <2>2, <2>3, FlowKept
  <2>4. CASE q # r
    <3>1. E' \subseteq E
      BY <1>0, <1>1, <1>4, <2>4, UndisturbedKeeps DEF BlockNotEmpty, BlockedOn, WaitTypes
    <3>2. Takers(q) \subseteq Takers(q)'
      BY <1>2, <1>4, <2>4 DEF Takers, WokenReceivers, SendsToSignal
    <3> QED BY <1>0, <2>1, <2>2, <3>1, <3>2, FlowKept
  <2> QED BY <2>3, <2>4
<1> QED BY <1>3, <1>4

(***************************************************************************)
(* A send that queues its message is itself one more that will unblock a   *)
(* receiver, and the place it takes was its own.                           *)
(***************************************************************************)
LEMMA InsertFlow ==
  ASSUME Inv, FlowInv, NEW x \in Contexts, SendInsert(x)
  PROVE  FlowInv'
<1> SUFFICES ASSUME NEW q \in Queues PROVE Flow(q)'
  BY DEF FlowInv
<1> DEFINE r == frame[x].q
<1>0. /\ r \in Queues /\ nmsgs \in [Queues -> Int] /\ Flow(q)
      /\ x \in Tasks => task_state[x] = "READY"
  <2>1. r \in Queues
    BY DEF Inv, CallsConsistent, SendInsert, SendPcs
  <2>2. x \in Tasks => task_state[x] = "READY"
    BY ContextsDiffer DEF SendInsert, Steps, CanRun, Ready
  <2> QED BY <2>1, <2>2 DEF Inv, TypeOK, FlowInv
<1>1. Moves(x, "ntest", frame[x]) /\ UNCHANGED <<waitVars, errcode>>
  BY MoveForms DEF SendInsert
<1>2. /\ Undisturbed(x) /\ pc'[x] = "ntest" /\ frame'[x] = frame[x]
  BY <1>1, MoveUndisturbed
<1>3. x \in Tasks => task_state'[x] = "READY"
  BY <1>0, <1>1 DEF waitVars
<1>4. /\ BlockedOn("WAIT_MQNOTEMPTY", q)' \subseteq BlockedOn("WAIT_MQNOTEMPTY", q)
      /\ BlockedOn("WAIT_MQNOTFULL", q)' \subseteq BlockedOn("WAIT_MQNOTFULL", q)
      /\ Takers(q) \ {x} \subseteq Takers(q)' /\ Fillers(q) \ {x} \subseteq Fillers(q)'
  BY <1>2, <1>3, UndisturbedKeeps, NotBlocked
<1>5. x \notin Takers(q) /\ (q = r => x \in Takers(q)')
  BY <1>2 DEF SendInsert, Takers, WokenReceivers, SendsToSignal
<1>6. q # r => x \notin Fillers(q)
  BY DEF Fillers, WokenSenders, SendersWithRoom, ReceivesToSignal
<1>7. nmsgs' = [nmsgs EXCEPT ![r] = @ + 1]
  BY DEF SendInsert
<1> HIDE DEF r
<1>8. CASE q = r
  <2>1. /\ nmsgs[q] \in Int /\ nmsgs'[q] \in Int
        /\ nmsgs'[q] <= nmsgs[q] + 1 /\ nmsgs'[q] >= nmsgs[q] + 1
    BY <1>0, <1>7, <1>8
  <2>2. Takers(q) \cup {x} \subseteq Takers(q)'
    BY <1>4, <1>5, <1>8
  <2> QED BY <1>0, <1>4, <1>5, <2>1, <2>2, FlowKept
<1>9. CASE q # r
  <2>1. /\ nmsgs[q] \in Int /\ nmsgs'[q] \in Int
        /\ nmsgs'[q] <= nmsgs[q] /\ nmsgs'[q] >= nmsgs[q]
    BY <1>0, <1>7, <1>9
  <2>2. Takers(q) \subseteq Takers(q)' /\ Fillers(q) \subseteq Fillers(q)'
    BY <1>4, <1>5, <1>6, <1>9
  <2> QED BY <1>0, <1>4, <2>1, <2>2, FlowKept
<1> QED BY <1>8, <1>9

(***************************************************************************)
(* A receive that takes a message accounts for the place it makes, and     *)
(* for no message any more.                                                *)
(***************************************************************************)
LEMMA TakeFlow ==
  ASSUME Inv, FlowInv, NEW t \in Tasks, NEW r \in Queues, NEW f,
         TakeMessage(t, r), frame' = [frame EXCEPT ![t] = f], f.q = r,
         UNCHANGED <<waitVars, errcode>>, task_state[t] = "READY",
         pc[t] = "out" \/ (pc[t] = "wait_recv" /\ frame[t].q = r)
  PROVE  FlowInv'
<1> SUFFICES ASSUME NEW q \in Queues PROVE Flow(q)'
  BY DEF FlowInv
<1>0. /\ nmsgs \in [Queues -> Int] /\ Flow(q) /\ t \in Contexts
  BY DEF Inv, TypeOK, FlowInv, Contexts
<1>1. Moves(t, "free", f)
  BY DEF TakeMessage, Goto, Moves
<1>2. /\ Undisturbed(t) /\ pc'[t] = "free" /\ frame'[t] = f
  BY <1>0, <1>1, MoveUndisturbed
<1>3. task_state'[t] = "READY"
  BY DEF waitVars
<1>4. /\ BlockedOn("WAIT_MQNOTEMPTY", q)' \subseteq BlockedOn("WAIT_MQNOTEMPTY", q)
      /\ BlockedOn("WAIT_MQNOTFULL", q)' \subseteq BlockedOn("WAIT_MQNOTFULL", q)
      /\ Takers(q) \ {t} \subseteq Takers(q)' /\ Fillers(q) \ {t} \subseteq Fillers(q)'
  BY <1>2, <1>3, UndisturbedKeeps, NotBlocked
<1>5. t \notin Fillers(q) /\ (q = r => t \in Fillers(q)')
  BY <1>2 DEF Fillers, WokenSenders, SendersWithRoom, ReceivesToSignal
<1>6. q # r => t \notin Takers(q)
  BY DEF Takers, WokenReceivers, SendsToSignal
<1>7. nmsgs' = [nmsgs EXCEPT ![r] = @ - 1]
  BY DEF TakeMessage
<1>8. CASE q = r
  <2>1. /\ nmsgs[q] \in Int /\ nmsgs'[q] \in Int
        /\ nmsgs'[q] <= nmsgs[q] - 1 /\ nmsgs'[q] >= nmsgs[q] - 1
    BY <1>0, <1>7, <1>8
  <2>2. Fillers(q) \cup {t} \subseteq Fillers(q)'
    BY <1>4, <1>5, <1>8
  <2> QED BY <1>0, <1>4, <1>5, <2>1, <2>2, FlowKept
<1>9. CASE q # r
  <2>1. /\ nmsgs[q] \in Int /\ nmsgs'[q] \in Int
        /\ nmsgs'[q] <= nmsgs[q] /\ nmsgs'[q] >= nmsgs[q]
    BY <1>0, <1>7, <1>9
  <2>2. Takers(q) \subseteq Takers(q)' /\ Fillers(q) \subseteq Fillers(q)'
    BY <1>4, <1>5, <1>6, <1>9
  <2> QED BY <1>0, <1>4, <2>1, <2>2, FlowKept
<1> QED BY <1>8, <1>9

(***************************************************************************)
(* The wait lists hold the tasks that wait: a search that finds nobody     *)
(* waits for q shows that nobody is blocked on q.                          *)
(***************************************************************************)
LEMMA SearchFindsWaiters ==
  ASSUME Inv, ListsInv, NoneDeleted, NEW q \in Queues
  PROVE  /\ Waiting(g_waitingformqnotempty, q) = {} => BlockedOn("WAIT_MQNOTEMPTY", q) = {}
         /\ Waiting(g_waitingformqnotfull, q) = {} => BlockedOn("WAIT_MQNOTFULL", q) = {}
<1>1. ASSUME NEW list \in Seq(Tasks), NEW state, Lists(list, Members(state), Priority),
             Waiting(list, q) = {}
      PROVE  BlockedOn(state, q) = {}
  <2> SUFFICES ASSUME NEW t \in Tasks, task_state[t] = state, msgwaitq[t] = q PROVE FALSE
    BY DEF BlockedOn
  <2>1. t \in Members(state)
    BY DEF Members, NoneDeleted
  <2>2. IsWaitList(list, state)
    BY <1>1, WaitListIsLists
  <2>3. PICK i \in DOMAIN list : list[i] = t
    BY <2>1, <2>2 DEF IsWaitList, Members
  <2> QED BY <1>1, <2>3 DEF Waiting
<1> QED BY <1>1 DEF Inv, TypeOK, ListsInv

(***************************************************************************)
(* Everything the argument about wake-ups uses.                            *)
(***************************************************************************)
WakeInv ==
    /\ Inv /\ ErrInv /\ ListsInv /\ WaitCounts /\ OrderInv /\ NoneDeleted
    /\ FlowInv

(***************************************************************************)
(* A send that unblocks a receiver hands it the message it accounted for;  *)
(* one that finds no receiver has none to account to.                      *)
(***************************************************************************)
LEMMA SendWakeFlow ==
  ASSUME WakeInv, NEW x \in Contexts, SendWake(x)
  PROVE  FlowInv'
<1> DEFINE r == frame[x].q
           list == g_waitingformqnotempty
           w == Waiting(list, r)
           b == FirstOf(list, w)
<1>0. /\ Inv /\ ListsInv /\ NoneDeleted /\ WaitTypes /\ r \in Queues
      /\ nmsgs \in [Queues -> Int] /\ UNCHANGED <<nmsgs, errcode>>
      /\ x \in Tasks => task_state[x] = "READY"
  <2>1. r \in Queues
    BY DEF WakeInv, Inv, CallsConsistent, SendWake, SendPcs
  <2>2. x \in Tasks => task_state[x] = "READY"
    BY ContextsDiffer DEF SendWake, Steps, CanRun, Ready
  <2> QED BY <2>1, <2>2, TypeSplit DEF WakeInv, Inv, QueueTypes, SendWake, queueVars
<1>1. Moves(x, "out", NoFrame)
  BY <1>0, MoveForms DEF SendWake
<1>2. pc'[x] = "out" /\ \A y \in Contexts \ {x} : pc'[y] = pc[y] /\ frame'[y] = frame[y]
  BY <1>0, <1>1, MoveUndisturbed
<1>3. /\ \A u \in Tasks : \/ task_state'[u] = "READY"
                          \/ task_state'[u] = task_state[u] /\ msgwaitq'[u] = msgwaitq[u]
  BY <1>0, WakeTouches DEF SendWake
<1>4. Undisturbed(x)
  BY <1>0, <1>2, <1>3 DEF Undisturbed
<1>5. x \in Tasks => task_state'[x] = "READY"
  BY <1>0, <1>3
<1> SUFFICES ASSUME NEW q \in Queues PROVE Flow(q)'
  BY DEF FlowInv
<1>6. /\ BlockedOn("WAIT_MQNOTEMPTY", q)' \subseteq BlockedOn("WAIT_MQNOTEMPTY", q)
      /\ BlockedOn("WAIT_MQNOTFULL", q)' \subseteq BlockedOn("WAIT_MQNOTFULL", q)
      /\ Takers(q) \ {x} \subseteq Takers(q)' /\ Fillers(q) \ {x} \subseteq Fillers(q)'
  BY <1>4, <1>5, UndisturbedKeeps, NotBlocked
<1>7. x \notin Fillers(q) /\ (q # r => x \notin Takers(q))
  BY DEF SendWake, Takers, WokenReceivers, SendsToSignal, Fillers, WokenSenders,
         SendersWithRoom, ReceivesToSignal
<1>8. /\ nmsgs[q] \in Int /\ nmsgs'[q] \in Int /\ Flow(q)
      /\ nmsgs'[q] <= nmsgs[q] /\ nmsgs'[q] >= nmsgs[q]
      /\ Fillers(q) \subseteq Fillers(q)'
  BY <1>0, <1>6, <1>7 DEF WakeInv, FlowInv
<1>9. CASE q # r
  <2>1. Takers(q) \subseteq Takers(q)'
    BY <1>6, <1>7, <1>9
  <2> QED BY <1>6, <1>8, <2>1, FlowKept
<1>10. CASE q = r /\ nwaitnotempty[r] > 0 /\ w # {}
  <2>1. b \in Members("WAIT_MQNOTEMPTY") /\ msgwaitq[b] = r
    BY <1>0, <1>10, WakeKeepsList DEF ListsInv, WaitTypes, Members
  <2>2. task_state' = [task_state EXCEPT ![b] = "READY"]
    BY <1>10 DEF SendWake, WakeNotEmpty
  <2> HIDE DEF b, r, w, list
  <2>3. /\ b \in Tasks /\ task_state[b] = "WAIT_MQNOTEMPTY" /\ pc[b] # "removed"
        /\ task_state'[b] = "READY"
    BY <1>0, <2>1, <2>2 DEF Members, WaitTypes
  <2>4. pc[b] = "wait_recv" /\ frame[b].q = r /\ errcode[b] = "OK"
    BY <1>0, <2>1, <2>3 DEF WakeInv, ErrInv, Inv, CallsConsistent, InMqWait
  <2>5. b # x /\ b \in Contexts
    BY <1>0, <2>3 DEF Contexts
  <2>6. pc'[b] = "wait_recv" /\ frame'[b].q = r /\ errcode'[b] = "OK"
    BY <1>0, <1>2, <2>4, <2>5
  <2>7. b \notin Takers(q) /\ b \in Takers(q)'
    BY <1>10, <2>3, <2>4, <2>6 DEF Takers, WokenReceivers, SendsToSignal
  <2>8. (Takers(q) \ {x}) \cup {b} \subseteq Takers(q)'
    BY <1>6, <2>7
  <2> QED BY <1>6, <1>8, <2>7, <2>8, FlowKept
<1>11. CASE q = r /\ ~(nwaitnotempty[r] > 0 /\ w # {})
  <2>1. CASE w = {}
    <3>1. BlockedOn("WAIT_MQNOTEMPTY", q)' = {}
      BY <1>0, <1>6, <1>11, <2>1, SearchFindsWaiters
    <3> QED BY <1>6, <1>8, <3>1, FlowKept
  <2>2. CASE ~(nwaitnotempty[r] > 0)
    <3>1. nwaitnotempty[r] = Cardinality(BlockedOn("WAIT_MQNOTEMPTY", r))
      BY <1>0 DEF WakeInv, WaitCounts
    <3>2. BlockedOn("WAIT_MQNOTEMPTY", r) = {}
      BY <2>2, <3>1, BlockedFinite, FS_EmptySet
    <3>3. BlockedOn("WAIT_MQNOTEMPTY", q)' = {}
      BY <1>6, <1>11, <3>2
    <3> QED BY <1>6, <1>8, <3>3, FlowKept
  <2> QED BY <1>11, <2>1, <2>2
<1> QED BY <1>9, <1>10, <1>11

(***************************************************************************)
(* A receive that unblocks a sender hands it the place it made, and one    *)
(* that sees that no sender waits has none to account to.                  *)
(***************************************************************************)
LEMMA ReceiveWakeFlow ==
  ASSUME WakeInv, NEW x \in Tasks, ReceiveWake(x) \/ ReceiveCheck(x)
  PROVE  FlowInv'
<1> DEFINE r == frame[x].q
           list == g_waitingformqnotfull
           w == Waiting(list, r)
           b == FirstOf(list, w)
<1>0. /\ Inv /\ ListsInv /\ NoneDeleted /\ WaitTypes /\ r \in Queues
      /\ nmsgs \in [Queues -> Int] /\ UNCHANGED <<nmsgs, errcode>>
      /\ task_state[x] = "READY" /\ x \in Contexts
  <2>1. r \in Queues /\ x \in Contexts
    BY DEF WakeInv, Inv, CallsConsistent, ReceiveWake, ReceiveCheck, RecvPcs, Contexts
  <2>2. task_state[x] = "READY"
    BY DEF ReceiveWake, ReceiveCheck, CanRun, Ready
  <2> QED BY <2>1, <2>2, TypeSplit
      DEF WakeInv, Inv, QueueTypes, ReceiveWake, ReceiveCheck, queueVars
<1>1. \/ Moves(x, "out", NoFrame)
      \/ ReceiveCheck(x) /\ nwaitnotfull[r] > 0 /\ Moves(x, "wakenf", frame[x])
  BY <1>0, MoveForms DEF ReceiveWake, ReceiveCheck
<1>2. \A y \in Contexts \ {x} : pc'[y] = pc[y] /\ frame'[y] = frame[y]
  BY <1>0, <1>1, MoveUndisturbed
<1>3. /\ \A u \in Tasks : \/ task_state'[u] = "READY"
                          \/ task_state'[u] = task_state[u] /\ msgwaitq'[u] = msgwaitq[u]
  BY <1>0, WakeTouches DEF ReceiveWake, ReceiveCheck, waitVars
<1>4. Undisturbed(x)
  BY <1>0, <1>2, <1>3 DEF Undisturbed
<1>5. task_state'[x] = "READY"
  BY <1>0, <1>3
<1> SUFFICES ASSUME NEW q \in Queues PROVE Flow(q)'
  BY DEF FlowInv
<1>6. /\ BlockedOn("WAIT_MQNOTEMPTY", q)' \subseteq BlockedOn("WAIT_MQNOTEMPTY", q)
      /\ BlockedOn("WAIT_MQNOTFULL", q)' \subseteq BlockedOn("WAIT_MQNOTFULL", q)
      /\ Takers(q) \ {x} \subseteq Takers(q)' /\ Fillers(q) \ {x} \subseteq Fillers(q)'
  BY <1>4, <1>5, UndisturbedKeeps, NotBlocked
<1>7. x \notin Takers(q) /\ (q # r => x \notin Fillers(q))
  BY DEF ReceiveWake, ReceiveCheck, Takers, WokenReceivers, SendsToSignal, Fillers,
         WokenSenders, SendersWithRoom, ReceivesToSignal
<1>8. /\ nmsgs[q] \in Int /\ nmsgs'[q] \in Int /\ Flow(q)
      /\ nmsgs'[q] <= nmsgs[q] /\ nmsgs'[q] >= nmsgs[q]
      /\ Takers(q) \subseteq Takers(q)'
  BY <1>0, <1>6, <1>7 DEF WakeInv, FlowInv
<1>9. CASE q # r
  <2>1. Fillers(q) \subseteq Fillers(q)'
    BY <1>6, <1>7, <1>9
  <2> QED BY <1>6, <1>8, <2>1, FlowKept
<1>10. CASE q = r /\ ReceiveWake(x) /\ w # {}
  <2>1. b \in Members("WAIT_MQNOTFULL") /\ msgwaitq[b] = r
    BY <1>0, <1>10, WakeKeepsList DEF ListsInv, WaitTypes, Members
  <2>2. task_state' = [task_state EXCEPT ![b] = "READY"]
    BY <1>10 DEF ReceiveWake, WakeNotFull
  <2> HIDE DEF b, r, w, list
  <2>3. /\ b \in Tasks /\ task_state[b] = "WAIT_MQNOTFULL" /\ pc[b] # "removed"
        /\ task_state'[b] = "READY"
    BY <1>0, <2>1, <2>2 DEF Members, WaitTypes
  <2>4. pc[b] = "wait_send" /\ frame[b].q = r /\ errcode[b] = "OK"
    BY <1>0, <2>1, <2>3 DEF WakeInv, ErrInv, Inv, CallsConsistent, InMqWait
  <2>5. b # x /\ b \in Contexts
    BY <1>0, <2>3 DEF Contexts
  <2>6. pc'[b] = "wait_send" /\ frame'[b].q = r /\ errcode'[b] = "OK"
    BY <1>0, <1>2, <2>4, <2>5
  <2>7. b \notin Fillers(q) /\ b \in Fillers(q)'
    BY <1>10, <2>3, <2>4, <2>6 DEF Fillers, WokenSenders, SendersWithRoom, ReceivesToSignal
  <2>8. (Fillers(q) \ {x}) \cup {b} \subseteq Fillers(q)'
    BY <1>6, <2>7
  <2> QED BY <1>6, <1>8, <2>7, <2>8, FlowKept
<1>11. CASE q = r /\ ReceiveWake(x) /\ w = {}
  <2>1. BlockedOn("WAIT_MQNOTFULL", q)' = {}
    BY <1>0, <1>6, <1>11, SearchFindsWaiters
  <2> QED BY <1>6, <1>8, <2>1, FlowKept
<1>12. CASE q = r /\ ReceiveCheck(x) /\ ~(nwaitnotfull[r] > 0)
  <2>1. nwaitnotfull[r] = Cardinality(BlockedOn("WAIT_MQNOTFULL", r))
    BY <1>0 DEF WakeInv, WaitCounts
  <2>2. BlockedOn("WAIT_MQNOTFULL", r) = {}
    BY <1>12, <2>1, BlockedFinite, FS_EmptySet
  <2>3. BlockedOn("WAIT_MQNOTFULL", q)' = {}
    BY <1>6, <1>12, <2>2
  <2> QED BY <1>6, <1>8, <2>3, FlowKept
<1>13. CASE q = r /\ ReceiveCheck(x) /\ nwaitnotfull[r] > 0
  <2>1. Moves(x, "wakenf", frame[x])
    BY <1>0, <1>13, MoveForms DEF ReceiveCheck
  <2>2. pc'[x] = "wakenf" /\ frame'[x] = frame[x]
    BY <1>0, <2>1, MoveUndisturbed
  <2>3. x \in Fillers(q)'
    BY <1>13, <2>2 DEF Fillers, ReceivesToSignal
  <2>4. Fillers(q) \subseteq Fillers(q)'
    BY <1>6, <2>3
  <2> QED BY <1>6, <1>8, <2>4, FlowKept
<1> QED BY <1>9, <1>10, <1>11, <1>12, <1>13

(***************************************************************************)
(* A quiet move: the context stays where it is, or comes from a place in   *)
(* its call where it accounts for nothing, or goes on to one where it      *)
(* still accounts for the same.                                            *)
(***************************************************************************)
LEMMA MoveFlow ==
  ASSUME Inv, FlowInv, NEW x \in Contexts, NEW l, NEW f, Moves(x, l, f),
         UNCHANGED <<waitVars, errcode, nmsgs>>,
         x \in Tasks => task_state[x] = "READY",
         \/ pc[x] \in {"out", "tstart"}
         \/ pc[x] \in {"alloc", "heap"} /\ x \notin Tasks
         \/ pc[x] \in {"wait_send", "wait_recv"} /\ x \in Tasks /\ errcode[x] # "OK"
         \/ /\ pc[x] \in {"wait_send", "alloc", "heap", "insert"}
            /\ l \in {"alloc", "heap", "insert"}
            /\ f.q = frame[x].q
         \/ /\ pc[x] \in {"ntest", "ntake", "nsend"} /\ f.q = frame[x].q
            /\ l \in {"ntest", "ntake", "nsend", "wake"}
         \/ pc[x] \in {"free", "hfree"} /\ l \in {"hfree", "check"} /\ f.q = frame[x].q
  PROVE  FlowInv'
<1>1. Undisturbed(x) /\ pc'[x] = l /\ frame'[x] = f
  BY MoveUndisturbed
<1>2. x \in Tasks => task_state'[x] = "READY"
  BY DEF waitVars
<1>3. ASSUME NEW q \in Queues, x \in Takers(q) PROVE x \in Takers(q)'
  BY <1>1, <1>3 DEF Takers, WokenReceivers, SendsToSignal
<1>4. ASSUME NEW q \in Queues, x \in Fillers(q) PROVE x \in Fillers(q)'
  BY <1>1, <1>4 DEF Fillers, WokenSenders, SendersWithRoom, ReceivesToSignal
<1> QED BY <1>1, <1>2, <1>3, <1>4, QuietFlow

(***************************************************************************)
(* A step that changes nothing of the flow.                                *)
(***************************************************************************)
LEMMA StutterFlow ==
  ASSUME FlowInv, UNCHANGED <<nmsgs, pc, frame, waitVars, errcode>>
  PROVE  FlowInv'
BY DEF FlowInv, Flow, BlockedOn, Takers, Fillers, WokenReceivers, SendsToSignal,
   WokenSenders, SendersWithRoom, ReceivesToSignal, waitVars

(***************************************************************************)
(* The cancellation of a wait ends a claim and hands nothing on.           *)
(***************************************************************************)
LEMMA CancelFlow ==
  ASSUME Inv, FlowInv, NEW p \in Tasks, NEW code, nxmq_wait_irq(p, code), InMqWait(p),
         NEW x \in Contexts, x # p, UNCHANGED <<nmsgs, frame>>,
         x \in Tasks => task_state[x] = "READY",
         \/ UNCHANGED pc
         \/ pc[x] = "nsend" /\ pc' = [pc EXCEPT ![x] = "wake"]
  PROVE  FlowInv'
<1>1. WaitTypes /\ pc \in [Contexts -> PcStates]
  BY TypeSplit DEF Inv, CallTypes
<1>2. /\ \A y \in Contexts \ {x} : pc'[y] = pc[y] /\ frame'[y] = frame[y]
      /\ pc'[x] = pc[x] \/ (pc[x] = "nsend" /\ pc'[x] = "wake")
  BY <1>1
<1>3. /\ task_state'[p] = "READY" /\ task_state[p] # "READY"
      /\ \A u \in Tasks \ {p} : /\ task_state'[u] = task_state[u]
                                /\ msgwaitq'[u] = msgwaitq[u] /\ errcode'[u] = errcode[u]
  BY <1>1 DEF nxmq_wait_irq, WaitTypes, InMqWait
<1>4. Undisturbed(x)
  BY <1>2, <1>3 DEF Undisturbed
<1>5. x \in Tasks => task_state'[x] = "READY" /\ errcode'[x] = errcode[x]
  BY <1>3
<1>6. ASSUME NEW q \in Queues, x \in Takers(q) PROVE x \in Takers(q)'
  BY <1>2, <1>5, <1>6 DEF Takers, WokenReceivers, SendsToSignal
<1>7. ASSUME NEW q \in Queues, x \in Fillers(q) PROVE x \in Fillers(q)'
  BY <1>2, <1>5, <1>7 DEF Fillers, WokenSenders, SendersWithRoom, ReceivesToSignal
<1> QED BY <1>4, <1>5, <1>6, <1>7, QuietFlow

(***************************************************************************)
(* The calls keep the flow.                                                *)
(***************************************************************************)
LEMMA CallFlow ==
  ASSUME WakeInv, NEW t \in Tasks, Call(t)
  PROVE  FlowInv'
<1> DEFINE Goal == FlowInv'
<1> SUFFICES Goal
  OBVIOUS
<1>0. Inv /\ FlowInv /\ t \in Contexts
  BY DEF WakeInv, Contexts
<1>a. ASSUME CanRun(t) PROVE task_state[t] = "READY"
  BY <1>a DEF CanRun, Ready
<1>1. ASSUME NEW oflags, NEW q \in Queues, NEW prio \in MsgPrios, MqSend(t, q, oflags, prio)
      PROVE  Goal
  <2>0. pc[t] = "out" /\ task_state[t] = "READY" /\ UNCHANGED nmsgs
    BY <1>1, <1>a DEF MqSend, queueVars
  <2>1. CASE BlockNotFull(t, q) /\ IsFull(q) /\ Goto(t, "wait_send")
             /\ frame' = [frame EXCEPT ![t] = [NoFrame EXCEPT !.q = q, !.prio = prio]]
    <3>1. \A y \in Contexts \ {t} : pc'[y] = pc[y] /\ frame'[y] = frame[y]
      BY <1>0, <2>1, MoveUndisturbed DEF Goto, Moves
    <3> QED BY <1>0, <2>0, <2>1, <3>1, BlockFlow DEF IsFull
  <2>2. CASE UNCHANGED <<waitVars, errcode>> /\ \E l, f : Moves(t, l, f)
    BY <1>0, <2>0, <2>2, MoveFlow
  <2> HIDE DEF Goal
  <2> QED BY <1>0, <1>1, <2>1, <2>2, MoveForms DEF MqSend, Goto, Moves
<1>2. ASSUME NEW oflags, NEW q \in Queues, NEW prio, MqTimedSend(t, q, oflags, prio)
      PROVE  Goal
  <2>0. /\ pc[t] = "out" /\ task_state[t] = "READY" /\ UNCHANGED nmsgs
        /\ UNCHANGED <<waitVars, errcode>>
    BY <1>2, <1>a DEF MqTimedSend, queueVars
  <2>1. UNCHANGED <<pc, frame>> \/ \E l, f : Moves(t, l, f)
    BY <1>2 DEF MqTimedSend, Goto, Moves
  <2> QED BY <1>0, <2>0, <2>1, MoveFlow, StutterFlow
<1>3. ASSUME NEW oflags, NEW q \in Queues, NEW timed \in BOOLEAN, NEW time,
             ReceiveStart(t, q, oflags, timed, time)
      PROVE  Goal
  <2> DEFINE f == [NoFrame EXCEPT !.q = q, !.timed = timed]
  <2>0. pc[t] = "out" /\ task_state[t] = "READY" /\ f.q = q
    BY <1>3, <1>a DEF ReceiveStart, NoFrame
  <2> HIDE DEF f
  <2>1. CASE TakeMessage(t, q) /\ frame' = [frame EXCEPT ![t] = f]
             /\ UNCHANGED <<waitVars, errcode>>
    BY <1>0, <2>0, <2>1, TakeFlow
  <2>2. CASE \E code : Return(t, code) /\ UNCHANGED <<waitVars, errcode, nmsgs>>
    BY <1>0, <2>0, <2>2, MoveForms, MoveFlow
  <2>3. CASE /\ msglist[q] = <<>> /\ BlockNotEmpty(t, q) /\ Goto(t, "wait_recv")
             /\ frame' = [frame EXCEPT ![t] = f] /\ UNCHANGED nmsgs
    <3>1. \A y \in Contexts \ {t} : pc'[y] = pc[y] /\ frame'[y] = frame[y]
      BY <1>0, <2>3, MoveUndisturbed DEF Goto, Moves
    <3>2. nmsgs[q] = 0
      BY <1>0, <2>3, OrderFacts, EmptySeq DEF WakeInv
    <3> QED BY <1>0, <2>0, <2>3, <3>1, <3>2, BlockFlow
  <2> HIDE DEF Goal
  <2> QED BY <1>3, <2>1, <2>2, <2>3 DEF ReceiveStart, queueVars, f
<1>4. CASE UNCHANGED <<queueVars, pc, frame, waitVars, errcode>>
  BY <1>0, <1>4, StutterFlow DEF queueVars
<1> HIDE DEF Goal
<1> QED
  BY <1>1, <1>2, <1>3, <1>4
  DEF Call, MqReceive, MqTimedReceive, MqSendRejected, MqReceiveRejected, mq_notify

(***************************************************************************)
(* The steps of a send keep the flow.  A task that could get no memory     *)
(* would give up a place it accounts for and unblock nobody.               *)
(***************************************************************************)
LEMMA SendFlow ==
  ASSUME WakeInv, ~HeapMayFail, NEW x \in Contexts, SendStep(x)
  PROVE  FlowInv'
<1> DEFINE Goal == FlowInv'
<1> SUFFICES Goal
  OBVIOUS
<1>0. Inv /\ FlowInv /\ frame[x] \in Frames /\ frame \in [Contexts -> Frames]
  BY TypeSplit DEF WakeInv, Inv, CallTypes
<1>1. x \in Tasks => task_state[x] = "READY"
  BY ContextsDiffer DEF SendStep, SendAlloc, SendInsert, NotifyTest, NotifyTake,
     NotifySend, SendWake, Steps, CanRun, Ready
<1>2. CASE SendAlloc(x)
  <2>0. pc[x] \in {"alloc", "heap"} /\ UNCHANGED <<waitVars, errcode, nmsgs>>
    BY <1>2 DEF SendAlloc, queueVars
  <2>1. \/ "NULL" \in nxmq_alloc_msg(x) /\ Return(x, "ENOMEM")
        \/ Goto(x, "insert") /\ UNCHANGED frame
    BY <1>2 DEF SendAlloc
  <2>2. CASE "NULL" \in nxmq_alloc_msg(x) /\ Return(x, "ENOMEM")
    <3>1. x = ISR
      BY <2>2 DEF nxmq_alloc_msg, kmm_malloc
    <3> QED BY <1>0, <2>0, <2>2, <3>1, ContextsDiffer, MoveForms, MoveFlow
  <2>3. CASE Goto(x, "insert") /\ UNCHANGED frame
    BY <1>0, <1>1, <2>0, <2>3, MoveForms, MoveFlow
  <2> QED BY <2>1, <2>2, <2>3
<1>3. CASE SendInsert(x)
  BY <1>0, <1>3, InsertFlow
<1>4. CASE NotifyTest(x)
  <2>1. /\ pc[x] = "ntest" /\ UNCHANGED <<waitVars, errcode, nmsgs, frame>>
        /\ \E l \in {"ntake", "wake"} : Goto(x, l)
    BY <1>4 DEF NotifyTest, queueVars
  <2>2. PICK l \in {"ntake", "wake"} : Goto(x, l)
    BY <2>1
  <2>3. Moves(x, l, frame[x])
    BY <1>0, <2>1, <2>2, MoveForms
  <2> QED BY <1>0, <1>1, <2>1, <2>3, MoveFlow
<1>5. CASE NotifyTake(x)
  <2> DEFINE f == [frame[x] EXCEPT !.pid = ntpid[frame[x].q]]
  <2>1. /\ pc[x] = "ntake" /\ UNCHANGED <<waitVars, errcode, nmsgs>>
        /\ pc' = [pc EXCEPT ![x] = "nsend"]
    BY <1>5 DEF NotifyTake, queueVars, Goto
  <2>2. frame' = [frame EXCEPT ![x] = f]
    BY <1>5 DEF NotifyTake
  <2>3. f.q = frame[x].q
    BY <1>0 DEF Frames
  <2> HIDE DEF f
  <2> QED BY <1>0, <1>1, <2>1, <2>2, <2>3, MoveFlow DEF Moves
<1>6. CASE NotifySend(x)
  <2>1. /\ pc[x] = "nsend" /\ UNCHANGED <<nmsgs, frame>> /\ Goto(x, "wake")
    BY <1>6 DEF NotifySend, queueVars
  <2>2. CASE UNCHANGED <<waitVars, errcode>>
    BY <1>0, <1>1, <2>1, <2>2, MoveForms, MoveFlow
  <2>3. CASE /\ frame[x].pid # NONE /\ InMqWait(frame[x].pid)
             /\ nxmq_wait_irq(frame[x].pid, "EINTR")
    <3>1. frame[x].pid \in Tasks
      BY <1>0, <2>3 DEF Frames
    <3>2. x # frame[x].pid
      BY <1>1, <2>3, <3>1 DEF InMqWait
    <3> QED BY <1>0, <1>1, <2>1, <2>3, <3>1, <3>2, CancelFlow DEF Goto
  <2> HIDE DEF Goal
  <2> QED BY <1>6, <2>2, <2>3 DEF NotifySend
<1>7. CASE SendWake(x)
  BY <1>7, SendWakeFlow
<1> HIDE DEF Goal
<1> QED BY <1>2, <1>3, <1>4, <1>5, <1>6, <1>7 DEF SendStep

(***************************************************************************)
(* The steps of a task inside a call keep the flow.                        *)
(***************************************************************************)
LEMMA TaskFlow ==
  ASSUME WakeInv, ~HeapMayFail, NEW t \in Tasks, TaskStep(t)
  PROVE  FlowInv'
<1> DEFINE Goal == FlowInv'
<1> SUFFICES Goal
  OBVIOUS
<1>0. /\ Inv /\ FlowInv /\ t \in Contexts /\ ContextOK(t)
      /\ frame[t] \in Frames /\ frame \in [Contexts -> Frames]
  BY TypeSplit, CallsSplit DEF WakeInv, Inv, CallTypes, Contexts
<1>a. ASSUME CanRun(t) PROVE task_state[t] = "READY"
  BY <1>a DEF CanRun, Ready
<1>1. CASE ResumeSend(t)
  <2>0. /\ pc[t] = "wait_send" /\ task_state[t] = "READY" /\ UNCHANGED nmsgs
        /\ frame[t].q \in Queues
    BY <1>0, <1>1, <1>a DEF ResumeSend, queueVars, ContextOK, SendPcs
  <2>1. CASE errcode[t] # "OK" /\ Return(t, errcode[t]) /\ UNCHANGED <<waitVars, errcode>>
    BY <1>0, <2>0, <2>1, MoveForms, MoveFlow
  <2>2. CASE IsFull(frame[t].q) /\ BlockNotFull(t, frame[t].q) /\ UNCHANGED <<pc, frame>>
    BY <1>0, <2>0, <2>2, BlockFlow DEF IsFull
  <2>3. CASE /\ Goto(t, IF frame[t].timed THEN "insert" ELSE "alloc")
             /\ UNCHANGED <<waitVars, errcode, frame>>
    <3>1. PICK l \in {"alloc", "insert"} : Goto(t, l)
      BY <2>3
    <3> QED BY <1>0, <2>0, <2>3, <3>1, MoveForms, MoveFlow
  <2> HIDE DEF Goal
  <2> QED BY <1>1, <2>1, <2>2, <2>3 DEF ResumeSend, callVars
<1>2. CASE ResumeReceive(t)
  <2>0. /\ pc[t] = "wait_recv" /\ task_state[t] = "READY" /\ frame[t].q \in Queues
    BY <1>0, <1>2, <1>a DEF ResumeReceive, ContextOK, RecvPcs
  <2>1. CASE /\ errcode[t] # "OK" /\ Return(t, errcode[t])
             /\ UNCHANGED <<waitVars, errcode, nmsgs>>
    BY <1>0, <2>0, <2>1, MoveForms, MoveFlow
  <2>2. CASE /\ msglist[frame[t].q] = <<>> /\ BlockNotEmpty(t, frame[t].q)
             /\ UNCHANGED <<pc, frame, nmsgs>>
    <3>1. nmsgs[frame[t].q] = 0
      BY <1>0, <2>0, <2>2, OrderFacts, EmptySeq DEF WakeInv
    <3> QED BY <1>0, <2>0, <2>2, <3>1, BlockFlow
  <2>3. CASE /\ TakeMessage(t, frame[t].q) /\ UNCHANGED <<waitVars, errcode, frame>>
    <3>1. frame' = [frame EXCEPT ![t] = frame[t]]
      BY <1>0, <2>3
    <3> QED BY <1>0, <2>0, <2>3, <3>1, TakeFlow
  <2> HIDE DEF Goal
  <2> QED BY <1>2, <2>1, <2>2, <2>3 DEF ResumeReceive, callVars, queueVars
<1>3. ASSUME NEW nonblock, NEW time, TimedSendStart(t, nonblock, time) PROVE Goal
  <2>0. /\ pc[t] = "tstart" /\ task_state[t] = "READY" /\ UNCHANGED nmsgs
        /\ frame[t].q \in Queues
    BY <1>0, <1>3, <1>a DEF TimedSendStart, queueVars, ContextOK, SendPcs
  <2>1. CASE UNCHANGED <<waitVars, errcode>> /\ \E l, f : Moves(t, l, f)
    BY <1>0, <2>0, <2>1, MoveFlow
  <2>2. CASE /\ IsFull(frame[t].q) /\ BlockNotFull(t, frame[t].q) /\ Goto(t, "wait_send")
             /\ UNCHANGED frame
    <3>1. \A y \in Contexts \ {t} : pc'[y] = pc[y] /\ frame'[y] = frame[y]
      BY <1>0, <2>2, MoveForms, MoveUndisturbed
    <3> QED BY <1>0, <2>0, <2>2, <3>1, BlockFlow DEF IsFull
  <2> HIDE DEF Goal
  <2> QED BY <1>0, <1>3, <2>1, <2>2, MoveForms DEF TimedSendStart
<1>4. CASE ReceiveFree(t)
  <2>1. /\ pc[t] \in {"free", "hfree"} /\ task_state[t] = "READY" /\ Goto(t, "check")
        /\ UNCHANGED <<waitVars, errcode, nmsgs, frame>>
    BY <1>4, <1>a DEF ReceiveFree, queueVars
  <2> QED BY <1>0, <2>1, MoveForms, MoveFlow
<1>7. CASE HeapWait(t)
  <2>1. /\ \/ pc[t] = "alloc" /\ Goto(t, "heap")
           \/ pc[t] = "free" /\ Goto(t, "hfree")
        /\ task_state[t] = "READY" /\ UNCHANGED <<waitVars, errcode, nmsgs, frame>>
    BY <1>7, <1>a DEF HeapWait, queueVars
  <2> QED BY <1>0, <2>1, MoveForms, MoveFlow
<1>5. CASE ReceiveCheck(t) \/ ReceiveWake(t)
  BY <1>5, ReceiveWakeFlow
<1>6. CASE SendStep(t)
  BY <1>0, <1>6, SendFlow
<1> HIDE DEF Goal
<1> QED BY <1>1, <1>2, <1>3, <1>4, <1>5, <1>6, <1>7 DEF TaskStep

(***************************************************************************)
(* Every step keeps the flow.                                              *)
(***************************************************************************)
LEMMA FlowStep ==
  ASSUME WakeInv, Deletable = {}, ~HeapMayFail, [Next]_vars
  PROVE  FlowInv'
<1> DEFINE Goal == FlowInv'
<1> SUFFICES Goal
  OBVIOUS
<1>0. /\ Inv /\ FlowInv /\ ISR \in Contexts /\ ISR \notin Tasks
      /\ Tasks \subseteq Contexts
  BY ContextsDiffer DEF WakeInv, Contexts
<1>1. ASSUME NEW q, NEW prio, IsrSend(q, prio) PROVE Goal
  <2>1. pc[ISR] = "out" /\ UNCHANGED <<waitVars, errcode, nmsgs>>
    BY <1>1 DEF IsrSend, queueVars, Running
  <2>2. Moves(ISR, "alloc", [NoFrame EXCEPT !.q = q, !.prio = prio])
    BY <1>1 DEF IsrSend, Goto, Moves
  <2> QED BY <1>0, <2>1, <2>2, MoveFlow
<1>2. ASSUME NEW t \in Tasks, WaitTimeout(t) \/ SignalTask(t) PROVE Goal
  <2>0. UNCHANGED <<nmsgs, pc, frame>>
    BY <1>2 DEF WaitTimeout, SignalTask, queueVars, callVars
  <2>1. CASE UNCHANGED <<waitVars, errcode>>
    BY <1>0, <2>0, <2>1, StutterFlow
  <2>2. ASSUME NEW code, InMqWait(t), nxmq_wait_irq(t, code) PROVE Goal
    BY <1>0, <2>0, <2>2, CancelFlow
  <2> HIDE DEF Goal
  <2> QED BY <1>2, <2>1, <2>2 DEF WaitTimeout, SignalTask
<1>3. ASSUME NEW t \in Tasks, TaskTerminate(t) \/ TaskRecover(t) PROVE Goal
  BY <1>3 DEF TaskTerminate, TaskRecover, WakeInv, NoneDeleted
<1>4. CASE UNCHANGED vars
  BY <1>0, <1>4, StutterFlow DEF vars, queueVars, callVars
<1>5. ASSUME NEW t \in Tasks, Call(t) \/ TaskStep(t) PROVE Goal
  BY <1>5, CallFlow, TaskFlow
<1>6. CASE SendStep(ISR)
  BY <1>0, <1>6, SendFlow
<1> HIDE DEF Goal
<1> QED BY <1>1, <1>2, <1>3, <1>4, <1>5, <1>6 DEF Next, Halted

(***************************************************************************)
(* At the start nobody waits.                                              *)
(***************************************************************************)
LEMMA WakeInit == Init => ErrInv /\ WaitCounts /\ NoneDeleted /\ FlowInv
<1> SUFFICES ASSUME Init PROVE ErrInv /\ WaitCounts /\ NoneDeleted /\ FlowInv
  OBVIOUS
<1>1. ErrInv /\ NoneDeleted
  BY DEF Init, ErrInv, InMqWait, NoneDeleted, Contexts
<1>2. ASSUME NEW q PROVE /\ BlockedOn("WAIT_MQNOTEMPTY", q) = {}
                         /\ BlockedOn("WAIT_MQNOTFULL", q) = {}
  BY DEF Init, BlockedOn
<1>3. FlowInv
  BY <1>2 DEF FlowInv, Flow
<1>4. WaitCounts
  BY <1>2, FS_EmptySet DEF WaitCounts, Init
<1> QED BY <1>1, <1>3, <1>4

(***************************************************************************)
(* NoLostWakeup: while a task waits for a message there is a task or an    *)
(* interrupt handler on its way for every message in the queue, and while  *)
(* one waits for room there is a task on its way for every free place.     *)
(* The two hypotheses are needed: a task that is deleted, or that gets no  *)
(* memory, between its wake-up and its use of what it was woken for keeps  *)
(* the wake-up to itself.                                                  *)
(***************************************************************************)
THEOREM WakeupsNotLost ==
  ASSUME Deletable = {}, ~HeapMayFail
  PROVE  Spec => []NoLostWakeup
<1>1. Init => WakeInv
  BY InvInit, ListsInit, OrderInit, WakeInit DEF WakeInv
<1>2. WakeInv /\ [Next]_vars => WakeInv'
  <2> SUFFICES ASSUME WakeInv, [Next]_vars PROVE WakeInv'
    OBVIOUS
  <2>1. Inv /\ ErrInv /\ ListsInv /\ WaitCounts /\ OrderInv /\ NoneDeleted
    BY DEF WakeInv
  <2>2. Inv'
    BY <2>1, TypeStep, CallsStep DEF Inv
  <2>3. ErrInv' /\ ListsInv' /\ WaitCounts' /\ OrderInv' /\ NoneDeleted'
    BY <2>1, ErrStep, ListsStep, CountsStep, OrderStep, DeletedStep
  <2> QED BY <2>2, <2>3, FlowStep DEF WakeInv
<1>3. WakeInv => NoLostWakeup
  BY FlowCounts DEF WakeInv
<1> QED BY <1>1, <1>2, <1>3, PTL DEF Spec

(***************************************************************************)
(* NotifiedOnce: of all the tasks that send to a queue, one copies, signals*)
(* and detaches a registration.                                            *)
(***************************************************************************)
THEOREM NotificationsOnce == Spec => []NotifiedOnce
<1>1. LockInv => NotifiedOnce
  BY DEF NotifiedOnce, LockInv, LockedPcs
<1> QED BY <1>1, LockAlways, PTL

(***************************************************************************)
(* A task in a call has the part in it that its program gives it, only a   *)
(* receive has a timeout, and a receive that saw a sender wait and has not *)
(* woken it yet can still rely on that.                                    *)
(***************************************************************************)
RoleOK(t) ==
    /\ pc[t] # "tstart"
    /\ pc[t] = "wait_send" => t \in Senders
    /\ pc[t] \in RecvPcs => t \in Receivers \cup TimedReceivers
    /\ waitdog[t] => pc[t] = "wait_recv"
    /\ pc[t] = "wakenf" => nwaitnotfull[frame[t].q] > 0
FaultInv == fault = "none" /\ \A t \in Tasks : RoleOK(t)

(***************************************************************************)
(* Nobody can end the wait of a sender between the test of nwaitnotfull in *)
(* nxmq_do_receive and the search of the wait list: sends have no timeout, *)
(* and a sender that gets signals is the only receiver.                    *)
(***************************************************************************)
SendersStay ==
    /\ TimedSenders = {}
    /\ \A s \in Senders \cap Signalable : \A r \in Receivers \cup TimedReceivers : r = s

(***************************************************************************)
(* A step of context x that keeps the wait of a sender, or finds no        *)
(* receive about to wake one, keeps FaultInv if it does so for x.          *)
(***************************************************************************)
LEMMA FaultKept ==
  ASSUME Inv, FaultInv, NEW x \in Contexts, UNCHANGED fault,
         \A y \in Contexts \ {x} : pc'[y] = pc[y] /\ frame'[y] = frame[y],
         \A u \in Tasks \ {x} : waitdog'[u] => waitdog[u],
         \/ \A q \in Queues : nwaitnotfull[q] > 0 => nwaitnotfull'[q] > 0
         \/ \A u \in Tasks \ {x} : pc[u] # "wakenf",
         x \in Tasks => RoleOK(x)'
  PROVE  FaultInv'
<1> SUFFICES ASSUME NEW u \in Tasks, u # x PROVE RoleOK(u)'
  BY DEF FaultInv
<1>1. pc'[u] = pc[u] /\ frame'[u] = frame[u] /\ (waitdog'[u] => waitdog[u]) /\ RoleOK(u)
  BY DEF FaultInv, Contexts
<1>2. pc[u] = "wakenf" => frame[u].q \in Queues
  BY DEF Inv, CallsConsistent, Contexts, RecvPcs
<1> QED BY <1>1, <1>2 DEF RoleOK

(***************************************************************************)
(* Nothing changes that FaultInv is about.                                 *)
(***************************************************************************)
LEMMA FaultStutter ==
  ASSUME FaultInv, UNCHANGED <<pc, frame, waitdog, fault, waitVars>>
  PROVE  FaultInv'
BY DEF FaultInv, RoleOK, waitVars

(***************************************************************************)
(* No task but the one that runs is about to wake a sender: it would hold  *)
(* sched_lock.                                                             *)
(***************************************************************************)
LEMMA OneWaker ==
  ASSUME LockInv, NEW t \in Tasks, CanRun(t)
  PROVE  \A u \in Tasks \ {t} : pc[u] # "wakenf"
BY ContextsDiffer DEF LockInv, LockedPcs, CanRun

(***************************************************************************)
(* A move of a task that can run, without a fault.                         *)
(***************************************************************************)
LEMMA FaultMove ==
  ASSUME Inv, LockInv, FaultInv, NEW t \in Tasks, CanRun(t), NEW l, NEW f, Moves(t, l, f),
         UNCHANGED fault,
         \A u \in Tasks \ {t} : waitdog'[u] => waitdog[u],
         l # "tstart", l = "wait_send" => t \in Senders,
         l \in RecvPcs => t \in Receivers \cup TimedReceivers,
         waitdog'[t] => l = "wait_recv",
         l = "wakenf" => nwaitnotfull'[f.q] > 0
  PROVE  FaultInv'
<1>1. /\ pc'[t] = l /\ frame'[t] = f /\ t \in Contexts
      /\ \A y \in Contexts \ {t} : pc'[y] = pc[y] /\ frame'[y] = frame[y]
  BY MoveUndisturbed DEF Contexts
<1>2. RoleOK(t)'
  BY <1>1 DEF RoleOK
<1> QED BY <1>1, <1>2, OneWaker, FaultKept

(***************************************************************************)
(* The cancellation of a wait leaves the waits of senders alone, or comes  *)
(* when no receive is about to wake one.                                   *)
(***************************************************************************)
LEMMA CancelSafe ==
  ASSUME Inv, LockInv, FaultInv, SendersStay, NoneDeleted,
         NEW p \in Tasks, NEW code, nxmq_wait_irq(p, code), InMqWait(p),
         p \in Signalable \/ waitdog[p]
  PROVE  /\ UNCHANGED fault
         /\ \/ \A q \in Queues : nwaitnotfull[q] > 0 => nwaitnotfull'[q] > 0
            \/ \A u \in Tasks : pc[u] # "wakenf"
<1>1. UNCHANGED fault
  BY DEF nxmq_wait_irq, NoneDeleted
<1>2. CASE task_state[p] = "WAIT_MQNOTEMPTY"
  BY <1>1, <1>2 DEF nxmq_wait_irq
<1>3. CASE task_state[p] = "WAIT_MQNOTFULL"
  <2>1. pc[p] = "wait_send"
    BY <1>3 DEF Inv, CallsConsistent, NoneDeleted
  <2>2. p \in Senders \cap Signalable
    BY <2>1 DEF FaultInv, RoleOK
  <2>3. ASSUME NEW u \in Tasks, pc[u] = "wakenf" PROVE FALSE
    <3>1. u \in Receivers \cup TimedReceivers
      BY <2>3 DEF FaultInv, RoleOK, RecvPcs
    <3>2. u = p
      BY <2>2, <3>1 DEF SendersStay
    <3> QED BY <2>1, <2>3, <3>2
  <2> QED BY <1>1, <2>3
<1> QED BY <1>2, <1>3 DEF InMqWait

(***************************************************************************)
(* Everything the argument about faults uses.                              *)
(***************************************************************************)
SafeInv ==
    Inv /\ LockInv /\ ListsInv /\ WaitCounts /\ NoneDeleted /\ FaultInv

(***************************************************************************)
(* The calls fault nowhere.                                                *)
(***************************************************************************)
LEMMA CallSafe ==
  ASSUME SafeInv, SendersStay, NEW t \in Tasks, Call(t)
  PROVE  FaultInv'
<1> DEFINE Goal == FaultInv'
<1> SUFFICES Goal
  OBVIOUS
<1>0. /\ Inv /\ LockInv /\ FaultInv /\ t \in Contexts /\ RoleOK(t)
      /\ waitdog \in [Tasks -> BOOLEAN]
  BY DEF SafeInv, Contexts, FaultInv, Inv, TypeOK
<1>a. ASSUME NEW l \in PcStates, NEW f, Moves(t, l, f), CanRun(t), pc[t] = "out",
             UNCHANGED <<fault, waitdog>>,
             l \in {"out", "alloc", "free", "wait_send"},
             l = "wait_send" => t \in Senders,
             l = "free" => t \in Receivers \cup TimedReceivers
      PROVE  Goal
  <2>1. ~waitdog[t]
    BY <1>0, <1>a DEF RoleOK
  <2> QED BY <1>0, <1>a, <2>1, FaultMove DEF RecvPcs
<1>b. "out" \in PcStates /\ "alloc" \in PcStates /\ "free" \in PcStates
      /\ "wait_send" \in PcStates
  BY DEF PcStates, SendPcs, RecvPcs
<1>1. ASSUME NEW oflags, NEW q, NEW prio, MqSend(t, q, oflags, prio)
      PROVE  Goal
  <2>1. \/ Moves(t, "out", NoFrame)
        \/ \E f : Moves(t, "alloc", f)
        \/ \E f : Moves(t, "wait_send", f)
    BY <1>0, <1>1, MoveForms DEF MqSend, Goto, Moves
  <2>2. CanRun(t) /\ pc[t] = "out" /\ UNCHANGED <<fault, waitdog>> /\ t \in Senders
    BY <1>1 DEF MqSend
  <2> HIDE DEF Goal
  <2> QED BY <1>a, <1>b, <2>1, <2>2
<1>2. ASSUME NEW oflags, NEW q, NEW prio, MqTimedSend(t, q, oflags, prio)
      PROVE  Goal
  BY <1>2 DEF MqTimedSend, SendersStay
<1>3. ASSUME NEW oflags, NEW q, NEW timed \in BOOLEAN, NEW time,
             ReceiveStart(t, q, oflags, timed, time)
      PROVE  Goal
  <2> DEFINE f == [NoFrame EXCEPT !.q = q, !.timed = timed]
  <2>0. /\ CanRun(t) /\ pc[t] = "out" /\ UNCHANGED fault
        /\ t \in Receivers \cup TimedReceivers
    BY <1>3 DEF ReceiveStart
  <2>1. CASE UNCHANGED waitdog /\ (Moves(t, "out", NoFrame) \/ Moves(t, "free", f))
    <3> HIDE DEF Goal, f
    <3> QED BY <1>a, <1>b, <2>0, <2>1
  <2>2. CASE waitdog' = [waitdog EXCEPT ![t] = timed] /\ Moves(t, "wait_recv", f)
    <3>1. \A u \in Tasks \ {t} : waitdog'[u] => waitdog[u]
      BY <1>0, <2>2
    <3> HIDE DEF f
    <3> QED BY <1>0, <2>0, <2>2, <3>1, FaultMove
  <2>3. \/ UNCHANGED waitdog /\ (Moves(t, "out", NoFrame) \/ Moves(t, "free", f))
        \/ waitdog' = [waitdog EXCEPT ![t] = timed] /\ Moves(t, "wait_recv", f)
    BY <1>0, <1>3, MoveForms DEF ReceiveStart, TakeMessage, Goto, Moves
  <2> HIDE DEF Goal
  <2> QED BY <2>1, <2>2, <2>3
<1>4. CASE UNCHANGED <<waitVars, pc, frame, waitdog, fault>>
  BY <1>0, <1>4, FaultStutter
<1> HIDE DEF Goal
<1> QED
  BY <1>1, <1>2, <1>3, <1>4
  DEF Call, MqReceive, MqTimedReceive, MqSendRejected, MqReceiveRejected, mq_notify

(***************************************************************************)
(* The steps of a send fault nowhere: the counter that says a receiver     *)
(* waits is right.                                                         *)
(***************************************************************************)
LEMMA SendSafe ==
  ASSUME SafeInv, SendersStay, NEW x \in Contexts, SendStep(x)
  PROVE  FaultInv'
<1> DEFINE Goal == FaultInv'
<1> SUFFICES Goal
  OBVIOUS
<1>0. /\ Inv /\ LockInv /\ FaultInv /\ ListsInv /\ WaitCounts /\ NoneDeleted
      /\ frame[x] \in Frames /\ frame \in [Contexts -> Frames]
  BY TypeSplit DEF SafeInv, Inv, CallTypes
<1>1. UNCHANGED waitdog
  BY DEF SendStep, SendAlloc, SendInsert, NotifyTest, NotifyTake, NotifySend, SendWake
<1>2. pc[x] \in SendPcs \ {"tstart", "wait_send"}
  BY DEF SendStep, SendAlloc, SendInsert, NotifyTest, NotifyTake, NotifySend, SendWake,
         SendPcs
<1>3. \E l \in {"out", "insert", "ntest", "ntake", "nsend", "wake"} : \E f : Moves(x, l, f)
  <2>1. CASE NotifyTake(x)
    BY <2>1 DEF NotifyTake, Goto, Moves
  <2>2. CASE ~NotifyTake(x)
    BY <1>0, <2>2, MoveForms DEF SendStep, SendAlloc, SendInsert, NotifyTest, NotifySend,
       SendWake
  <2> QED BY <2>1, <2>2
<1>4. /\ \A y \in Contexts \ {x} : pc'[y] = pc[y] /\ frame'[y] = frame[y]
      /\ pc'[x] \in {"out", "insert", "ntest", "ntake", "nsend", "wake"}
  BY <1>0, <1>3, MoveUndisturbed
<1>5. x \in Tasks => RoleOK(x)'
  BY <1>0, <1>1, <1>2, <1>4 DEF RoleOK, FaultInv, SendPcs, RecvPcs
<1>6. ASSUME UNCHANGED <<fault, nwaitnotfull>> PROVE Goal
  BY <1>0, <1>1, <1>4, <1>5, <1>6, FaultKept
<1>7. CASE NotifySend(x)
  <2> DEFINE p == frame[x].pid
  <2>1. CASE UNCHANGED <<waitVars, errcode, fault>>
    BY <1>6, <2>1 DEF waitVars
  <2>2. CASE p # NONE /\ p \in Signalable /\ InMqWait(p) /\ nxmq_wait_irq(p, "EINTR")
    <3>1. p \in Tasks
      BY <1>0, <2>2 DEF Frames
    <3> HIDE DEF p
    <3>2. /\ UNCHANGED fault
          /\ \/ \A q \in Queues : nwaitnotfull[q] > 0 => nwaitnotfull'[q] > 0
             \/ \A u \in Tasks : pc[u] # "wakenf"
      BY <1>0, <2>2, <3>1, CancelSafe
    <3> QED BY <1>0, <1>1, <1>4, <1>5, <3>2, FaultKept
  <2> HIDE DEF Goal
  <2> QED BY <1>7, <2>1, <2>2 DEF NotifySend
<1>8. CASE SendWake(x)
  <2> DEFINE r == frame[x].q
  <2>1. r \in Queues
    BY <1>0, <1>8 DEF Inv, CallsConsistent, SendWake, SendPcs
  <2>2. nwaitnotempty[r] > 0 => Waiting(g_waitingformqnotempty, r) # {}
    <3>1. nwaitnotempty[r] = Cardinality(BlockedOn("WAIT_MQNOTEMPTY", r))
      BY <1>0, <2>1 DEF WaitCounts
    <3>2. ASSUME Waiting(g_waitingformqnotempty, r) = {} PROVE nwaitnotempty[r] = 0
      BY <1>0, <2>1, <3>1, <3>2, SearchFindsWaiters, FS_EmptySet
    <3> QED BY <3>2
  <2>3. UNCHANGED <<fault, nwaitnotfull>>
    BY <1>8, <2>2 DEF SendWake, WakeNotEmpty
  <2> QED BY <1>6, <2>3
<1>9. CASE ~NotifySend(x) /\ ~SendWake(x)
  BY <1>6, <1>9 DEF SendStep, SendAlloc, SendInsert, NotifyTest, NotifyTake, waitVars
<1> HIDE DEF Goal
<1> QED BY <1>7, <1>8, <1>9

(***************************************************************************)
(* The other steps of a task fault nowhere: a receive that comes to search *)
(* the wait list finds the sender it saw wait.                             *)
(***************************************************************************)
LEMMA TaskSafe ==
  ASSUME SafeInv, SendersStay, NEW t \in Tasks, TaskStep(t)
  PROVE  FaultInv'
<1> DEFINE Goal == FaultInv'
<1> SUFFICES Goal
  OBVIOUS
<1>0. /\ Inv /\ LockInv /\ FaultInv /\ t \in Contexts /\ ContextOK(t) /\ RoleOK(t)
      /\ WaitTypes /\ waitdog \in [Tasks -> BOOLEAN] /\ frame \in [Contexts -> Frames]
  BY TypeSplit, CallsSplit DEF SafeInv, Inv, CallTypes, Contexts, FaultInv
<1>1. CASE ResumeSend(t)
  <2>0. /\ pc[t] = "wait_send" /\ CanRun(t) /\ UNCHANGED fault /\ t \in Senders
        /\ ~waitdog[t]
    BY <1>0, <1>1 DEF ResumeSend, RoleOK
  <2>1. (\A u \in Tasks \ {t} : waitdog'[u] => waitdog[u]) /\ ~waitdog'[t]
    BY <1>0, <1>1, <2>0 DEF ResumeSend
  <2>2. \E l \in {"out", "wait_send", "insert", "alloc"} : \E f : Moves(t, l, f)
    <3>1. CASE UNCHANGED <<pc, frame>>
      <4>1. pc' = [pc EXCEPT ![t] = pc[t]] /\ frame' = [frame EXCEPT ![t] = frame[t]]
        BY <1>0, <3>1 DEF Inv, TypeOK
      <4> QED BY <2>0, <4>1 DEF Moves
    <3>2. CASE ~UNCHANGED <<pc, frame>>
      BY <1>0, <1>1, <3>2, MoveForms DEF ResumeSend, callVars
    <3> QED BY <3>1, <3>2
  <2> QED BY <1>0, <2>0, <2>1, <2>2, FaultMove DEF RecvPcs
<1>2. CASE ResumeReceive(t)
  <2>0. /\ pc[t] = "wait_recv" /\ CanRun(t) /\ UNCHANGED fault
        /\ t \in Receivers \cup TimedReceivers
    BY <1>0, <1>2 DEF ResumeReceive, RoleOK, RecvPcs
  <2>1. \A u \in Tasks \ {t} : waitdog'[u] => waitdog[u]
    BY <1>0, <1>2 DEF ResumeReceive
  <2>2. CASE UNCHANGED <<pc, frame, waitdog>>
    <3>1. pc' = [pc EXCEPT ![t] = pc[t]] /\ frame' = [frame EXCEPT ![t] = frame[t]]
      BY <1>0, <2>2 DEF Inv, TypeOK
    <3> QED BY <1>0, <2>0, <2>1, <3>1, FaultMove DEF Moves
  <2>3. CASE ~UNCHANGED <<pc, frame, waitdog>>
    <3>1. ~waitdog'[t]
      BY <1>0, <1>2, <2>3 DEF ResumeReceive, callVars
    <3>2. \E l \in {"out", "free"} : \E f : Moves(t, l, f)
      BY <1>0, <1>2, <2>3, MoveForms DEF ResumeReceive, TakeMessage, callVars
    <3> QED BY <1>0, <2>0, <2>1, <3>1, <3>2, FaultMove DEF RecvPcs
  <2> QED BY <2>2, <2>3
<1>3. ASSUME NEW nonblock, NEW time, TimedSendStart(t, nonblock, time) PROVE Goal
  BY <1>0, <1>3 DEF TimedSendStart, RoleOK
<1>4. ASSUME ReceiveFree(t) \/ ReceiveCheck(t) \/ ReceiveWake(t)
      PROVE  /\ CanRun(t) /\ UNCHANGED waitdog /\ ~waitdog[t]
             /\ t \in Receivers \cup TimedReceivers
             /\ frame[t].q \in Queues
  BY <1>0, <1>4 DEF ReceiveFree, ReceiveCheck, ReceiveWake, RoleOK, RecvPcs, ContextOK
<1>5. CASE ReceiveFree(t)
  <2>1. Moves(t, "check", frame[t]) /\ UNCHANGED fault
    BY <1>0, <1>5, MoveForms DEF ReceiveFree
  <2> QED BY <1>0, <1>4, <1>5, <2>1, FaultMove
<1>6. CASE ReceiveCheck(t)
  <2>1. UNCHANGED <<fault, nwaitnotfull>>
    BY <1>6 DEF ReceiveCheck, waitVars
  <2>2. \/ Moves(t, "out", NoFrame)
        \/ nwaitnotfull[frame[t].q] > 0 /\ Moves(t, "wakenf", frame[t])
    BY <1>0, <1>6, MoveForms DEF ReceiveCheck
  <2> QED BY <1>0, <1>4, <1>6, <2>1, <2>2, FaultMove DEF RecvPcs
<1>7. CASE ReceiveWake(t)
  <2> DEFINE r == frame[t].q
  <2>1. Moves(t, "out", NoFrame)
    BY <1>0, <1>7, MoveForms DEF ReceiveWake
  <2>2. nwaitnotfull[r] > 0 /\ r \in Queues
    BY <1>0, <1>4, <1>7 DEF ReceiveWake, RoleOK
  <2>3. Waiting(g_waitingformqnotfull, r) # {}
    <3>1. nwaitnotfull[r] = Cardinality(BlockedOn("WAIT_MQNOTFULL", r))
      BY <2>2 DEF SafeInv, WaitCounts
    <3>2. ASSUME Waiting(g_waitingformqnotfull, r) = {} PROVE nwaitnotfull[r] = 0
      BY <1>0, <2>2, <3>1, <3>2, SearchFindsWaiters, FS_EmptySet DEF SafeInv
    <3> QED BY <2>2, <3>2
  <2>4. UNCHANGED fault
    BY <1>7, <2>3 DEF ReceiveWake, WakeNotFull
  <2> QED BY <1>0, <1>4, <1>7, <2>1, <2>4, FaultMove DEF RecvPcs
<1>8. CASE SendStep(t)
  BY <1>0, <1>8, SendSafe
<1>9. CASE HeapWait(t)
  <2>1. /\ CanRun(t) /\ UNCHANGED <<fault, waitdog>> /\ ~waitdog[t]
        /\ \/ Moves(t, "heap", frame[t])
           \/ Moves(t, "hfree", frame[t]) /\ t \in Receivers \cup TimedReceivers
    BY <1>0, <1>9, MoveForms DEF HeapWait, RoleOK, RecvPcs
  <2> QED BY <1>0, <2>1, FaultMove DEF RecvPcs
<1> HIDE DEF Goal
<1> QED BY <1>1, <1>2, <1>3, <1>5, <1>6, <1>7, <1>8, <1>9 DEF TaskStep

(***************************************************************************)
(* No step faults.                                                         *)
(***************************************************************************)
LEMMA FaultStep ==
  ASSUME SafeInv, SendersStay, Deletable = {}, [Next]_vars
  PROVE  FaultInv'
<1> DEFINE Goal == FaultInv'
<1> SUFFICES Goal
  OBVIOUS
<1>0. /\ Inv /\ LockInv /\ FaultInv /\ NoneDeleted /\ ISR \in Contexts /\ ISR \notin Tasks
      /\ waitdog \in [Tasks -> BOOLEAN]
  BY ContextsDiffer DEF SafeInv, Contexts, Inv, TypeOK
<1>1. ASSUME NEW q, NEW prio, IsrSend(q, prio) PROVE Goal
  <2>1. Moves(ISR, "alloc", [NoFrame EXCEPT !.q = q, !.prio = prio])
        /\ UNCHANGED <<fault, waitdog, nwaitnotfull>>
    BY <1>1 DEF IsrSend, Goto, Moves, waitVars
  <2>2. \A y \in Contexts \ {ISR} : pc'[y] = pc[y] /\ frame'[y] = frame[y]
    BY <1>0, <2>1, MoveUndisturbed
  <2> QED BY <1>0, <2>1, <2>2, FaultKept
<1>2. ASSUME NEW t \in Tasks, WaitTimeout(t) \/ SignalTask(t) PROVE Goal
  <2>0. UNCHANGED <<pc, frame>> /\ \A u \in Tasks : waitdog'[u] => waitdog[u]
    BY <1>0, <1>2 DEF WaitTimeout, SignalTask, callVars
  <2>1. CASE UNCHANGED <<waitVars, fault>>
    BY <1>0, <2>0, <2>1, FaultKept DEF waitVars
  <2>2. ASSUME NEW code, InMqWait(t), nxmq_wait_irq(t, code), t \in Signalable \/ waitdog[t]
        PROVE  Goal
    <3>1. /\ UNCHANGED fault
          /\ \/ \A q \in Queues : nwaitnotfull[q] > 0 => nwaitnotfull'[q] > 0
             \/ \A u \in Tasks : pc[u] # "wakenf"
      BY <1>0, <2>2, CancelSafe
    <3> QED BY <1>0, <2>0, <3>1, FaultKept
  <2> HIDE DEF Goal
  <2> QED BY <1>2, <2>1, <2>2 DEF WaitTimeout, SignalTask
<1>3. ASSUME NEW t \in Tasks, TaskTerminate(t) \/ TaskRecover(t) PROVE Goal
  BY <1>0, <1>3 DEF TaskTerminate, TaskRecover, NoneDeleted
<1>4. CASE UNCHANGED vars
  BY <1>0, <1>4, FaultStutter DEF vars, callVars
<1>5. ASSUME NEW t \in Tasks, Call(t) \/ TaskStep(t) PROVE Goal
  BY <1>5, CallSafe, TaskSafe
<1>6. CASE SendStep(ISR)
  BY <1>0, <1>6, SendSafe
<1> HIDE DEF Goal
<1> QED BY <1>1, <1>2, <1>3, <1>4, <1>5, <1>6 DEF Next, Halted

(***************************************************************************)
(* NoFault: no task that a send or a receive wakes is NULL or deleted,     *)
(* provided that no task is deleted and that nobody can end the wait of a  *)
(* sender in the middle of a receive.  The proviso is needed: a sender     *)
(* whose wait times out, or is interrupted by a signal, between the test   *)
(* of nwaitnotfull and the search of the list leaves an empty list.        *)
(***************************************************************************)
THEOREM NobodyFaults ==
  ASSUME Deletable = {}, SendersStay
  PROVE  Spec => []NoFault
<1>1. Init => SafeInv
  <2>1. Init => FaultInv /\ LockInv
    BY DEF Init, FaultInv, RoleOK, RecvPcs, LockInv, LockedPcs, Contexts
  <2> QED BY <2>1, InvInit, ListsInit, WakeInit DEF SafeInv
<1>2. SafeInv /\ [Next]_vars => SafeInv'
  <2> SUFFICES ASSUME SafeInv, [Next]_vars PROVE SafeInv'
    OBVIOUS
  <2>1. Inv /\ LockInv /\ ListsInv /\ WaitCounts /\ NoneDeleted
    BY DEF SafeInv
  <2>2. Inv'
    BY <2>1, TypeStep, CallsStep DEF Inv
  <2>3. LockInv' /\ ListsInv' /\ WaitCounts' /\ NoneDeleted'
    BY <2>1, LockStep, ListsStep, CountsStep, DeletedStep
  <2> QED BY <2>2, <2>3, FaultStep DEF SafeInv
<1>3. SafeInv => NoFault
  BY DEF SafeInv, FaultInv, NoFault
<1> QED BY <1>1, <1>2, <1>3, PTL DEF Spec

-----------------------------------------------------------------------------
(***************************************************************************)
(* The messages that the queues, the calls and the free lists hold: how    *)
(* many task messages a queue may hold, and that no pre-allocated message  *)
(* is lost or freed twice.                                                 *)
(***************************************************************************)

(***************************************************************************)
(* The positions of a list whose entries are in P.                         *)
(***************************************************************************)
Marked(s, P) == {i \in DOMAIN s : s[i] \in P}
One(e, P) == IF e \in P THEN 1 ELSE 0

(***************************************************************************)
(* A list is finite, so its positions can be counted.                      *)
(***************************************************************************)
LEMMA MarkedFinite ==
  ASSUME NEW S, NEW s \in Seq(S), NEW P
  PROVE  /\ IsFiniteSet(Marked(s, P)) /\ Cardinality(Marked(s, P)) \in Nat
         /\ Cardinality(Marked(s, P)) <= Len(s)
<1>1. Len(s) \in Nat /\ DOMAIN s = 1 .. Len(s)
  BY LenProperties
<1>2. IsFiniteSet(1 .. Len(s)) /\ Cardinality(1 .. Len(s)) = Len(s)
  BY <1>1, FS_Interval
<1>3. Marked(s, P) \subseteq 1 .. Len(s)
  BY <1>1 DEF Marked
<1> QED BY <1>2, <1>3, FS_Subset, FS_CardinalityType

(***************************************************************************)
(* Inserting an entry adds it to the count, wherever it goes.              *)
(***************************************************************************)
LEMMA InsertCount ==
  ASSUME NEW S, NEW s \in Seq(S), NEW e, NEW k \in 1 .. Len(s) + 1, NEW n,
         IsInsertion(n, s, k, e, S), NEW P
  PROVE  Cardinality(Marked(n, P)) = Cardinality(Marked(s, P)) + One(e, P)
<1> DEFINE A == Marked(s, P)
           B == Marked(n, P)
           f == [i \in A |-> IF i < k THEN i ELSE i + 1]
<1>1. /\ Len(s) \in Nat /\ DOMAIN s = 1 .. Len(s) /\ n \in Seq(S)
      /\ DOMAIN n = 1 .. Len(s) + 1
      /\ \A j \in 1 .. Len(s) + 1 :
           n[j] = IF j < k THEN s[j] ELSE IF j = k THEN e ELSE s[j - 1]
  BY LenProperties DEF IsInsertion
<1>2. A \subseteq 1 .. Len(s) /\ \A i \in A : s[i] \in P
  BY <1>1 DEF Marked
<1>3. \A j : j \in B \ {k} <=>
             \/ j \in 1 .. k - 1 /\ s[j] \in P
             \/ j \in k + 1 .. Len(s) + 1 /\ s[j - 1] \in P
  BY <1>1 DEF Marked
<1>4. ExistsBijection(A, B \ {k})
  <2>1. f \in [A -> B \ {k}]
    BY <1>1, <1>2, <1>3
  <2>2. \A i, j \in A : f[i] = f[j] => i = j
    BY <1>1, <1>2
  <2>3. ASSUME NEW j \in B \ {k} PROVE \E i \in A : f[i] = j
    <3>1. CASE j \in 1 .. k - 1 /\ s[j] \in P
      BY <1>1, <3>1 DEF Marked
    <3>2. CASE j \in k + 1 .. Len(s) + 1 /\ s[j - 1] \in P
      <4>1. j - 1 \in A /\ ~(j - 1 < k) /\ j - 1 + 1 = j
        BY <1>1, <3>2 DEF Marked
      <4> QED BY <4>1
    <3> QED BY <1>3, <2>3, <3>1, <3>2
  <2> HIDE DEF f, A, B
  <2>4. f \in Injection(A, B \ {k}) /\ f \in Surjection(A, B \ {k})
    BY <2>1, <2>2, <2>3 DEF Injection, IsInjective, Surjection
  <2> QED BY <2>4 DEF ExistsBijection, Bijection
<1>5. IsFiniteSet(A) /\ IsFiniteSet(B) /\ Cardinality(A) \in Nat /\ Cardinality(B) \in Nat
  BY <1>1, MarkedFinite
<1>6. Cardinality(B \ {k}) = Cardinality(A)
  BY <1>4, <1>5, FS_Bijection
<1>7. k \in B <=> e \in P
  BY <1>1 DEF Marked
<1>8. CASE k \in B
  <2>1. Cardinality(B \ {k}) = Cardinality(B) - 1
    BY <1>5, <1>8, FS_RemoveElement
  <2> QED BY <1>5, <1>6, <1>7, <1>8, <2>1 DEF One
<1>9. CASE k \notin B
  <2>1. B \ {k} = B
    BY <1>9
  <2>2. One(e, P) = 0
    BY <1>7, <1>9 DEF One
  <2> HIDE DEF A, B
  <2>3. Cardinality(B) = Cardinality(A)
    BY <1>6, <2>1, Zenon
  <2> QED BY <1>5, <2>2, <2>3 DEF A, B
<1> QED BY <1>8, <1>9

(***************************************************************************)
(* Taking the head off a list takes it out of the count.                   *)
(***************************************************************************)
LEMMA TailCount ==
  ASSUME NEW S, NEW s \in Seq(S), s # <<>>, NEW P
  PROVE  Cardinality(Marked(s, P)) = Cardinality(Marked(Tail(s), P)) + One(Head(s), P)
<1> DEFINE n == Tail(s)
           A == Marked(n, P)
           B == Marked(s, P)
           f == [i \in A |-> i + 1]
<1>1. /\ Len(s) \in Nat /\ Len(s) >= 1 /\ DOMAIN s = 1 .. Len(s) /\ n \in Seq(S)
      /\ DOMAIN n = 1 .. Len(s) - 1
      /\ \A j \in 1 .. Len(s) - 1 : n[j] = s[j + 1]
      /\ Head(s) = s[1]
  BY LenProperties, EmptySeq, HeadTailProperties
<1> HIDE DEF n
<1>3. \A j : j \in B \ {1} <=> j \in 2 .. Len(s) /\ s[j] \in P
  BY <1>1 DEF Marked
<1>4. ExistsBijection(A, B \ {1})
  <2>1. f \in [A -> B \ {1}]
    BY <1>1, <1>3 DEF Marked
  <2>2. \A i, j \in A : f[i] = f[j] => i = j
    BY <1>1 DEF Marked
  <2>3. ASSUME NEW j \in B \ {1} PROVE \E i \in A : f[i] = j
    <3>1. j - 1 \in A /\ j - 1 + 1 = j
      BY <1>1, <1>3, <2>3 DEF Marked
    <3> QED BY <3>1
  <2> HIDE DEF f, A, B
  <2>4. f \in Injection(A, B \ {1}) /\ f \in Surjection(A, B \ {1})
    BY <2>1, <2>2, <2>3 DEF Injection, IsInjective, Surjection
  <2> QED BY <2>4 DEF ExistsBijection, Bijection
<1>5. IsFiniteSet(A) /\ IsFiniteSet(B) /\ Cardinality(A) \in Nat /\ Cardinality(B) \in Nat
  BY <1>1, MarkedFinite
<1>6. Cardinality(B \ {1}) = Cardinality(A)
  BY <1>4, <1>5, FS_Bijection
<1>7. 1 \in B <=> Head(s) \in P
  BY <1>1 DEF Marked
<1>8. CASE 1 \in B
  <2>1. Cardinality(B \ {1}) = Cardinality(B) - 1
    BY <1>5, <1>8, FS_RemoveElement
  <2> QED BY <1>5, <1>6, <1>7, <1>8, <2>1 DEF One, n
<1>9. CASE 1 \notin B
  <2>1. B \ {1} = B
    BY <1>9
  <2>2. One(Head(s), P) = 0
    BY <1>7, <1>9 DEF One
  <2> HIDE DEF A, B
  <2>3. Cardinality(B) = Cardinality(A)
    BY <1>6, <2>1, Zenon
  <2> QED BY <1>5, <2>2, <2>3 DEF A, B, n
<1> QED BY <1>8, <1>9

(***************************************************************************)
(* What a step may do to the messages: nothing, take one from a pool for a *)
(* call, give the one of a call back, queue it, or take one off a queue.   *)
(***************************************************************************)
Allocates(x, type, prio) ==
    /\ type \in nxmq_alloc_msg(x) \ {"NULL"} /\ TakeFrom(type)
    /\ mqmsg[x] = NONE
    /\ mqmsg' = [mqmsg EXCEPT ![x] = NewMessage(x, type, prio)]
    /\ UNCHANGED msglist
Frees(x) ==
    /\ mqmsg[x] # NONE /\ nxmq_free_msg(mqmsg[x])
    /\ mqmsg' = [mqmsg EXCEPT ![x] = NONE]
    /\ UNCHANGED msglist
TakesOff(t, q) ==
    /\ msglist[q] # <<>> /\ mqmsg[t] = NONE
    /\ msglist' = [msglist EXCEPT ![q] = Tail(@)]
    /\ mqmsg' = [mqmsg EXCEPT ![t] = Head(msglist[q])]
    /\ UNCHANGED poolVars

(***************************************************************************)
(* Every step has one of these effects.                                    *)
(***************************************************************************)
LEMMA PoolEffects ==
  ASSUME Inv, [Next]_vars
  PROVE  \/ UNCHANGED <<msglist, poolVars, mqmsg>>
         \/ \E x \in Contexts, type \in {"FIXED", "IRQ", "DYN"}, prio \in MsgPrios :
              Allocates(x, type, prio)
         \/ \E x \in Contexts : Frees(x)
         \/ \E x \in Contexts : SendInsert(x)
         \/ \E t \in Tasks, q \in Queues : TakesOff(t, q)
<1> DEFINE Goal == \/ UNCHANGED <<msglist, poolVars, mqmsg>>
                   \/ \E x \in Contexts, type \in {"FIXED", "IRQ", "DYN"},
                         prio \in MsgPrios : Allocates(x, type, prio)
                   \/ \E x \in Contexts : Frees(x)
                   \/ \E x \in Contexts : SendInsert(x)
                   \/ \E t \in Tasks, q \in Queues : TakesOff(t, q)
<1> SUFFICES Goal
  OBVIOUS
<1>0. /\ TypeOK /\ mqmsg \in [Contexts -> Messages \cup {NONE}]
      /\ \A x \in Contexts : ContextOK(x)
      /\ Tasks \subseteq Contexts /\ ISR \in Contexts
  BY CallsSplit DEF Inv, TypeOK, Contexts
<1>a. ASSUME UNCHANGED <<msglist, poolVars>>, UNCHANGED mqmsg PROVE Goal
  BY <1>a
<1>b. ASSUME NEW x \in Contexts, NEW code, Return(x, code), mqmsg[x] = NONE,
             UNCHANGED <<msglist, poolVars>>
      PROVE  Goal
  <2>1. mqmsg' = mqmsg
    BY <1>0, <1>b DEF Return
  <2> QED BY <1>b, <2>1
<1>c. ASSUME NEW x \in Contexts, NEW type \in nxmq_alloc_msg(x), type # "NULL",
             NEW prio \in MsgPrios, TakeFrom(type), mqmsg[x] = NONE, UNCHANGED msglist,
             mqmsg' = [mqmsg EXCEPT ![x] = NewMessage(x, type, prio)]
      PROVE  Goal
  <2>1. type \in {"FIXED", "IRQ", "DYN"}
    BY <1>0, <1>c, PoolTypes
  <2>2. Allocates(x, type, prio)
    BY <1>c DEF Allocates
  <2> QED BY <2>1, <2>2
<1>d. ASSUME NEW x \in Contexts, mqmsg[x] # NONE, nxmq_free_msg(mqmsg[x]),
             mqmsg' = [mqmsg EXCEPT ![x] = NONE], UNCHANGED msglist
      PROVE  Goal
  BY <1>d DEF Frees
<1>e. ASSUME NEW t \in Tasks, NEW q \in Queues, msglist[q] # <<>>, TakeMessage(t, q),
             UNCHANGED poolVars, mqmsg[t] = NONE
      PROVE  Goal
  BY <1>e DEF TakeMessage, TakesOff
<1>1. ASSUME NEW t \in Tasks, Call(t) PROVE Goal
  <2>0. t \in Contexts
    BY <1>0
  <2>a. ASSUME pc[t] = "out" PROVE mqmsg[t] = NONE
    BY <1>0, <2>0, <2>a DEF ContextOK
  <2>1. ASSUME NEW oflags, NEW q, NEW prio, MqSend(t, q, oflags, prio) PROVE Goal
    <3>1. UNCHANGED <<msglist, poolVars>> /\ mqmsg[t] = NONE
      BY <2>1, <2>a DEF MqSend, queueVars
    <3>2. UNCHANGED mqmsg \/ \E code : Return(t, code)
      BY <2>1 DEF MqSend
    <3> HIDE DEF Goal
    <3> QED BY <2>0, <3>1, <3>2, <1>a, <1>b
  <2>2. ASSUME NEW oflags, NEW q, NEW prio \in MsgPrios, MqTimedSend(t, q, oflags, prio)
        PROVE  Goal
    <3>1. UNCHANGED msglist /\ mqmsg[t] = NONE
      BY <2>2, <2>a DEF MqTimedSend, queueVars
    <3> HIDE DEF Goal
    <3> QED BY <2>0, <2>2, <3>1, <1>a, <1>c DEF MqTimedSend
  <2>3. ASSUME NEW oflags, NEW q \in Queues, NEW timed, NEW time,
               ReceiveStart(t, q, oflags, timed, time)
        PROVE  Goal
    <3>1. UNCHANGED poolVars /\ mqmsg[t] = NONE
      BY <2>3, <2>a DEF ReceiveStart
    <3>2. \/ UNCHANGED msglist /\ UNCHANGED mqmsg
          \/ UNCHANGED msglist /\ \E code : Return(t, code)
          \/ msglist[q] # <<>> /\ TakeMessage(t, q)
      BY <2>3 DEF ReceiveStart, queueVars
    <3> HIDE DEF Goal
    <3> QED BY <2>0, <3>1, <3>2, <1>a, <1>b, <1>e
  <2>4. CASE UNCHANGED <<queueVars, poolVars, mqmsg>>
    BY <2>4, <1>a DEF queueVars
  <2> HIDE DEF Goal
  <2> QED
    BY <1>1, <2>1, <2>2, <2>3, <2>4
    DEF Call, MqReceive, MqTimedReceive, MqSendRejected, MqReceiveRejected, mq_notify
<1>2. ASSUME NEW x \in Contexts, SendStep(x) PROVE Goal
  <2>1. CASE SendAlloc(x)
    <3>1. mqmsg[x] = NONE /\ frame[x].prio \in MsgPrios /\ UNCHANGED msglist
      BY <1>0, <2>1 DEF SendAlloc, ContextOK, queueVars
    <3>2. \E type \in nxmq_alloc_msg(x) :
            \/ Return(x, "ENOMEM") /\ UNCHANGED poolVars
            \/ /\ type # "NULL" /\ TakeFrom(type)
               /\ mqmsg' = [mqmsg EXCEPT ![x] = NewMessage(x, type, frame[x].prio)]
      BY <2>1 DEF SendAlloc
    <3> HIDE DEF Goal
    <3> QED BY <3>1, <3>2, <1>b, <1>c
  <2>2. CASE SendInsert(x)
    BY <2>2
  <2>3. CASE NotifyTest(x) \/ NotifyTake(x) \/ NotifySend(x)
    BY <2>3, <1>a DEF NotifyTest, NotifyTake, NotifySend, queueVars
  <2>4. CASE SendWake(x)
    <3>1. mqmsg[x] = NONE
      BY <1>0, <2>4 DEF SendWake, ContextOK
    <3> HIDE DEF Goal
    <3> QED BY <2>4, <3>1, <1>b DEF SendWake, queueVars
  <2> HIDE DEF Goal
  <2> QED BY <1>2, <2>1, <2>2, <2>3, <2>4 DEF SendStep
<1>3. ASSUME NEW t \in Tasks, TaskStep(t) PROVE Goal
  <2>0. t \in Contexts /\ ContextOK(t)
    BY <1>0
  <2>1. CASE ResumeSend(t)
    <3>0. UNCHANGED msglist /\ (mqmsg[t] # NONE <=> frame[t].timed)
      BY <2>0, <2>1 DEF ResumeSend, queueVars, ContextOK
    <3>1. CASE UNCHANGED <<poolVars, mqmsg>>
      BY <3>0, <3>1, <1>a
    <3>2. CASE /\ \E code : Return(t, code)
               /\ IF frame[t].timed THEN nxmq_free_msg(mqmsg[t]) ELSE UNCHANGED poolVars
      <4>1. CASE frame[t].timed
        <5>1. mqmsg' = [mqmsg EXCEPT ![t] = NONE]
          BY <3>2 DEF Return
        <5> QED BY <2>0, <3>0, <3>2, <4>1, <5>1, <1>d
      <4>2. CASE ~frame[t].timed
        BY <2>0, <3>0, <3>2, <4>2, <1>b
      <4> QED BY <4>1, <4>2
    <3> HIDE DEF Goal
    <3> QED BY <2>1, <3>1, <3>2 DEF ResumeSend, callVars
  <2>2. CASE ResumeReceive(t)
    <3>1. UNCHANGED poolVars /\ mqmsg[t] = NONE /\ frame[t].q \in Queues
      BY <2>0, <2>2 DEF ResumeReceive, ContextOK, RecvPcs
    <3>2. \/ UNCHANGED msglist /\ UNCHANGED mqmsg
          \/ UNCHANGED msglist /\ \E code : Return(t, code)
          \/ msglist[frame[t].q] # <<>> /\ TakeMessage(t, frame[t].q)
      BY <2>2 DEF ResumeReceive, queueVars, callVars
    <3> HIDE DEF Goal
    <3> QED BY <2>0, <3>1, <3>2, <1>a, <1>b, <1>e
  <2>3. ASSUME NEW nonblock, NEW time, TimedSendStart(t, nonblock, time) PROVE Goal
    <3>1. UNCHANGED msglist /\ mqmsg[t] # NONE
      BY <2>0, <2>3 DEF TimedSendStart, ContextOK, queueVars
    <3>2. \/ UNCHANGED poolVars /\ UNCHANGED mqmsg
          \/ nxmq_free_msg(mqmsg[t]) /\ mqmsg' = [mqmsg EXCEPT ![t] = NONE]
      BY <2>3 DEF TimedSendStart, Return
    <3> HIDE DEF Goal
    <3> QED BY <2>0, <3>1, <3>2, <1>a, <1>d
  <2>4. CASE ReceiveFree(t)
    <3>1. mqmsg[t] # NONE
      BY <2>0, <2>4 DEF ReceiveFree, ContextOK
    <3> HIDE DEF Goal
    <3> QED BY <2>0, <2>4, <3>1, <1>d DEF ReceiveFree, queueVars
  <2>5. CASE ReceiveCheck(t) \/ ReceiveWake(t)
    <3>1. mqmsg[t] = NONE /\ UNCHANGED <<msglist, poolVars>>
      BY <2>0, <2>5 DEF ReceiveCheck, ReceiveWake, ContextOK, queueVars
    <3>2. UNCHANGED mqmsg \/ \E code : Return(t, code)
      BY <2>5 DEF ReceiveCheck, ReceiveWake
    <3> HIDE DEF Goal
    <3> QED BY <2>0, <3>1, <3>2, <1>a, <1>b
  <2>6. CASE SendStep(t)
    BY <1>2, <2>0, <2>6
  <2>7. CASE HeapWait(t)
    BY <2>7, <1>a DEF HeapWait, queueVars
  <2> HIDE DEF Goal
  <2> QED BY <1>3, <2>1, <2>2, <2>3, <2>4, <2>5, <2>6, <2>7 DEF TaskStep
<1>4. ASSUME NEW q, NEW prio, IsrSend(q, prio) PROVE Goal
  BY <1>4, <1>a DEF IsrSend, queueVars
<1>5. ASSUME NEW t \in Tasks,
             WaitTimeout(t) \/ SignalTask(t) \/ TaskTerminate(t) \/ TaskRecover(t)
      PROVE  Goal
  BY <1>5, <1>a DEF WaitTimeout, SignalTask, TaskTerminate, TaskRecover, queueVars, callVars
<1>6. CASE UNCHANGED vars
  BY <1>6, <1>a DEF vars, queueVars, callVars
<1> HIDE DEF Goal
<1> QED BY <1>0, <1>1, <1>2, <1>3, <1>4, <1>5, <1>6 DEF Next, Halted

(***************************************************************************)
(* The messages in P that sit in the queues QS, when L gives the lists.    *)
(***************************************************************************)
QueuedIn(L, QS, P) == UNION {{q} \X Marked(L[q], P) : q \in QS}
Typed(type) == {m \in Messages : m.type = type}

(***************************************************************************)
(* Queued in these terms.                                                  *)
(***************************************************************************)
LEMMA QueuedForm ==
  ASSUME NEW L \in [Queues -> Seq(Messages)], NEW type
  PROVE  UNION {{q} \X {i \in DOMAIN L[q] : L[q][i].type = type} : q \in Queues}
           = QueuedIn(L, Queues, Typed(type))
<1>1. ASSUME NEW q \in Queues
      PROVE  {i \in DOMAIN L[q] : L[q][i].type = type} = Marked(L[q], Typed(type))
  <2>1. L[q] \in Seq(Messages)
    OBVIOUS
  <2>2. \A i \in DOMAIN L[q] : L[q][i] \in Messages
    BY <2>1, LenProperties, ElementOfSeq
  <2> QED BY <2>2 DEF Marked, Typed
<1> QED BY <1>1 DEF QueuedIn

(***************************************************************************)
(* The messages in the queues are those of one queue and of the others.    *)
(***************************************************************************)
LEMMA QueuedSplit ==
  ASSUME NEW L \in [Queues -> Seq(Messages)], NEW q \in Queues, NEW P,
         IsFiniteSet(QueuedIn(L, Queues \ {q}, P))
  PROVE  /\ IsFiniteSet(QueuedIn(L, Queues, P))
         /\ Cardinality(QueuedIn(L, Queues, P)) =
              Cardinality(QueuedIn(L, Queues \ {q}, P)) + Cardinality(Marked(L[q], P))
<1> DEFINE A == QueuedIn(L, Queues \ {q}, P)
           M == Marked(L[q], P)
           B == {q} \X M
           f == [i \in M |-> <<q, i>>]
<1>1. IsFiniteSet(M)
  BY MarkedFinite
<1>2. ExistsBijection(M, B)
  <2>1. f \in [M -> B]
    OBVIOUS
  <2>2. \A i, j \in M : f[i] = f[j] => i = j
    OBVIOUS
  <2>3. \A z \in B : \E i \in M : f[i] = z
    OBVIOUS
  <2> HIDE DEF f, M, B
  <2>4. f \in Injection(M, B) /\ f \in Surjection(M, B)
    BY <2>1, <2>2, <2>3 DEF Injection, IsInjective, Surjection
  <2> QED BY <2>4 DEF ExistsBijection, Bijection
<1>3. IsFiniteSet(B) /\ Cardinality(B) = Cardinality(M)
  BY <1>1, <1>2, FS_Bijection
<1>4. QueuedIn(L, Queues, P) = A \cup B
  BY DEF QueuedIn
<1>5. A \cap B = {}
  <2> SUFFICES ASSUME NEW z \in A, z \in B PROVE FALSE
    OBVIOUS
  <2>1. PICK r \in Queues \ {q} : z \in {r} \X Marked(L[r], P)
    BY DEF QueuedIn
  <2> QED BY <2>1
<1>6. IsFiniteSet(A)
  OBVIOUS
<1> HIDE DEF A, B, M
<1>7. IsFiniteSet(A \cup B) /\ Cardinality(A \cup B) = Cardinality(A) + Cardinality(B)
  BY <1>3, <1>5, <1>6, DisjointUnion
<1> QED BY <1>3, <1>4, <1>7 DEF A, M

(***************************************************************************)
(* What the change of one list does to the messages in the queues.         *)
(***************************************************************************)
LEMMA QueuedChange ==
  ASSUME NEW L \in [Queues -> Seq(Messages)], NEW N \in [Queues -> Seq(Messages)],
         NEW q \in Queues, \A r \in Queues \ {q} : N[r] = L[r], NEW P,
         IsFiniteSet(QueuedIn(L, Queues, P))
  PROVE  /\ IsFiniteSet(QueuedIn(N, Queues, P))
         /\ Cardinality(QueuedIn(N, Queues, P)) \in Nat
         /\ Cardinality(QueuedIn(N, Queues, P)) + Cardinality(Marked(L[q], P))
              = Cardinality(QueuedIn(L, Queues, P)) + Cardinality(Marked(N[q], P))
<1> DEFINE A == QueuedIn(L, Queues \ {q}, P)
<1>2. A \subseteq QueuedIn(L, Queues, P)
  BY DEF QueuedIn
<1>3. IsFiniteSet(A) /\ Cardinality(A) \in Nat
  BY <1>2, FS_Subset, FS_CardinalityType
<1>4. QueuedIn(N, Queues \ {q}, P) = A
  BY DEF QueuedIn
<1>5. Cardinality(QueuedIn(L, Queues, P)) = Cardinality(A) + Cardinality(Marked(L[q], P))
  BY <1>3, QueuedSplit
<1>6. /\ IsFiniteSet(QueuedIn(N, Queues, P))
      /\ Cardinality(QueuedIn(N, Queues, P)) = Cardinality(A) + Cardinality(Marked(N[q], P))
  <2>1. IsFiniteSet(QueuedIn(N, Queues \ {q}, P))
    BY <1>3, <1>4
  <2>2. /\ IsFiniteSet(QueuedIn(N, Queues, P))
        /\ Cardinality(QueuedIn(N, Queues, P)) =
              Cardinality(QueuedIn(N, Queues \ {q}, P)) + Cardinality(Marked(N[q], P))
    BY <2>1, QueuedSplit
  <2> QED BY <1>4, <2>2
<1>7. Cardinality(Marked(L[q], P)) \in Nat /\ Cardinality(Marked(N[q], P)) \in Nat
  BY MarkedFinite
<1> HIDE DEF A
<1> QED BY <1>3, <1>5, <1>6, <1>7

(***************************************************************************)
(* The calls that hold a message of a type, when H says what each holds.   *)
(***************************************************************************)
HeldIn(H, P) == {x \in Contexts : H[x] # NONE /\ H[x] \in P}

(***************************************************************************)
(* A call that gets a message counts for it, and one that gives it away    *)
(* no longer does.                                                         *)
(***************************************************************************)
LEMMA HeldChange ==
  ASSUME NEW H \in [Contexts -> Messages \cup {NONE}], NEW x \in Contexts,
         NEW m \in Messages, H[x] = NONE, NEW P
  PROVE  LET N == [H EXCEPT ![x] = m]
         IN  /\ Cardinality(HeldIn(H, P)) \in Nat
             /\ Cardinality(HeldIn(N, P)) = Cardinality(HeldIn(H, P)) + One(m, P)
<1> DEFINE N == [H EXCEPT ![x] = m]
<1>1. IsFiniteSet(HeldIn(H, P)) /\ Cardinality(HeldIn(H, P)) \in Nat
  <2>1. IsFiniteSet(Contexts)
    BY ContextsDiffer, FS_AddElement DEF Contexts
  <2>2. HeldIn(H, P) \subseteq Contexts
    BY DEF HeldIn
  <2> QED BY <2>1, <2>2, FS_Subset, FS_CardinalityType
<1>2. x \notin HeldIn(H, P) /\ m # NONE
  BY NullIsNoMessage DEF HeldIn
<1>3. CASE m \in P
  <2>1. HeldIn(N, P) = HeldIn(H, P) \cup {x}
    BY <1>2, <1>3 DEF HeldIn
  <2>2. Cardinality(HeldIn(H, P) \cup {x}) = Cardinality(HeldIn(H, P)) + 1
    BY <1>1, <1>2, FS_AddElement
  <2> QED BY <1>1, <1>3, <2>1, <2>2 DEF One
<1>4. CASE m \notin P
  <2>1. HeldIn(N, P) = HeldIn(H, P)
    BY <1>2, <1>4 DEF HeldIn
  <2> QED BY <1>1, <1>4, <2>1 DEF One
<1> QED BY <1>3, <1>4

(***************************************************************************)
(* The other way round.                                                    *)
(***************************************************************************)
LEMMA HeldDrop ==
  ASSUME NEW H \in [Contexts -> Messages \cup {NONE}], NEW x \in Contexts,
         H[x] \in Messages, NEW P
  PROVE  LET N == [H EXCEPT ![x] = NONE]
         IN  /\ Cardinality(HeldIn(N, P)) \in Nat
             /\ Cardinality(HeldIn(H, P)) = Cardinality(HeldIn(N, P)) + One(H[x], P)
<1> DEFINE N == [H EXCEPT ![x] = NONE]
<1>1. N \in [Contexts -> Messages \cup {NONE}] /\ N[x] = NONE
  OBVIOUS
<1>2. [N EXCEPT ![x] = H[x]] = H
  OBVIOUS
<1> HIDE DEF N
<1>3. /\ Cardinality(HeldIn(N, P)) \in Nat
      /\ Cardinality(HeldIn([N EXCEPT ![x] = H[x]], P))
           = Cardinality(HeldIn(N, P)) + One(H[x], P)
  BY <1>1, HeldChange
<1> QED BY <1>2, <1>3 DEF N

(***************************************************************************)
(* A pool is accounted for: its free messages, those in the queues and     *)
(* those in calls are all there ever were.  The queues hold finitely many  *)
(* messages, so that they can be counted.                                  *)
(***************************************************************************)
Accounted(type, free, total) ==
    /\ IsFiniteSet(QueuedIn(msglist, Queues, Typed(type)))
    /\ free + Cardinality(QueuedIn(msglist, Queues, Typed(type)))
         + Cardinality(HeldIn(mqmsg, Typed(type))) = total
PoolInv ==
    /\ Accounted("FIXED", g_msgfree, PREALLOC_MQ_MSGS)
    /\ Accounted("IRQ", g_msgfreeirq, PREALLOC_MQ_IRQ_MSGS)

(***************************************************************************)
(* PoolConservation in these terms.                                        *)
(***************************************************************************)
LEMMA PoolForm ==
  ASSUME TypeOK, PoolInv
  PROVE  PoolConservation
<1>1. msglist \in [Queues -> Seq(Messages)] /\ mqmsg \in [Contexts -> Messages \cup {NONE}]
  BY DEF TypeOK
<1>2. ASSUME NEW type
      PROVE  /\ Queued(type) = QueuedIn(msglist, Queues, Typed(type))
             /\ Held(type) = HeldIn(mqmsg, Typed(type))
  BY <1>1, QueuedForm DEF Queued, Held, HeldIn, Typed
<1> QED BY <1>2 DEF PoolInv, Accounted, PoolConservation

(***************************************************************************)
(* The cardinalities that Accounted adds up are numbers.                   *)
(***************************************************************************)
LEMMA PoolNumbers ==
  ASSUME NEW L, NEW H, NEW P, IsFiniteSet(QueuedIn(L, Queues, P))
  PROVE  /\ Cardinality(QueuedIn(L, Queues, P)) \in Nat
         /\ Cardinality(HeldIn(H, P)) \in Nat
<1>1. IsFiniteSet(Contexts)
  BY ContextsDiffer, FS_AddElement DEF Contexts
<1>2. HeldIn(H, P) \subseteq Contexts
  BY DEF HeldIn
<1> QED BY <1>1, <1>2, FS_Subset, FS_CardinalityType

(***************************************************************************)
(* The message that a send queues is the one it held, with its stamp.      *)
(***************************************************************************)
LEMMA InsertPlace ==
  ASSUME Inv, NEW x \in Contexts, SendInsert(x)
  PROVE  \E q \in Queues, m \in Messages, n \in Seq(Messages) :
           \E k \in 1 .. Len(msglist[q]) + 1 :
             /\ q = frame[x].q /\ mqmsg[x] \in Messages
             /\ m.type = mqmsg[x].type /\ m.src = mqmsg[x].src
             /\ IsInsertion(n, msglist[q], k, m, Messages)
             /\ msglist' = [msglist EXCEPT ![q] = n]
             /\ mqmsg' = [mqmsg EXCEPT ![x] = NONE] /\ UNCHANGED poolVars
<1> DEFINE q == frame[x].q
           m == [mqmsg[x] EXCEPT !.stamp = nsent + 1]
           s == msglist[q]
           lower == {i \in DOMAIN s : s[i].prio < m.prio}
           n == InsertBefore(s, lower, m)
<1>1. q \in Queues /\ mqmsg[x] \in Messages /\ nsent + 1 \in Nat
  <2>1. ContextOK(x) /\ nsent \in Nat /\ mqmsg \in [Contexts -> Messages \cup {NONE}]
    BY CallsSplit DEF Inv, TypeOK
  <2>2. q \in Queues /\ mqmsg[x] # NONE
    BY <2>1 DEF SendInsert, ContextOK, SendPcs
  <2> QED BY <2>1, <2>2
<1>2. m \in Messages
  BY <1>1, StampFacts
<1>3. m.type = mqmsg[x].type /\ m.src = mqmsg[x].src
  BY <1>1 DEF Messages
<1>4. /\ msglist' = [msglist EXCEPT ![q] = n] /\ mqmsg' = [mqmsg EXCEPT ![x] = NONE]
      /\ UNCHANGED poolVars
  BY DEF SendInsert
<1>5. s \in Seq(Messages)
  BY <1>1 DEF Inv, TypeOK
<1>6. lower \in SUBSET (1 .. Len(s))
  BY <1>5, LenProperties
<1> HIDE DEF m, lower
<1>7. PICK k \in 1 .. Len(s) + 1 : IsInsertion(n, s, k, m, Messages)
  BY <1>2, <1>5, <1>6, InsertBeforeProperties
<1>8. n \in Seq(Messages)
  BY <1>7 DEF IsInsertion
<1> HIDE DEF n
<1> QED BY <1>1, <1>2, <1>3, <1>4, <1>7, <1>8

(***************************************************************************)
(* free2 is what the step leaves in the free list of a pool: what it had,  *)
(* less what nxmq_alloc_msg takes, with what nxmq_free_msg returns.        *)
(***************************************************************************)
FreeList(type, free, free2) ==
    /\ \A t2 : TakeFrom(t2) => free2 = free - (IF t2 = type THEN 1 ELSE 0)
    /\ \A m : nxmq_free_msg(m) => free2 = free + (IF m.type = type THEN 1 ELSE 0)
    /\ UNCHANGED poolVars => free2 = free

(***************************************************************************)
(* A step keeps the account of a pool.                                     *)
(***************************************************************************)
LEMMA AccountKept ==
  ASSUME Inv, [Next]_vars, NEW type \in {"FIXED", "IRQ"}, NEW free \in Nat,
         NEW free2, NEW total \in Nat, Accounted(type, free, total),
         FreeList(type, free, free2)
  PROVE  Accounted(type, free2, total)'
<1> DEFINE P == Typed(type)
           Q == Cardinality(QueuedIn(msglist, Queues, P))
           H == Cardinality(HeldIn(mqmsg, P))
<1>0. /\ msglist \in [Queues -> Seq(Messages)]
      /\ mqmsg \in [Contexts -> Messages \cup {NONE}]
      /\ IsFiniteSet(QueuedIn(msglist, Queues, P))
      /\ free + Q + H = total /\ Q \in Nat /\ H \in Nat
      /\ Tasks \subseteq Contexts
  BY PoolNumbers DEF Inv, TypeOK, Accounted, Contexts
<1>q. ASSUME NEW q \in Queues, NEW n \in Seq(Messages), msglist' = [msglist EXCEPT ![q] = n]
      PROVE  /\ IsFiniteSet(QueuedIn(msglist', Queues, P))
             /\ Cardinality(QueuedIn(msglist', Queues, P)) \in Nat
             /\ Cardinality(QueuedIn(msglist', Queues, P)) + Cardinality(Marked(msglist[q], P))
                  = Q + Cardinality(Marked(n, P))
  <2>1. /\ msglist \in [Queues -> Seq(Messages)] /\ q \in Queues /\ n \in Seq(Messages)
        /\ IsFiniteSet(QueuedIn(msglist, Queues, P))
    BY <1>0
  <2> DEFINE N == [msglist EXCEPT ![q] = n]
  <2>2. /\ N \in [Queues -> Seq(Messages)] /\ N[q] = n
        /\ \A r \in Queues \ {q} : N[r] = msglist[r]
    BY <2>1
  <2> HIDE DEF P, N
  <2>3. /\ IsFiniteSet(QueuedIn(N, Queues, P))
        /\ Cardinality(QueuedIn(N, Queues, P)) \in Nat
        /\ Cardinality(QueuedIn(N, Queues, P)) + Cardinality(Marked(msglist[q], P))
             = Cardinality(QueuedIn(msglist, Queues, P)) + Cardinality(Marked(N[q], P))
    BY <2>1, <2>2, QueuedChange
  <2>4. N = msglist'
    BY <1>q DEF N
  <2> QED BY <2>2, <2>3, <2>4, Zenon
<1>1. CASE UNCHANGED <<msglist, poolVars, mqmsg>>
  BY <1>1 DEF Accounted, FreeList
<1>2. ASSUME NEW x \in Contexts, NEW t2 \in {"FIXED", "IRQ", "DYN"}, NEW prio \in MsgPrios,
             Allocates(x, t2, prio)
      PROVE  Accounted(type, free2, total)'
  <2> DEFINE m == NewMessage(x, t2, prio)
  <2>1. m \in Messages /\ m.type = t2
    <3>1. m \in Messages
      BY MessageFacts
    <3> QED BY <3>1 DEF NewMessage
  <2>2. One(m, P) = IF t2 = type THEN 1 ELSE 0
    BY <2>1 DEF One, Typed
  <2>3. mqmsg' = [mqmsg EXCEPT ![x] = m] /\ mqmsg[x] = NONE /\ UNCHANGED msglist
        /\ TakeFrom(t2)
    BY <1>2 DEF Allocates
  <2> HIDE DEF m
  <2>4. Cardinality(HeldIn(mqmsg', P)) = H + One(m, P)
    BY <1>0, <2>1, <2>3, HeldChange
  <2>5. free2 = free - (IF t2 = type THEN 1 ELSE 0)
    BY <2>3 DEF FreeList
  <2>6. IsFiniteSet(QueuedIn(msglist', Queues, P))
        /\ Cardinality(QueuedIn(msglist', Queues, P)) = Q
    BY <1>0, <2>3
  <2> HIDE DEF Q, H
  <2>7. free2 + Q + (H + One(m, P)) = total
    BY <1>0, <2>2, <2>5
  <2> QED BY <2>4, <2>6, <2>7 DEF Accounted, P
<1>3. ASSUME NEW x \in Contexts, Frees(x) PROVE Accounted(type, free2, total)'
  <2> DEFINE m == mqmsg[x]
  <2>1. /\ m \in Messages /\ mqmsg' = [mqmsg EXCEPT ![x] = NONE] /\ UNCHANGED msglist
        /\ nxmq_free_msg(m)
    BY <1>0, <1>3 DEF Frees
  <2>2. One(m, P) = IF m.type = type THEN 1 ELSE 0
    BY <2>1 DEF One, Typed
  <2>4. /\ Cardinality(HeldIn(mqmsg', P)) \in Nat
        /\ H = Cardinality(HeldIn(mqmsg', P)) + One(m, P)
    BY <1>0, <2>1, HeldDrop
  <2> HIDE DEF m
  <2>5. free2 = free + (IF m.type = type THEN 1 ELSE 0)
    BY <2>1 DEF FreeList
  <2>6. IsFiniteSet(QueuedIn(msglist', Queues, P))
        /\ Cardinality(QueuedIn(msglist', Queues, P)) = Q
    BY <1>0, <2>1
  <2> HIDE DEF Q, H
  <2>7. free2 + Q + Cardinality(HeldIn(mqmsg', P)) = total
    BY <1>0, <2>2, <2>4, <2>5
  <2> QED BY <2>6, <2>7 DEF Accounted, P
<1>4. ASSUME NEW x \in Contexts, SendInsert(x) PROVE Accounted(type, free2, total)'
  <2>1. PICK q \in Queues, m \in Messages, n \in Seq(Messages) :
         \E k \in 1 .. Len(msglist[q]) + 1 :
             /\ mqmsg[x] \in Messages /\ m.type = mqmsg[x].type
             /\ IsInsertion(n, msglist[q], k, m, Messages)
             /\ msglist' = [msglist EXCEPT ![q] = n]
             /\ mqmsg' = [mqmsg EXCEPT ![x] = NONE] /\ UNCHANGED poolVars
    BY <1>4, InsertPlace
  <2> DEFINE s == msglist[q]
  <2>2. PICK k \in 1 .. Len(s) + 1 : IsInsertion(n, s, k, m, Messages)
    BY <2>1
  <2>3. /\ mqmsg[x] \in Messages /\ m.type = mqmsg[x].type
        /\ msglist' = [msglist EXCEPT ![q] = n]
        /\ mqmsg' = [mqmsg EXCEPT ![x] = NONE] /\ UNCHANGED poolVars
    BY <2>1
  <2>4. s \in Seq(Messages)
    BY <1>0
  <2> HIDE DEF P
  <2>6. Cardinality(Marked(n, P)) = Cardinality(Marked(s, P)) + One(m, P)
    BY <2>2, <2>4, InsertCount
  <2>7. One(m, P) = One(mqmsg[x], P)
    BY <2>3 DEF One, Typed, P
  <2>8. /\ IsFiniteSet(QueuedIn(msglist', Queues, P))
        /\ Cardinality(QueuedIn(msglist', Queues, P)) \in Nat
        /\ Cardinality(QueuedIn(msglist', Queues, P)) + Cardinality(Marked(s, P))
             = Q + Cardinality(Marked(n, P))
    BY <2>3, <1>q, Zenon
  <2>10. /\ Cardinality(HeldIn(mqmsg', P)) \in Nat
         /\ H = Cardinality(HeldIn(mqmsg', P)) + One(mqmsg[x], P)
    BY <1>0, <2>3, HeldDrop
  <2>11. Cardinality(Marked(s, P)) \in Nat /\ One(mqmsg[x], P) \in Nat
    BY <2>4, MarkedFinite DEF One
  <2>12. free2 = free
    BY <2>3 DEF FreeList
  <2> HIDE DEF Q, H, s
  <2>13. free2 + Cardinality(QueuedIn(msglist', Queues, P))
           + Cardinality(HeldIn(mqmsg', P)) = total
    <3>1. Cardinality(Marked(n, P)) \in Nat
      BY MarkedFinite
    <3>2. /\ Cardinality(Marked(n, P)) = Cardinality(Marked(s, P)) + One(mqmsg[x], P)
          /\ H = Cardinality(HeldIn(mqmsg', P)) + One(mqmsg[x], P)
      BY <2>6, <2>7, <2>10
    <3>3. PICK q1 \in Nat, q2 \in Nat, h1 \in Nat, h2 \in Nat, s1 \in Nat, n1 \in Nat,
               o \in Nat :
            /\ q1 = Q /\ h1 = H /\ q2 = Cardinality(QueuedIn(msglist', Queues, P))
            /\ h2 = Cardinality(HeldIn(mqmsg', P)) /\ s1 = Cardinality(Marked(s, P))
            /\ n1 = Cardinality(Marked(n, P)) /\ o = One(mqmsg[x], P)
      BY <1>0, <2>8, <2>10, <2>11, <3>1, Zenon
    <3>4. free + q1 + h1 = total /\ q2 + s1 = q1 + n1 /\ n1 = s1 + o /\ h1 = h2 + o
      BY <1>0, <2>8, <3>2, <3>3, Zenon
    <3>5. free + q2 + h2 = total
      BY <3>4
    <3> QED BY <2>12, <3>3, <3>5, Zenon
  <2> QED BY <2>8, <2>13 DEF Accounted, P
<1>5. ASSUME NEW t \in Tasks, NEW q \in Queues, TakesOff(t, q)
      PROVE  Accounted(type, free2, total)'
  <2> DEFINE s == msglist[q]
             m == Head(s)
             n == Tail(s)
  <2>1. /\ s \in Seq(Messages) /\ s # <<>> /\ mqmsg[t] = NONE /\ t \in Contexts
        /\ msglist' = [msglist EXCEPT ![q] = n] /\ mqmsg' = [mqmsg EXCEPT ![t] = m]
        /\ UNCHANGED poolVars
    BY <1>0, <1>5 DEF TakesOff
  <2>2. m \in Messages /\ n \in Seq(Messages)
    BY <2>1, HeadTailProperties
  <2>3. Cardinality(Marked(s, P)) = Cardinality(Marked(n, P)) + One(m, P)
    BY <2>1, TailCount
  <2>4. Cardinality(Marked(n, P)) \in Nat /\ One(m, P) \in Nat
    BY <2>2, MarkedFinite DEF One
  <2> HIDE DEF n, P
  <2>5. /\ IsFiniteSet(QueuedIn(msglist', Queues, P))
        /\ Cardinality(QueuedIn(msglist', Queues, P)) \in Nat
        /\ Cardinality(QueuedIn(msglist', Queues, P)) + Cardinality(Marked(s, P))
             = Q + Cardinality(Marked(n, P))
    BY <2>1, <2>2, <1>q, Zenon
  <2> HIDE DEF m
  <2>6. Cardinality(HeldIn(mqmsg', P)) = H + One(m, P)
    BY <1>0, <2>1, <2>2, HeldChange
  <2>7. free2 = free
    BY <2>1 DEF FreeList
  <2> HIDE DEF Q, H, s
  <2>8. free2 + Cardinality(QueuedIn(msglist', Queues, P))
           + Cardinality(HeldIn(mqmsg', P)) = total
    <3>1. Cardinality(Marked(s, P)) \in Nat /\ Cardinality(HeldIn(mqmsg', P)) \in Nat
      BY <1>0, <2>3, <2>4, <2>6
    <3>3. PICK q1 \in Nat, q2 \in Nat, h1 \in Nat, h2 \in Nat, s1 \in Nat, n1 \in Nat,
               o \in Nat :
            /\ q1 = Q /\ h1 = H /\ q2 = Cardinality(QueuedIn(msglist', Queues, P))
            /\ h2 = Cardinality(HeldIn(mqmsg', P)) /\ s1 = Cardinality(Marked(s, P))
            /\ n1 = Cardinality(Marked(n, P)) /\ o = One(m, P)
      BY <1>0, <2>4, <2>5, <3>1, Zenon
    <3>4. free + q1 + h1 = total /\ q2 + s1 = q1 + n1 /\ s1 = n1 + o /\ h2 = h1 + o
      BY <1>0, <2>3, <2>5, <2>6, <3>3, Zenon
    <3>5. free + q2 + h2 = total
      BY <3>4
    <3> QED BY <2>7, <3>3, <3>5, Zenon
  <2> QED BY <2>5, <2>8 DEF Accounted, P
<1> QED BY <1>1, <1>2, <1>3, <1>4, <1>5, PoolEffects

(***************************************************************************)
(* At the start every message is free.                                     *)
(***************************************************************************)
LEMMA PoolInit == Init => PoolInv
<1> SUFFICES ASSUME Init PROVE PoolInv
  OBVIOUS
<1>1. ASSUME NEW P PROVE QueuedIn(msglist, Queues, P) = {} /\ HeldIn(mqmsg, P) = {}
  <2>1. \A q \in Queues : Marked(msglist[q], P) = {}
    BY DEF Init, Marked
  <2> QED BY <2>1 DEF QueuedIn, HeldIn, Init
<1>2. PREALLOC_MQ_MSGS \in Nat /\ PREALLOC_MQ_IRQ_MSGS \in Nat
  BY AttributesAreNumbers
<1>3. g_msgfree = PREALLOC_MQ_MSGS /\ g_msgfreeirq = PREALLOC_MQ_IRQ_MSGS
  BY DEF Init
<1>4. ASSUME NEW P
      PROVE  /\ IsFiniteSet(QueuedIn(msglist, Queues, P))
             /\ Cardinality(QueuedIn(msglist, Queues, P)) = 0
             /\ Cardinality(HeldIn(mqmsg, P)) = 0
  BY <1>1, FS_EmptySet
<1> QED BY <1>2, <1>3, <1>4 DEF PoolInv, Accounted

(***************************************************************************)
(* PoolConservation: whatever the calls of tasks and interrupt handlers    *)
(* do, also when tasks are deleted inside a call, each pre-allocated       *)
(* message is in the free list it came from, in a queue or in one call.    *)
(***************************************************************************)
THEOREM PoolsConserved == Spec => []PoolConservation
<1>1. Inv /\ PoolInv /\ [Next]_vars => PoolInv'
  <2> SUFFICES ASSUME Inv, PoolInv, [Next]_vars PROVE PoolInv'
    OBVIOUS
  <2>0. /\ g_msgfree \in Nat /\ g_msgfreeirq \in Nat
        /\ PREALLOC_MQ_MSGS \in Nat /\ PREALLOC_MQ_IRQ_MSGS \in Nat
    BY AttributesAreNumbers DEF Inv, TypeOK
  <2>1. /\ Accounted("FIXED", g_msgfree, PREALLOC_MQ_MSGS)
        /\ Accounted("IRQ", g_msgfreeirq, PREALLOC_MQ_IRQ_MSGS)
    BY DEF PoolInv
  <2>2. Accounted("FIXED", g_msgfree, PREALLOC_MQ_MSGS)'
    <3>1. \A t2 : TakeFrom(t2) => g_msgfree' = g_msgfree - (IF t2 = "FIXED" THEN 1 ELSE 0)
      BY <2>0 DEF TakeFrom
    <3>2. \A m : nxmq_free_msg(m) =>
                   g_msgfree' = g_msgfree + (IF m.type = "FIXED" THEN 1 ELSE 0)
      BY <2>0 DEF nxmq_free_msg
    <3>3. UNCHANGED poolVars => g_msgfree' = g_msgfree
      BY DEF poolVars
    <3>4. FreeList("FIXED", g_msgfree, g_msgfree')
      BY <3>1, <3>2, <3>3 DEF FreeList
    <3> QED BY <2>0, <2>1, <3>4, AccountKept DEF Accounted
  <2>3. Accounted("IRQ", g_msgfreeirq, PREALLOC_MQ_IRQ_MSGS)'
    <3>1. \A t2 : TakeFrom(t2) => g_msgfreeirq' = g_msgfreeirq - (IF t2 = "IRQ" THEN 1 ELSE 0)
      BY <2>0 DEF TakeFrom
    <3>2. \A m : nxmq_free_msg(m) =>
                   g_msgfreeirq' = g_msgfreeirq + (IF m.type = "IRQ" THEN 1 ELSE 0)
      BY <2>0 DEF nxmq_free_msg
    <3>3. UNCHANGED poolVars => g_msgfreeirq' = g_msgfreeirq
      BY DEF poolVars
    <3>4. FreeList("IRQ", g_msgfreeirq, g_msgfreeirq')
      BY <3>1, <3>2, <3>3 DEF FreeList
    <3> QED BY <2>0, <2>1, <3>4, AccountKept DEF Accounted
  <2> QED BY <2>2, <2>3 DEF PoolInv
<1>2. Inv /\ PoolInv => PoolConservation
  BY PoolForm DEF Inv
<1> QED BY <1>1, <1>2, PoolInit, InvAlways, PTL DEF Spec

(***************************************************************************)
(* A send between its test for room and the insertion: still in the same   *)
(* sched_lock as the test, or late, because it had to wait for the heap.   *)
(***************************************************************************)
HasRoom(t) == pc[t] = "alloc" \/ (pc[t] = "insert" /\ mqmsg[t].src # "late")
IsLate(t)  == pc[t] = "heap" \/ (pc[t] = "insert" /\ mqmsg[t].src = "late")

(***************************************************************************)
(* Only a task that calls mq_send can be late: mq_timedsend allocates its  *)
(* message before it tests for room.                                       *)
(***************************************************************************)
SenderRole(t) ==
    /\ pc[t] \in {"alloc", "heap"} \/ IsLate(t) => t \in Senders
    /\ pc[t] = "wait_send" /\ ~frame[t].timed => t \in Senders
    /\ pc[t] = "tstart" \/ (pc[t] = "wait_send" /\ frame[t].timed)
         => mqmsg[t].src # "late"
Roles == \A t \in Tasks : SenderRole(t)

(***************************************************************************)
(* A task that has room after a step had it before, with the same call, or *)
(* has just seen that the queue of its call has room.  A task that is late *)
(* was late before, or has just left the sched_lock of its test.           *)
(***************************************************************************)
SeesRoom(t) ==
    UNCHANGED queueVars /\ frame'[t].q \in Queues /\ ~IsFull(frame'[t].q)
Placed(t) ==
    /\ SenderRole(t)'
    /\ HasRoom(t)' => (HasRoom(t) /\ frame'[t] = frame[t]) \/ SeesRoom(t)
    /\ IsLate(t)' => /\ frame'[t] = frame[t]
                     /\ IsLate(t) \/ (HasRoom(t) /\ UNCHANGED queueVars)
Places == \A t \in Tasks : Placed(t)

(***************************************************************************)
(* The places in a call that these facts speak of.                         *)
(***************************************************************************)
Sending == {"alloc", "heap", "insert", "wait_send", "tstart"}

(***************************************************************************)
(* A move of one context is enough to look at.                             *)
(***************************************************************************)
LEMMA PlaceMove ==
  ASSUME Inv, Roles, NEW x \in Contexts, NEW l, Goto(x, l),
         \A y \in Contexts \ {x} : frame'[y] = frame[y] /\ mqmsg'[y] = mqmsg[y],
         x \in Tasks /\ l \in Sending => Placed(x)
  PROVE  Places
<1>1. pc \in [Contexts -> PcStates] /\ Tasks \subseteq Contexts
  BY DEF Inv, TypeOK, Contexts
<1>2. pc'[x] = l /\ \A y \in Contexts \ {x} : pc'[y] = pc[y]
  BY <1>1 DEF Goto
<1> SUFFICES ASSUME NEW t \in Tasks PROVE Placed(t)
  BY DEF Places
<1>3. CASE t = x /\ l \in Sending
  BY <1>3
<1>4. CASE t = x /\ l \notin Sending
  BY <1>2, <1>4 DEF Placed, SenderRole, HasRoom, IsLate, Sending
<1>5. CASE t # x
  <2>1. pc'[t] = pc[t] /\ frame'[t] = frame[t] /\ mqmsg'[t] = mqmsg[t]
    BY <1>1, <1>2, <1>5
  <2> QED BY <2>1 DEF Placed, Roles, SenderRole, HasRoom, IsLate
<1> QED BY <1>3, <1>4, <1>5

(***************************************************************************)
(* Every step is like that.                                                *)
(***************************************************************************)
LEMMA PlaceStep ==
  ASSUME Inv, Roles, [Next]_vars
  PROVE  Places
<1>0. /\ Tasks \subseteq Contexts /\ ISR \in Contexts /\ ISR \notin Tasks
      /\ \A x \in Contexts : ContextOK(x)
      /\ pc \in [Contexts -> PcStates] /\ frame \in [Contexts -> Frames]
      /\ mqmsg \in [Contexts -> Messages \cup {NONE}]
  BY CallsSplit, ContextsDiffer DEF Inv, TypeOK, Contexts
<1>a. ASSUME UNCHANGED <<pc, frame, mqmsg>> PROVE Places
  BY <1>a DEF Places, Placed, Roles, SenderRole, HasRoom, IsLate
<1>b. ASSUME NEW x \in Contexts, NEW code, Return(x, code) PROVE Places
  <2>1. Goto(x, "out") /\ \A y \in Contexts \ {x} : frame'[y] = frame[y] /\ mqmsg'[y] = mqmsg[y]
    BY <1>0, <1>b DEF Return
  <2> QED BY <2>1, PlaceMove DEF Sending
<1>c. ASSUME NEW x \in Contexts, NEW l, Goto(x, l), l \notin Sending,
             UNCHANGED frame \/ \E f : frame' = [frame EXCEPT ![x] = f],
             UNCHANGED mqmsg \/ \E m : mqmsg' = [mqmsg EXCEPT ![x] = m]
      PROVE  Places
  <2>1. \A y \in Contexts \ {x} : frame'[y] = frame[y] /\ mqmsg'[y] = mqmsg[y]
    BY <1>0, <1>c
  <2> QED BY <1>c, <2>1, PlaceMove
<1>d. ASSUME NEW t \in Tasks, NEW l, Goto(t, l), UNCHANGED mqmsg,
             UNCHANGED frame \/ \E f : frame' = [frame EXCEPT ![t] = f], Placed(t)
      PROVE  Places
  <2>1. t \in Contexts /\ \A y \in Contexts \ {t} : frame'[y] = frame[y] /\ mqmsg'[y] = mqmsg[y]
    BY <1>0, <1>d
  <2> QED BY <1>d, <2>1, PlaceMove
<1>e. /\ "out" \notin Sending /\ "wait_recv" \notin Sending
      /\ "removed" \notin Sending /\ "dead" \notin Sending
      /\ "free" \notin Sending /\ "check" \notin Sending /\ "wakenf" \notin Sending
      /\ "ntest" \notin Sending /\ "ntake" \notin Sending /\ "nsend" \notin Sending
      /\ "wake" \notin Sending /\ "hfree" \notin Sending
  BY DEF Sending
<1>1. ASSUME NEW t \in Tasks, Call(t) PROVE Places
  <2>0. t \in Contexts
    BY <1>0
  <2>1. ASSUME NEW oflags, NEW q \in Queues, NEW prio, MqSend(t, q, oflags, prio) PROVE Places
    <3> DEFINE f == [NoFrame EXCEPT !.q = q, !.prio = prio]
    <3>0. f.q = q /\ ~f.timed /\ t \in Senders
      BY <2>1 DEF NoFrame, MqSend
    <3> HIDE DEF f
    <3>1. CASE ~IsFull(q) /\ Goto(t, "alloc") /\ frame' = [frame EXCEPT ![t] = f]
               /\ UNCHANGED mqmsg
      <4>1. pc'[t] = "alloc" /\ frame'[t] = f
        BY <1>0, <2>0, <3>1 DEF Goto
      <4>2. SeesRoom(t)
        BY <2>1, <3>0, <3>1, <4>1 DEF SeesRoom, MqSend
      <4>3. Placed(t)
        BY <3>0, <4>1, <4>2 DEF Placed, SenderRole, HasRoom, IsLate
      <4> QED BY <3>1, <4>3, <1>d
    <3>2. CASE Goto(t, "wait_send") /\ frame' = [frame EXCEPT ![t] = f] /\ UNCHANGED mqmsg
      <4>1. pc'[t] = "wait_send" /\ frame'[t] = f
        BY <1>0, <2>0, <3>2 DEF Goto
      <4>2. Placed(t)
        BY <3>0, <4>1 DEF Placed, SenderRole, HasRoom, IsLate
      <4> QED BY <3>2, <4>2, <1>d
    <3> QED BY <2>0, <2>1, <3>1, <3>2, <1>b DEF MqSend, f
  <2>2. ASSUME NEW oflags, NEW q, NEW prio, MqTimedSend(t, q, oflags, prio) PROVE Places
    <3>1. CASE UNCHANGED <<pc, frame, mqmsg>>
      BY <3>1, <1>a
    <3>2. ASSUME NEW type, mqmsg' = [mqmsg EXCEPT ![t] = NewMessage(t, type, prio)],
                 NEW f, frame' = [frame EXCEPT ![t] = f], f.timed, Goto(t, "tstart")
          PROVE  Places
      <4>1. /\ pc'[t] = "tstart" /\ frame'[t] = f /\ mqmsg'[t] = NewMessage(t, type, prio)
            /\ \A y \in Contexts \ {t} : frame'[y] = frame[y] /\ mqmsg'[y] = mqmsg[y]
        BY <1>0, <2>0, <3>2 DEF Goto
      <4>2. mqmsg'[t].src = "task"
        BY <1>0, <2>2, <4>1 DEF NewMessage, MqTimedSend
      <4>3. Placed(t)
        BY <4>1, <4>2 DEF Placed, SenderRole, HasRoom, IsLate
      <4> QED BY <2>0, <3>2, <4>1, <4>3, PlaceMove
    <3>3. \/ UNCHANGED <<pc, frame, mqmsg>>
          \/ \E type : /\ mqmsg' = [mqmsg EXCEPT ![t] = NewMessage(t, type, prio)]
                       /\ frame' = [frame EXCEPT ![t] =
                           [q |-> q, prio |-> prio, timed |-> TRUE, pid |-> NONE]]
                       /\ Goto(t, "tstart")
      BY <2>2 DEF MqTimedSend
    <3>4. [q |-> q, prio |-> prio, timed |-> TRUE, pid |-> NONE].timed
      OBVIOUS
    <3> QED BY <3>1, <3>2, <3>3, <3>4
  <2>3. ASSUME NEW oflags, NEW q, NEW timed, NEW time,
               ReceiveStart(t, q, oflags, timed, time)
        PROVE  Places
    BY <2>0, <2>3, <1>b, <1>c, <1>e DEF ReceiveStart, TakeMessage
  <2>4. CASE UNCHANGED <<pc, frame, mqmsg>>
    BY <2>4, <1>a
  <2> QED
    BY <1>1, <2>1, <2>2, <2>3, <2>4
    DEF Call, MqReceive, MqTimedReceive, MqSendRejected, MqReceiveRejected, mq_notify
<1>2. ASSUME NEW x \in Contexts, SendStep(x) PROVE Places
  <2>1. CASE SendAlloc(x)
    <3>1. ASSUME NEW type, mqmsg' = [mqmsg EXCEPT ![x] = NewMessage(x, type, frame[x].prio)],
                 Goto(x, "insert"), UNCHANGED frame
          PROVE  Places
      <4>1. /\ pc'[x] = "insert" /\ mqmsg'[x] = NewMessage(x, type, frame[x].prio)
            /\ \A y \in Contexts \ {x} : frame'[y] = frame[y] /\ mqmsg'[y] = mqmsg[y]
        BY <1>0, <3>1 DEF Goto
      <4>2. ASSUME x \in Tasks PROVE Placed(x)
        <5>1. SenderRole(x) /\ pc[x] \in {"alloc", "heap"}
          BY <2>1, <4>2 DEF Roles, SendAlloc
        <5>2. mqmsg'[x].src = IF pc[x] = "heap" THEN "late" ELSE "task"
          BY <1>0, <4>1, <4>2 DEF NewMessage
        <5> QED BY <3>1, <4>1, <5>1, <5>2 DEF Placed, SenderRole, HasRoom, IsLate
      <4> QED BY <3>1, <4>1, <4>2, PlaceMove
    <3> QED BY <2>1, <3>1, <1>b DEF SendAlloc
  <2>2. CASE SendInsert(x) \/ NotifyTest(x) \/ NotifySend(x)
    <3>1. /\ UNCHANGED frame /\ \E l : Goto(x, l) /\ l \notin Sending
          /\ UNCHANGED mqmsg \/ \E m : mqmsg' = [mqmsg EXCEPT ![x] = m]
      BY <2>2, <1>e DEF SendInsert, NotifyTest, NotifySend
    <3> QED BY <3>1, <1>c
  <2>3. CASE NotifyTake(x)
    BY <2>3, <1>c, <1>e DEF NotifyTake
  <2>4. CASE SendWake(x)
    BY <2>4, <1>b DEF SendWake
  <2> QED BY <1>2, <2>1, <2>2, <2>3, <2>4 DEF SendStep
<1>3. ASSUME NEW t \in Tasks, TaskStep(t) PROVE Places
  <2>0. t \in Contexts /\ ContextOK(t) /\ SenderRole(t)
    BY <1>0 DEF Roles
  <2>1. CASE ResumeSend(t)
    <3>1. frame[t].q \in Queues /\ pc[t] = "wait_send"
      BY <2>0, <2>1 DEF ResumeSend, ContextOK, SendPcs
    <3>2. ASSUME UNCHANGED <<queueVars, frame, mqmsg>>, ~IsFull(frame[t].q),
                 Goto(t, IF frame[t].timed THEN "insert" ELSE "alloc")
          PROVE  Places
      <4>1. pc'[t] = IF frame[t].timed THEN "insert" ELSE "alloc"
        BY <1>0, <2>0, <3>2 DEF Goto
      <4>2. SeesRoom(t)
        BY <3>1, <3>2 DEF SeesRoom
      <4>3. frame[t].timed \in BOOLEAN
        <5>1. frame[t] \in Frames
          BY <1>0, <2>0
        <5> QED BY <5>1 DEF Frames
      <4>4. Placed(t)
        BY <2>0, <3>1, <3>2, <4>1, <4>2, <4>3 DEF Placed, SenderRole, HasRoom, IsLate
      <4> QED BY <3>2, <4>4, <1>d
    <3>3. \/ \E code : Return(t, code)
          \/ UNCHANGED callVars
          \/ /\ UNCHANGED <<queueVars, frame, mqmsg>> /\ ~IsFull(frame[t].q)
             /\ Goto(t, IF frame[t].timed THEN "insert" ELSE "alloc")
      BY <2>1 DEF ResumeSend
    <3> QED BY <2>0, <3>2, <3>3, <1>a, <1>b DEF callVars
  <2>2. CASE ResumeReceive(t)
    BY <2>0, <2>2, <1>a, <1>b, <1>c, <1>e DEF ResumeReceive, TakeMessage, callVars
  <2>3. ASSUME NEW nonblock, NEW time, TimedSendStart(t, nonblock, time) PROVE Places
    <3>1. frame[t].q \in Queues /\ frame[t].timed /\ mqmsg[t].src # "late"
      BY <2>0, <2>3 DEF TimedSendStart, ContextOK, SendPcs, SenderRole
    <3>2. CASE Goto(t, "insert") /\ UNCHANGED <<queueVars, frame, mqmsg>> /\ ~IsFull(frame[t].q)
      <4>1. pc'[t] = "insert" /\ SeesRoom(t)
        BY <1>0, <2>0, <3>1, <3>2 DEF Goto, SeesRoom
      <4>2. Placed(t)
        BY <3>1, <3>2, <4>1 DEF Placed, SenderRole, HasRoom, IsLate
      <4> QED BY <3>2, <4>2, <1>d
    <3>3. CASE Goto(t, "wait_send") /\ UNCHANGED <<frame, mqmsg>>
      <4>1. pc'[t] = "wait_send"
        BY <1>0, <2>0, <3>3 DEF Goto
      <4>2. Placed(t)
        BY <3>1, <3>3, <4>1 DEF Placed, SenderRole, HasRoom, IsLate
      <4> QED BY <3>3, <4>2, <1>d
    <3> QED BY <2>0, <2>3, <3>2, <3>3, <1>b DEF TimedSendStart
  <2>4. CASE ReceiveFree(t) \/ ReceiveCheck(t) \/ ReceiveWake(t)
    BY <2>0, <2>4, <1>b, <1>c, <1>e DEF ReceiveFree, ReceiveCheck, ReceiveWake
  <2>5. CASE SendStep(t)
    BY <1>2, <2>0, <2>5
  <2>6. CASE HeapWait(t)
    <3>1. CASE pc[t] = "alloc" /\ Goto(t, "heap")
      <4>1. pc'[t] = "heap"
        BY <1>0, <2>0, <3>1 DEF Goto
      <4>2. UNCHANGED <<queueVars, frame, mqmsg>>
        BY <2>6 DEF HeapWait
      <4>3. Placed(t)
        BY <2>0, <3>1, <4>1, <4>2 DEF Placed, SenderRole, HasRoom, IsLate
      <4> QED BY <3>1, <4>2, <4>3, <1>d
    <3>2. CASE Goto(t, "hfree")
      BY <2>0, <2>6, <3>2, <1>c, <1>e DEF HeapWait
    <3> QED BY <2>6, <3>1, <3>2 DEF HeapWait
  <2> QED BY <1>3, <2>1, <2>2, <2>3, <2>4, <2>5, <2>6 DEF TaskStep
<1>4. ASSUME NEW q, NEW prio, IsrSend(q, prio) PROVE Places
  <2>1. Goto(ISR, "alloc") /\ UNCHANGED mqmsg /\ \A y \in Contexts \ {ISR} : frame'[y] = frame[y]
    BY <1>0, <1>4 DEF IsrSend
  <2> QED BY <1>0, <2>1, PlaceMove
<1>5. ASSUME NEW t \in Tasks, WaitTimeout(t) \/ SignalTask(t) PROVE Places
  BY <1>5, <1>a DEF WaitTimeout, SignalTask, callVars
<1>6. ASSUME NEW t \in Tasks, TaskTerminate(t) \/ TaskRecover(t) PROVE Places
  <2>1. t \in Contexts /\ UNCHANGED <<frame, mqmsg>> /\ (Goto(t, "removed") \/ Goto(t, "dead"))
    BY <1>0, <1>6 DEF TaskTerminate, TaskRecover
  <2> QED BY <2>1, <1>c, <1>e
<1>7. CASE UNCHANGED vars
  BY <1>7, <1>a DEF vars, callVars
<1> QED BY <1>0, <1>1, <1>2, <1>3, <1>4, <1>5, <1>6, <1>7 DEF Next, Halted

(***************************************************************************)
(* How many messages of tasks a list holds, and how many of those come     *)
(* from a send that was not late.                                          *)
(***************************************************************************)
OwnMsgs  == {m \in Messages : m.src # "isr"}
TaskMsgs == {m \in Messages : m.src = "task"}
OwnCount(s)  == Cardinality(Marked(s, OwnMsgs))
TaskCount(s) == Cardinality(Marked(s, TaskMsgs))

(***************************************************************************)
(* The late senders of a queue.                                            *)
(***************************************************************************)
Late(q) == {t \in Senders : IsLate(t) /\ frame[t].q = q}

(***************************************************************************)
(* The inductive invariant behind TaskMessagesFit: the messages of tasks   *)
(* that were not late fit; a task on its way to the insertion under the    *)
(* sched_lock of its test has room for one more; the late ones, queued or  *)
(* still to come, exceed mq_maxmsg by one for each sender at most; and     *)
(* what an interrupt handler is about to queue is not the message of a     *)
(* task.                                                                   *)
(***************************************************************************)
FitInv ==
    /\ \A q \in Queues : TaskCount(msglist[q]) <= maxmsgs[q]
    /\ \A q \in Queues : OwnCount(msglist[q]) + Cardinality(Late(q))
                           <= maxmsgs[q] + Cardinality(Senders)
    /\ \A t \in Tasks : HasRoom(t) =>
                          OwnCount(msglist[frame[t].q]) < maxmsgs[frame[t].q]
    /\ mqmsg[ISR] # NONE => mqmsg[ISR].src = "isr"
    /\ Roles

(***************************************************************************)
(* An interrupt handler allocates its own messages and receives none.      *)
(***************************************************************************)
LEMMA IsrMessage ==
  ASSUME Inv, [Next]_vars, mqmsg[ISR] # NONE => mqmsg[ISR].src = "isr"
  PROVE  (mqmsg[ISR] # NONE => mqmsg[ISR].src = "isr")'
<1>0. mqmsg \in [Contexts -> Messages \cup {NONE}] /\ ISR \in Contexts /\ ISR \notin Tasks
      /\ Tasks \subseteq Contexts
  BY ContextsDiffer DEF Inv, TypeOK, Contexts
<1>1. ASSUME NEW x \in Contexts, NEW type, NEW prio, Allocates(x, type, prio)
      PROVE  (mqmsg[ISR] # NONE => mqmsg[ISR].src = "isr")'
  <2>1. CASE x = ISR
    <3>1. mqmsg'[ISR] = NewMessage(ISR, type, prio)
      BY <1>0, <1>1, <2>1 DEF Allocates
    <3> QED BY <3>1 DEF NewMessage
  <2>2. CASE x # ISR
    BY <1>0, <1>1, <2>2 DEF Allocates
  <2> QED BY <2>1, <2>2
<1>2. ASSUME NEW x \in Contexts, mqmsg' = [mqmsg EXCEPT ![x] = NONE]
      PROVE  (mqmsg[ISR] # NONE => mqmsg[ISR].src = "isr")'
  BY <1>0, <1>2
<1>3. ASSUME NEW t \in Tasks, NEW q, TakesOff(t, q)
      PROVE  (mqmsg[ISR] # NONE => mqmsg[ISR].src = "isr")'
  BY <1>0, <1>3 DEF TakesOff
<1>4. ASSUME UNCHANGED mqmsg PROVE (mqmsg[ISR] # NONE => mqmsg[ISR].src = "isr")'
  BY <1>4
<1> QED BY <1>1, <1>2, <1>3, <1>4, PoolEffects DEF Frees, SendInsert

(***************************************************************************)
(* The messages of P are told by their src, and none is a handler's.       *)
(***************************************************************************)
BySource(P) ==
    \A m, n \in Messages : /\ m.src = "isr" => m \notin P
                           /\ m.src = n.src => (m \in P <=> n \in P)

(***************************************************************************)
(* What a step does to the number of messages of P in the queues: only the *)
(* insertion by a task adds to it, one and to one queue.                   *)
(***************************************************************************)
LEMMA NumStep ==
  ASSUME Inv, TypeOK', [Next]_vars, mqmsg[ISR] # NONE => mqmsg[ISR].src = "isr",
         NEW P, BySource(P)
  PROVE  LET C(s) == Cardinality(Marked(s, P)) IN
         /\ \A q \in Queues : C(msglist[q]) \in Nat /\ C(msglist'[q]) \in Nat
         /\ \/ \A q \in Queues : C(msglist'[q]) <= C(msglist[q])
            \/ \E t \in Tasks : SendInsert(t)
         /\ \A t \in Tasks : SendInsert(t) =>
              /\ C(msglist'[frame[t].q]) = C(msglist[frame[t].q]) + One(mqmsg[t], P)
              /\ \A q \in Queues \ {frame[t].q} : C(msglist'[q]) = C(msglist[q])
<1> DEFINE C(s) == Cardinality(Marked(s, P))
           Shrinks == \A q \in Queues : C(msglist'[q]) <= C(msglist[q])
<1>0. /\ msglist \in [Queues -> Seq(Messages)] /\ msglist' \in [Queues -> Seq(Messages)]
      /\ Tasks \subseteq Contexts
  BY DEF Inv, TypeOK, Contexts
<1>1. \A q \in Queues : C(msglist[q]) \in Nat /\ C(msglist'[q]) \in Nat
  BY <1>0, MarkedFinite
<1>2. ASSUME UNCHANGED msglist PROVE Shrinks
  BY <1>1, <1>2
<1>3. ASSUME NEW x \in Contexts, SendInsert(x)
      PROVE  /\ frame[x].q \in Queues /\ mqmsg[x] \in Messages
             /\ C(msglist'[frame[x].q]) = C(msglist[frame[x].q]) + One(mqmsg[x], P)
             /\ \A q \in Queues \ {frame[x].q} : C(msglist'[q]) = C(msglist[q])
  <2>1. PICK q \in Queues, m \in Messages, n \in Seq(Messages) :
         \E k \in 1 .. Len(msglist[q]) + 1 :
             /\ q = frame[x].q /\ mqmsg[x] \in Messages /\ m.src = mqmsg[x].src
             /\ IsInsertion(n, msglist[q], k, m, Messages)
             /\ msglist' = [msglist EXCEPT ![q] = n]
    BY <1>3, InsertPlace
  <2>2. /\ q = frame[x].q /\ mqmsg[x] \in Messages /\ m.src = mqmsg[x].src
        /\ msglist'[q] = n /\ \A r \in Queues \ {q} : msglist'[r] = msglist[r]
    BY <1>0, <2>1
  <2>3. msglist[q] \in Seq(Messages)
    BY <1>0
  <2>4. C(n) = C(msglist[q]) + One(m, P)
    BY <2>1, <2>3, InsertCount
  <2>5. One(m, P) = One(mqmsg[x], P)
    BY <2>2 DEF One, BySource
  <2> HIDE DEF C
  <2> QED BY <2>2, <2>4, <2>5
<1>4. ASSUME NEW t \in Tasks, NEW q \in Queues, TakesOff(t, q) PROVE Shrinks
  <2>1. /\ msglist'[q] = Tail(msglist[q]) /\ msglist[q] # <<>>
        /\ \A r \in Queues \ {q} : msglist'[r] = msglist[r]
    BY <1>0, <1>4 DEF TakesOff
  <2>2. C(msglist[q]) = C(Tail(msglist[q])) + One(Head(msglist[q]), P)
    BY <1>0, <2>1, TailCount
  <2> HIDE DEF C
  <2>3. C(msglist'[q]) <= C(msglist[q])
    BY <1>1, <2>1, <2>2 DEF One
  <2> QED BY <1>1, <2>1, <2>3
<1>5. ASSUME SendInsert(ISR) PROVE Shrinks
  <2>1. ISR \in Contexts
    BY DEF Contexts
  <2>2. frame[ISR].q \in Queues /\ mqmsg[ISR] \in Messages
    BY <1>3, <1>5, <2>1
  <2>3. One(mqmsg[ISR], P) = 0
    BY <2>2, NullIsNoMessage DEF BySource, One
  <2> HIDE DEF C
  <2> QED BY <1>1, <1>3, <1>5, <2>1, <2>2, <2>3
<1>6. Shrinks \/ \E t \in Tasks : SendInsert(t)
  <2> HIDE DEF Shrinks
  <2>1. UNCHANGED msglist => Shrinks
    BY <1>2 DEF Shrinks
  <2> QED BY <2>1, <1>4, <1>5, PoolEffects DEF Allocates, Frees, Contexts
<1> HIDE DEF C
<1>7. \A t \in Tasks : SendInsert(t) =>
        /\ C(msglist'[frame[t].q]) = C(msglist[frame[t].q]) + One(mqmsg[t], P)
        /\ \A q \in Queues \ {frame[t].q} : C(msglist'[q]) = C(msglist[q])
  BY <1>0, <1>3
<1> QED BY <1>1, <1>6, <1>7 DEF C

(***************************************************************************)
(* The same for the two counts of FitInv.                                  *)
(***************************************************************************)
LEMMA CountStep ==
  ASSUME Inv, TypeOK', [Next]_vars, mqmsg[ISR] # NONE => mqmsg[ISR].src = "isr"
  PROVE  /\ \A q \in Queues : /\ OwnCount(msglist[q]) \in Nat /\ OwnCount(msglist'[q]) \in Nat
                              /\ TaskCount(msglist[q]) \in Nat /\ TaskCount(msglist'[q]) \in Nat
                              /\ TaskCount(msglist[q]) <= OwnCount(msglist[q])
         /\ \/ \A q \in Queues : /\ OwnCount(msglist'[q]) <= OwnCount(msglist[q])
                                 /\ TaskCount(msglist'[q]) <= TaskCount(msglist[q])
            \/ \E t \in Tasks : SendInsert(t)
         /\ \A t \in Tasks : SendInsert(t) =>
              /\ OwnCount(msglist'[frame[t].q])
                   = OwnCount(msglist[frame[t].q]) + One(mqmsg[t], OwnMsgs)
              /\ TaskCount(msglist'[frame[t].q])
                   = TaskCount(msglist[frame[t].q]) + One(mqmsg[t], TaskMsgs)
              /\ \A q \in Queues \ {frame[t].q} :
                   /\ OwnCount(msglist'[q]) = OwnCount(msglist[q])
                   /\ TaskCount(msglist'[q]) = TaskCount(msglist[q])
<1>1. BySource(OwnMsgs) /\ BySource(TaskMsgs)
  BY DEF BySource, OwnMsgs, TaskMsgs
<1>2. /\ \A q \in Queues : OwnCount(msglist[q]) \in Nat /\ OwnCount(msglist'[q]) \in Nat
      /\ \/ \A q \in Queues : OwnCount(msglist'[q]) <= OwnCount(msglist[q])
         \/ \E t \in Tasks : SendInsert(t)
      /\ \A t \in Tasks : SendInsert(t) =>
           /\ OwnCount(msglist'[frame[t].q])
                = OwnCount(msglist[frame[t].q]) + One(mqmsg[t], OwnMsgs)
           /\ \A q \in Queues \ {frame[t].q} : OwnCount(msglist'[q]) = OwnCount(msglist[q])
  BY <1>1, NumStep DEF OwnCount
<1>3. /\ \A q \in Queues : TaskCount(msglist[q]) \in Nat /\ TaskCount(msglist'[q]) \in Nat
      /\ \/ \A q \in Queues : TaskCount(msglist'[q]) <= TaskCount(msglist[q])
         \/ \E t \in Tasks : SendInsert(t)
      /\ \A t \in Tasks : SendInsert(t) =>
           /\ TaskCount(msglist'[frame[t].q])
                = TaskCount(msglist[frame[t].q]) + One(mqmsg[t], TaskMsgs)
           /\ \A q \in Queues \ {frame[t].q} : TaskCount(msglist'[q]) = TaskCount(msglist[q])
  BY <1>1, NumStep DEF TaskCount
<1>4. ASSUME NEW q \in Queues PROVE TaskCount(msglist[q]) <= OwnCount(msglist[q])
  <2>1. msglist[q] \in Seq(Messages)
    BY DEF Inv, TypeOK
  <2>2. IsFiniteSet(Marked(msglist[q], OwnMsgs))
    BY <2>1, MarkedFinite
  <2>3. Marked(msglist[q], TaskMsgs) \subseteq Marked(msglist[q], OwnMsgs)
    BY DEF Marked, TaskMsgs, OwnMsgs
  <2> QED BY <2>2, <2>3, FS_Subset DEF TaskCount, OwnCount
<1> QED BY <1>2, <1>3, <1>4

(***************************************************************************)
(* Every step keeps FitInv: sched_lock keeps other tasks away from the     *)
(* queue between the test for room and the insertion, what comes in from   *)
(* an interrupt handler does not count, and a task becomes late only while *)
(* its queue has room.                                                     *)
(***************************************************************************)
LEMMA FitStep ==
  ASSUME Inv, TypeOK', OrderInv, LockInv, FitInv, [Next]_vars
  PROVE  FitInv'
<1>0. (mqmsg[ISR] # NONE => mqmsg[ISR].src = "isr") /\ Roles
  BY DEF FitInv
<1>1. (mqmsg[ISR] # NONE => mqmsg[ISR].src = "isr")' /\ Places /\ Roles'
  BY <1>0, IsrMessage, PlaceStep DEF Places, Placed, Roles
<1>2. \A q \in Queues : /\ OwnCount(msglist[q]) \in Nat /\ OwnCount(msglist'[q]) \in Nat
                        /\ TaskCount(msglist[q]) \in Nat /\ TaskCount(msglist'[q]) \in Nat
                        /\ TaskCount(msglist[q]) <= OwnCount(msglist[q])
                        /\ maxmsgs[q] \in Nat
  BY <1>0, CountStep, AttributesAreNumbers
<1>3. /\ \A x \in Contexts : ContextOK(x)
      /\ Tasks \subseteq Contexts /\ ISR \notin Tasks
      /\ pc \in [Contexts -> PcStates]
  BY CallsSplit, ContextsDiffer DEF Inv, TypeOK, Contexts
<1>4. \A q \in Queues : /\ TaskCount(msglist[q]) <= maxmsgs[q]
                        /\ OwnCount(msglist[q]) + Cardinality(Late(q))
                             <= maxmsgs[q] + Cardinality(Senders)
  BY DEF FitInv
<1>5. ASSUME NEW t \in Tasks, HasRoom(t)
      PROVE  /\ frame[t].q \in Queues
             /\ OwnCount(msglist[frame[t].q]) < maxmsgs[frame[t].q]
             /\ locked = t
  BY <1>3, <1>5 DEF FitInv, HasRoom, ContextOK, SendPcs, LockInv, LockedPcs
<1>6. ASSUME NEW q \in Queues, ~IsFull(q) PROVE OwnCount(msglist[q]) < maxmsgs[q]
  <2>1. nmsgs[q] = Len(msglist[q]) /\ msglist[q] \in Seq(Messages) /\ Len(msglist[q]) \in Nat
    BY OrderFacts
  <2>2. OwnCount(msglist[q]) <= Len(msglist[q])
    BY <2>1, MarkedFinite DEF OwnCount
  <2> QED BY <1>2, <1>6, <2>1, <2>2 DEF IsFull
<1>7. \A q : /\ IsFiniteSet(Late(q)) /\ IsFiniteSet(Late(q)') /\ Cardinality(Late(q)) \in Nat
             /\ Cardinality(Late(q)') \in Nat /\ Cardinality(Senders) \in Nat
             /\ Cardinality(Late(q)') <= Cardinality(Senders)
  <2>1. IsFiniteSet(Senders)
    BY CallersAreTasks, ContextsDiffer, FS_Subset
  <2>2. \A q : Late(q) \subseteq Senders /\ Late(q)' \subseteq Senders
    BY DEF Late
  <2> QED BY <2>1, <2>2, FS_Subset, FS_CardinalityType
<1>8. CASE \A q \in Queues : /\ OwnCount(msglist'[q]) <= OwnCount(msglist[q])
                             /\ TaskCount(msglist'[q]) <= TaskCount(msglist[q])
  <2>1. \A q \in Queues : TaskCount(msglist'[q]) <= maxmsgs[q]
    BY <1>2, <1>4, <1>8
  <2>2. ASSUME NEW t \in Tasks, HasRoom(t)'
        PROVE  OwnCount(msglist'[frame'[t].q]) < maxmsgs[frame'[t].q]
    <3>1. CASE HasRoom(t) /\ frame'[t] = frame[t]
      BY <1>2, <1>5, <1>8, <3>1
    <3>2. CASE SeesRoom(t)
      <4>1. PICK q \in Queues : q = frame'[t].q /\ ~IsFull(q)
        BY <3>2 DEF SeesRoom
      <4> QED BY <1>2, <1>6, <1>8, <4>1
    <3> QED BY <1>1, <2>2, <3>1, <3>2 DEF Places, Placed
  <2>3. ASSUME NEW q \in Queues
        PROVE  OwnCount(msglist'[q]) + Cardinality(Late(q)')
                 <= maxmsgs[q] + Cardinality(Senders)
    <3>1. CASE Late(q)' \subseteq Late(q)
      <4>1. Cardinality(Late(q)') <= Cardinality(Late(q))
        BY <1>7, <3>1, FS_Subset
      <4> QED BY <1>2, <1>4, <1>7, <1>8, <4>1
    <3>2. ASSUME NEW t \in Late(q)', t \notin Late(q)
          PROVE  OwnCount(msglist[q]) < maxmsgs[q]
      <4>1. t \in Senders /\ t \in Tasks /\ IsLate(t)' /\ frame'[t].q = q
        BY <3>2, CallersAreTasks DEF Late
      <4>2. HasRoom(t) /\ frame[t].q = q
        BY <1>1, <3>2, <4>1 DEF Places, Placed, Late
      <4> QED BY <1>5, <4>1, <4>2
    <3>3. CASE OwnCount(msglist[q]) < maxmsgs[q]
      BY <1>2, <1>7, <1>8, <3>3
    <3> QED BY <3>1, <3>2, <3>3
  <2> QED BY <1>1, <2>1, <2>2, <2>3 DEF FitInv
<1>9. ASSUME NEW t \in Tasks, SendInsert(t) PROVE FitInv'
  <2>p. frame[t].q \in Queues /\ pc[t] = "insert"
    BY <1>3, <1>9 DEF SendInsert, ContextOK, SendPcs
  <2>0. PICK p \in Queues : p = frame[t].q
    BY <2>p
  <2>1. /\ mqmsg[t] \in Messages /\ locked = t
        /\ pc[t] = "insert" /\ pc'[t] = "ntest" /\ nmsgs' # nmsgs
    <3>1. pc[t] = "insert" /\ pc'[t] = "ntest"
      BY <1>3, <1>9 DEF SendInsert, Goto
    <3>2. mqmsg[t] \in Messages
      <4>1. mqmsg \in [Contexts -> Messages \cup {NONE}]
        BY DEF Inv, TypeOK
      <4> QED BY <1>3, <3>1, <4>1 DEF ContextOK
    <3>3. nmsgs'[p] = nmsgs[p] + 1 /\ nmsgs[p] \in Nat
      <4>1. nmsgs \in [Queues -> Int]
        BY DEF Inv, TypeOK
      <4>2. nmsgs[p] \in Nat
        BY OrderFacts
      <4> QED BY <1>9, <2>0, <4>1, <4>2 DEF SendInsert
    <3>4. locked = t
      BY <3>1 DEF LockInv, LockedPcs
    <3> QED BY <3>1, <3>2, <3>3, <3>4
  <2>2. /\ OwnCount(msglist'[p]) = OwnCount(msglist[p]) + One(mqmsg[t], OwnMsgs)
        /\ TaskCount(msglist'[p]) = TaskCount(msglist[p]) + One(mqmsg[t], TaskMsgs)
        /\ \A q \in Queues \ {p} : /\ OwnCount(msglist'[q]) = OwnCount(msglist[q])
                                   /\ TaskCount(msglist'[q]) = TaskCount(msglist[q])
    BY <1>0, <1>9, <2>0, CountStep
  <2>3. /\ One(mqmsg[t], OwnMsgs) \in {0, 1} /\ One(mqmsg[t], TaskMsgs) \in {0, 1}
        /\ mqmsg[t].src = "late" => One(mqmsg[t], TaskMsgs) = 0
    BY DEF One, TaskMsgs
  <2>4. ASSUME NEW u \in Tasks, HasRoom(u)' PROVE FALSE
    <3>1. u # t
      BY <2>1, <2>4 DEF HasRoom
    <3>2. HasRoom(u)
      BY <1>1, <2>1, <2>4 DEF Places, Placed, SeesRoom, queueVars
    <3> QED BY <1>5, <2>1, <3>1, <3>2
  <2>5. \A q \in Queues : Late(q)' \subseteq Late(q) \ {t}
    <3> SUFFICES ASSUME NEW q \in Queues, NEW u \in Senders, IsLate(u)', frame'[u].q = q
                 PROVE  u # t /\ IsLate(u) /\ frame[u].q = q
      BY DEF Late
    <3>1. u # t
      BY <2>1 DEF IsLate
    <3> QED BY <1>1, <2>1, <3>1, CallersAreTasks DEF Places, Placed, queueVars
  <2>6. CASE mqmsg[t].src = "late"
    <3>1. t \in Late(p)
      BY <1>0, <2>0, <2>1, <2>6 DEF Roles, SenderRole, IsLate, Late
    <3>2. Cardinality(Late(p)') <= Cardinality(Late(p)) - 1
      <4>1. IsFiniteSet(Late(p) \ {t}) /\ Cardinality(Late(p) \ {t}) = Cardinality(Late(p)) - 1
        BY <1>7, <3>1, FS_RemoveElement
      <4>2. Cardinality(Late(p)') <= Cardinality(Late(p) \ {t})
        BY <2>1, <2>5, <4>1, FS_Subset
      <4> QED BY <4>1, <4>2
    <3>3. \A q \in Queues : Cardinality(Late(q)') <= Cardinality(Late(q))
      BY <1>7, <2>5, FS_Subset
    <3>4. \A q \in Queues : TaskCount(msglist'[q]) <= maxmsgs[q]
      BY <1>2, <1>4, <2>1, <2>2, <2>3, <2>6
    <3>5. OwnCount(msglist'[p]) + Cardinality(Late(p)') <= maxmsgs[p] + Cardinality(Senders)
      BY <1>2, <1>4, <1>7, <2>1, <2>2, <2>3, <3>2
    <3>6. \A q \in Queues \ {p} : OwnCount(msglist'[q]) + Cardinality(Late(q)')
                                    <= maxmsgs[q] + Cardinality(Senders)
      BY <1>2, <1>4, <1>7, <2>2, <3>3
    <3>7. \A q \in Queues : OwnCount(msglist'[q]) + Cardinality(Late(q)')
                              <= maxmsgs[q] + Cardinality(Senders)
      BY <3>5, <3>6
    <3> QED BY <1>1, <2>4, <3>4, <3>7 DEF FitInv
  <2>7. CASE mqmsg[t].src # "late"
    <3>1. OwnCount(msglist[p]) < maxmsgs[p]
      BY <1>5, <2>0, <2>1, <2>7 DEF HasRoom
    <3>2. TaskCount(msglist'[p]) <= maxmsgs[p] /\ OwnCount(msglist'[p]) <= maxmsgs[p]
      BY <1>2, <2>1, <2>2, <2>3, <3>1
    <3>3. \A q \in Queues : TaskCount(msglist'[q]) <= maxmsgs[q]
      BY <1>2, <1>4, <2>2, <3>2
    <3>4. \A q \in Queues : Cardinality(Late(q)') <= Cardinality(Late(q))
      BY <1>7, <2>5, FS_Subset
    <3>5. OwnCount(msglist'[p]) + Cardinality(Late(p)') <= maxmsgs[p] + Cardinality(Senders)
      BY <1>2, <1>7, <2>1, <3>2
    <3>6. \A q \in Queues \ {p} : OwnCount(msglist'[q]) + Cardinality(Late(q)')
                                    <= maxmsgs[q] + Cardinality(Senders)
      BY <1>2, <1>4, <1>7, <2>2, <3>4
    <3>7. \A q \in Queues : OwnCount(msglist'[q]) + Cardinality(Late(q)')
                              <= maxmsgs[q] + Cardinality(Senders)
      BY <3>5, <3>6
    <3> QED BY <1>1, <2>4, <3>3, <3>7 DEF FitInv
  <2> QED BY <2>6, <2>7
<1> QED BY <1>0, <1>8, <1>9, CountStep

(***************************************************************************)
(* TaskMessagesFit: a task tests for room in one critical section and      *)
(* queues its message in a later one, and still the messages of tasks in a *)
(* queue exceed mq_maxmsg by those only whose sender had to wait for the   *)
(* heap in between, one for each task that calls mq_send, however many     *)
(* interrupt handlers send and however often the tasks do.                 *)
(***************************************************************************)
THEOREM TaskMessagesBounded == Spec => []TaskMessagesFit
<1>1. Init => FitInv
  <2> SUFFICES ASSUME Init PROVE FitInv
    OBVIOUS
  <2>1. ASSUME NEW q \in Queues
        PROVE  OwnCount(msglist[q]) = 0 /\ TaskCount(msglist[q]) = 0
    <3>1. Marked(msglist[q], TaskMsgs) = {} /\ Marked(msglist[q], OwnMsgs) = {}
      BY DEF Init, Marked
    <3> QED BY <3>1, FS_EmptySet DEF TaskCount, OwnCount
  <2>2. /\ \A t \in Tasks : pc[t] = "out"
        /\ mqmsg[ISR] = NONE
    BY DEF Init, Contexts
  <2>3. \A t \in Tasks : ~HasRoom(t) /\ ~IsLate(t) /\ SenderRole(t)
    BY <2>2 DEF HasRoom, IsLate, SenderRole
  <2>4. ASSUME NEW q PROVE Cardinality(Late(q)) = 0
    <3>1. Late(q) = {}
      BY <2>3, CallersAreTasks DEF Late
    <3> QED BY <3>1, FS_EmptySet
  <2>5. Cardinality(Senders) \in Nat /\ \A q \in Queues : maxmsgs[q] \in Nat
    BY CallersAreTasks, ContextsDiffer, AttributesAreNumbers, FS_Subset, FS_CardinalityType
  <2>6. \A q \in Queues : OwnCount(msglist[q]) + Cardinality(Late(q))
                            <= maxmsgs[q] + Cardinality(Senders)
    BY <2>1, <2>4, <2>5
  <2> QED BY <2>1, <2>2, <2>3, <2>5, <2>6 DEF FitInv, Roles
<1>2. TypeOK /\ FitInv => TaskMessagesFit
  <2> SUFFICES ASSUME TypeOK, FitInv, NEW q \in Queues
               PROVE  /\ Cardinality(SentBy(q, {"task"})) <= maxmsgs[q]
                      /\ Cardinality(SentBy(q, {"task", "late"}))
                           <= maxmsgs[q] + Cardinality(Senders)
    BY DEF TaskMessagesFit
  <2>1. msglist[q] \in Seq(Messages)
    BY DEF TypeOK
  <2>2. \A i \in DOMAIN msglist[q] : msglist[q][i] \in Messages
    BY <2>1, LenProperties, ElementOfSeq
  <2>3. /\ SentBy(q, {"task"}) = Marked(msglist[q], TaskMsgs)
        /\ SentBy(q, {"task", "late"}) = Marked(msglist[q], OwnMsgs)
    BY <2>2 DEF SentBy, Marked, TaskMsgs, OwnMsgs, Messages
  <2>4. OwnCount(msglist[q]) \in Nat /\ Cardinality(Late(q)) \in Nat
    <3>1. IsFiniteSet(Late(q))
      <4>1. IsFiniteSet(Senders) /\ Late(q) \subseteq Senders
        BY CallersAreTasks, ContextsDiffer, FS_Subset DEF Late
      <4> QED BY <4>1, FS_Subset
    <3> QED BY <2>1, <3>1, MarkedFinite, FS_CardinalityType DEF OwnCount
  <2>5. Cardinality(Senders) \in Nat /\ maxmsgs[q] \in Nat
    BY CallersAreTasks, ContextsDiffer, AttributesAreNumbers, FS_Subset, FS_CardinalityType
  <2>6. /\ TaskCount(msglist[q]) <= maxmsgs[q]
        /\ OwnCount(msglist[q]) + Cardinality(Late(q)) <= maxmsgs[q] + Cardinality(Senders)
    BY DEF FitInv
  <2>7. OwnCount(msglist[q]) <= maxmsgs[q] + Cardinality(Senders)
    BY <2>4, <2>5, <2>6
  <2> QED BY <2>3, <2>6, <2>7 DEF TaskCount, OwnCount
<1>3. Inv /\ TypeOK' /\ OrderInv /\ LockInv /\ FitInv /\ [Next]_vars => FitInv'
  BY FitStep
<1>4. Inv => TypeOK
  BY DEF Inv
<1> QED BY <1>1, <1>2, <1>3, <1>4, InvAlways, OrderAlways, LockAlways, PTL DEF Spec
=============================================================================
