--------------------------- MODULE MqFilesProofs ----------------------------
(***************************************************************************)
(* The invariants of MqFiles, for every set of tasks, names, inodes and    *)
(* descriptors.                                                            *)
(***************************************************************************)
EXTENDS MqFiles, SemaphoreProofs

(***************************************************************************)
(* A call has the name, the inode and the descriptor that its place needs. *)
(***************************************************************************)
NamePlaces == Places \ {"out", "c_check", "c_release"}
NodePlaces == RefPlaces \cup {"new", "undo", "c_check", "c_release"}
CallInv ==
    \A t \in Tasks :
      /\ place[t] \in NamePlaces => call[t].name \in Names
      /\ place[t] \in NodePlaces => call[t].node \in Nodes
      /\ place[t] \in {"c_check", "c_release"} =>
           call[t].fd \in 1 .. NFILES /\ fds[t][call[t].fd] = call[t].node

(***************************************************************************)
(* The types of the variables that are not the semaphore's, and the        *)
(* inductive invariant behind TypeOK.                                      *)
(***************************************************************************)
FileTypes ==
    /\ tree \in [Names -> Nodes \cup {NONE}] /\ inode \in [Nodes -> Inodes]
    /\ fds \in [Tasks -> [1..NFILES -> Nodes \cup {NONE}]]
    /\ place \in [Tasks -> Places] /\ phase \in [Tasks -> {"take", "wait", "in"}]
    /\ call \in [Tasks -> Calls]
    /\ holder \in Tasks \cup {NONE} /\ locked \in Tasks \cup {NONE}
SemInv == SemTypeOK /\ Listed(SemState, {})
TypeInv == SemInv /\ FileTypes /\ fault \in BOOLEAN /\ CallInv

-----------------------------------------------------------------------------
(***************************************************************************)
(* A task that takes the inode semaphore, waits for it or gives it back    *)
(* keeps the wait list consistent.                                         *)
(***************************************************************************)
LEMMA SemKept ==
  ASSUME SemInv,
         \/ UNCHANGED semVars
         \/ nxsem_post(inode_sem)
         \/ \E t \in Tasks : /\ task_state[t] = "READY"
                             /\ TakeCount(t, inode_sem) \/ BlockOn(t, inode_sem)
  PROVE  SemInv'
<1>0. /\ Listed(SemState, {}) /\ SemTypeOK /\ inode_sem \in Sems
      /\ errcode \in [Tasks -> {"OK", "EINTR", "ETIMEDOUT"}]
  BY FilesAssumption DEF SemInv, SemTypeOK
<1>1. ASSUME Listed(SemState', {}), errcode' \in [Tasks -> {"OK", "EINTR", "ETIMEDOUT"}]
      PROVE  SemInv'
  <2>1. SemState' \in SemStates
    BY <1>1 DEF Listed
  <2>2. SemTypeOK'
    BY <1>1, <2>1 DEF SemTypeOK, SemState, SemStates
  <2> QED BY <1>1, <2>2 DEF SemInv
<1>2. CASE UNCHANGED semVars
  <2>1. SemState' = SemState
    BY <1>2 DEF semVars, SemState
  <2> QED BY <1>0, <1>1, <1>2, <2>1 DEF semVars
<1>3. CASE nxsem_post(inode_sem)
  <2>1. SemState' = Posted(SemState, inode_sem)
    BY <1>0, <1>3, PostStates
  <2>2. Listed(Posted(SemState, inode_sem), {})
    BY <1>0, PostEffect
  <2>3. errcode' = errcode
    BY <1>3 DEF nxsem_post
  <2> QED BY <1>0, <1>1, <2>1, <2>2, <2>3
<1>4. ASSUME NEW t \in Tasks, task_state[t] = "READY", TakeCount(t, inode_sem)
      PROVE  SemInv'
  <2>1. t \notin Waiting(SemState)
    BY <1>4 DEF Waiting, SemState
  <2>2. SemState' = Taken(SemState, t, inode_sem)
    BY <1>0, <1>4, WaitStates
  <2>3. Listed(Taken(SemState, t, inode_sem), {})
    BY <1>0, <2>1, TakeEffect
  <2>4. errcode' = errcode
    BY <1>4 DEF TakeCount
  <2> QED BY <1>0, <1>1, <2>2, <2>3, <2>4
<1>5. ASSUME NEW t \in Tasks, task_state[t] = "READY", BlockOn(t, inode_sem)
      PROVE  SemInv'
  <2>1. t \notin Waiting(SemState)
    BY <1>5 DEF Waiting, SemState
  <2>2. SemState' = Blocked(SemState, t, inode_sem)
    BY <1>0, <1>5, WaitStates
  <2>3. Listed(Blocked(SemState, t, inode_sem), {})
    BY <1>0, <2>1, BlockEffect
  <2>4. errcode' \in [Tasks -> {"OK", "EINTR", "ETIMEDOUT"}]
    BY <1>0, <1>5 DEF BlockOn
  <2> QED BY <1>0, <1>1, <2>2, <2>3, <2>4
<1> QED BY <1>2, <1>3, <1>4, <1>5

(***************************************************************************)
(* The inodes after the search, removal and release of the interrupt       *)
(* handler, after inode_reserve, and with a new message queue.             *)
(***************************************************************************)
UnlinkedByHandler(i) == mq_inode_release([AddRef(i) EXCEPT ![i].deleted = TRUE], i)
Reserved(i, n) == [inode EXCEPT ![i].type = "plain", ![i].name = n]
Equipped(i) == [inode EXCEPT ![i].type = "mqueue", ![i].msgq = TRUE, ![i].i_crefs = 1]

(***************************************************************************)
(* What the operations on inodes return.                                   *)
(***************************************************************************)
LEMMA NodeTypes ==
  ASSUME inode \in [Nodes -> Inodes], NEW i \in Nodes
  PROVE  /\ AddRef(i) \in [Nodes -> Inodes]
         /\ inode_release(i) \in [Nodes -> Inodes]
         /\ nxmq_file_close(i) \in [Nodes -> Inodes]
         /\ mq_inode_release(inode, i) \in [Nodes -> Inodes]
         /\ UnlinkedByHandler(i) \in [Nodes -> Inodes]
         /\ [inode EXCEPT ![i].deleted = TRUE] \in [Nodes -> Inodes]
         /\ [inode EXCEPT ![i].type = "freed"] \in [Nodes -> Inodes]
         /\ \A n \in Names : Reserved(i, n) \in [Nodes -> Inodes]
         /\ Equipped(i) \in [Nodes -> Inodes]
<1>1. inode[i] \in Inodes /\ inode[i].i_crefs \in Nat /\ inode[i].lost \in Nat
  BY DEF Inodes
<1>2. AddRef(i) \in [Nodes -> Inodes]
  BY <1>1 DEF AddRef, Inodes
<1>3. inode_release(i) \in [Nodes -> Inodes]
  <2>1. ASSUME NEW c \in Nat, NEW p \in {"unused", "plain", "mqueue", "freed"}
        PROVE  [inode EXCEPT ![i].i_crefs = c, ![i].type = p] \in [Nodes -> Inodes]
    BY <1>1 DEF Inodes
  <2>2. (IF inode[i].i_crefs > 0 THEN inode[i].i_crefs - 1 ELSE 0) \in Nat
    BY <1>1
  <2>3. (IF inode[i].i_crefs <= 1 /\ inode[i].deleted THEN "freed" ELSE inode[i].type)
          \in {"unused", "plain", "mqueue", "freed"}
    BY <1>1 DEF Inodes
  <2> QED BY <2>1, <2>2, <2>3, ZenonT(60) DEF inode_release
<1>4. nxmq_file_close(i) \in [Nodes -> Inodes]
  BY <1>1 DEF nxmq_file_close, Inodes
<1>5. ASSUME NEW f \in [Nodes -> Inodes] PROVE mq_inode_release(f, i) \in [Nodes -> Inodes]
  <2>1. ASSUME NEW m \in BOOLEAN, NEW l \in Nat
        PROVE  [f EXCEPT ![i].msgq = m, ![i].lost = l] \in [Nodes -> Inodes]
    BY <1>5, ZenonT(60) DEF Inodes
  <2>2. (f[i].msgq /\ f[i].i_crefs > 1) \in BOOLEAN /\ f[i].lost + 1 \in Nat
    BY <1>5 DEF Inodes
  <2> QED BY <2>1, <2>2 DEF mq_inode_release
<1>6. [AddRef(i) EXCEPT ![i].deleted = TRUE] \in [Nodes -> Inodes]
  BY <1>2 DEF Inodes
<1>7. /\ [inode EXCEPT ![i].deleted = TRUE] \in [Nodes -> Inodes]
      /\ [inode EXCEPT ![i].type = "freed"] \in [Nodes -> Inodes]
  BY <1>1 DEF Inodes
<1>8. /\ \A n \in Names : Reserved(i, n) \in [Nodes -> Inodes]
      /\ Equipped(i) \in [Nodes -> Inodes]
  BY <1>1 DEF Inodes, Reserved, Equipped
<1> QED BY <1>2, <1>3, <1>4, <1>5, <1>6, <1>7, <1>8, ZenonT(60) DEF UnlinkedByHandler

-----------------------------------------------------------------------------
(***************************************************************************)
(* Every step takes the semaphore, posts it or leaves it alone.            *)
(***************************************************************************)
LEMMA SemStep ==
  ASSUME SemInv, [Next]_vars
  PROVE  SemInv'
<1> USE DEF CanRun, Inside, inode_semgive
<1>1. ASSUME NEW t \in Tasks, Step(t) PROVE SemInv'
  <2>1. CASE SemTake(t)
    BY <2>1, SemKept DEF SemTake
  <2>2. CASE OpenFind(t) \/ OpenReserve(t) \/ DropNode(t) \/ ErrorRelease(t)
    BY <2>2, SemKept DEF OpenFind, OpenReserve, DropNode, ErrorRelease
  <2>3. CASE CloseRelease(t) \/ UnlinkFind(t) \/ UnlinkRemove(t)
    BY <2>3, SemKept DEF CloseRelease, UnlinkFind, UnlinkRemove
  <2>4. CASE \/ SemResume(t) \/ OpenNew(t) \/ FilesTake(t) \/ FilesAllocate(t)
             \/ ErrorClose(t) \/ CloseCheck(t) \/ UnlinkFree(t)
    BY <2>4, SemKept
       DEF SemResume, OpenNew, FilesTake, FilesAllocate, ErrorClose, CloseCheck, UnlinkFree
  <2> QED BY <1>1, <2>1, <2>2, <2>3, <2>4 DEF Step
<1>2. ASSUME NEW t \in Tasks, Start(t) PROVE SemInv'
  BY <1>2, SemKept DEF Start, MqOpen, MqUnlink, MqClose
<1>3. ASSUME NEW t \in Tasks \cup {NONE}, NEW n \in HandlerNames, HandlerOpen(t, n)
      PROVE  SemInv'
  BY <1>3, SemKept DEF HandlerOpen
<1>4. CASE UNCHANGED vars
  BY <1>4, SemKept DEF vars
<1> QED BY <1>1, <1>2, <1>3, <1>4 DEF Next

(***************************************************************************)
(* Where a step takes a call keeps the types of its variables.             *)
(***************************************************************************)
LEMMA GotoTypes ==
  ASSUME FileTypes, NEW t \in Tasks, NEW p \in Places, Goto(t, p)
  PROVE  /\ place' \in [Tasks -> Places] /\ phase' \in [Tasks -> {"take", "wait", "in"}]
         /\ locked' \in Tasks \cup {NONE}
         /\ place'[t] = p /\ \A u \in Tasks \ {t} : place'[u] = place[u]
BY DEF FileTypes, Goto

(***************************************************************************)
(* A task that is in no call has the locals of a call.                     *)
(***************************************************************************)
LEMMA NoCallType == NoCall \in Calls
BY FilesAssumption DEF NoCall, Calls, Oflags

(***************************************************************************)
(* A call that returns keeps the types and moves only its task.            *)
(***************************************************************************)
LEMMA ReturnTypes ==
  ASSUME FileTypes, NEW t \in Tasks, Return(t)
  PROVE  /\ place' \in [Tasks -> Places] /\ phase' \in [Tasks -> {"take", "wait", "in"}]
         /\ locked' \in Tasks \cup {NONE} /\ call' \in [Tasks -> Calls]
         /\ place'[t] = "out" /\ \A u \in Tasks \ {t} : place'[u] = place[u]
         /\ \A u \in Tasks \ {t} : call'[u] = call[u]
<1>1. Goto(t, "out") /\ "out" \in Places /\ call' = [call EXCEPT ![t] = NoCall]
  BY DEF Return, Places
<1> QED BY <1>1, NoCallType, GotoTypes DEF FileTypes

(***************************************************************************)
(* CallInv only depends on the task that moves.                            *)
(***************************************************************************)
CallOK(t) ==
    /\ place[t] \in NamePlaces => call[t].name \in Names
    /\ place[t] \in NodePlaces => call[t].node \in Nodes
    /\ place[t] \in {"c_check", "c_release"} =>
         call[t].fd \in 1 .. NFILES /\ fds[t][call[t].fd] = call[t].node

(***************************************************************************)
(* CallInv holds when it holds of the task that moved.                     *)
(***************************************************************************)
LEMMA CallMoves ==
  ASSUME CallInv, NEW t \in Tasks,
         \A u \in Tasks \ {t} : /\ place'[u] = place[u] /\ call'[u] = call[u]
                                /\ fds'[u] = fds[u],
         CallOK(t)'
  PROVE  CallInv'
BY DEF CallInv, CallOK

(***************************************************************************)
(* A step of task t leaves the other tasks where they are, in their calls  *)
(* and with their descriptors.                                             *)
(***************************************************************************)
OnlyMoves(t) ==
    \A u \in Tasks \ {t} :
      place'[u] = place[u] /\ call'[u] = call[u] /\ fds'[u] = fds[u]

(***************************************************************************)
(* A step of a task keeps the types.                                       *)
(***************************************************************************)
LEMMA StepTypes ==
  ASSUME FileTypes, CallInv, NEW t \in Tasks, Step(t) \/ Start(t)
  PROVE  FileTypes' /\ CallInv' /\ OnlyMoves(t)
<1> DEFINE Good == FileTypes' /\ CallOK(t)' /\ OnlyMoves(t)
<1>0. /\ tree \in [Names -> Nodes \cup {NONE}] /\ inode \in [Nodes -> Inodes]
      /\ fds \in [Tasks -> [1..NFILES -> Nodes \cup {NONE}]]
      /\ place \in [Tasks -> Places] /\ phase \in [Tasks -> {"take", "wait", "in"}]
      /\ call \in [Tasks -> Calls] /\ call[t] \in Calls /\ CallOK(t)
      /\ holder \in Tasks \cup {NONE} /\ locked \in Tasks \cup {NONE}
      /\ NONE \notin Nodes
  BY FilesAssumption DEF FileTypes, CallInv, CallOK
<1> SUFFICES Good
  BY CallMoves DEF OnlyMoves
<1>a. ASSUME NEW p \in {"find", "u_find", "c_check"}, NEW c \in Calls, Goto(t, p),
             call' = [call EXCEPT ![t] = c],
             p # "c_check" => c.name \in Names,
             p = "c_check" => /\ c.node \in Nodes /\ c.fd \in 1 .. NFILES
                              /\ fds[t][c.fd] = c.node,
             UNCHANGED <<nodeVars, fds, holder>>
      PROVE  Good
  <2>1. p \in Places
    BY DEF Places, LockedPlaces, FilesPlaces
  <2>2. FileTypes' /\ OnlyMoves(t) /\ place'[t] = p /\ call'[t] = c
    BY <1>0, <1>a, <2>1, GotoTypes DEF FileTypes, nodeVars, OnlyMoves
  <2>3. CallOK(t)'
    BY <1>0, <1>a, <2>2 DEF CallOK, NamePlaces, NodePlaces, RefPlaces
  <2> QED BY <2>2, <2>3
<1>1. ASSUME NEW n \in Names, NEW oflags \in Oflags, MqOpen(t, n, oflags) PROVE Good
  <2> DEFINE c == [NoCall EXCEPT !.name = n, !.oflags = oflags]
  <2>1. c \in Calls /\ c.name = n
    BY NoCallType DEF Calls
  <2> QED BY <1>1, <1>a, <2>1 DEF MqOpen
<1>2. ASSUME NEW n \in Names, MqUnlink(t, n) PROVE Good
  <2> DEFINE c == [NoCall EXCEPT !.name = n]
  <2>1. c \in Calls /\ c.name = n
    BY NoCallType DEF Calls
  <2> QED BY <1>2, <1>a, <2>1 DEF MqUnlink
<1>3. ASSUME NEW d \in 1 .. NFILES, MqClose(t, d) PROVE Good
  <2> DEFINE c == [NoCall EXCEPT !.node = fds[t][d], !.fd = d]
  <2>0. fds[t] \in [1 .. NFILES -> Nodes \cup {NONE}] /\ fds[t][d] # NONE
    BY <1>0, <1>3 DEF MqClose
  <2>1. fds[t][d] \in Nodes /\ d \in 0 .. NFILES
    BY <2>0, FilesAssumption
  <2>2. c \in Calls /\ c.node = fds[t][d] /\ c.fd = d
    BY <2>1, NoCallType DEF Calls
  <2>3. call' = [call EXCEPT ![t] = c] /\ Goto(t, "c_check") /\ UNCHANGED <<nodeVars, fds, holder>>
    BY <1>3 DEF MqClose
  <2> HIDE DEF c
  <2> QED BY <1>a, <2>1, <2>2, <2>3
<1>4. CASE SemTake(t) \/ SemResume(t)
  <2>1. FileTypes'
    BY <1>0, <1>4 DEF SemTake, SemResume, FileTypes, nodeVars
  <2>2. UNCHANGED <<place, call, fds>>
    BY <1>4 DEF SemTake, SemResume
  <2> QED BY <1>0, <2>1, <2>2 DEF CallOK, OnlyMoves
<1>b. ASSUME Return(t), tree' \in [Names -> Nodes \cup {NONE}], inode' \in [Nodes -> Inodes],
             fds' \in [Tasks -> [1..NFILES -> Nodes \cup {NONE}]],
             holder' \in Tasks \cup {NONE}, \A u \in Tasks \ {t} : fds'[u] = fds[u]
      PROVE  Good
  <2>1. FileTypes' /\ OnlyMoves(t) /\ place'[t] = "out"
    BY <1>b, ReturnTypes DEF FileTypes, OnlyMoves
  <2> QED BY <2>1 DEF CallOK, NamePlaces, NodePlaces, RefPlaces
<1>c. ASSUME NEW p \in Places, Goto(t, p), NEW c \in Calls, call' = [call EXCEPT ![t] = c],
             tree' \in [Names -> Nodes \cup {NONE}], inode' \in [Nodes -> Inodes],
             UNCHANGED fds, holder' \in Tasks \cup {NONE},
             c.name \in Names, p \in RefPlaces \cup {"undo"} => c.node \in Nodes,
             p \notin {"out", "new", "c_check", "c_release"}
      PROVE  Good
  <2>1. FileTypes' /\ OnlyMoves(t) /\ place'[t] = p /\ call'[t] = c
    BY <1>0, <1>c, GotoTypes DEF FileTypes, OnlyMoves
  <2> QED BY <1>0, <1>c, <2>1 DEF CallOK, NamePlaces, NodePlaces
<1>5. CASE OpenFind(t)
  <2> DEFINE i == tree[call[t].name]
  <2>1. /\ call[t].name \in Names /\ i \in Nodes \cup {NONE} /\ holder' = NONE
        /\ UNCHANGED <<tree, fds>>
    BY <1>0, <1>5 DEF OpenFind, Inside, CallOK, NamePlaces, Places, LockedPlaces, inode_semgive
  <2>2. CASE Return(t) /\ UNCHANGED inode
    BY <1>0, <1>b, <2>1, <2>2
  <2>3. CASE Goto(t, "reserve") /\ call' = [call EXCEPT ![t].oflags = {}] /\ UNCHANGED inode
    <3>1. [call[t] EXCEPT !.oflags = {}] \in Calls /\ "reserve" \in Places
          /\ [call[t] EXCEPT !.oflags = {}].name = call[t].name
      BY <1>0 DEF Calls, Oflags, Places, LockedPlaces
    <3>2. "reserve" \notin RefPlaces \cup {"undo"}
      BY DEF RefPlaces
    <3> QED BY <1>0, <1>c, <2>1, <2>3, <3>1, <3>2
  <2>4. ASSUME i \in Nodes, NEW p \in {"drop", "alloc"}, Goto(t, p), inode' = AddRef(i),
               NEW b \in BOOLEAN,
               call' = [call EXCEPT ![t] = [@ EXCEPT !.oflags = {}, !.node = i, !.created = b]]
        PROVE  Good
    <3> DEFINE c == [call[t] EXCEPT !.oflags = {}, !.node = i, !.created = b]
    <3>1. c \in Calls /\ c.name = call[t].name /\ c.node = i
      BY <1>0, <2>4 DEF Calls, Oflags
    <3>2. p \in Places /\ p \notin {"out", "new", "c_check", "c_release"}
      BY DEF Places, LockedPlaces
    <3>3. inode' \in [Nodes -> Inodes]
      BY <1>0, <2>4, NodeTypes
    <3>4. call' = [call EXCEPT ![t] = c]
      BY <2>4
    <3> HIDE DEF c, i
    <3> QED BY <1>0, <1>c, <2>1, <2>4, <3>1, <3>2, <3>3, <3>4
  <2>5. ASSUME NEW f, call' = [call EXCEPT ![t] = [@ EXCEPT !.oflags = {}, !.node = i, !.created = ~f]]
        PROVE  call' = [call EXCEPT ![t] = [@ EXCEPT !.oflags = {}, !.node = i, !.created = ~f]]
               /\ (~f) \in BOOLEAN
    BY <2>5
  <2> QED BY <1>5, <2>1, <2>2, <2>3, <2>4, <2>5 DEF OpenFind
<1>6. CASE OpenReserve(t)
  <2>1. /\ call[t].name \in Names /\ holder' = NONE /\ UNCHANGED fds
    BY <1>0, <1>6
       DEF OpenReserve, Inside, CallOK, NamePlaces, Places, LockedPlaces, inode_semgive
  <2>2. CASE Return(t) /\ UNCHANGED nodeVars
    BY <1>0, <1>b, <2>1, <2>2 DEF nodeVars
  <2>3. ASSUME NEW i \in Nodes, GotoNew(t), call' = [call EXCEPT ![t].node = i],
               inode' = [inode EXCEPT ![i].type = "plain", ![i].name = call[t].name],
               tree' = [tree EXCEPT ![call[t].name] = i]
        PROVE  Good
    <3> DEFINE c == [call[t] EXCEPT !.node = i]
    <3>1. c \in Calls /\ c.name = call[t].name /\ c.node = i
      BY <1>0 DEF Calls
    <3>2. /\ "new" \in Places /\ inode' \in [Nodes -> Inodes]
          /\ tree' \in [Names -> Nodes \cup {NONE}]
      BY <1>0, <2>1, <2>3, NodeTypes DEF Places, LockedPlaces, Reserved
    <3>3. call' = [call EXCEPT ![t] = c]
      BY <2>3
    <3>4. /\ place' \in [Tasks -> Places] /\ phase' \in [Tasks -> {"take", "wait", "in"}]
          /\ locked' \in Tasks \cup {NONE} /\ place' = [place EXCEPT ![t] = "new"]
      BY <1>0, <2>3, <3>2 DEF GotoNew
    <3> HIDE DEF c
    <3>5. FileTypes' /\ OnlyMoves(t) /\ place'[t] = "new" /\ call'[t] = c
      BY <1>0, <2>1, <3>1, <3>2, <3>3, <3>4 DEF FileTypes, OnlyMoves
    <3> QED BY <2>1, <3>1, <3>5 DEF CallOK
  <2> QED BY <1>6, <2>2, <2>3 DEF OpenReserve
<1>d. ASSUME NEW p \in Places, Goto(t, p), UNCHANGED <<tree, fds, call>>,
             inode' \in [Nodes -> Inodes], holder' \in Tasks \cup {NONE},
             call[t].name \in Names, p \in RefPlaces \cup {"undo"} => call[t].node \in Nodes,
             p \notin {"out", "new", "c_check", "c_release"}
      PROVE  Good
  <2>1. call' = [call EXCEPT ![t] = call[t]]
    BY <1>0, <1>d
  <2> QED BY <1>0, <1>c, <1>d, <2>1
<1>7. CASE OpenNew(t)
  <2>1. /\ call[t].name \in Names /\ call[t].node \in Nodes
        /\ {"undo", "alloc"} \subseteq Places
    BY <1>0, <1>7 DEF OpenNew, CallOK, NamePlaces, NodePlaces, Places, LockedPlaces
  <2>2. inode' \in [Nodes -> Inodes]
    <3>1. inode' = inode \/ inode' = Equipped(call[t].node)
      BY <1>7 DEF OpenNew, Equipped
    <3>2. Equipped(call[t].node) \in [Nodes -> Inodes]
      BY <1>0, <2>1, NodeTypes
    <3> QED BY <1>0, <3>1, <3>2
  <2> QED BY <1>0, <1>7, <1>d, <2>1, <2>2 DEF OpenNew
<1>8. CASE DropNode(t)
  <2>1. call[t].node \in Nodes
    BY <1>0, <1>8 DEF DropNode, Inside, CallOK, NodePlaces, RefPlaces
  <2>2. inode' \in [Nodes -> Inodes]
    BY <1>0, <1>8, <2>1, NodeTypes DEF DropNode
  <2> QED BY <1>0, <1>8, <1>b, <2>2 DEF DropNode, inode_semgive
<1>9. CASE FilesTake(t)
  <2>1. /\ call[t].name \in Names /\ call[t].node \in Nodes /\ "alloc_in" \in Places
    BY <1>0, <1>9 DEF FilesTake, CallOK, NamePlaces, NodePlaces, RefPlaces, Places, FilesPlaces
  <2> QED BY <1>0, <1>9, <1>d, <2>1 DEF FilesTake, nodeVars
<1>10. CASE FilesAllocate(t)
  <2>1. /\ call[t].name \in Names /\ call[t].node \in Nodes /\ "e_check" \in Places
    BY <1>0, <1>10
       DEF FilesAllocate, CallOK, NamePlaces, NodePlaces, RefPlaces, Places, FilesPlaces
  <2>2. ASSUME NEW d \in 1 .. NFILES, fds' = [fds EXCEPT ![t][d] = call[t].node], Return(t)
        PROVE  Good
    <3>1. /\ fds' \in [Tasks -> [1..NFILES -> Nodes \cup {NONE}]]
          /\ \A u \in Tasks \ {t} : fds'[u] = fds[u]
      BY <1>0, <2>1, <2>2
    <3> QED BY <1>0, <1>10, <1>b, <2>2, <3>1 DEF FilesAllocate, nodeVars
  <2> QED BY <1>0, <1>10, <1>d, <2>1, <2>2 DEF FilesAllocate, nodeVars
<1>11. CASE ErrorClose(t)
  <2>1. /\ call[t].name \in Names /\ call[t].node \in Nodes /\ "e_release" \in Places
    BY <1>0, <1>11 DEF ErrorClose, CallOK, NamePlaces, NodePlaces, RefPlaces, Places
  <2>2. inode' \in [Nodes -> Inodes]
    BY <1>0, <1>11, <2>1, NodeTypes DEF ErrorClose
  <2> QED BY <1>0, <1>11, <1>d, <2>1, <2>2 DEF ErrorClose
<1>12. CASE ErrorRelease(t)
  <2>1. /\ call[t].name \in Names /\ call[t].node \in Nodes /\ "u_find" \in Places
        /\ "u_find" \notin RefPlaces
    BY <1>0, <1>12
       DEF ErrorRelease, Inside, CallOK, NamePlaces, NodePlaces, RefPlaces, Places, LockedPlaces
  <2>2. inode' \in [Nodes -> Inodes] /\ holder' = NONE /\ UNCHANGED <<tree, fds>>
    BY <1>0, <1>12, <2>1, NodeTypes DEF ErrorRelease, inode_semgive
  <2>3. CASE Goto(t, "u_find") /\ call' = [call EXCEPT ![t].node = NONE]
    <3>1. [call[t] EXCEPT !.node = NONE] \in Calls
          /\ [call[t] EXCEPT !.node = NONE].name = call[t].name
      BY <1>0 DEF Calls
    <3> QED BY <1>0, <1>c, <2>1, <2>2, <2>3, <3>1
  <2> QED BY <1>0, <1>12, <1>b, <2>2, <2>3 DEF ErrorRelease
<1>13. CASE CloseCheck(t)
  <2>1. /\ call[t].node \in Nodes /\ "c_release" \in Places
        /\ call[t].fd \in 1 .. NFILES /\ fds[t][call[t].fd] = call[t].node
    BY <1>0, <1>13 DEF CloseCheck, CallOK, NodePlaces, Places, FilesPlaces
  <2>2. inode' \in [Nodes -> Inodes]
    BY <1>0, <1>13, <2>1, NodeTypes DEF CloseCheck
  <2>3. FileTypes' /\ OnlyMoves(t) /\ place'[t] = "c_release" /\ call'[t] = call[t]
    BY <1>0, <1>13, <2>1, <2>2, GotoTypes DEF FileTypes, OnlyMoves, CloseCheck
  <2> QED BY <1>13, <2>1, <2>3 DEF CallOK, NamePlaces, CloseCheck
<1>14. CASE CloseRelease(t)
  <2>1. call[t].node \in Nodes
    BY <1>0, <1>14 DEF CloseRelease, Inside, CallOK, NodePlaces
  <2>2. /\ inode' \in [Nodes -> Inodes]
        /\ fds' \in [Tasks -> [1..NFILES -> Nodes \cup {NONE}]]
        /\ \A u \in Tasks \ {t} : fds'[u] = fds[u]
    BY <1>0, <1>14, <2>1, NodeTypes DEF CloseRelease
  <2> QED BY <1>0, <1>14, <1>b, <2>2 DEF CloseRelease, inode_semgive
<1>15. CASE UnlinkFind(t)
  <2> DEFINE i == tree[call[t].name]
  <2>1. /\ call[t].name \in Names /\ i \in Nodes \cup {NONE} /\ holder' = NONE
        /\ UNCHANGED <<tree, fds>>
    BY <1>0, <1>15 DEF UnlinkFind, Inside, CallOK, NamePlaces, Places, LockedPlaces, inode_semgive
  <2>2. CASE Return(t) /\ UNCHANGED inode
    BY <1>0, <1>b, <2>1, <2>2
  <2>3. ASSUME i \in Nodes, NEW p \in {"drop", "u_remove"}, Goto(t, p), inode' = AddRef(i),
               call' = [call EXCEPT ![t].node = i]
        PROVE  Good
    <3> DEFINE c == [call[t] EXCEPT !.node = i]
    <3>1. c \in Calls /\ c.name = call[t].name /\ c.node = i
      BY <1>0, <2>3 DEF Calls
    <3>2. p \in Places /\ p \notin {"out", "new", "c_check", "c_release"}
      BY DEF Places, LockedPlaces
    <3>3. inode' \in [Nodes -> Inodes]
      BY <1>0, <2>3, NodeTypes
    <3>4. call' = [call EXCEPT ![t] = c]
      BY <2>3
    <3> HIDE DEF c, i
    <3> QED BY <1>0, <1>c, <2>1, <2>3, <3>1, <3>2, <3>3, <3>4
  <2> QED BY <1>15, <2>1, <2>2, <2>3 DEF UnlinkFind
<1>16. CASE UnlinkRemove(t)
  <2>1. /\ call[t].name \in Names /\ call[t].node \in Nodes /\ "u_free" \in Places
    BY <1>0, <1>16
       DEF UnlinkRemove, Inside, CallOK, NamePlaces, NodePlaces, RefPlaces, Places, LockedPlaces
  <2>2. /\ inode' \in [Nodes -> Inodes] /\ tree' \in [Names -> Nodes \cup {NONE}]
        /\ holder' = NONE /\ UNCHANGED <<fds, call>>
    <3>1. tree[call[t].name] \in Nodes \cup {NONE}
      BY <1>0, <2>1
    <3>2. Removed(call[t].name) \in [Nodes -> Inodes]
      BY <1>0, <3>1, NodeTypes DEF Removed
    <3> QED BY <1>0, <1>16, <2>1, <3>2 DEF UnlinkRemove, inode_semgive
  <2>3. call' = [call EXCEPT ![t] = call[t]]
    BY <1>0, <2>2
  <2> QED BY <1>0, <1>16, <1>c, <2>1, <2>2, <2>3 DEF UnlinkRemove
<1>17. CASE UnlinkFree(t)
  <2>1. call[t].node \in Nodes
    BY <1>0, <1>17 DEF UnlinkFree, CallOK, NodePlaces, RefPlaces
  <2>2. inode' \in [Nodes -> Inodes]
    BY <1>0, <1>17, <2>1, NodeTypes DEF UnlinkFree
  <2> QED BY <1>0, <1>17, <1>b, <2>2 DEF UnlinkFree
<1> HIDE DEF Good
<1> QED BY <1>1, <1>2, <1>3, <1>4, <1>5, <1>6, <1>7, <1>8, <1>9, <1>10, <1>11,
           <1>12, <1>13, <1>14, <1>15, <1>16, <1>17 DEF Step, Start

(***************************************************************************)
(* The interrupt handler changes inodes and names only.                    *)
(***************************************************************************)
LEMMA HandlerTypes ==
  ASSUME FileTypes, CallInv, NEW t \in Tasks \cup {NONE}, NEW n \in HandlerNames,
         HandlerOpen(t, n)
  PROVE  FileTypes' /\ CallInv'
<1>1. /\ tree[n] \in Nodes \cup {NONE} /\ inode \in [Nodes -> Inodes] /\ n \in Names
      /\ tree \in [Names -> Nodes \cup {NONE}]
  BY FilesAssumption DEF FileTypes
<1>2. /\ UNCHANGED <<fds, callVars, holder, locked>>
      /\ \/ UNCHANGED nodeVars
         \/ /\ tree[n] \in Nodes /\ tree' = [tree EXCEPT ![n] = NONE]
            /\ inode' = UnlinkedByHandler(tree[n])
  BY <1>1 DEF HandlerOpen, UnlinkedByHandler
<1>3. inode' \in [Nodes -> Inodes] /\ tree' \in [Names -> Nodes \cup {NONE}]
  BY <1>1, <1>2, NodeTypes, ZenonT(60) DEF nodeVars
<1> QED BY <1>2, <1>3 DEF FileTypes, CallInv, callVars

(***************************************************************************)
(* TypeInv is inductive.                                                   *)
(***************************************************************************)
LEMMA TypeStep ==
  ASSUME TypeInv, [Next]_vars
  PROVE  TypeInv'
<1>1. SemInv'
  BY SemStep DEF TypeInv
<1>2. FileTypes' /\ CallInv'
  <2>1. CASE UNCHANGED vars
    BY <2>1 DEF TypeInv, FileTypes, CallInv, vars, nodeVars, callVars
  <2> QED BY <2>1, StepTypes, HandlerTypes DEF TypeInv, Next
<1>3. fault' \in BOOLEAN
  <2>1. CASE \E t \in Tasks : Step(t) \/ Start(t)
    <3>1. fault' = fault
      BY <2>1, ZenonT(60)
         DEF Step, Start, SemTake, SemResume, OpenFind, OpenReserve, OpenNew, DropNode,
             FilesTake, FilesAllocate, ErrorClose, ErrorRelease, CloseCheck, CloseRelease,
             UnlinkFind, UnlinkRemove, UnlinkFree, MqOpen, MqUnlink, MqClose
    <3> QED BY <3>1, ZenonT(60) DEF TypeInv
  <2>2. CASE \E t \in Tasks \cup {NONE}, n \in HandlerNames : HandlerOpen(t, n)
    <3>1. fault' = fault \/ fault' = TRUE
      BY <2>2, Zenon DEF HandlerOpen
    <3> QED BY <3>1, Zenon DEF TypeInv
  <2>3. CASE UNCHANGED vars
    BY <2>3, Zenon DEF TypeInv, vars
  <2> QED BY <2>1, <2>2, <2>3 DEF Next
<1> QED BY <1>1, <1>2, <1>3 DEF TypeInv

(***************************************************************************)
(* TypeInv is an invariant.                                                *)
(***************************************************************************)
LEMMA TypeInvariant == Spec => []TypeInv
<1>1. ASSUME Init PROVE TypeInv
  <2>1. SemTypeOK
    <3>1. [s \in Sems |-> 1] \in [Sems -> Int]
      OBVIOUS
    <3> QED BY <1>1, <3>1 DEF Init, SemInit, SemTypeOK
  <2>2. SemState \in SemStates
    BY <2>1, SemStateType
  <2>3. Waiting(SemState) = {} /\ SemState.list = << >>
    BY <1>1 DEF Init, SemInit, SemState, Waiting
  <2>4. Lists(<< >>, {}, Priority)
    BY DEF Lists
  <2>5. Unused \in Inodes /\ "out" \in Places
    BY DEF Unused, Inodes, Places
  <2>6. FileTypes
    BY <1>1, <2>5, NoCallType DEF Init, FileTypes
  <2>7. CallInv
    BY <1>1 DEF Init, CallInv, NamePlaces, NodePlaces, RefPlaces
  <2>8. fault \in BOOLEAN
    BY <1>1, Zenon DEF Init
  <2> QED BY <2>1, <2>2, <2>3, <2>4, <2>6, <2>7, <2>8 DEF TypeInv, SemInv, Listed
<1> QED BY <1>1, TypeStep, PTL DEF Spec

(***************************************************************************)
(* Every variable keeps its type: reference counts stay natural numbers    *)
(* although inode_release is also called for an inode without references.  *)
(***************************************************************************)
THEOREM FilesTypes == Spec => []TypeOK
<1>1. TypeInv => TypeOK
  BY DEF TypeInv, SemInv, FileTypes, TypeOK
<1> QED BY <1>1, TypeInvariant, PTL

-----------------------------------------------------------------------------
(***************************************************************************)
(* What the operations do to the one inode they change.                    *)
(***************************************************************************)
OnlyAt(f, i) == \A k \in Nodes \ {i} : f[k] = inode[k]
Fields(v, type, name, crefs, deleted, msgq, lost) ==
    /\ v.type = type /\ v.name = name /\ v.i_crefs = crefs
    /\ (v.deleted <=> deleted) /\ (v.msgq <=> msgq) /\ v.lost = lost

(***************************************************************************)
(* The fields of the inode after each operation on it.                     *)
(***************************************************************************)
LEMMA NodeValues ==
  ASSUME inode \in [Nodes -> Inodes], NEW i \in Nodes, NEW n,
         NEW v, v = inode[i]
  PROVE  /\ OnlyAt(AddRef(i), i)
         /\ Fields(AddRef(i)[i], v.type, v.name, v.i_crefs + 1, v.deleted, v.msgq, v.lost)
         /\ OnlyAt(inode_release(i), i)
         /\ Fields(inode_release(i)[i],
                   IF v.i_crefs <= 1 /\ v.deleted THEN "freed" ELSE v.type, v.name,
                   IF v.i_crefs > 0 THEN v.i_crefs - 1 ELSE 0, v.deleted, v.msgq, v.lost)
         /\ OnlyAt(nxmq_file_close(i), i)
         /\ Fields(nxmq_file_close(i)[i], v.type, v.name, v.i_crefs, v.deleted,
                   v.msgq /\ ~(v.i_crefs <= 1 /\ v.deleted), v.lost)
         /\ OnlyAt(mq_inode_release(inode, i), i)
         /\ Fields(mq_inode_release(inode, i)[i], v.type, v.name, v.i_crefs, v.deleted,
                   v.msgq /\ v.i_crefs > 1, v.lost + 1)
         /\ OnlyAt(UnlinkedByHandler(i), i)
         /\ Fields(UnlinkedByHandler(i)[i], v.type, v.name, v.i_crefs + 1, TRUE,
                   v.msgq /\ v.i_crefs + 1 > 1, v.lost + 1)
         /\ OnlyAt([inode EXCEPT ![i].deleted = TRUE], i)
         /\ Fields([inode EXCEPT ![i].deleted = TRUE][i], v.type, v.name, v.i_crefs, TRUE,
                   v.msgq, v.lost)
         /\ OnlyAt([inode EXCEPT ![i].type = "freed"], i)
         /\ Fields([inode EXCEPT ![i].type = "freed"][i], "freed", v.name, v.i_crefs,
                   v.deleted, v.msgq, v.lost)
         /\ OnlyAt(Reserved(i, n), i)
         /\ Fields(Reserved(i, n)[i], "plain", n, v.i_crefs, v.deleted, v.msgq, v.lost)
         /\ OnlyAt(Equipped(i), i)
         /\ Fields(Equipped(i)[i], "mqueue", v.name, 1, v.deleted, TRUE, v.lost)
<1>0. v \in Inodes /\ DOMAIN inode = Nodes
  OBVIOUS
<1>1. /\ OnlyAt(AddRef(i), i)
      /\ Fields(AddRef(i)[i], v.type, v.name, v.i_crefs + 1, v.deleted, v.msgq, v.lost)
  BY <1>0 DEF AddRef, OnlyAt, Fields, Inodes
<1>2. /\ OnlyAt(inode_release(i), i)
      /\ Fields(inode_release(i)[i],
                IF v.i_crefs <= 1 /\ v.deleted THEN "freed" ELSE v.type, v.name,
                IF v.i_crefs > 0 THEN v.i_crefs - 1 ELSE 0, v.deleted, v.msgq, v.lost)
  <2>1. ASSUME NEW c, NEW p
        PROVE  LET f == [inode EXCEPT ![i].i_crefs = c, ![i].type = p]
               IN  OnlyAt(f, i) /\ Fields(f[i], p, v.name, c, v.deleted, v.msgq, v.lost)
    BY <1>0 DEF OnlyAt, Fields, Inodes
  <2> QED BY <2>1 DEF inode_release
<1>3. /\ OnlyAt(nxmq_file_close(i), i)
      /\ Fields(nxmq_file_close(i)[i], v.type, v.name, v.i_crefs, v.deleted,
                v.msgq /\ ~(v.i_crefs <= 1 /\ v.deleted), v.lost)
  BY <1>0 DEF nxmq_file_close, OnlyAt, Fields, Inodes
<1>4. ASSUME NEW f \in [Nodes -> Inodes]
      PROVE  /\ \A k \in Nodes \ {i} : mq_inode_release(f, i)[k] = f[k]
             /\ Fields(mq_inode_release(f, i)[i], f[i].type, f[i].name, f[i].i_crefs,
                       f[i].deleted, f[i].msgq /\ f[i].i_crefs > 1, f[i].lost + 1)
  <2>1. ASSUME NEW m \in BOOLEAN, NEW l \in Nat
        PROVE  LET g == [f EXCEPT ![i].msgq = m, ![i].lost = l]
               IN  /\ \A k \in Nodes \ {i} : g[k] = f[k]
                   /\ Fields(g[i], f[i].type, f[i].name, f[i].i_crefs, f[i].deleted, m, l)
    BY <1>4 DEF Fields, Inodes
  <2>2. (f[i].msgq /\ f[i].i_crefs > 1) \in BOOLEAN /\ f[i].lost + 1 \in Nat
    BY <1>4 DEF Inodes
  <2> QED BY <2>1, <2>2 DEF mq_inode_release
<1>5. /\ OnlyAt(mq_inode_release(inode, i), i)
      /\ Fields(mq_inode_release(inode, i)[i], v.type, v.name, v.i_crefs, v.deleted,
                v.msgq /\ v.i_crefs > 1, v.lost + 1)
  BY <1>4 DEF OnlyAt
<1>6. /\ OnlyAt(UnlinkedByHandler(i), i)
      /\ Fields(UnlinkedByHandler(i)[i], v.type, v.name, v.i_crefs + 1, TRUE,
                v.msgq /\ v.i_crefs + 1 > 1, v.lost + 1)
  <2> DEFINE f == [AddRef(i) EXCEPT ![i].deleted = TRUE]
  <2>1. /\ f \in [Nodes -> Inodes] /\ OnlyAt(f, i)
        /\ Fields(f[i], v.type, v.name, v.i_crefs + 1, TRUE, v.msgq, v.lost)
    <3>1. AddRef(i) \in [Nodes -> Inodes]
      BY NodeTypes
    <3> QED BY <1>1, <3>1 DEF OnlyAt, Fields, Inodes
  <2> HIDE DEF f
  <2>2. OnlyAt(mq_inode_release(f, i), i)
    BY <1>4, <2>1 DEF OnlyAt
  <2>3. Fields(mq_inode_release(f, i)[i], v.type, v.name, v.i_crefs + 1, TRUE,
               v.msgq /\ v.i_crefs + 1 > 1, v.lost + 1)
    BY <1>4, <2>1 DEF Fields
  <2> QED BY <2>2, <2>3 DEF UnlinkedByHandler, f
<1>7. /\ OnlyAt([inode EXCEPT ![i].deleted = TRUE], i)
      /\ Fields([inode EXCEPT ![i].deleted = TRUE][i], v.type, v.name, v.i_crefs, TRUE,
                v.msgq, v.lost)
      /\ OnlyAt([inode EXCEPT ![i].type = "freed"], i)
      /\ Fields([inode EXCEPT ![i].type = "freed"][i], "freed", v.name, v.i_crefs,
                v.deleted, v.msgq, v.lost)
  BY <1>0 DEF OnlyAt, Fields, Inodes
<1>8. /\ OnlyAt(Reserved(i, n), i)
      /\ Fields(Reserved(i, n)[i], "plain", n, v.i_crefs, v.deleted, v.msgq, v.lost)
  BY <1>0 DEF Reserved, OnlyAt, Fields, Inodes
<1>9. /\ OnlyAt(Equipped(i), i)
      /\ Fields(Equipped(i)[i], "mqueue", v.name, 1, v.deleted, TRUE, v.lost)
  BY <1>0 DEF Equipped, OnlyAt, Fields, Inodes
<1> QED BY <1>1, <1>2, <1>3, <1>5, <1>6, <1>7, <1>8, <1>9

-----------------------------------------------------------------------------
(***************************************************************************)
(* HolderSet of a value: f are the descriptors, p the places, c the calls. *)
(***************************************************************************)
Holders(f, p, c, i) ==
    {td \in Tasks \X (1 .. NFILES) : f[td[1]][td[2]] = i}
      \cup {td \in Tasks \X {0} : p[td[1]] \in RefPlaces /\ c[td[1]].node = i}
Count(f, p, c, i) == Cardinality(Holders(f, p, c, i))

(***************************************************************************)
(* The holders of an inode are finitely many.                              *)
(***************************************************************************)
LEMMA HoldersAre ==
  ASSUME NEW f, NEW p, NEW c, NEW i
  PROVE  /\ IsFiniteSet(Holders(f, p, c, i)) /\ Count(f, p, c, i) \in Nat
         /\ \A u \in Tasks : <<u, 0>> \in Holders(f, p, c, i)
                               <=> p[u] \in RefPlaces /\ c[u].node = i
         /\ \A u \in Tasks, d \in 1 .. NFILES :
              <<u, d>> \in Holders(f, p, c, i) <=> f[u][d] = i
         /\ \A h \in Holders(f, p, c, i) : h \in Tasks \X (0 .. NFILES)
<1>0. NFILES \in Nat
  BY FilesAssumption
<1>1. Holders(f, p, c, i) \in SUBSET (Tasks \X (0 .. NFILES))
  BY <1>0 DEF Holders
<1>2. IsFiniteSet(Tasks \X (0 .. NFILES))
  <2>1. IsFiniteSet(0 .. NFILES)
    BY <1>0, FS_Interval
  <2> QED BY <2>1, SemTasks, FS_Product, Zenon
<1>3. IsFiniteSet(Holders(f, p, c, i)) /\ Count(f, p, c, i) \in Nat
  BY <1>1, <1>2, FS_Subset, FS_CardinalityType DEF Count
<1>4. \A u \in Tasks : <<u, 0>> \in Holders(f, p, c, i)
                         <=> p[u] \in RefPlaces /\ c[u].node = i
  BY <1>0 DEF Holders
<1>5. \A u \in Tasks, d \in 1 .. NFILES : <<u, d>> \in Holders(f, p, c, i) <=> f[u][d] = i
  BY <1>0 DEF Holders
<1> QED BY <1>1, <1>3, <1>4, <1>5

(***************************************************************************)
(* When one element comes or goes, the count follows.                      *)
(***************************************************************************)
LEMMA OneChanges ==
  ASSUME NEW S, NEW T, NEW h, IsFiniteSet(S), S \ {h} = T \ {h}
  PROVE  /\ IsFiniteSet(T)
         /\ Cardinality(T) + (IF h \in S THEN 1 ELSE 0)
              = Cardinality(S) + (IF h \in T THEN 1 ELSE 0)
<1> DEFINE R == S \ {h}
<1>1. IsFiniteSet(R) /\ Cardinality(R) \in Nat /\ h \notin R
  BY FS_RemoveElement, FS_CardinalityType
<1>2. IsFiniteSet(R \cup {h}) /\ Cardinality(R \cup {h}) = Cardinality(R) + 1
  BY <1>1, FS_AddElement
<1>3. S = (IF h \in S THEN R \cup {h} ELSE R) /\ T = (IF h \in T THEN R \cup {h} ELSE R)
  OBVIOUS
<1> HIDE DEF R
<1>4. IsFiniteSet(T)
  BY <1>1, <1>2, <1>3
<1>5. Cardinality(S) = Cardinality(R) + (IF h \in S THEN 1 ELSE 0)
  BY <1>1, <1>2, <1>3
<1>6. Cardinality(T) = Cardinality(R) + (IF h \in T THEN 1 ELSE 0)
  BY <1>1, <1>2, <1>3
<1> QED BY <1>1, <1>4, <1>5, <1>6

(***************************************************************************)
(* A step that moves the call of task t.                                   *)
(***************************************************************************)
LEMMA CountCall ==
  ASSUME NEW f, NEW i, NEW t \in Tasks,
         \A u \in Tasks \ {t} : place'[u] = place[u] /\ call'[u] = call[u]
  PROVE  Count(f, place', call', i)
             + (IF place[t] \in RefPlaces /\ call[t].node = i THEN 1 ELSE 0)
           = Count(f, place, call, i)
             + (IF place'[t] \in RefPlaces /\ call'[t].node = i THEN 1 ELSE 0)
<1>1. Holders(f, place, call, i) \ {<<t, 0>>} = Holders(f, place', call', i) \ {<<t, 0>>}
  BY DEF Holders
<1>2. /\ IsFiniteSet(Holders(f, place, call, i))
      /\ <<t, 0>> \in Holders(f, place, call, i) <=> place[t] \in RefPlaces /\ call[t].node = i
      /\ <<t, 0>> \in Holders(f, place', call', i)
           <=> place'[t] \in RefPlaces /\ call'[t].node = i
  BY HoldersAre
<1> QED BY <1>1, <1>2, OneChanges DEF Count

(***************************************************************************)
(* A step that changes descriptor d of task t.                             *)
(***************************************************************************)
LEMMA CountFd ==
  ASSUME NEW i, NEW t \in Tasks, NEW d \in 1 .. NFILES,
         \A u \in Tasks, e \in 1 .. NFILES : <<u, e>> # <<t, d>> => fds'[u][e] = fds[u][e]
  PROVE  Count(fds', place, call, i) + (IF fds[t][d] = i THEN 1 ELSE 0)
           = Count(fds, place, call, i) + (IF fds'[t][d] = i THEN 1 ELSE 0)
<1>1. Holders(fds, place, call, i) \ {<<t, d>>} = Holders(fds', place, call, i) \ {<<t, d>>}
  BY DEF Holders
<1>2. /\ IsFiniteSet(Holders(fds, place, call, i))
      /\ <<t, d>> \in Holders(fds, place, call, i) <=> fds[t][d] = i
      /\ <<t, d>> \in Holders(fds', place, call, i) <=> fds'[t][d] = i
  BY HoldersAre
<1> QED BY <1>1, <1>2, OneChanges DEF Count

(***************************************************************************)
(* The only holder is the only one.                                        *)
(***************************************************************************)
LEMMA OnlyHolder ==
  ASSUME NEW f, NEW p, NEW c, NEW i, Count(f, p, c, i) <= 1,
         NEW g \in Holders(f, p, c, i), NEW h \in Holders(f, p, c, i)
  PROVE  Count(f, p, c, i) = 1 /\ g = h
<1> DEFINE S == Holders(f, p, c, i)
<1>1. IsFiniteSet(S) /\ Cardinality(S) \in Nat /\ Cardinality(S) <= 1
  BY HoldersAre DEF Count
<1> HIDE DEF S
<1>2. g \in S /\ h \in S
  BY DEF S
<1>3. Cardinality(S) # 0
  BY <1>1, <1>2, FS_EmptySet
<1>4. Cardinality(S) = 1
  BY <1>1, <1>3
<1>5. PICK x : S = {x}
  BY <1>1, <1>4, FS_Singleton
<1>6. g = h
  BY <1>2, <1>5
<1> QED BY <1>4, <1>6 DEF Count, S

(***************************************************************************)
(* No holder, no reference.                                                *)
(***************************************************************************)
LEMMA NoHolder ==
  ASSUME NEW f, NEW p, NEW c, NEW i
  PROVE  Count(f, p, c, i) = 0 <=> Holders(f, p, c, i) = {}
BY HoldersAre, FS_EmptySet DEF Count

-----------------------------------------------------------------------------
(***************************************************************************)
(* A task is at inode_reserve's end with an inode that nobody else knows:  *)
(* sched_lock keeps the other tasks out until the inode has its queue.     *)
(***************************************************************************)
NewInv ==
    \A t \in Tasks : place[t] = "new" =>
      /\ locked = t /\ inode[call[t].node].type = "plain"
      /\ HolderSet(call[t].node) = {} /\ tree[call[t].name] = call[t].node
      /\ \A u \in Tasks : place[u] = "undo" => call[u].node # call[t].node

(***************************************************************************)
(* The inode of a call, by the place in the call.                          *)
(***************************************************************************)
PlaceOK(t) ==
    /\ place[t] \in RefPlaces \ {"drop"} => inode[call[t].node].type = "mqueue"
    /\ place[t] = "drop" => inode[call[t].node].type # "unused"
    /\ place[t] = "undo" => inode[call[t].node].type \in {"plain", "freed"}
    /\ place[t] \in {"u_remove", "u_free"} => inode[call[t].node].name = call[t].name
    /\ place[t] = "u_free" => \A n \in Names : tree[n] # call[t].node
    /\ place[t] \in {"alloc", "alloc_in"} => inode[call[t].node].msgq

(***************************************************************************)
(* The inodes of the descriptors of a task.                                *)
(***************************************************************************)
FdsOK(t) ==
    \A d \in 1 .. NFILES : fds[t][d] # NONE =>
      /\ inode[fds[t][d]].type = "mqueue"
      /\ Closing(t, d) \/ inode[fds[t][d]].msgq
HoldersOK == \A t \in Tasks : PlaceOK(t) /\ FdsOK(t)

(***************************************************************************)
(* Inodes and the tree of names.  The queue of an inode that a name leads  *)
(* to is there.                                                            *)
(***************************************************************************)
NodeInv ==
    \A i \in Nodes :
      /\ inode[i].type \in {"unused", "plain"} => inode[i].lost = 0
      /\ inode[i].type = "unused" => ~inode[i].deleted
      /\ inode[i].type \in {"plain", "mqueue"} => inode[i].name \in Names
TreeInv ==
    \A n \in Names : tree[n] # NONE =>
      /\ inode[tree[n]].name = n /\ ~inode[tree[n]].deleted
      /\ inode[tree[n]].type \in {"plain", "mqueue"}
      /\ inode[tree[n]].type = "mqueue" => inode[tree[n]].msgq
NamesOK == NodeInv /\ TreeInv /\ NamesReach

(***************************************************************************)
(* The inductive invariant behind RefsCounted, NamesReach and NoDangling.  *)
(***************************************************************************)
RefInv == NewInv /\ HoldersOK /\ NamesOK /\ RefsCounted

(***************************************************************************)
(* Task u refers to inode i, in its call or with a descriptor.             *)
(***************************************************************************)
Refers(u, i) ==
    \/ place[u] \in RefPlaces /\ call[u].node = i
    \/ \E d \in 1 .. NFILES : fds[u][d] = i

(***************************************************************************)
(* RefsCounted of a value.                                                 *)
(***************************************************************************)
Refs(f, p, c, nodes) ==
    \A i \in Nodes :
      nodes[i].type = "mqueue" => nodes[i].i_crefs = Count(f, p, c, i) + nodes[i].lost

(***************************************************************************)
(* HolderSet and Holders are the same sets.                                *)
(***************************************************************************)
LEMMA RefsForm == /\ RefsCounted <=> Refs(fds, place, call, inode)
                  /\ RefsCounted' <=> Refs(fds', place', call', inode')
BY DEF RefsCounted, Refs, HolderSet, Holders, Count

(***************************************************************************)
(* Whoever has the last reference to a queue is alone with it.             *)
(***************************************************************************)
LEMMA Alone ==
  ASSUME FileTypes, RefsCounted, NEW i \in Nodes, inode[i].type = "mqueue",
         inode[i].i_crefs <= 1, NEW t \in Tasks
  PROVE  /\ place[t] \in RefPlaces /\ call[t].node = i =>
              /\ inode[i].lost = 0 /\ \A u \in Tasks \ {t} : ~Refers(u, i)
              /\ \A d \in 1 .. NFILES : fds[t][d] # i
         /\ \A d \in 1 .. NFILES : fds[t][d] = i =>
              /\ inode[i].lost = 0 /\ \A u \in Tasks \ {t} : ~Refers(u, i)
              /\ ~(place[t] \in RefPlaces /\ call[t].node = i)
              /\ \A e \in 1 .. NFILES \ {d} : fds[t][e] # i
<1> DEFINE S == Holders(fds, place, call, i)
           N == Count(fds, place, call, i)
<1>1. /\ inode[i].i_crefs = N + inode[i].lost /\ N \in Nat /\ inode[i].lost \in Nat
      /\ 0 \notin 1 .. NFILES /\ NFILES \in Nat
  BY RefsForm, HoldersAre, FilesAssumption DEF Refs, FileTypes, Inodes
<1>2. N <= 1
  BY <1>1
<1>3. \A g, h \in S : N = 1 /\ g = h
  BY <1>2, OnlyHolder
<1>4. /\ \A u \in Tasks : <<u, 0>> \in S <=> place[u] \in RefPlaces /\ call[u].node = i
      /\ \A u \in Tasks, d \in 1 .. NFILES : <<u, d>> \in S <=> fds[u][d] = i
  BY HoldersAre
<1> HIDE DEF S, N
<1>5. ASSUME NEW d \in 0 .. NFILES, <<t, d>> \in S
      PROVE  /\ inode[i].lost = 0 /\ \A u \in Tasks \ {t} : ~Refers(u, i)
             /\ <<t, 0>> \in S => d = 0
             /\ \A e \in 1 .. NFILES : <<t, e>> \in S => d = e
  <2>1. N = 1 /\ \A h \in S : h = <<t, d>>
    BY <1>3, <1>5
  <2>2. inode[i].lost = 0
    BY <1>1, <2>1
  <2>3. ASSUME NEW u \in Tasks \ {t} PROVE ~Refers(u, i)
    BY <1>4, <2>1 DEF Refers
  <2> QED BY <2>1, <2>2, <2>3
<1>6. ASSUME place[t] \in RefPlaces, call[t].node = i
      PROVE  /\ inode[i].lost = 0 /\ \A u \in Tasks \ {t} : ~Refers(u, i)
             /\ \A d \in 1 .. NFILES : fds[t][d] # i
  <2>1. <<t, 0>> \in S /\ 0 \in 0 .. NFILES
    BY <1>1, <1>4, <1>6
  <2>2. \A e \in 1 .. NFILES : <<t, e>> \in S => 0 = e
    BY <1>5, <2>1
  <2>3. inode[i].lost = 0 /\ \A u \in Tasks \ {t} : ~Refers(u, i)
    BY <1>5, <2>1
  <2> QED BY <1>1, <1>4, <2>2, <2>3
<1>7. ASSUME NEW d \in 1 .. NFILES, fds[t][d] = i
      PROVE  /\ inode[i].lost = 0 /\ \A u \in Tasks \ {t} : ~Refers(u, i)
             /\ ~(place[t] \in RefPlaces /\ call[t].node = i)
             /\ \A e \in 1 .. NFILES \ {d} : fds[t][e] # i
  <2>1. <<t, d>> \in S /\ d \in 0 .. NFILES /\ d # 0
    BY <1>1, <1>4, <1>7
  <2>2. /\ <<t, 0>> \in S => d = 0
        /\ \A e \in 1 .. NFILES : <<t, e>> \in S => d = e
    BY <1>5, <2>1
  <2>3. inode[i].lost = 0 /\ \A u \in Tasks \ {t} : ~Refers(u, i)
    BY <1>5, <2>1
  <2> QED BY <1>4, <2>1, <2>2, <2>3
<1> QED BY <1>6, <1>7

(***************************************************************************)
(* A queue without references is referred to by nobody.                    *)
(***************************************************************************)
LEMMA Unheld ==
  ASSUME FileTypes, RefsCounted, NEW i \in Nodes, inode[i].type = "mqueue",
         inode[i].i_crefs = 0
  PROVE  \A u \in Tasks : ~Refers(u, i)
<1> DEFINE S == Holders(fds, place, call, i)
           N == Count(fds, place, call, i)
<1>1. /\ inode[i].i_crefs = N + inode[i].lost /\ N \in Nat /\ inode[i].lost \in Nat
  BY RefsForm, HoldersAre DEF Refs, FileTypes, Inodes
<1>2. S = {}
  BY <1>1, NoHolder
<1>3. /\ \A u \in Tasks : <<u, 0>> \in S <=> place[u] \in RefPlaces /\ call[u].node = i
      /\ \A u \in Tasks, d \in 1 .. NFILES : <<u, d>> \in S <=> fds[u][d] = i
  BY HoldersAre
<1> HIDE DEF S
<1> QED BY <1>2, <1>3 DEF Refers

(***************************************************************************)
(* What a step of task t may do to inodes that other tasks refer to, and   *)
(* to names.                                                               *)
(***************************************************************************)
ChangeOK(t) ==
    /\ \A i \in Nodes : inode[i].type # "unused" =>
         inode'[i].name = inode[i].name /\ inode'[i].type # "unused"
    /\ \A i \in Nodes, u \in Tasks \ {t} :
         place[u] = "undo" /\ call[u].node = i /\ inode[i].type \in {"plain", "freed"}
           => inode'[i].type \in {"plain", "freed"}
    /\ \A i \in Nodes, u \in Tasks \ {t} : Refers(u, i) /\ inode[i].type = "mqueue" =>
         inode'[i].type = "mqueue" /\ (inode[i].msgq => inode'[i].msgq)
    /\ \A n \in Names :
         tree'[n] = tree[n] \/ tree'[n] = NONE \/ inode[tree'[n]].type = "unused"
    /\ \A i \in Nodes : inode'[i].type = "plain" =>
         inode[i].type = "plain" \/ (place'[t] = "new" /\ call'[t].node = i)

(***************************************************************************)
(* HoldersOK holds when it holds of the task that moved.                   *)
(***************************************************************************)
LEMMA OthersKept ==
  ASSUME FileTypes, CallInv, HoldersOK, NEW t, OnlyMoves(t), ChangeOK(t),
         t \in Tasks => PlaceOK(t)' /\ FdsOK(t)'
  PROVE  HoldersOK'
<1> SUFFICES ASSUME NEW u \in Tasks, u # t PROVE PlaceOK(u)' /\ FdsOK(u)'
  BY DEF HoldersOK
<1>0. /\ PlaceOK(u) /\ FdsOK(u) /\ place'[u] = place[u] /\ call'[u] = call[u] /\ fds'[u] = fds[u]
      /\ place[u] \in NodePlaces => call[u].node \in Nodes
      /\ \A d \in 1 .. NFILES : fds[u][d] \in Nodes \cup {NONE}
      /\ NONE \notin Nodes
  BY FilesAssumption DEF HoldersOK, OnlyMoves, CallInv, FileTypes
<1> DEFINE i == call[u].node
<1>1. place[u] \in RefPlaces => i \in Nodes /\ Refers(u, i)
  BY <1>0 DEF NodePlaces, Refers
<1>2. PlaceOK(u)'
  <2>1. place[u] \in RefPlaces \ {"drop"} =>
          /\ inode[i].type = "mqueue" /\ inode'[i].type = "mqueue"
          /\ inode'[i].name = inode[i].name /\ (inode[i].msgq => inode'[i].msgq)
    BY <1>0, <1>1 DEF PlaceOK, ChangeOK
  <2>2. place[u] = "drop" => inode'[i].type # "unused"
    BY <1>0, <1>1 DEF PlaceOK, ChangeOK, RefPlaces
  <2>3. place[u] = "undo" => inode'[i].type \in {"plain", "freed"}
    BY <1>0 DEF PlaceOK, ChangeOK, NodePlaces
  <2>4. place[u] = "u_free" => \A n \in Names : tree'[n] # i
    <3>1. SUFFICES ASSUME place[u] = "u_free", NEW n \in Names, tree'[n] = i PROVE FALSE
      OBVIOUS
    <3>2. i \in Nodes /\ inode[i].type = "mqueue" /\ tree[n] # i
      BY <1>0, <1>1, <3>1 DEF PlaceOK, RefPlaces
    <3> QED BY <1>0, <3>1, <3>2 DEF ChangeOK
  <2> HIDE DEF i
  <2>5. {"u_remove", "u_free", "alloc", "alloc_in"} \subseteq RefPlaces \ {"drop"}
    BY DEF RefPlaces
  <2> QED BY <1>0, <2>1, <2>2, <2>3, <2>4, <2>5 DEF PlaceOK, i
<1>3. FdsOK(u)'
  <2>1. SUFFICES ASSUME NEW d \in 1 .. NFILES, fds[u][d] # NONE
                 PROVE  /\ inode'[fds[u][d]].type = "mqueue"
                        /\ Closing(u, d) \/ inode'[fds[u][d]].msgq
    BY <1>0 DEF FdsOK, Closing
  <2>2. fds[u][d] \in Nodes /\ Refers(u, fds[u][d])
    BY <1>0, <2>1 DEF Refers
  <2>3. inode[fds[u][d]].type = "mqueue" /\ (Closing(u, d) \/ inode[fds[u][d]].msgq)
    BY <1>0, <2>1 DEF FdsOK
  <2> QED BY <2>2, <2>3 DEF ChangeOK
<1> QED BY <1>2, <1>3

(***************************************************************************)
(* No task is at "new" when another one runs.                              *)
(***************************************************************************)
LEMMA NewKept ==
  ASSUME NewInv, NEW t \in Tasks, CanRun(t), OnlyMoves(t), place'[t] # "new"
  PROVE  NewInv'
<1>1. \A u \in Tasks \ {t} : place'[u] # "new"
  BY FilesAssumption DEF NewInv, CanRun, OnlyMoves
<1> QED BY <1>1 DEF NewInv

(***************************************************************************)
(* Changes of inodes that leave the names alone.                           *)
(***************************************************************************)
LEMMA NamesQuiet ==
  ASSUME FileTypes, NamesOK, UNCHANGED tree,
         \A i \in Nodes :
           /\ inode'[i].name = inode[i].name /\ (inode'[i].deleted <=> inode[i].deleted)
           /\ \/ inode'[i].type = inode[i].type
              \/ inode'[i].type = "freed" /\ inode[i].deleted
           /\ inode[i].type \in {"unused", "plain"} => inode'[i].lost = inode[i].lost
           /\ inode[i].msgq => \/ inode'[i].msgq \/ inode[i].deleted
                               \/ \A n \in Names : tree[n] # i
  PROVE  NamesOK'
<1>0. \A n \in Names : tree[n] \in Nodes \cup {NONE}
  BY DEF FileTypes
<1>1. NodeInv'
  BY DEF NamesOK, NodeInv
<1>2. TreeInv'
  <2>1. SUFFICES ASSUME NEW n \in Names, tree[n] # NONE
                 PROVE  /\ inode'[tree[n]].name = n /\ ~inode'[tree[n]].deleted
                        /\ inode'[tree[n]].type \in {"plain", "mqueue"}
                        /\ inode'[tree[n]].type = "mqueue" => inode'[tree[n]].msgq
    BY DEF TreeInv
  <2>2. tree[n] \in Nodes
    BY <1>0, <2>1
  <2> QED BY <2>1, <2>2 DEF NamesOK, TreeInv
<1>3. NamesReach'
  BY DEF NamesOK, NamesReach
<1> QED BY <1>1, <1>2, <1>3 DEF NamesOK

(***************************************************************************)
(* A name is removed and its inode is freed or marked.                     *)
(***************************************************************************)
LEMMA NamesRemove ==
  ASSUME FileTypes, NamesOK, NEW n \in Names, tree' = [tree EXCEPT ![n] = NONE],
         \A i \in Nodes : i # tree[n] => inode'[i] = inode[i],
         \A i \in Nodes : i = tree[n] =>
           /\ inode'[i].name = inode[i].name
           /\ \/ inode'[i].type = "freed"
              \/ inode'[i].type = inode[i].type /\ inode'[i].deleted
           /\ inode[i].type = "plain" => inode'[i].lost = inode[i].lost
  PROVE  NamesOK'
<1>0. /\ \A m \in Names : tree[m] \in Nodes \cup {NONE}
      /\ tree'[n] = NONE /\ \A m \in Names \ {n} : tree'[m] = tree[m]
  BY DEF FileTypes
<1>1. \A i \in Nodes : i = tree[n] => inode[i].type \in {"plain", "mqueue"} /\ inode[i].name = n
  BY FilesAssumption DEF NamesOK, TreeInv
<1>2. NodeInv'
  BY <1>1 DEF NamesOK, NodeInv
<1>3. TreeInv'
  <2>1. SUFFICES ASSUME NEW m \in Names, tree'[m] # NONE
                 PROVE  /\ inode'[tree'[m]].name = m /\ ~inode'[tree'[m]].deleted
                        /\ inode'[tree'[m]].type \in {"plain", "mqueue"}
                        /\ inode'[tree'[m]].type = "mqueue" => inode'[tree'[m]].msgq
    BY DEF TreeInv
  <2>2. m # n /\ tree'[m] = tree[m] /\ tree[m] \in Nodes
    BY <1>0, <2>1
  <2>3. inode[tree[m]].name = m
    BY <2>1, <2>2 DEF NamesOK, TreeInv
  <2>4. tree[m] # tree[n]
    BY <1>1, <2>2, <2>3
  <2>5. inode'[tree[m]] = inode[tree[m]]
    BY <2>2, <2>4
  <2> QED BY <2>1, <2>2, <2>5 DEF NamesOK, TreeInv
<1>4. NamesReach'
  <2>1. SUFFICES ASSUME NEW i \in Nodes, inode'[i].type \in {"plain", "mqueue"},
                        ~inode'[i].deleted
                 PROVE  tree'[inode'[i].name] = i
    BY DEF NamesReach
  <2>2. i # tree[n]
    BY <2>1
  <2>3. inode'[i] = inode[i]
    BY <2>2
  <2>4. tree[inode[i].name] = i /\ inode[i].name \in Names
    BY <2>1, <2>3 DEF NamesOK, NamesReach, NodeInv
  <2>5. inode[i].name # n
    BY <2>2, <2>4
  <2> QED BY <1>0, <2>3, <2>4, <2>5
<1> QED BY <1>2, <1>3, <1>4 DEF NamesOK

(***************************************************************************)
(* inode_reserve gives a free name to an unused inode.                     *)
(***************************************************************************)
LEMMA NamesReserve ==
  ASSUME FileTypes, NamesOK, NEW n \in Names, NEW k \in Nodes, tree[n] = NONE,
         inode[k].type = "unused", tree' = [tree EXCEPT ![n] = k], inode' = Reserved(k, n)
  PROVE  NamesOK'
<1>0. /\ \A m \in Names : tree[m] \in Nodes \cup {NONE}
      /\ tree'[n] = k /\ \A m \in Names \ {n} : tree'[m] = tree[m]
      /\ inode \in [Nodes -> Inodes]
  BY DEF FileTypes
<1>1. /\ \A i \in Nodes \ {k} : inode'[i] = inode[i]
      /\ Fields(inode'[k], "plain", n, inode[k].i_crefs, inode[k].deleted, inode[k].msgq,
                inode[k].lost)
  <2>1. /\ OnlyAt(Reserved(k, n), k)
        /\ Fields(Reserved(k, n)[k], "plain", n, inode[k].i_crefs, inode[k].deleted,
                  inode[k].msgq, inode[k].lost)
    BY <1>0, NodeValues
  <2> QED BY <2>1 DEF OnlyAt
<1>2. inode[k].lost = 0 /\ ~inode[k].deleted
  BY DEF NamesOK, NodeInv
<1>3. NodeInv'
  BY <1>1, <1>2 DEF NamesOK, NodeInv, Fields
<1>4. TreeInv'
  <2>1. SUFFICES ASSUME NEW m \in Names, tree'[m] # NONE
                 PROVE  /\ inode'[tree'[m]].name = m /\ ~inode'[tree'[m]].deleted
                        /\ inode'[tree'[m]].type \in {"plain", "mqueue"}
                        /\ inode'[tree'[m]].type = "mqueue" => inode'[tree'[m]].msgq
    BY DEF TreeInv
  <2>2. CASE m = n
    BY <1>0, <1>1, <1>2, <2>2 DEF Fields
  <2>3. CASE m # n
    <3>1. tree'[m] = tree[m] /\ tree[m] \in Nodes
      BY <1>0, <2>1, <2>3
    <3>2. inode[tree[m]].type \in {"plain", "mqueue"}
      BY <2>1, <3>1 DEF NamesOK, TreeInv
    <3>3. inode'[tree[m]] = inode[tree[m]]
      BY <1>1, <3>1, <3>2
    <3> QED BY <2>1, <3>1, <3>3 DEF NamesOK, TreeInv
  <2> QED BY <2>2, <2>3
<1>5. NamesReach'
  <2>1. SUFFICES ASSUME NEW i \in Nodes, i # k, inode[i].type \in {"plain", "mqueue"},
                        ~inode[i].deleted
                 PROVE  tree'[inode[i].name] = i
    BY <1>0, <1>1 DEF NamesReach, Fields
  <2>2. tree[inode[i].name] = i /\ inode[i].name \in Names
    BY <2>1 DEF NamesOK, NamesReach, NodeInv
  <2>3. inode[i].name # n
    BY <2>2, FilesAssumption
  <2> QED BY <1>0, <2>2, <2>3
<1> QED BY <1>3, <1>4, <1>5 DEF NamesOK

(***************************************************************************)
(* A reserved inode gets its queue.                                        *)
(***************************************************************************)
LEMMA NamesEquip ==
  ASSUME FileTypes, NamesOK, NEW k \in Nodes, inode[k].type = "plain",
         UNCHANGED tree, inode' = Equipped(k)
  PROVE  NamesOK'
<1>0. \A m \in Names : tree[m] \in Nodes \cup {NONE}
  BY DEF FileTypes
<1>1. /\ \A i \in Nodes \ {k} : inode'[i] = inode[i]
      /\ Fields(inode'[k], "mqueue", inode[k].name, 1, inode[k].deleted, TRUE, inode[k].lost)
  BY NodeValues, ZenonT(60) DEF OnlyAt, FileTypes
<1>2. NodeInv'
  BY <1>1 DEF NamesOK, NodeInv, Fields
<1>3. TreeInv'
  <2>1. SUFFICES ASSUME NEW m \in Names, tree[m] # NONE
                 PROVE  /\ inode'[tree[m]].name = m /\ ~inode'[tree[m]].deleted
                        /\ inode'[tree[m]].type \in {"plain", "mqueue"}
                        /\ inode'[tree[m]].type = "mqueue" => inode'[tree[m]].msgq
    BY DEF TreeInv
  <2>2. tree[m] \in Nodes
    BY <1>0, <2>1
  <2> QED BY <1>1, <2>1, <2>2 DEF NamesOK, TreeInv, Fields
<1>4. NamesReach'
  BY <1>1 DEF NamesOK, NamesReach, Fields
<1> QED BY <1>2, <1>3, <1>4 DEF NamesOK

-----------------------------------------------------------------------------
(***************************************************************************)
(* What is known in a step of task t.                                      *)
(***************************************************************************)
Moving(t) ==
    /\ FileTypes /\ CallInv /\ RefInv /\ CanRun(t)
    /\ FileTypes' /\ CallInv' /\ OnlyMoves(t)

(***************************************************************************)
(* What is to be shown of it.                                              *)
(***************************************************************************)
Kept(t) == RefInv' /\ ChangeOK(t)

(***************************************************************************)
(* The parts that make up Kept(t).                                         *)
(***************************************************************************)
LEMMA Combine ==
  ASSUME NEW t \in Tasks, Moving(t), place'[t] # "new", ChangeOK(t), PlaceOK(t)',
         FdsOK(t)', NamesOK', RefsCounted'
  PROVE  Kept(t)
BY NewKept, OthersKept DEF Moving, RefInv, Kept

(***************************************************************************)
(* The number of references that the call of task t accounts for.          *)
(***************************************************************************)
Own(t, i) == IF place[t] \in RefPlaces /\ call[t].node = i THEN 1 ELSE 0

(***************************************************************************)
(* RefsCounted when the call of task t and the counts of inodes change.    *)
(***************************************************************************)
LEMMA RefsCall ==
  ASSUME NEW t \in Tasks, Moving(t), fds' = fds,
         \A i \in Nodes : inode'[i].type = "mqueue" =>
           /\ inode[i].type = "mqueue"
           /\ inode'[i].i_crefs + inode[i].lost + Own(t, i)
                = inode[i].i_crefs + inode'[i].lost + Own(t, i)'
  PROVE  RefsCounted'
<1>1. Refs(fds, place, call, inode)
  BY RefsForm DEF Moving, RefInv
<1>2. SUFFICES ASSUME NEW i \in Nodes, inode'[i].type = "mqueue"
               PROVE  inode'[i].i_crefs = Count(fds', place', call', i) + inode'[i].lost
  BY RefsForm DEF Refs
<1>3. /\ inode[i].i_crefs \in Nat /\ inode[i].lost \in Nat
      /\ inode'[i].i_crefs \in Nat /\ inode'[i].lost \in Nat
  BY DEF Moving, FileTypes, Inodes
<1>4. /\ Count(fds, place, call, i) \in Nat /\ Count(fds', place', call', i) \in Nat
      /\ Own(t, i) \in Nat /\ Own(t, i)' \in Nat
  BY HoldersAre DEF Own
<1>5. Count(fds, place', call', i) + Own(t, i) = Count(fds, place, call, i) + Own(t, i)'
  <2>1. \A u \in Tasks \ {t} : place'[u] = place[u] /\ call'[u] = call[u]
    BY DEF Moving, OnlyMoves
  <2>2. Count(fds, place', call', i)
            + (IF place[t] \in RefPlaces /\ call[t].node = i THEN 1 ELSE 0)
          = Count(fds, place, call, i)
            + (IF place'[t] \in RefPlaces /\ call'[t].node = i THEN 1 ELSE 0)
    BY <2>1, CountCall
  <2> QED BY <2>2 DEF Own
<1>6. inode[i].i_crefs = Count(fds, place, call, i) + inode[i].lost
  BY <1>1, <1>2 DEF Refs
<1>7. /\ inode'[i].i_crefs + inode[i].lost + Own(t, i)
           = inode[i].i_crefs + inode'[i].lost + Own(t, i)'
      /\ Count(fds', place', call', i) + Own(t, i) = Count(fds, place, call, i) + Own(t, i)'
  BY <1>2, <1>5
<1> QED BY <1>3, <1>4, <1>6, <1>7

(***************************************************************************)
(* The descriptors of task t stay good while nothing happens to them.      *)
(***************************************************************************)
LEMMA FdsKept ==
  ASSUME NEW t \in Tasks, Moving(t), fds' = fds,
         place[t] # "c_release" \/ (place'[t] = place[t] /\ call'[t] = call[t]),
         \A i \in Nodes, d \in 1 .. NFILES : fds[t][d] = i /\ inode[i].type = "mqueue" =>
           inode'[i].type = "mqueue" /\ (inode[i].msgq => inode'[i].msgq)
  PROVE  FdsOK(t)'
<1>1. SUFFICES ASSUME NEW d \in 1 .. NFILES, fds[t][d] # NONE
               PROVE  /\ inode'[fds[t][d]].type = "mqueue"
                      /\ Closing(t, d)' \/ inode'[fds[t][d]].msgq
  BY DEF FdsOK
<1>2. fds[t][d] \in Nodes
  <2>1. fds[t] \in [1 .. NFILES -> Nodes \cup {NONE}]
    BY DEF Moving, FileTypes
  <2> QED BY <1>1, <2>1
<1>3. inode[fds[t][d]].type = "mqueue" /\ (Closing(t, d) \/ inode[fds[t][d]].msgq)
  BY <1>1 DEF Moving, RefInv, HoldersOK, FdsOK
<1>4. Closing(t, d) => Closing(t, d)'
  BY DEF Closing
<1> QED BY <1>2, <1>3, <1>4

(***************************************************************************)
(* A step that leaves inodes, names and descriptors alone.                 *)
(***************************************************************************)
LEMMA QuietStep ==
  ASSUME NEW t \in Tasks, Moving(t), UNCHANGED <<tree, inode, fds>>, place'[t] # "new",
         place[t] # "c_release" \/ (place'[t] = place[t] /\ call'[t] = call[t]),
         \A i \in Nodes : Own(t, i)' = Own(t, i), PlaceOK(t)'
  PROVE  Kept(t)
<1>1. ChangeOK(t)
  BY DEF ChangeOK
<1>2. FdsOK(t)'
  BY FdsKept
<1>3. RefsCounted'
  <2>1. \A i \in Nodes : inode[i].i_crefs \in Nat /\ inode[i].lost \in Nat /\ Own(t, i) \in Nat
    BY DEF Moving, FileTypes, Inodes, Own
  <2> QED BY <2>1, RefsCall
<1>4. NamesOK'
  BY NamesQuiet DEF Moving, RefInv
<1> QED BY <1>1, <1>2, <1>3, <1>4, Combine

(***************************************************************************)
(* A task that refers to a queue has a reference.                          *)
(***************************************************************************)
LEMMA HasReference ==
  ASSUME FileTypes, RefsCounted, NEW t \in Tasks, NEW i \in Nodes,
         inode[i].type = "mqueue", Refers(t, i)
  PROVE  inode[i].i_crefs \in Nat /\ inode[i].i_crefs >= 1
<1>1. inode[i].i_crefs \in Nat
  BY DEF FileTypes, Inodes
<1>2. inode[i].i_crefs # 0
  BY Unheld
<1> QED BY <1>1, <1>2

-----------------------------------------------------------------------------
(***************************************************************************)
(* A call that refers to no inode goes on without one.                     *)
(***************************************************************************)
LEMMA LeaveQuiet ==
  ASSUME NEW t \in Tasks, Moving(t), UNCHANGED <<tree, inode, fds>>,
         place[t] \notin RefPlaces \cup {"c_release"},
         place'[t] \in {"out", "find", "reserve", "u_find", "c_check"}
  PROVE  Kept(t)
<1>1. PlaceOK(t)'
  BY DEF PlaceOK, RefPlaces
<1>2. \A i \in Nodes : Own(t, i)' = Own(t, i)
  BY DEF Own, RefPlaces
<1> QED BY <1>1, <1>2, QuietStep

(***************************************************************************)
(* Taking the inode semaphore, or resuming with it, moves nobody.          *)
(***************************************************************************)
LEMMA SemQuiet ==
  ASSUME NEW t \in Tasks, Moving(t), SemTake(t) \/ SemResume(t)
  PROVE  Kept(t)
<1>1. /\ UNCHANGED <<tree, inode, fds, place, call>>
      /\ place[t] = "new" => locked' = t
  BY DEF SemTake, SemResume, nodeVars, SemPlaces, LockedPlaces
<1>2. ChangeOK(t)
  BY <1>1 DEF ChangeOK
<1>3. HoldersOK' /\ NamesOK' /\ RefsCounted'
  BY <1>1 DEF Moving, RefInv, HoldersOK, PlaceOK, FdsOK, Closing, NamesOK, NodeInv, TreeInv,
     NamesReach, RefsCounted, HolderSet
<1>4. NewInv'
  BY <1>1, FilesAssumption DEF Moving, RefInv, NewInv, HolderSet, CanRun
<1> QED BY <1>2, <1>3, <1>4 DEF Kept, RefInv

(***************************************************************************)
(* A step that changes inode k, and the references of the call to it.      *)
(***************************************************************************)
LEMMA NodeStep ==
  ASSUME NEW t \in Tasks, Moving(t), NEW k \in Nodes, place'[t] # "new",
         UNCHANGED <<tree, fds>>,
         \A i \in Nodes \ {k} : inode'[i] = inode[i] /\ Own(t, i)' = Own(t, i),
         inode[k].type # "unused", inode'[k].name = inode[k].name,
         inode'[k].deleted <=> inode[k].deleted,
         \/ inode'[k].type = inode[k].type
         \/ inode'[k].type = "freed" /\ inode[k].deleted,
         inode[k].type = "plain" => inode'[k].lost = inode[k].lost,
         inode[k].type # "mqueue" /\ inode[k].msgq => inode'[k].msgq,
         inode'[k].type = "mqueue" =>
           inode'[k].i_crefs + inode[k].lost + Own(t, k)
             = inode[k].i_crefs + inode'[k].lost + Own(t, k)',
         inode[k].type = "mqueue"
             /\ ~(inode'[k].type = "mqueue" /\ (inode[k].msgq => inode'[k].msgq)) =>
           /\ \A u \in Tasks \ {t} : ~Refers(u, k)
           /\ inode[k].deleted \/ \A n \in Names : tree[n] # k,
         PlaceOK(t)', FdsOK(t)'
  PROVE  Kept(t)
<1>1. ChangeOK(t)
  BY DEF ChangeOK
<1>2. RefsCounted'
  <2>1. \A i \in Nodes : inode[i].i_crefs \in Nat /\ inode[i].lost \in Nat /\ Own(t, i) \in Nat
    BY DEF Moving, FileTypes, Inodes, Own
  <2>2. \A i \in Nodes : inode'[i].type = "mqueue" =>
           /\ inode[i].type = "mqueue"
           /\ inode'[i].i_crefs + inode[i].lost + Own(t, i)
                = inode[i].i_crefs + inode'[i].lost + Own(t, i)'
    BY <2>1
  <2> QED BY <2>2, RefsCall
<1>3. NamesOK'
  <2>1. FileTypes /\ NamesOK
    BY DEF Moving, RefInv
  <2>2. \A i \in Nodes :
           /\ inode'[i].name = inode[i].name /\ (inode'[i].deleted <=> inode[i].deleted)
           /\ \/ inode'[i].type = inode[i].type
              \/ inode'[i].type = "freed" /\ inode[i].deleted
           /\ inode[i].type \in {"unused", "plain"} => inode'[i].lost = inode[i].lost
    OBVIOUS
  <2>3. ASSUME NEW i \in Nodes, inode[i].msgq
        PROVE  inode'[i].msgq \/ inode[i].deleted \/ \A n \in Names : tree[n] # i
    BY <2>3
  <2> QED BY <2>1, <2>2, <2>3, NamesQuiet
<1> QED BY <1>1, <1>2, <1>3, Combine

-----------------------------------------------------------------------------
(***************************************************************************)
(* inode_find found an inode.                                              *)
(***************************************************************************)
LEMMA FoundStep ==
  ASSUME NEW t \in Tasks, Moving(t), NEW n \in Names, NEW k \in Nodes, k = tree[n],
         inode' = AddRef(k), UNCHANGED <<tree, fds>>,
         place[t] \notin RefPlaces \cup {"c_release"},
         place'[t] \in {"drop", "alloc", "u_remove"}, call'[t].node = k,
         place'[t] # "drop" => inode[k].type = "mqueue",
         place'[t] = "u_remove" => call'[t].name = n
  PROVE  Kept(t)
<1>1. /\ \A i \in Nodes \ {k} : inode'[i] = inode[i]
      /\ Fields(inode'[k], inode[k].type, inode[k].name, inode[k].i_crefs + 1,
                inode[k].deleted, inode[k].msgq, inode[k].lost)
  <2>1. inode \in [Nodes -> Inodes]
    BY DEF Moving, FileTypes
  <2>2. /\ OnlyAt(AddRef(k), k)
        /\ Fields(AddRef(k)[k], inode[k].type, inode[k].name, inode[k].i_crefs + 1,
                  inode[k].deleted, inode[k].msgq, inode[k].lost)
    BY <2>1, NodeValues
  <2> QED BY <2>2 DEF OnlyAt
<1>2. /\ inode[k].type \in {"plain", "mqueue"} /\ inode[k].name = n
      /\ inode[k].type = "mqueue" => inode[k].msgq
  BY FilesAssumption DEF Moving, RefInv, NamesOK, TreeInv
<1>3. /\ \A i \in Nodes \ {k} : Own(t, i)' = Own(t, i)
      /\ Own(t, k) = 0 /\ Own(t, k)' = 1
  BY DEF Own, RefPlaces
<1>4. PlaceOK(t)'
  BY <1>1, <1>2 DEF PlaceOK, Fields, RefPlaces
<1>5. FdsOK(t)'
  BY <1>1, FdsKept DEF Fields
<1>6. inode[k].i_crefs \in Nat /\ inode[k].lost \in Nat
  BY DEF Moving, FileTypes, Inodes
<1>7. /\ inode[k].type # "unused" /\ inode'[k].name = inode[k].name
      /\ (inode'[k].deleted <=> inode[k].deleted) /\ (inode'[k].msgq <=> inode[k].msgq)
      /\ inode'[k].type = inode[k].type /\ inode'[k].lost = inode[k].lost
      /\ inode'[k].i_crefs + inode[k].lost + Own(t, k)
           = inode[k].i_crefs + inode'[k].lost + Own(t, k)'
  BY <1>1, <1>2, <1>3, <1>6 DEF Fields
<1>8. place'[t] # "new"
  BY SMTT(30)
<1> QED BY <1>1, <1>3, <1>4, <1>5, <1>7, <1>8, NodeStep

(***************************************************************************)
(* inode_release of the inode of a call that returns or goes on to unlink. *)
(***************************************************************************)
LEMMA ReleaseStep ==
  ASSUME NEW t \in Tasks, Moving(t), NEW k \in Nodes, k = call[t].node,
         inode' = inode_release(k), UNCHANGED <<tree, fds>>,
         place[t] \in {"drop", "undo", "e_release"}, place'[t] \in {"out", "u_find"}
  PROVE  Kept(t)
<1>0. inode[k].i_crefs \in Nat /\ inode[k].lost \in Nat /\ inode \in [Nodes -> Inodes]
  BY DEF Moving, FileTypes, Inodes
<1>1. /\ \A i \in Nodes \ {k} : inode'[i] = inode[i]
      /\ Fields(inode'[k],
                IF inode[k].i_crefs <= 1 /\ inode[k].deleted THEN "freed" ELSE inode[k].type,
                inode[k].name, IF inode[k].i_crefs > 0 THEN inode[k].i_crefs - 1 ELSE 0,
                inode[k].deleted, inode[k].msgq, inode[k].lost)
  <2>1. /\ OnlyAt(inode_release(k), k)
        /\ Fields(inode_release(k)[k],
                  IF inode[k].i_crefs <= 1 /\ inode[k].deleted THEN "freed" ELSE inode[k].type,
                  inode[k].name, IF inode[k].i_crefs > 0 THEN inode[k].i_crefs - 1 ELSE 0,
                  inode[k].deleted, inode[k].msgq, inode[k].lost)
    BY <1>0, NodeValues
  <2> QED BY <2>1 DEF OnlyAt
<1>2. /\ place[t] = "undo" => inode[k].type \in {"plain", "freed"}
      /\ inode[k].type # "unused"
  <2>1. PlaceOK(t)
    BY DEF Moving, RefInv, HoldersOK
  <2> QED BY <2>1 DEF PlaceOK, RefPlaces
<1>3. /\ \A i \in Nodes \ {k} : Own(t, i)' = Own(t, i)
      /\ Own(t, k)' = 0 /\ (place[t] # "undo" => Own(t, k) = 1)
  BY DEF Own, RefPlaces
<1>4. inode[k].type = "mqueue" => place[t] \in RefPlaces /\ Refers(t, k)
  BY <1>2 DEF Refers, RefPlaces
<1>5. inode[k].type = "mqueue" => inode[k].i_crefs >= 1
  BY <1>4, HasReference DEF Moving, RefInv
<1>6. inode[k].type = "mqueue" /\ inode[k].i_crefs <= 1 =>
         (\A u \in Tasks \ {t} : ~Refers(u, k)) /\ (\A d \in 1 .. NFILES : fds[t][d] # k)
  BY <1>4, Alone DEF Moving, RefInv
<1>7. PlaceOK(t)'
  BY DEF PlaceOK, RefPlaces
<1>8. FdsOK(t)'
  <2>1. \A i \in Nodes, d \in 1 .. NFILES : fds[t][d] = i /\ inode[i].type = "mqueue" =>
           inode'[i].type = "mqueue" /\ (inode[i].msgq => inode'[i].msgq)
    BY <1>1, <1>6 DEF Fields
  <2> QED BY <2>1, FdsKept
<1>9. /\ inode'[k].name = inode[k].name
      /\ (inode'[k].deleted <=> inode[k].deleted) /\ (inode'[k].msgq <=> inode[k].msgq)
      /\ inode'[k].lost = inode[k].lost
      /\ \/ inode'[k].type = inode[k].type
         \/ inode'[k].type = "freed" /\ inode[k].deleted /\ inode[k].i_crefs <= 1
  BY <1>1 DEF Fields
<1>10. inode'[k].type = "mqueue" =>
         inode'[k].i_crefs + inode[k].lost + Own(t, k)
           = inode[k].i_crefs + inode'[k].lost + Own(t, k)'
  <2>1. inode'[k].type = "mqueue" => inode[k].type = "mqueue" /\ place[t] # "undo"
    BY <1>2, <1>9
  <2>2. inode'[k].i_crefs = IF inode[k].i_crefs > 0 THEN inode[k].i_crefs - 1 ELSE 0
    BY <1>1 DEF Fields
  <2> QED BY <1>0, <1>3, <1>5, <1>9, <2>1, <2>2
<1>11. place'[t] # "new"
  OBVIOUS
<1>12. inode[k].type = "mqueue"
           /\ ~(inode'[k].type = "mqueue" /\ (inode[k].msgq => inode'[k].msgq)) =>
         (\A u \in Tasks \ {t} : ~Refers(u, k)) /\ inode[k].deleted
  BY <1>6, <1>9
<1> QED BY <1>1, <1>2, <1>3, <1>7, <1>8, <1>9, <1>10, <1>11, <1>12, NodeStep, ZenonT(60)

(***************************************************************************)
(* nxmq_file_close of the inode of an mq_open that got no descriptor.      *)
(***************************************************************************)
LEMMA ErrorCloseStep ==
  ASSUME NEW t \in Tasks, Moving(t), ErrorClose(t)
  PROVE  Kept(t)
<1>k. PICK k \in Nodes : k = call[t].node
  BY DEF ErrorClose, Moving, CallInv, NodePlaces, RefPlaces
<1> DEFINE v == inode[k]
<1>0. /\ place[t] = "e_check" /\ place'[t] = "e_release" /\ call' = call
      /\ UNCHANGED <<tree, fds>> /\ inode' = nxmq_file_close(k) /\ k \in Nodes
      /\ inode \in [Nodes -> Inodes] /\ v.i_crefs \in Nat /\ v.lost \in Nat
  <2>1. inode \in [Nodes -> Inodes] /\ place \in [Tasks -> Places]
    BY DEF Moving, FileTypes
  <2> QED BY <1>k, <2>1 DEF ErrorClose, Goto, Inodes
<1>1. /\ \A i \in Nodes \ {k} : inode'[i] = inode[i]
      /\ Fields(inode'[k], v.type, v.name, v.i_crefs, v.deleted,
                v.msgq /\ ~(v.i_crefs <= 1 /\ v.deleted), v.lost)
  <2>1. /\ OnlyAt(nxmq_file_close(k), k)
        /\ Fields(nxmq_file_close(k)[k], v.type, v.name, v.i_crefs, v.deleted,
                  v.msgq /\ ~(v.i_crefs <= 1 /\ v.deleted), v.lost)
    BY <1>0, NodeValues
  <2> QED BY <1>0, <2>1 DEF OnlyAt
<1>2. v.type = "mqueue"
  BY <1>0, <1>k DEF Moving, RefInv, HoldersOK, PlaceOK, RefPlaces
<1>3. v.i_crefs <= 1 =>
        (\A u \in Tasks \ {t} : ~Refers(u, k)) /\ (\A d \in 1 .. NFILES : fds[t][d] # k)
  <2>1. place[t] \in RefPlaces
    BY <1>0 DEF RefPlaces
  <2> QED BY <1>0, <1>k, <1>2, <2>1, Alone DEF Moving, RefInv
<1>4. \A i \in Nodes : Own(t, i)' = Own(t, i) /\ Own(t, i) \in Nat
  BY <1>0, <1>k DEF Own, RefPlaces
<1> HIDE DEF v
<1>5. /\ inode'[k].name = v.name /\ (inode'[k].deleted <=> v.deleted) /\ inode'[k].lost = v.lost
      /\ inode'[k].type = v.type /\ inode'[k].i_crefs = v.i_crefs
      /\ (v.msgq => inode'[k].msgq) \/ (v.i_crefs <= 1 /\ v.deleted)
  BY <1>1 DEF Fields
<1>6. PlaceOK(t)'
  BY <1>0, <1>k, <1>2, <1>5 DEF PlaceOK
<1>7. FdsOK(t)'
  <2>1. \A i \in Nodes, d \in 1 .. NFILES : fds[t][d] = i /\ inode[i].type = "mqueue" =>
           inode'[i].type = "mqueue" /\ (inode[i].msgq => inode'[i].msgq)
    BY <1>1, <1>3, <1>5 DEF v
  <2> QED BY <1>0, <2>1, FdsKept
<1>8. /\ v.type # "unused" /\ place'[t] # "new"
      /\ inode'[k].i_crefs + v.lost + Own(t, k) = v.i_crefs + inode'[k].lost + Own(t, k)'
      /\ ~(v.msgq => inode'[k].msgq) =>
           (\A u \in Tasks \ {t} : ~Refers(u, k)) /\ v.deleted
  <2>1. Own(t, k)' = Own(t, k) /\ Own(t, k) \in Nat
    BY <1>0, <1>4
  <2>2. inode'[k].i_crefs + v.lost + Own(t, k) = v.i_crefs + inode'[k].lost + Own(t, k)'
    BY <1>0, <1>5, <2>1
  <2> QED BY <1>0, <1>2, <1>3, <1>5, <2>2
<1> QED BY <1>0, <1>1, <1>2, <1>4, <1>5, <1>6, <1>7, <1>8, NodeStep DEF v

(***************************************************************************)
(* mq_inode_release: the reference of mq_unlink is lost.                   *)
(***************************************************************************)
LEMMA UnlinkFreeStep ==
  ASSUME NEW t \in Tasks, Moving(t), UnlinkFree(t)
  PROVE  Kept(t)
<1>k. PICK k \in Nodes : k = call[t].node
  BY DEF UnlinkFree, Moving, CallInv, NodePlaces, RefPlaces
<1> DEFINE v == inode[k]
<1>0. /\ place[t] = "u_free" /\ place'[t] = "out"
      /\ UNCHANGED <<tree, fds>> /\ inode' = mq_inode_release(inode, k) /\ k \in Nodes
      /\ inode \in [Nodes -> Inodes] /\ v.i_crefs \in Nat /\ v.lost \in Nat
  <2>1. inode \in [Nodes -> Inodes] /\ place \in [Tasks -> Places]
    BY DEF Moving, FileTypes
  <2> QED BY <1>k, <2>1 DEF UnlinkFree, Return, Goto, Inodes
<1>1. /\ \A i \in Nodes \ {k} : inode'[i] = inode[i]
      /\ Fields(inode'[k], v.type, v.name, v.i_crefs, v.deleted, v.msgq /\ v.i_crefs > 1,
                v.lost + 1)
  <2>1. /\ OnlyAt(mq_inode_release(inode, k), k)
        /\ Fields(mq_inode_release(inode, k)[k], v.type, v.name, v.i_crefs, v.deleted,
                  v.msgq /\ v.i_crefs > 1, v.lost + 1)
    BY <1>0, NodeValues
  <2> QED BY <1>0, <2>1 DEF OnlyAt
<1>2. v.type = "mqueue" /\ \A n \in Names : tree[n] # k
  BY <1>0, <1>k DEF Moving, RefInv, HoldersOK, PlaceOK, RefPlaces
<1>3. v.i_crefs <= 1 =>
        (\A u \in Tasks \ {t} : ~Refers(u, k)) /\ (\A d \in 1 .. NFILES : fds[t][d] # k)
  <2>1. place[t] \in RefPlaces
    BY <1>0 DEF RefPlaces
  <2> QED BY <1>0, <1>k, <1>2, <2>1, Alone DEF Moving, RefInv
<1>4. /\ \A i \in Nodes \ {k} : Own(t, i)' = Own(t, i)
      /\ Own(t, k) = 1 /\ Own(t, k)' = 0
  BY <1>0, <1>k DEF Own, RefPlaces
<1> HIDE DEF v
<1>5. /\ inode'[k].name = v.name /\ (inode'[k].deleted <=> v.deleted)
      /\ inode'[k].lost = v.lost + 1
      /\ inode'[k].type = v.type /\ inode'[k].i_crefs = v.i_crefs
      /\ (v.msgq => inode'[k].msgq) \/ v.i_crefs <= 1
  BY <1>0, <1>1 DEF Fields
<1>6. PlaceOK(t)'
  BY <1>0 DEF PlaceOK, RefPlaces
<1>7. FdsOK(t)'
  <2>1. \A i \in Nodes, d \in 1 .. NFILES : fds[t][d] = i /\ inode[i].type = "mqueue" =>
           inode'[i].type = "mqueue" /\ (inode[i].msgq => inode'[i].msgq)
    BY <1>1, <1>3, <1>5 DEF v
  <2> QED BY <1>0, <2>1, FdsKept
<1>8. /\ v.type # "unused" /\ place'[t] # "new"
      /\ inode'[k].i_crefs + v.lost + Own(t, k) = v.i_crefs + inode'[k].lost + Own(t, k)'
      /\ ~(v.msgq => inode'[k].msgq) =>
           (\A u \in Tasks \ {t} : ~Refers(u, k)) /\ \A n \in Names : tree[n] # k
  BY <1>0, <1>2, <1>3, <1>4, <1>5
<1>9. /\ \A i \in Nodes \ {k} : inode'[i] = inode[i] /\ Own(t, i)' = Own(t, i)
      /\ (inode'[k].deleted <=> inode[k].deleted) /\ inode'[k].type = inode[k].type
      /\ inode[k].type = "mqueue" /\ inode'[k].name = inode[k].name
      /\ inode'[k].i_crefs + inode[k].lost + Own(t, k)
           = inode[k].i_crefs + inode'[k].lost + Own(t, k)'
      /\ ~(inode[k].msgq => inode'[k].msgq) =>
           (\A u \in Tasks \ {t} : ~Refers(u, k)) /\ \A n \in Names : tree[n] # k
  BY <1>1, <1>2, <1>4, <1>5, <1>8 DEF v
<1> QED BY <1>0, <1>6, <1>7, <1>8, <1>9, NodeStep

-----------------------------------------------------------------------------
(***************************************************************************)
(* mq_close: nxmq_file_close.  The queue is freed with its last reference. *)
(***************************************************************************)
LEMMA CloseCheckStep ==
  ASSUME NEW t \in Tasks, Moving(t), CloseCheck(t)
  PROVE  Kept(t)
<1>k. PICK k \in Nodes : k = call[t].node
  BY DEF CloseCheck, Moving, CallInv, NodePlaces
<1>d. PICK d \in 1 .. NFILES : d = call[t].fd /\ fds[t][d] = k
  BY <1>k DEF CloseCheck, Moving, CallInv
<1> DEFINE v == inode[k]
<1>0. /\ place[t] = "c_check" /\ place'[t] = "c_release" /\ call' = call
      /\ UNCHANGED <<tree, fds>> /\ inode' = nxmq_file_close(k)
      /\ inode \in [Nodes -> Inodes] /\ v.i_crefs \in Nat /\ v.lost \in Nat
      /\ fds[t] \in [1 .. NFILES -> Nodes \cup {NONE}] /\ NONE \notin Nodes
  <2>1. /\ inode \in [Nodes -> Inodes] /\ place \in [Tasks -> Places]
        /\ fds[t] \in [1 .. NFILES -> Nodes \cup {NONE}]
    BY DEF Moving, FileTypes
  <2> QED BY <1>k, <2>1, FilesAssumption DEF CloseCheck, Goto, Inodes
<1>1. /\ \A i \in Nodes \ {k} : inode'[i] = inode[i]
      /\ Fields(inode'[k], v.type, v.name, v.i_crefs, v.deleted,
                v.msgq /\ ~(v.i_crefs <= 1 /\ v.deleted), v.lost)
  <2>1. /\ OnlyAt(nxmq_file_close(k), k)
        /\ Fields(nxmq_file_close(k)[k], v.type, v.name, v.i_crefs, v.deleted,
                  v.msgq /\ ~(v.i_crefs <= 1 /\ v.deleted), v.lost)
    BY <1>0, NodeValues
  <2> QED BY <1>0, <2>1 DEF OnlyAt
<1>2. \A e \in 1 .. NFILES : fds[t][e] # NONE =>
        inode[fds[t][e]].type = "mqueue" /\ inode[fds[t][e]].msgq
  BY <1>0 DEF Moving, RefInv, HoldersOK, FdsOK, Closing
<1>3. v.type = "mqueue"
  BY <1>0, <1>d, <1>2
<1>4. v.i_crefs <= 1 =>
        (\A u \in Tasks \ {t} : ~Refers(u, k)) /\ (\A e \in 1 .. NFILES \ {d} : fds[t][e] # k)
  BY <1>d, <1>3, Alone DEF Moving, RefInv
<1>5. \A i \in Nodes : Own(t, i)' = Own(t, i) /\ Own(t, i) \in Nat
  BY <1>0 DEF Own, RefPlaces
<1> HIDE DEF v
<1>6. /\ inode'[k].name = v.name /\ (inode'[k].deleted <=> v.deleted) /\ inode'[k].lost = v.lost
      /\ inode'[k].type = v.type /\ inode'[k].i_crefs = v.i_crefs
      /\ (v.msgq => inode'[k].msgq) \/ (v.i_crefs <= 1 /\ v.deleted)
  BY <1>1 DEF Fields
<1>7. PlaceOK(t)'
  BY <1>0 DEF PlaceOK, RefPlaces
<1>8. FdsOK(t)'
  <2>1. SUFFICES ASSUME NEW e \in 1 .. NFILES, fds[t][e] # NONE
                 PROVE  /\ inode'[fds[t][e]].type = "mqueue"
                        /\ Closing(t, e)' \/ inode'[fds[t][e]].msgq
    BY <1>0 DEF FdsOK
  <2>2. fds[t][e] \in Nodes
    BY <1>0, <2>1
  <2>3. inode'[fds[t][e]].type = "mqueue"
    BY <1>1, <1>2, <1>6, <2>1, <2>2 DEF v
  <2>4. CASE e = d
    BY <1>0, <1>d, <2>3, <2>4 DEF Closing
  <2>5. CASE e # d
    BY <1>1, <1>2, <1>4, <1>6, <2>1, <2>2, <2>3, <2>5 DEF v
  <2> QED BY <2>4, <2>5
<1>9. /\ v.type # "unused" /\ place'[t] # "new"
      /\ inode'[k].i_crefs + v.lost + Own(t, k) = v.i_crefs + inode'[k].lost + Own(t, k)'
      /\ ~(v.msgq => inode'[k].msgq) => (\A u \in Tasks \ {t} : ~Refers(u, k)) /\ v.deleted
  BY <1>0, <1>3, <1>4, <1>5, <1>6
<1> QED BY <1>0, <1>1, <1>3, <1>5, <1>6, <1>7, <1>8, <1>9, NodeStep DEF v

(***************************************************************************)
(* RefsCounted when descriptor d of task t changes too.                    *)
(***************************************************************************)
OwnFd(t, d, i) == IF fds[t][d] = i THEN 1 ELSE 0

(***************************************************************************)
(* RefsCounted when the call and a descriptor of task t change.            *)
(***************************************************************************)
LEMMA RefsFd ==
  ASSUME NEW t \in Tasks, Moving(t), NEW d \in 1 .. NFILES,
         \A e \in 1 .. NFILES \ {d} : fds'[t][e] = fds[t][e],
         \A i \in Nodes : inode'[i].type = "mqueue" =>
           /\ inode[i].type = "mqueue"
           /\ inode'[i].i_crefs + inode[i].lost + Own(t, i) + OwnFd(t, d, i)
                = inode[i].i_crefs + inode'[i].lost + Own(t, i)' + OwnFd(t, d, i)'
  PROVE  RefsCounted'
<1>1. Refs(fds, place, call, inode)
  BY RefsForm DEF Moving, RefInv
<1>2. SUFFICES ASSUME NEW i \in Nodes, inode'[i].type = "mqueue"
               PROVE  inode'[i].i_crefs = Count(fds', place', call', i) + inode'[i].lost
  BY RefsForm DEF Refs
<1>3. /\ inode[i].i_crefs \in Nat /\ inode[i].lost \in Nat
      /\ inode'[i].i_crefs \in Nat /\ inode'[i].lost \in Nat
  BY DEF Moving, FileTypes, Inodes
<1>4. /\ Count(fds, place, call, i) \in Nat /\ Count(fds', place', call', i) \in Nat
      /\ Count(fds', place, call, i) \in Nat
      /\ Own(t, i) \in Nat /\ Own(t, i)' \in Nat
      /\ OwnFd(t, d, i) \in Nat /\ OwnFd(t, d, i)' \in Nat
  BY HoldersAre DEF Own, OwnFd
<1>5. Count(fds', place', call', i) + Own(t, i) = Count(fds', place, call, i) + Own(t, i)'
  <2>1. \A u \in Tasks \ {t} : place'[u] = place[u] /\ call'[u] = call[u]
    BY DEF Moving, OnlyMoves
  <2>2. Count(fds', place', call', i)
            + (IF place[t] \in RefPlaces /\ call[t].node = i THEN 1 ELSE 0)
          = Count(fds', place, call, i)
            + (IF place'[t] \in RefPlaces /\ call'[t].node = i THEN 1 ELSE 0)
    BY <2>1, CountCall
  <2> QED BY <2>2 DEF Own
<1>6. Count(fds', place, call, i) + OwnFd(t, d, i) = Count(fds, place, call, i) + OwnFd(t, d, i)'
  <2>1. \A u \in Tasks, e \in 1 .. NFILES : <<u, e>> # <<t, d>> => fds'[u][e] = fds[u][e]
    BY DEF Moving, OnlyMoves
  <2>2. Count(fds', place, call, i) + (IF fds[t][d] = i THEN 1 ELSE 0)
          = Count(fds, place, call, i) + (IF fds'[t][d] = i THEN 1 ELSE 0)
    BY <2>1, CountFd
  <2> QED BY <2>2 DEF OwnFd
<1>7. inode[i].i_crefs = Count(fds, place, call, i) + inode[i].lost
  BY <1>1, <1>2 DEF Refs
<1>8. inode'[i].i_crefs + inode[i].lost + Own(t, i) + OwnFd(t, d, i)
        = inode[i].i_crefs + inode'[i].lost + Own(t, i)' + OwnFd(t, d, i)'
  BY <1>2
<1> QED BY <1>3, <1>4, <1>5, <1>6, <1>7, <1>8

(***************************************************************************)
(* mq_close: inode_release, and the descriptor is free again.              *)
(***************************************************************************)
LEMMA CloseReleaseStep ==
  ASSUME NEW t \in Tasks, Moving(t), CloseRelease(t)
  PROVE  Kept(t)
<1>k. PICK k \in Nodes : k = call[t].node
  BY DEF CloseRelease, Inside, Moving, CallInv, NodePlaces
<1>d. PICK d \in 1 .. NFILES : d = call[t].fd /\ fds[t][d] = k
  BY <1>k DEF CloseRelease, Inside, Moving, CallInv
<1> DEFINE v == inode[k]
<1>0. /\ place[t] = "c_release" /\ place'[t] = "out"
      /\ UNCHANGED tree /\ inode' = inode_release(k)
      /\ inode \in [Nodes -> Inodes] /\ v.i_crefs \in Nat /\ v.lost \in Nat
      /\ fds[t] \in [1 .. NFILES -> Nodes \cup {NONE}] /\ NONE \notin Nodes
      /\ fds'[t][d] = NONE /\ \A e \in 1 .. NFILES \ {d} : fds'[t][e] = fds[t][e]
  <2>1. /\ inode \in [Nodes -> Inodes] /\ place \in [Tasks -> Places]
        /\ fds \in [Tasks -> [1 .. NFILES -> Nodes \cup {NONE}]]
    BY DEF Moving, FileTypes
  <2>2. fds'[t][d] = NONE /\ \A e \in 1 .. NFILES \ {d} : fds'[t][e] = fds[t][e]
    BY <1>d, <2>1 DEF CloseRelease
  <2>3. place[t] = "c_release" /\ place'[t] = "out"
    BY <2>1 DEF CloseRelease, Inside, Return, Goto
  <2>4. UNCHANGED tree /\ inode' = inode_release(k)
    BY <1>k DEF CloseRelease
  <2> QED BY <2>1, <2>2, <2>3, <2>4, FilesAssumption DEF Inodes
<1>1. /\ \A i \in Nodes \ {k} : inode'[i] = inode[i]
      /\ Fields(inode'[k], IF v.i_crefs <= 1 /\ v.deleted THEN "freed" ELSE v.type, v.name,
                IF v.i_crefs > 0 THEN v.i_crefs - 1 ELSE 0, v.deleted, v.msgq, v.lost)
  <2>1. /\ OnlyAt(inode_release(k), k)
        /\ Fields(inode_release(k)[k],
                  IF v.i_crefs <= 1 /\ v.deleted THEN "freed" ELSE v.type, v.name,
                  IF v.i_crefs > 0 THEN v.i_crefs - 1 ELSE 0, v.deleted, v.msgq, v.lost)
    BY <1>0, NodeValues
  <2> QED BY <1>0, <2>1 DEF OnlyAt
<1>2. \A e \in 1 .. NFILES : fds[t][e] # NONE =>
        /\ inode[fds[t][e]].type = "mqueue"
        /\ e # d => inode[fds[t][e]].msgq
  BY <1>0, <1>d DEF Moving, RefInv, HoldersOK, FdsOK, Closing
<1>3. v.type = "mqueue"
  BY <1>0, <1>d, <1>2
<1>4. v.i_crefs <= 1 =>
        (\A u \in Tasks \ {t} : ~Refers(u, k)) /\ (\A e \in 1 .. NFILES \ {d} : fds[t][e] # k)
  BY <1>d, <1>3, Alone DEF Moving, RefInv
<1>5. v.i_crefs >= 1
  <2>1. Refers(t, k)
    BY <1>d DEF Refers
  <2> QED BY <1>3, <2>1, HasReference DEF Moving, RefInv
<1> HIDE DEF v
<1>6. /\ inode'[k].name = v.name /\ (inode'[k].deleted <=> v.deleted) /\ inode'[k].lost = v.lost
      /\ (inode'[k].msgq <=> v.msgq) /\ inode'[k].i_crefs = v.i_crefs - 1
      /\ \/ inode'[k].type = "mqueue"
         \/ inode'[k].type = "freed" /\ v.i_crefs <= 1 /\ v.deleted
  BY <1>0, <1>1, <1>3, <1>5 DEF Fields
<1>7. PlaceOK(t)'
  BY <1>0 DEF PlaceOK, RefPlaces
<1>8. FdsOK(t)'
  <2>1. SUFFICES ASSUME NEW e \in 1 .. NFILES, e # d, fds[t][e] # NONE
                 PROVE  inode'[fds[t][e]].type = "mqueue" /\ inode'[fds[t][e]].msgq
    BY <1>0 DEF FdsOK
  <2>2. fds[t][e] \in Nodes
    BY <1>0, <2>1
  <2> QED BY <1>1, <1>2, <1>4, <1>6, <2>1, <2>2 DEF v
<1>9. ChangeOK(t)
  <2>1. \A i \in Nodes : /\ inode'[i].name = inode[i].name
                         /\ \/ inode'[i].type = inode[i].type
                            \/ /\ i = k /\ inode'[i].type = "freed"
                               /\ \A u \in Tasks \ {t} : ~Refers(u, k)
                         /\ inode[i].msgq => inode'[i].msgq
    BY <1>1, <1>3, <1>4, <1>6 DEF v
  <2>2. inode[k].type = "mqueue"
    BY <1>3 DEF v
  <2> QED BY <1>0, <2>1, <2>2 DEF ChangeOK
<1>10. NamesOK'
  <2>1. FileTypes /\ NamesOK
    BY DEF Moving, RefInv
  <2>2. \A i \in Nodes :
           /\ inode'[i].name = inode[i].name /\ (inode'[i].deleted <=> inode[i].deleted)
           /\ \/ inode'[i].type = inode[i].type
              \/ inode'[i].type = "freed" /\ inode[i].deleted
           /\ inode'[i].lost = inode[i].lost /\ (inode[i].msgq => inode'[i].msgq)
    BY <1>1, <1>3, <1>6 DEF v
  <2> QED BY <1>0, <2>1, <2>2, NamesQuiet
<1>11. RefsCounted'
  <2>1. \A i \in Nodes : Own(t, i) = 0 /\ Own(t, i)' = 0
    BY <1>0 DEF Own, RefPlaces
  <2>2. \A i \in Nodes : OwnFd(t, d, i) = (IF i = k THEN 1 ELSE 0) /\ OwnFd(t, d, i)' = 0
    BY <1>0, <1>d DEF OwnFd
  <2>3. ASSUME NEW i \in Nodes, inode'[i].type = "mqueue"
        PROVE  /\ inode[i].type = "mqueue"
               /\ inode'[i].i_crefs + inode[i].lost + Own(t, i) + OwnFd(t, d, i)
                    = inode[i].i_crefs + inode'[i].lost + Own(t, i)' + OwnFd(t, d, i)'
    <3>1. inode[i].i_crefs \in Nat /\ inode[i].lost \in Nat
      BY DEF Moving, FileTypes, Inodes
    <3>2. Own(t, i) = 0 /\ Own(t, i)' = 0 /\ OwnFd(t, d, i)' = 0
      BY <2>1, <2>2
    <3>3. CASE i = k
      <4>1. OwnFd(t, d, i) = 1
        BY <2>2, <3>3
      <4> QED BY <1>3, <1>6, <3>1, <3>2, <3>3, <4>1 DEF v
    <3>4. CASE i # k
      <4>1. OwnFd(t, d, i) = 0 /\ inode'[i] = inode[i]
        BY <1>1, <2>2, <3>4
      <4> QED BY <2>3, <3>1, <3>2, <4>1
    <3> QED BY <3>3, <3>4
  <2> QED BY <1>0, <2>3, RefsFd
<1> QED BY <1>0, <1>7, <1>8, <1>9, <1>10, <1>11, Combine

-----------------------------------------------------------------------------
(***************************************************************************)
(* files_allocate gives the reference of the call to a descriptor.         *)
(***************************************************************************)
LEMMA AllocateStep ==
  ASSUME NEW t \in Tasks, Moving(t), FilesAllocate(t)
  PROVE  Kept(t)
<1>k. PICK k \in Nodes : k = call[t].node
  BY DEF FilesAllocate, Moving, CallInv, NodePlaces, RefPlaces
<1>0. /\ place[t] = "alloc_in" /\ UNCHANGED <<tree, inode>>
      /\ inode[k].type = "mqueue" /\ inode[k].msgq /\ NONE \notin Nodes
      /\ place \in [Tasks -> Places] /\ fds \in [Tasks -> [1 .. NFILES -> Nodes \cup {NONE}]]
  BY <1>k, FilesAssumption DEF FilesAllocate, nodeVars, Moving, FileTypes, RefInv, HoldersOK,
     PlaceOK, RefPlaces
<1>1. CASE Goto(t, "e_check") /\ UNCHANGED <<fds, call>>
  <2>1. place'[t] = "e_check" /\ call' = call /\ fds' = fds
    BY <1>0, <1>1 DEF Goto
  <2>2. PlaceOK(t)'
    BY <1>0, <1>k, <2>1 DEF PlaceOK
  <2>3. \A i \in Nodes : Own(t, i)' = Own(t, i)
    BY <1>0, <2>1 DEF Own, RefPlaces
  <2> QED BY <1>0, <2>1, <2>2, <2>3, QuietStep
<1>2. ASSUME NEW d \in 1 .. NFILES, fds[t][d] = NONE,
             fds' = [fds EXCEPT ![t][d] = call[t].node], Return(t)
      PROVE  Kept(t)
  <2>1. /\ place'[t] = "out" /\ fds'[t][d] = k
        /\ \A e \in 1 .. NFILES \ {d} : fds'[t][e] = fds[t][e]
    BY <1>0, <1>2, <1>k DEF Return, Goto
  <2>2. PlaceOK(t)'
    BY <2>1 DEF PlaceOK, RefPlaces
  <2>3. FdsOK(t)'
    <3>1. \A e \in 1 .. NFILES : fds[t][e] # NONE =>
            inode[fds[t][e]].type = "mqueue" /\ inode[fds[t][e]].msgq
      BY <1>0 DEF Moving, RefInv, HoldersOK, FdsOK, Closing
    <3>2. \A e \in 1 .. NFILES : fds'[t][e] # NONE =>
            inode'[fds'[t][e]].type = "mqueue" /\ inode'[fds'[t][e]].msgq
      BY <1>0, <2>1, <3>1
    <3> QED BY <3>2 DEF FdsOK
  <2>4. ChangeOK(t)
    BY <1>0 DEF ChangeOK
  <2>5. NamesOK'
    BY <1>0, NamesQuiet DEF Moving, RefInv
  <2>6. RefsCounted'
    <3>1. ASSUME NEW i \in Nodes
          PROVE  Own(t, i) = OwnFd(t, d, i)' /\ Own(t, i)' = 0 /\ OwnFd(t, d, i) = 0
      BY <1>0, <1>2, <1>k, <2>1 DEF Own, OwnFd, RefPlaces
    <3>2. ASSUME NEW i \in Nodes
          PROVE  inode'[i].i_crefs + inode[i].lost + Own(t, i) + OwnFd(t, d, i)
                   = inode[i].i_crefs + inode'[i].lost + Own(t, i)' + OwnFd(t, d, i)'
      <4>1. inode[i].i_crefs \in Nat /\ inode[i].lost \in Nat /\ Own(t, i) \in Nat
        BY DEF Moving, FileTypes, Inodes, Own
      <4> QED BY <1>0, <3>1, <4>1
    <3> QED BY <1>0, <2>1, <3>2, RefsFd
  <2> QED BY <2>1, <2>2, <2>3, <2>4, <2>5, <2>6, Combine
<1> QED BY <1>1, <1>2 DEF FilesAllocate

(***************************************************************************)
(* inode_remove: an inode without references is freed, and an mq_unlink    *)
(* has a reference to the inode that it found.                             *)
(***************************************************************************)
LEMMA RemoveStep ==
  ASSUME NEW t \in Tasks, Moving(t), UnlinkRemove(t)
  PROVE  Kept(t)
<1>k. PICK k \in Nodes : k = call[t].node
  BY DEF UnlinkRemove, Inside, Moving, CallInv, NodePlaces, RefPlaces
<1>n. PICK n \in Names : n = call[t].name
  BY DEF UnlinkRemove, Inside, Moving, CallInv, NamePlaces, Places, LockedPlaces
<1>0. /\ place[t] = "u_remove" /\ place'[t] = "u_free" /\ call' = call /\ fds' = fds
      /\ inode' = Removed(n) /\ tree' = [tree EXCEPT ![n] = NONE]
      /\ inode \in [Nodes -> Inodes] /\ tree \in [Names -> Nodes \cup {NONE}]
      /\ NONE \notin Nodes
  <2>1. /\ inode \in [Nodes -> Inodes] /\ tree \in [Names -> Nodes \cup {NONE}]
        /\ place \in [Tasks -> Places]
    BY DEF Moving, FileTypes
  <2>2. place[t] = "u_remove" /\ place'[t] = "u_free"
    BY <2>1 DEF UnlinkRemove, Inside, Goto
  <2> QED BY <1>n, <2>1, <2>2, FilesAssumption DEF UnlinkRemove
<1>1. inode[k].type = "mqueue" /\ inode[k].name = n
  BY <1>0, <1>k, <1>n DEF Moving, RefInv, HoldersOK, PlaceOK, RefPlaces
<1>2. inode[k].i_crefs >= 1
  <2>1. Refers(t, k)
    BY <1>0, <1>k DEF Refers, RefPlaces
  <2> QED BY <1>1, <2>1, HasReference DEF Moving, RefInv
<1>3. ASSUME NEW i \in Nodes
      PROVE  /\ i # tree[n] => inode'[i] = inode[i]
             /\ i = tree[n] =>
                  /\ inode'[i].name = inode[i].name /\ inode'[i].lost = inode[i].lost
                  /\ inode'[i].i_crefs = inode[i].i_crefs
                  /\ inode[i].msgq => inode'[i].msgq
                  /\ inode[i].type \in {"plain", "mqueue"}
                  /\ \/ inode'[i].type = "freed" /\ inode[i].i_crefs = 0
                     \/ inode'[i].type = inode[i].type /\ inode'[i].deleted
  <2>1. CASE tree[n] = NONE
    BY <1>0, <2>1 DEF Removed
  <2>2. CASE tree[n] # NONE
    <3> DEFINE r == tree[n]
    <3>1. r \in Nodes /\ inode[r].i_crefs \in Nat /\ inode[r].type \in {"plain", "mqueue"}
      BY <1>0, <2>2 DEF Inodes, Moving, RefInv, NamesOK, TreeInv
    <3> HIDE DEF r
    <3>2. /\ OnlyAt([inode EXCEPT ![r].deleted = TRUE], r)
          /\ Fields([inode EXCEPT ![r].deleted = TRUE][r], inode[r].type, inode[r].name,
                    inode[r].i_crefs, TRUE, inode[r].msgq, inode[r].lost)
          /\ OnlyAt([inode EXCEPT ![r].type = "freed"], r)
          /\ Fields([inode EXCEPT ![r].type = "freed"][r], "freed", inode[r].name,
                    inode[r].i_crefs, inode[r].deleted, inode[r].msgq, inode[r].lost)
      BY <1>0, <3>1, NodeValues
    <3>3. inode' = IF inode[r].i_crefs > 0 THEN [inode EXCEPT ![r].deleted = TRUE]
                                           ELSE [inode EXCEPT ![r].type = "freed"]
      BY <1>0, <2>2 DEF Removed, r
    <3>4. CASE inode[r].i_crefs > 0
      BY <3>1, <3>2, <3>3, <3>4 DEF OnlyAt, Fields, r
    <3>5. CASE inode[r].i_crefs = 0
      BY <3>1, <3>2, <3>3, <3>5 DEF OnlyAt, Fields, r
    <3> QED BY <3>1, <3>4, <3>5
  <2> QED BY <2>1, <2>2
<1>4. \A i \in Nodes : inode[i].type = "mqueue" /\ inode'[i].type # "mqueue" =>
        \A u \in Tasks : ~Refers(u, i)
  BY <1>3, Unheld DEF Moving, RefInv
<1>5. ChangeOK(t)
  <2>1. \A m \in Names : tree'[m] = tree[m] \/ tree'[m] = NONE
    BY <1>0
  <2> QED BY <1>3, <1>4, <2>1 DEF ChangeOK
<1>6. PlaceOK(t)'
  <2>1. inode'[k].type = "mqueue" /\ inode'[k].name = n
    BY <1>1, <1>2, <1>3
  <2>2. \A m \in Names : tree'[m] # k
    <3>1. \A m \in Names : tree[m] = k => m = n
      BY <1>0, <1>1 DEF Moving, RefInv, NamesOK, TreeInv
    <3> QED BY <1>0, <3>1
  <2> QED BY <1>0, <1>k, <1>n, <2>1, <2>2 DEF PlaceOK
<1>7. FdsOK(t)'
  <2>1. \A i \in Nodes, d \in 1 .. NFILES : fds[t][d] = i /\ inode[i].type = "mqueue" =>
           inode'[i].type = "mqueue" /\ (inode[i].msgq => inode'[i].msgq)
    BY <1>3, <1>4 DEF Refers
  <2> QED BY <1>0, <2>1, FdsKept
<1>8. RefsCounted'
  <2>1. \A i \in Nodes : Own(t, i)' = Own(t, i) /\ Own(t, i) \in Nat
    BY <1>0 DEF Own, RefPlaces
  <2>2. ASSUME NEW i \in Nodes, inode'[i].type = "mqueue"
        PROVE  /\ inode[i].type = "mqueue"
               /\ inode'[i].i_crefs + inode[i].lost + Own(t, i)
                    = inode[i].i_crefs + inode'[i].lost + Own(t, i)'
    <3>1. inode[i].i_crefs \in Nat /\ inode[i].lost \in Nat
      BY DEF Moving, FileTypes, Inodes
    <3>2. inode[i].type = "mqueue" /\ inode'[i].i_crefs = inode[i].i_crefs
            /\ inode'[i].lost = inode[i].lost
      BY <1>3, <2>2
    <3> QED BY <2>1, <3>1, <3>2
  <2> QED BY <1>0, <2>2, RefsCall
<1>9. NamesOK'
  <2>1. FileTypes /\ NamesOK
    BY DEF Moving, RefInv
  <2>2. \A i \in Nodes : i # tree[n] => inode'[i] = inode[i]
    BY <1>3
  <2>3. \A i \in Nodes : i = tree[n] =>
          /\ inode'[i].name = inode[i].name
          /\ \/ inode'[i].type = "freed"
             \/ inode'[i].type = inode[i].type /\ inode'[i].deleted
          /\ inode[i].type = "plain" => inode'[i].lost = inode[i].lost
    BY <1>3
  <2>4. tree' = [tree EXCEPT ![n] = NONE]
    BY <1>0
  <2> QED BY <2>1, <2>2, <2>3, <2>4, NamesRemove
<1> QED BY <1>0, <1>5, <1>6, <1>7, <1>8, <1>9, Combine

-----------------------------------------------------------------------------
(***************************************************************************)
(* inode_reserve found a free name and memory.  The scheduler stays locked *)
(* until the inode has its queue, when the heap does not make the caller   *)
(* wait.                                                                   *)
(***************************************************************************)
LEMMA ReserveStep ==
  ASSUME TRUE \notin HeapWaits, NEW t \in Tasks, Moving(t), OpenReserve(t),
         place'[t] = "new"
  PROVE  Kept(t)
<1>n. PICK n \in Names : n = call[t].name
  BY DEF OpenReserve, Inside, Moving, CallInv, NamePlaces, Places, LockedPlaces
<1>t. /\ inode \in [Nodes -> Inodes] /\ tree \in [Names -> Nodes \cup {NONE}]
      /\ place \in [Tasks -> Places] /\ call \in [Tasks -> Calls] /\ NONE \notin Nodes
  BY FilesAssumption DEF Moving, FileTypes
<1>k. PICK k \in Nodes : /\ tree[n] = NONE /\ inode[k].type = "unused"
                         /\ inode' = Reserved(k, n) /\ tree' = [tree EXCEPT ![n] = k]
                         /\ call' = [call EXCEPT ![t].node = k] /\ GotoNew(t)
  <2>1. ~Return(t)
    BY <1>t DEF Return, Goto
  <2> QED BY <1>n, <2>1 DEF OpenReserve, Reserved
<1>0. /\ place[t] = "reserve" /\ fds' = fds /\ tree'[n] = k /\ locked' = t
      /\ call'[t].node = k /\ call'[t].name = n
      /\ \A m \in Names \ {n} : tree'[m] = tree[m]
  <2>1. place[t] = "reserve" /\ fds' = fds
    BY DEF OpenReserve, Inside
  <2>2. locked' = t
    BY <1>k, FilesAssumption DEF GotoNew
  <2>3. call'[t].node = k /\ call'[t].name = n
    BY <1>k, <1>n, <1>t DEF Calls
  <2> QED BY <1>k, <1>t, <2>1, <2>2, <2>3
<1>1. /\ \A i \in Nodes \ {k} : inode'[i] = inode[i]
      /\ inode'[k].type = "plain"
  <2>1. /\ OnlyAt(Reserved(k, n), k)
        /\ Fields(Reserved(k, n)[k], "plain", n, inode[k].i_crefs, inode[k].deleted,
                  inode[k].msgq, inode[k].lost)
    BY <1>t, NodeValues
  <2> QED BY <1>k, <2>1 DEF OnlyAt, Fields
<1>2. ChangeOK(t)
  BY <1>0, <1>1, <1>k DEF ChangeOK
<1>3. HoldersOK'
  <2>1. PlaceOK(t)'
    BY DEF PlaceOK, RefPlaces
  <2>2. FdsOK(t)'
    <3>1. \A i \in Nodes, d \in 1 .. NFILES : fds[t][d] = i /\ inode[i].type = "mqueue" =>
            inode'[i].type = "mqueue" /\ (inode[i].msgq => inode'[i].msgq)
      BY <1>1, <1>k
    <3> QED BY <1>0, <3>1, FdsKept
  <2> QED BY <1>2, <2>1, <2>2, OthersKept DEF Moving, RefInv
<1>4. NamesOK'
  <2>1. FileTypes /\ NamesOK
    BY DEF Moving, RefInv
  <2> QED BY <1>k, <2>1, NamesReserve
<1>5. RefsCounted'
  <2>1. \A i \in Nodes : Own(t, i)' = Own(t, i) /\ Own(t, i) \in Nat
    BY <1>0 DEF Own, RefPlaces
  <2>2. ASSUME NEW i \in Nodes, inode'[i].type = "mqueue"
        PROVE  /\ inode[i].type = "mqueue"
               /\ inode'[i].i_crefs + inode[i].lost + Own(t, i)
                    = inode[i].i_crefs + inode'[i].lost + Own(t, i)'
    <3>1. inode[i].i_crefs \in Nat /\ inode[i].lost \in Nat
      BY <1>t DEF Inodes
    <3>2. inode'[i] = inode[i]
      BY <1>1, <2>2
    <3> QED BY <2>1, <2>2, <3>1, <3>2
  <2> QED BY <1>0, <2>2, RefsCall
<1>6. NewInv'
  <2>1. \A u \in Tasks \ {t} : place'[u] # "new"
    BY FilesAssumption DEF Moving, RefInv, NewInv, CanRun, OnlyMoves
  <2>2. ASSUME NEW u \in Tasks
        PROVE  /\ ~(place'[u] \in RefPlaces /\ call'[u].node = k)
               /\ \A d \in 1 .. NFILES : fds'[u][d] # k
               /\ ~(place'[u] = "undo" /\ call'[u].node = k)
    <3>1. PlaceOK(u) /\ FdsOK(u)
      BY DEF Moving, RefInv, HoldersOK
    <3>2. \A d \in 1 .. NFILES : fds[u][d] # k
      BY <1>k, <1>t, <3>1 DEF FdsOK
    <3>3. CASE u = t
      BY <1>0, <3>2, <3>3 DEF RefPlaces
    <3>4. CASE u # t
      <4>1. place'[u] = place[u] /\ call'[u] = call[u] /\ fds'[u] = fds[u]
        BY <3>4 DEF Moving, OnlyMoves
      <4> QED BY <1>k, <3>1, <3>2, <4>1 DEF PlaceOK
    <3> QED BY <3>3, <3>4
  <2>3. HolderSet(k)' = {}
    BY <2>2 DEF HolderSet
  <2>4. HolderSet(call[t].node)' = HolderSet(k)'
    BY <1>0 DEF HolderSet
  <2> QED BY <1>0, <1>1, <2>1, <2>2, <2>3, <2>4 DEF NewInv
<1> QED BY <1>2, <1>3, <1>4, <1>5, <1>6 DEF Kept, RefInv

(***************************************************************************)
(* nxmq_alloc_msgq: the inode has its queue and one reference, or none.    *)
(***************************************************************************)
LEMMA NewStep ==
  ASSUME NEW t \in Tasks, Moving(t), OpenNew(t)
  PROVE  Kept(t)
<1>k. PICK k \in Nodes : k = call[t].node
  BY DEF OpenNew, Moving, CallInv, NodePlaces
<1>0. /\ place[t] = "new" /\ UNCHANGED <<tree, fds, call>>
      /\ inode \in [Nodes -> Inodes] /\ place \in [Tasks -> Places]
  BY DEF OpenNew, Moving, FileTypes
<1>1. /\ inode[k].type = "plain" /\ HolderSet(k) = {}
      /\ \A u \in Tasks : place[u] = "undo" => call[u].node # k
  BY <1>0, <1>k DEF Moving, RefInv, NewInv
<1>2. CASE Goto(t, "undo") /\ UNCHANGED inode
  <2>1. place'[t] = "undo"
    BY <1>0, <1>2 DEF Goto
  <2>2. PlaceOK(t)'
    BY <1>0, <1>1, <1>2, <1>k, <2>1 DEF PlaceOK, RefPlaces
  <2>3. \A i \in Nodes : Own(t, i)' = Own(t, i)
    BY <1>0, <2>1 DEF Own, RefPlaces
  <2> QED BY <1>0, <1>2, <2>1, <2>2, <2>3, QuietStep
<1>3. CASE Goto(t, "alloc") /\ inode' = Equipped(k)
  <2>1. place'[t] = "alloc"
    BY <1>0, <1>3 DEF Goto
  <2>2. /\ \A i \in Nodes \ {k} : inode'[i] = inode[i]
        /\ inode'[k].type = "mqueue" /\ inode'[k].name = inode[k].name
        /\ inode'[k].i_crefs = 1 /\ inode'[k].msgq /\ inode'[k].lost = inode[k].lost
    <3>1. /\ OnlyAt(Equipped(k), k)
          /\ Fields(Equipped(k)[k], "mqueue", inode[k].name, 1, inode[k].deleted, TRUE,
                    inode[k].lost)
      BY <1>0, NodeValues
    <3> QED BY <1>3, <3>1 DEF OnlyAt, Fields
  <2>3. PlaceOK(t)'
    BY <1>0, <1>k, <2>1, <2>2 DEF PlaceOK
  <2>4. FdsOK(t)'
    <3>1. \A i \in Nodes, d \in 1 .. NFILES : fds[t][d] = i /\ inode[i].type = "mqueue" =>
            inode'[i].type = "mqueue" /\ (inode[i].msgq => inode'[i].msgq)
      BY <1>1, <2>2
    <3> QED BY <1>0, <3>1, FdsKept
  <2>5. ChangeOK(t)
    BY <1>0, <1>1, <2>2 DEF ChangeOK
  <2>6. NamesOK'
    <3>1. FileTypes /\ NamesOK
      BY DEF Moving, RefInv
    <3> QED BY <1>0, <1>1, <1>3, <3>1, NamesEquip
  <2>7. RefsCounted'
    <3>1. SUFFICES ASSUME NEW i \in Nodes, inode'[i].type = "mqueue"
                   PROVE  inode'[i].i_crefs = Count(fds', place', call', i) + inode'[i].lost
      BY RefsForm DEF Refs
    <3>2. Count(fds, place, call, i) \in Nat /\ Count(fds', place', call', i) \in Nat
      BY HoldersAre
    <3>3. Count(fds, place', call', i)
            = Count(fds, place, call, i) + (IF k = i THEN 1 ELSE 0)
      <4>1. \A u \in Tasks \ {t} : place'[u] = place[u] /\ call'[u] = call[u]
        BY DEF Moving, OnlyMoves
      <4>2. Count(fds, place', call', i)
              + (IF place[t] \in RefPlaces /\ call[t].node = i THEN 1 ELSE 0)
            = Count(fds, place, call, i)
              + (IF place'[t] \in RefPlaces /\ call'[t].node = i THEN 1 ELSE 0)
        BY <4>1, CountCall
      <4>3. place[t] \notin RefPlaces /\ place'[t] \in RefPlaces /\ call'[t].node = k
        BY <1>0, <1>k, <2>1 DEF RefPlaces
      <4>4. Count(fds, place', call', i) \in Nat
        BY HoldersAre
      <4> QED BY <3>2, <4>2, <4>3, <4>4
    <3>4. CASE i = k
      <4>1. Count(fds, place, call, i) = 0
        BY <1>1, <3>4, NoHolder DEF HolderSet, Holders
      <4>2. inode[k].lost = 0
        BY <1>1 DEF Moving, RefInv, NamesOK, NodeInv
      <4> QED BY <1>0, <2>2, <3>3, <3>4, <4>1, <4>2
    <3>5. CASE i # k
      <4>1. inode'[i] = inode[i]
        BY <2>2, <3>5
      <4>2. inode[i].i_crefs = Count(fds, place, call, i) + inode[i].lost
        BY <3>1, <4>1, RefsForm DEF Moving, RefInv, Refs
      <4> QED BY <1>0, <3>2, <3>3, <3>5, <4>1, <4>2
    <3> QED BY <3>4, <3>5
  <2> QED BY <2>1, <2>3, <2>4, <2>5, <2>6, <2>7, Combine
<1> QED BY <1>2, <1>3, <1>k DEF OpenNew, Equipped

-----------------------------------------------------------------------------
(***************************************************************************)
(* Every step of a task.                                                   *)
(***************************************************************************)
LEMMA TaskStep ==
  ASSUME TRUE \notin HeapWaits, FileTypes, CallInv, RefInv, NEW t \in Tasks,
         Step(t) \/ Start(t)
  PROVE  Moving(t) /\ Kept(t)
<1>0. Moving(t)
  <2>1. FileTypes' /\ CallInv' /\ OnlyMoves(t)
    BY StepTypes, SMTT(30)
  <2>2. CanRun(t)
    BY ZenonT(60) DEF Step, Start, SemTake, SemResume, OpenFind, OpenReserve, OpenNew, DropNode, FilesTake,
       FilesAllocate, ErrorClose, ErrorRelease, CloseCheck, CloseRelease, UnlinkFind,
       UnlinkRemove, UnlinkFree, MqOpen, MqUnlink, MqClose, Inside
  <2> QED BY <2>1, <2>2 DEF Moving
<1>t. place \in [Tasks -> Places] /\ call \in [Tasks -> Calls]
        /\ tree \in [Names -> Nodes \cup {NONE}]
  BY DEF FileTypes
<1>1. CASE Start(t)
  <2>1. /\ place[t] = "out" /\ place'[t] \in {"find", "u_find", "c_check"}
        /\ UNCHANGED <<tree, inode, fds>>
    BY <1>1, <1>t DEF Start, MqOpen, MqUnlink, MqClose, Goto, nodeVars
  <2> QED BY <1>0, <2>1, LeaveQuiet DEF RefPlaces
<1>2. CASE SemTake(t) \/ SemResume(t)
  BY <1>0, <1>2, SemQuiet
<1>3. CASE OpenFind(t)
  <2>1. PICK n \in Names : n = call[t].name
    BY <1>3 DEF OpenFind, Inside, CallInv, NamePlaces, Places, LockedPlaces
  <2>2. place[t] = "find" /\ UNCHANGED <<tree, fds>>
    BY <1>3 DEF OpenFind, Inside
  <2>3. CASE tree[n] = NONE
    <3>1. UNCHANGED inode /\ place'[t] \in {"reserve", "out"}
      BY <1>3, <1>t, <2>1, <2>3 DEF OpenFind, Goto, Return
    <3> QED BY <1>0, <2>2, <3>1, LeaveQuiet DEF RefPlaces
  <2>4. CASE tree[n] # NONE
    <3>1. PICK k \in Nodes : k = tree[n]
      BY <1>t, <2>4
    <3>2. /\ inode' = AddRef(k) /\ call'[t].node = k /\ place'[t] \in {"drop", "alloc"}
          /\ place'[t] # "drop" => inode[k].type = "mqueue"
      <4> DEFINE fails == inode[k].type # "mqueue" \/ call[t].oflags = {"O_CREAT", "O_EXCL"}
                 p == IF fails THEN "drop" ELSE "alloc"
      <4>1. /\ inode' = AddRef(k) /\ Goto(t, p)
            /\ call' = [call EXCEPT ![t] = [@ EXCEPT !.oflags = {}, !.node = k,
                                                     !.created = ~fails]]
        BY <1>3, <2>1, <2>4, <3>1 DEF OpenFind
      <4>2. place'[t] = p
        BY <1>t, <4>1 DEF Goto
      <4>3. call'[t].node = k
        <5> HIDE DEF fails
        <5> QED BY <1>t, <4>1 DEF Calls
      <4> QED BY <4>1, <4>2, <4>3
    <3> QED BY <1>0, <2>2, <3>1, <3>2, FoundStep DEF RefPlaces
  <2> QED BY <2>3, <2>4
<1>4. CASE OpenReserve(t)
  <2>1. CASE place'[t] = "new"
    BY <1>0, <1>4, <2>1, ReserveStep
  <2>2. CASE place'[t] # "new"
    <3>1. place[t] = "reserve" /\ place'[t] = "out" /\ UNCHANGED <<tree, inode, fds>>
      BY <1>4, <1>t, <2>2 DEF OpenReserve, Inside, Return, Goto, GotoNew, nodeVars
    <3> QED BY <1>0, <3>1, LeaveQuiet DEF RefPlaces
  <2> QED BY <2>1, <2>2
<1>5. CASE OpenNew(t)
  BY <1>0, <1>5, NewStep
<1>6. CASE DropNode(t)
  <2>1. PICK k \in Nodes : k = call[t].node
    BY <1>6 DEF DropNode, Inside, CallInv, NodePlaces, RefPlaces
  <2>2. /\ place[t] \in {"drop", "undo"} /\ place'[t] = "out" /\ UNCHANGED <<tree, fds>>
        /\ inode' = inode_release(k)
    BY <1>6, <1>t, <2>1 DEF DropNode, Inside, Return, Goto
  <2> QED BY <1>0, <2>1, <2>2, ReleaseStep
<1>7. CASE FilesTake(t)
  <2>1. /\ place[t] = "alloc" /\ place'[t] = "alloc_in" /\ UNCHANGED <<tree, inode, fds, call>>
    BY <1>7, <1>t DEF FilesTake, Goto, nodeVars
  <2>2. PlaceOK(t)'
    BY <2>1 DEF RefInv, HoldersOK, PlaceOK, RefPlaces
  <2>3. \A i \in Nodes : Own(t, i)' = Own(t, i)
    BY <2>1 DEF Own, RefPlaces
  <2> QED BY <1>0, <2>1, <2>2, <2>3, QuietStep
<1>8. CASE FilesAllocate(t)
  BY <1>0, <1>8, AllocateStep
<1>9. CASE ErrorClose(t)
  BY <1>0, <1>9, ErrorCloseStep
<1>10. CASE ErrorRelease(t)
  <2>1. PICK k \in Nodes : k = call[t].node
    BY <1>10 DEF ErrorRelease, Inside, CallInv, NodePlaces, RefPlaces
  <2>2. /\ place[t] = "e_release" /\ place'[t] \in {"out", "u_find"}
        /\ UNCHANGED <<tree, fds>> /\ inode' = inode_release(k)
    BY <1>10, <1>t, <2>1 DEF ErrorRelease, Inside, Return, Goto
  <2> QED BY <1>0, <2>1, <2>2, ReleaseStep
<1>11. CASE CloseCheck(t)
  BY <1>0, <1>11, CloseCheckStep
<1>12. CASE CloseRelease(t)
  BY <1>0, <1>12, CloseReleaseStep
<1>13. CASE UnlinkFind(t)
  <2>1. PICK n \in Names : n = call[t].name
    BY <1>13 DEF UnlinkFind, Inside, CallInv, NamePlaces, Places, LockedPlaces
  <2>2. place[t] = "u_find" /\ UNCHANGED <<tree, fds>>
    BY <1>13 DEF UnlinkFind, Inside
  <2>3. CASE tree[n] = NONE
    <3>1. UNCHANGED inode /\ place'[t] = "out"
      BY <1>13, <1>t, <2>1, <2>3 DEF UnlinkFind, Goto, Return
    <3> QED BY <1>0, <2>2, <3>1, LeaveQuiet DEF RefPlaces
  <2>4. CASE tree[n] # NONE
    <3>1. PICK k \in Nodes : k = tree[n]
      BY <1>t, <2>4
    <3>2. /\ inode' = AddRef(k) /\ call'[t].node = k /\ call'[t].name = n
          /\ place'[t] \in {"drop", "u_remove"}
          /\ place'[t] # "drop" => inode[k].type = "mqueue"
      BY <1>13, <1>t, <2>1, <2>4, <3>1 DEF UnlinkFind, Goto, Calls
    <3> QED BY <1>0, <2>2, <3>1, <3>2, FoundStep DEF RefPlaces
  <2> QED BY <2>3, <2>4
<1>14. CASE UnlinkRemove(t)
  BY <1>0, <1>14, RemoveStep
<1>15. CASE UnlinkFree(t)
  BY <1>0, <1>15, UnlinkFreeStep
<1> QED BY <1>0, <1>1, <1>2, <1>3, <1>4, <1>5, <1>6, <1>7, <1>8, <1>9, <1>10, <1>11, <1>12,
           <1>13, <1>14, <1>15 DEF Step

(***************************************************************************)
(* The unlinking of the interrupt handler: nobody moves.                   *)
(***************************************************************************)
LEMMA HandlerStep ==
  ASSUME FileTypes, CallInv, RefInv, NEW h \in Tasks \cup {NONE}, NEW n \in HandlerNames,
         HandlerOpen(h, n)
  PROVE  /\ RefInv' /\ UNCHANGED <<fds, place, call>>
         /\ \A i \in Nodes : inode'[i].type = inode[i].type
<1>0. /\ n \in Names /\ NONE \notin Tasks \cup Nodes /\ inode \in [Nodes -> Inodes]
      /\ tree \in [Names -> Nodes \cup {NONE}] /\ UNCHANGED <<fds, place, call, locked>>
  BY FilesAssumption DEF FileTypes, HandlerOpen, callVars
<1>1. CASE UNCHANGED nodeVars
  <2>1. UNCHANGED <<tree, inode>>
    BY <1>1 DEF nodeVars
  <2>2. HoldersOK' /\ NamesOK' /\ RefsCounted' /\ NewInv'
    BY <1>0, <2>1 DEF RefInv, HoldersOK, PlaceOK, FdsOK, Closing, NamesOK, NodeInv, TreeInv,
       NamesReach, RefsCounted, HolderSet, NewInv
  <2> QED BY <1>0, <2>1, <2>2 DEF RefInv
<1>2. ASSUME tree[n] # NONE, inode[tree[n]].type = "mqueue",
             tree' = [tree EXCEPT ![n] = NONE], inode' = UnlinkedByHandler(tree[n])
      PROVE  RefInv' /\ \A i \in Nodes : inode'[i].type = inode[i].type
  <2>k. PICK k \in Nodes : k = tree[n]
    BY <1>0, <1>2
  <2>1. /\ \A i \in Nodes \ {k} : inode'[i] = inode[i]
        /\ Fields(inode'[k], inode[k].type, inode[k].name, inode[k].i_crefs + 1, TRUE,
                  inode[k].msgq /\ inode[k].i_crefs + 1 > 1, inode[k].lost + 1)
    <3>1. /\ OnlyAt(UnlinkedByHandler(k), k)
          /\ Fields(UnlinkedByHandler(k)[k], inode[k].type, inode[k].name,
                    inode[k].i_crefs + 1, TRUE,
                    inode[k].msgq /\ inode[k].i_crefs + 1 > 1, inode[k].lost + 1)
      BY <1>0, NodeValues
    <3> QED BY <1>2, <2>k, <3>1 DEF OnlyAt
  <2>2. inode[k].i_crefs \in Nat /\ inode[k].lost \in Nat
    BY <1>0 DEF Inodes
  <2>3. /\ inode'[k].type = "mqueue" /\ inode[k].type = "mqueue"
        /\ inode'[k].name = inode[k].name /\ inode'[k].deleted
        /\ inode'[k].i_crefs = inode[k].i_crefs + 1 /\ inode'[k].lost = inode[k].lost + 1
        /\ inode[k].i_crefs # 0 => (inode[k].msgq => inode'[k].msgq)
    BY <1>2, <2>1, <2>2, <2>k DEF Fields
  <2>4. \A i \in Nodes : inode'[i].type = inode[i].type
    BY <2>1, <2>3
  <2>5. ~(inode[k].msgq => inode'[k].msgq) => \A u \in Tasks : ~Refers(u, k)
    BY <2>3, Unheld DEF RefInv
  <2>6. HoldersOK'
    <3>1. ChangeOK(NONE)
      <4>1. \A m \in Names : tree'[m] = tree[m] \/ tree'[m] = NONE
        BY <1>0, <1>2
      <4> QED BY <2>1, <2>3, <2>4, <2>5, <4>1 DEF ChangeOK
    <3>2. OnlyMoves(NONE)
      BY <1>0 DEF OnlyMoves
    <3> QED BY <1>0, <3>1, <3>2, OthersKept DEF RefInv
  <2>7. NamesOK'
    <3>1. FileTypes /\ NamesOK
      BY DEF RefInv
    <3>2. \A i \in Nodes : i # tree[n] => inode'[i] = inode[i]
      BY <2>1, <2>k
    <3>3. \A i \in Nodes : i = tree[n] =>
            /\ inode'[i].name = inode[i].name
            /\ \/ inode'[i].type = "freed"
               \/ inode'[i].type = inode[i].type /\ inode'[i].deleted
            /\ inode[i].type = "plain" => inode'[i].lost = inode[i].lost
      BY <2>3, <2>k
    <3>4. tree' = [tree EXCEPT ![n] = NONE] /\ n \in Names
      BY <1>0, <1>2
    <3> QED BY <3>1, <3>2, <3>3, <3>4, NamesRemove
  <2>8. RefsCounted'
    <3>1. SUFFICES ASSUME NEW i \in Nodes, inode'[i].type = "mqueue"
                   PROVE  inode'[i].i_crefs = Count(fds, place, call, i) + inode'[i].lost
      BY <1>0, RefsForm DEF Refs
    <3>2. inode[i].i_crefs = Count(fds, place, call, i) + inode[i].lost
      BY <2>4, <3>1, RefsForm DEF RefInv, Refs
    <3>3. Count(fds, place, call, i) \in Nat
      BY HoldersAre
    <3> QED BY <2>1, <2>2, <2>3, <3>2, <3>3
  <2>9. NewInv'
    <3>1. SUFFICES ASSUME NEW t \in Tasks, place[t] = "new"
                   PROVE  /\ locked = t /\ inode'[call[t].node].type = "plain"
                          /\ HolderSet(call[t].node) = {}
                          /\ tree'[call[t].name] = call[t].node
                          /\ \A u \in Tasks : place[u] = "undo" => call[u].node # call[t].node
      BY <1>0 DEF NewInv, HolderSet
    <3>2. /\ locked = t /\ inode[call[t].node].type = "plain"
          /\ HolderSet(call[t].node) = {} /\ tree[call[t].name] = call[t].node
          /\ \A u \in Tasks : place[u] = "undo" => call[u].node # call[t].node
      BY <3>1 DEF RefInv, NewInv
    <3>3. call[t].node \in Nodes /\ call[t].name \in Names
      BY <3>1 DEF CallInv, NodePlaces, NamePlaces, Places, LockedPlaces
    <3>4. call[t].name # n
      BY <1>2, <3>2
    <3>5. tree'[call[t].name] = tree[call[t].name]
      BY <1>0, <1>2, <3>3, <3>4
    <3> QED BY <2>4, <3>2, <3>3, <3>5
  <2> QED BY <2>4, <2>6, <2>7, <2>8, <2>9 DEF RefInv
<1> QED BY <1>0, <1>1, <1>2 DEF HandlerOpen, UnlinkedByHandler

-----------------------------------------------------------------------------
(***************************************************************************)
(* RefInv is inductive, given TypeInv.                                     *)
(***************************************************************************)
LEMMA RefStep ==
  ASSUME TRUE \notin HeapWaits, TypeInv, RefInv, [Next]_vars
  PROVE  RefInv'
<1>0. FileTypes /\ CallInv
  BY DEF TypeInv
<1>1. CASE UNCHANGED vars
  <2>1. UNCHANGED <<tree, inode, fds, place, call, locked>>
    BY <1>1 DEF vars, nodeVars, callVars
  <2> QED BY <2>1 DEF RefInv, HoldersOK, PlaceOK, FdsOK, Closing, NamesOK, NodeInv, TreeInv,
             NamesReach, RefsCounted, HolderSet, NewInv
<1>2. ASSUME NEW t \in Tasks, Step(t) \/ Start(t) PROVE RefInv'
  BY <1>0, <1>2, TaskStep DEF Kept
<1>3. ASSUME NEW h \in Tasks \cup {NONE}, NEW n \in HandlerNames, HandlerOpen(h, n)
      PROVE  RefInv'
  BY <1>0, <1>3, HandlerStep
<1> QED BY <1>1, <1>2, <1>3 DEF Next

(***************************************************************************)
(* RefInv holds at the start, when there are no inodes.                    *)
(***************************************************************************)
LEMMA RefInit == Init => RefInv
<1> SUFFICES ASSUME Init PROVE RefInv
  OBVIOUS
<1>1. /\ \A t \in Tasks : place[t] = "out" /\ \A d \in 1 .. NFILES : fds[t][d] = NONE
      /\ \A i \in Nodes : inode[i] = Unused
      /\ \A n \in Names : tree[n] = NONE
  BY DEF Init
<1>2. NewInv /\ HoldersOK
  BY <1>1 DEF NewInv, HoldersOK, PlaceOK, FdsOK, RefPlaces
<1>3. NamesOK /\ RefsCounted
  BY <1>1 DEF NamesOK, NodeInv, TreeInv, NamesReach, RefsCounted, Unused
<1> QED BY <1>2, <1>3 DEF RefInv

(***************************************************************************)
(* RefInv is an invariant when the heap does not make mq_open wait.        *)
(***************************************************************************)
LEMMA RefInvariant == TRUE \notin HeapWaits => (Spec => [](TypeInv /\ RefInv))
<1> SUFFICES ASSUME TRUE \notin HeapWaits PROVE Spec => [](TypeInv /\ RefInv)
  OBVIOUS
<1>1. TypeInv /\ RefInv /\ [Next]_vars => RefInv'
  BY RefStep
<1> QED BY <1>1, RefInit, TypeInvariant, PTL DEF Spec

(***************************************************************************)
(* RefsCounted, when nxmq_alloc_msgq does not wait for the heap: the       *)
(* reference count of every queue's inode is the number of its descriptors *)
(* and calls and of the references that unlinking lost, whatever tasks     *)
(* wait for the inode semaphore between the steps of mq_open, mq_close and *)
(* mq_unlink, whether memory and descriptors run out, and whatever the     *)
(* interrupt handler unlinks.                                              *)
(***************************************************************************)
THEOREM FilesRefsCounted == TRUE \notin HeapWaits => (Spec => []RefsCounted)
<1>1. RefInv => RefsCounted
  BY DEF RefInv
<1> QED BY <1>1, RefInvariant, PTL

(***************************************************************************)
(* NamesReach, likewise: every inode that was not unlinked is the one that *)
(* inode_find returns for its name.                                        *)
(***************************************************************************)
THEOREM FilesNamesReach == TRUE \notin HeapWaits => (Spec => []NamesReach)
<1>1. RefInv => NamesReach
  BY DEF RefInv, NamesOK
<1> QED BY <1>1, RefInvariant, PTL

(***************************************************************************)
(* Whatever memory does, no descriptor refers to an inode that was freed,  *)
(* none that can still be used to a queue that was freed, and no name      *)
(* leads to either.                                                        *)
(***************************************************************************)
THEOREM DescriptorsGood ==
  TRUE \notin HeapWaits => (Spec => [](TreeInv /\ \A t \in Tasks : FdsOK(t)))
<1>1. RefInv => TreeInv /\ \A t \in Tasks : FdsOK(t)
  BY DEF RefInv, NamesOK, HoldersOK
<1> QED BY <1>1, RefInvariant, PTL

-----------------------------------------------------------------------------
(***************************************************************************)
(* With memory for every queue, only the creator of an inode meets it      *)
(* without its queue.                                                      *)
(***************************************************************************)
PlainInv ==
    /\ \A i \in Nodes : inode[i].type = "plain" =>
         \E t \in Tasks : place[t] = "new" /\ call[t].node = i
    /\ \A t \in Tasks : place[t] = "drop" => inode[call[t].node].type = "mqueue"

(***************************************************************************)
(* PlainInv is inductive: sched_lock, which NewInv says the creator holds, *)
(* keeps every other task from finding the new inode.                      *)
(***************************************************************************)
LEMMA PlainStep ==
  ASSUME TRUE \notin HeapWaits, ~HeapMayFail, TypeInv, RefInv, PlainInv, [Next]_vars
  PROVE  PlainInv'
<1>0. FileTypes /\ CallInv
  BY DEF TypeInv
<1>1. CASE UNCHANGED vars
  BY <1>1 DEF vars, nodeVars, callVars, PlainInv
<1>2. ASSUME NEW t \in Tasks, Step(t) \/ Start(t) PROVE PlainInv'
  <2>0. Moving(t) /\ Kept(t)
    BY <1>0, <1>2, TaskStep
  <2>1. /\ ChangeOK(t) /\ CanRun(t) /\ OnlyMoves(t) /\ NewInv /\ TreeInv
        /\ place \in [Tasks -> Places] /\ call \in [Tasks -> Calls]
        /\ tree \in [Names -> Nodes \cup {NONE}] /\ inode \in [Nodes -> Inodes]
        /\ NONE \notin Nodes \cup Tasks
    BY <2>0, FilesAssumption DEF Moving, Kept, FileTypes, RefInv, NamesOK
  <2>2. \A i \in Nodes : inode[i].type = "plain" => place[t] = "new" /\ call[t].node = i
    BY <2>1 DEF PlainInv, NewInv, CanRun
  <2>3. ASSUME place[t] = "new"
        PROVE  \/ place'[t] = "new" /\ call'[t] = call[t]
               \/ inode' = Equipped(call[t].node) /\ place'[t] = "alloc"
    <3>1. SemTake(t) \/ SemResume(t) \/ OpenNew(t)
      BY <1>2, <2>3 DEF Step, Start, OpenFind, OpenReserve, DropNode, FilesTake,
         FilesAllocate, ErrorClose, ErrorRelease, CloseCheck, CloseRelease, UnlinkFind,
         UnlinkRemove, UnlinkFree, MqOpen, MqUnlink, MqClose, Inside
    <3>2. CASE SemTake(t) \/ SemResume(t)
      BY <2>3, <3>2 DEF SemTake, SemResume
    <3>3. CASE OpenNew(t)
      BY <2>1, <3>3 DEF OpenNew, Equipped, Goto
    <3> QED BY <3>1, <3>2, <3>3
  <2>4. ASSUME NEW i \in Nodes, inode'[i].type = "plain"
        PROVE  \E u \in Tasks : place'[u] = "new" /\ call'[u].node = i
    <3>1. CASE place'[t] = "new" /\ call'[t].node = i
      BY <3>1
    <3>2. CASE inode[i].type = "plain"
      <4>1. place[t] = "new" /\ call[t].node = i
        BY <2>2, <3>2
      <4>2. inode' # Equipped(i)
        BY <2>1, <2>4 DEF Equipped, Inodes
      <4> QED BY <2>3, <4>1, <4>2
    <3> QED BY <2>1, <2>4, <3>1, <3>2 DEF ChangeOK
  <2>5. ASSUME NEW u \in Tasks \ {t}, place'[u] = "drop"
        PROVE  inode'[call'[u].node].type = "mqueue"
    <3>1. place[u] = "drop" /\ call'[u] = call[u]
      BY <2>1, <2>5 DEF OnlyMoves
    <3>2. call[u].node \in Nodes /\ Refers(u, call[u].node)
      BY <1>0, <3>1 DEF CallInv, NodePlaces, RefPlaces, Refers
    <3>3. inode[call[u].node].type = "mqueue"
      BY <3>1 DEF PlainInv
    <3> QED BY <2>1, <3>1, <3>2, <3>3 DEF ChangeOK
  <2>6. ASSUME place'[t] = "drop"
        PROVE  inode'[call'[t].node].type = "mqueue"
    <3>1. SemTake(t) \/ SemResume(t) \/ OpenFind(t) \/ UnlinkFind(t)
      <4>1. ~Start(t)
        BY <2>1, <2>6 DEF Start, MqOpen, MqUnlink, MqClose, Goto
      <4>2. ~OpenReserve(t) /\ ~OpenNew(t) /\ ~DropNode(t) /\ ~FilesTake(t)
        BY <2>1, <2>6 DEF OpenReserve, OpenNew, DropNode, FilesTake, Return, Goto, GotoNew
      <4>3. ~FilesAllocate(t) /\ ~ErrorClose(t) /\ ~ErrorRelease(t) /\ ~CloseCheck(t)
        BY <2>1, <2>6 DEF FilesAllocate, ErrorClose, ErrorRelease, CloseCheck, Return, Goto
      <4>4. ~CloseRelease(t) /\ ~UnlinkRemove(t) /\ ~UnlinkFree(t)
        BY <2>1, <2>6 DEF CloseRelease, UnlinkRemove, UnlinkFree, Return, Goto
      <4> QED BY <1>2, <4>1, <4>2, <4>3, <4>4 DEF Step
    <3>2. CASE SemTake(t) \/ SemResume(t)
      <4>1. place[t] = "drop" /\ call' = call /\ inode' = inode
        BY <2>6, <3>2 DEF SemTake, SemResume, nodeVars
      <4> QED BY <4>1 DEF PlainInv
    <3>3. CASE OpenFind(t) \/ UnlinkFind(t)
      <4>1. PICK n \in Names : n = call[t].name
        BY <1>0, <3>3 DEF OpenFind, UnlinkFind, Inside, CallInv, NamePlaces, Places, LockedPlaces
      <4>2. tree[n] # NONE
        BY <2>1, <2>6, <3>3, <4>1 DEF OpenFind, UnlinkFind, Return, Goto
      <4>3. PICK k \in Nodes : k = tree[n]
        BY <2>1, <4>2
      <4>4. inode' = AddRef(k) /\ call'[t].node = k /\ place[t] # "new"
        <5>1. CASE OpenFind(t)
          <6> DEFINE fails == inode[k].type # "mqueue"
                                \/ call[t].oflags = {"O_CREAT", "O_EXCL"}
          <6>1. /\ inode' = AddRef(k) /\ place[t] # "new"
                /\ call' = [call EXCEPT ![t] = [@ EXCEPT !.oflags = {}, !.node = k,
                                                         !.created = ~fails]]
            BY <4>1, <4>2, <4>3, <5>1 DEF OpenFind, Inside
          <6> HIDE DEF fails
          <6> QED BY <2>1, <6>1 DEF Calls
        <5>2. CASE UnlinkFind(t)
          BY <2>1, <4>1, <4>2, <4>3, <5>2 DEF UnlinkFind, Inside, Calls
        <5> QED BY <3>3, <5>1, <5>2
      <4>5. inode[k].type = "mqueue"
        BY <2>1, <2>2, <4>2, <4>3, <4>4 DEF TreeInv
      <4>6. AddRef(k)[k].type = inode[k].type
        BY <2>1 DEF AddRef, Inodes
      <4> QED BY <4>4, <4>5, <4>6
    <3> QED BY <3>1, <3>2, <3>3
  <2> QED BY <2>4, <2>5, <2>6 DEF PlainInv
<1>3. ASSUME NEW h \in Tasks \cup {NONE}, NEW n \in HandlerNames, HandlerOpen(h, n)
      PROVE  PlainInv'
  <2>1. UNCHANGED <<place, call>> /\ \A i \in Nodes : inode'[i].type = inode[i].type
    BY <1>0, <1>3, HandlerStep
  <2>2. \A t \in Tasks : place[t] = "drop" => call[t].node \in Nodes
    BY <1>0 DEF CallInv, NodePlaces, RefPlaces
  <2> QED BY <2>1, <2>2 DEF PlainInv
<1> QED BY <1>1, <1>2, <1>3 DEF Next

(***************************************************************************)
(* NoDangling, when there is memory for every queue: neither a descriptor  *)
(* nor a call of mq_open, mq_close or mq_unlink ever refers to an inode    *)
(* that was freed, or uses a queue that was freed.                         *)
(***************************************************************************)
THEOREM FilesNoDangling ==
  TRUE \notin HeapWaits /\ ~HeapMayFail => (Spec => []NoDangling)
<1> SUFFICES ASSUME TRUE \notin HeapWaits, ~HeapMayFail PROVE Spec => []NoDangling
  OBVIOUS
<1>1. Init => PlainInv
  BY DEF Init, PlainInv, Unused
<1>2. TypeInv /\ RefInv /\ PlainInv /\ [Next]_vars => PlainInv'
  BY PlainStep
<1>3. TypeInv /\ RefInv /\ PlainInv => NoDangling
  <2>1. SUFFICES ASSUME RefInv, PlainInv PROVE NoDangling
    OBVIOUS
  <2>2. HoldersOK /\ TreeInv
    BY <2>1 DEF RefInv, NamesOK
  <2>3. \A t \in Tasks : place[t] \in RefPlaces => inode[call[t].node].type = "mqueue"
    BY <2>1, <2>2 DEF PlainInv, HoldersOK, PlaceOK
  <2>4. \A t \in Tasks : place[t] \in {"alloc", "alloc_in"} => inode[call[t].node].msgq
    BY <2>2 DEF HoldersOK, PlaceOK
  <2>5. \A t \in Tasks : FdsOK(t)
    BY <2>2 DEF HoldersOK
  <2> QED BY <2>2, <2>3, <2>4, <2>5 DEF NoDangling, TreeInv, FdsOK
<1> QED BY <1>1, <1>2, <1>3, RefInvariant, PTL DEF Spec
=============================================================================
