------------------------------ MODULE MqFiles ------------------------------
(***************************************************************************)
(* Names, inodes and descriptors of message queues (fs/mqueue, fs/inode):  *)
(* mq_open, mq_close and mq_unlink by several tasks, and the mq_open that  *)
(* the USB interrupt handler makes on behalf of the task it interrupts.    *)
(* The inode tree is protected by g_inode_sem, on which a caller may wait; *)
(* mq_open and mq_unlink hold sched_lock meanwhile, which does not keep    *)
(* other tasks out when the caller waits.  What is in a queue is the       *)
(* subject of MsgQueue.                                                    *)
(***************************************************************************)
EXTENDS Semaphore

CONSTANTS
    Names,                \* names of message queues
    Nodes,                \* inodes that the heap has memory for
    NFILES,               \* descriptors of a task
    Openers, Unlinkers,   \* tasks that call mq_open and mq_close, mq_unlink
    HandlerNames,         \* names that the interrupt handler opens
    HeapMayFail,          \* nxmq_alloc_msgq may find no memory
    HeapWaits,            \* whether it waits for the semaphore of the heap
    inode_sem             \* g_inode_sem.sem

ASSUME FilesAssumption ==
    /\ Sems = {inode_sem} /\ NONE \notin Tasks \cup Nodes
    /\ IsFiniteSet(Nodes) /\ NFILES \in Nat /\ HeapMayFail \in BOOLEAN
    /\ HeapWaits \subseteq BOOLEAN
    /\ Openers \subseteq Tasks /\ Unlinkers \subseteq Tasks
    /\ HandlerNames \subseteq Names

VARIABLES
    tree,       \* the inode of a name
    inode,      \* the inodes
    fds,        \* the inode of a descriptor of a task
    place,      \* where a task is in its call
    phase,      \* before, waiting for, or inside the inode semaphore
    call,       \* arguments and locals of a call
    holder,     \* g_inode_sem.holder
    locked,     \* the running task, when it holds sched_lock
    fault       \* an interrupt handler had to wait

callVars == <<place, phase, call>>
nodeVars == <<tree, inode>>
vars == <<semVars, nodeVars, fds, callVars, holder, locked, fault>>

\* Places under sched_lock, and places under the semaphore of the task's
\* list of descriptors.
LockedPlaces == {"find", "reserve", "new", "drop", "undo", "u_find", "u_remove", "u_free"}
FilesPlaces == {"alloc_in", "c_check", "c_release"}
Places == {"out", "alloc", "e_check", "e_release"} \cup LockedPlaces \cup FilesPlaces

\* Flags of mq_open that matter here.
Oflags == {{}, {"O_CREAT"}, {"O_CREAT", "O_EXCL"}}

NoCall == [name |-> NONE, oflags |-> {}, node |-> NONE,
           fd |-> 0, created |-> FALSE]
Calls == [name : Names \cup {NONE}, oflags : Oflags,
          node : Nodes \cup {NONE}, fd : 0..NFILES, created : BOOLEAN]
Unused == [type |-> "unused", name |-> NONE, i_crefs |-> 0, deleted |-> FALSE,
           msgq |-> FALSE, lost |-> 0]
Inodes == [type : {"unused", "plain", "mqueue", "freed"}, name : Names \cup {NONE},
           i_crefs : Nat, deleted : BOOLEAN, msgq : BOOLEAN, lost : Nat]

\* Every variable keeps its type.
TypeOK ==
    /\ SemTypeOK
    /\ tree \in [Names -> Nodes \cup {NONE}] /\ inode \in [Nodes -> Inodes]
    /\ fds \in [Tasks -> [1..NFILES -> Nodes \cup {NONE}]]
    /\ place \in [Tasks -> Places] /\ phase \in [Tasks -> {"take", "wait", "in"}]
    /\ call \in [Tasks -> Calls]
    /\ holder \in Tasks \cup {NONE} /\ locked \in Tasks \cup {NONE}
    /\ fault \in BOOLEAN

Init ==
    /\ SemInit([s \in Sems |-> 1])
    /\ tree = [n \in Names |-> NONE] /\ inode = [i \in Nodes |-> Unused]
    /\ fds = [t \in Tasks |-> [d \in 1..NFILES |-> NONE]]
    /\ place = [t \in Tasks |-> "out"] /\ phase = [t \in Tasks |-> "take"]
    /\ call = [t \in Tasks |-> NoCall]
    /\ holder = NONE /\ locked = NONE
    /\ fault = FALSE

-----------------------------------------------------------------------------
CanRun(t) == ~fault /\ task_state[t] = "READY" /\ locked \in {t, NONE}

\* Go on at a place.  sched_lock and sched_unlock are what the places say.
Goto(t, p) ==
    /\ place' = [place EXCEPT ![t] = p]
    /\ phase' = [phase EXCEPT ![t] = "take"]
    /\ locked' = IF p \in LockedPlaces THEN t ELSE NONE

Return(t) ==
    /\ Goto(t, "out")
    /\ call' = [call EXCEPT ![t] = NoCall]

SemPlaces == {"find", "reserve", "drop", "undo", "e_release", "c_release",
              "u_find", "u_remove"}

\* inode_semtake: take the semaphore or wait for it.  A task that waits is
\* replaced by another one whether it holds sched_lock or not.
SemTake(t) ==
    /\ CanRun(t) /\ place[t] \in SemPlaces /\ phase[t] = "take"
    /\ \/ /\ TakeCount(t, inode_sem)
          /\ holder' = t
          /\ phase' = [phase EXCEPT ![t] = "in"]
          /\ UNCHANGED locked
       \/ /\ BlockOn(t, inode_sem)
          /\ phase' = [phase EXCEPT ![t] = "wait"]
          /\ locked' = NONE
          /\ UNCHANGED holder
    /\ UNCHANGED <<nodeVars, fds, place, call, fault>>

\* The semaphore was handed over; the task runs with its sched_lock again.
SemResume(t) ==
    /\ CanRun(t) /\ phase[t] = "wait"
    /\ holder' = t
    /\ phase' = [phase EXCEPT ![t] = "in"]
    /\ locked' = IF place[t] \in LockedPlaces THEN t ELSE NONE
    /\ UNCHANGED <<semVars, nodeVars, fds, place, call, fault>>

Inside(t, p) == CanRun(t) /\ place[t] = p /\ phase[t] = "in"

\* Defect: the semaphore is not posted.
GiveKeeps == holder' = NONE /\ UNCHANGED semVars

inode_semgive == holder' = NONE /\ nxsem_post(inode_sem)

\* Defect: the search takes no reference.
FindOnly(i) == [inode EXCEPT ![i].i_crefs = @]

\* inode_find, inside the semaphore, counts a reference for its caller.
AddRef(i) == [inode EXCEPT ![i].i_crefs = @ + 1]

\* Defect: the count of a new inode without references is decremented.
ReleaseBlindly(i) ==
    [inode EXCEPT ![i].i_crefs = @ - 1,
                  ![i].type = IF inode[i].i_crefs <= 1 /\ inode[i].deleted
                              THEN "freed" ELSE @]

\* inode_release, inside the semaphore: the last reference to a deleted inode
\* frees it.
inode_release(i) ==
    [inode EXCEPT ![i].i_crefs = IF @ > 0 THEN @ - 1 ELSE 0,
                  ![i].type = IF inode[i].i_crefs <= 1 /\ inode[i].deleted
                              THEN "freed" ELSE @]

\* nxmq_file_close: the last reference to an unlinked queue frees the queue.
nxmq_file_close(i) ==
    [inode EXCEPT ![i].msgq = @ /\ ~(inode[i].i_crefs <= 1 /\ inode[i].deleted)]

-----------------------------------------------------------------------------
\* mq_open.

MqOpen(t, n, oflags) ==
    /\ CanRun(t) /\ place[t] = "out" /\ t \in Openers
    /\ call' = [call EXCEPT ![t] = [NoCall EXCEPT !.name = n, !.oflags = oflags]]
    /\ Goto(t, "find")
    /\ UNCHANGED <<semVars, nodeVars, fds, holder, fault>>

\* file_mq_vopen, inode_find and what follows it, where the flags matter last.
OpenFind(t) ==
    /\ Inside(t, "find")
    /\ inode_semgive
    /\ LET i == tree[call[t].name]
           fails == inode[i].type # "mqueue" \/ call[t].oflags = {"O_CREAT", "O_EXCL"}
       IN  IF i = NONE
           THEN /\ IF "O_CREAT" \in call[t].oflags
                   THEN /\ Goto(t, "reserve")
                        /\ call' = [call EXCEPT ![t].oflags = {}]
                   ELSE Return(t)                                   \* ENOENT
                /\ UNCHANGED inode
           ELSE /\ inode' = AddRef(i)
                /\ call' = [call EXCEPT ![t] = [@ EXCEPT !.oflags = {}, !.node = i,
                                                         !.created = ~fails]]
                /\ Goto(t, IF fails THEN "drop" ELSE "alloc")
    /\ UNCHANGED <<tree, fds, fault>>

\* nxmq_alloc_msgq comes next.  When another task has the heap, the caller
\* waits and its sched_lock keeps nobody out.
GotoNew(t) ==
    /\ place' = [place EXCEPT ![t] = "new"]
    /\ phase' = [phase EXCEPT ![t] = "take"]
    /\ \E waits \in HeapWaits : locked' = IF waits THEN NONE ELSE t

\* inode_reserve: a new inode without references and without a type.
OpenReserve(t) ==
    /\ Inside(t, "reserve")
    /\ inode_semgive
    /\ \/ /\ tree[call[t].name] # NONE
          /\ Return(t)             \* EEXIST
          /\ UNCHANGED nodeVars
       \/ /\ tree[call[t].name] = NONE /\ \A i \in Nodes : inode[i].type # "unused"
          /\ Return(t)             \* ENOMEM
          /\ UNCHANGED nodeVars
       \/ \E i \in Nodes :
            /\ tree[call[t].name] = NONE /\ inode[i].type = "unused"
            /\ inode' = [inode EXCEPT ![i].type = "plain", ![i].name = call[t].name]
            /\ tree' = [tree EXCEPT ![call[t].name] = i]
            /\ call' = [call EXCEPT ![t].node = i]
            /\ GotoNew(t)
    /\ UNCHANGED <<fds, fault>>

\* nxmq_alloc_msgq and the initialisation of the inode.
OpenNew(t) ==
    /\ CanRun(t) /\ place[t] = "new"
    /\ \/ /\ HeapMayFail
          /\ Goto(t, "undo")       \* ENOSPC
          /\ UNCHANGED inode
       \/ /\ inode' = [inode EXCEPT ![call[t].node].type = "mqueue",
                                    ![call[t].node].msgq = TRUE,
                                    ![call[t].node].i_crefs = 1]
          /\ Goto(t, "alloc")
    /\ UNCHANGED <<semVars, tree, fds, call, holder, fault>>

\* inode_release on the error paths of file_mq_vopen and file_mq_unlink.
DropNode(t) ==
    /\ Inside(t, "drop") \/ Inside(t, "undo")
    /\ inode_semgive
    /\ inode' = inode_release(call[t].node)
    /\ Return(t)
    /\ UNCHANGED <<tree, fds, fault>>

\* files_allocate, after the caller took the semaphore of its list.
FilesTake(t) ==
    /\ CanRun(t) /\ place[t] = "alloc"
    /\ Goto(t, "alloc_in")
    /\ UNCHANGED <<semVars, nodeVars, fds, call, holder, fault>>
FilesAllocate(t) ==
    /\ CanRun(t) /\ place[t] = "alloc_in"
    /\ \/ \E d \in 1..NFILES :
            /\ fds[t][d] = NONE /\ \A e \in 1..(d - 1) : fds[t][e] # NONE
            /\ fds' = [fds EXCEPT ![t][d] = call[t].node]
            /\ Return(t)
       \/ /\ \A d \in 1..NFILES : fds[t][d] # NONE
          /\ Goto(t, "e_check")    \* EMFILE
          /\ UNCHANGED <<fds, call>>
    /\ UNCHANGED <<semVars, nodeVars, holder, fault>>

\* No descriptor: close the queue and, when it existed, unlink it.
ErrorClose(t) ==
    /\ CanRun(t) /\ place[t] = "e_check"
    /\ inode' = nxmq_file_close(call[t].node)
    /\ Goto(t, "e_release")
    /\ UNCHANGED <<semVars, tree, fds, call, holder, fault>>
ErrorRelease(t) ==
    /\ Inside(t, "e_release")
    /\ inode_semgive
    /\ inode' = inode_release(call[t].node)
    /\ IF call[t].created
       THEN /\ Goto(t, "u_find")
            /\ call' = [call EXCEPT ![t].node = NONE]
       ELSE Return(t)
    /\ UNCHANGED <<tree, fds, fault>>

-----------------------------------------------------------------------------
\* mq_close: file_close, with the semaphore of the list of descriptors held.
MqClose(t, d) ==
    /\ CanRun(t) /\ place[t] = "out" /\ fds[t][d] # NONE
    /\ call' = [call EXCEPT ![t] = [NoCall EXCEPT !.node = fds[t][d], !.fd = d]]
    /\ Goto(t, "c_check")
    /\ UNCHANGED <<semVars, nodeVars, fds, holder, fault>>
CloseCheck(t) ==
    /\ CanRun(t) /\ place[t] = "c_check"
    /\ inode' = nxmq_file_close(call[t].node)
    /\ Goto(t, "c_release")
    /\ UNCHANGED <<semVars, tree, fds, call, holder, fault>>
CloseRelease(t) ==
    /\ Inside(t, "c_release")
    /\ inode_semgive
    /\ inode' = inode_release(call[t].node)
    /\ fds' = [fds EXCEPT ![t][call[t].fd] = NONE]
    /\ Return(t)
    /\ UNCHANGED <<tree, fault>>

-----------------------------------------------------------------------------
\* mq_unlink, also at the end of an mq_open that got no descriptor.
MqUnlink(t, n) ==
    /\ CanRun(t) /\ place[t] = "out" /\ t \in Unlinkers
    /\ call' = [call EXCEPT ![t] = [NoCall EXCEPT !.name = n]]
    /\ Goto(t, "u_find")
    /\ UNCHANGED <<semVars, nodeVars, fds, holder, fault>>
UnlinkFind(t) ==
    /\ Inside(t, "u_find")
    /\ inode_semgive
    /\ LET i == tree[call[t].name]
       IN  IF i = NONE
           THEN Return(t) /\ UNCHANGED inode                        \* ENOENT
           ELSE /\ inode' = AddRef(i)
                /\ call' = [call EXCEPT ![t].node = i]
                /\ Goto(t, IF inode[i].type = "mqueue" THEN "u_remove"
                                                       ELSE "drop")  \* ENXIO
    /\ UNCHANGED <<tree, fds, fault>>

\* Defect: an inode that is in use is taken out of the tree and not marked.
RemoveUnmarked(n) ==
    IF tree[n] # NONE /\ inode[tree[n]].i_crefs = 0
    THEN [inode EXCEPT ![tree[n]].type = "freed"] ELSE inode

\* inode_remove looks the name up again and removes what it finds.
Removed(n) ==
    IF tree[n] = NONE THEN inode
    ELSE IF inode[tree[n]].i_crefs > 0
         THEN [inode EXCEPT ![tree[n]].deleted = TRUE]
         ELSE [inode EXCEPT ![tree[n]].type = "freed"]
UnlinkRemove(t) ==
    /\ Inside(t, "u_remove")
    /\ inode_semgive
    /\ inode' = Removed(call[t].name)
    /\ tree' = [tree EXCEPT ![call[t].name] = NONE]
    /\ Goto(t, "u_free")
    /\ UNCHANGED <<fds, call, fault>>

\* Defect: the references are not looked at.
FreeAlways(nodes, i) ==
    [nodes EXCEPT ![i].msgq = FALSE, ![i].lost = @ + 1]

\* mq_inode_release: free the queue when nobody else refers to it.  The
\* reference that inode_find took is not given back.
mq_inode_release(nodes, i) ==
    [nodes EXCEPT ![i].msgq = @ /\ nodes[i].i_crefs > 1, ![i].lost = @ + 1]
UnlinkFree(t) ==
    /\ CanRun(t) /\ place[t] = "u_free"
    /\ inode' = mq_inode_release(inode, call[t].node)
    /\ Return(t)
    /\ UNCHANGED <<semVars, tree, fds, holder, fault>>

-----------------------------------------------------------------------------
\* mq_open, mq_send and mq_close in the interrupt handler, when they leave a
\* trace.  getpid names the interrupted task t, or NONE for the idle task: the
\* handler passes a semaphore that t holds, must wait for one that another
\* task holds or for t's list of descriptors, and unlinks the queue when t has
\* no free descriptor.
HandlerOpen(t, n) ==
    /\ IF t = NONE THEN ~fault /\ locked = NONE ELSE CanRun(t)
    /\ LET i == tree[n]
           enters == (holder = t /\ t # NONE) \/ Available(inode_sem)
           finds == enters /\ i # NONE /\ inode[i].type = "mqueue"
           waits == ~enters \/ (finds /\ t # NONE /\ place[t] \in FilesPlaces)
       IN  \/ /\ waits /\ fault' = TRUE
              /\ UNCHANGED nodeVars
           \/ /\ finds /\ ~waits /\ t # NONE /\ \A d \in 1..NFILES : fds[t][d] # NONE
              /\ tree' = [tree EXCEPT ![n] = NONE]
              /\ inode' = mq_inode_release([AddRef(i) EXCEPT ![i].deleted = TRUE], i)
              /\ UNCHANGED fault
    /\ UNCHANGED <<semVars, fds, callVars, holder, locked>>

-----------------------------------------------------------------------------
Step(t) ==
    \/ SemTake(t) \/ SemResume(t)
    \/ OpenFind(t) \/ OpenReserve(t) \/ OpenNew(t) \/ DropNode(t)
    \/ FilesTake(t) \/ FilesAllocate(t) \/ ErrorClose(t) \/ ErrorRelease(t)
    \/ CloseCheck(t) \/ CloseRelease(t)
    \/ UnlinkFind(t) \/ UnlinkRemove(t) \/ UnlinkFree(t)

Start(t) ==
    \/ \E n \in Names :
         \/ \E oflags \in Oflags : MqOpen(t, n, oflags)
         \/ MqUnlink(t, n)
    \/ \E d \in 1..NFILES : MqClose(t, d)

Next ==
    \/ \E t \in Tasks : Step(t) \/ Start(t)
    \/ \E t \in Tasks \cup {NONE}, n \in HandlerNames : HandlerOpen(t, n)

Spec == Init /\ [][Next]_vars

\* A task that is ready runs again: tasks of equal priority take turns, and
\* sched_lock ends or its owner waits.
Fairness == \A t \in Tasks : SF_vars(Step(t))
FairSpec == Spec /\ Fairness

-----------------------------------------------------------------------------
RefPlaces == {"alloc", "alloc_in", "drop", "e_check", "e_release", "u_remove", "u_free"}

\* Descriptors and calls that refer to inode i.
HolderSet(i) ==
    {td \in Tasks \X (1..NFILES) : fds[td[1]][td[2]] = i}
      \cup {td \in Tasks \X {0} : place[td[1]] \in RefPlaces /\ call[td[1]].node = i}

\* The reference count of a queue's inode is the number of descriptors and
\* calls that refer to it, and of the references unlinking has kept for ever.
RefsCounted ==
    \A i \in Nodes :
      inode[i].type = "mqueue" =>
        inode[i].i_crefs = Cardinality(HolderSet(i)) + inode[i].lost

\* The owner of descriptor d is closing it and has passed nxmq_file_close.
Closing(t, d) == place[t] = "c_release" /\ call[t].fd = d

\* No descriptor and no call refers to an inode that was freed, and none that
\* can still be used to a message queue that was freed, whatever unlinks and
\* closes there are.
NoDangling ==
    /\ \A t \in Tasks, d \in 1..NFILES : fds[t][d] # NONE =>
         /\ inode[fds[t][d]].type = "mqueue"
         /\ Closing(t, d) \/ inode[fds[t][d]].msgq
    /\ \A t \in Tasks : place[t] \in RefPlaces => inode[call[t].node].type # "freed"
    /\ \A t \in Tasks : place[t] \in {"alloc", "alloc_in"} => inode[call[t].node].msgq
    /\ \A n \in Names : tree[n] # NONE => inode[tree[n]].type \in {"plain", "mqueue"}

\* Every inode that was not unlinked is found under its name: there is one
\* queue of a name at a time.
NamesReach ==
    \A i \in Nodes :
      inode[i].type \in {"plain", "mqueue"} /\ ~inode[i].deleted
        => tree[inode[i].name] = i

\* "Make sure that the check for the existence of the message queue and the
\* creation of the message queue are atomic": the name is still free when
\* mq_open comes to create the queue.
AtomicCreate == \A t \in Tasks : Inside(t, "reserve") => tree[call[t].name] = NONE

\* Every call returns, unless an interrupt handler has had to wait.
CallsReturn == \A t \in Tasks : place[t] # "out" ~> place[t] = "out" \/ fault
=============================================================================
