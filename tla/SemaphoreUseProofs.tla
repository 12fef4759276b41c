------------------------- MODULE SemaphoreUseProofs -------------------------
(***************************************************************************)
(* The invariants of SemaphoreUse, for every set of tasks and semaphores.  *)
(***************************************************************************)
EXTENDS SemaphoreUse, SemaphoreProofs

(***************************************************************************)
(* The tasks that are between the two halves of a deletion; no deletion    *)
(* has begun; and a task waits only inside a call.                         *)
(***************************************************************************)
Removed == {t \in Tasks : pc[t] = "removed"}
Whole == \A t \in Tasks : pc[t] \notin {"removed", "dead"}
WaitInCall == \A t \in Tasks : task_state[t] = "WAIT_SEM" => pc[t] \in {"wait", "removed"}

(***************************************************************************)
(* What CountsWaiters says of one semaphore, of a value; the semaphores    *)
(* whose counts are exact: all, while no deletion has begun, but those     *)
(* that were destroyed while a task waited.                                *)
(***************************************************************************)
CountOK(r, s, exact) ==
    /\ r.count[s] + Cardinality(WaitersOf(r, s)) >= 0
    /\ exact =>
         /\ Cardinality(WaitersOf(r, s)) = IF r.count[s] < 0 THEN -r.count[s] ELSE 0
         /\ r.count[s] <= SEM_VALUE_MAX
Exact == {s \in Sems : Whole /\ s \notin destroyedInUse}

(***************************************************************************)
(* The inductive invariant.                                                *)
(***************************************************************************)
IInv ==
    /\ TypeOK
    /\ Listed(SemState, Removed)
    /\ WaitInCall
    /\ \A s \in Sems : CountOK(SemState, s, s \in Exact)

(***************************************************************************)
(* The invariant in the terms of the model's properties.                   *)
(***************************************************************************)
LEMMA InvariantMeans ==
  ASSUME IInv
  PROVE  WaitList /\ CountsWaiters
<1> DEFINE l == g_waitingforsemaphore
<1>1. l \in Seq(Tasks) /\ DOMAIN l = 1 .. Len(l)
  BY LenProperties DEF IInv, TypeOK, SemTypeOK
<1>2. /\ Lists(l, {t \in Tasks : task_state[t] = "WAIT_SEM"} \ Removed, Priority)
      /\ \A t \in Tasks : task_state[t] = "WAIT_SEM" => waitsem[t] \in Sems
  BY DEF IInv, Listed, Waiting, SemState
<1>3. WaitList
  <2>1. ASSUME NEW t \in Tasks
        PROVE  (\E i \in DOMAIN l : l[i] = t)
                 <=> task_state[t] = "WAIT_SEM" /\ pc[t] # "removed"
    BY <1>1, <1>2 DEF Lists, Removed
  <2>2. ASSUME NEW t \in Tasks
        PROVE  task_state[t] = "WAIT_SEM" => /\ pc[t] \in {"wait", "removed"}
                                             /\ waitsem[t] \in Sems
    BY <1>2 DEF IInv, WaitInCall
  <2>3. \A i, j \in DOMAIN l : i < j => l[i] # l[j] /\ Priority[l[i]] >= Priority[l[j]]
    BY <1>1, <1>2 DEF Lists
  <2> QED BY <2>1, <2>2, <2>3 DEF WaitList
<1>4. CountsWaiters
  <2>1. \A s \in Sems : WaitersOf(SemState, s) = Waits(s)
    BY DEF WaitersOf, Waiting, SemState, Waits
  <2>2. SemState.count = semcount
    BY DEF SemState
  <2> QED BY <2>1, <2>2 DEF IInv, CountOK, CountsWaiters, Whole, Exact
<1> QED BY <1>3, <1>4

(***************************************************************************)
(* A step that changes the count and the waiters of s alone.               *)
(***************************************************************************)
LEMMA OneCount ==
  ASSUME NEW r, NEW n, NEW s \in Sems, NEW C, NEW D,
         \A x \in Sems : CountOK(r, x, x \in C), D \ {s} \subseteq C,
         \A x \in Sems \ {s} : n.count[x] = r.count[x] /\ WaitersOf(n, x) = WaitersOf(r, x),
         CountOK(n, s, s \in D)
  PROVE  \A x \in Sems : CountOK(n, x, x \in D)
<1> SUFFICES ASSUME NEW x \in Sems, x # s PROVE CountOK(n, x, x \in D)
  OBVIOUS
<1>1. n.count[x] = r.count[x] /\ WaitersOf(n, x) = WaitersOf(r, x) /\ CountOK(r, x, x \in C)
  OBVIOUS
<1> QED BY <1>1 DEF CountOK

(***************************************************************************)
(* The counts after each operation.                                        *)
(***************************************************************************)
LEMMA TakeCounts ==
  ASSUME NEW r, NEW X, NEW s \in Sems, NEW t \in Tasks, NEW C, Listed(r, X),
         t \notin Waiting(r), r.count[s] > 0, \A x \in Sems : CountOK(r, x, x \in C)
  PROVE  \A x \in Sems : CountOK(Taken(r, t, s), x, x \in C)
<1> DEFINE n == Taken(r, t, s)
<1>1. \A x \in Sems : WaitersOf(n, x) = WaitersOf(r, x)
  BY TakeEffect
<1>2. r.count \in [Sems -> Int] /\ n.count = [r.count EXCEPT ![s] = @ - 1]
  BY DEF Listed, SemStates, Taken
<1> HIDE DEF n
<1>3. CountOK(n, s, s \in C)
  BY <1>1, <1>2, WaitersFinite, SemMaximum DEF CountOK
<1>4. \A x \in Sems : CountOK(n, x, x \in C)
  BY <1>1, <1>2, <1>3, OneCount
<1> QED BY <1>4 DEF n

(***************************************************************************)
(* A task that blocks counts itself.                                       *)
(***************************************************************************)
LEMMA BlockCounts ==
  ASSUME NEW r, NEW X, NEW s \in Sems, NEW t \in Tasks, NEW C, Listed(r, X),
         t \notin Waiting(r), t \notin X, ~(r.count[s] > 0),
         \A x \in Sems : CountOK(r, x, x \in C)
  PROVE  \A x \in Sems : CountOK(Blocked(r, t, s), x, x \in C)
<1> DEFINE n == Blocked(r, t, s)
<1>1. \A x \in Sems : WaitersOf(n, x) = IF x = s THEN WaitersOf(r, x) \cup {t}
                                        ELSE WaitersOf(r, x)
  BY BlockEffect
<1>2. r.count \in [Sems -> Int] /\ n.count = [r.count EXCEPT ![s] = @ - 1]
  BY DEF Listed, SemStates, Blocked
<1> HIDE DEF n
<1>3. Cardinality(WaitersOf(n, s)) = Cardinality(WaitersOf(r, s)) + 1
  <2>1. t \notin WaitersOf(r, s)
    BY DEF WaitersOf
  <2> QED BY <1>1, <2>1, WaitersFinite, FS_AddElement
<1>4. CountOK(n, s, s \in C)
  BY <1>2, <1>3, WaitersFinite, SemMaximum DEF CountOK
<1>5. \A x \in Sems : CountOK(n, x, x \in C)
  BY <1>1, <1>2, <1>4, OneCount
<1> QED BY <1>5 DEF n

(***************************************************************************)
(* A wait that ends gives its count back.                                  *)
(***************************************************************************)
LEMMA EndCounts ==
  ASSUME NEW r, NEW X, NEW t \in Tasks, NEW C, Listed(r, X),
         t \in Waiting(r), \A x \in Sems : CountOK(r, x, x \in C)
  PROVE  \A x \in Sems : CountOK(Ended(r, t), x, x \in C)
<1> DEFINE n == Ended(r, t)
           s == r.wait[t]
<1>1. s \in Sems /\ \A x \in Sems : WaitersOf(n, x) = WaitersOf(r, x) \ {t}
  BY EndEffect
<1>2. r.count \in [Sems -> Int] /\ n.count = [r.count EXCEPT ![s] = @ + 1]
  BY DEF Listed, SemStates, Ended
<1>3. t \in WaitersOf(r, s) /\ \A x \in Sems \ {s} : t \notin WaitersOf(r, x)
  BY DEF WaitersOf
<1> HIDE DEF n, s
<1>4. /\ Cardinality(WaitersOf(n, s)) = Cardinality(WaitersOf(r, s)) - 1
      /\ Cardinality(WaitersOf(n, s)) \in Nat
  BY <1>1, <1>3, WaitersFinite, FS_RemoveElement
<1>5. CountOK(n, s, s \in C)
  BY <1>1, <1>2, <1>4, WaitersFinite, SemMaximum DEF CountOK
<1>6. \A x \in Sems \ {s} : n.count[x] = r.count[x] /\ WaitersOf(n, x) = WaitersOf(r, x)
  BY <1>1, <1>2, <1>3
<1>7. \A x \in Sems : CountOK(n, x, x \in C)
  BY <1>1, <1>5, <1>6, OneCount
<1> QED BY <1>7 DEF n

(***************************************************************************)
(* A post gives its count to one task or to the count.                     *)
(***************************************************************************)
LEMMA PostCounts ==
  ASSUME NEW r, NEW X, NEW s \in Sems, NEW C, Listed(r, X), C # {} => X = {},
         \A x \in Sems : CountOK(r, x, x \in C)
  PROVE  \A x \in Sems : CountOK(Posted(r, s), x, x \in C)
<1> DEFINE n == Posted(r, s)
<1>0. r.count \in [Sems -> Int] /\ SEM_VALUE_MAX \in Nat /\ CountOK(r, s, s \in C)
      /\ r.state \in [Tasks -> {"READY", "WAIT_SEM", "INVALID"}]
      /\ r.wait \in [Tasks -> Sems \cup {NONE}]
  BY SemMaximum DEF Listed, SemStates
<1>1. \/ n = r
      \/ /\ r.count[s] < SEM_VALUE_MAX
         /\ r.count[s] >= 0 \/ WaitersOf(r, s) \subseteq X
         /\ n = SetCount(r, s, r.count[s] + 1)
      \/ \E b \in WaitersOf(r, s) : r.count[s] < 0 /\ Unblocked(r, n, s, b)
  BY PostEffect, Zenon
<1> HIDE DEF n
<1>2. ASSUME n = r PROVE \A x \in Sems : CountOK(n, x, x \in C)
  BY <1>2
<1>3. ASSUME r.count[s] < SEM_VALUE_MAX,
             r.count[s] >= 0 \/ WaitersOf(r, s) \subseteq X,
             n = SetCount(r, s, r.count[s] + 1)
      PROVE  \A x \in Sems : CountOK(n, x, x \in C)
  <2>1. n.count = [r.count EXCEPT ![s] = r.count[s] + 1]
        /\ \A x \in Sems : WaitersOf(n, x) = WaitersOf(r, x)
    BY <1>3 DEF SetCount, WaitersOf, Waiting
  <2>2. s \in C => r.count[s] >= 0
    <3>1. s \in C /\ WaitersOf(r, s) \subseteq X => Cardinality(WaitersOf(r, s)) = 0
      BY FS_EmptySet
    <3> QED BY <1>0, <1>3, <3>1 DEF CountOK
  <2>3. CountOK(n, s, s \in C)
    BY <1>0, <1>3, <2>1, <2>2, WaitersFinite DEF CountOK
  <2>4. \A x \in Sems \ {s} : n.count[x] = r.count[x] /\ WaitersOf(n, x) = WaitersOf(r, x)
    BY <1>0, <2>1
  <2> QED BY <2>3, <2>4, OneCount
<1>4. ASSUME NEW b \in WaitersOf(r, s), r.count[s] < 0, Unblocked(r, n, s, b)
      PROVE  \A x \in Sems : CountOK(n, x, x \in C)
  <2>1. /\ n.count = [r.count EXCEPT ![s] = @ + 1]
        /\ n.state = [r.state EXCEPT ![b] = "READY"]
        /\ n.wait = [r.wait EXCEPT ![b] = NONE]
    BY <1>4 DEF Unblocked
  <2>2. b \in Tasks /\ r.wait[b] = s
    BY DEF WaitersOf, Waiting
  <2>3. \A x \in Sems : WaitersOf(n, x) = WaitersOf(r, x) \ {b}
    BY <1>0, <2>1, <2>2 DEF WaitersOf, Waiting
  <2>4. /\ Cardinality(WaitersOf(n, s)) = Cardinality(WaitersOf(r, s)) - 1
        /\ Cardinality(WaitersOf(n, s)) \in Nat
    BY <2>3, WaitersFinite, FS_RemoveElement
  <2>5. CountOK(n, s, s \in C)
    BY <1>0, <1>4, <2>1, <2>4, WaitersFinite DEF CountOK
  <2>6. \A x \in Sems \ {s} : n.count[x] = r.count[x] /\ WaitersOf(n, x) = WaitersOf(r, x)
    BY <1>0, <2>1, <2>2, <2>3 DEF WaitersOf
  <2> QED BY <2>5, <2>6, OneCount
<1>5. \A x \in Sems : CountOK(n, x, x \in C)
  BY <1>1, <1>2, <1>3, <1>4
<1> QED BY <1>5 DEF n

(***************************************************************************)
(* The value nxsem_reset ends with, and what it keeps.                     *)
(***************************************************************************)
ResetPosts(r, s, count) ==
    IF r.count[s] >= 0 THEN 0 ELSE IF count < -r.count[s] THEN count ELSE -r.count[s]
Reset(r, s, count) ==
    LET p == ResetPosts(r, s, count)
        n == PostLoop(r, s, p)[p]
    IN  IF n.count[s] >= 0 THEN SetCount(n, s, count - p) ELSE n
ResetKeeps(r, m, s, X, C) ==
    /\ Listed(m, X)
    /\ \A x \in Sems : CountOK(m, x, x \in C)
    /\ Waiting(m) \subseteq Waiting(r)
    /\ \A t \in WokenIn(r, m), u \in WaitersOf(m, s) \ X : Priority[u] <= Priority[t]
    /\ \A t \in WokenIn(r, m) : r.wait[t] = s
    /\ \A u \in Waiting(m) : m.wait[u] = r.wait[u]

(***************************************************************************)
(* A reset keeps the wait list and the counts consistent, and only ends    *)
(* waits.                                                                  *)
(***************************************************************************)
LEMMA ResetEffect ==
  ASSUME NEW r, NEW X, NEW s \in Sems, NEW count \in 0 .. SEM_VALUE_MAX, NEW C,
         Listed(r, X), C # {} => X = {}, \A x \in Sems : CountOK(r, x, x \in C)
  PROVE  ResetKeeps(r, Reset(r, s, count), s, X, C)
<1> DEFINE p == ResetPosts(r, s, count)
           n == PostLoop(r, s, p)[p]
           m == Reset(r, s, count)
<1>0. r.count \in [Sems -> Int] /\ r.count[s] \in Int /\ SEM_VALUE_MAX \in Nat
      /\ CountOK(r, s, s \in C)
  BY SemMaximum DEF Listed, SemStates
<1>1. p \in Nat /\ p <= count /\ (p = 0 \/ r.count[s] + p <= 0)
      /\ (r.count[s] >= 0 => p = 0)
      /\ (r.count[s] < 0 => r.count[s] + p <= 0)
  BY <1>0 DEF ResetPosts
<1>2. m = IF n.count[s] >= 0 THEN SetCount(n, s, count - p) ELSE n
  BY DEF Reset
<1> HIDE DEF p, m
<1>3. PostedTimes(r, n, s, X, p)
  BY <1>1, PostLoopEffect
<1> HIDE DEF n
<1>4. /\ Listed(n, X) /\ n \in SemStates /\ n.count \in [Sems -> Int]
      /\ n.count = [r.count EXCEPT ![s] = @ + p]
      /\ n.count[s] = r.count[s] + p
  BY <1>0, <1>3 DEF PostedTimes, Listed, SemStates
<1>5. m.list = n.list /\ m.state = n.state /\ m.wait = n.wait /\ m \in SemStates
  BY <1>0, <1>1, <1>2, <1>4 DEF SetCount, SemStates
<1>6. Waiting(m) = Waiting(n) /\ \A x : WaitersOf(m, x) = WaitersOf(n, x)
  BY <1>5 DEF Waiting, WaitersOf
<1>7. Listed(m, X)
  BY <1>4, <1>5, <1>6 DEF Listed
<1>8. \A u \in Waiting(m) : m.wait[u] = r.wait[u]
  BY <1>3, <1>5, <1>6 DEF PostedTimes, WokenIn, Waiting
<1>9. \A x \in Sems \ {s} : m.count[x] = r.count[x] /\ WaitersOf(m, x) = WaitersOf(r, x)
  <2>1. ASSUME NEW x \in Sems \ {s} PROVE WaitersOf(m, x) = WaitersOf(r, x)
    <3>1. WokenIn(r, n) \subseteq WaitersOf(r, s) /\ Waiting(n) \subseteq Waiting(r)
      BY <1>3 DEF PostedTimes
    <3>2. \A t \in WaitersOf(r, x) : t \in Waiting(n)
      BY <3>1 DEF WaitersOf, WokenIn
    <3> QED BY <1>6, <1>8, <3>1, <3>2 DEF WaitersOf
  <2>2. ASSUME NEW x \in Sems \ {s} PROVE m.count[x] = r.count[x]
    BY <1>0, <1>2, <1>4 DEF SetCount
  <2> QED BY <2>1, <2>2
<1>10. CountOK(m, s, s \in C)
  <2>1. Cardinality(WaitersOf(n, s)) + p >= Cardinality(WaitersOf(r, s))
    BY <1>3 DEF PostedTimes
  <2>2. s \in C /\ r.count[s] <= 0 => Cardinality(WaitersOf(n, s)) = - n.count[s]
    <3>1. s \in C /\ r.count[s] <= 0 => X = {} /\ Balanced(r, s)
      BY <1>0 DEF CountOK, Balanced
    <3> QED BY <1>3, <3>1 DEF PostedTimes, Balanced
  <2>3. r.count[s] >= 0 => n.count[s] = r.count[s]
    BY <1>0, <1>1, <1>4
  <2>4. CASE n.count[s] >= 0
    <3>1. m.count[s] = count - p
      BY <1>2, <1>4, <2>4 DEF SetCount
    <3>2. s \in C => Cardinality(WaitersOf(n, s)) = 0
      <4>1. CASE r.count[s] <= 0
        BY <1>0, <1>1, <1>4, <2>2, <2>4, <4>1
      <4>2. CASE r.count[s] > 0
        <5>1. s \in C => Cardinality(WaitersOf(r, s)) = 0
          BY <1>0, <4>2 DEF CountOK
        <5>2. WaitersOf(n, s) \subseteq WaitersOf(r, s)
          BY <1>3, <1>6, <1>8 DEF PostedTimes, WaitersOf
        <5> QED BY <5>1, <5>2, WaitersFinite, FS_Subset
      <4> QED BY <1>0, <4>1, <4>2
    <3> QED BY <1>0, <1>1, <1>6, <3>1, <3>2, WaitersFinite DEF CountOK
  <2>5. CASE n.count[s] < 0
    <3>1. m.count[s] = n.count[s] /\ r.count[s] < 0
      BY <1>0, <1>1, <1>2, <1>4, <2>5
    <3> QED BY <1>0, <1>1, <1>4, <1>6, <2>1, <2>2, <2>5, <3>1, WaitersFinite DEF CountOK
  <2> QED BY <1>4, <2>4, <2>5
<1>11. \A x \in Sems : CountOK(m, x, x \in C)
  BY <1>9, <1>10, OneCount
<1>12. WokenIn(r, m) = WokenIn(r, n)
  BY <1>6 DEF WokenIn
<1>13. /\ Waiting(m) \subseteq Waiting(r)
       /\ \A t \in WokenIn(r, m), u \in WaitersOf(m, s) \ X : Priority[u] <= Priority[t]
       /\ \A t \in WokenIn(r, m) : r.wait[t] = s
  BY <1>3, <1>6, <1>12 DEF PostedTimes, WaitersOf
<1> QED BY <1>7, <1>8, <1>11, <1>13 DEF m, ResetKeeps

(***************************************************************************)
(* nxsem_reset as a value.                                                 *)
(***************************************************************************)
LEMMA ResetStates ==
  ASSUME NEW s \in Sems, NEW count \in 0 .. SEM_VALUE_MAX, NEW X, NEW C,
         Listed(SemState, X), C # {} => X = {}, \A x \in Sems : CountOK(SemState, x, x \in C)
  PROVE  nxsem_reset(s, count) => SemState' = Reset(SemState, s, count)
<1>1. Reset(SemState, s, count) \in SemStates
  <2>1. ResetKeeps(SemState, Reset(SemState, s, count), s, X, C)
    BY ResetEffect
  <2> QED BY <2>1 DEF ResetKeeps, Listed
<1>2. SemState.count = semcount
  BY DEF SemState
<1>3. nxsem_reset(s, count) => SemBecomes(Reset(SemState, s, count))
  BY <1>2 DEF nxsem_reset, Reset, ResetPosts
<1> QED BY <1>1, <1>3, SemBecomesState

(***************************************************************************)
(* The variables other than the semaphores keep their types.               *)
(***************************************************************************)
OtherTypeOK ==
    /\ errcode \in [Tasks -> {"OK", "EINTR", "ETIMEDOUT"}]
    /\ pc \in [Tasks -> {"out", "wait", "destroy", "removed", "dead"}]
    /\ waitdog \in [Tasks -> BOOLEAN]
    /\ doomed \in [Tasks -> Sems \cup {NONE}] /\ destroyedInUse \subseteq Sems
    /\ \A t \in Tasks : pc[t] = "destroy" => doomed[t] \in Sems
    /\ ret \in Codes
    /\ fault \in BOOLEAN

(***************************************************************************)
(* The variables that are not part of SemState keep their types.           *)
(***************************************************************************)
LEMMA OtherTypes ==
  ASSUME TypeOK, Next
  PROVE  OtherTypeOK'
<1> USE DEF TypeOK, SemTypeOK, Codes, OtherTypeOK, destroyVars
<1>1. ASSUME NEW t \in Tasks, NEW s \in Sems, SemWait(t, s) PROVE  OtherTypeOK'
  BY <1>1 DEF SemWait, TakeCount, BlockOn, Return
<1>2. ASSUME NEW t \in Tasks, NEW s \in Sems, SemTryWait(t, s) PROVE  OtherTypeOK'
  BY <1>2 DEF SemTryWait, TakeCount, Return, semVars
<1>3. ASSUME NEW t \in Tasks, NEW s \in Sems, SemPost(t, s) PROVE  OtherTypeOK'
  BY <1>3 DEF SemPost, nxsem_post
<1>4. ASSUME NEW t \in Tasks, NEW s \in Sems, SemDestroy(t, s) PROVE  OtherTypeOK'
  BY <1>4 DEF SemDestroy, Return, semVars
<1>5. ASSUME NEW t \in Tasks, NEW s \in Sems, NEW count, SemReset(t, s, count) PROVE  OtherTypeOK'
  BY <1>5 DEF SemReset, nxsem_reset
<1>6. ASSUME NEW t \in Tasks, NEW s \in Sems,
             NEW time \in {"OK", "EAGAIN", "ETIMEDOUT", "EINVAL"},
             SemTimedWait(t, s, time) PROVE  OtherTypeOK'
  <2>1. /\ \/ UNCHANGED pc \/ pc' = [pc EXCEPT ![t] = "wait"]
        /\ \/ UNCHANGED ret \/ \E code \in Codes : ret' = code
        /\ UNCHANGED <<fault, doomed, destroyedInUse>>
    BY <1>6 DEF SemTimedWait, Return
  <2>2. waitdog' \in [Tasks -> BOOLEAN] /\ errcode' \in [Tasks -> {"OK", "EINTR", "ETIMEDOUT"}]
    BY <1>6 DEF SemTimedWait, TakeCount, BlockOn, semVars
  <2> QED BY <2>1, <2>2
<1>7. ASSUME NEW t \in Tasks, ResumeWait(t) PROVE  OtherTypeOK'
  BY <1>7 DEF ResumeWait, Return, semVars
<1>8. ASSUME NEW t \in Tasks, nxsem_timeout(t) PROVE  OtherTypeOK'
  BY <1>8 DEF nxsem_timeout, nxsem_wait_irq, semVars
<1>9. ASSUME NEW t \in Tasks, SignalTask(t) PROVE  OtherTypeOK'
  BY <1>9 DEF SignalTask, nxsem_wait_irq
<1>10. ASSUME NEW t \in Tasks, TaskTerminate(t) PROVE  OtherTypeOK'
  BY <1>10 DEF TaskTerminate
<1>11. ASSUME NEW t \in Tasks, TaskRecover(t) PROVE  OtherTypeOK'
  BY <1>11 DEF TaskRecover
<1>12. ASSUME NEW s \in IsrSems, IsrPost(s) PROVE  OtherTypeOK'
  BY <1>12 DEF IsrPost, nxsem_post
<1>13. ASSUME Halted PROVE  OtherTypeOK'
  BY <1>13 DEF Halted, vars, semVars
<1>14. ASSUME NEW t \in Tasks, SemDestroyStore(t) PROVE  OtherTypeOK'
  BY <1>14 DEF SemDestroyStore, nxsem_destroy, Return
<1> QED
  BY <1>1, <1>2, <1>3, <1>4, <1>5, <1>6, <1>7, <1>8, <1>9, <1>10, <1>11, <1>12,
     <1>13, <1>14 DEF Next

(***************************************************************************)
(* What a step on the semaphores has to keep, in terms of SemState.        *)
(***************************************************************************)
StepKeeps ==
    /\ Listed(SemState', Removed')
    /\ WaitInCall'
    /\ \A s \in Sems : CountOK(SemState', s, s \in Exact')

(***************************************************************************)
(* A step in which no task moves keeps the invariant if it keeps the wait  *)
(* list and the counts, and only ends waits.                               *)
(***************************************************************************)
LEMMA NoTaskMoves ==
  ASSUME IInv, UNCHANGED <<pc, destroyedInUse>>, Listed(SemState', Removed),
         Waiting(SemState') \subseteq Waiting(SemState),
         \A s \in Sems : CountOK(SemState', s, s \in Exact)
  PROVE  StepKeeps
<1>1. Removed' = Removed /\ Exact' = Exact
  BY DEF Removed, Whole, Exact
<1>2. WaitInCall'
  BY DEF WaitInCall, IInv, Waiting, SemState
<1> QED BY <1>1, <1>2 DEF StepKeeps

(***************************************************************************)
(* No deletion, no removed task; and the facts every action starts from.   *)
(***************************************************************************)
LEMMA StepFacts ==
  ASSUME IInv
  PROVE  /\ Listed(SemState, Removed) /\ (Exact # {} => Removed = {})
         /\ \A s \in Sems : CountOK(SemState, s, s \in Exact)
         /\ \A t \in Tasks : pc[t] \in {"out", "destroy", "dead"} => t \notin Waiting(SemState)
         /\ \A t \in Tasks : t \in Waiting(SemState) <=> task_state[t] = "WAIT_SEM"
         /\ pc \in [Tasks -> {"out", "wait", "destroy", "removed", "dead"}]
         /\ task_state \in [Tasks -> {"READY", "WAIT_SEM", "INVALID"}]
         /\ waitsem \in [Tasks -> Sems \cup {NONE}]
         /\ semcount \in [Sems -> Int] /\ SemState.count = semcount
         /\ SemState.state = task_state /\ SemState.wait = waitsem
         /\ SemState.list = g_waitingforsemaphore
BY DEF IInv, TypeOK, SemTypeOK, Removed, Whole, Exact, WaitInCall, Waiting, SemState

(***************************************************************************)
(* A task takes a count, or blocks.                                        *)
(***************************************************************************)
LEMMA TakeStep ==
  ASSUME IInv, NEW t \in Tasks, NEW s \in Sems, pc[t] = "out", TakeCount(t, s),
         UNCHANGED <<pc, destroyedInUse>>
  PROVE  StepKeeps
<1>1. SemState' = Taken(SemState, t, s)
  BY WaitStates
<1>2. t \notin Waiting(SemState) /\ SemState.count[s] > 0
  BY StepFacts DEF TakeCount, Available
<1>3. \A x \in Sems : CountOK(Taken(SemState, t, s), x, x \in Exact)
  BY <1>2, StepFacts, TakeCounts
<1>4. Listed(Taken(SemState, t, s), Removed)
  BY <1>2, StepFacts, TakeEffect
<1>5. Waiting(Taken(SemState, t, s)) \subseteq Waiting(SemState)
  BY DEF Waiting, Taken
<1> QED BY <1>1, <1>3, <1>4, <1>5, NoTaskMoves

(***************************************************************************)
(* A wait that finds no count.                                             *)
(***************************************************************************)
LEMMA BlockStep ==
  ASSUME IInv, NEW t \in Tasks, NEW s \in Sems, pc[t] = "out", BlockOn(t, s),
         pc' = [pc EXCEPT ![t] = "wait"], UNCHANGED destroyedInUse
  PROVE  StepKeeps
<1>1. SemState' = Blocked(SemState, t, s)
  BY WaitStates
<1>2. t \notin Waiting(SemState) /\ ~(SemState.count[s] > 0) /\ t \notin Removed
  BY StepFacts DEF BlockOn, Available, Removed
<1>3. \A x \in Sems : CountOK(Blocked(SemState, t, s), x, x \in Exact)
  BY <1>2, StepFacts, BlockCounts
<1>4. Listed(Blocked(SemState, t, s), Removed)
  BY <1>2, StepFacts, BlockEffect
<1>5. Removed' = Removed /\ Exact' = Exact
  BY StepFacts DEF Removed, Whole, Exact
<1>6. WaitInCall'
  BY StepFacts DEF WaitInCall, IInv, BlockOn
<1> QED BY <1>1, <1>3, <1>4, <1>5, <1>6 DEF StepKeeps

(***************************************************************************)
(* A step that leaves the semaphores and the tasks alone.                  *)
(***************************************************************************)
LEMMA IdleStep ==
  ASSUME IInv, UNCHANGED semVars, Removed' = Removed, Exact' = Exact, WaitInCall'
  PROVE  StepKeeps
<1>1. SemState' = SemState
  BY DEF SemState, semVars
<1> QED BY <1>1, StepFacts DEF StepKeeps

(***************************************************************************)
(* A signal or a timeout ends a wait.                                      *)
(***************************************************************************)
LEMMA EndStep ==
  ASSUME IInv, NEW t \in Tasks, NEW code, nxsem_wait_irq(t, code),
         UNCHANGED <<pc, destroyedInUse>>
  PROVE  StepKeeps
<1>0. t \in Waiting(SemState)
  BY StepFacts DEF nxsem_wait_irq
<1>s. waitsem[t] \in Sems
  BY <1>0, StepFacts, EndEffect
<1>1. SemState' = Ended(SemState, t)
  BY <1>s, WaitStates
<1>3. \A x \in Sems : CountOK(Ended(SemState, t), x, x \in Exact)
  BY <1>0, StepFacts, EndCounts
<1>4. Listed(Ended(SemState, t), Removed)
  BY <1>0, StepFacts, EndEffect
<1>5. Waiting(Ended(SemState, t)) \subseteq Waiting(SemState)
  BY StepFacts DEF Waiting, Ended
<1> QED BY <1>1, <1>3, <1>4, <1>5, NoTaskMoves

(***************************************************************************)
(* A post, a reset and a destruction.                                      *)
(***************************************************************************)
LEMMA PostStep ==
  ASSUME IInv, NEW s \in Sems, nxsem_post(s), UNCHANGED <<pc, destroyedInUse>>
  PROVE  StepKeeps
<1>1. SemState' = Posted(SemState, s)
  BY StepFacts, PostStates
<1>3. \A x \in Sems : CountOK(Posted(SemState, s), x, x \in Exact)
  BY StepFacts, PostCounts
<1>4. Listed(Posted(SemState, s), Removed)
  BY StepFacts, PostEffect
<1>5. Waiting(Posted(SemState, s)) \subseteq Waiting(SemState)
  BY StepFacts DEF Waiting, Posted, SetCount
<1> QED BY <1>1, <1>3, <1>4, <1>5, NoTaskMoves

(***************************************************************************)
(* A reset.                                                                *)
(***************************************************************************)
LEMMA ResetStep ==
  ASSUME IInv, NEW s \in Sems, NEW count \in 0 .. SEM_VALUE_MAX,
         nxsem_reset(s, count), UNCHANGED <<pc, destroyedInUse>>
  PROVE  StepKeeps
<1>1. SemState' = Reset(SemState, s, count)
  BY StepFacts, ResetStates
<1>2. /\ Listed(Reset(SemState, s, count), Removed)
      /\ \A x \in Sems : CountOK(Reset(SemState, s, count), x, x \in Exact)
      /\ Waiting(Reset(SemState, s, count)) \subseteq Waiting(SemState)
  <2>1. ResetKeeps(SemState, Reset(SemState, s, count), s, Removed, Exact)
    BY StepFacts, ResetEffect
  <2> QED BY <2>1 DEF ResetKeeps
<1> QED BY <1>1, <1>2, NoTaskMoves

(***************************************************************************)
(* The store of a destruction, after which the count is exact unless a     *)
(* task waits.                                                             *)
(***************************************************************************)
LEMMA DestroyStep ==
  ASSUME IInv, NEW t \in Tasks, SemDestroyStore(t)
  PROVE  StepKeeps
<1>0. PICK s \in Sems : s = doomed[t]
  BY DEF IInv, TypeOK, SemDestroyStore
<1> DEFINE n == SetCount(SemState, s, 1)
<1>1. SemState' = n
  BY <1>0 DEF SemDestroyStore, nxsem_destroy, SemState, SetCount
<1>2. /\ n.count = [semcount EXCEPT ![s] = 1] /\ n.list = SemState.list
      /\ n.state = SemState.state /\ n.wait = SemState.wait
  BY StepFacts DEF SetCount
<1>3. n \in SemStates
  BY StepFacts, <1>2 DEF SetCount, SemStates, Listed
<1> HIDE DEF n
<1>4. Waiting(n) = Waiting(SemState) /\ \A x : WaitersOf(n, x) = WaitersOf(SemState, x)
  BY <1>2 DEF Waiting, WaitersOf
<1>5. Listed(n, Removed)
  BY <1>2, <1>3, <1>4, StepFacts DEF Listed
<1>9. /\ Removed' = Removed /\ Exact' \subseteq Exact
      /\ s \in Exact' => s \in Exact /\ ~(semcount[s] < 0)
  BY <1>0, StepFacts DEF SemDestroyStore, Removed, Whole, Exact
<1>6. CountOK(n, s, s \in Exact')
  <2>1. CountOK(SemState, s, s \in Exact) /\ SemState.count[s] = semcount[s] /\ semcount[s] \in Int
        /\ n.count[s] = 1 /\ WaitersOf(n, s) = WaitersOf(SemState, s)
    BY <1>2, <1>4, StepFacts
  <2> QED BY <1>9, <2>1, WaitersFinite, SemMaximum DEF CountOK
<1>7. \A x \in Sems \ {s} : n.count[x] = SemState.count[x]
                            /\ WaitersOf(n, x) = WaitersOf(SemState, x)
  BY <1>2, <1>4, StepFacts
<1>8. \A x \in Sems : CountOK(n, x, x \in Exact')
  BY <1>6, <1>7, <1>9, StepFacts, OneCount
<1>10. WaitInCall'
  BY <1>1, <1>2, StepFacts DEF SemDestroyStore, nxsem_destroy, WaitInCall, IInv
<1> QED BY <1>1, <1>5, <1>8, <1>9, <1>10 DEF StepKeeps

(***************************************************************************)
(* The two halves of a deletion.                                           *)
(***************************************************************************)
LEMMA TerminateStep ==
  ASSUME IInv, NEW t \in Tasks, TaskTerminate(t)
  PROVE  StepKeeps
<1> DEFINE n == SemState'
           M == Waiting(SemState) \ Removed
<1>1. /\ n = [SemState EXCEPT !.list = dq_rem(SemState.list, t)]
      /\ n.list = dq_rem(SemState.list, t) /\ n.count = SemState.count
      /\ n.state = SemState.state /\ n.wait = SemState.wait
  BY DEF TaskTerminate, SemState
<1>2. Removed' = Removed \cup {t} /\ Exact' = {}
  BY StepFacts DEF TaskTerminate, Removed, Whole, Exact
<1>3. /\ SemState.list \in Seq(Tasks) /\ M \in SUBSET Tasks
      /\ Lists(SemState.list, M, Priority)
  BY StepFacts DEF Listed, SemStates, Waiting
<1>4. dq_rem(SemState.list, t) \in Seq(Tasks)
      /\ Lists(dq_rem(SemState.list, t), M \ {t}, Priority)
  <2> HIDE DEF M
  <2> QED BY <1>3, SemPriorities, DqRemLists
<1>5. n \in SemStates
  BY <1>1, <1>4, StepFacts DEF TaskTerminate, SemState, SemStates, Listed
<1>6. Waiting(n) = Waiting(SemState) /\ \A x : WaitersOf(n, x) = WaitersOf(SemState, x)
  BY <1>1 DEF Waiting, WaitersOf
<1>7. Listed(n, Removed')
  <2>1. Waiting(n) \ Removed' = M \ {t}
    BY <1>2, <1>6
  <2>2. Lists(n.list, Waiting(n) \ Removed', Priority)
    BY <1>1, <1>4, <2>1
  <2> QED BY <1>1, <1>5, <1>6, <2>2, StepFacts DEF Listed
<1>8. \A x \in Sems : CountOK(n, x, x \in Exact')
  BY <1>1, <1>2, <1>6, StepFacts DEF CountOK
<1>9. WaitInCall'
  BY StepFacts DEF TaskTerminate, WaitInCall, IInv
<1> QED BY <1>7, <1>8, <1>9 DEF StepKeeps

(***************************************************************************)
(* nxsem_recover gives back the count of a task that waited.               *)
(***************************************************************************)
LEMMA RecoverStep ==
  ASSUME IInv, NEW t \in Tasks, TaskRecover(t)
  PROVE  StepKeeps
<1> DEFINE r == SemState
           n == SemState'
           s == waitsem[t]
<1>1. /\ n.list = r.list
      /\ n.state = [r.state EXCEPT ![t] = "INVALID"]
      /\ n.wait = [r.wait EXCEPT ![t] = NONE]
      /\ n.count = IF t \in Waiting(r) THEN [r.count EXCEPT ![s] = @ + 1] ELSE r.count
  BY StepFacts DEF TaskRecover, SemState
<1>2. Removed' = Removed \ {t} /\ Exact' = {} /\ t \in Removed
  BY StepFacts DEF TaskRecover, Removed, Whole, Exact
<1>3. t \in Waiting(r) => s \in Sems
  BY StepFacts DEF Listed
<1>4. n \in SemStates
  <2>1. n = [count |-> n.count, list |-> n.list, state |-> n.state, wait |-> n.wait]
    BY DEF SemState
  <2>2. r.list \in Seq(Tasks)
    BY StepFacts DEF Listed, SemStates
  <2>3. /\ n.count \in [Sems -> Int]
        /\ n.state \in [Tasks -> {"READY", "WAIT_SEM", "INVALID"}]
        /\ n.wait \in [Tasks -> Sems \cup {NONE}]
    BY <1>1, <1>3, StepFacts
  <2> HIDE DEF n
  <2> QED BY <1>1, <2>1, <2>2, <2>3 DEF SemStates
<1>0. /\ r.count \in [Sems -> Int] /\ r.state \in [Tasks -> {"READY", "WAIT_SEM", "INVALID"}]
      /\ r.wait \in [Tasks -> Sems \cup {NONE}]
      /\ Lists(r.list, Waiting(r) \ Removed, Priority)
      /\ \A u \in Waiting(r) : r.wait[u] \in Sems
      /\ \A x \in Sems : CountOK(r, x, x \in Exact)
      /\ r.wait[t] = s
  BY StepFacts DEF Listed
<1>9. WaitInCall'
  BY StepFacts DEF TaskRecover, WaitInCall, IInv
<1> HIDE DEF r, n, s
<1>5. Waiting(n) = Waiting(r) \ {t} /\ \A u \in Waiting(n) : n.wait[u] = r.wait[u]
  BY <1>0, <1>1 DEF Waiting
<1>6. \A x \in Sems : WaitersOf(n, x) = WaitersOf(r, x) \ {t}
  BY <1>5 DEF WaitersOf
<1>7. Listed(n, Removed')
  <2>1. Waiting(n) \ Removed' = Waiting(r) \ Removed
    BY <1>2, <1>5
  <2>2. Lists(n.list, Waiting(n) \ Removed', Priority)
    BY <1>0, <1>1, <2>1
  <2> QED BY <1>0, <1>4, <1>5, <2>2 DEF Listed
<1>8. ASSUME NEW x \in Sems PROVE CountOK(n, x, x \in Exact')
  <2>1. CASE t \in WaitersOf(r, x)
    <3>1. t \in Waiting(r) /\ x = s
      BY <1>0, <2>1 DEF WaitersOf
    <3>2. n.count[x] = r.count[x] + 1
      BY <1>0, <1>1, <3>1
    <3>3. Cardinality(WaitersOf(n, x)) = Cardinality(WaitersOf(r, x)) - 1
      BY <1>6, <2>1, WaitersFinite, FS_RemoveElement
    <3> QED BY <1>0, <1>2, <3>2, <3>3, WaitersFinite DEF CountOK
  <2>2. CASE t \notin WaitersOf(r, x)
    <3>1. WaitersOf(n, x) = WaitersOf(r, x)
      BY <1>6, <2>2
    <3>2. n.count[x] = r.count[x]
      BY <1>0, <1>1, <2>2 DEF WaitersOf
    <3> QED BY <1>0, <1>2, <3>1, <3>2 DEF CountOK
  <2> QED BY <2>1, <2>2
<1> QED BY <1>7, <1>8, <1>9 DEF StepKeeps, n

(***************************************************************************)
(* Every step keeps the invariant.                                         *)
(***************************************************************************)
LEMMA NextKeeps ==
  ASSUME IInv, Next
  PROVE  StepKeeps
<1>1. ASSUME NEW t \in Tasks, NEW s \in Sems, SemWait(t, s) PROVE StepKeeps
  BY <1>1, TakeStep, BlockStep DEF SemWait, CanCall, destroyVars
<1>2. ASSUME NEW t \in Tasks, NEW s \in Sems, SemTryWait(t, s) PROVE StepKeeps
  <2>1. CASE TakeCount(t, s)
    BY <1>2, <2>1, TakeStep DEF SemTryWait, CanCall, destroyVars
  <2>2. CASE UNCHANGED semVars
    <3>1. Removed' = Removed /\ Exact' = Exact /\ WaitInCall'
      BY <1>2, <2>2 DEF SemTryWait, semVars, Removed, Whole, Exact,
         destroyVars, WaitInCall, IInv
    <3> QED BY <2>2, <3>1, IdleStep
  <2> QED BY <1>2, <2>1, <2>2 DEF SemTryWait
<1>3. ASSUME NEW t \in Tasks, NEW s \in Sems, SemPost(t, s) PROVE StepKeeps
  BY <1>3, PostStep DEF SemPost, destroyVars
<1>4. ASSUME NEW t \in Tasks, NEW s \in Sems, SemDestroy(t, s) PROVE StepKeeps
  <2>1. UNCHANGED semVars /\ Removed' = Removed /\ Exact' = Exact /\ WaitInCall'
    BY <1>4, StepFacts DEF SemDestroy, CanCall, semVars, Removed, Whole, Exact,
       WaitInCall, IInv
  <2> QED BY <2>1, IdleStep
<1>5. ASSUME NEW t \in Tasks, NEW s \in Sems, NEW count \in 0 .. SEM_VALUE_MAX,
             SemReset(t, s, count)
      PROVE  StepKeeps
  BY <1>5, ResetStep DEF SemReset, destroyVars
<1>6. ASSUME NEW t \in Tasks, NEW s \in Sems, NEW time, SemTimedWait(t, s, time)
      PROVE  StepKeeps
  <2>1. CASE TakeCount(t, s) /\ UNCHANGED pc
    BY <1>6, <2>1, TakeStep DEF SemTimedWait, CanCall, destroyVars
  <2>2. CASE UNCHANGED <<semVars, pc>>
    <3>1. UNCHANGED semVars /\ Removed' = Removed /\ Exact' = Exact /\ WaitInCall'
      BY <1>6, <2>2 DEF SemTimedWait, semVars, Removed, Whole, Exact,
         destroyVars, WaitInCall, IInv
    <3> QED BY <3>1, IdleStep
  <2>3. CASE BlockOn(t, s) /\ pc' = [pc EXCEPT ![t] = "wait"]
    BY <1>6, <2>3, BlockStep DEF SemTimedWait, CanCall, destroyVars
  <2> QED BY <1>6, <2>1, <2>2, <2>3 DEF SemTimedWait
<1>7. ASSUME NEW t \in Tasks, ResumeWait(t) PROVE StepKeeps
  <2>1. UNCHANGED semVars /\ Removed' = Removed /\ Exact' = Exact /\ WaitInCall'
    BY <1>7, StepFacts DEF ResumeWait, semVars, Removed, Whole, Exact,
         destroyVars, WaitInCall, IInv
  <2> QED BY <2>1, IdleStep
<1>8. ASSUME NEW t \in Tasks, nxsem_timeout(t) PROVE StepKeeps
  <2>1. CASE UNCHANGED <<semVars, pc>>
    <3>1. UNCHANGED semVars /\ Removed' = Removed /\ Exact' = Exact /\ WaitInCall'
      BY <1>8, <2>1 DEF nxsem_timeout, semVars, Removed, Whole, Exact,
         destroyVars, WaitInCall, IInv
    <3> QED BY <3>1, IdleStep
  <2> QED BY <1>8, <2>1, EndStep DEF nxsem_timeout, destroyVars
<1>9. ASSUME NEW t \in Tasks, SignalTask(t) PROVE StepKeeps
  BY <1>9, EndStep DEF SignalTask, destroyVars
<1>10. ASSUME NEW s \in IsrSems, IsrPost(s) PROVE StepKeeps
  BY <1>10, PostStep, SemUsers DEF IsrPost, destroyVars
<1>11. ASSUME Halted PROVE StepKeeps
  <2>1. UNCHANGED semVars /\ Removed' = Removed /\ Exact' = Exact /\ WaitInCall'
    BY <1>11 DEF Halted, vars, semVars, Removed, Whole, Exact,
         destroyVars, WaitInCall, IInv
  <2> QED BY <2>1, IdleStep
<1> QED
  BY <1>1, <1>2, <1>3, <1>4, <1>5, <1>6, <1>7, <1>8, <1>9, <1>10, <1>11,
     DestroyStep, TerminateStep, RecoverStep DEF Next

(***************************************************************************)
(* The counts, the wait list and the waiting tasks agree in every          *)
(* reachable state.                                                        *)
(***************************************************************************)
THEOREM SemaphoresConsistent == Spec => []IInv
<1>1. ASSUME Init PROVE IInv
  <2>1. TypeOK
    <3>1. InitCount \in [Sems -> Int]
      BY SemUsers, SemMaximum
    <3>2. waitdog \in [Tasks -> BOOLEAN] /\ fault \in BOOLEAN
      BY <1>1, Zenon DEF Init
    <3>3. SemTypeOK
      BY <1>1, <3>1 DEF Init, SemInit, SemTypeOK
    <3>4. /\ pc \in [Tasks -> {"out", "wait", "destroy", "removed", "dead"}]
          /\ ret \in Codes
      BY <1>1 DEF Init, Codes
    <3>5. /\ doomed \in [Tasks -> Sems \cup {NONE}] /\ destroyedInUse \subseteq Sems
          /\ \A t \in Tasks : pc[t] = "destroy" => doomed[t] \in Sems
      BY <1>1 DEF Init
    <3> QED BY <3>2, <3>3, <3>4, <3>5 DEF TypeOK
  <2>2. SemState \in SemStates
    BY <2>1, SemStateType DEF TypeOK
  <2>3. Waiting(SemState) = {} /\ SemState.list = <<>> /\ SemState.count = InitCount
    BY <1>1 DEF Init, SemInit, SemState, Waiting
  <2>4. Listed(SemState, Removed)
    BY <2>2, <2>3 DEF Listed, Lists
  <2>5. WaitInCall
    BY <1>1 DEF Init, SemInit, WaitInCall
  <2>6. ASSUME NEW s \in Sems PROVE CountOK(SemState, s, s \in Exact)
    <3>1. WaitersOf(SemState, s) = {}
      BY <2>3 DEF WaitersOf
    <3>2. Cardinality(WaitersOf(SemState, s)) = 0
      BY <3>1, FS_EmptySet
    <3>3. InitCount[s] \in 0 .. SEM_VALUE_MAX
      BY SemUsers
    <3> QED BY <2>3, <3>2, <3>3, SemMaximum DEF CountOK
  <2> QED BY <2>1, <2>4, <2>5, <2>6 DEF IInv
<1>2. ASSUME IInv, [Next]_vars PROVE IInv'
  <2>1. CASE Next
    <3>1. StepKeeps
      BY <1>2, <2>1, NextKeeps
    <3>2. SemState' \in SemStates
      BY <3>1 DEF StepKeeps, Listed
    <3>3. OtherTypeOK'
      BY <1>2, <2>1, OtherTypes DEF IInv
    <3>4. TypeOK'
      BY <3>2, <3>3 DEF TypeOK, SemTypeOK, OtherTypeOK, SemStates, SemState
    <3> QED BY <3>1, <3>4 DEF StepKeeps, IInv
  <2>2. CASE UNCHANGED vars
    <3>1. SemState' = SemState /\ Removed' = Removed /\ Exact' = Exact
      BY <2>2 DEF vars, semVars, destroyVars, SemState, Removed, Whole, Exact
    <3>2. TypeOK' /\ WaitInCall'
      BY <1>2, <2>2 DEF IInv, vars, semVars, destroyVars, TypeOK, SemTypeOK, WaitInCall
    <3> QED BY <1>2, <3>1, <3>2 DEF IInv
  <2> QED BY <1>2, <2>1, <2>2
<1> QED BY <1>1, <1>2, PTL DEF Spec

(***************************************************************************)
(* Every variable of SemaphoreUse keeps its type.                          *)
(***************************************************************************)
THEOREM SemaphoreTypes == Spec => []TypeOK
BY SemaphoresConsistent, PTL DEF IInv

(***************************************************************************)
(* A negative count is the number of tasks that wait, whatever the order   *)
(* of waits, posts, resets, timeouts, signals and deletions, unless the    *)
(* semaphore was destroyed while a task waited.                            *)
(***************************************************************************)
THEOREM CountsAreWaiters == Spec => []CountsWaiters
<1>1. IInv => CountsWaiters
  BY InvariantMeans
<1> QED BY <1>1, SemaphoresConsistent, PTL

(***************************************************************************)
(* g_waitingforsemaphore is the waiting tasks, once each, by priority.     *)
(***************************************************************************)
THEOREM WaitListHoldsWaiters == Spec => []WaitList
<1>1. IInv => WaitList
  BY InvariantMeans
<1> QED BY <1>1, SemaphoresConsistent, PTL

(***************************************************************************)
(* A step wakes waiters of the highest priority with OK.                   *)
(***************************************************************************)
WakesBest ==
    \A t, u \in Tasks :
       /\ task_state[t] = "WAIT_SEM" /\ task_state'[t] = "READY"
       /\ errcode'[t] = "OK"
       /\ task_state[u] = "WAIT_SEM" /\ waitsem[u] = waitsem[t]
       /\ task_state'[u] = "WAIT_SEM" /\ pc[u] # "removed"
       => Priority[u] <= Priority[t]

(***************************************************************************)
(* A post wakes a best waiter.                                             *)
(***************************************************************************)
LEMMA PostWakesBest ==
  ASSUME IInv, NEW s \in Sems, nxsem_post(s)
  PROVE  WakesBest
<1> SUFFICES ASSUME NEW t \in Tasks, NEW u \in Tasks,
                    task_state[t] = "WAIT_SEM", task_state'[t] = "READY",
                    task_state[u] = "WAIT_SEM", waitsem[u] = waitsem[t],
                    task_state'[u] = "WAIT_SEM", pc[u] # "removed"
             PROVE  Priority[u] <= Priority[t]
  BY DEF WakesBest
<1> DEFINE n == Posted(SemState, s)
<1>1. task_state' = n.state
  BY DEF nxsem_post, SemBecomes
<1>2. \/ n.state = SemState.state
      \/ \E b \in WaitersOf(SemState, s) \ Removed :
           /\ Unblocked(SemState, n, s, b)
           /\ \A v \in WaitersOf(SemState, s) \ Removed : Priority[v] <= Priority[b]
  <2> HIDE DEF n
  <2>1. \/ n = SemState
        \/ n = SetCount(SemState, s, SemState.count[s] + 1)
        \/ \E b \in WaitersOf(SemState, s) \ Removed :
             /\ Unblocked(SemState, n, s, b)
             /\ \A v \in WaitersOf(SemState, s) \ Removed : Priority[v] <= Priority[b]
    BY StepFacts, PostEffect, Zenon DEF n
  <2> QED BY <2>1 DEF SetCount
<1> HIDE DEF n
<1>3. PICK b \in WaitersOf(SemState, s) \ Removed :
           /\ Unblocked(SemState, n, s, b)
           /\ \A v \in WaitersOf(SemState, s) \ Removed : Priority[v] <= Priority[b]
  BY <1>1, <1>2, StepFacts
<1>4. n.state = [task_state EXCEPT ![b] = "READY"]
  BY <1>3, StepFacts DEF Unblocked
<1>5. t = b
  BY <1>1, <1>4, StepFacts
<1>6. u \in WaitersOf(SemState, s) \ Removed
  BY <1>3, <1>5, StepFacts DEF WaitersOf, Removed
<1> QED BY <1>3, <1>5, <1>6

(***************************************************************************)
(* A reset wakes the best waiters.                                         *)
(***************************************************************************)
LEMMA ResetWakesBest ==
  ASSUME IInv, NEW s \in Sems, NEW count \in 0 .. SEM_VALUE_MAX,
         nxsem_reset(s, count)
  PROVE  WakesBest
<1> SUFFICES ASSUME NEW t \in Tasks, NEW u \in Tasks,
                    task_state[t] = "WAIT_SEM", task_state'[t] = "READY",
                    task_state[u] = "WAIT_SEM", waitsem[u] = waitsem[t],
                    task_state'[u] = "WAIT_SEM", pc[u] # "removed"
             PROVE  Priority[u] <= Priority[t]
  BY DEF WakesBest
<1> DEFINE m == Reset(SemState, s, count)
<1>1. SemState' = m
  BY StepFacts, ResetStates
<1>2. /\ \A a \in WokenIn(SemState, m), v \in WaitersOf(m, s) \ Removed :
            Priority[v] <= Priority[a]
      /\ \A a \in WokenIn(SemState, m) : SemState.wait[a] = s
      /\ \A v \in Waiting(m) : m.wait[v] = SemState.wait[v]
  <2>1. /\ Listed(SemState, Removed) /\ (Exact # {} => Removed = {})
        /\ \A x \in Sems : CountOK(SemState, x, x \in Exact)
    BY StepFacts
  <2>2. ResetKeeps(SemState, m, s, Removed, Exact)
    BY <2>1, ResetEffect
  <2> QED BY <2>2 DEF ResetKeeps
<1> HIDE DEF m
<1>3. task_state' = m.state
  BY <1>1 DEF SemState
<1>4. t \in WokenIn(SemState, m) /\ u \in Waiting(m) /\ u \notin Removed
  BY <1>3, StepFacts DEF WokenIn, Waiting, Removed
<1>5. u \in WaitersOf(m, s)
  BY <1>2, <1>4, StepFacts DEF WaitersOf
<1> QED BY <1>2, <1>4, <1>5

(***************************************************************************)
(* A post, or a reset for several, never passes over a waiter of a higher  *)
(* priority.                                                               *)
(***************************************************************************)
THEOREM BestWaiterIsWoken == Spec => BestWaiterWoken
<1>1. ASSUME IInv, [Next]_vars PROVE [WakesBest]_vars
  <2>1. ASSUME NEW t \in Tasks, NEW s \in Sems, SemWait(t, s) PROVE WakesBest
    BY <1>1, <2>1, StepFacts DEF WakesBest, SemWait, TakeCount, BlockOn
  <2>2. ASSUME NEW t \in Tasks, NEW s \in Sems, SemTryWait(t, s) PROVE WakesBest
    BY <2>2 DEF WakesBest, SemTryWait, TakeCount, semVars
  <2>3. ASSUME NEW t \in Tasks, NEW s \in Sems, SemPost(t, s) PROVE WakesBest
    BY <1>1, <2>3, PostWakesBest DEF SemPost
  <2>4. ASSUME NEW t \in Tasks, NEW s \in Sems, SemDestroy(t, s) PROVE WakesBest
    BY <2>4 DEF WakesBest, SemDestroy, semVars
  <2>5. ASSUME NEW t \in Tasks, NEW s \in Sems, NEW count \in 0 .. SEM_VALUE_MAX,
               SemReset(t, s, count)
        PROVE  WakesBest
    BY <1>1, <2>5, ResetWakesBest DEF SemReset
  <2>6. ASSUME NEW t \in Tasks, NEW s \in Sems, NEW time, SemTimedWait(t, s, time)
        PROVE  WakesBest
    BY <1>1, <2>6, StepFacts DEF WakesBest, SemTimedWait, TakeCount, BlockOn, semVars
  <2>7. ASSUME NEW t \in Tasks, ResumeWait(t) PROVE WakesBest
    BY <2>7 DEF WakesBest, ResumeWait, semVars
  <2>8. ASSUME NEW t \in Tasks, nxsem_timeout(t) PROVE WakesBest
    BY <1>1, <2>8, StepFacts DEF WakesBest, nxsem_timeout, nxsem_wait_irq, semVars, IInv,
       TypeOK, SemTypeOK
  <2>9. ASSUME NEW t \in Tasks, SignalTask(t) PROVE WakesBest
    BY <1>1, <2>9, StepFacts DEF WakesBest, SignalTask, nxsem_wait_irq, IInv,
       TypeOK, SemTypeOK
  <2>10. ASSUME NEW t \in Tasks, TaskTerminate(t) PROVE WakesBest
    BY <2>10 DEF WakesBest, TaskTerminate
  <2>11. ASSUME NEW t \in Tasks, TaskRecover(t) PROVE WakesBest
    BY <1>1, <2>11, StepFacts DEF WakesBest, TaskRecover
  <2>12. ASSUME NEW s \in IsrSems, IsrPost(s) PROVE WakesBest
    BY <1>1, <2>12, PostWakesBest, SemUsers DEF IsrPost
  <2>13. ASSUME Halted PROVE [WakesBest]_vars
    BY <2>13 DEF Halted
  <2>14. ASSUME NEW t \in Tasks, SemDestroyStore(t) PROVE WakesBest
    BY <2>14 DEF WakesBest, SemDestroyStore, nxsem_destroy
  <2> QED
    BY <1>1, <2>1, <2>2, <2>3, <2>4, <2>5, <2>6, <2>7, <2>8, <2>9, <2>10, <2>11,
       <2>12, <2>13, <2>14 DEF Next
<1>2. BestWaiterWoken <=> [][WakesBest]_vars
  BY PTL DEF BestWaiterWoken, WakesBest
<1> QED BY <1>1, <1>2, SemaphoresConsistent, PTL DEF Spec
=============================================================================
