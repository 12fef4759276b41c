---------------------------- MODULE KernelProofs ----------------------------
(***************************************************************************)
(* Theorems about Kernel, for any numbers of tasks, priorities, watchdogs  *)
(* and delays.  First the task lists, then the watchdogs.                  *)
(***************************************************************************)
EXTENDS Kernel, PrioListProofs

AllTasks == Tasks \cup {idle}

(***************************************************************************)
(* Scheduler states whose ready list holds the tasks of R and whose        *)
(* pending list holds those of P, each once and by priority.  The idle     *)
(* task is ready, and no other task has a priority as low.                 *)
(***************************************************************************)
SchedStates ==
    [ready : Seq(AllTasks), pending : Seq(AllTasks), priority : [AllTasks -> Nat],
     lock : [AllTasks -> Nat], slice : 0 .. RR_INTERVAL]

Holds(s, R, P) ==
    /\ s \in SchedStates
    /\ R \subseteq AllTasks /\ idle \in R /\ P \subseteq Tasks /\ R \cap P = {}
    /\ Lists(s.ready, R, s.priority) /\ Lists(s.pending, P, s.priority)
    /\ s.priority[idle] = 0 /\ \A t \in Tasks : s.priority[t] >= 1

(***************************************************************************)
(* A list with an entry is not empty; its head is its first entry.         *)
(***************************************************************************)
LEMMA HeadOfLists ==
  ASSUME NEW X, NEW s \in Seq(X), NEW M, NEW Q, NEW e \in M, Lists(s, M, Q)
  PROVE  /\ Len(s) \in Nat /\ Len(s) >= 1 /\ s # <<>>
         /\ Head(s) = s[1] /\ Head(s) \in M /\ 1 \in 1 .. Len(s)
<1>0. Len(s) \in Nat
  BY LenProperties
<1>1. PICK i \in 1 .. Len(s) : s[i] = e
  BY DEF Lists
<1>2. Len(s) >= 1 /\ 1 \in 1 .. Len(s)
  BY <1>0, <1>1
<1>3. s # <<>>
  BY <1>2
<1>4. Head(s) = s[1]
  BY <1>3, HeadTailProperties
<1> QED BY <1>0, <1>2, <1>3, <1>4 DEF Lists

(***************************************************************************)
(* nxsched_add_prioritized: the task is in the list after it, and the head *)
(* of the list is another one only if its priority was lower.              *)
(***************************************************************************)
LEMMA AddPrioritized ==
  ASSUME NEW s \in SchedStates, NEW list \in Seq(AllTasks), NEW M \in SUBSET AllTasks,
         NEW t \in AllTasks, t \notin M, Lists(list, M, s.priority)
  PROVE  LET n == nxsched_add_prioritized(s, list, t)
         IN  /\ n \in Seq(AllTasks) /\ Lists(n, M \cup {t}, s.priority)
             /\ list # <<>> /\ s.priority[Head(list)] >= s.priority[t]
                  => Head(n) = Head(list)
             /\ list # <<>> /\ s.priority[Head(list)] < s.priority[t]
                  => Head(n) = t
<1> DEFINE Q == s.priority
           lower == {i \in DOMAIN list : Q[list[i]] < Q[t]}
           n == InsertBefore(list, lower, t)
<1>1. Q \in [AllTasks -> Nat]
  BY DEF SchedStates
<1>2. nxsched_add_prioritized(s, list, t) = n
  BY DEF nxsched_add_prioritized
<1> HIDE DEF Q
<1>3. n \in Seq(AllTasks) /\ Lists(n, M \cup {t}, Q)
  <2>1. Lists(list, M, Q)
    BY DEF Q
  <2> QED BY <1>1, <2>1, InsertKeepsList
<1>4. ASSUME list # <<>>
      PROVE  /\ Q[Head(list)] >= Q[t] => Head(n) = Head(list)
             /\ Q[Head(list)] < Q[t] => Head(n) = t
  <2>0. Len(list) \in Nat /\ Len(list) >= 1 /\ DOMAIN list = 1 .. Len(list)
    BY <1>4, LenProperties, EmptySeq
  <2>1. Head(list) = list[1] /\ list[1] \in AllTasks
    BY <1>4, <2>0, HeadTailProperties, ElementOfSeq
  <2>2. lower \in SUBSET (1 .. Len(list))
    BY <2>0
  <2>3. PICK k \in 1 .. Len(list) + 1 :
               /\ IsInsertion(n, list, k, t, AllTasks)
               /\ k <= Len(list) => k \in lower
               /\ \A j \in 1 .. k - 1 : j \notin lower
    <3> HIDE DEF lower
    <3> QED BY <2>2, InsertBeforeProperties
  <2>4. 1 \in lower <=> Q[list[1]] < Q[t]
    BY <2>0
  <2> HIDE DEF lower, n
  <2>5. /\ n \in Seq(AllTasks) /\ Len(n) = Len(list) + 1
        /\ \A j \in 1 .. Len(list) + 1 :
             n[j] = IF j < k THEN list[j] ELSE IF j = k THEN t ELSE list[j - 1]
    BY <2>3 DEF IsInsertion
  <2>6. Head(n) = n[1]
    <3>1. n # <<>>
      BY <2>0, <2>5
    <3> QED BY <2>5, <3>1, HeadTailProperties
  <2>7. 1 \in 1 .. Len(list) + 1 /\ (1 < k \/ k = 1)
    BY <2>0
  <2>8. CASE 1 < k
    <3>1. 1 \notin lower
      BY <2>3, <2>8
    <3>2. n[1] = list[1]
      BY <2>5, <2>7, <2>8
    <3>3. Q[list[1]] \in Nat /\ Q[t] \in Nat
      BY <1>1, <2>1
    <3> QED BY <2>1, <2>4, <2>6, <3>1, <3>2, <3>3
  <2>9. CASE k = 1
    <3>1. 1 \in lower
      BY <2>0, <2>3, <2>9
    <3>2. n[1] = t
      BY <2>5, <2>7, <2>9
    <3>3. Q[list[1]] \in Nat /\ Q[t] \in Nat
      BY <1>1, <2>1
    <3> QED BY <2>1, <2>4, <2>6, <3>1, <3>2, <3>3
  <2> QED BY <2>7, <2>8, <2>9
<1> HIDE DEF n
<1> QED BY <1>2, <1>3, <1>4 DEF Q

(***************************************************************************)
(* The head of the ready list.                                             *)
(***************************************************************************)
LEMMA HeadOfReady ==
  ASSUME NEW s, NEW R, NEW P, Holds(s, R, P)
  PROVE  /\ Head(s.ready) \in R /\ Head(s.ready) \in AllTasks /\ s.ready # <<>>
         /\ Head(s.ready) = s.ready[1] /\ Len(s.ready) \in Nat /\ Len(s.ready) >= 1
<1>1. s.ready \in Seq(AllTasks) /\ idle \in R /\ Lists(s.ready, R, s.priority)
      /\ R \subseteq AllTasks
  BY DEF Holds, SchedStates
<1> QED BY <1>1, HeadOfLists

(***************************************************************************)
(* A new list in a scheduler state.                                        *)
(***************************************************************************)
LEMMA NewLists ==
  ASSUME NEW s, NEW R, NEW P, Holds(s, R, P),
         NEW n \in Seq(AllTasks), NEW M
  PROVE  /\ /\ M \subseteq AllTasks /\ idle \in M /\ M \cap P = {}
            /\ Lists(n, M, s.priority)
            => Holds([s EXCEPT !.ready = n], M, P)
         /\ M \subseteq Tasks /\ M \cap R = {} /\ Lists(n, M, s.priority)
            => Holds([s EXCEPT !.pending = n], R, M)
<1>1. /\ [s EXCEPT !.ready = n] \in SchedStates
      /\ [s EXCEPT !.ready = n].ready = n
      /\ [s EXCEPT !.ready = n].pending = s.pending
      /\ [s EXCEPT !.ready = n].priority = s.priority
  BY DEF Holds, SchedStates
<1>2. /\ [s EXCEPT !.pending = n] \in SchedStates
      /\ [s EXCEPT !.pending = n].pending = n
      /\ [s EXCEPT !.pending = n].ready = s.ready
      /\ [s EXCEPT !.pending = n].priority = s.priority
  BY DEF Holds, SchedStates
<1>3. ASSUME M \subseteq AllTasks /\ idle \in M /\ M \cap P = {}
             /\ Lists(n, M, s.priority)
      PROVE  Holds([s EXCEPT !.ready = n], M, P)
  BY <1>1, <1>3 DEF Holds
<1>4. ASSUME M \subseteq Tasks /\ M \cap R = {} /\ Lists(n, M, s.priority)
      PROVE  Holds([s EXCEPT !.pending = n], R, M)
  <2>1. R \cap M = {}
    BY <1>4
  <2> QED BY <1>2, <1>4, <2>1 DEF Holds
<1> QED BY <1>3, <1>4

(***************************************************************************)
(* What nxsched_add_readytorun leaves alone, and where it puts the task.   *)
(***************************************************************************)
LEMMA AddReady ==
  ASSUME NEW s, NEW R, NEW P, Holds(s, R, P), NEW t \in Tasks, t \notin R \cup P
  PROVE  LET n == nxsched_add_readytorun(s, t)
             r == Head(s.ready)
         IN  /\ n \in SchedStates
             /\ n.priority = s.priority /\ n.lock = s.lock /\ n.slice = s.slice
             /\ s.lock[r] > 0 /\ s.priority[r] < s.priority[t] =>
                  Holds(n, R, P \cup {t}) /\ n.ready = s.ready
             /\ ~(s.lock[r] > 0 /\ s.priority[r] < s.priority[t]) =>
                  Holds(n, R \cup {t}, P) /\ n.pending = s.pending
             /\ s.lock[r] > 0 => Head(n.ready) = r
             /\ s.priority[r] >= s.priority[t] => Head(n.ready) = r
             /\ s.lock[r] = 0 /\ s.priority[r] < s.priority[t] => Head(n.ready) = t
<1> DEFINE r == Head(s.ready)
           n == nxsched_add_readytorun(s, t)
           x == nxsched_add_prioritized(s, s.ready, t)
           y == nxsched_add_prioritized(s, s.pending, t)
<1>0. /\ s \in SchedStates /\ R \subseteq AllTasks /\ P \subseteq AllTasks
      /\ s.ready \in Seq(AllTasks) /\ s.pending \in Seq(AllTasks)
      /\ Lists(s.ready, R, s.priority) /\ Lists(s.pending, P, s.priority)
      /\ t \in AllTasks /\ P \subseteq Tasks /\ idle \in R /\ R \cap P = {}
  BY DEF Holds, SchedStates, AllTasks
<1>1. /\ s.priority \in [AllTasks -> Nat] /\ s.lock \in [AllTasks -> Nat]
      /\ r \in AllTasks /\ s.ready # <<>>
  BY <1>0, HeadOfReady DEF SchedStates
<1>2. /\ x \in Seq(AllTasks) /\ Lists(x, R \cup {t}, s.priority)
      /\ s.priority[r] >= s.priority[t] => Head(x) = r
      /\ s.priority[r] < s.priority[t] => Head(x) = t
  <2>1. R \in SUBSET AllTasks /\ t \notin R
    BY <1>0
  <2>2. /\ x \in Seq(AllTasks) /\ Lists(x, R \cup {t}, s.priority)
        /\ s.ready # <<>> /\ s.priority[r] >= s.priority[t] => Head(x) = r
        /\ s.ready # <<>> /\ s.priority[r] < s.priority[t] => Head(x) = t
    BY <1>0, <2>1, AddPrioritized
  <2> HIDE DEF x, r
  <2> QED BY <1>1, <2>2
<1>3. y \in Seq(AllTasks) /\ Lists(y, P \cup {t}, s.priority)
  BY <1>0, AddPrioritized
<1>4. n = IF s.lock[r] > 0 /\ s.priority[r] < s.priority[t]
          THEN [s EXCEPT !.pending = y] ELSE [s EXCEPT !.ready = x]
  BY DEF nxsched_add_readytorun
<1> HIDE DEF x, y, r, n
<1>5. CASE s.lock[r] > 0 /\ s.priority[r] < s.priority[t]
  <2>0. n = [s EXCEPT !.pending = y]
    BY <1>4, <1>5
  <2>1. P \cup {t} \subseteq Tasks /\ (P \cup {t}) \cap R = {}
    BY <1>0
  <2>2. Holds(n, R, P \cup {t})
    BY <1>3, <2>0, <2>1, NewLists
  <2>3. /\ n.ready = s.ready /\ n.priority = s.priority
        /\ n.lock = s.lock /\ n.slice = s.slice
    BY <1>0, <2>0 DEF SchedStates
  <2>4. ~(s.priority[r] >= s.priority[t]) /\ s.lock[r] # 0
    BY <1>0, <1>1, <1>5
  <2> QED BY <1>5, <2>2, <2>3, <2>4 DEF Holds, r, n
<1>6. CASE ~(s.lock[r] > 0 /\ s.priority[r] < s.priority[t])
  <2>0. n = [s EXCEPT !.ready = x]
    BY <1>4, <1>6
  <2>1. R \cup {t} \subseteq AllTasks /\ idle \in R \cup {t} /\ (R \cup {t}) \cap P = {}
    BY <1>0
  <2>2. Holds(n, R \cup {t}, P)
    BY <1>2, <2>0, <2>1, NewLists
  <2>3. /\ n.pending = s.pending /\ n.priority = s.priority /\ n.ready = x
        /\ n.lock = s.lock /\ n.slice = s.slice
    BY <1>0, <2>0 DEF SchedStates
  <2>4. s.lock[r] > 0 => s.priority[r] >= s.priority[t]
    BY <1>0, <1>1, <1>6
  <2> QED BY <1>2, <1>6, <2>2, <2>3, <2>4 DEF Holds, r, n
<1> QED BY <1>5, <1>6 DEF r, n

(***************************************************************************)
(* dq_rem of a task from the ready list and from the pending list.         *)
(***************************************************************************)
LEMMA RemoveTask ==
  ASSUME NEW s, NEW R, NEW P, Holds(s, R, P), NEW t \in Tasks
  PROVE  /\ Holds([s EXCEPT !.ready = dq_rem(@, t)], R \ {t}, P)
         /\ Holds([s EXCEPT !.pending = dq_rem(@, t)], R, P \ {t})
<1>0. /\ s \in SchedStates /\ s.priority \in [AllTasks -> Nat]
      /\ s.ready \in Seq(AllTasks) /\ s.pending \in Seq(AllTasks)
      /\ Lists(s.ready, R, s.priority) /\ Lists(s.pending, P, s.priority)
      /\ R \in SUBSET AllTasks /\ P \in SUBSET AllTasks
      /\ P \subseteq Tasks /\ idle \in R /\ R \cap P = {}
  BY DEF Holds, SchedStates, AllTasks
<1>1. dq_rem(s.ready, t) \in Seq(AllTasks) /\ Lists(dq_rem(s.ready, t), R \ {t}, s.priority)
  BY <1>0, DqRemLists
<1>2. dq_rem(s.pending, t) \in Seq(AllTasks)
      /\ Lists(dq_rem(s.pending, t), P \ {t}, s.priority)
  BY <1>0, DqRemLists
<1>3. idle # t
  BY SchedTasks
<1>4. R \ {t} \subseteq AllTasks /\ idle \in R \ {t} /\ (R \ {t}) \cap P = {}
  BY <1>0, <1>3
<1>5. P \ {t} \subseteq Tasks /\ (P \ {t}) \cap R = {}
  BY <1>0
<1> QED BY <1>1, <1>2, <1>4, <1>5, NewLists

(***************************************************************************)
(* The loop of nxsched_merge_pending is well defined: every list follows   *)
(* from the one before by the insertion of one pending task.               *)
(***************************************************************************)
LEMMA MergeLoopSteps ==
  ASSUME NEW s, Len(s.pending) \in Nat
  PROVE  \A n \in 0 .. Len(s.pending) :
            MergeLoop(s)[n] =
              IF n = 0 THEN s.ready ELSE nxsched_add_prioritized(s, MergeLoop(s)[n - 1], s.pending[n])
<1> DEFINE p == Len(s.pending)
           Loop(m, g) ==
             g = [n \in 0 .. m |-> IF n = 0 THEN s.ready ELSE nxsched_add_prioritized(s, g[n - 1], s.pending[n])]
           T == {m \in 0 .. p : ~ \E g : Loop(m, g)}
<1>0. p \in Nat /\ p \in 0 .. p
  OBVIOUS
<1>1. MergeLoop(s) = CHOOSE g : Loop(p, g)
  BY DEF MergeLoop
<1> HIDE DEF p
<1>2. T = {}
  <2> SUFFICES ASSUME T # {} PROVE FALSE
    OBVIOUS
  <2>1. T \in SUBSET Nat
    BY <1>0
  <2> DEFINE m == Min(T)
  <2>2. m \in T /\ \A k \in T : m <= k
    <3> HIDE DEF T
    <3> QED BY <2>1, MinProperties
  <2> HIDE DEF m
  <2>3. m \in Nat /\ m <= p /\ ~ \E g : Loop(m, g)
    BY <1>0, <2>2
  <2>4. CASE m = 0
    <3> DEFINE g == [n \in 0 .. 0 |-> s.ready]
    <3>1. g = [n \in 0 .. 0 |-> IF n = 0 THEN s.ready ELSE nxsched_add_prioritized(s, g[n - 1], s.pending[n])]
      OBVIOUS
    <3> QED BY <2>3, <2>4, <3>1
  <2>5. CASE m > 0
    <3>1. m - 1 \in 0 .. p /\ m - 1 \notin T
      <4> HIDE DEF T, Loop
      <4> QED BY <1>0, <2>2, <2>3, <2>5
    <3>2. PICK g : Loop(m - 1, g)
      BY <3>1
    <3> DEFINE h == [n \in 0 .. m |-> IF n = m THEN nxsched_add_prioritized(s, g[m - 1], s.pending[m]) ELSE g[n]]
    <3>3. ASSUME NEW n \in 0 .. m
          PROVE  h[n] = IF n = 0 THEN s.ready ELSE nxsched_add_prioritized(s, h[n - 1], s.pending[n])
      <4>1. CASE n = m
        <5>1. h[n] = nxsched_add_prioritized(s, g[m - 1], s.pending[m]) /\ n # 0
          BY <4>1, <2>3, <2>5
        <5>2. n - 1 \in 0 .. m /\ n - 1 # m /\ n - 1 = m - 1
          BY <4>1, <2>3, <2>5
        <5>3. h[n - 1] = g[m - 1]
          BY <5>2
        <5> QED BY <4>1, <5>1, <5>3
      <4>2. CASE n # m
        <5>1. n \in 0 .. m - 1 /\ h[n] = g[n]
          BY <4>2, <2>3
        <5>2. g[n] = IF n = 0 THEN s.ready ELSE nxsched_add_prioritized(s, g[n - 1], s.pending[n])
          BY <3>2, <5>1
        <5>3. n # 0 => n - 1 \in 0 .. m /\ n - 1 # m
          BY <5>1, <2>3
        <5>4. n # 0 => h[n - 1] = g[n - 1]
          BY <5>3
        <5> QED BY <5>1, <5>2, <5>4
      <4> QED BY <4>1, <4>2
    <3>4. h = [n \in 0 .. m |-> h[n]]
      OBVIOUS
    <3> HIDE DEF h
    <3>5. h = [n \in 0 .. m |-> IF n = 0 THEN s.ready ELSE nxsched_add_prioritized(s, h[n - 1], s.pending[n])]
      BY <3>3, <3>4
    <3> QED BY <2>3, <3>5
  <2> QED BY <2>3, <2>4, <2>5
<1>3. \E g : Loop(p, g)
  BY <1>0, <1>2
<1>4. Loop(p, MergeLoop(s))
  <2> HIDE DEF Loop
  <2> QED BY <1>1, <1>3
<1> QED BY <1>4 DEF p

(***************************************************************************)
(* nxsched_merge_pending moves every pending task to the ready list.       *)
(***************************************************************************)
LEMMA MergePending ==
  ASSUME NEW s, NEW R, NEW P, Holds(s, R, P)
  PROVE  LET n == nxsched_merge_pending(s)
         IN  /\ Holds(n, R \cup P, {}) /\ n.pending = <<>>
             /\ n.priority = s.priority /\ n.lock = s.lock /\ n.slice = s.slice
<1> DEFINE p == Len(s.pending)
           f == MergeLoop(s)
           Q == s.priority
           Moved(k) == {s.pending[i] : i \in 1 .. k}
           Good(k) == f[k] \in Seq(AllTasks) /\ Lists(f[k], R \cup Moved(k), Q)
           T == {k \in 0 .. p : ~Good(k)}
<1>0. /\ s \in SchedStates /\ p \in Nat /\ R \subseteq AllTasks /\ P \subseteq Tasks
      /\ s.ready \in Seq(AllTasks) /\ s.pending \in Seq(AllTasks)
      /\ Lists(s.ready, R, Q) /\ Lists(s.pending, P, Q) /\ R \cap P = {}
      /\ idle \in R /\ Tasks \subseteq AllTasks
  BY LenProperties DEF Holds, SchedStates, AllTasks
<1>1. \A n \in 0 .. p :
         f[n] = IF n = 0 THEN s.ready ELSE nxsched_add_prioritized(s, f[n - 1], s.pending[n])
  BY <1>0, MergeLoopSteps
<1>2. Moved(p) = P
  BY <1>0 DEF Lists
<1>3. \A i \in 1 .. p : s.pending[i] \in P
  BY <1>0 DEF Lists
<1> HIDE DEF f
<1>4. T = {}
  <2> SUFFICES ASSUME T # {} PROVE FALSE
    OBVIOUS
  <2>1. T \in SUBSET Nat
    BY <1>0
  <2> DEFINE m == Min(T)
  <2>2. m \in T /\ \A k \in T : m <= k
    <3> HIDE DEF T
    <3> QED BY <2>1, MinProperties
  <2> HIDE DEF m
  <2>3. m \in 0 .. p /\ ~Good(m) /\ m \in Nat
    BY <1>0, <2>2
  <2>4. CASE m = 0
    <3>1. f[0] = s.ready
      BY <1>1, <2>3, <2>4
    <3>2. R \cup Moved(0) = R
      OBVIOUS
    <3> QED BY <1>0, <2>3, <2>4, <3>1, <3>2
  <2>5. CASE m # 0
    <3>1. m - 1 \in 0 .. p /\ m - 1 \notin T /\ m \in 1 .. p
      <4> HIDE DEF T, Good
      <4> QED BY <1>0, <2>2, <2>3, <2>5
    <3>2. f[m - 1] \in Seq(AllTasks) /\ Lists(f[m - 1], R \cup Moved(m - 1), Q)
      BY <3>1
    <3>3. s.pending[m] \notin R \cup Moved(m - 1)
      <4>1. \A i \in 1 .. m - 1 : s.pending[i] # s.pending[m]
        <5>1. \A i \in 1 .. m - 1 : i \in 1 .. p /\ i < m
          BY <1>0, <3>1
        <5> QED BY <1>0, <3>1, <5>1 DEF Lists
      <4> QED BY <1>0, <1>3, <3>1, <4>1
    <3>4. R \cup Moved(m - 1) \in SUBSET AllTasks
      <4>1. \A i \in 1 .. m - 1 : i \in 1 .. p
        BY <1>0, <3>1
      <4> QED BY <1>0, <1>3, <4>1
    <3>5. s.pending[m] \in AllTasks
      BY <1>0, <1>3, <3>1
    <3> DEFINE n == nxsched_add_prioritized(s, f[m - 1], s.pending[m])
               M == R \cup Moved(m - 1)
    <3>6. n \in Seq(AllTasks) /\ Lists(n, M \cup {s.pending[m]}, Q)
      <4> HIDE DEF M
      <4>1. f[m - 1] \in Seq(AllTasks) /\ M \in SUBSET AllTasks
            /\ s.pending[m] \notin M /\ Lists(f[m - 1], M, s.priority)
        BY <3>2, <3>3, <3>4 DEF M
      <4> QED BY <1>0, <3>5, <4>1, AddPrioritized
    <3>7. M \cup {s.pending[m]} = R \cup Moved(m)
      <4>1. 1 .. m = (1 .. m - 1) \cup {m}
        BY <2>3, <3>1
      <4> QED BY <4>1
    <3>8. f[m] = n
      BY <1>1, <2>3, <2>5
    <3> HIDE DEF n, M
    <3>9. Good(m)
      BY <3>6, <3>7, <3>8
    <3> QED BY <2>3, <3>9
  <2> QED BY <2>4, <2>5
<1>5. Good(p)
  <2>1. p \in 0 .. p
    BY <1>0
  <2> QED BY <1>4, <2>1
<1>6. f[p] \in Seq(AllTasks) /\ Lists(f[p], R \cup P, Q)
  BY <1>2, <1>5
<1> DEFINE n == nxsched_merge_pending(s)
<1>7. n = IF s.pending = <<>> THEN s ELSE [s EXCEPT !.pending = <<>>, !.ready = f[p]]
  BY DEF nxsched_merge_pending, f
<1> HIDE DEF n
<1>8. CASE s.pending = <<>>
  <2>1. P = {}
    <3>1. p = 0
      BY <1>8
    <3> QED BY <1>0, <3>1 DEF Lists
  <2>2. R \cup P = R
    BY <2>1
  <2> QED BY <1>7, <1>8, <2>1, <2>2 DEF n
<1>9. CASE s.pending # <<>>
  <2>1. n = [s EXCEPT !.pending = <<>>, !.ready = f[p]]
    BY <1>7, <1>9
  <2>2. <<>> \in Seq(AllTasks) /\ Len(<<>>) = 0
    BY EmptySeq
  <2>3. /\ n \in SchedStates /\ n.ready = f[p] /\ n.pending = <<>>
        /\ n.priority = s.priority /\ n.lock = s.lock /\ n.slice = s.slice
    BY <1>0, <1>6, <2>1, <2>2 DEF SchedStates
  <2>4. Lists(<<>>, {}, Q)
    BY <2>2 DEF Lists
  <2>5. R \cup P \subseteq AllTasks /\ idle \in R \cup P
    BY <1>0
  <2>6. n.priority[idle] = 0 /\ \A t \in Tasks : n.priority[t] >= 1
    BY <2>3 DEF Holds
  <2>7. Lists(n.ready, R \cup P, n.priority) /\ Lists(n.pending, {}, n.priority)
    BY <1>6, <2>3, <2>4
  <2>8. {} \subseteq Tasks /\ (R \cup P) \cap {} = {}
    OBVIOUS
  <2>9. Holds(n, R \cup P, {})
    BY <2>3, <2>5, <2>6, <2>7, <2>8 DEF Holds
  <2> QED BY <2>3, <2>9 DEF n
<1> QED BY <1>8, <1>9

(***************************************************************************)
(* The tasks of A are ready or pending, and Served: no task is pending     *)
(* when the running task does not hold sched_lock.                         *)
(***************************************************************************)
Covers(s, A) == \E R, P : Holds(s, R, P) /\ R \cup P = A
Served(s) == s.lock[Head(s.ready)] = 0 => s.pending = <<>>

(***************************************************************************)
(* A task is found in a list if it is one of its entries.                  *)
(***************************************************************************)
LEMMA InListIsMember ==
  ASSUME NEW s, NEW R, NEW P, Holds(s, R, P), NEW t
  PROVE  (InList(s.ready, t) <=> t \in R) /\ (InList(s.pending, t) <=> t \in P)
<1>1. /\ DOMAIN s.ready = 1 .. Len(s.ready) /\ DOMAIN s.pending = 1 .. Len(s.pending)
      /\ Lists(s.ready, R, s.priority) /\ Lists(s.pending, P, s.priority)
  BY LenProperties DEF Holds, SchedStates
<1> QED BY <1>1 DEF InList, PositionsOf, Lists

(***************************************************************************)
(* nxsched_resume_scheduler does not touch the lists.                      *)
(***************************************************************************)
LEMMA ResumedKeeps ==
  ASSUME NEW s, NEW n, NEW R, NEW P, Holds(n, R, P)
  PROVE  LET m == Resumed(s, n)
         IN  /\ Holds(m, R, P) /\ m.ready = n.ready /\ m.pending = n.pending
             /\ m.priority = n.priority /\ m.lock = n.lock
<1> DEFINE m == [n EXCEPT !.slice = RR_INTERVAL]
<1>1. n \in SchedStates
  BY DEF Holds
<1>2. RR_INTERVAL \in 0 .. RR_INTERVAL
  BY SchedInterval
<1>3. /\ m \in SchedStates /\ m.ready = n.ready /\ m.pending = n.pending
      /\ m.priority = n.priority /\ m.lock = n.lock
  BY <1>1, <1>2 DEF SchedStates
<1> HIDE DEF m
<1>4. Holds(m, R, P)
  BY <1>3 DEF Holds
<1>5. Resumed(s, n) = n \/ Resumed(s, n) = m
  BY DEF Resumed, m
<1> QED BY <1>3, <1>4, <1>5

(***************************************************************************)
(* nxsched_remove_readytorun leaves everything but the ready list alone.   *)
(***************************************************************************)
LEMMA RemoveReady ==
  ASSUME NEW s, NEW R, NEW P, Holds(s, R, P), NEW t \in Tasks
  PROVE  LET n == nxsched_remove_readytorun(s, t)
         IN  /\ Holds(n, R \ {t}, P) /\ n.pending = s.pending
             /\ n.priority = s.priority /\ n.lock = s.lock /\ n.slice = s.slice
             /\ t # Head(s.ready) => Head(n.ready) = Head(s.ready)
<1> DEFINE n == nxsched_remove_readytorun(s, t)
<1>1. n = [s EXCEPT !.ready = dq_rem(@, t)]
  BY DEF nxsched_remove_readytorun
<1>2. Holds(n, R \ {t}, P)
  <2>1. Holds([s EXCEPT !.ready = dq_rem(@, t)], R \ {t}, P)
    BY RemoveTask
  <2> QED BY <1>1, <2>1
<1>3. s \in SchedStates
  BY DEF Holds
<1>4. /\ n.pending = s.pending /\ n.ready = dq_rem(s.ready, t)
      /\ n.priority = s.priority /\ n.lock = s.lock /\ n.slice = s.slice
  BY <1>1, <1>3 DEF SchedStates
<1> HIDE DEF n
<1>5. ASSUME t # Head(s.ready) PROVE Head(n.ready) = Head(s.ready)
  <2>0. s.ready \in Seq(AllTasks)
    BY <1>3 DEF SchedStates
  <2>1. Head(s.ready) = s.ready[1] /\ Len(s.ready) \in Nat /\ Len(s.ready) >= 1
    BY HeadOfReady
  <2>2. Head(n.ready) = n.ready[1] /\ Len(n.ready) >= 1
    BY <1>2, HeadOfReady
  <2>3. CASE dq_rem(s.ready, t) = s.ready
    BY <1>4, <2>3
  <2>4. ASSUME NEW i \in 1 .. Len(s.ready), s.ready[i] = t,
               dq_rem(s.ready, t) = RemoveAt(s.ready, i)
        PROVE  Head(n.ready) = Head(s.ready)
    <3>1. IsRemoval(n.ready, s.ready, i, AllTasks)
      BY <1>4, <2>0, <2>4, RemoveAtProperties
    <3>2. 1 < i
      BY <1>5, <2>1, <2>4
    <3>3. Len(n.ready) = Len(s.ready) - 1
          /\ \A j \in 1 .. Len(s.ready) - 1 :
               n.ready[j] = IF j < i THEN s.ready[j] ELSE s.ready[j + 1]
      BY <3>1 DEF IsRemoval
    <3>4. 1 \in 1 .. Len(s.ready) - 1
      BY <2>1, <2>2, <3>3
    <3>5. n.ready[1] = s.ready[1]
      BY <3>2, <3>3, <3>4
    <3> QED BY <2>1, <2>2, <3>5
  <2> QED BY <2>0, <2>3, <2>4, DqRemPosition
<1> QED BY <1>2, <1>4, <1>5 DEF n

(***************************************************************************)
(* up_block_task of the running task: it is gone, and none is pending.     *)
(***************************************************************************)
LEMMA BlockEffect ==
  ASSUME NEW s, NEW A, Covers(s, A), NEW t \in Tasks, t = Head(s.ready)
  PROVE  LET n == up_block_task(s, t)
         IN  /\ Covers(n, A \ {t}) /\ Served(n)
             /\ n.priority = s.priority /\ n.lock = s.lock
<1>1. PICK R, P : Holds(s, R, P) /\ R \cup P = A
  BY DEF Covers
<1> DEFINE x == nxsched_remove_readytorun(s, t)
           y == nxsched_merge_pending(x)
           n == up_block_task(s, t)
<1>2. Holds(x, R \ {t}, P) /\ x.priority = s.priority /\ x.lock = s.lock
  BY <1>1, RemoveReady
<1> HIDE DEF x
<1>3. /\ Holds(y, (R \ {t}) \cup P, {}) /\ y.pending = <<>>
      /\ y.priority = x.priority /\ y.lock = x.lock
  BY <1>2, MergePending
<1> HIDE DEF y
<1>4. n = Resumed(s, y)
  BY DEF up_block_task, x, y
<1> HIDE DEF n
<1>5. /\ Holds(n, (R \ {t}) \cup P, {}) /\ n.pending = y.pending
      /\ n.priority = y.priority /\ n.lock = y.lock
  BY <1>3, <1>4, ResumedKeeps
<1>6. t \in R /\ t \notin P
  BY <1>1, HeadOfReady DEF Holds
<1>7. ((R \ {t}) \cup P) \cup {} = A \ {t}
  BY <1>1, <1>6
<1> QED BY <1>2, <1>3, <1>5, <1>7 DEF Covers, Served, n

(***************************************************************************)
(* up_unblock_task: the task is ready or pending; it does not take the     *)
(* place of a running task that holds sched_lock.                          *)
(***************************************************************************)
LEMMA UnblockEffect ==
  ASSUME NEW s, NEW A, Covers(s, A), NEW t \in Tasks, t \notin A
  PROVE  LET n == up_unblock_task(s, t)
         IN  /\ Covers(n, A \cup {t})
             /\ Served(s) => Served(n)
             /\ n.priority = s.priority /\ n.lock = s.lock
             /\ s.lock[Head(s.ready)] > 0 => Head(n.ready) = Head(s.ready)
<1>1. PICK R, P : Holds(s, R, P) /\ R \cup P = A
  BY DEF Covers
<1> DEFINE r == Head(s.ready)
           x == nxsched_add_readytorun(s, t)
           n == up_unblock_task(s, t)
<1>2. /\ x.priority = s.priority /\ x.lock = s.lock
      /\ s.lock[r] > 0 /\ s.priority[r] < s.priority[t] => Holds(x, R, P \cup {t})
      /\ ~(s.lock[r] > 0 /\ s.priority[r] < s.priority[t]) =>
           Holds(x, R \cup {t}, P) /\ x.pending = s.pending
      /\ s.lock[r] > 0 => Head(x.ready) = r
  BY <1>1, AddReady
<1>3. s.lock[r] \in Nat
  <2>1. r \in AllTasks
    BY <1>1, HeadOfReady
  <2> QED BY <1>1, <2>1 DEF Holds, SchedStates
<1> HIDE DEF x, r
<1>4. n = Resumed(s, x)
  BY DEF up_unblock_task, x
<1> HIDE DEF n
<1>5. CASE s.lock[r] > 0 /\ s.priority[r] < s.priority[t]
  <2>1. Holds(x, R, P \cup {t})
    BY <1>2, <1>5
  <2>2. /\ Holds(n, R, P \cup {t}) /\ n.ready = x.ready
        /\ n.priority = x.priority /\ n.lock = x.lock
    BY <1>4, <2>1, ResumedKeeps
  <2>3. R \cup (P \cup {t}) = A \cup {t}
    BY <1>1
  <2>4. Covers(n, A \cup {t})
    BY <2>2, <2>3 DEF Covers
  <2>5. n.lock[Head(n.ready)] # 0 /\ Head(n.ready) = r
    BY <1>2, <1>5, <2>2
  <2> QED BY <1>2, <2>2, <2>4, <2>5 DEF Served, n, r
<1>6. CASE ~(s.lock[r] > 0 /\ s.priority[r] < s.priority[t])
  <2>1. Holds(x, R \cup {t}, P) /\ x.pending = s.pending
    BY <1>2, <1>6
  <2>2. /\ Holds(n, R \cup {t}, P) /\ n.ready = x.ready /\ n.pending = x.pending
        /\ n.priority = x.priority /\ n.lock = x.lock
    BY <1>4, <2>1, ResumedKeeps
  <2>3. (R \cup {t}) \cup P = A \cup {t}
    BY <1>1
  <2>4. Covers(n, A \cup {t})
    BY <2>2, <2>3 DEF Covers
  <2>5. Served(s) => Served(n)
    <3>1. CASE s.lock[r] = 0
      BY <2>1, <2>2, <3>1 DEF Served, r
    <3>2. CASE s.lock[r] > 0
      <4>1. n.lock[Head(n.ready)] # 0
        BY <1>2, <2>2, <3>2
      <4> QED BY <4>1 DEF Served
    <3> QED BY <1>3, <3>1, <3>2
  <2> QED BY <1>2, <2>2, <2>4, <2>5 DEF n, r
<1> QED BY <1>5, <1>6

(***************************************************************************)
(* The fields of a scheduler state with another priority of a task.        *)
(***************************************************************************)
LEMMA PriorityFields ==
  ASSUME NEW s \in SchedStates, NEW t \in Tasks, NEW p \in Nat
  PROVE  LET n == [s EXCEPT !.priority[t] = p]
         IN  /\ n \in SchedStates
             /\ n.priority = [s.priority EXCEPT ![t] = p] /\ n.priority[t] = p
             /\ \A u \in AllTasks : u # t => n.priority[u] = s.priority[u]
             /\ n.ready = s.ready /\ n.pending = s.pending
             /\ n.lock = s.lock /\ n.slice = s.slice
<1>1. t \in AllTasks
  BY DEF AllTasks
<1> QED BY <1>1 DEF SchedStates

(***************************************************************************)
(* A list is in order by the priorities of its entries.                    *)
(***************************************************************************)
LEMMA SameLists ==
  ASSUME NEW l, NEW M, NEW Q, NEW N, Lists(l, M, Q), \A u \in M : N[u] = Q[u]
  PROVE  Lists(l, M, N)
BY DEF Lists

(***************************************************************************)
(* The priority of a task that is in no list does not disturb the lists.   *)
(***************************************************************************)
LEMMA ChangePriority ==
  ASSUME NEW s, NEW R, NEW P, Holds(s, R, P), NEW t \in Tasks, t \notin R \cup P,
         NEW p \in Nat, p >= 1
  PROVE  Holds([s EXCEPT !.priority[t] = p], R, P)
<1> DEFINE n == [s EXCEPT !.priority[t] = p]
<1>0. /\ s \in SchedStates /\ R \subseteq AllTasks /\ P \subseteq AllTasks
      /\ Lists(s.ready, R, s.priority) /\ Lists(s.pending, P, s.priority)
  BY DEF Holds, AllTasks
<1>1. /\ n \in SchedStates /\ n.priority[t] = p
      /\ \A u \in AllTasks : u # t => n.priority[u] = s.priority[u]
      /\ n.ready = s.ready /\ n.pending = s.pending
  BY <1>0, PriorityFields
<1> HIDE DEF n
<1>2. \A u \in R \cup P : n.priority[u] = s.priority[u]
  BY <1>0, <1>1
<1>3. Lists(n.ready, R, n.priority) /\ Lists(n.pending, P, n.priority)
  <2>1. Lists(s.ready, R, n.priority) /\ Lists(s.pending, P, n.priority)
    BY <1>0, <1>2, SameLists
  <2> QED BY <1>1, <2>1
<1>4. n.priority[idle] = 0 /\ \A u \in Tasks : n.priority[u] >= 1
  BY <1>1, SchedTasks DEF Holds, AllTasks
<1> QED BY <1>1, <1>3, <1>4 DEF Holds, n

(***************************************************************************)
(* The running task may get any priority above that of the next task.      *)
(***************************************************************************)
LEMMA ChangeRunning ==
  ASSUME NEW s, NEW R, NEW P, Holds(s, R, P), NEW t \in Tasks, t = Head(s.ready),
         NEW p \in Nat, p >= 1, p > s.priority[s.ready[2]]
  PROVE  Holds([s EXCEPT !.priority[t] = p], R, P)
<1> DEFINE n == [s EXCEPT !.priority[t] = p]
<1>0. /\ s \in SchedStates /\ R \subseteq AllTasks /\ P \subseteq AllTasks
      /\ Lists(s.ready, R, s.priority) /\ Lists(s.pending, P, s.priority)
      /\ R \cap P = {} /\ s.priority \in [AllTasks -> Nat]
  BY DEF Holds, AllTasks, SchedStates
<1>1. /\ n \in SchedStates /\ n.priority[t] = p
      /\ \A u \in AllTasks : u # t => n.priority[u] = s.priority[u]
      /\ n.ready = s.ready /\ n.pending = s.pending
  BY <1>0, PriorityFields
<1> HIDE DEF n
<1>2. t \in R /\ t = s.ready[1] /\ Len(s.ready) \in Nat /\ Len(s.ready) >= 1
  BY HeadOfReady
<1>3. Lists(n.pending, P, n.priority)
  <2>1. \A u \in P : n.priority[u] = s.priority[u]
    BY <1>0, <1>1, <1>2
  <2>2. Lists(s.pending, P, n.priority)
    BY <1>0, <2>1, SameLists
  <2> QED BY <1>1, <2>2
<1>4. Lists(n.ready, R, n.priority)
  <2>1. ASSUME NEW i \in 1 .. Len(s.ready), NEW j \in 1 .. Len(s.ready), i < j
        PROVE  s.ready[i] # s.ready[j] /\ n.priority[s.ready[i]] >= n.priority[s.ready[j]]
    <3>1. s.ready[i] # s.ready[j] /\ s.priority[s.ready[i]] >= s.priority[s.ready[j]]
          /\ s.ready[i] \in R /\ s.ready[j] \in R
      BY <1>0, <2>1 DEF Lists
    <3>2. 1 \in 1 .. Len(s.ready) /\ 1 < j
      BY <1>2, <2>1
    <3>3. s.ready[j] # t
      BY <1>0, <1>2, <3>2 DEF Lists
    <3>4. n.priority[s.ready[j]] = s.priority[s.ready[j]]
      BY <1>0, <1>1, <3>1, <3>3
    <3>5. CASE i = 1
      <4>1. s.priority[s.ready[2]] >= s.priority[s.ready[j]]
        <5>1. 2 \in 1 .. Len(s.ready) /\ (j = 2 \/ 2 < j)
          BY <1>2, <2>1, <3>2
        <5>2. s.ready[2] \in AllTasks
          BY <1>0, <5>1 DEF Lists
        <5> QED BY <1>0, <5>1, <5>2 DEF Lists
      <4>2. n.priority[s.ready[i]] = p
        BY <1>1, <1>2, <3>5
      <4>3. s.priority[s.ready[j]] \in Nat /\ s.priority[s.ready[2]] \in Nat
        <5>1. 2 \in 1 .. Len(s.ready)
          BY <1>2, <2>1, <3>2
        <5>2. s.ready[2] \in R
          BY <1>0, <5>1 DEF Lists
        <5> QED BY <1>0, <3>1, <5>2
      <4> QED BY <3>1, <3>4, <4>1, <4>2, <4>3
    <3>6. CASE i # 1
      <4>1. 1 < i
        BY <1>2, <2>1, <3>6
      <4>2. s.ready[i] # t
        BY <1>0, <1>2, <3>2, <4>1 DEF Lists
      <4>3. n.priority[s.ready[i]] = s.priority[s.ready[i]]
        BY <1>0, <1>1, <3>1, <4>2
      <4> QED BY <3>1, <3>4, <4>3
    <3> QED BY <3>5, <3>6
  <2>2. /\ \A e \in R : \E i \in 1 .. Len(s.ready) : s.ready[i] = e
        /\ \A i \in 1 .. Len(s.ready) : s.ready[i] \in R
    BY <1>0 DEF Lists
  <2>3. Lists(s.ready, R, n.priority)
    BY <2>1, <2>2 DEF Lists
  <2> QED BY <1>1, <2>3
<1>5. n.priority[idle] = 0 /\ \A u \in Tasks : n.priority[u] >= 1
  BY <1>1, SchedTasks DEF Holds, AllTasks
<1> QED BY <1>1, <1>3, <1>4, <1>5 DEF Holds, n

(***************************************************************************)
(* Taking a task from the ready list and putting it back with another      *)
(* priority: the first half of up_reprioritize_rtr.                        *)
(***************************************************************************)
Moved(s, t, p) ==
    nxsched_add_readytorun([nxsched_remove_readytorun(s, t) EXCEPT !.priority[t] = p], t)

(***************************************************************************)
(* Nobody is lost, and unless the head of the list is another, no task is  *)
(* pending for no reason.                                                  *)
(***************************************************************************)
LEMMA MovedEffect ==
  ASSUME NEW s, NEW R, NEW P, Holds(s, R, P), NEW t \in Tasks, t \in R,
         NEW p \in Nat, p >= 1
  PROVE  LET n == Moved(s, t, p)
         IN  /\ Covers(n, R \cup P)
             /\ Served(s) /\ Head(n.ready) = Head(s.ready) => Served(n)
             /\ t # Head(s.ready) /\ p <= s.priority[Head(s.ready)] =>
                  Head(n.ready) = Head(s.ready)
             /\ n.lock = s.lock
<1> DEFINE r == Head(s.ready)
           x == nxsched_remove_readytorun(s, t)
           y == [x EXCEPT !.priority[t] = p]
           q == Head(y.ready)
           n == Moved(s, t, p)
<1>1. /\ Holds(x, R \ {t}, P) /\ x.pending = s.pending /\ x.lock = s.lock
      /\ x.priority = s.priority
      /\ t # r => Head(x.ready) = r
  BY RemoveReady
<1> HIDE DEF x
<1>2. t \notin (R \ {t}) \cup P /\ x \in SchedStates
  BY <1>1 DEF Holds
<1>3. Holds(y, R \ {t}, P)
  BY <1>1, <1>2, ChangePriority
<1>4. /\ y.pending = s.pending /\ y.lock = s.lock /\ y.ready = x.ready
      /\ y.priority[t] = p /\ \A u \in AllTasks : u # t => y.priority[u] = s.priority[u]
  <2>1. /\ y \in SchedStates
        /\ y.priority = [x.priority EXCEPT ![t] = p] /\ y.priority[t] = p
        /\ \A u \in AllTasks : u # t => y.priority[u] = x.priority[u]
        /\ y.ready = x.ready /\ y.pending = x.pending
        /\ y.lock = x.lock /\ y.slice = x.slice
    BY <1>2, PriorityFields
  <2> HIDE DEF y
  <2> QED BY <1>1, <2>1
<1> HIDE DEF y
<1>5. /\ n.lock = y.lock
      /\ y.lock[q] > 0 /\ y.priority[q] < y.priority[t] =>
           Holds(n, R \ {t}, P \cup {t}) /\ n.ready = y.ready
      /\ ~(y.lock[q] > 0 /\ y.priority[q] < y.priority[t]) =>
           Holds(n, (R \ {t}) \cup {t}, P) /\ n.pending = y.pending
      /\ y.priority[q] >= y.priority[t] => Head(n.ready) = q
      /\ y.lock[q] > 0 => Head(n.ready) = q
  <2>1. n = nxsched_add_readytorun(y, t)
    BY DEF Moved, y, x
  <2> DEFINE V == R \ {t}
  <2>2. Holds(y, V, P) /\ t \notin V \cup P
    BY <1>2, <1>3
  <2> HIDE DEF n, V
  <2>3. LET m == nxsched_add_readytorun(y, t)
        IN  /\ m \in SchedStates
            /\ m.priority = y.priority /\ m.lock = y.lock /\ m.slice = y.slice
            /\ y.lock[q] > 0 /\ y.priority[q] < y.priority[t] =>
                 Holds(m, V, P \cup {t}) /\ m.ready = y.ready
            /\ ~(y.lock[q] > 0 /\ y.priority[q] < y.priority[t]) =>
                 Holds(m, V \cup {t}, P) /\ m.pending = y.pending
            /\ y.lock[q] > 0 => Head(m.ready) = q
            /\ y.priority[q] >= y.priority[t] => Head(m.ready) = q
            /\ y.lock[q] = 0 /\ y.priority[q] < y.priority[t] => Head(m.ready) = t
    BY <2>2, AddReady
  <2> HIDE DEF q
  <2> QED BY <2>1, <2>3 DEF V
<1> HIDE DEF n
<1>6. Covers(n, R \cup P)
  <2>1. (R \ {t}) \cup (P \cup {t}) = R \cup P /\ ((R \ {t}) \cup {t}) \cup P = R \cup P
    OBVIOUS
  <2> QED BY <1>5, <2>1 DEF Covers
<1>7. r \in AllTasks /\ q \in AllTasks /\ s.lock \in [AllTasks -> Nat]
      /\ s.priority \in [AllTasks -> Nat] /\ t \in AllTasks
  BY <1>3, HeadOfReady DEF Holds, SchedStates, AllTasks
<1>8. t # r => q = r
  BY <1>1, <1>4
<1>9. ASSUME Served(s), Head(n.ready) = r PROVE Served(n)
  <2>1. CASE s.lock[r] > 0
    <3>1. n.lock[Head(n.ready)] # 0
      BY <1>4, <1>5, <1>9, <2>1
    <3> QED BY <3>1 DEF Served
  <2>2. CASE s.lock[r] = 0
    <3>1. s.pending = <<>>
      BY <1>9, <2>2 DEF Served
    <3>2. ~(y.lock[q] > 0 /\ y.priority[q] < y.priority[t])
      <4>1. CASE t # r
        BY <1>4, <1>8, <2>2, <4>1
      <4>2. CASE t = r
        <5>1. q # t
          BY <1>3, HeadOfReady
        <5>2. ~(y.lock[q] > 0)
          BY <1>5, <1>9, <4>2, <5>1
        <5> QED BY <5>2
      <4> QED BY <4>1, <4>2
    <3>3. n.pending = <<>>
      BY <1>4, <1>5, <3>1, <3>2
    <3> QED BY <3>3 DEF Served
  <2> QED BY <1>7, <2>1, <2>2
<1>10. ASSUME t # r, p <= s.priority[r] PROVE Head(n.ready) = r
  <2>1. y.priority[q] >= y.priority[t]
    BY <1>4, <1>7, <1>8, <1>10
  <2> QED BY <1>5, <1>8, <1>10, <2>1
<1> QED BY <1>4, <1>5, <1>6, <1>9, <1>10 DEF n, r

(***************************************************************************)
(* up_reprioritize_rtr: the pending tasks are merged when the head of the  *)
(* list has changed.                                                       *)
(***************************************************************************)
LEMMA ReprioritizeEffect ==
  ASSUME NEW s, NEW R, NEW P, Holds(s, R, P), NEW t \in Tasks, t \in R,
         NEW p \in Nat, p >= 1
  PROVE  LET n == up_reprioritize_rtr(s, t, p)
         IN  Covers(n, R \cup P) /\ (Served(s) => Served(n))
<1> DEFINE x == Moved(s, t, p)
           y == nxsched_merge_pending(x)
           n == up_reprioritize_rtr(s, t, p)
<1>1. /\ Covers(x, R \cup P)
      /\ Served(s) /\ Head(x.ready) = Head(s.ready) => Served(x)
  BY MovedEffect
<1>2. n = IF Head(x.ready) = Head(s.ready) THEN x ELSE Resumed(s, y)
  BY DEF up_reprioritize_rtr, Moved
<1> HIDE DEF n, x
<1>3. CASE Head(x.ready) = Head(s.ready)
  BY <1>1, <1>2, <1>3 DEF n
<1>4. CASE Head(x.ready) # Head(s.ready)
  <2>1. PICK V, M : Holds(x, V, M) /\ V \cup M = R \cup P
    BY <1>1 DEF Covers
  <2>2. Holds(y, V \cup M, {}) /\ y.pending = <<>>
    BY <2>1, MergePending
  <2> HIDE DEF y
  <2>3. Holds(n, V \cup M, {}) /\ n.pending = y.pending
    BY <1>2, <1>4, <2>2, ResumedKeeps
  <2>4. (V \cup M) \cup {} = R \cup P
    BY <2>1
  <2>5. Covers(n, R \cup P)
    BY <2>3, <2>4 DEF Covers
  <2> QED BY <2>2, <2>3, <2>5 DEF Served, n
<1> QED BY <1>3, <1>4

(***************************************************************************)
(* nxsched_set_priority, whichever list the task is in.                    *)
(***************************************************************************)
LEMMA SetPriorityEffect ==
  ASSUME NEW s, NEW A, Covers(s, A), NEW t \in Tasks, NEW p \in Nat, p >= 1
  PROVE  LET n == nxsched_set_priority(s, t, p)
         IN  Covers(n, A) /\ (Served(s) => Served(n))
<1>1. PICK R, P : Holds(s, R, P) /\ R \cup P = A
  BY DEF Covers
<1> DEFINE r == Head(s.ready)
           c == [s EXCEPT !.priority[t] = p]
           n == nxsched_set_priority(s, t, p)
           moved == Moved(s, t, p)
           up == up_reprioritize_rtr(s, t, p)
           there == [c EXCEPT !.pending = nxsched_add_prioritized(c, dq_rem(@, t), t)]
<1>2. /\ s \in SchedStates /\ s.priority \in [AllTasks -> Nat] /\ t \in AllTasks
      /\ s.lock \in [AllTasks -> Nat] /\ R \cap P = {}
      /\ R \subseteq AllTasks /\ P \subseteq Tasks
  BY <1>1 DEF Holds, SchedStates, AllTasks
<1>3. r \in R /\ r \in AllTasks /\ r = s.ready[1] /\ Len(s.ready) \in Nat
  BY <1>1, HeadOfReady
<1>4. (InList(s.ready, t) <=> t \in R) /\ (InList(s.pending, t) <=> t \in P)
  BY <1>1, InListIsMember
<1>5. /\ c \in SchedStates /\ c.priority = [s.priority EXCEPT ![t] = p]
      /\ c.ready = s.ready /\ c.pending = s.pending /\ c.lock = s.lock
  BY <1>2, PriorityFields
<1>6. nxsched_add_readytorun(nxsched_remove_readytorun(c, t), t) = moved
  <2>1. nxsched_remove_readytorun(c, t) = [nxsched_remove_readytorun(s, t)
                                             EXCEPT !.priority[t] = p]
    BY <1>2 DEF nxsched_remove_readytorun, SchedStates
  <2> QED BY <2>1 DEF Moved
<1>7. /\ t = r /\ p <= s.priority[s.ready[2]] => n = up
      /\ t = r /\ ~(p <= s.priority[s.ready[2]]) => n = c
      /\ t # r /\ t \in R /\ p > s.priority[r] => n = up
      /\ t # r /\ t \in R /\ ~(p > s.priority[r]) => n = moved
      /\ t \in P => n = there
      /\ t \notin R \cup P => n = c
  <2> HIDE DEF moved
  <2>1. n = CASE t = r -> IF p <= s.priority[s.ready[2]] THEN up ELSE c
              [] t # r /\ InList(s.ready, t) -> IF p > s.priority[r] THEN up ELSE moved
              [] InList(s.pending, t) -> there
              [] OTHER -> c
    BY <1>6 DEF nxsched_set_priority
  <2> HIDE DEF n, up, c, there, r
  <2>2. /\ t = r => t \in R /\ t \notin P
        /\ t \in R => t \notin P
    BY <1>2, <1>3
  <2> QED BY <1>4, <2>1, <2>2
<1>8. ASSUME t \in R PROVE Covers(up, A) /\ (Served(s) => Served(up))
  BY <1>1, <1>8, ReprioritizeEffect
<1>9. ASSUME t \in R
      PROVE  /\ Covers(moved, A)
             /\ Served(s) /\ Head(moved.ready) = r => Served(moved)
             /\ t # r /\ p <= s.priority[r] => Head(moved.ready) = r
  <2>1. /\ Covers(moved, R \cup P)
        /\ Served(s) /\ Head(moved.ready) = Head(s.ready) => Served(moved)
        /\ t # Head(s.ready) /\ p <= s.priority[Head(s.ready)] =>
             Head(moved.ready) = Head(s.ready)
        /\ moved.lock = s.lock
    BY <1>1, <1>9, MovedEffect
  <2> QED BY <1>1, <2>1
<1> HIDE DEF n, up, moved
<1> SUFFICES Covers(n, A) /\ (Served(s) => Served(n))
  BY DEF n
<1>10. Served(s) => Served(c)
  BY <1>5 DEF Served
<1>11. CASE t = r
  <2>1. CASE p <= s.priority[s.ready[2]]
    BY <1>3, <1>7, <1>8, <1>11, <2>1
  <2>2. CASE ~(p <= s.priority[s.ready[2]])
    <3>1. n = c
      BY <1>7, <1>11, <2>2
    <3>2. p > s.priority[s.ready[2]]
      <4>1. 2 \in 1 .. Len(s.ready)
        <5>1. Lists(s.ready, R, s.priority) /\ idle \in R
          BY <1>1 DEF Holds
        <5>2. PICK i \in 1 .. Len(s.ready) : s.ready[i] = idle
          BY <5>1 DEF Lists
        <5>3. i # 1
          BY <1>3, <1>11, <5>2, SchedTasks
        <5> QED BY <1>3, <5>3
      <4>2. s.ready[2] \in AllTasks
        BY <1>1, <4>1 DEF Holds, Lists
      <4>3. s.priority[s.ready[2]] \in Nat
        BY <1>2, <4>2
      <4> QED BY <2>2, <4>3
    <3>3. Holds(c, R, P)
      BY <1>1, <1>11, <3>2, ChangeRunning
    <3> HIDE DEF c
    <3> QED BY <1>1, <1>10, <3>1, <3>3 DEF Covers
  <2> QED BY <2>1, <2>2
<1>12. CASE t # r /\ t \in R
  <2>1. CASE p > s.priority[r]
    BY <1>7, <1>8, <1>12, <2>1
  <2>2. CASE ~(p > s.priority[r])
    <3>1. n = moved
      BY <1>7, <1>12, <2>2
    <3>2. p <= s.priority[r]
      BY <1>2, <1>3, <2>2
    <3> QED BY <1>9, <1>12, <3>1, <3>2
  <2> QED BY <2>1, <2>2
<1>13. CASE t \in P
  <2>0. t # r /\ t \notin R
    BY <1>2, <1>3, <1>13
  <2>1. n = there
    BY <1>7, <1>13
  <2> DEFINE l == dq_rem(s.pending, t)
             m == nxsched_add_prioritized(c, l, t)
             x == [s EXCEPT !.pending = l]
             V == P \ {t}
  <2>2. there = [c EXCEPT !.pending = m]
    BY <1>5
  <2>3. Holds(x, R, V)
    BY <1>1, RemoveTask
  <2>4. t \notin R \cup V
    BY <2>0
  <2>5. x.pending = l /\ x.ready = s.ready /\ x.lock = s.lock /\ x.priority = s.priority
        /\ x \in SchedStates
    BY <1>2, <2>3 DEF Holds, SchedStates
  <2> DEFINE y == [x EXCEPT !.priority[t] = p]
  <2> HIDE DEF x, V, l
  <2>6. Holds(y, R, V)
    BY <2>3, <2>4, ChangePriority
  <2>7. y.pending = x.pending /\ y.ready = x.ready /\ y.lock = x.lock
        /\ y.priority = [x.priority EXCEPT ![t] = p]
    BY <2>5, PriorityFields
  <2> HIDE DEF y, c
  <2>8. y.pending = l /\ y.ready = s.ready /\ y.lock = s.lock /\ y.priority = c.priority
    BY <1>5, <2>5, <2>7
  <2>9. l \in Seq(AllTasks) /\ V \in SUBSET AllTasks /\ Lists(l, V, c.priority)
    BY <2>6, <2>8 DEF Holds, SchedStates, AllTasks
  <2>10. m \in Seq(AllTasks) /\ Lists(m, V \cup {t}, c.priority)
    <3>1. t \notin V
      BY <2>4
    <3> QED BY <1>2, <1>5, <2>9, <3>1, AddPrioritized
  <2>11. V \cup {t} = P
    BY <1>13 DEF V
  <2> HIDE DEF m, there
  <2>12. /\ n \in SchedStates /\ n.ready = s.ready /\ n.pending = m
         /\ n.priority = c.priority /\ n.lock = s.lock
    BY <1>5, <2>1, <2>2, <2>10 DEF SchedStates
  <2>13. Holds(n, R, P)
    <3>1. Lists(n.ready, R, n.priority) /\ n.priority[idle] = 0
          /\ \A u \in Tasks : n.priority[u] >= 1
      BY <2>6, <2>8, <2>12 DEF Holds
    <3>2. Lists(n.pending, P, n.priority)
      BY <2>10, <2>11, <2>12
    <3> QED BY <1>1, <2>12, <3>1, <3>2 DEF Holds
  <2>14. Served(s) => s.lock[r] # 0
    <3>1. s.pending # <<>>
      <4>1. \E i \in 1 .. Len(s.pending) : s.pending[i] = t
        BY <1>1, <1>13 DEF Holds, Lists
      <4>2. Len(<<>>) = 0
        BY EmptySeq
      <4> QED BY <4>1, <4>2
    <3> QED BY <3>1 DEF Served
  <2>15. Served(s) => Served(n)
    BY <2>12, <2>14 DEF Served
  <2> QED BY <1>1, <2>13, <2>15 DEF Covers
<1>14. CASE t \notin R \cup P
  <2>1. n = c
    BY <1>7, <1>14
  <2>2. Holds(c, R, P)
    BY <1>1, <1>14, ChangePriority
  <2> HIDE DEF c
  <2> QED BY <1>1, <1>10, <2>1, <2>2 DEF Covers
<1> QED BY <1>11, <1>12, <1>13, <1>14

(***************************************************************************)
(* Lock counts and the time slice are not in the lists.                    *)
(***************************************************************************)
LEMMA LockChange ==
  ASSUME NEW s, NEW R, NEW P, Holds(s, R, P), NEW t \in AllTasks, NEW k \in Nat
  PROVE  LET n == [s EXCEPT !.lock[t] = k]
         IN  /\ Holds(n, R, P) /\ n.ready = s.ready /\ n.pending = s.pending
             /\ n.lock = [s.lock EXCEPT ![t] = k] /\ n.slice = s.slice
<1> DEFINE n == [s EXCEPT !.lock[t] = k]
<1>1. s \in SchedStates
  BY DEF Holds
<1>2. /\ n \in SchedStates /\ n.ready = s.ready /\ n.pending = s.pending
      /\ n.priority = s.priority /\ n.lock = [s.lock EXCEPT ![t] = k]
      /\ n.slice = s.slice
  BY <1>1 DEF SchedStates
<1> HIDE DEF n
<1>3. Holds(n, R, P)
  BY <1>2 DEF Holds
<1> QED BY <1>2, <1>3 DEF n

(***************************************************************************)
(* The time slice, too.                                                    *)
(***************************************************************************)
LEMMA SliceChange ==
  ASSUME NEW s, NEW R, NEW P, Holds(s, R, P), NEW k \in 0 .. RR_INTERVAL
  PROVE  LET n == [s EXCEPT !.slice = k]
         IN  /\ Holds(n, R, P) /\ n.ready = s.ready /\ n.pending = s.pending
             /\ n.lock = s.lock /\ n.priority = s.priority
<1> DEFINE n == [s EXCEPT !.slice = k]
<1>1. s \in SchedStates
  BY DEF Holds
<1>2. /\ n \in SchedStates /\ n.ready = s.ready /\ n.pending = s.pending
      /\ n.priority = s.priority /\ n.lock = s.lock
  BY <1>1 DEF SchedStates
<1> HIDE DEF n
<1>3. Holds(n, R, P)
  BY <1>2 DEF Holds
<1> QED BY <1>2, <1>3 DEF n

(***************************************************************************)
(* sched_lock: the running task holds the lock.                            *)
(***************************************************************************)
LEMMA LockEffect ==
  ASSUME NEW s, NEW A, Covers(s, A)
  PROVE  Covers(sched_lock(s), A) /\ Served(sched_lock(s))
<1>1. PICK R, P : Holds(s, R, P) /\ R \cup P = A
  BY DEF Covers
<1> DEFINE r == Head(s.ready)
           k == s.lock[r] + 1
           n == [s EXCEPT !.lock[r] = k]
<1>2. r \in AllTasks
  BY <1>1, HeadOfReady
<1>3. s.lock \in [AllTasks -> Nat]
  BY <1>1 DEF Holds, SchedStates
<1>4. k \in Nat /\ k # 0
  BY <1>2, <1>3
<1>5. sched_lock(s) = n
  BY DEF sched_lock
<1> HIDE DEF k
<1>6. Holds(n, R, P) /\ n.ready = s.ready /\ n.lock = [s.lock EXCEPT ![r] = k]
  BY <1>1, <1>2, <1>4, LockChange
<1> HIDE DEF n
<1>7. n.lock[Head(n.ready)] # 0
  BY <1>2, <1>3, <1>4, <1>6
<1> QED BY <1>1, <1>5, <1>6, <1>7 DEF Covers, Served

(***************************************************************************)
(* sched_unlock: the last one merges the pending tasks.                    *)
(***************************************************************************)
LEMMA UnlockEffect ==
  ASSUME NEW s, NEW A, Covers(s, A)
  PROVE  Covers(sched_unlock(s), A) /\ Served(sched_unlock(s))
<1>1. PICK R, P : Holds(s, R, P) /\ R \cup P = A
  BY DEF Covers
<1> DEFINE r == Head(s.ready)
           k == IF s.lock[r] > 0 THEN s.lock[r] - 1 ELSE 0
           u == [s EXCEPT !.lock[r] = k]
           y == nxsched_merge_pending(u)
           n == sched_unlock(s)
<1>2. r \in AllTasks
  BY <1>1, HeadOfReady
<1>3. s.lock \in [AllTasks -> Nat]
  BY <1>1 DEF Holds, SchedStates
<1>4. k \in Nat
  BY <1>2, <1>3
<1>5. n = IF u.lock[r] = 0 THEN Resumed(s, y) ELSE u
  BY DEF sched_unlock
<1> HIDE DEF k, n
<1>6. Holds(u, R, P) /\ u.ready = s.ready
  BY <1>1, <1>2, <1>4, LockChange
<1> HIDE DEF u
<1>7. CASE u.lock[r] = 0
  <2>1. Holds(y, R \cup P, {}) /\ y.pending = <<>>
    BY <1>6, MergePending
  <2> HIDE DEF y
  <2>2. Holds(n, R \cup P, {}) /\ n.pending = y.pending
    BY <1>5, <1>7, <2>1, ResumedKeeps
  <2>3. (R \cup P) \cup {} = A
    BY <1>1
  <2> QED BY <2>1, <2>2, <2>3 DEF Covers, Served, n
<1>8. CASE u.lock[r] # 0
  <2>1. n = u /\ Head(u.ready) = r
    BY <1>5, <1>6, <1>8
  <2> QED BY <1>1, <1>6, <1>8, <2>1 DEF Covers, Served, n
<1> QED BY <1>7, <1>8

(***************************************************************************)
(* nxsched_process_scheduler: the end of a time slice.  It does not move a *)
(* task that holds sched_lock.                                             *)
(***************************************************************************)
LEMMA SliceEffect ==
  ASSUME NEW s, NEW A, Covers(s, A)
  PROVE  LET n == nxsched_process_scheduler(s)
         IN  /\ Covers(n, A)
             /\ Served(s) => Served(n)
             /\ s.lock[Head(s.ready)] > 0 => Head(n.ready) = Head(s.ready)
<1>1. PICK R, P : Holds(s, R, P) /\ R \cup P = A
  BY DEF Covers
<1> DEFINE r == Head(s.ready)
           k == IF s.slice > 0 THEN s.slice - 1 ELSE 0
           a == [s EXCEPT !.slice = k]
           b == [s EXCEPT !.slice = RR_INTERVAL]
           c == up_reprioritize_rtr(b, r, s.priority[r])
           n == nxsched_process_scheduler(s)
<1>2. r \in AllTasks /\ r \in R
  BY <1>1, HeadOfReady
<1>3. s.priority \in [AllTasks -> Nat] /\ s.slice \in 0 .. RR_INTERVAL
  BY <1>1 DEF Holds, SchedStates
<1>4. k \in 0 .. RR_INTERVAL /\ RR_INTERVAL \in 0 .. RR_INTERVAL
  BY <1>3, SchedInterval
<1>5. \/ n = s
      \/ n = a
      \/ r # idle /\ ~(s.lock[r] > 0) /\ n = b
      \/ r # idle /\ ~(s.lock[r] > 0) /\ n = c
  BY DEF nxsched_process_scheduler
<1> HIDE DEF n, k
<1> SUFFICES /\ Covers(n, A)
             /\ Served(s) => Served(n)
             /\ s.lock[r] > 0 => Head(n.ready) = r
  BY DEF n
<1>6. Holds(a, R, P) /\ a.ready = s.ready /\ a.pending = s.pending /\ a.lock = s.lock
  BY <1>1, <1>4, SliceChange
<1>7. Holds(b, R, P) /\ b.ready = s.ready /\ b.pending = s.pending /\ b.lock = s.lock
  BY <1>1, <1>4, SliceChange
<1> HIDE DEF a, b
<1>8. CASE n = s
  BY <1>8
<1>9. CASE n = a
  BY <1>1, <1>6, <1>9 DEF Covers, Served
<1>10. CASE r # idle /\ ~(s.lock[r] > 0) /\ n = b
  BY <1>1, <1>7, <1>10 DEF Covers, Served
<1>11. CASE r # idle /\ ~(s.lock[r] > 0) /\ n = c
  <2>1. r \in Tasks /\ s.priority[r] \in Nat /\ s.priority[r] >= 1
    BY <1>1, <1>2, <1>3, <1>11 DEF Holds, AllTasks
  <2>2. Covers(c, R \cup P) /\ (Served(b) => Served(c))
    BY <1>2, <1>7, <2>1, ReprioritizeEffect
  <2>3. Served(s) => Served(b)
    BY <1>7 DEF Served
  <2> QED BY <1>1, <1>11, <2>2, <2>3
<1> QED BY <1>5, <1>8, <1>9, <1>10, <1>11

(***************************************************************************)
(* nxtask_activate of a task that is in no list.                           *)
(***************************************************************************)
LEMMA ActivateEffect ==
  ASSUME NEW s, NEW A, Covers(s, A), NEW t \in Tasks, t \notin A
  PROVE  LET n == nxtask_activate(s, t)
         IN  /\ Covers(n, A \cup {t})
             /\ Served(s) => Served(n)
             /\ s.lock[Head(s.ready)] > 0 => Head(n.ready) = Head(s.ready)
<1>1. PICK R, P : Holds(s, R, P) /\ R \cup P = A
  BY DEF Covers
<1> DEFINE x == [s EXCEPT !.lock[t] = 0]
           n == nxtask_activate(s, t)
<1>2. t \in AllTasks /\ 0 \in Nat
  BY DEF AllTasks
<1>3. /\ Holds(x, R, P) /\ x.ready = s.ready /\ x.pending = s.pending
      /\ x.lock = [s.lock EXCEPT ![t] = 0]
  BY <1>1, <1>2, LockChange
<1>4. Head(s.ready) \in R /\ Head(s.ready) \in AllTasks /\ s.lock \in [AllTasks -> Nat]
  BY <1>1, HeadOfReady DEF Holds, SchedStates
<1>5. x.lock[Head(x.ready)] = s.lock[Head(s.ready)]
  BY <1>1, <1>3, <1>4
<1>6. n = up_unblock_task(x, t)
  BY DEF nxtask_activate
<1> HIDE DEF x, n
<1>7. Covers(x, A) /\ (Served(s) => Served(x))
  BY <1>1, <1>3, <1>5 DEF Covers, Served
<1>8. /\ Covers(n, A \cup {t})
      /\ Served(x) => Served(n)
      /\ x.lock[Head(x.ready)] > 0 => Head(n.ready) = Head(x.ready)
  BY <1>6, <1>7, UnblockEffect
<1> QED BY <1>3, <1>5, <1>7, <1>8 DEF n

(***************************************************************************)
(* nxtask_exit of the running task, which may wake a task.                 *)
(***************************************************************************)
LEMMA ExitEffect ==
  ASSUME NEW s, NEW A, Covers(s, A), Head(s.ready) \in Tasks,
         NEW woken \in AllTasks, woken # idle => woken \notin A
  PROVE  LET n == nxtask_exit(s, woken)
             B == A \ {Head(s.ready)}
         IN  /\ Covers(n, IF woken = idle THEN B ELSE B \cup {woken})
             /\ woken = idle => Served(n)
<1> DEFINE t == Head(s.ready)
           b == up_block_task(s, t)
           h == Head(b.ready)
           k == b.lock[h] + 1
           x == [b EXCEPT !.lock[h] = k]
           w == IF woken = idle THEN x ELSE nxsched_add_readytorun(x, woken)
           n == nxtask_exit(s, woken)
           B == A \ {t}
<1>1. Covers(b, B) /\ Served(b)
  BY BlockEffect
<1>2. n = [w EXCEPT !.lock[h] = w.lock[h] - 1]
  BY DEF nxtask_exit
<1> HIDE DEF b, n, B
<1>3. PICK R, P : Holds(b, R, P) /\ R \cup P = B
  BY <1>1 DEF Covers
<1>4. h \in AllTasks /\ b.lock \in [AllTasks -> Nat]
  BY <1>3, HeadOfReady DEF Holds, SchedStates
<1>5. k \in Nat /\ k = b.lock[h] + 1
  BY <1>4
<1> HIDE DEF k, h
<1>6. /\ Holds(x, R, P) /\ x.ready = b.ready /\ x.pending = b.pending
      /\ x.lock = [b.lock EXCEPT ![h] = k]
  BY <1>3, <1>4, <1>5, LockChange
<1> HIDE DEF x
<1>7. x.lock[h] - 1 = b.lock[h] /\ b.lock[h] \in Nat
  BY <1>4, <1>5, <1>6
<1>8. CASE woken = idle
  <2>1. n = [x EXCEPT !.lock[h] = b.lock[h]]
    BY <1>2, <1>7, <1>8
  <2>2. /\ Holds(n, R, P) /\ n.ready = x.ready /\ n.pending = x.pending
        /\ n.lock = [x.lock EXCEPT ![h] = b.lock[h]]
    BY <1>4, <1>6, <1>7, <2>1, LockChange
  <2>3. n.lock[Head(n.ready)] = b.lock[Head(b.ready)]
    BY <1>4, <1>6, <2>2 DEF h
  <2>4. Served(n)
    BY <1>1, <1>6, <2>2, <2>3 DEF Served
  <2> QED BY <1>3, <1>8, <2>2, <2>4 DEF Covers, n, B
<1>9. CASE woken # idle
  <2>0. woken \in Tasks /\ woken \notin R \cup P
    BY <1>3, <1>9 DEF AllTasks, B
  <2>1. w = nxsched_add_readytorun(x, woken)
    BY <1>9
  <2> HIDE DEF w
  <2>2. LET m == nxsched_add_readytorun(x, woken)
            r == Head(x.ready)
        IN  /\ m \in SchedStates
            /\ m.priority = x.priority /\ m.lock = x.lock /\ m.slice = x.slice
            /\ x.lock[r] > 0 /\ x.priority[r] < x.priority[woken] =>
                 Holds(m, R, P \cup {woken}) /\ m.ready = x.ready
            /\ ~(x.lock[r] > 0 /\ x.priority[r] < x.priority[woken]) =>
                 Holds(m, R \cup {woken}, P) /\ m.pending = x.pending
            /\ x.lock[r] > 0 => Head(m.ready) = r
            /\ x.priority[r] >= x.priority[woken] => Head(m.ready) = r
            /\ x.lock[r] = 0 /\ x.priority[r] < x.priority[woken] => Head(m.ready) = woken
    BY <1>6, <2>0, AddReady
  <2>3. w.lock = x.lock /\ (Holds(w, R, P \cup {woken}) \/ Holds(w, R \cup {woken}, P))
    BY <2>1, <2>2
  <2>4. n = [w EXCEPT !.lock[h] = b.lock[h]]
    BY <1>2, <1>7, <2>3
  <2>5. Holds(n, R, P \cup {woken}) \/ Holds(n, R \cup {woken}, P)
    BY <1>4, <1>7, <2>3, <2>4, LockChange
  <2>6. R \cup (P \cup {woken}) = B \cup {woken} /\ (R \cup {woken}) \cup P = B \cup {woken}
    BY <1>3
  <2>7. Covers(n, B \cup {woken})
    BY <2>5, <2>6 DEF Covers
  <2> QED BY <1>9, <2>7 DEF n, B
<1> QED BY <1>8, <1>9

(***************************************************************************)
(* nxtask_terminate takes another task from whichever list it is in.       *)
(***************************************************************************)
LEMMA TakeEffect ==
  ASSUME NEW s, NEW A, Covers(s, A), NEW u \in Tasks, u # Head(s.ready)
  PROVE  LET n == [s EXCEPT !.ready = dq_rem(@, u), !.pending = dq_rem(@, u)]
         IN  /\ Covers(n, A \ {u})
             /\ Served(s) => Served(n)
<1>1. PICK R, P : Holds(s, R, P) /\ R \cup P = A
  BY DEF Covers
<1> DEFINE x == nxsched_remove_readytorun(s, u)
           n == [s EXCEPT !.ready = dq_rem(@, u), !.pending = dq_rem(@, u)]
<1>2. /\ Holds(x, R \ {u}, P) /\ x.pending = s.pending /\ x.lock = s.lock
      /\ Head(x.ready) = Head(s.ready)
  BY <1>1, RemoveReady
<1>3. n = [x EXCEPT !.pending = dq_rem(@, u)]
  <2>1. s \in SchedStates
    BY <1>1 DEF Holds
  <2> QED BY <2>1 DEF nxsched_remove_readytorun, SchedStates
<1> HIDE DEF x, n
<1>4. Holds(n, R \ {u}, P \ {u})
  <2>1. Holds([x EXCEPT !.pending = dq_rem(@, u)], R \ {u}, P \ {u})
    BY <1>2, RemoveTask
  <2> QED BY <1>3, <2>1
<1>5. x \in SchedStates
  BY <1>2 DEF Holds
<1>6. n.ready = x.ready /\ n.lock = x.lock /\ n.pending = dq_rem(s.pending, u)
  BY <1>2, <1>3, <1>5 DEF SchedStates
<1>7. (R \ {u}) \cup (P \ {u}) = A \ {u}
  BY <1>1
<1>8. s.pending = <<>> => dq_rem(s.pending, u) = <<>>
  <2>1. DOMAIN <<>> = {}
    OBVIOUS
  <2> QED BY <2>1 DEF dq_rem, PositionsOf
<1> QED BY <1>2, <1>4, <1>6, <1>7, <1>8 DEF Covers, Served, n

-----------------------------------------------------------------------------
(***************************************************************************)
(* The tasks of A are in the lists; a task that is not waiting is in them  *)
(* unless it is being deleted, and a task that does not exist is not.  No  *)
(* interrupt comes while a task is being deleted.                          *)
(***************************************************************************)
WaitStates == {"no", "wait", "timed", "inactive"}

ListedAs(A) ==
    /\ Covers(S, A)
    /\ wait \in [Tasks -> WaitStates] /\ victim \in AllTasks
    /\ \A t \in Tasks : /\ wait[t] = "no" /\ t # victim => t \in A
                        /\ wait[t] = "inactive" => t \notin A
    /\ victim # idle => ~ticking /\ victim \notin A

ListInv == \E A : ListedAs(A)

(***************************************************************************)
(* An operation that leaves a scheduler state leaves it in the variables.  *)
(***************************************************************************)
LEMMA BecomesState ==
  ASSUME NEW n, NEW A, Covers(n, A), Becomes(n)
  PROVE  S' = n
<1>1. n \in SchedStates
  BY DEF Covers, Holds
<1> QED BY <1>1 DEF Becomes, S, SchedStates

(***************************************************************************)
(* The fields of the state are the variables.                              *)
(***************************************************************************)
LEMMA StateFields ==
  /\ S.ready = g_readytorun /\ S.pending = g_pendingtasks
  /\ S.priority = sched_priority /\ S.lock = lockcount /\ S.slice = timeslice
  /\ Head(S.ready) = this_task
BY DEF S, this_task

(***************************************************************************)
(* The same, in the next state.                                            *)
(***************************************************************************)
LEMMA StateFieldsNext ==
  /\ S'.ready = g_readytorun' /\ S'.pending = g_pendingtasks'
  /\ S'.priority = sched_priority' /\ S'.lock = lockcount'
  /\ Head(S'.ready) = this_task'
BY DEF S, this_task

(***************************************************************************)
(* A task is ready if it is in one of the lists; the running task is.      *)
(***************************************************************************)
LEMMA ReadyIsCovered ==
  ASSUME NEW A, Covers(S, A)
  PROVE  (\A t : Ready(t) <=> t \in A) /\ this_task \in A /\ A \subseteq AllTasks
<1>1. PICK R, P : Holds(S, R, P) /\ R \cup P = A
  BY DEF Covers
<1>2. \A t : (InList(S.ready, t) <=> t \in R) /\ (InList(S.pending, t) <=> t \in P)
  BY <1>1, InListIsMember
<1>3. \A t : Ready(t) <=> t \in A
  BY <1>1, <1>2, StateFields DEF Ready
<1>4. this_task \in A
  BY <1>1, HeadOfReady, StateFields
<1>5. A \subseteq AllTasks
  BY <1>1 DEF Holds, AllTasks
<1> QED BY <1>3, <1>4, <1>5

(***************************************************************************)
(* At the start only the idle task is ready.                               *)
(***************************************************************************)
LEMMA ListInit == Init => ListInv /\ Served(S)
<1> SUFFICES ASSUME Init PROVE ListInv /\ Served(S)
  OBVIOUS
<1>1. /\ S.ready = <<idle>> /\ S.pending = <<>>
      /\ S.lock = [t \in AllTasks |-> 0] /\ S.slice = RR_INTERVAL
      /\ S.priority = [t \in AllTasks |-> IF t = idle THEN 0 ELSE FirstPriority[t]]
  BY DEF Init, S, AllTasks
<1>2. \A t \in Tasks : FirstPriority[t] \in Nat /\ FirstPriority[t] >= 1 /\ t # idle
  BY KernelAssumption, SchedPriorities, SchedTasks
<1>3. /\ S.priority \in [AllTasks -> Nat] /\ S.priority[idle] = 0
      /\ \A t \in Tasks : S.priority[t] >= 1
  BY <1>1, <1>2 DEF AllTasks
<1>4. S \in SchedStates
  <2>1. S.ready \in Seq(AllTasks) /\ S.pending \in Seq(AllTasks)
    BY <1>1 DEF AllTasks
  <2>2. S.lock \in [AllTasks -> Nat] /\ S.slice \in 0 .. RR_INTERVAL
    BY <1>1, SchedInterval
  <2>3. S = [ready |-> S.ready, pending |-> S.pending, priority |-> S.priority,
             lock |-> S.lock, slice |-> S.slice]
    BY DEF S
  <2> QED BY <1>3, <2>1, <2>2, <2>3 DEF SchedStates
<1>5. Lists(S.ready, {idle}, S.priority) /\ Lists(S.pending, {}, S.priority)
  <2>1. Len(S.ready) = 1 /\ S.ready[1] = idle /\ Len(S.pending) = 0
    BY <1>1
  <2> QED BY <2>1 DEF Lists
<1>6. Holds(S, {idle}, {})
  BY <1>3, <1>4, <1>5 DEF Holds, AllTasks
<1>7. Covers(S, {idle})
  <2>1. {idle} \cup {} = {idle}
    OBVIOUS
  <2> QED BY <1>6, <2>1 DEF Covers
<1>8. ListedAs({idle})
  BY <1>2, <1>7 DEF Init, ListedAs, WaitStates, AllTasks
<1> QED BY <1>1, <1>8 DEF ListInv, Served

(***************************************************************************)
(* After the step the lists hold the tasks of B, and if no exit wakes      *)
(* others, pending tasks that were served are served.                      *)
(***************************************************************************)
NextListed(B) ==
    /\ Covers(S', B) /\ (Served(S) /\ ~ExitWakes => Served(S'))

(***************************************************************************)
(* Steps that leave the scheduler alone.                                   *)
(***************************************************************************)
LEMMA SchedKept ==
  ASSUME NEW A, Covers(S, A), UNCHANGED schedVars
  PROVE  S' = S /\ NextListed(A)
<1>1. S' = S
  BY DEF schedVars, S
<1> QED BY <1>1 DEF NextListed

(***************************************************************************)
(* The operations of the scheduler, on the variables.                      *)
(***************************************************************************)
LEMMA SchedSteps ==
  ASSUME NEW A, Covers(S, A), NEW t \in Tasks
  PROVE  /\ Becomes(sched_lock(S)) => NextListed(A)
         /\ Becomes(sched_unlock(S)) => NextListed(A)
         /\ Becomes(nxsched_process_scheduler(S)) => NextListed(A)
         /\ \A p \in Nat \ {0} : Becomes(nxsched_set_priority(S, t, p)) => NextListed(A)
         /\ t = this_task /\ Becomes(up_block_task(S, t)) => NextListed(A \ {t})
         /\ t \notin A /\ Becomes(up_unblock_task(S, t)) => NextListed(A \cup {t})
         /\ t \notin A /\ Becomes(nxtask_activate(S, t)) => NextListed(A \cup {t})
         /\ t # this_task /\ Becomes([S EXCEPT !.ready = dq_rem(@, t),
                                               !.pending = dq_rem(@, t)])
              => NextListed(A \ {t})
<1>1. ASSUME Becomes(sched_lock(S)) PROVE NextListed(A)
  BY <1>1, LockEffect, BecomesState DEF NextListed
<1>2. ASSUME Becomes(sched_unlock(S)) PROVE NextListed(A)
  BY <1>2, UnlockEffect, BecomesState DEF NextListed
<1>3. ASSUME Becomes(nxsched_process_scheduler(S)) PROVE NextListed(A)
  BY <1>3, SliceEffect, BecomesState DEF NextListed
<1>4. ASSUME NEW p \in Nat \ {0}, Becomes(nxsched_set_priority(S, t, p))
      PROVE  NextListed(A)
  <2>1. p \in Nat /\ p >= 1
    OBVIOUS
  <2> QED BY <1>4, <2>1, SetPriorityEffect, BecomesState DEF NextListed
<1>5. ASSUME t = this_task, Becomes(up_block_task(S, t)) PROVE NextListed(A \ {t})
  <2>1. t = Head(S.ready)
    BY <1>5, StateFields
  <2> QED BY <1>5, <2>1, BlockEffect, BecomesState DEF NextListed
<1>6. ASSUME t \notin A, Becomes(up_unblock_task(S, t)) PROVE NextListed(A \cup {t})
  BY <1>6, UnblockEffect, BecomesState DEF NextListed
<1>7. ASSUME t \notin A, Becomes(nxtask_activate(S, t)) PROVE NextListed(A \cup {t})
  BY <1>7, ActivateEffect, BecomesState DEF NextListed
<1>8. ASSUME t # this_task, Becomes([S EXCEPT !.ready = dq_rem(@, t),
                                              !.pending = dq_rem(@, t)])
      PROVE  NextListed(A \ {t})
  <2> DEFINE n == [S EXCEPT !.ready = dq_rem(@, t), !.pending = dq_rem(@, t)]
  <2>1. t # Head(S.ready)
    BY <1>8, StateFields
  <2>2. Covers(n, A \ {t}) /\ (Served(S) => Served(n))
    BY <2>1, TakeEffect
  <2>3. Becomes(n)
    BY <1>8
  <2> HIDE DEF n
  <2> QED BY <2>2, <2>3, BecomesState DEF NextListed
<1> QED BY <1>1, <1>2, <1>3, <1>4, <1>5, <1>6, <1>7, <1>8

(***************************************************************************)
(* One step of a task keeps the lists.                                     *)
(***************************************************************************)
LEMMA TaskListStep ==
  ASSUME NEW A, ListedAs(A), NEW t \in Tasks, TaskStep(t)
  PROVE  \E B : ListedAs(B)' /\ NextListed(B)
<1>0. /\ Covers(S, A) /\ this_task \in A /\ A \subseteq AllTasks
      /\ wait \in [Tasks -> WaitStates] /\ victim \in AllTasks
      /\ \A u \in Tasks : /\ wait[u] = "no" /\ u # victim => u \in A
                          /\ wait[u] = "inactive" => u \notin A
      /\ victim # idle => ~ticking /\ victim \notin A
      /\ \A u : Ready(u) <=> u \in A
  BY ReadyIsCovered DEF ListedAs
<1>i. idle \notin Tasks /\ AllTasks = Tasks \cup {idle}
  BY SchedTasks DEF AllTasks
<1>p. sched_priority \in [AllTasks -> Nat] /\ \A u \in Tasks : sched_priority[u] >= 1
  BY <1>0, StateFields DEF Covers, Holds, SchedStates
<1>1. ASSUME NEW B, NextListed(B), UNCHANGED <<wait, victim, ticking>>, B = A
      PROVE  ListedAs(B)' /\ NextListed(B)
  BY <1>0, <1>1 DEF ListedAs, NextListed
<1>k. ASSUME UNCHANGED <<schedVars, wait, victim, ticking>>
      PROVE  ListedAs(A)' /\ NextListed(A)
  BY <1>0, <1>1, <1>k, SchedKept
<1>2. CASE Lock(t)
  BY <1>0, <1>1, <1>2, SchedSteps DEF Lock, clockVars
<1>3. CASE Unlock(t)
  BY <1>0, <1>1, <1>3, SchedSteps DEF Unlock, clockVars
<1>4. CASE sched_yield(t)
  <2>1. sched_priority[t] \in Nat \ {0}
    BY <1>i, <1>p
  <2> QED BY <1>0, <1>1, <1>4, <2>1, SchedSteps DEF sched_yield, clockVars
<1>5. CASE \E u \in Tasks, p \in Priorities : SetPriority(t, u, p)
  <2>1. PICK u \in Tasks, p \in Priorities : SetPriority(t, u, p)
    BY <1>5
  <2>2. p \in Nat \ {0}
    BY SchedPriorities
  <2> QED BY <1>0, <1>1, <2>1, <2>2, SchedSteps DEF SetPriority, clockVars
<1>6. ASSUME Runs(t), NEW x \in {"wait", "timed"}, wait' = [wait EXCEPT ![t] = x],
             Becomes(up_block_task(S, t)), UNCHANGED <<victim, clockVars>>
      PROVE  ListedAs(A \ {t})' /\ NextListed(A \ {t})
  <2>1. t = this_task /\ victim = idle
    BY <1>6 DEF Runs, Executes
  <2>2. NextListed(A \ {t})
    BY <1>0, <1>6, <2>1, SchedSteps
  <2>3. wait' \in [Tasks -> WaitStates] /\ wait'[t] = x
        /\ \A u \in Tasks : u # t => wait'[u] = wait[u]
    BY <1>0, <1>6 DEF WaitStates
  <2> QED BY <1>0, <1>6, <2>1, <2>2, <2>3 DEF ListedAs, NextListed
<1>7. CASE Wait(t)
  BY <1>6, <1>7 DEF Wait
<1>8. CASE \E delay \in Delays : nxsem_tickwait(t, delay)
  BY <1>6, <1>8 DEF nxsem_tickwait
<1>9. CASE WaitReturns(t)
  <2>1. NextListed(A)
    BY <1>0, <1>9, SchedKept DEF WaitReturns
  <2>2. /\ wait' \in [Tasks -> WaitStates] /\ wait'[t] = "no"
        /\ \A u \in Tasks : u # t => wait'[u] = wait[u]
        /\ t \in A /\ UNCHANGED <<victim, ticking>>
    BY <1>0, <1>9 DEF WaitReturns, WaitStates, clockVars
  <2> QED BY <1>0, <2>1, <2>2 DEF ListedAs, NextListed
<1>10. CASE \E d \in Periodic : timer_create(t, d) \/ Disarm(t, d) \/ timer_delete(t, d)
  BY <1>k, <1>10 DEF timer_create, Disarm, timer_delete, clockVars
<1>11. CASE (\E d \in Periodic : timer_settime(t, d)) \/ SettimeStep(t)
  BY <1>k, <1>11 DEF timer_settime, SettimeStep, StorePeriod, StartTimer, clockVars
<1>12. CASE \E woken \in Woken : Exit(t, woken)
  <2>1. PICK woken \in Woken : Exit(t, woken)
    BY <1>12
  <2>2. t = this_task /\ victim = idle /\ t \in A
    BY <1>0, <2>1 DEF Exit, Runs, Executes
  <2>3. woken \in AllTasks /\ (woken # idle => woken \notin A /\ ExitWakes
                                               /\ wait[woken] \in {"wait", "timed"})
    BY <1>0, <1>i DEF Woken, Blocked
  <2> DEFINE n == nxtask_exit(S, woken)
             B == IF woken = idle THEN A \ {t} ELSE (A \ {t}) \cup {woken}
  <2>4. Covers(n, B) /\ (woken = idle => Served(n))
    <3>1. Head(S.ready) = t
      BY <2>2, StateFields
    <3> QED BY <1>0, <2>3, <3>1, ExitEffect
  <2>5. S' = n
    <3>1. Becomes(n)
      BY <2>1 DEF Exit
    <3> HIDE DEF n
    <3> QED BY <2>4, <3>1, BecomesState
  <2> HIDE DEF n
  <2>6. NextListed(B)
    BY <2>3, <2>4, <2>5 DEF NextListed
  <2>7. wait' = [wait EXCEPT ![t] = "inactive"] /\ UNCHANGED <<victim, ticking>>
    BY <2>1 DEF Exit, Released, clockVars
  <2>8. wait' \in [Tasks -> WaitStates] /\ wait'[t] = "inactive"
        /\ \A u \in Tasks : u # t => wait'[u] = wait[u]
    BY <1>0, <2>7 DEF WaitStates
  <2>9. woken # idle => woken # t
    BY <2>2, <2>3
  <2>10. ListedAs(B)'
    BY <1>0, <2>2, <2>3, <2>6, <2>7, <2>8, <2>9 DEF ListedAs, NextListed
  <2> QED BY <2>6, <2>10
<1>13. CASE \E u \in Tasks : task_delete(t, u)
  <2>1. PICK u \in Tasks : task_delete(t, u)
    BY <1>13
  <2>2. t = this_task /\ u # t /\ ~ticking /\ victim = idle
    BY <2>1 DEF task_delete, Runs, Executes
  <2>3. NextListed(A \ {u})
    BY <1>0, <2>1, <2>2, SchedSteps DEF task_delete
  <2>4. victim' = u /\ UNCHANGED <<wait, ticking>>
    BY <2>1 DEF task_delete, clockVars
  <2>5. ListedAs(A \ {u})'
    BY <1>0, <1>i, <2>2, <2>3, <2>4 DEF ListedAs, NextListed
  <2> QED BY <2>3, <2>5
<1>14. CASE Terminated(t)
  <2>1. NextListed(A)
    BY <1>0, <1>14, SchedKept DEF Terminated
  <2>2. /\ victim # idle /\ victim' = idle /\ UNCHANGED ticking
        /\ wait' = [wait EXCEPT ![victim] = "inactive"]
    BY <1>14 DEF Terminated, Released, clockVars
  <2>3. victim \in Tasks /\ victim \notin A
    BY <1>0, <1>i, <2>2
  <2>4. wait' \in [Tasks -> WaitStates] /\ wait'[victim] = "inactive"
        /\ \A u \in Tasks : u # victim => wait'[u] = wait[u]
    BY <1>0, <2>2, <2>3 DEF WaitStates
  <2>5. ListedAs(A)'
    BY <1>0, <1>i, <2>1, <2>2, <2>3, <2>4 DEF ListedAs, NextListed
  <2> QED BY <2>1, <2>5
<1> QED BY <1>2, <1>3, <1>4, <1>5, <1>7, <1>8, <1>9, <1>10, <1>11, <1>12, <1>13, <1>14
        DEF TaskStep

(***************************************************************************)
(* Every step keeps the lists, and leaves no task pending for no reason,   *)
(* when interrupts do not come inside a deletion.                          *)
(***************************************************************************)
LEMMA ListStep ==
  ASSUME ~DeletePreempted, ListInv, [Next]_vars
  PROVE  ListInv' /\ (Served(S) /\ ~ExitWakes => Served(S)')
<1>1. PICK A : ListedAs(A)
  BY DEF ListInv
<1> SUFFICES \E B : ListedAs(B)' /\ NextListed(B)
  BY DEF ListInv, NextListed
<1>0. /\ Covers(S, A)
      /\ wait \in [Tasks -> WaitStates] /\ victim \in AllTasks
      /\ \A u \in Tasks : /\ wait[u] = "no" /\ u # victim => u \in A
                          /\ wait[u] = "inactive" => u \notin A
      /\ victim # idle => ~ticking /\ victim \notin A
      /\ \A u : Ready(u) <=> u \in A
  BY <1>1, ReadyIsCovered DEF ListedAs
<1>2. ASSUME NEW t \in Tasks, TaskStep(t) PROVE \E B : ListedAs(B)' /\ NextListed(B)
  BY <1>1, <1>2, TaskListStep
<1>3. ASSUME NEW t \in Tasks, Blocked(t), Becomes(up_unblock_task(S, t)), victim = idle,
             UNCHANGED <<wait, victim>>
      PROVE  ListedAs(A \cup {t})' /\ NextListed(A \cup {t})
  <2>1. t \notin A /\ wait[t] # "inactive"
    BY <1>0, <1>3 DEF Blocked
  <2>2. NextListed(A \cup {t})
    BY <1>0, <1>3, <2>1, SchedSteps
  <2> QED BY <1>0, <1>3, <2>1, <2>2 DEF ListedAs, NextListed
<1>4. ASSUME NEW t \in Tasks, Post(t) PROVE \E B : ListedAs(B)' /\ NextListed(B)
  <2>1. victim = idle
    BY <1>4 DEF Post, InterruptsOn
  <2> QED BY <1>3, <1>4, <2>1 DEF Post
<1>5. ASSUME NEW t \in Tasks, Create(t) PROVE \E B : ListedAs(B)' /\ NextListed(B)
  <2>1. /\ t \notin A /\ victim = idle /\ UNCHANGED <<victim, ticking>>
        /\ wait' = [wait EXCEPT ![t] = "no"]
    BY <1>0, <1>5 DEF Create, clockVars
  <2>2. NextListed(A \cup {t})
    BY <1>0, <1>5, <2>1, SchedSteps DEF Create
  <2>3. wait' \in [Tasks -> WaitStates] /\ wait'[t] = "no"
        /\ \A u \in Tasks : u # t => wait'[u] = wait[u]
    BY <1>0, <2>1 DEF WaitStates
  <2>4. ListedAs(A \cup {t})'
    BY <1>0, <2>1, <2>2, <2>3 DEF ListedAs, NextListed
  <2> QED BY <2>2, <2>4
<1>6. CASE Tick
  <2>1. NextListed(A)
    <3>1. Becomes(nxsched_process_scheduler(S))
      BY <1>6 DEF Tick
    <3>2. Covers(nxsched_process_scheduler(S), A)
          /\ (Served(S) => Served(nxsched_process_scheduler(S)))
      BY <1>0, SliceEffect
    <3> QED BY <3>1, <3>2, BecomesState DEF NextListed
  <2>2. victim = idle /\ UNCHANGED <<wait, victim>>
    BY <1>6 DEF Tick, clock_timer, InterruptsOn
  <2> QED BY <1>0, <2>1, <2>2 DEF ListedAs, NextListed
<1>7. CASE Expire
  <2>1. victim = idle /\ UNCHANGED <<wait, victim>>
    BY <1>0, <1>7 DEF Expire
  <2>2. CASE UNCHANGED schedVars
    <3>1. NextListed(A)
      BY <1>0, <2>2, SchedKept
    <3> QED BY <1>0, <2>1, <3>1 DEF ListedAs, NextListed
  <2>3. CASE \E t \in Tasks : Blocked(t) /\ Becomes(up_unblock_task(S, t))
    BY <1>3, <2>1, <2>3
  <2> QED BY <1>7, <2>2, <2>3 DEF Expire
<1>8. CASE UNCHANGED vars
  <2>1. NextListed(A) /\ UNCHANGED <<wait, victim, ticking>>
    BY <1>0, <1>8, SchedKept DEF vars, clockVars
  <2> QED BY <1>0, <2>1 DEF ListedAs, NextListed
<1> QED BY <1>2, <1>4, <1>5, <1>6, <1>7, <1>8 DEF Next

(***************************************************************************)
(* ListsOrdered: both task lists stay in the order of priority, hold no    *)
(* task twice and every task that is not waiting, through sched_lock,      *)
(* priority changes, waits, timeouts, exits and deletions.                 *)
(***************************************************************************)
THEOREM ListsCorrect == ~DeletePreempted => (Spec => []ListsOrdered)
<1> SUFFICES ASSUME ~DeletePreempted PROVE Spec => []ListsOrdered
  OBVIOUS
<1>1. Init => ListInv
  BY ListInit
<1>2. ListInv /\ [Next]_vars => ListInv'
  BY ListStep
<1>3. ListInv => ListsOrdered
  <2> SUFFICES ASSUME NEW A, ListedAs(A) PROVE ListsOrdered
    BY DEF ListInv
  <2>1. PICK R, P : Holds(S, R, P) /\ R \cup P = A
    BY DEF ListedAs, Covers
  <2> DEFINE a == g_readytorun
             b == g_pendingtasks
             Q == sched_priority
  <2>2. /\ a \in Seq(AllTasks) /\ b \in Seq(AllTasks) /\ Q \in [AllTasks -> Nat]
        /\ Lists(a, R, Q) /\ Lists(b, P, Q) /\ R \cap P = {} /\ idle \in R
        /\ Q[idle] = 0 /\ \A t \in Tasks : Q[t] >= 1
        /\ R \subseteq AllTasks
    BY <2>1, StateFields DEF Holds, SchedStates
  <2>3. /\ DOMAIN a = 1 .. Len(a) /\ Len(a) \in Nat
        /\ DOMAIN b = 1 .. Len(b) /\ Len(b) \in Nat
    BY <2>2, LenProperties
  <2>l. Len(a) \in Nat /\ Len(b) \in Nat
    BY <2>3
  <2>u. \A x, y \in 1 .. Len(b) : x < y => b[x] # b[y]
    BY <2>2 DEF Lists
  <2>4. Sorted(a) /\ Sorted(b)
    BY <2>2, <2>3 DEF Sorted, Lists
  <2>5. IsInjective(a \o b)
    <3> DEFINE c == a \o b
    <3>1. /\ c \in Seq(AllTasks) /\ Len(c) = Len(a) + Len(b)
          /\ \A k \in 1 .. Len(a) + Len(b) :
               c[k] = IF k <= Len(a) THEN a[k] ELSE b[k - Len(a)]
      BY <2>2, ConcatProperties
    <3> HIDE DEF c
    <3>2. DOMAIN c = 1 .. Len(a) + Len(b)
      BY <3>1, LenProperties
    <3>3. ASSUME NEW i \in 1 .. Len(a) + Len(b), NEW j \in 1 .. Len(a) + Len(b), i < j
          PROVE  c[i] # c[j]
      <4>1. CASE j <= Len(a)
        <5>1. c[i] = a[i] /\ c[j] = a[j] /\ i \in 1 .. Len(a) /\ j \in 1 .. Len(a)
          BY <2>3, <3>1, <3>3, <4>1
        <5> QED BY <2>2, <3>3, <5>1 DEF Lists
      <4>2. CASE ~(j <= Len(a)) /\ i <= Len(a)
        <5>1. c[i] = a[i] /\ c[j] = b[j - Len(a)] /\ i \in 1 .. Len(a)
              /\ j - Len(a) \in 1 .. Len(b)
          BY <2>3, <3>1, <3>3, <4>2
        <5>2. c[i] \in R /\ c[j] \in P
          BY <2>2, <5>1 DEF Lists
        <5> QED BY <2>2, <5>2
      <4>3. CASE ~(j <= Len(a)) /\ ~(i <= Len(a))
        <5>1. c[i] = b[i - Len(a)] /\ c[j] = b[j - Len(a)] /\ i - Len(a) \in 1 .. Len(b)
              /\ j - Len(a) \in 1 .. Len(b) /\ i - Len(a) < j - Len(a)
          BY <2>l, <3>1, <3>3, <4>3
        <5> HIDE DEF a, b
        <5> QED BY <2>u, <5>1
      <4> QED BY <4>1, <4>2, <4>3
    <3>4. \A i, j \in 1 .. Len(a) + Len(b) : c[i] = c[j] => i = j
      <4> SUFFICES ASSUME NEW i \in 1 .. Len(a) + Len(b), NEW j \in 1 .. Len(a) + Len(b),
                          c[i] = c[j], i # j
                   PROVE  FALSE
        OBVIOUS
      <4>1. i < j \/ j < i
        BY <2>3
      <4> QED BY <3>3, <4>1
    <3> QED BY <3>2, <3>4 DEF IsInjective, c
  <2>6. Last(a) = idle
    <3>1. PICK i \in 1 .. Len(a) : a[i] = idle
      BY <2>2 DEF Lists
    <3>2. Len(a) \in 1 .. Len(a)
      BY <2>3, <3>1
    <3>3. i = Len(a)
      <4> SUFFICES ASSUME i # Len(a) PROVE FALSE
        OBVIOUS
      <4>1. i < Len(a)
        <5> HIDE DEF a
        <5> QED BY <2>l
      <4>2. a[i] # a[Len(a)] /\ Q[a[i]] >= Q[a[Len(a)]] /\ a[Len(a)] \in AllTasks
        BY <2>2, <3>2, <4>1 DEF Lists
      <4>3. a[Len(a)] \in Tasks
        BY <3>1, <4>2 DEF AllTasks
      <4>4. Q[a[Len(a)]] >= 1 /\ Q[a[Len(a)]] \in Nat
        BY <2>2, <4>2, <4>3
      <4> QED BY <2>2, <3>1, <4>2, <4>4
    <3> QED BY <3>1, <3>3 DEF Last
  <2>7. \A t \in Tasks : /\ wait[t] = "no" /\ t # victim => Ready(t)
                         /\ wait[t] = "inactive" => ~Ready(t)
    BY ReadyIsCovered DEF ListedAs
  <2> QED BY <2>4, <2>5, <2>6, <2>7 DEF ListsOrdered
<1> QED BY <1>1, <1>2, <1>3, PTL DEF Spec

(***************************************************************************)
(* NotStranded: a task is pending only while the running task holds        *)
(* sched_lock, and so the running task has the highest priority of all     *)
(* ready tasks when it does not.  The wake-ups of nxtask_exit are excluded.*)
(***************************************************************************)
THEOREM NobodyStranded == ~DeletePreempted /\ ~ExitWakes => (Spec => []NotStranded)
<1> SUFFICES ASSUME ~DeletePreempted, ~ExitWakes PROVE Spec => []NotStranded
  OBVIOUS
<1> DEFINE I == ListInv /\ Served(S)
<1>1. Init => I
  BY ListInit
<1>2. I /\ [Next]_vars => I'
  BY ListStep
<1>3. I => NotStranded
  <2> SUFFICES ASSUME NEW A, ListedAs(A), Served(S) PROVE NotStranded
    BY DEF ListInv
  <2>1. PICK R, P : Holds(S, R, P) /\ R \cup P = A
    BY DEF ListedAs, Covers
  <2>2. Unlocked => g_pendingtasks = <<>>
    BY StateFields DEF Served, Unlocked
  <2>3. ASSUME Unlocked, NEW t \in Tasks, Ready(t)
        PROVE  sched_priority[t] <= sched_priority[this_task]
    <3>1. S.pending = <<>> /\ Lists(S.pending, P, S.priority)
      BY <2>1, <2>2, <2>3, StateFields DEF Holds
    <3>2. P = {}
      BY <3>1 DEF Lists
    <3>3. t \in R
      BY <2>1, <2>3, <3>2, ReadyIsCovered DEF ListedAs
    <3>4. PICK i \in 1 .. Len(S.ready) : S.ready[i] = t
      BY <2>1, <3>3 DEF Holds, Lists
    <3>5. /\ this_task = S.ready[1] /\ Len(S.ready) \in Nat /\ Len(S.ready) >= 1
          /\ this_task \in AllTasks
      BY <2>1, HeadOfReady, StateFields
    <3>6. S.priority \in [AllTasks -> Nat] /\ t \in AllTasks /\ Lists(S.ready, R, S.priority)
      BY <2>1 DEF Holds, SchedStates, AllTasks
    <3>7. S.priority[t] <= S.priority[this_task]
      <4>1. CASE i = 1
        BY <3>4, <3>5, <3>6, <4>1
      <4>2. CASE 1 < i
        <5>1. 1 \in 1 .. Len(S.ready)
          BY <3>5
        <5>2. S.priority[S.ready[1]] >= S.priority[S.ready[i]]
          BY <3>6, <4>2, <5>1 DEF Lists
        <5> QED BY <3>4, <3>5, <3>6, <5>2
      <4> QED BY <3>4, <4>1, <4>2
    <3> QED BY <3>7, StateFields
  <2> QED BY <2>2, <2>3 DEF NotStranded
<1> QED BY <1>1, <1>2, <1>3, PTL DEF Spec

(***************************************************************************)
(* LockKeepsProcessor: while the running task holds sched_lock, neither    *)
(* the timer interrupt nor a task that is unblocked or created takes its   *)
(* place at the head of the ready list.                                    *)
(***************************************************************************)
THEOREM LockKeepsTask == ~DeletePreempted => (Spec => LockKeepsProcessor)
<1> SUFFICES ASSUME ~DeletePreempted PROVE Spec => LockKeepsProcessor
  OBVIOUS
<1>1. Init => ListInv
  BY ListInit
<1>2. ListInv /\ [Next]_vars => ListInv'
  BY ListStep
<1> DEFINE Keeps == (Tick \/ Expire \/ \E t \in Tasks : Post(t) \/ Create(t)) /\ ~Unlocked
                      => this_task' = this_task
<1>3. ListInv => Keeps
  <2> SUFFICES ASSUME NEW A, ListedAs(A),
                      Tick \/ Expire \/ \E t \in Tasks : Post(t) \/ Create(t), ~Unlocked
               PROVE  this_task' = this_task
    BY DEF ListInv
  <2>0. Covers(S, A) /\ (\A u : Ready(u) <=> u \in A)
        /\ (\A u \in Tasks : wait[u] = "inactive" => u \notin A)
    BY ReadyIsCovered DEF ListedAs
  <2>1. S.lock[Head(S.ready)] > 0
    <3>1. PICK R, P : Holds(S, R, P)
      BY <2>0 DEF Covers
    <3>2. S.lock[Head(S.ready)] \in Nat
      BY <3>1, HeadOfReady DEF Holds, SchedStates
    <3>3. S.lock[Head(S.ready)] # 0
      BY StateFields DEF Unlocked
    <3> QED BY <3>2, <3>3
  <2>2. ASSUME NEW n, NEW B, Covers(n, B), Becomes(n), Head(n.ready) = Head(S.ready)
        PROVE  this_task' = this_task
    BY <2>2, BecomesState, StateFields, StateFieldsNext
  <2>3. ASSUME NEW t \in Tasks, Blocked(t), Becomes(up_unblock_task(S, t))
        PROVE  this_task' = this_task
    <3>1. t \notin A
      BY <2>0, <2>3 DEF Blocked
    <3> QED BY <2>0, <2>1, <2>2, <2>3, <3>1, UnblockEffect
  <2>4. CASE Tick
    BY <2>0, <2>1, <2>2, <2>4, SliceEffect DEF Tick
  <2>5. CASE Expire
    <3>1. CASE UNCHANGED schedVars
      BY <3>1 DEF schedVars, this_task
    <3>2. CASE \E t \in Tasks : Blocked(t) /\ Becomes(up_unblock_task(S, t))
      BY <2>3, <3>2
    <3> QED BY <2>5, <3>1, <3>2 DEF Expire
  <2>6. ASSUME NEW t \in Tasks, Post(t) PROVE this_task' = this_task
    BY <2>3, <2>6 DEF Post
  <2>7. ASSUME NEW t \in Tasks, Create(t) PROVE this_task' = this_task
    <3>1. t \notin A /\ Becomes(nxtask_activate(S, t))
      BY <2>0, <2>7 DEF Create
    <3> QED BY <2>0, <2>1, <2>2, <3>1, ActivateEffect
  <2> QED BY <2>4, <2>5, <2>6, <2>7
<1>4. ListInv => [Keeps]_vars
  BY <1>3
<1>5. Spec => []ListInv
  BY <1>1, <1>2, PTL DEF Spec
<1> QED BY <1>4, <1>5, PTL DEF LockKeepsProcessor

-----------------------------------------------------------------------------
(***************************************************************************)
(* Watchdogs: a list without duplicates, and lags whose sum fits.  The     *)
(* lags are natural numbers here; that none is above INT32_MAX follows.    *)
(***************************************************************************)
WdStates == [list : Seq(Wdogs), lag : [Wdogs -> Nat]]

Distinct(l) == \A i, j \in 1 .. Len(l) : i # j => l[i] # l[j]

WdGood(w) ==
    /\ w \in WdStates /\ Distinct(w.list)
    /\ Expiry(w)[Len(w.list)] <= INT32_MAX

(***************************************************************************)
(* The sums of the lags are well defined.                                  *)
(***************************************************************************)
LEMMA ExpirySteps ==
  ASSUME NEW w, Len(w.list) \in Nat
  PROVE  \A n \in 0 .. Len(w.list) :
            Expiry(w)[n] =
              IF n = 0 THEN 0 ELSE Expiry(w)[n - 1] + w.lag[w.list[n]]
<1> DEFINE p == Len(w.list)
           Loop(m, g) ==
             g = [n \in 0 .. m |-> IF n = 0 THEN 0 ELSE g[n - 1] + w.lag[w.list[n]]]
           T == {m \in 0 .. p : ~ \E g : Loop(m, g)}
<1>0. p \in Nat /\ p \in 0 .. p
  OBVIOUS
<1>1. Expiry(w) = CHOOSE g : Loop(p, g)
  BY DEF Expiry
<1> HIDE DEF p
<1>2. T = {}
  <2> SUFFICES ASSUME T # {} PROVE FALSE
    OBVIOUS
  <2>1. T \in SUBSET Nat
    BY <1>0
  <2> DEFINE m == Min(T)
  <2>2. m \in T /\ \A k \in T : m <= k
    <3> HIDE DEF T
    <3> QED BY <2>1, MinProperties
  <2> HIDE DEF m
  <2>3. m \in Nat /\ m <= p /\ ~ \E g : Loop(m, g)
    BY <1>0, <2>2
  <2>4. CASE m = 0
    <3> DEFINE g == [n \in 0 .. 0 |-> 0]
    <3>1. g = [n \in 0 .. 0 |-> IF n = 0 THEN 0 ELSE g[n - 1] + w.lag[w.list[n]]]
      OBVIOUS
    <3> QED BY <2>3, <2>4, <3>1
  <2>5. CASE m > 0
    <3>1. m - 1 \in 0 .. p /\ m - 1 \notin T
      <4> HIDE DEF T, Loop
      <4> QED BY <1>0, <2>2, <2>3, <2>5
    <3>2. PICK g : Loop(m - 1, g)
      BY <3>1
    <3> DEFINE h == [n \in 0 .. m |-> IF n = m THEN g[m - 1] + w.lag[w.list[m]] ELSE g[n]]
    <3>3. ASSUME NEW n \in 0 .. m
          PROVE  h[n] = IF n = 0 THEN 0 ELSE h[n - 1] + w.lag[w.list[n]]
      <4>1. CASE n = m
        <5>1. h[n] = g[m - 1] + w.lag[w.list[m]] /\ n # 0
          BY <4>1, <2>3, <2>5
        <5>2. n - 1 \in 0 .. m /\ n - 1 # m /\ n - 1 = m - 1
          BY <4>1, <2>3, <2>5
        <5>3. h[n - 1] = g[m - 1]
          BY <5>2
        <5> QED BY <4>1, <5>1, <5>3
      <4>2. CASE n # m
        <5>1. n \in 0 .. m - 1 /\ h[n] = g[n]
          BY <4>2, <2>3
        <5>2. g[n] = IF n = 0 THEN 0 ELSE g[n - 1] + w.lag[w.list[n]]
          BY <3>2, <5>1
        <5>3. n # 0 => n - 1 \in 0 .. m /\ n - 1 # m
          BY <5>1, <2>3
        <5>4. n # 0 => h[n - 1] = g[n - 1]
          BY <5>3
        <5> QED BY <5>1, <5>2, <5>4
      <4> QED BY <4>1, <4>2
    <3>4. h = [n \in 0 .. m |-> h[n]]
      OBVIOUS
    <3> HIDE DEF h
    <3>5. h = [n \in 0 .. m |-> IF n = 0 THEN 0 ELSE h[n - 1] + w.lag[w.list[n]]]
      BY <3>3, <3>4
    <3> QED BY <2>3, <3>5
  <2> QED BY <2>3, <2>4, <2>5
<1>3. \E g : Loop(p, g)
  BY <1>0, <1>2
<1>4. Loop(p, Expiry(w))
  <2> HIDE DEF Loop
  <2> QED BY <1>1, <1>3
<1> QED BY <1>4 DEF p

(***************************************************************************)
(* The fields of a state of the watchdogs.                                 *)
(***************************************************************************)
LEMMA WdFields ==
  ASSUME NEW w \in WdStates
  PROVE  /\ w.list \in Seq(Wdogs) /\ Len(w.list) \in Nat /\ w.lag \in [Wdogs -> Nat]
         /\ DOMAIN w.list = 1 .. Len(w.list)
         /\ \A i \in 1 .. Len(w.list) : w.list[i] \in Wdogs /\ w.lag[w.list[i]] \in Nat
<1>1. w.list \in Seq(Wdogs) /\ w.lag \in [Wdogs -> Nat]
  BY DEF WdStates
<1>2. Len(w.list) \in Nat /\ DOMAIN w.list = 1 .. Len(w.list)
  BY <1>1, LenProperties
<1>3. \A i \in 1 .. Len(w.list) : w.list[i] \in Wdogs
  BY <1>1, ElementOfSeq
<1> QED BY <1>1, <1>2, <1>3

(***************************************************************************)
(* The sums are natural numbers.                                           *)
(***************************************************************************)
LEMMA ExpiryType ==
  ASSUME NEW w \in WdStates
  PROVE  \A n \in 0 .. Len(w.list) : Expiry(w)[n] \in Nat
<1> DEFINE p == Len(w.list)
           e == Expiry(w)
           T == {k \in 0 .. p : e[k] \notin Nat}
<1>0. p \in Nat /\ \A i \in 1 .. p : w.lag[w.list[i]] \in Nat
  BY WdFields
<1>1. \A n \in 0 .. p : e[n] = IF n = 0 THEN 0 ELSE e[n - 1] + w.lag[w.list[n]]
  BY <1>0, ExpirySteps
<1> HIDE DEF p, e
<1>2. T = {}
  <2> SUFFICES ASSUME T # {} PROVE FALSE
    OBVIOUS
  <2>1. T \in SUBSET Nat
    BY <1>0
  <2> DEFINE m == Min(T)
  <2>2. m \in T /\ \A k \in T : m <= k
    <3> HIDE DEF T
    <3> QED BY <2>1, MinProperties
  <2> HIDE DEF m
  <2>3. m \in 0 .. p /\ e[m] \notin Nat /\ m \in Nat
    BY <1>0, <2>2
  <2>4. CASE m = 0
    BY <1>1, <2>3, <2>4
  <2>5. CASE m # 0
    <3>1. m - 1 \in 0 .. p /\ m \in 1 .. p
      BY <1>0, <2>3, <2>5
    <3>2. m - 1 \notin T
      <4> HIDE DEF T
      <4> QED BY <2>2, <2>3
    <3>3. e[m - 1] \in Nat
      BY <3>1, <3>2
    <3>4. e[m] = e[m - 1] + w.lag[w.list[m]]
      BY <1>1, <2>3, <2>5
    <3>5. w.lag[w.list[m]] \in Nat
      BY <1>0, <3>1
    <3> QED BY <2>3, <3>3, <3>4, <3>5
  <2> QED BY <2>4, <2>5
<1> QED BY <1>2 DEF p, e

(***************************************************************************)
(* The sums do not decrease.                                               *)
(***************************************************************************)
LEMMA ExpiryMonotonic ==
  ASSUME NEW w \in WdStates
  PROVE  \A i, j \in 0 .. Len(w.list) : i <= j => Expiry(w)[i] <= Expiry(w)[j]
<1> DEFINE p == Len(w.list)
           e == Expiry(w)
<1>0. p \in Nat /\ (\A i \in 1 .. p : w.lag[w.list[i]] \in Nat)
      /\ \A n \in 0 .. p : e[n] \in Nat
  BY WdFields, ExpiryType
<1>1. \A n \in 0 .. p : e[n] = IF n = 0 THEN 0 ELSE e[n - 1] + w.lag[w.list[n]]
  BY <1>0, ExpirySteps
<1> HIDE DEF p, e
<1>2. ASSUME NEW i \in 0 .. p
      PROVE  \A j \in 0 .. p : i <= j => e[i] <= e[j]
  <2> DEFINE T == {k \in 0 .. p : i <= k /\ ~(e[i] <= e[k])}
  <2> SUFFICES ASSUME T # {} PROVE FALSE
    OBVIOUS
  <2>1. T \in SUBSET Nat
    BY <1>0
  <2> DEFINE m == Min(T)
  <2>2. m \in T /\ \A k \in T : m <= k
    <3> HIDE DEF T
    <3> QED BY <2>1, MinProperties
  <2> HIDE DEF m
  <2>3. m \in 0 .. p /\ i <= m /\ ~(e[i] <= e[m]) /\ m \in Nat
    BY <1>0, <2>2
  <2>4. m # i
    BY <1>0, <2>3
  <2>5. m - 1 \in 0 .. p /\ m \in 1 .. p /\ i <= m - 1 /\ m # 0
    BY <1>0, <2>3, <2>4
  <2>6. m - 1 \notin T
    <3> HIDE DEF T
    <3> QED BY <2>2, <2>3
  <2>7. e[i] <= e[m - 1]
    BY <2>5, <2>6
  <2>8. e[m] = e[m - 1] + w.lag[w.list[m]] /\ w.lag[w.list[m]] \in Nat
    BY <1>0, <1>1, <2>3, <2>5
  <2>9. e[i] \in Nat /\ e[m - 1] \in Nat
    BY <1>0, <2>5
  <2> QED BY <2>3, <2>7, <2>8, <2>9
<1> QED BY <1>2 DEF p, e

(***************************************************************************)
(* Numbers that begin with 0 and grow by the lags are the sums.            *)
(***************************************************************************)
LEMMA ExpiryUnique ==
  ASSUME NEW w \in WdStates, NEW f, f[0] = 0,
         \A i \in 1 .. Len(w.list) : f[i] = f[i - 1] + w.lag[w.list[i]]
  PROVE  \A n \in 0 .. Len(w.list) : Expiry(w)[n] = f[n]
<1> DEFINE p == Len(w.list)
           e == Expiry(w)
           T == {k \in 0 .. p : e[k] # f[k]}
<1>0. p \in Nat
  BY WdFields
<1>1. \A n \in 0 .. p : e[n] = IF n = 0 THEN 0 ELSE e[n - 1] + w.lag[w.list[n]]
  BY <1>0, ExpirySteps
<1>a. \A i \in 1 .. p : f[i] = f[i - 1] + w.lag[w.list[i]]
  OBVIOUS
<1> HIDE DEF p, e
<1>2. T = {}
  <2> SUFFICES ASSUME T # {} PROVE FALSE
    OBVIOUS
  <2>1. T \in SUBSET Nat
    BY <1>0
  <2> DEFINE m == Min(T)
  <2>2. m \in T /\ \A k \in T : m <= k
    <3> HIDE DEF T
    <3> QED BY <2>1, MinProperties
  <2> HIDE DEF m
  <2>3. m \in 0 .. p /\ e[m] # f[m] /\ m \in Nat
    BY <1>0, <2>2
  <2>4. CASE m = 0
    BY <1>1, <2>3, <2>4
  <2>5. CASE m # 0
    <3>1. m - 1 \in 0 .. p /\ m \in 1 .. p
      BY <1>0, <2>3, <2>5
    <3>2. m - 1 \notin T
      <4> HIDE DEF T
      <4> QED BY <2>2, <2>3
    <3>3. e[m - 1] = f[m - 1]
      BY <3>1, <3>2
    <3>4. e[m] = e[m - 1] + w.lag[w.list[m]]
      BY <1>1, <2>3, <2>5
    <3>5. f[m] = f[m - 1] + w.lag[w.list[m]]
      BY <1>a, <3>1
    <3> QED BY <2>3, <3>3, <3>4, <3>5
  <2> QED BY <2>4, <2>5
<1> QED BY <1>2 DEF p, e

(***************************************************************************)
(* wd_gettime: the sum at the position of the watchdog, or 0.              *)
(***************************************************************************)
LEMMA GetTime ==
  ASSUME NEW w \in WdStates, Distinct(w.list), NEW d
  PROVE  /\ \A i \in 1 .. Len(w.list) : w.list[i] = d => wd_gettime(w, d) = Expiry(w)[i]
         /\ (\A i \in 1 .. Len(w.list) : w.list[i] # d) => wd_gettime(w, d) = 0
<1>0. DOMAIN w.list = 1 .. Len(w.list) /\ Len(w.list) \in Nat
  BY WdFields
<1>1. ASSUME NEW i \in 1 .. Len(w.list), w.list[i] = d
      PROVE  wd_gettime(w, d) = Expiry(w)[i]
  <2>1. PositionsOf(w.list, d) = {i}
    BY <1>0, <1>1 DEF PositionsOf, Distinct
  <2>2. {i} \in SUBSET Nat
    BY <1>0
  <2>3. Min({i}) = i
    <3>1. {i} # {}
      OBVIOUS
    <3>2. Min({i}) \in {i}
      BY <2>2, <3>1, MinProperties
    <3> QED BY <3>2
  <2> QED BY <2>1, <2>3 DEF wd_gettime, WDOG_ISACTIVE
<1>2. ASSUME \A i \in 1 .. Len(w.list) : w.list[i] # d PROVE wd_gettime(w, d) = 0
  BY <1>0, <1>2 DEF wd_gettime, WDOG_ISACTIVE, PositionsOf
<1> QED BY <1>1, <1>2

(***************************************************************************)
(* wd_cancel of an active watchdog: the list closes up, and the others     *)
(* expire when they would have.                                            *)
(***************************************************************************)
LEMMA CancelSums ==
  ASSUME NEW w, WdGood(w), NEW i \in 1 .. Len(w.list), NEW d, d = w.list[i]
  PROVE  LET n == wd_cancel(w, d)
         IN  /\ n \in WdStates /\ n.list = RemoveAt(w.list, i)
             /\ IsRemoval(n.list, w.list, i, Wdogs)
             /\ \A j \in 0 .. Len(n.list) :
                  Expiry(n)[j] = IF j < i THEN Expiry(w)[j] ELSE Expiry(w)[j + 1]
<1> DEFINE n == wd_cancel(w, d)
           p == Len(w.list)
           e == Expiry(w)
           next == w.list[i + 1]
<1>0. /\ w \in WdStates /\ Distinct(w.list) /\ p \in Nat /\ w.list \in Seq(Wdogs)
      /\ DOMAIN w.list = 1 .. p /\ w.lag \in [Wdogs -> Nat] /\ d \in Wdogs
      /\ \A k \in 1 .. p : w.list[k] \in Wdogs /\ w.lag[w.list[k]] \in Nat
  BY WdFields DEF WdGood
<1>1. \A k \in 0 .. p : e[k] = IF k = 0 THEN 0 ELSE e[k - 1] + w.lag[w.list[k]]
  BY <1>0, ExpirySteps
<1>2. \A k \in 0 .. p : e[k] \in Nat
  BY <1>0, ExpiryType
<1>3. PositionsOf(w.list, d) = {i} /\ Min({i}) = i
  <2>1. PositionsOf(w.list, d) = {i}
    BY <1>0 DEF PositionsOf, Distinct
  <2>2. {i} \in SUBSET Nat /\ {i} # {}
    BY <1>0
  <2>3. Min({i}) \in {i}
    BY <2>2, MinProperties
  <2> QED BY <2>1, <2>3
<1> DEFINE added == IF i = p THEN w.lag ELSE [w.lag EXCEPT ![next] = @ + w.lag[d]]
           lags == [added EXCEPT ![d] = 0]
<1>4. n = [list |-> RemoveAt(w.list, i), lag |-> lags]
  BY <1>3 DEF wd_cancel, WDOG_ISACTIVE
<1>5. /\ lags \in [Wdogs -> Nat] /\ lags[d] = 0
      /\ i < p => lags[next] = w.lag[next] + w.lag[d]
      /\ \A x \in Wdogs : x # d /\ (i < p => x # next) => lags[x] = w.lag[x]
  <2>1. CASE i = p
    BY <1>0, <2>1
  <2>2. CASE i # p
    <3>1. i + 1 \in 1 .. p /\ i < p
      BY <1>0, <2>2
    <3>2. next \in Wdogs /\ next # d /\ w.lag[d] \in Nat
      <4>1. i + 1 # i
        BY <1>0
      <4> QED BY <1>0, <3>1, <4>1 DEF Distinct
    <3> HIDE DEF next
    <3>3. added = [w.lag EXCEPT ![next] = w.lag[next] + w.lag[d]]
      BY <2>2
    <3>4. w.lag[next] + w.lag[d] \in Nat
      BY <1>0, <3>2
    <3>5. added \in [Wdogs -> Nat] /\ added[next] = w.lag[next] + w.lag[d]
          /\ \A x \in Wdogs : x # next => added[x] = w.lag[x]
      BY <1>0, <3>2, <3>3, <3>4
    <3> HIDE DEF added
    <3> QED BY <1>0, <3>1, <3>2, <3>5
  <2> QED BY <2>1, <2>2
<1>6. IsRemoval(RemoveAt(w.list, i), w.list, i, Wdogs)
  BY <1>0, RemoveAtProperties
<1> HIDE DEF lags, n, e
<1>7. n \in WdStates /\ n.list = RemoveAt(w.list, i) /\ n.lag = lags
  BY <1>4, <1>5, <1>6 DEF WdStates, IsRemoval
<1>8. /\ Len(n.list) = p - 1
      /\ \A j \in 1 .. p - 1 : n.list[j] = IF j < i THEN w.list[j] ELSE w.list[j + 1]
  BY <1>6, <1>7 DEF IsRemoval
<1> DEFINE f == [j \in 0 .. p - 1 |-> IF j < i THEN e[j] ELSE e[j + 1]]
<1>9. f[0] = 0
  BY <1>0, <1>1
<1>10. ASSUME NEW j \in 1 .. p - 1
       PROVE  f[j] = f[j - 1] + n.lag[n.list[j]]
  <2>0. /\ j \in 0 .. p - 1 /\ j - 1 \in 0 .. p - 1 /\ j \in 1 .. p /\ j + 1 \in 1 .. p
        /\ j \in 0 .. p /\ j + 1 \in 0 .. p /\ j - 1 \in 0 .. p
    BY <1>0
  <2>1. e[j] = e[j - 1] + w.lag[w.list[j]]
    BY <1>1, <2>0
  <2>2. e[j + 1] = e[j] + w.lag[w.list[j + 1]]
    <3>1. (j + 1) - 1 = j /\ j + 1 # 0
      BY <1>0
    <3> QED BY <1>1, <2>0, <3>1
  <2>3. CASE j < i
    <3>1. f[j] = e[j] /\ f[j - 1] = e[j - 1]
      BY <2>0, <2>3
    <3>2. n.list[j] = w.list[j]
      BY <1>8, <2>3
    <3>3. w.list[j] # d /\ (i < p => w.list[j] # next)
      <4>1. j # i /\ (i < p => i + 1 \in 1 .. p /\ j # i + 1)
        BY <1>0, <2>3
      <4> QED BY <1>0, <2>0, <4>1 DEF Distinct
    <3>4. lags[w.list[j]] = w.lag[w.list[j]]
      BY <1>0, <1>5, <2>0, <3>3
    <3> QED BY <1>7, <2>1, <3>1, <3>2, <3>4
  <2>4. CASE j = i
    <3>1. f[j] = e[j + 1] /\ f[j - 1] = e[j - 1]
      BY <2>0, <2>4
    <3>2. n.list[j] = next /\ i < p
      <4>1. ~(j < i) /\ i < p
        BY <1>0, <2>0, <2>4
      <4>2. n.list[j] = w.list[j + 1]
        BY <1>8, <4>1
      <4> QED BY <2>4, <4>1, <4>2
    <3>3. n.lag[n.list[j]] = w.lag[next] + w.lag[d]
      BY <1>5, <1>7, <3>2
    <3>4. e[j - 1] \in Nat /\ w.lag[w.list[j]] \in Nat /\ w.lag[w.list[j + 1]] \in Nat
      BY <1>0, <1>2, <2>0
    <3>5. w.list[j + 1] = next /\ w.list[j] = d
      BY <2>4
    <3> HIDE DEF next, f
    <3>6. e[j] = e[j - 1] + w.lag[d] /\ e[j + 1] = e[j] + w.lag[next]
      BY <2>1, <2>2, <3>5
    <3>7. w.lag[d] \in Nat /\ w.lag[next] \in Nat
      BY <3>4, <3>5
    <3>8. e[j + 1] = e[j - 1] + (w.lag[next] + w.lag[d])
      BY <3>4, <3>6, <3>7
    <3> QED BY <3>1, <3>3, <3>8
  <2>5. CASE j > i
    <3>1. f[j] = e[j + 1] /\ f[j - 1] = e[j]
      <4>1. ~(j < i) /\ ~(j - 1 < i) /\ (j - 1) + 1 = j
        BY <1>0, <2>5
      <4> QED BY <2>0, <4>1
    <3>2. n.list[j] = w.list[j + 1]
      BY <1>0, <1>8, <2>5
    <3>3. w.list[j + 1] # d /\ (i < p => w.list[j + 1] # next)
      <4>1. j + 1 # i /\ (i < p => i + 1 \in 1 .. p /\ j + 1 # i + 1)
        BY <1>0, <2>5
      <4> QED BY <1>0, <2>0, <4>1 DEF Distinct
    <3>4. lags[w.list[j + 1]] = w.lag[w.list[j + 1]]
      BY <1>0, <1>5, <2>0, <3>3
    <3> QED BY <1>7, <2>2, <3>1, <3>2, <3>4
  <2> QED BY <1>0, <2>3, <2>4, <2>5
<1> HIDE DEF f
<1>11. \A j \in 0 .. Len(n.list) : Expiry(n)[j] = f[j]
  BY <1>7, <1>8, <1>9, <1>10, ExpiryUnique
<1>12. \A j \in 0 .. Len(n.list) : Expiry(n)[j] = IF j < i THEN e[j] ELSE e[j + 1]
  BY <1>8, <1>11 DEF f
<1> QED BY <1>6, <1>7, <1>12 DEF n, e

(***************************************************************************)
(* The second half of wd_start: watchdog d, which is not active, goes into *)
(* the list for the given number of ticks.                                 *)
(***************************************************************************)
Added(c, d, ticks) ==
    LET later == {i \in DOMAIN c.list : Expiry(c)[i] > ticks}
        i == IF later = {} THEN Len(c.list) + 1 ELSE Min(later)
        own == ticks - Expiry(c)[i - 1]
        rest == IF later = {} THEN c.lag ELSE [c.lag EXCEPT ![c.list[i]] = @ - own]
    IN  [list |-> InsertBefore(c.list, later, d), lag |-> [rest EXCEPT ![d] = own]]

(***************************************************************************)
(* wd_start: the watchdog expires after its ticks, and the others when     *)
(* they would have.                                                        *)
(***************************************************************************)
LEMMA StartSums ==
  ASSUME NEW c, WdGood(c), NEW d \in Wdogs, \A i \in 1 .. Len(c.list) : c.list[i] # d,
         NEW ticks \in 1 .. INT32_MAX
  PROVE  LET n == Added(c, d, ticks)
             later == {i \in DOMAIN c.list : Expiry(c)[i] > ticks}
         IN  /\ n \in WdStates /\ n.list = InsertBefore(c.list, later, d)
             /\ \E k \in 1 .. Len(c.list) + 1 :
                  /\ IsInsertion(n.list, c.list, k, d, Wdogs)
                  /\ \A j \in 0 .. Len(c.list) + 1 :
                       Expiry(n)[j] = IF j < k THEN Expiry(c)[j]
                                      ELSE IF j = k THEN ticks ELSE Expiry(c)[j - 1]
<1> DEFINE n == Added(c, d, ticks)
           p == Len(c.list)
           e == Expiry(c)
           later == {i \in DOMAIN c.list : e[i] > ticks}
           k == IF later = {} THEN p + 1 ELSE Min(later)
           x == c.list[k]
           own == ticks - e[k - 1]
           rest == IF later = {} THEN c.lag ELSE [c.lag EXCEPT ![x] = @ - own]
           lags == [rest EXCEPT ![d] = own]
<1>0. /\ c \in WdStates /\ Distinct(c.list) /\ p \in Nat /\ c.list \in Seq(Wdogs)
      /\ DOMAIN c.list = 1 .. p /\ c.lag \in [Wdogs -> Nat]
      /\ \A j \in 1 .. p : c.list[j] \in Wdogs /\ c.lag[c.list[j]] \in Nat
  BY WdFields DEF WdGood
<1>1. \A j \in 0 .. p : e[j] = IF j = 0 THEN 0 ELSE e[j - 1] + c.lag[c.list[j]]
  BY <1>0, ExpirySteps
<1>2. \A j \in 0 .. p : e[j] \in Nat
  BY <1>0, ExpiryType
<1>t. ticks \in Nat /\ ticks >= 1
  OBVIOUS
<1>a. n = [list |-> InsertBefore(c.list, later, d), lag |-> lags]
  BY DEF Added
<1>b. later \in SUBSET (1 .. p)
  BY <1>0
<1>c. InsertBefore(c.list, later, d) = InsertAt(c.list, k, d)
  BY DEF InsertBefore
<1>d. \A j \in 1 .. p : j \in later <=> e[j] > ticks
  BY <1>0
<1> HIDE DEF n, e, later
<1>3. k \in 1 .. p + 1 /\ (k <= p => e[k] > ticks) /\ (k <= p <=> later # {})
      /\ \A j \in 1 .. k - 1 : e[j] <= ticks
  <2>1. CASE later = {}
    <3>1. k = p + 1
      BY <2>1
    <3>2. \A j \in 1 .. k - 1 : j \in 1 .. p /\ j \in 0 .. p
      BY <1>0, <3>1
    <3>3. \A j \in 1 .. k - 1 : ~(e[j] > ticks) /\ e[j] \in Nat
      BY <1>2, <1>d, <2>1, <3>2
    <3> HIDE DEF k
    <3>4. \A j \in 1 .. k - 1 : e[j] <= ticks
      BY <1>t, <3>3
    <3>5. p \in Nat
      BY <1>0
    <3>6. k \in 1 .. p + 1 /\ ~(k <= p)
      BY <3>1, <3>5
    <3> QED BY <2>1, <3>4, <3>6
  <2>2. CASE later # {}
    <3>1. k = Min(later)
      BY <2>2
    <3>2. later \in SUBSET Nat
      BY <1>b
    <3>3. k \in later /\ \A j \in later : k <= j
      BY <2>2, <3>1, <3>2, MinProperties
    <3> HIDE DEF k
    <3>4. k \in 1 .. p /\ e[k] > ticks
      BY <1>b, <1>d, <3>3
    <3>5. ASSUME NEW j \in 1 .. k - 1 PROVE e[j] <= ticks
      <4>1. j \in 1 .. p /\ j \in 0 .. p /\ ~(k <= j)
        BY <1>0, <3>4
      <4>2. j \notin later /\ e[j] \in Nat
        BY <1>2, <3>3, <4>1
      <4> QED BY <1>d, <1>t, <4>1, <4>2
    <3> QED BY <1>0, <2>2, <3>4, <3>5
  <2> QED BY <2>1, <2>2
<1>i. IsInsertion(InsertAt(c.list, k, d), c.list, k, d, Wdogs)
  BY <1>0, <1>3, InsertAtProperties
<1> HIDE DEF k
<1>4. e[k - 1] \in Nat /\ e[k - 1] <= ticks /\ k - 1 \in 0 .. p /\ k \in Nat
  <2>1. k - 1 \in 0 .. p /\ k \in Nat
    BY <1>0, <1>3
  <2>2. CASE k = 1
    BY <1>1, <1>t, <2>1, <2>2
  <2>3. CASE k # 1
    <3>1. k - 1 \in 1 .. k - 1
      BY <1>3, <2>1, <2>3
    <3> QED BY <1>2, <1>3, <2>1, <3>1
  <2> QED BY <2>1, <2>2, <2>3
<1>5. own \in Nat /\ e[k - 1] + own = ticks
  BY <1>4, <1>t
<1>6. k <= p => /\ k \in 1 .. p /\ e[k] = e[k - 1] + c.lag[x] /\ c.lag[x] \in Nat
                /\ x \in Wdogs /\ x # d /\ c.lag[x] - own \in Nat
                /\ ticks + (c.lag[x] - own) = e[k]
  <2> SUFFICES ASSUME k <= p
               PROVE  /\ k \in 1 .. p /\ e[k] = e[k - 1] + c.lag[x] /\ c.lag[x] \in Nat
                      /\ x \in Wdogs /\ x # d /\ c.lag[x] - own \in Nat
                      /\ ticks + (c.lag[x] - own) = e[k]
    OBVIOUS
  <2>1. k \in 1 .. p /\ k \in 0 .. p /\ k # 0
    BY <1>3, <1>0
  <2>2. x \in Wdogs /\ x # d /\ c.lag[x] \in Nat
    BY <1>0, <2>1
  <2>3. e[k] = e[k - 1] + c.lag[x]
    BY <1>1, <2>1
  <2>4. e[k] > ticks
    BY <1>3
  <2>5. c.lag[x] - own \in Nat /\ ticks + (c.lag[x] - own) = e[k]
    <3> DEFINE a == e[k - 1]
               b == e[k]
               l == c.lag[x]
    <3>1. a \in Nat /\ own \in Nat /\ l \in Nat /\ a + own = ticks /\ b = a + l /\ b > ticks
      BY <1>4, <1>5, <2>2, <2>3, <2>4
    <3> HIDE DEF a, b, l, own
    <3>2. l - own \in Nat /\ ticks + (l - own) = b
      BY <3>1
    <3> QED BY <3>2 DEF a, b, l
  <2> QED BY <2>1, <2>2, <2>3, <2>5
<1> HIDE DEF x, own
<1>7. /\ lags \in [Wdogs -> Nat] /\ lags[d] = own
      /\ k <= p => lags[x] = c.lag[x] - own
      /\ \A y \in Wdogs : y # d /\ (k <= p => y # x) => lags[y] = c.lag[y]
  <2>1. CASE later = {}
    <3>1. ~(k <= p) /\ rest = c.lag
      BY <1>3, <2>1
    <3> HIDE DEF rest
    <3> QED BY <1>0, <1>5, <3>1
  <2>2. CASE later # {}
    <3>1. k <= p /\ rest = [c.lag EXCEPT ![x] = c.lag[x] - own]
      BY <1>3, <2>2
    <3>2. rest \in [Wdogs -> Nat] /\ rest[x] = c.lag[x] - own
          /\ \A y \in Wdogs : y # x => rest[y] = c.lag[y]
      BY <1>0, <1>6, <3>1
    <3> HIDE DEF rest
    <3> QED BY <1>5, <1>6, <3>1, <3>2
  <2> QED BY <2>1, <2>2
<1> HIDE DEF lags
<1>8. /\ n \in WdStates /\ n.list = InsertBefore(c.list, later, d) /\ n.lag = lags
      /\ IsInsertion(n.list, c.list, k, d, Wdogs)
  BY <1>a, <1>c, <1>i, <1>7 DEF WdStates, IsInsertion
<1>9. /\ Len(n.list) = p + 1
      /\ \A j \in 1 .. p + 1 :
           n.list[j] = IF j < k THEN c.list[j] ELSE IF j = k THEN d ELSE c.list[j - 1]
  BY <1>8 DEF IsInsertion
<1> DEFINE f == [j \in 0 .. p + 1 |-> IF j < k THEN e[j] ELSE IF j = k THEN ticks ELSE e[j - 1]]
<1>10. f[0] = 0
  BY <1>0, <1>1, <1>3
<1>11. ASSUME NEW j \in 1 .. p + 1
       PROVE  f[j] = f[j - 1] + n.lag[n.list[j]]
  <2>0. j \in 0 .. p + 1 /\ j - 1 \in 0 .. p + 1 /\ j - 1 \in 0 .. p /\ j \in Nat
    BY <1>0
  <2>1. CASE j < k
    <3>1. f[j] = e[j] /\ f[j - 1] = e[j - 1] /\ n.list[j] = c.list[j]
      <4>1. j - 1 < k
        BY <1>4, <2>0, <2>1
      <4> QED BY <1>9, <2>0, <2>1, <4>1
    <3>2. j \in 1 .. p /\ j \in 0 .. p /\ j # k /\ j # 0
      BY <1>0, <1>3, <2>0, <2>1
    <3>3. c.list[j] # d /\ (k <= p => c.list[j] # x)
      BY <1>0, <1>6, <3>2 DEF Distinct, x
    <3>4. lags[c.list[j]] = c.lag[c.list[j]]
      BY <1>0, <1>7, <3>2, <3>3
    <3>5. e[j] = e[j - 1] + c.lag[c.list[j]]
      BY <1>1, <3>2
    <3> QED BY <1>8, <3>1, <3>4, <3>5
  <2>2. CASE j = k
    <3>1. f[j] = ticks /\ f[j - 1] = e[j - 1] /\ n.list[j] = d
      <4>1. j - 1 < k /\ ~(j < k)
        BY <1>4, <2>0, <2>2
      <4> QED BY <1>9, <2>0, <2>2, <4>1
    <3> HIDE DEF f
    <3> QED BY <1>5, <1>7, <1>8, <2>2, <3>1
  <2>3. CASE j > k
    <3>1. j - 1 \in 1 .. p /\ j - 1 # 0
      BY <1>0, <1>3, <1>4, <2>0, <2>3
    <3>2. n.list[j] = c.list[j - 1] /\ f[j] = e[j - 1] /\ ~(j < k) /\ j # k
      <4>1. ~(j < k) /\ j # k
        BY <1>4, <2>0, <2>3
      <4> QED BY <1>9, <2>0, <4>1
    <3>3. CASE j - 1 = k
      <4>1. f[j - 1] = ticks
        <5>1. ~(j - 1 < k)
          BY <1>4, <2>0, <3>3
        <5> QED BY <2>0, <3>3, <5>1
      <4>2. k <= p /\ c.list[j - 1] = x
        BY <1>4, <3>1, <3>3 DEF x
      <4>3. n.lag[n.list[j]] = c.lag[x] - own
        BY <1>7, <1>8, <3>2, <4>2
      <4>4. e[k] = ticks + (c.lag[x] - own)
        BY <1>6, <4>2
      <4> HIDE DEF f
      <4> QED BY <3>2, <3>3, <4>1, <4>3, <4>4
    <3>4. CASE j - 1 # k
      <4>1. ~(j - 1 < k) /\ j - 1 > k
        BY <1>4, <2>0, <2>3, <3>4
      <4>2. f[j - 1] = e[(j - 1) - 1]
        BY <2>0, <3>4, <4>1
      <4>3. e[j - 1] = e[(j - 1) - 1] + c.lag[c.list[j - 1]]
        BY <1>1, <2>0, <3>1
      <4>4. c.list[j - 1] # d /\ (k <= p => c.list[j - 1] # x)
        BY <1>0, <1>6, <3>1, <3>4 DEF Distinct, x
      <4>5. lags[c.list[j - 1]] = c.lag[c.list[j - 1]]
        BY <1>0, <1>7, <3>1, <4>4
      <4> HIDE DEF f
      <4> QED BY <1>8, <3>2, <4>2, <4>3, <4>5
    <3> QED BY <3>3, <3>4
  <2> QED BY <1>4, <2>0, <2>1, <2>2, <2>3
<1> HIDE DEF f
<1>12. \A j \in 0 .. Len(n.list) : Expiry(n)[j] = f[j]
  BY <1>8, <1>9, <1>10, <1>11, ExpiryUnique
<1>13. \A j \in 0 .. p + 1 :
         Expiry(n)[j] = IF j < k THEN e[j] ELSE IF j = k THEN ticks ELSE e[j - 1]
  BY <1>9, <1>12 DEF f
<1> QED BY <1>3, <1>8, <1>13 DEF n, e, later

(***************************************************************************)
(* A tick: every watchdog expires one tick earlier.                        *)
(***************************************************************************)
LEMMA TickSums ==
  ASSUME NEW w, WdGood(w), ~Expired(w)
  PROVE  LET n == Ticked(w)
         IN  /\ n \in WdStates /\ n.list = w.list
             /\ \A j \in 1 .. Len(w.list) : Expiry(n)[j] = Expiry(w)[j] - 1
<1> DEFINE n == Ticked(w)
           p == Len(w.list)
           e == Expiry(w)
           h == w.list[1]
<1>0. /\ w \in WdStates /\ Distinct(w.list) /\ p \in Nat /\ w.list \in Seq(Wdogs)
      /\ w.lag \in [Wdogs -> Nat]
      /\ \A j \in 1 .. p : w.list[j] \in Wdogs /\ w.lag[w.list[j]] \in Nat
  BY WdFields DEF WdGood
<1>1. \A j \in 0 .. p : e[j] = IF j = 0 THEN 0 ELSE e[j - 1] + w.lag[w.list[j]]
  BY <1>0, ExpirySteps
<1>2. \A j \in 0 .. p : e[j] \in Nat
  BY <1>0, ExpiryType
<1>3. CASE w.list = <<>>
  <2>1. p = 0 /\ n = w
    BY <1>3 DEF Ticked
  <2> QED BY <1>0, <2>1
<1>4. CASE w.list # <<>>
  <2>1. p >= 1 /\ Head(w.list) = h
    BY <1>0, <1>4
  <2>2. h \in Wdogs /\ w.lag[h] \in Nat /\ w.lag[h] >= 1
    <3>1. h \in Wdogs /\ w.lag[h] \in Nat
      BY <1>0, <2>1
    <3>2. ~(w.lag[h] <= 0)
      BY <1>4, <2>1 DEF Expired
    <3> HIDE DEF h
    <3> QED BY <3>1, <3>2
  <2> DEFINE lags == [w.lag EXCEPT ![h] = w.lag[h] - 1]
  <2>3. n = [w EXCEPT !.lag = lags]
    BY <1>4, <2>1 DEF Ticked
  <2>4. lags \in [Wdogs -> Nat] /\ lags[h] = w.lag[h] - 1
        /\ \A y \in Wdogs : y # h => lags[y] = w.lag[y]
    <3>1. w.lag[h] - 1 \in Nat
      BY <2>2
    <3> HIDE DEF h
    <3> QED BY <1>0, <2>2, <3>1
  <2> HIDE DEF lags, n, e
  <2>5. n \in WdStates /\ n.list = w.list /\ n.lag = lags
    BY <1>0, <2>3, <2>4 DEF WdStates
  <2> DEFINE f == [j \in 0 .. p |-> IF j = 0 THEN 0 ELSE e[j] - 1]
  <2>6. f[0] = 0
    BY <1>0
  <2>7. ASSUME NEW j \in 1 .. p
        PROVE  f[j] = f[j - 1] + n.lag[n.list[j]]
    <3>0. j \in 0 .. p /\ j - 1 \in 0 .. p /\ j \in Nat /\ j # 0
      BY <1>0
    <3>1. e[j] = e[j - 1] + w.lag[w.list[j]] /\ e[j] \in Nat /\ e[j - 1] \in Nat
      BY <1>1, <1>2, <3>0
    <3>2. f[j] = e[j] - 1
      BY <3>0
    <3>3. CASE j = 1
      <4>1. f[j - 1] = 0 /\ e[j - 1] = 0
        BY <1>1, <3>0, <3>3
      <4>2. n.lag[n.list[j]] = w.lag[h] - 1 /\ w.list[j] = h
        BY <2>4, <2>5, <3>3
      <4> HIDE DEF f, h
      <4> QED BY <2>2, <3>1, <3>2, <4>1, <4>2
    <3>4. CASE j # 1
      <4>1. f[j - 1] = e[j - 1] - 1
        BY <3>0, <3>4
      <4>2. w.list[j] # h /\ w.list[j] \in Wdogs /\ w.lag[w.list[j]] \in Nat
        <5>1. 1 \in 1 .. p
          BY <1>0, <2>1
        <5> QED BY <1>0, <3>4, <5>1 DEF Distinct
      <4>3. n.lag[n.list[j]] = w.lag[w.list[j]]
        BY <2>4, <2>5, <4>2
      <4> HIDE DEF f
      <4> QED BY <3>1, <3>2, <4>1, <4>2, <4>3
    <3> QED BY <3>3, <3>4
  <2> HIDE DEF f
  <2>8. \A j \in 0 .. Len(n.list) : Expiry(n)[j] = f[j]
    BY <2>5, <2>6, <2>7, ExpiryUnique
  <2>9. \A j \in 1 .. p : Expiry(n)[j] = e[j] - 1
    <3> SUFFICES ASSUME NEW j \in 1 .. p PROVE Expiry(n)[j] = e[j] - 1
      OBVIOUS
    <3>1. j \in 0 .. p /\ j # 0
      BY <1>0
    <3>2. Expiry(n)[j] = f[j]
      BY <2>5, <2>8, <3>1
    <3> QED BY <3>1, <3>2 DEF f
  <2> QED BY <2>5, <2>9 DEF n, e
<1> QED BY <1>3, <1>4

(***************************************************************************)
(* The ticks that are left to each watchdog, as wd_gettime tells them.     *)
(***************************************************************************)
Left(w) == [d \in Wdogs |-> wd_gettime(w, d)]

(***************************************************************************)
(* The ticks that are left are the sums, and 0 for the others.             *)
(***************************************************************************)
LEMMA LeftValues ==
  ASSUME NEW w, WdGood(w)
  PROVE  /\ w.list \in Seq(Wdogs) /\ Len(w.list) \in Nat
         /\ DOMAIN w.list = 1 .. Len(w.list)
         /\ Left(w) \in [Wdogs -> 0 .. INT32_MAX]
         /\ \A i \in 1 .. Len(w.list) :
              w.list[i] \in Wdogs /\ Left(w)[w.list[i]] = Expiry(w)[i]
         /\ \A d \in Wdogs : (\A i \in 1 .. Len(w.list) : w.list[i] # d) => Left(w)[d] = 0
         /\ Range(w.list) = {w.list[i] : i \in 1 .. Len(w.list)}
         /\ Range(w.list) \subseteq Wdogs
<1> DEFINE p == Len(w.list)
<1>0. /\ w \in WdStates /\ Distinct(w.list) /\ p \in Nat /\ w.list \in Seq(Wdogs)
      /\ DOMAIN w.list = 1 .. p /\ Expiry(w)[p] <= INT32_MAX
      /\ \A i \in 1 .. p : w.list[i] \in Wdogs
  BY WdFields DEF WdGood
<1>1. \A i \in 1 .. p : w.list[i] \in Wdogs /\ Left(w)[w.list[i]] = Expiry(w)[i]
  BY <1>0, GetTime DEF Left
<1>2. \A d \in Wdogs : (\A i \in 1 .. p : w.list[i] # d) => Left(w)[d] = 0
  BY <1>0, GetTime DEF Left
<1>3. ASSUME NEW d \in Wdogs PROVE Left(w)[d] \in 0 .. INT32_MAX
  <2>1. CASE \A i \in 1 .. p : w.list[i] # d
    BY <1>2, <2>1, WdogsAssumption
  <2>2. CASE \E i \in 1 .. p : w.list[i] = d
    <3>1. PICK i \in 1 .. p : w.list[i] = d
      BY <2>2
    <3>2. i \in 0 .. p /\ p \in 0 .. p /\ i <= p
      BY <1>0
    <3>3. Expiry(w)[i] \in Nat /\ Expiry(w)[p] \in Nat /\ Expiry(w)[i] <= Expiry(w)[p]
      BY <1>0, <3>2, ExpiryType, ExpiryMonotonic
    <3>4. Left(w)[d] = Expiry(w)[i]
      BY <1>1, <3>1
    <3> HIDE DEF p
    <3> QED BY <1>0, <3>3, <3>4, WdogsAssumption
  <2> QED BY <2>1, <2>2
<1>4. Left(w) \in [Wdogs -> 0 .. INT32_MAX]
  <2>1. Left(w) = [d \in Wdogs |-> Left(w)[d]]
    BY DEF Left
  <2> QED BY <1>3, <2>1
<1>5. Range(w.list) = {w.list[i] : i \in 1 .. p}
  BY <1>0 DEF Range
<1>6. Range(w.list) \subseteq Wdogs
  BY <1>0, <1>5
<1> QED BY <1>0, <1>1, <1>2, <1>4, <1>5, <1>6

(***************************************************************************)
(* A watchdog has expired when the first one has no ticks left, and else   *)
(* all active watchdogs have some.                                         *)
(***************************************************************************)
LEMMA ExpiredMeans ==
  ASSUME NEW w, WdGood(w)
  PROVE  /\ Expired(w) <=> w.list # <<>> /\ Left(w)[Head(w.list)] = 0
         /\ ~Expired(w) <=> \A d \in Range(w.list) : Left(w)[d] >= 1
<1> DEFINE p == Len(w.list)
           e == Expiry(w)
<1>0. /\ p \in Nat /\ w.list \in Seq(Wdogs)
      /\ \A i \in 1 .. p : w.list[i] \in Wdogs /\ Left(w)[w.list[i]] = e[i]
      /\ Range(w.list) = {w.list[i] : i \in 1 .. p}
  BY LeftValues
<1>1. /\ \A n \in 0 .. p : e[n] \in Nat /\ e[n] = IF n = 0 THEN 0 ELSE e[n - 1] + w.lag[w.list[n]]
      /\ \A i, j \in 0 .. p : i <= j => e[i] <= e[j]
      /\ \A i \in 1 .. p : w.lag[w.list[i]] \in Nat
  BY WdFields, ExpirySteps, ExpiryType, ExpiryMonotonic DEF WdGood
<1>2. CASE w.list = <<>>
  <2>1. p = 0 /\ Range(w.list) = {}
    <3>1. p = 0
      BY <1>2
    <3>2. 1 .. p = {}
      BY <3>1
    <3> QED BY <1>0, <3>1, <3>2
  <2> QED BY <1>2, <2>1 DEF Expired
<1>3. CASE w.list # <<>>
  <2>1. p >= 1 /\ Head(w.list) = w.list[1]
    BY <1>0, <1>3
  <2>2. 1 \in 1 .. p /\ 1 \in 0 .. p /\ 0 \in 0 .. p
    BY <1>0, <2>1
  <2> HIDE DEF p, e
  <2>3. e[1] = w.lag[w.list[1]] /\ e[1] \in Nat
    <3>1. e[1] = e[1 - 1] + w.lag[w.list[1]]
      BY <1>1, <2>2
    <3>2. e[1 - 1] = 0 /\ w.lag[w.list[1]] \in Nat /\ e[1] \in Nat
      BY <1>1, <2>2
    <3> QED BY <3>1, <3>2
  <2>4. Left(w)[Head(w.list)] = e[1]
    BY <1>0, <2>1, <2>2
  <2>5. Expired(w) <=> e[1] = 0
    <3>1. Expired(w) <=> e[1] <= 0
      BY <1>3, <2>1, <2>3 DEF Expired
    <3> QED BY <2>3, <3>1
  <2>6. e[1] >= 1 <=> \A d \in Range(w.list) : Left(w)[d] >= 1
    <3>1. ASSUME e[1] >= 1, NEW i \in 1 .. p PROVE Left(w)[w.list[i]] >= 1
      <4>1. i \in 0 .. p /\ 1 <= i
        BY <1>0
      <4>2. e[1] <= e[i] /\ e[i] \in Nat
        BY <1>1, <2>2, <4>1
      <4> QED BY <1>0, <2>3, <3>1, <4>2
    <3>2. w.list[1] \in Range(w.list)
      BY <1>0, <2>2
    <3>3. ASSUME \A d \in Range(w.list) : Left(w)[d] >= 1 PROVE e[1] >= 1
      BY <1>0, <2>2, <3>2, <3>3
    <3> QED BY <1>0, <3>1, <3>3
  <2> QED BY <1>3, <2>3, <2>4, <2>5, <2>6
<1> QED BY <1>2, <1>3

(***************************************************************************)
(* Countdown's Without, with this module's operators on sequences.         *)
(***************************************************************************)
IsWithout(q, D, n) ==
    /\ n \in Seq(Wdogs) /\ IsInjective(n) /\ Range(n) = Range(q) \ D
    /\ \A i, j \in DOMAIN n : i < j =>
         \E a, b \in DOMAIN q : a < b /\ q[a] = n[i] /\ q[b] = n[j]

(***************************************************************************)
(* They are the same.                                                      *)
(***************************************************************************)
LEMMA SameWithout ==
  ASSUME NEW q, NEW D, NEW n
  PROVE  IsWithout(q, D, n) <=> CD!Without(q, D, n)
BY DEF IsWithout, CD!Without, IsInjective, CD!IsInjective, Range, CD!Range

(***************************************************************************)
(* The watchdogs of D are cancelled and the others are as they were.       *)
(***************************************************************************)
Stopped(w, n, D) ==
    /\ WdGood(n) /\ IsWithout(w.list, D, n.list)
    /\ Left(n) = [d \in Wdogs |-> IF d \in D THEN 0 ELSE Left(w)[d]]

(***************************************************************************)
(* A list without duplicates is a function without duplicates.             *)
(***************************************************************************)
LEMMA DistinctIsInjective ==
  ASSUME NEW l, l \in Seq(Wdogs)
  PROVE  Distinct(l) <=> IsInjective(l)
<1>1. DOMAIN l = 1 .. Len(l)
  BY LenProperties
<1> QED BY <1>1 DEF Distinct, IsInjective

(***************************************************************************)
(* Nothing is cancelled.                                                   *)
(***************************************************************************)
LEMMA StopNone ==
  ASSUME NEW w, WdGood(w), NEW D, \A d \in D : d \notin Range(w.list)
  PROVE  Stopped(w, w, D)
<1>0. /\ w.list \in Seq(Wdogs) /\ DOMAIN w.list = 1 .. Len(w.list)
      /\ Left(w) \in [Wdogs -> 0 .. INT32_MAX]
      /\ \A d \in Wdogs : (\A i \in 1 .. Len(w.list) : w.list[i] # d) => Left(w)[d] = 0
      /\ Range(w.list) = {w.list[i] : i \in 1 .. Len(w.list)}
  BY LeftValues
<1>1. IsInjective(w.list)
  BY <1>0, DistinctIsInjective DEF WdGood
<1>2. \A i, j \in DOMAIN w.list : i < j =>
        \E a, b \in DOMAIN w.list : a < b /\ w.list[a] = w.list[i] /\ w.list[b] = w.list[j]
  OBVIOUS
<1>3. IsWithout(w.list, D, w.list)
  BY <1>0, <1>1, <1>2 DEF IsWithout
<1>4. \A d \in D \cap Wdogs : Left(w)[d] = 0
  BY <1>0
<1>5. Left(w) = [d \in Wdogs |-> IF d \in D THEN 0 ELSE Left(w)[d]]
  BY <1>0, <1>4
<1> QED BY <1>3, <1>5 DEF Stopped

(***************************************************************************)
(* Some watchdogs are cancelled and then some more.                        *)
(***************************************************************************)
LEMMA StopMore ==
  ASSUME NEW w, WdGood(w), NEW D, NEW m, Stopped(w, m, D), NEW E, NEW n, Stopped(m, n, E)
  PROVE  Stopped(w, n, D \cup E)
<1>1. /\ WdGood(n) /\ IsWithout(w.list, D, m.list) /\ IsWithout(m.list, E, n.list)
      /\ Left(m) = [d \in Wdogs |-> IF d \in D THEN 0 ELSE Left(w)[d]]
      /\ Left(n) = [d \in Wdogs |-> IF d \in E THEN 0 ELSE Left(m)[d]]
  BY DEF Stopped
<1>2. Left(n) = [d \in Wdogs |-> IF d \in D \cup E THEN 0 ELSE Left(w)[d]]
  BY <1>1
<1>3. /\ n.list \in Seq(Wdogs) /\ IsInjective(n.list)
      /\ Range(n.list) = Range(w.list) \ (D \cup E)
  BY <1>1 DEF IsWithout
<1>4. ASSUME NEW i \in DOMAIN n.list, NEW j \in DOMAIN n.list, i < j
      PROVE  \E a, b \in DOMAIN w.list : a < b /\ w.list[a] = n.list[i] /\ w.list[b] = n.list[j]
  <2>1. PICK x \in DOMAIN m.list, y \in DOMAIN m.list :
           x < y /\ m.list[x] = n.list[i] /\ m.list[y] = n.list[j]
    BY <1>1, <1>4 DEF IsWithout
  <2>2. PICK a \in DOMAIN w.list, b \in DOMAIN w.list :
           a < b /\ w.list[a] = m.list[x] /\ w.list[b] = m.list[y]
    BY <1>1, <2>1 DEF IsWithout
  <2> QED BY <2>1, <2>2
<1>5. IsWithout(w.list, D \cup E, n.list)
  BY <1>3, <1>4 DEF IsWithout
<1> QED BY <1>1, <1>2, <1>5 DEF Stopped

(***************************************************************************)
(* wd_cancel stops one watchdog.                                           *)
(***************************************************************************)
LEMMA CancelEffect ==
  ASSUME NEW w, WdGood(w), NEW d \in Wdogs
  PROVE  Stopped(w, wd_cancel(w, d), {d}) /\ wd_cancel(w, d).list = dq_rem(w.list, d)
<1> DEFINE n == wd_cancel(w, d)
           p == Len(w.list)
           e == Expiry(w)
<1>0. /\ w.list \in Seq(Wdogs) /\ p \in Nat /\ DOMAIN w.list = 1 .. p
      /\ \A i \in 1 .. p : w.list[i] \in Wdogs /\ Left(w)[w.list[i]] = e[i]
      /\ \A y \in Wdogs : (\A i \in 1 .. p : w.list[i] # y) => Left(w)[y] = 0
      /\ Range(w.list) = {w.list[i] : i \in 1 .. p}
      /\ w \in WdStates /\ Distinct(w.list) /\ e[p] <= INT32_MAX
  BY LeftValues DEF WdGood
<1>1. CASE \A i \in 1 .. p : w.list[i] # d
  <2>1. PositionsOf(w.list, d) = {}
    BY <1>0, <1>1 DEF PositionsOf
  <2>2. n = w /\ dq_rem(w.list, d) = w.list
    BY <2>1 DEF wd_cancel, WDOG_ISACTIVE, dq_rem
  <2>3. d \notin Range(w.list)
    BY <1>0, <1>1
  <2> QED BY <2>2, <2>3, StopNone
<1>2. CASE \E i \in 1 .. p : w.list[i] = d
  <2>1. PICK i \in 1 .. p : w.list[i] = d
    BY <1>2
  <2>2. /\ n \in WdStates /\ n.list = RemoveAt(w.list, i)
        /\ IsRemoval(n.list, w.list, i, Wdogs)
        /\ \A j \in 0 .. Len(n.list) :
             Expiry(n)[j] = IF j < i THEN Expiry(w)[j] ELSE Expiry(w)[j + 1]
    BY <2>1, CancelSums
  <2>3. n.list = dq_rem(w.list, d)
    <3>1. \E k \in 1 .. p : w.list[k] = d /\ dq_rem(w.list, d) = RemoveAt(w.list, k)
      BY <1>0, <2>1, DqRemPosition
    <3>2. PICK k \in 1 .. p : w.list[k] = d /\ dq_rem(w.list, d) = RemoveAt(w.list, k)
      BY <3>1
    <3>3. k = i
      BY <1>0, <2>1, <3>2 DEF Distinct
    <3> QED BY <2>2, <3>2, <3>3
  <2> DEFINE at(j) == IF j < i THEN j ELSE j + 1
             l == n.list
  <2>4. l \in Seq(Wdogs) /\ Len(l) = p - 1
    BY <2>2 DEF IsRemoval
  <2>5. ASSUME NEW j \in 1 .. p - 1
        PROVE  at(j) \in 1 .. p /\ at(j) # i /\ l[j] = w.list[at(j)]
               /\ Expiry(n)[j] = e[at(j)]
    <3>1. j \in 0 .. Len(n.list)
      BY <1>0, <2>4
    <3>2. l[j] = w.list[at(j)]
      BY <2>2 DEF IsRemoval
    <3>3. Expiry(n)[j] = e[at(j)]
      BY <2>2, <3>1
    <3>4. at(j) \in 1 .. p /\ at(j) # i
      BY <1>0, <2>1
    <3> QED BY <3>2, <3>3, <3>4
  <2>6. \A j, k \in 1 .. p - 1 : (j < k => at(j) < at(k)) /\ (j # k => at(j) # at(k))
    BY <1>0, <2>1
  <2>7. ASSUME NEW k \in 1 .. p, k # i PROVE \E j \in 1 .. p - 1 : at(j) = k
    <3>1. CASE k < i
      <4>1. k \in 1 .. p - 1 /\ at(k) = k
        BY <1>0, <2>1, <3>1
      <4> QED BY <4>1
    <3>2. CASE k > i
      <4>1. k - 1 \in 1 .. p - 1 /\ at(k - 1) = k
        BY <1>0, <2>1, <3>2
      <4> QED BY <4>1
    <3> QED BY <1>0, <2>1, <2>7, <3>1, <3>2
  <2>8. DOMAIN l = 1 .. p - 1
    BY <2>4, LenProperties
  <2> HIDE DEF at, n, l
  <2>n. l = n.list
    BY DEF l
  <2>9. Distinct(l)
    BY <1>0, <2>4, <2>5, <2>6 DEF Distinct
  <2>10. Range(l) = Range(w.list) \ {d}
    <3>1. Range(l) = {l[j] : j \in 1 .. p - 1}
      BY <2>8 DEF Range
    <3>2. ASSUME NEW j \in 1 .. p - 1 PROVE l[j] \in Range(w.list) /\ l[j] # d
      <4>1. at(j) \in 1 .. p /\ at(j) # i /\ l[j] = w.list[at(j)]
        BY <2>5
      <4>2. w.list[at(j)] # w.list[i]
        BY <1>0, <4>1 DEF Distinct
      <4> QED BY <1>0, <2>1, <4>1, <4>2
    <3>3. ASSUME NEW k \in 1 .. p, w.list[k] # d PROVE w.list[k] \in Range(l)
      <4>1. PICK j \in 1 .. p - 1 : at(j) = k
        BY <2>1, <2>7, <3>3
      <4> QED BY <2>5, <3>1, <4>1
    <3>4. Range(l) \subseteq Range(w.list) \ {d}
      BY <3>1, <3>2
    <3>5. Range(w.list) \ {d} \subseteq Range(l)
      BY <1>0, <3>3
    <3> QED BY <3>4, <3>5
  <2>11. WdGood(n)
    <3>1. \A i1, j1 \in 0 .. p : i1 <= j1 => e[i1] <= e[j1]
      BY <1>0, ExpiryMonotonic
    <3>2. \A k \in 0 .. p : e[k] \in Nat
      BY <1>0, ExpiryType
    <3>3. \E k \in 0 .. p : Expiry(n)[p - 1] = e[k]
      <4>1. p - 1 \in 0 .. Len(n.list) /\ p - 1 \in 0 .. p /\ (p - 1) + 1 \in 0 .. p
        BY <1>0, <2>1, <2>4, <2>n
      <4> QED BY <2>2, <4>1
    <3>4. PICK k \in 0 .. p : Expiry(n)[p - 1] = e[k]
      BY <3>3
    <3>5. p \in 0 .. p /\ k <= p
      BY <1>0
    <3>6. e[k] <= e[p] /\ e[k] \in Nat /\ e[p] \in Nat
      BY <3>1, <3>2, <3>5
    <3>7. Expiry(n)[p - 1] <= INT32_MAX
      <4> HIDE DEF e, p
      <4> QED BY <1>0, <3>4, <3>6, WdogsAssumption
    <3> QED BY <2>2, <2>4, <2>9, <2>n, <3>7 DEF WdGood
  <2>12. Left(n) = [y \in Wdogs |-> IF y \in {d} THEN 0 ELSE Left(w)[y]]
    <3>0. /\ Left(n) \in [Wdogs -> 0 .. INT32_MAX]
          /\ \A j \in 1 .. p - 1 : Left(n)[l[j]] = Expiry(n)[j]
          /\ \A y \in Wdogs : (\A j \in 1 .. p - 1 : l[j] # y) => Left(n)[y] = 0
      BY <2>4, <2>11, <2>n, LeftValues
    <3>1. Left(n)[d] = 0
      <4>1. \A j \in 1 .. p - 1 : l[j] # d
        BY <2>8, <2>10 DEF Range
      <4> QED BY <3>0, <4>1
    <3>2. ASSUME NEW y \in Wdogs, y # d PROVE Left(n)[y] = Left(w)[y]
      <4>1. CASE \E k \in 1 .. p : w.list[k] = y
        <5>1. PICK k \in 1 .. p : w.list[k] = y
          BY <4>1
        <5>2. PICK j \in 1 .. p - 1 : at(j) = k
          BY <2>1, <2>7, <3>2, <5>1
        <5>3. l[j] = y /\ Expiry(n)[j] = e[k]
          BY <2>5, <5>1, <5>2
        <5> QED BY <1>0, <3>0, <5>1, <5>3
      <4>2. CASE \A k \in 1 .. p : w.list[k] # y
        <5>1. \A j \in 1 .. p - 1 : l[j] # y
          BY <2>5, <4>2
        <5> QED BY <1>0, <3>0, <4>2, <5>1
      <4> QED BY <4>1, <4>2
    <3> QED BY <3>0, <3>1, <3>2
  <2>13. \A j, k \in DOMAIN l : j < k =>
           \E a, b \in DOMAIN w.list : a < b /\ w.list[a] = l[j] /\ w.list[b] = l[k]
    <3> SUFFICES ASSUME NEW j \in DOMAIN l, NEW k \in DOMAIN l, j < k
                 PROVE  \E a, b \in DOMAIN w.list :
                          a < b /\ w.list[a] = l[j] /\ w.list[b] = l[k]
      OBVIOUS
    <3>0. j \in 1 .. p - 1 /\ k \in 1 .. p - 1
      BY <2>8
    <3>1. at(j) < at(k)
      BY <2>6, <3>0
    <3>2. /\ at(j) \in 1 .. p /\ at(k) \in 1 .. p
          /\ w.list[at(j)] = l[j] /\ w.list[at(k)] = l[k]
      BY <2>5, <3>0
    <3> QED BY <1>0, <3>1, <3>2
  <2>14. IsWithout(w.list, {d}, l)
    BY <2>4, <2>9, <2>10, <2>13, DistinctIsInjective DEF IsWithout
  <2> QED BY <2>3, <2>11, <2>12, <2>14, <2>n DEF Stopped, n
<1> QED BY <1>1, <1>2

(***************************************************************************)
(* The watchdog that is added counts its ticks, the others go on.          *)
(***************************************************************************)
LEMMA AddEffect ==
  ASSUME NEW c, WdGood(c), NEW d \in Wdogs, d \notin Range(c.list),
         NEW ticks \in 1 .. INT32_MAX
  PROVE  LET n == Added(c, d, ticks)
         IN  /\ WdGood(n) /\ Left(n) = [Left(c) EXCEPT ![d] = ticks]
             /\ Range(n.list) = Range(c.list) \cup {d}
             /\ n.list = InsertBefore(c.list,
                           {i \in DOMAIN c.list : Left(c)[c.list[i]] > ticks}, d)
<1> DEFINE n == Added(c, d, ticks)
           p == Len(c.list)
           e == Expiry(c)
<1>0. /\ c.list \in Seq(Wdogs) /\ p \in Nat /\ DOMAIN c.list = 1 .. p
      /\ \A i \in 1 .. p : c.list[i] \in Wdogs /\ Left(c)[c.list[i]] = e[i]
      /\ \A y \in Wdogs : (\A i \in 1 .. p : c.list[i] # y) => Left(c)[y] = 0
      /\ Range(c.list) = {c.list[i] : i \in 1 .. p}
      /\ c \in WdStates /\ Distinct(c.list) /\ e[p] <= INT32_MAX
      /\ Left(c) \in [Wdogs -> 0 .. INT32_MAX]
  BY LeftValues DEF WdGood
<1>d. \A i \in 1 .. p : c.list[i] # d
  BY <1>0
<1>1. /\ n \in WdStates
      /\ n.list = InsertBefore(c.list, {i \in DOMAIN c.list : Expiry(c)[i] > ticks}, d)
      /\ \E k \in 1 .. p + 1 :
           /\ IsInsertion(n.list, c.list, k, d, Wdogs)
           /\ \A j \in 0 .. p + 1 :
                Expiry(n)[j] = IF j < k THEN e[j] ELSE IF j = k THEN ticks ELSE e[j - 1]
  BY <1>d, StartSums
<1>2. PICK k \in 1 .. p + 1 :
           /\ IsInsertion(n.list, c.list, k, d, Wdogs)
           /\ \A j \in 0 .. p + 1 :
                Expiry(n)[j] = IF j < k THEN e[j] ELSE IF j = k THEN ticks ELSE e[j - 1]
  BY <1>1
<1>3. {i \in DOMAIN c.list : Expiry(c)[i] > ticks}
      = {i \in DOMAIN c.list : Left(c)[c.list[i]] > ticks}
  BY <1>0
<1> DEFINE l == n.list
           at(j) == IF j < k THEN j ELSE j - 1
<1> HIDE DEF n
<1>4. l \in Seq(Wdogs) /\ Len(l) = p + 1 /\ DOMAIN l = 1 .. p + 1 /\ l[k] = d
      /\ Expiry(n)[k] = ticks
  <2>1. l \in Seq(Wdogs) /\ Len(l) = p + 1
    BY <1>2 DEF IsInsertion
  <2>2. ~(k < k) /\ k \in 0 .. p + 1
    BY <1>0
  <2>3. l[k] = d /\ Expiry(n)[k] = ticks
    BY <1>2, <2>2 DEF IsInsertion
  <2>4. DOMAIN l = 1 .. p + 1
    BY <2>1, LenProperties
  <2> QED BY <2>1, <2>3, <2>4
<1>5. ASSUME NEW j \in 1 .. p + 1, j # k
      PROVE  at(j) \in 1 .. p /\ l[j] = c.list[at(j)] /\ Expiry(n)[j] = e[at(j)]
  <2>1. at(j) \in 1 .. p
    BY <1>0, <1>5
  <2>2. j \in 0 .. p + 1
    BY <1>0
  <2>3. l[j] = c.list[at(j)]
    BY <1>2, <1>5 DEF IsInsertion
  <2>4. Expiry(n)[j] = e[at(j)]
    BY <1>2, <1>5, <2>2
  <2> QED BY <2>1, <2>3, <2>4
<1>6. \A i, j \in 1 .. p + 1 : i # k /\ j # k /\ i # j => at(i) # at(j)
  BY <1>0
<1>7. ASSUME NEW m \in 1 .. p PROVE \E j \in 1 .. p + 1 : j # k /\ at(j) = m
  <2>1. CASE m < k
    <3>1. m \in 1 .. p + 1 /\ m # k /\ at(m) = m
      BY <1>0, <2>1
    <3> QED BY <3>1
  <2>2. CASE ~(m < k)
    <3>1. m + 1 \in 1 .. p + 1 /\ m + 1 # k /\ at(m + 1) = m
      BY <1>0, <2>2
    <3> QED BY <3>1
  <2> QED BY <2>1, <2>2
<1> HIDE DEF at, l
<1>l. l = n.list
  BY DEF l
<1>8. Distinct(l)
  <2> SUFFICES ASSUME NEW i \in 1 .. p + 1, NEW j \in 1 .. p + 1, i # j PROVE l[i] # l[j]
    BY <1>4 DEF Distinct
  <2>1. CASE i = k
    BY <1>4, <1>5, <1>d, <2>1
  <2>2. CASE j = k
    BY <1>4, <1>5, <1>d, <2>2
  <2>3. CASE i # k /\ j # k
    <3>1. at(i) # at(j)
      BY <1>6, <2>3
    <3>2. /\ at(i) \in 1 .. p /\ l[i] = c.list[at(i)]
          /\ at(j) \in 1 .. p /\ l[j] = c.list[at(j)]
      BY <1>5, <2>3
    <3> QED BY <1>0, <3>1, <3>2 DEF Distinct
  <2> QED BY <2>1, <2>2, <2>3
<1>9. Range(l) = Range(c.list) \cup {d}
  <2>1. Range(l) = {l[j] : j \in 1 .. p + 1}
    BY <1>4 DEF Range
  <2>2. ASSUME NEW j \in 1 .. p + 1 PROVE l[j] \in Range(c.list) \cup {d}
    BY <1>0, <1>4, <1>5
  <2>3. ASSUME NEW m \in 1 .. p PROVE c.list[m] \in Range(l)
    <3>1. PICK j \in 1 .. p + 1 : j # k /\ at(j) = m
      BY <1>7
    <3> QED BY <1>5, <2>1, <3>1
  <2>4. d \in Range(l)
    BY <1>4, <2>1
  <2>5. Range(l) \subseteq Range(c.list) \cup {d}
    BY <2>1, <2>2
  <2>6. Range(c.list) \subseteq Range(l)
    BY <1>0, <2>3
  <2> QED BY <2>4, <2>5, <2>6
<1>10. WdGood(n)
  <2>1. Expiry(n)[p + 1] <= INT32_MAX
    <3>1. CASE k = p + 1
      BY <1>4, <3>1, WdogsAssumption
    <3>2. CASE k # p + 1
      <4>1. p + 1 \in 0 .. p + 1 /\ ~(p + 1 < k) /\ p + 1 # k /\ (p + 1) - 1 = p
        BY <1>0, <3>2
      <4>2. Expiry(n)[p + 1] = e[(p + 1) - 1]
        BY <1>2, <4>1
      <4> QED BY <1>0, <4>1, <4>2
    <3> QED BY <3>1, <3>2
  <2> QED BY <1>1, <1>4, <1>8, <1>l, <2>1 DEF WdGood, n
<1>11. Left(n) = [Left(c) EXCEPT ![d] = ticks]
  <2>0. /\ Left(n) \in [Wdogs -> 0 .. INT32_MAX]
        /\ \A j \in 1 .. p + 1 : Left(n)[l[j]] = Expiry(n)[j]
        /\ \A y \in Wdogs : (\A j \in 1 .. p + 1 : l[j] # y) => Left(n)[y] = 0
    BY <1>4, <1>10, <1>l, LeftValues
  <2>1. Left(n)[d] = ticks
    BY <1>4, <2>0
  <2>2. ASSUME NEW y \in Wdogs, y # d PROVE Left(n)[y] = Left(c)[y]
    <3>1. CASE \E m \in 1 .. p : c.list[m] = y
      <4>1. PICK m \in 1 .. p : c.list[m] = y
        BY <3>1
      <4>2. PICK j \in 1 .. p + 1 : j # k /\ at(j) = m
        BY <1>7
      <4>3. l[j] = y /\ Expiry(n)[j] = e[m]
        BY <1>5, <4>1, <4>2
      <4> QED BY <1>0, <2>0, <4>1, <4>3
    <3>2. CASE \A m \in 1 .. p : c.list[m] # y
      <4>1. \A j \in 1 .. p + 1 : l[j] # y
        BY <1>4, <1>5, <2>2, <3>2
      <4> QED BY <1>0, <2>0, <3>2, <4>1
    <3> QED BY <3>1, <3>2
  <2> QED BY <1>0, <2>0, <2>1, <2>2
<1>12. n.list = InsertBefore(c.list,
                  {i \in DOMAIN c.list : Left(c)[c.list[i]] > ticks}, d)
  BY <1>1, <1>3 DEF n
<1> QED BY <1>9, <1>10, <1>11, <1>12, <1>l DEF n

(***************************************************************************)
(* wd_start: the watchdog is cancelled and added.                          *)
(***************************************************************************)
LEMMA StartEffect ==
  ASSUME NEW w, WdGood(w), NEW d \in Wdogs, NEW delay \in 0 .. INT32_MAX
  PROVE  LET n == wd_start(w, d, delay)
             q == dq_rem(w.list, d)
         IN  /\ Ticks(delay) \in 1 .. INT32_MAX
             /\ WdGood(n) /\ Left(n) = [Left(w) EXCEPT ![d] = Ticks(delay)]
             /\ Range(n.list) = Range(w.list) \cup {d}
             /\ n.list = InsertBefore(q, {i \in DOMAIN q : Left(w)[q[i]] > Ticks(delay)}, d)
             /\ ~Expired(w) => ~Expired(n)
<1> DEFINE ticks == Ticks(delay)
           c == wd_cancel(w, d)
           n == Added(c, d, ticks)
           q == dq_rem(w.list, d)
<1>1. ticks \in 1 .. INT32_MAX
  BY WdogsAssumption DEF Ticks
<1>2. wd_start(w, d, delay) = n
  BY DEF wd_start, Added
<1>3. Stopped(w, c, {d}) /\ c.list = q
  BY CancelEffect
<1>4. /\ WdGood(c) /\ Range(c.list) = Range(w.list) \ {d}
      /\ Left(c) = [y \in Wdogs |-> IF y \in {d} THEN 0 ELSE Left(w)[y]]
  BY <1>3 DEF Stopped, IsWithout
<1> HIDE DEF ticks
<1>5. /\ WdGood(n) /\ Left(n) = [Left(c) EXCEPT ![d] = ticks]
      /\ Range(n.list) = Range(c.list) \cup {d}
      /\ n.list = InsertBefore(c.list, {i \in DOMAIN c.list : Left(c)[c.list[i]] > ticks}, d)
  BY <1>1, <1>4, AddEffect
<1> HIDE DEF n, c
<1>w. Left(w) \in [Wdogs -> 0 .. INT32_MAX]
  BY LeftValues
<1>6. Left(n) = [Left(w) EXCEPT ![d] = ticks]
  BY <1>4, <1>5, <1>w
<1>7. Range(n.list) = Range(w.list) \cup {d}
  BY <1>4, <1>5
<1>8. ASSUME NEW i \in DOMAIN q PROVE Left(c)[q[i]] = Left(w)[q[i]]
  <2>1. q[i] \in Range(c.list)
    BY <1>3 DEF Range
  <2>2. q[i] # d /\ q[i] \in Wdogs
    <3>1. q[i] \in Wdogs
      BY <1>3, <1>4, LeftValues
    <3> QED BY <1>4, <2>1, <3>1
  <2> QED BY <1>4, <2>2
<1>9. {i \in DOMAIN c.list : Left(c)[c.list[i]] > ticks}
      = {i \in DOMAIN q : Left(w)[q[i]] > ticks}
  BY <1>3, <1>8
<1>10. ASSUME ~Expired(w) PROVE ~Expired(n)
  <2>1. \A y \in Range(w.list) : Left(w)[y] >= 1
    BY <1>10, ExpiredMeans
  <2>2. \A y \in Range(n.list) : y \in Wdogs
    BY <1>5, LeftValues
  <2>3. \A y \in Range(n.list) : Left(n)[y] >= 1
    <3> SUFFICES ASSUME NEW y \in Range(n.list) PROVE Left(n)[y] >= 1
      OBVIOUS
    <3>1. CASE y = d
      <4>1. Left(n)[y] = ticks
        BY <1>6, <1>w, <3>1
      <4> QED BY <1>1, <4>1
    <3>2. CASE y # d
      <4>1. Left(n)[y] = Left(w)[y] /\ y \in Range(w.list)
        BY <1>6, <1>7, <1>w, <2>2, <3>2
      <4> QED BY <2>1, <4>1
    <3> QED BY <3>1, <3>2
  <2> QED BY <1>5, <2>3, ExpiredMeans
<1> QED BY <1>1, <1>2, <1>3, <1>5, <1>6, <1>7, <1>9, <1>10 DEF ticks

(***************************************************************************)
(* wd_cancel makes no other watchdog expire.                               *)
(***************************************************************************)
LEMMA StopNotExpired ==
  ASSUME NEW w, WdGood(w), NEW n, NEW D, Stopped(w, n, D), ~Expired(w)
  PROVE  ~Expired(n)
<1>1. /\ WdGood(n) /\ Range(n.list) = Range(w.list) \ D
      /\ Left(n) = [y \in Wdogs |-> IF y \in D THEN 0 ELSE Left(w)[y]]
  BY DEF Stopped, IsWithout
<1>2. \A y \in Range(w.list) : Left(w)[y] >= 1
  BY ExpiredMeans
<1>3. \A y \in Range(n.list) : y \in Wdogs
  BY <1>1, LeftValues
<1>4. \A y \in Range(n.list) : Left(n)[y] >= 1
  BY <1>1, <1>2, <1>3
<1> QED BY <1>1, <1>4, ExpiredMeans

(***************************************************************************)
(* A tick, while no watchdog has expired.                                  *)
(***************************************************************************)
LEMMA TickEffect ==
  ASSUME NEW w, WdGood(w), ~Expired(w)
  PROVE  /\ WdGood(Ticked(w)) /\ Ticked(w).list = w.list
         /\ Left(Ticked(w)) =
              [d \in Wdogs |-> IF Left(w)[d] > 0 THEN Left(w)[d] - 1 ELSE 0]
<1> DEFINE n == Ticked(w)
           p == Len(w.list)
<1>1. /\ n \in WdStates /\ n.list = w.list
      /\ \A j \in 1 .. p : Expiry(n)[j] = Expiry(w)[j] - 1
  BY TickSums
<1>2. /\ w.list \in Seq(Wdogs) /\ p \in Nat
      /\ Left(w) \in [Wdogs -> 0 .. INT32_MAX]
      /\ \A i \in 1 .. p : w.list[i] \in Wdogs /\ Left(w)[w.list[i]] = Expiry(w)[i]
      /\ \A d \in Wdogs : (\A i \in 1 .. p : w.list[i] # d) => Left(w)[d] = 0
      /\ Range(w.list) = {w.list[i] : i \in 1 .. p}
  BY LeftValues
<1> HIDE DEF n
<1>3. WdGood(n)
  <2>1. Expiry(n)[p] <= INT32_MAX
    <3>1. CASE p = 0
      <4>1. Expiry(n)[0] = 0
        BY <1>1, <1>2, ExpirySteps
      <4> QED BY <3>1, <4>1, WdogsAssumption
    <3>2. CASE p # 0
      <4>1. p \in 1 .. p /\ p \in 0 .. p
        BY <1>2, <3>2
      <4>2. Expiry(n)[p] = Expiry(w)[p] - 1 /\ Expiry(w)[p] <= INT32_MAX /\ Expiry(w)[p] \in Nat
        BY <1>1, <4>1, ExpiryType DEF WdGood
      <4> HIDE DEF p
      <4> QED BY <4>2, WdogsAssumption
    <3> QED BY <3>1, <3>2
  <2> QED BY <1>1, <2>1 DEF WdGood
<1>4. /\ Left(n) \in [Wdogs -> 0 .. INT32_MAX]
      /\ \A i \in 1 .. p : Left(n)[w.list[i]] = Expiry(n)[i]
      /\ \A d \in Wdogs : (\A i \in 1 .. p : w.list[i] # d) => Left(n)[d] = 0
  <2> DEFINE l == n.list
  <2>1. /\ Left(n) \in [Wdogs -> 0 .. INT32_MAX]
        /\ \A i \in 1 .. Len(l) : Left(n)[l[i]] = Expiry(n)[i]
        /\ \A d \in Wdogs : (\A i \in 1 .. Len(l) : l[i] # d) => Left(n)[d] = 0
    BY <1>3, LeftValues
  <2>2. l = w.list
    BY <1>1
  <2> HIDE DEF l
  <2> QED BY <2>1, <2>2
<1>5. \A y \in Range(w.list) : Left(w)[y] >= 1
  BY ExpiredMeans
<1>6. ASSUME NEW d \in Wdogs
      PROVE  Left(n)[d] = IF Left(w)[d] > 0 THEN Left(w)[d] - 1 ELSE 0
  <2>1. CASE \A i \in 1 .. p : w.list[i] # d
    BY <1>2, <1>4, <2>1
  <2>2. CASE \E i \in 1 .. p : w.list[i] = d
    <3>1. PICK i \in 1 .. p : w.list[i] = d
      BY <2>2
    <3>2. Left(n)[d] = Left(w)[d] - 1
      BY <1>1, <1>2, <1>4, <3>1
    <3>3. Left(w)[d] >= 1 /\ Left(w)[d] \in 0 .. INT32_MAX
      BY <1>2, <1>5, <3>1
    <3> QED BY <3>2, <3>3, WdogsAssumption
  <2> QED BY <2>1, <2>2
<1> QED BY <1>1, <1>3, <1>4, <1>6 DEF n

(***************************************************************************)
(* The loop that cancels watchdogs is well defined.                        *)
(***************************************************************************)
LEMMA CancelLoopSteps ==
  ASSUME NEW w, NEW dogs, Len(dogs) \in Nat
  PROVE  \A n \in 0 .. Len(dogs) :
            CancelLoop(w, dogs)[n] =
              IF n = 0 THEN w ELSE wd_cancel(CancelLoop(w, dogs)[n - 1], dogs[n])
<1> DEFINE p == Len(dogs)
           Loop(m, g) ==
             g = [n \in 0 .. m |-> IF n = 0 THEN w ELSE wd_cancel(g[n - 1], dogs[n])]
           T == {m \in 0 .. p : ~ \E g : Loop(m, g)}
<1>0. p \in Nat /\ p \in 0 .. p
  OBVIOUS
<1>1. CancelLoop(w, dogs) = CHOOSE g : Loop(p, g)
  BY DEF CancelLoop
<1> HIDE DEF p
<1>2. T = {}
  <2> SUFFICES ASSUME T # {} PROVE FALSE
    OBVIOUS
  <2>1. T \in SUBSET Nat
    BY <1>0
  <2> DEFINE m == Min(T)
  <2>2. m \in T /\ \A k \in T : m <= k
    <3> HIDE DEF T
    <3> QED BY <2>1, MinProperties
  <2> HIDE DEF m
  <2>3. m \in Nat /\ m <= p /\ ~ \E g : Loop(m, g)
    BY <1>0, <2>2
  <2>4. CASE m = 0
    <3> DEFINE g == [n \in 0 .. 0 |-> w]
    <3>1. g = [n \in 0 .. 0 |-> IF n = 0 THEN w ELSE wd_cancel(g[n - 1], dogs[n])]
      OBVIOUS
    <3> QED BY <2>3, <2>4, <3>1
  <2>5. CASE m > 0
    <3>1. m - 1 \in 0 .. p /\ m - 1 \notin T
      <4> HIDE DEF T, Loop
      <4> QED BY <1>0, <2>2, <2>3, <2>5
    <3>2. PICK g : Loop(m - 1, g)
      BY <3>1
    <3> DEFINE h == [n \in 0 .. m |-> IF n = m THEN wd_cancel(g[m - 1], dogs[m]) ELSE g[n]]
    <3>3. ASSUME NEW n \in 0 .. m
          PROVE  h[n] = IF n = 0 THEN w ELSE wd_cancel(h[n - 1], dogs[n])
      <4>1. CASE n = m
        <5>1. h[n] = wd_cancel(g[m - 1], dogs[m]) /\ n # 0
          BY <4>1, <2>3, <2>5
        <5>2. n - 1 \in 0 .. m /\ n - 1 # m /\ n - 1 = m - 1
          BY <4>1, <2>3, <2>5
        <5>3. h[n - 1] = g[m - 1]
          BY <5>2
        <5> QED BY <4>1, <5>1, <5>3
      <4>2. CASE n # m
        <5>1. n \in 0 .. m - 1 /\ h[n] = g[n]
          BY <4>2, <2>3
        <5>2. g[n] = IF n = 0 THEN w ELSE wd_cancel(g[n - 1], dogs[n])
          BY <3>2, <5>1
        <5>3. n # 0 => n - 1 \in 0 .. m /\ n - 1 # m
          BY <5>1, <2>3
        <5>4. n # 0 => h[n - 1] = g[n - 1]
          BY <5>3
        <5> QED BY <5>1, <5>2, <5>4
      <4> QED BY <4>1, <4>2
    <3>4. h = [n \in 0 .. m |-> h[n]]
      OBVIOUS
    <3> HIDE DEF h
    <3>5. h = [n \in 0 .. m |-> IF n = 0 THEN w ELSE wd_cancel(h[n - 1], dogs[n])]
      BY <3>3, <3>4
    <3> QED BY <2>3, <3>5
  <2> QED BY <2>3, <2>4, <2>5
<1>3. \E g : Loop(p, g)
  BY <1>0, <1>2
<1>4. Loop(p, CancelLoop(w, dogs))
  <2> HIDE DEF Loop
  <2> QED BY <1>1, <1>3
<1> QED BY <1>4 DEF p

(***************************************************************************)
(* The sequence of a finite set has each of its elements.                  *)
(***************************************************************************)
LEMMA SetAsSequence ==
  ASSUME NEW D, IsFiniteSet(D)
  PROVE  LET s == SetToSeq(D)
         IN  /\ Cardinality(D) \in Nat /\ Len(s) = Cardinality(D)
             /\ \A i \in 1 .. Len(s) : s[i] \in D
             /\ \A d \in D : \E i \in 1 .. Len(s) : s[i] = d
<1> DEFINE N == Cardinality(D)
           s == SetToSeq(D)
           F == {f \in [1 .. N -> D] : IsInjective(f)}
<1>1. N \in Nat /\ ExistsBijection(1 .. N, D)
  BY FS_CardinalityType
<1>2. s = CHOOSE f \in [1 .. N -> D] : IsInjective(f)
  BY DEF SetToSeq
<1> HIDE DEF N, s
<1>3. \E f \in [1 .. N -> D] : IsInjective(f)
  BY <1>1 DEF ExistsBijection, Bijection, Injection
<1>4. s \in [1 .. N -> D] /\ IsInjective(s)
  BY <1>2, <1>3
<1>5. s \in Injection(1 .. N, D)
  BY <1>4 DEF Injection
<1>6. Cardinality(1 .. N) = N
  <2>1. 1 \in Int /\ N \in Int /\ N - 1 + 1 = N
    BY <1>1
  <2>2. Cardinality(1 .. N) = IF 1 > N THEN 0 ELSE N - 1 + 1
    BY <2>1, FS_Interval
  <2> QED BY <1>1, <2>1, <2>2
<1>7. s \in Surjection(1 .. N, D)
  BY <1>5, <1>6, FS_Injection DEF N
<1>8. \A d \in D : \E i \in 1 .. N : s[i] = d
  BY <1>7 DEF Surjection
<1>9. Len(s) = N
  <2>1. s \in Seq(D)
    BY <1>1, <1>4, IsASeq
  <2>2. DOMAIN s = 1 .. N /\ DOMAIN s = 1 .. Len(s) /\ Len(s) \in Nat
    BY <1>4, <2>1, LenProperties
  <2> QED BY <1>1, <2>2
<1> QED BY <1>1, <1>4, <1>8, <1>9 DEF N, s

(***************************************************************************)
(* The timers of a set are cancelled one by one: all of them are stopped.  *)
(***************************************************************************)
LEMMA CancelAll ==
  ASSUME NEW w, WdGood(w), NEW D \in SUBSET Wdogs
  PROVE  Stopped(w, CancelLoop(w, SetToSeq(D))[Cardinality(D)], D)
<1> DEFINE s == SetToSeq(D)
           p == Cardinality(D)
           g == CancelLoop(w, s)
           Upto(k) == {s[i] : i \in 1 .. k}
           T == {k \in 0 .. p : ~Stopped(w, g[k], Upto(k))}
<1>0. IsFiniteSet(D)
  BY FS_Subset, WdogsAssumption
<1>1. /\ p \in Nat /\ Len(s) = p
      /\ \A i \in 1 .. p : s[i] \in D
      /\ \A d \in D : \E i \in 1 .. p : s[i] = d
  BY <1>0, SetAsSequence
<1>2. \A n \in 0 .. p : g[n] = IF n = 0 THEN w ELSE wd_cancel(g[n - 1], s[n])
  BY <1>1, CancelLoopSteps
<1> HIDE DEF s, p, g
<1>3. T = {}
  <2> SUFFICES ASSUME T # {} PROVE FALSE
    OBVIOUS
  <2>1. T \in SUBSET Nat
    BY <1>1
  <2> DEFINE m == Min(T)
  <2>2. m \in T /\ \A k \in T : m <= k
    <3> HIDE DEF T
    <3> QED BY <2>1, MinProperties
  <2> HIDE DEF m
  <2>3. m \in 0 .. p /\ ~Stopped(w, g[m], Upto(m)) /\ m \in Nat
    <3> HIDE DEF Upto
    <3> QED BY <1>1, <2>2
  <2>4. CASE m = 0
    <3>1. 1 .. m = {}
      BY <2>4
    <3>2. g[m] = w /\ Upto(m) = {}
      BY <1>2, <2>3, <2>4, <3>1
    <3>3. Stopped(w, w, {})
      BY StopNone
    <3> QED BY <2>3, <3>2, <3>3
  <2>5. CASE m # 0
    <3>1. m - 1 \in 0 .. p /\ m \in 1 .. p /\ ~(m <= m - 1)
      BY <1>1, <2>3, <2>5
    <3>2. m - 1 \notin T
      <4> HIDE DEF T
      <4> QED BY <2>2, <3>1
    <3>3. Stopped(w, g[m - 1], Upto(m - 1))
      BY <3>1, <3>2
    <3>4. g[m] = wd_cancel(g[m - 1], s[m])
      BY <1>2, <2>3, <2>5
    <3>5. s[m] \in Wdogs /\ WdGood(g[m - 1])
      BY <1>1, <3>1, <3>3 DEF Stopped
    <3>6. Stopped(g[m - 1], g[m], {s[m]})
      BY <3>4, <3>5, CancelEffect
    <3>7. Upto(m) = Upto(m - 1) \cup {s[m]}
      <4>1. 1 .. m = (1 .. m - 1) \cup {m}
        BY <2>3, <3>1
      <4> QED BY <4>1
    <3> HIDE DEF Upto
    <3>8. Stopped(w, g[m], Upto(m - 1) \cup {s[m]})
      BY <3>3, <3>6, StopMore
    <3> QED BY <2>3, <3>7, <3>8
  <2> QED BY <2>4, <2>5
<1>4. p \in 0 .. p
  BY <1>1
<1>5. Stopped(w, g[p], Upto(p))
  BY <1>3, <1>4
<1>6. Upto(p) = D
  BY <1>1
<1> HIDE DEF Upto
<1> QED BY <1>5, <1>6 DEF g, p, s

-----------------------------------------------------------------------------
(***************************************************************************)
(* The active watchdogs, the waits and the owners of the timers agree.     *)
(***************************************************************************)
DogsOwned(active, wt, owner) ==
    /\ wt \in [Tasks -> WaitStates] /\ owner \in [Periodic -> AllTasks]
    /\ \A t \in Tasks : waitdog[t] \in active => wt[t] = "timed"
    /\ \A d \in Periodic : d \in active => SharedTimers \/ owner[d] # idle
    /\ \A d \in Periodic : owner[d] # idle => wt[owner[d]] # "inactive"

(***************************************************************************)
(* The invariant of the watchdogs: the list and the lags are good, the     *)
(* timer interrupt goes on exactly while a watchdog has expired, and every *)
(* active watchdog belongs to a timed wait or, unless tasks share timers,  *)
(* to a timer of a living task.                                            *)
(* The victim of nxtask_terminate is a task, or idle.                      *)
(***************************************************************************)
TimerInv ==
    /\ WdGood(W) /\ (ticking <=> Expired(W))
    /\ pt_delay \in [Periodic -> Delays \cup {0}] /\ victim \in AllTasks
    /\ DogsOwned(Range(W.list), wait, pt_owner)

(***************************************************************************)
(* A task in timer_settime has a timer that it created, unless tasks share *)
(* timers: the timer is not released between the cancellation of its       *)
(* watchdog and the start.                                                 *)
(***************************************************************************)
SettingOwned(st, owner) ==
    /\ st \in [Tasks -> {<<>>} \cup ({"period", "start"} \X Periodic)]
    /\ \A t \in Tasks, d \in Periodic :
         st[t] = <<"period", d>> \/ st[t] = <<"start", d>> => SharedTimers \/ owner[d] = t

SettingInv == SettingOwned(setting, pt_owner)

(***************************************************************************)
(* What a step is in the abstract specification.                           *)
(***************************************************************************)
CountdownStep ==
    CD!Next \/ UNCHANGED <<g_wdactivelist, [d \in Wdogs |-> wd_gettime(W, d)]>>

(***************************************************************************)
(* The list operators of Countdown are those of this module.               *)
(***************************************************************************)
LEMMA SameInsert ==
  ASSUME NEW q, NEW P, NEW d
  PROVE  CD!InsertBefore(q, P, d) = InsertBefore(q, P, d) /\ CD!dq_rem(q, d) = dq_rem(q, d)
BY DEF CD!InsertBefore, InsertBefore, CD!dq_rem, dq_rem, CD!PositionsOf, PositionsOf,
       CD!RemoveFirstOf, RemoveFirstOf, CD!RemoveAt, RemoveAt, CD!InsertAt, InsertAt,
       CD!Min, Min

(***************************************************************************)
(* The fields of the watchdogs' state are the variables.                   *)
(***************************************************************************)
LEMMA DogFields ==
  /\ W.list = g_wdactivelist /\ W.lag = lag /\ W'.list = g_wdactivelist'
  /\ Left(W) = [d \in Wdogs |-> wd_gettime(W, d)]
  /\ Left(W') = [d \in Wdogs |-> wd_gettime(W, d)]'
BY DEF W, Left

(***************************************************************************)
(* An operation that leaves a state of the watchdogs leaves it in the      *)
(* variables.                                                              *)
(***************************************************************************)
LEMMA DogsBecome ==
  ASSUME NEW n, WdGood(n), WdBecomes(n)
  PROVE  W' = n
BY DEF WdGood, WdStates, WdBecomes, W

(***************************************************************************)
(* Steps that leave the watchdogs alone.                                   *)
(***************************************************************************)
LEMMA DogsKept ==
  ASSUME UNCHANGED wdVars
  PROVE  W' = W /\ CountdownStep
<1>1. W' = W /\ UNCHANGED g_wdactivelist
  BY DEF wdVars, W
<1>2. Left(W') = Left(W)
  BY <1>1
<1> QED BY <1>1, <1>2, DogFields DEF CountdownStep

(***************************************************************************)
(* Steps that stop watchdogs.                                              *)
(***************************************************************************)
LEMMA StopStep ==
  ASSUME WdGood(W), ~Expired(W), NEW D \in SUBSET Wdogs, NEW n, Stopped(W, n, D),
         WdBecomes(n)
  PROVE  /\ WdGood(W') /\ ~Expired(W') /\ Range(W'.list) = Range(W.list) \ D
         /\ CountdownStep
<1>1. WdGood(n) /\ IsWithout(W.list, D, n.list)
      /\ Left(n) = [d \in Wdogs |-> IF d \in D THEN 0 ELSE Left(W)[d]]
  BY DEF Stopped
<1>2. W' = n
  BY <1>1, DogsBecome
<1>3. ~Expired(W')
  BY <1>2, StopNotExpired
<1>4. Range(W'.list) = Range(W.list) \ D
  BY <1>1, <1>2 DEF IsWithout
<1>5. CD!Stop(D)
  <2>1. CD!Without(g_wdactivelist, D, g_wdactivelist')
    BY <1>1, <1>2, DogFields, SameWithout
  <2>2. Left(W') = [d \in Wdogs |-> IF d \in D THEN 0 ELSE Left(W)[d]]
    BY <1>1, <1>2
  <2> QED BY <2>1, <2>2, DogFields DEF CD!Stop
<1>6. CD!Next
  BY <1>5 DEF CD!Next
<1> QED BY <1>1, <1>2, <1>3, <1>4, <1>6 DEF CountdownStep

(***************************************************************************)
(* Steps that start a watchdog.                                            *)
(***************************************************************************)
LEMMA StartStep ==
  ASSUME WdGood(W), ~Expired(W), NEW d \in Wdogs, NEW delay \in 0 .. INT32_MAX,
         WdBecomes(wd_start(W, d, delay))
  PROVE  /\ WdGood(W') /\ ~Expired(W') /\ Range(W'.list) = Range(W.list) \cup {d}
         /\ CountdownStep
<1> DEFINE n == wd_start(W, d, delay)
           T == Ticks(delay)
           q == dq_rem(W.list, d)
<1>1. /\ T \in 1 .. INT32_MAX
      /\ WdGood(n) /\ Left(n) = [Left(W) EXCEPT ![d] = T]
      /\ Range(n.list) = Range(W.list) \cup {d}
      /\ n.list = InsertBefore(q, {i \in DOMAIN q : Left(W)[q[i]] > T}, d)
      /\ ~Expired(W) => ~Expired(n)
  BY StartEffect
<1>2. W' = n
  BY <1>1, DogsBecome
<1> HIDE DEF n, T
<1>3. CD!Start(d, T)
  <2>0. T # 0
    BY <1>1
  <2>1. q = CD!dq_rem(g_wdactivelist, d)
    BY DogFields, SameInsert
  <2>2. g_wdactivelist' = CD!InsertBefore(q, {i \in DOMAIN q : Left(W)[q[i]] > T}, d)
    BY <1>1, <1>2, DogFields, SameInsert
  <2>3. Left(W') = [Left(W) EXCEPT ![d] = T]
    BY <1>1, <1>2
  <2> HIDE DEF q
  <2> QED BY <2>0, <2>1, <2>2, <2>3, DogFields DEF CD!Start, CD!Started
<1>4. CD!Next
  <2>1. T \in 0 .. INT32_MAX /\ T > 0
    BY <1>1, WdogsAssumption
  <2> QED BY <1>3, <2>1 DEF CD!Next
<1> QED BY <1>1, <1>2, <1>4 DEF CountdownStep

(***************************************************************************)
(* The tick of the timer interrupt.                                        *)
(***************************************************************************)
LEMMA TickStep ==
  ASSUME WdGood(W), ~Expired(W), WdBecomes(Ticked(W))
  PROVE  WdGood(W') /\ W' = Ticked(W) /\ W'.list = W.list /\ CountdownStep
<1>1. /\ WdGood(Ticked(W)) /\ Ticked(W).list = W.list
      /\ Left(Ticked(W)) =
           [d \in Wdogs |-> IF Left(W)[d] > 0 THEN Left(W)[d] - 1 ELSE 0]
  BY TickEffect
<1>2. W' = Ticked(W)
  BY <1>1, DogsBecome
<1>3. CD!Tick
  <2>1. ~CD!Due
    <3>1. ~(W.list # <<>> /\ Left(W)[Head(W.list)] = 0)
      BY ExpiredMeans
    <3> QED BY <3>1, DogFields DEF CD!Due
  <2>2. g_wdactivelist' = g_wdactivelist
    BY <1>1, <1>2, DogFields
  <2>3. Left(W') = [d \in Wdogs |-> IF Left(W)[d] > 0 THEN Left(W)[d] - 1 ELSE 0]
    BY <1>1, <1>2
  <2> QED BY <2>1, <2>2, <2>3, DogFields DEF CD!Tick
<1> QED BY <1>1, <1>2, <1>3 DEF CountdownStep, CD!Next

(***************************************************************************)
(* Taking the first watchdog from the list leaves the rest of it.          *)
(***************************************************************************)
LEMMA RemoveHead ==
  ASSUME NEW w, WdGood(w), Expired(w)
  PROVE  LET d == Head(w.list)
         IN  /\ d \in Wdogs /\ d \in Range(w.list) /\ Left(w)[d] = 0
             /\ WdGood(Removed(w)) /\ Removed(w).list = Tail(w.list)
             /\ Left(Removed(w)) = Left(w)
             /\ Range(Removed(w).list) = Range(w.list) \ {d}
             /\ dq_rem(Removed(w).list, d) = Removed(w).list
<1> DEFINE d == Head(w.list)
           n == Removed(w)
           l == w.list
<1>0. /\ l \in Seq(Wdogs) /\ Len(l) \in Nat /\ DOMAIN l = 1 .. Len(l)
      /\ Left(w) \in [Wdogs -> 0 .. INT32_MAX]
      /\ Range(l) = {l[i] : i \in 1 .. Len(l)} /\ Range(l) \subseteq Wdogs
      /\ Distinct(l)
  BY LeftValues DEF WdGood
<1>1. l # <<>> /\ Left(w)[d] = 0
  BY ExpiredMeans
<1>2. d = l[1] /\ 1 \in 1 .. Len(l)
  BY <1>0, <1>1
<1>3. d \in Range(l) /\ d \in Wdogs
  BY <1>0, <1>2
<1> HIDE DEF d
<1>4. Stopped(w, wd_cancel(w, d), {d}) /\ wd_cancel(w, d).list = dq_rem(l, d)
  BY <1>3, CancelEffect
<1>5. n = wd_cancel(w, d)
  BY DEF Removed, d
<1> HIDE DEF n
<1>6. /\ WdGood(n) /\ Range(n.list) = Range(l) \ {d} /\ n.list \in Seq(Wdogs)
      /\ Left(n) = [y \in Wdogs |-> IF y \in {d} THEN 0 ELSE Left(w)[y]]
  BY <1>4, <1>5 DEF Stopped, IsWithout
<1>7. Left(n) = Left(w)
  BY <1>0, <1>1, <1>6
<1>8. n.list = Tail(l)
  <2>1. PICK i \in 1 .. Len(l) : l[i] = d /\ dq_rem(l, d) = RemoveAt(l, i)
    BY <1>0, <1>2, DqRemPosition
  <2>2. i = 1
    BY <1>0, <1>2, <2>1 DEF Distinct
  <2>3. RemoveAt(l, 1) = Tail(l)
    <3>1. IsRemoval(RemoveAt(l, 1), l, 1, Wdogs)
      BY <1>0, <1>2, RemoveAtProperties
    <3> DEFINE r == RemoveAt(l, 1)
    <3>2. /\ r \in Seq(Wdogs) /\ Len(r) = Len(l) - 1
          /\ \A j \in 1 .. Len(l) - 1 : r[j] = IF j < 1 THEN l[j] ELSE l[j + 1]
      BY <3>1 DEF IsRemoval
    <3>3. /\ Tail(l) \in Seq(Wdogs) /\ Len(Tail(l)) = Len(l) - 1
          /\ \A j \in 1 .. Len(l) - 1 : Tail(l)[j] = l[j + 1]
      BY <1>0, <1>1
    <3> HIDE DEF r, l
    <3>4. \A j \in 1 .. Len(l) - 1 : r[j] = Tail(l)[j]
      BY <1>0, <3>2, <3>3
    <3>5. r = Tail(l)
      BY <3>2, <3>3, <3>4, SeqEqual
    <3> QED BY <3>5 DEF r, l
  <2> QED BY <1>4, <1>5, <2>1, <2>2, <2>3
<1>9. dq_rem(n.list, d) = n.list
  <2>1. \A i \in 1 .. Len(n.list) : n.list[i] # d
    <3>1. DOMAIN n.list = 1 .. Len(n.list)
      BY <1>6, LenProperties
    <3> QED BY <1>6, <3>1 DEF Range
  <2> QED BY <1>6, <2>1, DqRemPosition
<1> QED BY <1>1, <1>3, <1>6, <1>7, <1>8, <1>9 DEF d, n

(***************************************************************************)
(* A watchdog that has expired is removed, or started again.               *)
(***************************************************************************)
LEMMA ExpireStep ==
  ASSUME WdGood(W), Expired(W), NEW n,
         \/ n = Removed(W)
         \/ \E delay \in 0 .. INT32_MAX : n = wd_start(Removed(W), Head(W.list), delay),
         WdBecomes(n)
  PROVE  /\ WdGood(W') /\ W' = n /\ CountdownStep /\ Head(W.list) \in Range(W.list)
         /\ n = Removed(W) => Range(n.list) = Range(W.list) \ {Head(W.list)}
         /\ Range(n.list) \subseteq Range(W.list)
<1> DEFINE d == Head(W.list)
           c == Removed(W)
<1>1. /\ d \in Wdogs /\ d \in Range(W.list) /\ Left(W)[d] = 0
      /\ WdGood(c) /\ c.list = Tail(W.list)
      /\ Left(c) = Left(W)
      /\ Range(c.list) = Range(W.list) \ {d}
      /\ dq_rem(c.list, d) = c.list
  BY RemoveHead
<1>2. CD!Due
  <2>1. W.list # <<>> /\ Left(W)[Head(W.list)] = 0
    BY ExpiredMeans
  <2> QED BY <2>1, DogFields DEF CD!Due
<1>d. d = Head(g_wdactivelist)
  BY DogFields
<1> HIDE DEF d, c
<1>l. Left(W) \in [Wdogs -> 0 .. INT32_MAX]
  BY LeftValues
<1>3. CASE n = c
  <2>1. W' = n /\ WdGood(W')
    BY <1>1, <1>3, DogsBecome
  <2>2. Left(W') = [Left(W) EXCEPT ![d] = 0]
    BY <1>1, <1>3, <1>l, <2>1
  <2>3. g_wdactivelist' = Tail(g_wdactivelist)
    BY <1>1, <1>3, <2>1, DogFields
  <2>4. CD!Run(0)
    BY <1>2, <1>d, <2>2, <2>3, DogFields DEF CD!Run, CD!Started
  <2>5. 0 \in 0 .. INT32_MAX
    BY WdogsAssumption
  <2>6. CD!Next
    BY <2>4, <2>5 DEF CD!Next
  <2> QED BY <1>1, <1>3, <2>1, <2>6 DEF CountdownStep, d, c
<1>4. ASSUME NEW delay \in 0 .. INT32_MAX, n = wd_start(c, d, delay)
      PROVE  /\ WdGood(W') /\ W' = n /\ CountdownStep /\ d \in Range(W.list)
             /\ Range(n.list) = Range(W.list)
  <2> DEFINE T == Ticks(delay)
             q == dq_rem(c.list, d)
  <2>1. /\ T \in 1 .. INT32_MAX
        /\ WdGood(n) /\ Left(n) = [Left(c) EXCEPT ![d] = T]
        /\ Range(n.list) = Range(c.list) \cup {d}
        /\ n.list = InsertBefore(q, {i \in DOMAIN q : Left(c)[q[i]] > T}, d)
    <3> DEFINE m == wd_start(c, d, delay)
    <3>1. /\ Ticks(delay) \in 1 .. INT32_MAX
          /\ WdGood(m) /\ Left(m) = [Left(c) EXCEPT ![d] = Ticks(delay)]
          /\ Range(m.list) = Range(c.list) \cup {d}
          /\ m.list = InsertBefore(q, {i \in DOMAIN q : Left(c)[q[i]] > Ticks(delay)}, d)
          /\ ~Expired(c) => ~Expired(m)
      BY <1>1, StartEffect
    <3> HIDE DEF m, q, T
    <3>2. n = m
      BY <1>4 DEF m
    <3> QED BY <3>1, <3>2 DEF T
  <2>2. W' = n /\ q = Tail(g_wdactivelist)
    BY <1>1, <2>1, DogsBecome, DogFields
  <2> HIDE DEF T, q
  <2>3. Left(W') = [Left(W) EXCEPT ![d] = T]
    BY <1>1, <2>1, <2>2
  <2>4. g_wdactivelist' = CD!InsertBefore(q, {i \in DOMAIN q : Left(W)[q[i]] > T}, d)
    BY <1>1, <2>1, <2>2, DogFields, SameInsert
  <2>5. T # 0 /\ T \in 0 .. INT32_MAX
    BY <2>1, WdogsAssumption
  <2>6. CD!Run(T)
    BY <1>2, <1>d, <2>2, <2>3, <2>4, <2>5, DogFields DEF CD!Run, CD!Started
  <2>7. CD!Next
    BY <2>5, <2>6 DEF CD!Next
  <2>8. Range(n.list) = Range(W.list)
    BY <1>1, <2>1
  <2> QED BY <1>1, <2>1, <2>2, <2>7, <2>8 DEF CountdownStep
<1>5. CASE \E delay \in 0 .. INT32_MAX : n = wd_start(c, d, delay)
  <2>1. PICK delay \in 0 .. INT32_MAX : n = wd_start(c, d, delay)
    BY <1>5
  <2>2. /\ WdGood(W') /\ W' = n /\ CountdownStep /\ d \in Range(W.list)
        /\ Range(n.list) = Range(W.list)
    BY <1>4, <2>1
  <2>3. n # c
    BY <1>1, <2>2
  <2> QED BY <2>2, <2>3 DEF d, c
<1> QED BY <1>3, <1>5 DEF d, c

(***************************************************************************)
(* Watchdogs of tasks and of timers.                                       *)
(***************************************************************************)
LEMMA DogKinds ==
  /\ Periodic \subseteq Wdogs /\ \A t \in Tasks : waitdog[t] \in Wdogs /\ waitdog[t] \notin Periodic
  /\ \A t, u \in Tasks : waitdog[t] = waitdog[u] => t = u
  /\ \A x \in Delays \cup {0} : x \in 0 .. INT32_MAX
BY KernelAssumption, WdogsAssumption

(***************************************************************************)
(* Fewer watchdogs are active, the waits and the timers are as they were.  *)
(***************************************************************************)
LEMMA OwnedFewer ==
  ASSUME NEW A, NEW wt, NEW owner, DogsOwned(A, wt, owner), NEW B, B \subseteq A
  PROVE  DogsOwned(B, wt, owner)
BY DEF DogsOwned

(***************************************************************************)
(* A task begins or ends a wait while its watchdog is not active, or it    *)
(* begins a timed wait.                                                    *)
(***************************************************************************)
LEMMA OwnedWait ==
  ASSUME NEW A, NEW wt, NEW owner, DogsOwned(A, wt, owner), NEW t \in Tasks,
         NEW x \in WaitStates, x # "inactive", NEW B, B \subseteq A \cup {waitdog[t]},
         x # "timed" => waitdog[t] \notin B
  PROVE  DogsOwned(B, [wt EXCEPT ![t] = x], owner)
<1> DEFINE new == [wt EXCEPT ![t] = x]
<1>0. /\ wt \in [Tasks -> WaitStates] /\ owner \in [Periodic -> AllTasks]
      /\ \A u \in Tasks : waitdog[u] \in A => wt[u] = "timed"
      /\ \A d \in Periodic : d \in A => SharedTimers \/ owner[d] # idle
      /\ \A d \in Periodic : owner[d] # idle => wt[owner[d]] # "inactive"
  BY DEF DogsOwned
<1>1. new \in [Tasks -> WaitStates] /\ new[t] = x /\ \A u \in Tasks : u # t => new[u] = wt[u]
  BY <1>0
<1> HIDE DEF new
<1>2. ASSUME NEW u \in Tasks, waitdog[u] \in B PROVE new[u] = "timed"
  <2>1. CASE u = t
    BY <1>1, <1>2, <2>1
  <2>2. CASE u # t
    BY <1>0, <1>1, <1>2, <2>2, DogKinds
  <2> QED BY <2>1, <2>2
<1>3. \A d \in Periodic : d \in B => SharedTimers \/ owner[d] # idle
  BY <1>0, DogKinds
<1>4. ASSUME NEW d \in Periodic, owner[d] # idle PROVE new[owner[d]] # "inactive"
  <2>1. owner[d] \in Tasks
    BY <1>0, <1>4 DEF AllTasks
  <2> QED BY <1>0, <1>1, <1>4, <2>1
<1> QED BY <1>0, <1>1, <1>2, <1>3, <1>4 DEF DogsOwned, new

(***************************************************************************)
(* The invariant at the start.                                             *)
(***************************************************************************)
LEMMA TimerInit == Init => TimerInv /\ SettingInv /\ CD!Init
<1> SUFFICES ASSUME Init PROVE TimerInv /\ SettingInv /\ CD!Init
  OBVIOUS
<1>1. W.list = <<>> /\ W.lag = [d \in Wdogs |-> 0] /\ W = [list |-> <<>>, lag |-> [d \in Wdogs |-> 0]]
  BY DEF Init, W
<1>2. Len(W.list) = 0 /\ W \in WdStates /\ Distinct(W.list) /\ W.list \in Seq(Wdogs)
  <2>1. Len(W.list) = 0
    BY <1>1
  <2>2. 1 .. 0 = {}
    OBVIOUS
  <2>3. Distinct(W.list)
    BY <2>1, <2>2 DEF Distinct
  <2>4. W \in WdStates
    BY <1>1 DEF WdStates
  <2> QED BY <1>1, <2>1, <2>3, <2>4
<1>3. WdGood(W)
  <2>1. 0 \in 0 .. Len(W.list)
    BY <1>2
  <2>2. Expiry(W)[0] = 0
    BY <1>2, <2>1, ExpirySteps
  <2> QED BY <1>2, <2>2, WdogsAssumption DEF WdGood
<1>4. ~Expired(W) /\ Range(W.list) = {}
  <2>1. DOMAIN W.list = {}
    BY <1>1
  <2> QED BY <1>1, <2>1 DEF Expired, Range
<1>5. DogsOwned({}, wait, pt_owner)
  BY DEF Init, DogsOwned, AllTasks, WaitStates
<1>6. TimerInv
  BY <1>3, <1>4, <1>5 DEF Init, TimerInv, AllTasks
<1>7. Left(W) = [d \in Wdogs |-> 0]
  BY <1>2, <1>3, LeftValues
<1>8. CD!Init
  BY <1>1, <1>7, DogFields DEF CD!Init
<1>9. SettingInv
  <2>1. \A x, y : <<>> # <<x, y>>
    OBVIOUS
  <2> QED BY <2>1 DEF Init, SettingInv, SettingOwned
<1> QED BY <1>6, <1>8, <1>9

(***************************************************************************)
(* The watchdog of a task and the timers that it created are deleted when  *)
(* it ends.                                                                *)
(***************************************************************************)
LEMMA ReleaseStep ==
  ASSUME TimerInv, ~ticking, UNCHANGED ticking, victim' \in AllTasks,
         NEW t \in Tasks, Released(t)
  PROVE  TimerInv' /\ CountdownStep
<1> DEFINE timers == {d \in Periodic : pt_owner[d] = t}
           c == wd_cancel(W, waitdog[t])
           n == CancelLoop(c, SetToSeq(timers))[Cardinality(timers)]
           D == {waitdog[t]} \cup timers
<1>0. /\ WdGood(W) /\ ~Expired(W) /\ pt_delay \in [Periodic -> Delays \cup {0}]
      /\ wait \in [Tasks -> WaitStates] /\ pt_owner \in [Periodic -> AllTasks]
      /\ \A u \in Tasks : waitdog[u] \in Range(W.list) => wait[u] = "timed"
      /\ \A d \in Periodic : d \in Range(W.list) => SharedTimers \/ pt_owner[d] # idle
      /\ \A d \in Periodic : pt_owner[d] # idle => wait[pt_owner[d]] # "inactive"
  BY DEF TimerInv, DogsOwned
<1>1. /\ wait' = [wait EXCEPT ![t] = "inactive"] /\ WdBecomes(n)
      /\ pt_owner' = [d \in Periodic |-> IF d \in timers THEN idle ELSE pt_owner[d]]
      /\ pt_delay' = [d \in Periodic |-> IF d \in timers THEN 0 ELSE pt_delay[d]]
  BY DEF Released, timer_release
<1>2. D \in SUBSET Wdogs /\ timers \in SUBSET Wdogs /\ waitdog[t] \in Wdogs
  BY DogKinds
<1>3. \A d \in Periodic : d \in timers <=> pt_owner[d] = t
  OBVIOUS
<1> HIDE DEF timers
<1>4. Stopped(W, c, {waitdog[t]}) /\ WdGood(c)
  BY <1>0, <1>2, CancelEffect DEF Stopped
<1> HIDE DEF c
<1>5. Stopped(c, n, timers)
  BY <1>2, <1>4, CancelAll
<1> HIDE DEF n
<1>6. Stopped(W, n, D)
  BY <1>0, <1>4, <1>5, StopMore
<1>7. /\ WdGood(W') /\ ~Expired(W') /\ Range(W'.list) = Range(W.list) \ D
      /\ CountdownStep
  <2> HIDE DEF D
  <2> QED BY <1>0, <1>1, <1>2, <1>6, StopStep
<1>8. /\ wait' \in [Tasks -> WaitStates] /\ wait'[t] = "inactive"
      /\ \A u \in Tasks : u # t => wait'[u] = wait[u]
  BY <1>0, <1>1 DEF WaitStates
<1>9. pt_owner' \in [Periodic -> AllTasks] /\ pt_delay' \in [Periodic -> Delays \cup {0}]
      /\ \A d \in Periodic : pt_owner'[d] = IF d \in timers THEN idle ELSE pt_owner[d]
  BY <1>0, <1>1 DEF AllTasks
<1>10. ASSUME NEW u \in Tasks, waitdog[u] \in Range(W'.list) PROVE wait'[u] = "timed"
  <2>1. waitdog[u] \in Range(W.list) /\ u # t
    BY <1>7, <1>10
  <2> QED BY <1>0, <1>8, <2>1
<1>11. ASSUME NEW d \in Periodic, d \in Range(W'.list)
       PROVE  SharedTimers \/ pt_owner'[d] # idle
  <2>1. d \in Range(W.list) /\ d \notin timers
    BY <1>7, <1>11
  <2> QED BY <1>0, <1>9, <2>1
<1>12. ASSUME NEW d \in Periodic, pt_owner'[d] # idle PROVE wait'[pt_owner'[d]] # "inactive"
  <2>1. pt_owner'[d] = pt_owner[d] /\ pt_owner[d] # t /\ pt_owner[d] # idle
    BY <1>3, <1>9, <1>12
  <2>2. pt_owner[d] \in Tasks
    BY <1>0, <2>1 DEF AllTasks
  <2> QED BY <1>0, <1>8, <2>1, <2>2
<1>13. DogsOwned(Range(W'.list), wait', pt_owner')
  BY <1>8, <1>9, <1>10, <1>11, <1>12 DEF DogsOwned
<1> QED BY <1>7, <1>9, <1>13 DEF TimerInv

(***************************************************************************)
(* A step of a task keeps the invariant of the watchdogs and is a step of  *)
(* Countdown.                                                              *)
(***************************************************************************)
LEMMA TaskTimerStep ==
  ASSUME TimerInv, SettingInv, NEW t \in Tasks, TaskStep(t)
  PROVE  TimerInv' /\ CountdownStep
<1> DEFINE active == Range(W.list)
<1>a. ~ticking /\ UNCHANGED ticking
  BY DEF TaskStep, Runs, Executes, clockVars, Lock, Unlock, sched_yield, Wait, WaitReturns,
         SetPriority, nxsem_tickwait, timer_create, Disarm, timer_delete, timer_settime,
         SettimeStep, StorePeriod, StartTimer, Exit, task_delete, Terminated
<1>v. victim' \in AllTasks /\ victim \in AllTasks
  <2>1. victim \in AllTasks
    BY DEF TimerInv
  <2>2. victim' = victim \/ victim' = idle \/ victim' \in Tasks
    BY DEF TaskStep, Lock, Unlock, sched_yield, Wait, WaitReturns,
           SetPriority, nxsem_tickwait, timer_create, Disarm, timer_delete, timer_settime,
           SettimeStep, StorePeriod, StartTimer, Exit, task_delete, Terminated
  <2> QED BY <2>1, <2>2 DEF AllTasks
<1>0. /\ WdGood(W) /\ ~Expired(W) /\ pt_delay \in [Periodic -> Delays \cup {0}]
      /\ DogsOwned(active, wait, pt_owner)
      /\ wait \in [Tasks -> WaitStates] /\ pt_owner \in [Periodic -> AllTasks]
      /\ \A u \in Tasks : waitdog[u] \in active => wait[u] = "timed"
      /\ \A d \in Periodic : d \in active => SharedTimers \/ pt_owner[d] # idle
      /\ \A d \in Periodic : pt_owner[d] # idle => wait[pt_owner[d]] # "inactive"
      /\ waitdog[t] \in Wdogs
  BY <1>a, DogKinds DEF TimerInv, DogsOwned
<1>k. ASSUME UNCHANGED wdVars, UNCHANGED timerVars,
             DogsOwned(active, wait', pt_owner)
      PROVE  TimerInv' /\ CountdownStep
  <2>1. W' = W /\ CountdownStep
    BY <1>k, DogsKept
  <2> QED BY <1>0, <1>a, <1>k, <1>v, <2>1 DEF TimerInv, timerVars
<1>s. ASSUME NEW D \in SUBSET Wdogs, NEW n, Stopped(W, n, D), WdBecomes(n),
             pt_delay' \in [Periodic -> Delays \cup {0}],
             DogsOwned(active \ D, wait', pt_owner')
      PROVE  TimerInv' /\ CountdownStep
  <2>1. /\ WdGood(W') /\ ~Expired(W') /\ Range(W'.list) = active \ D
        /\ CountdownStep
    BY <1>0, <1>s, StopStep
  <2> QED BY <1>a, <1>s, <1>v, <2>1 DEF TimerInv
<1>p. ASSUME NEW d \in Wdogs, NEW delay \in 0 .. INT32_MAX,
             WdBecomes(wd_start(W, d, delay)),
             pt_delay' \in [Periodic -> Delays \cup {0}],
             DogsOwned(active \cup {d}, wait', pt_owner')
      PROVE  TimerInv' /\ CountdownStep
  <2>1. /\ WdGood(W') /\ ~Expired(W') /\ Range(W'.list) = active \cup {d}
        /\ CountdownStep
    BY <1>0, <1>p, StartStep
  <2> QED BY <1>a, <1>p, <1>v, <2>1 DEF TimerInv
<1>c. ASSUME NEW d \in Wdogs
      PROVE  Stopped(W, wd_cancel(W, d), {d}) /\ {d} \in SUBSET Wdogs
  BY <1>0, CancelEffect
<1> HIDE DEF active
<1>1. CASE Lock(t) \/ Unlock(t) \/ sched_yield(t)
  <2>1. UNCHANGED <<wdVars, wait, timerVars>>
    BY <1>1 DEF Lock, Unlock, sched_yield
  <2> QED BY <1>0, <1>k, <2>1
<1>2. CASE Wait(t)
  <2>1. UNCHANGED <<wdVars, timerVars>> /\ wait' = [wait EXCEPT ![t] = "wait"] /\ wait[t] = "no"
    BY <1>2 DEF Wait, Runs, Executes
  <2>2. waitdog[t] \notin active /\ "wait" \in WaitStates
    BY <1>0, <2>1 DEF WaitStates
  <2>3. DogsOwned(active, [wait EXCEPT ![t] = "wait"], pt_owner)
    BY <1>0, <2>2, OwnedWait
  <2> QED BY <1>k, <2>1, <2>3
<1>3. CASE WaitReturns(t)
  <2>1. /\ wait' = [wait EXCEPT ![t] = "no"] /\ UNCHANGED timerVars
        /\ IF wait[t] = "timed" THEN WdBecomes(wd_cancel(W, waitdog[t]))
           ELSE UNCHANGED wdVars
    BY <1>3 DEF WaitReturns
  <2>2. "no" \in WaitStates
    BY DEF WaitStates
  <2>3. CASE wait[t] = "timed"
    <3>1. DogsOwned(active \ {waitdog[t]}, [wait EXCEPT ![t] = "no"], pt_owner)
      BY <1>0, <2>2, OwnedWait
    <3>2. WdBecomes(wd_cancel(W, waitdog[t]))
      BY <2>1, <2>3
    <3>3. DogsOwned(active \ {waitdog[t]}, wait', pt_owner')
          /\ pt_delay' \in [Periodic -> Delays \cup {0}]
      BY <1>0, <2>1, <3>1 DEF timerVars
    <3> QED BY <1>0, <1>c, <1>s, <3>2, <3>3
  <2>4. CASE wait[t] # "timed"
    <3>1. waitdog[t] \notin active
      BY <1>0, <2>4
    <3>2. DogsOwned(active, [wait EXCEPT ![t] = "no"], pt_owner)
      BY <1>0, <2>2, <3>1, OwnedWait
    <3> QED BY <1>k, <2>1, <2>4, <3>2
  <2> QED BY <2>3, <2>4
<1>4. CASE \E u \in Tasks, q \in Priorities : SetPriority(t, u, q)
  <2>1. UNCHANGED <<wdVars, wait, timerVars>>
    BY <1>4 DEF SetPriority
  <2> QED BY <1>0, <1>k, <2>1
<1>5. CASE \E delay \in Delays : nxsem_tickwait(t, delay)
  <2>1. PICK delay \in Delays : nxsem_tickwait(t, delay)
    BY <1>5
  <2>2. /\ WdBecomes(wd_start(W, waitdog[t], delay)) /\ UNCHANGED timerVars
        /\ wait' = [wait EXCEPT ![t] = "timed"] /\ delay \in 0 .. INT32_MAX
    BY <2>1, DogKinds DEF nxsem_tickwait
  <2>3. "timed" \in WaitStates
    BY DEF WaitStates
  <2>4. DogsOwned(active \cup {waitdog[t]}, [wait EXCEPT ![t] = "timed"], pt_owner)
    BY <1>0, <2>3, OwnedWait
  <2>5. DogsOwned(active \cup {waitdog[t]}, wait', pt_owner')
        /\ pt_delay' \in [Periodic -> Delays \cup {0}]
    BY <1>0, <2>2, <2>4 DEF timerVars
  <2> QED BY <1>0, <1>p, <2>2, <2>5
<1>6. CASE \E d \in Periodic : timer_create(t, d)
  <2>1. PICK d \in Periodic : timer_create(t, d)
    BY <1>6
  <2>2. /\ pt_owner' = [pt_owner EXCEPT ![d] = t] /\ pt_delay' = [pt_delay EXCEPT ![d] = 0]
        /\ UNCHANGED <<wdVars, wait>> /\ wait[t] = "no"
    BY <2>1 DEF timer_create, Runs, Executes
  <2>3. W' = W /\ CountdownStep
    BY <2>2, DogsKept
  <2>4. /\ pt_owner' \in [Periodic -> AllTasks] /\ pt_owner'[d] = t /\ t # idle
        /\ \A x \in Periodic : x # d => pt_owner'[x] = pt_owner[x]
        /\ pt_delay' \in [Periodic -> Delays \cup {0}]
    BY <1>0, <2>2, SchedTasks DEF AllTasks
  <2>5. DogsOwned(active, wait, pt_owner')
    BY <1>0, <2>2, <2>4 DEF DogsOwned
  <2> QED BY <1>0, <1>a, <1>v, <2>2, <2>3, <2>4, <2>5 DEF TimerInv, active
<1>7. CASE \E d \in Periodic : Disarm(t, d) \/ timer_settime(t, d)
  <2>1. PICK d \in Periodic : Disarm(t, d) \/ timer_settime(t, d)
    BY <1>7
  <2>2. WdBecomes(wd_cancel(W, d)) /\ UNCHANGED <<wait, pt_owner, pt_delay>> /\ d \in Wdogs
    BY <2>1, DogKinds DEF Disarm, timer_settime, timerVars
  <2>3. DogsOwned(active \ {d}, wait, pt_owner)
    BY <1>0, OwnedFewer
  <2>4. DogsOwned(active \ {d}, wait', pt_owner')
        /\ pt_delay' \in [Periodic -> Delays \cup {0}]
    BY <1>0, <2>2, <2>3
  <2> QED BY <1>c, <1>s, <2>2, <2>4
<1>8. CASE SettimeStep(t)
  <2>1. PICK d \in Periodic, ticks \in Delays \cup {0} :
          StorePeriod(t, d, ticks) \/ StartTimer(t, d, ticks)
    BY <1>8 DEF SettimeStep
  <2>2. CASE StorePeriod(t, d, ticks)
    <3>1. /\ UNCHANGED <<wdVars, wait, pt_owner>>
          /\ pt_delay' \in [Periodic -> Delays \cup {0}]
      BY <1>0, <2>2 DEF StorePeriod
    <3>2. W' = W /\ CountdownStep
      BY <3>1, DogsKept
    <3> QED BY <1>0, <1>a, <1>v, <3>1, <3>2 DEF TimerInv, active
  <2>3. CASE StartTimer(t, d, ticks)
    <3> DEFINE first == IF ticks > 0 THEN ticks ELSE pt_delay[d]
    <3>1. /\ UNCHANGED <<wait, pt_owner, pt_delay>> /\ setting[t] = <<"start", d>>
          /\ IF first > 0 THEN WdBecomes(wd_start(W, d, first)) ELSE UNCHANGED wdVars
      BY <2>3 DEF StartTimer
    <3>2. first \in 0 .. INT32_MAX /\ d \in Wdogs
      <4>1. pt_delay[d] \in Delays \cup {0}
        BY <1>0
      <4> QED BY <4>1, DogKinds
    <3>3. pt_delay' \in [Periodic -> Delays \cup {0}]
      BY <1>0, <3>1
    <3> HIDE DEF first
    <3>4. CASE first > 0
      <4>1. WdBecomes(wd_start(W, d, first))
        BY <3>1, <3>4
      <4>2. SharedTimers \/ pt_owner[d] = t
        BY <3>1 DEF SettingInv, SettingOwned
      <4>3. t # idle /\ \A u \in Tasks : waitdog[u] # d
        BY DogKinds, SchedTasks
      <4>4. DogsOwned(active \cup {d}, wait, pt_owner)
        BY <1>0, <4>2, <4>3 DEF DogsOwned
      <4>5. DogsOwned(active \cup {d}, wait', pt_owner')
        BY <3>1, <4>4
      <4> QED BY <1>p, <3>2, <3>3, <4>1, <4>5
    <3>5. CASE ~(first > 0)
      <4>1. UNCHANGED wdVars
        BY <3>1, <3>5
      <4>2. W' = W /\ CountdownStep
        BY <4>1, DogsKept
      <4> QED BY <1>0, <1>a, <1>v, <3>1, <3>3, <4>2 DEF TimerInv, active
    <3> QED BY <3>4, <3>5
  <2> QED BY <2>1, <2>2, <2>3
<1>9. CASE \E d \in Periodic : timer_delete(t, d)
  <2>1. PICK d \in Periodic : timer_delete(t, d)
    BY <1>9
  <2> DEFINE n == CancelLoop(W, SetToSeq({d}))[Cardinality({d})]
  <2>2. /\ UNCHANGED wait /\ WdBecomes(n)
        /\ pt_owner' = [x \in Periodic |-> IF x \in {d} THEN idle ELSE pt_owner[x]]
        /\ pt_delay' = [x \in Periodic |-> IF x \in {d} THEN 0 ELSE pt_delay[x]]
    BY <2>1 DEF timer_delete, timer_release
  <2>3. {d} \in SUBSET Wdogs
    BY DogKinds
  <2>4. Stopped(W, n, {d})
    BY <1>0, <2>3, CancelAll
  <2> HIDE DEF n
  <2>5. /\ pt_owner' \in [Periodic -> AllTasks] /\ pt_delay' \in [Periodic -> Delays \cup {0}]
        /\ \A x \in Periodic : pt_owner'[x] = IF x = d THEN idle ELSE pt_owner[x]
    BY <1>0, <2>2 DEF AllTasks
  <2>6. DogsOwned(active \ {d}, wait, pt_owner')
    BY <1>0, <2>5 DEF DogsOwned
  <2>7. DogsOwned(active \ {d}, wait', pt_owner')
    BY <2>2, <2>6
  <2> QED BY <1>s, <2>2, <2>3, <2>4, <2>5, <2>7
<1>10. CASE \E woken \in Woken : Exit(t, woken)
  <2>1. Released(t)
    BY <1>10 DEF Exit
  <2> QED BY <1>a, <1>v, <2>1, ReleaseStep
<1>11. CASE \E u \in Tasks : task_delete(t, u)
  <2>1. UNCHANGED <<wdVars, wait, timerVars>>
    BY <1>11 DEF task_delete
  <2> QED BY <1>0, <1>k, <2>1
<1>12. CASE Terminated(t)
  <2>1. Released(victim) /\ victim # idle
    BY <1>12 DEF Terminated
  <2>2. victim \in Tasks
    BY <1>v, <2>1 DEF AllTasks
  <2> QED BY <1>a, <1>v, <2>1, <2>2, ReleaseStep
<1> QED BY <1>1, <1>2, <1>3, <1>4, <1>5, <1>6, <1>7, <1>8, <1>9, <1>10, <1>11, <1>12
        DEF TaskStep

(***************************************************************************)
(* Every step keeps the invariant of the watchdogs and is a step of        *)
(* Countdown.                                                              *)
(***************************************************************************)
LEMMA TimerStep ==
  ASSUME TimerInv, SettingInv, [Next]_vars
  PROVE  TimerInv' /\ CountdownStep
<1> DEFINE active == Range(W.list)
<1>0. /\ WdGood(W) /\ (ticking <=> Expired(W)) /\ victim \in AllTasks
      /\ pt_delay \in [Periodic -> Delays \cup {0}]
      /\ DogsOwned(active, wait, pt_owner)
      /\ wait \in [Tasks -> WaitStates]
      /\ \A u \in Tasks : waitdog[u] \in active => wait[u] = "timed"
  BY DEF TimerInv, DogsOwned
<1>1. ASSUME NEW t \in Tasks, TaskStep(t) PROVE TimerInv' /\ CountdownStep
  BY <1>1, TaskTimerStep
<1>2. CASE UNCHANGED <<wdVars, wait, timerVars, victim, ticking>>
  <2>1. W' = W /\ CountdownStep
    BY <1>2, DogsKept
  <2> QED BY <1>0, <1>2, <2>1 DEF TimerInv, timerVars
<1>3. ASSUME NEW t \in Tasks, Post(t) PROVE TimerInv' /\ CountdownStep
  BY <1>2, <1>3 DEF Post, clockVars
<1>4. ASSUME NEW t \in Tasks, Create(t) PROVE TimerInv' /\ CountdownStep
  <2>1. /\ UNCHANGED <<wdVars, timerVars, victim, ticking>>
        /\ wait' = [wait EXCEPT ![t] = "no"] /\ wait[t] = "inactive"
    BY <1>4 DEF Create, clockVars
  <2>2. W' = W /\ CountdownStep
    BY <2>1, DogsKept
  <2>3. waitdog[t] \notin active /\ "no" \in WaitStates
    BY <1>0, <2>1 DEF WaitStates
  <2> HIDE DEF active
  <2>4. DogsOwned(active, [wait EXCEPT ![t] = "no"], pt_owner)
    BY <1>0, <2>3, OwnedWait
  <2>5. DogsOwned(Range(W'.list), wait', pt_owner')
    BY <2>1, <2>2, <2>4 DEF active, timerVars
  <2> QED BY <1>0, <2>1, <2>2, <2>5 DEF TimerInv, timerVars
<1>5. CASE Tick
  <2>1. /\ ~ticking /\ WdBecomes(Ticked(W)) /\ (ticking' <=> Expired(Ticked(W)))
        /\ UNCHANGED <<wait, timerVars, victim>>
    BY <1>5 DEF Tick, clock_timer, InterruptsOn
  <2>2. WdGood(W') /\ W' = Ticked(W) /\ W'.list = W.list /\ CountdownStep
    BY <1>0, <2>1, TickStep
  <2>3. DogsOwned(Range(W'.list), wait', pt_owner')
    BY <1>0, <2>1, <2>2 DEF timerVars
  <2> QED BY <1>0, <2>1, <2>2, <2>3 DEF TimerInv, timerVars
<1>6. CASE Expire
  <2> DEFINE d == Head(W.list)
             n == IF d \in Periodic /\ pt_delay[d] > 0
                  THEN wd_start(Removed(W), d, pt_delay[d]) ELSE Removed(W)
  <2>1. /\ ticking /\ WdBecomes(n) /\ (ticking' <=> Expired(n))
        /\ UNCHANGED <<wait, timerVars, victim>>
    BY <1>6, DogFields DEF Expire
  <2>2. \/ n = Removed(W)
        \/ \E delay \in 0 .. INT32_MAX : n = wd_start(Removed(W), Head(W.list), delay)
    <3>1. d \in Periodic => pt_delay[d] \in 0 .. INT32_MAX
      BY <1>0, DogKinds
    <3> QED BY <3>1
  <2> HIDE DEF n, d
  <2>3. /\ WdGood(W') /\ W' = n /\ CountdownStep
        /\ Range(n.list) \subseteq Range(W.list)
    BY <1>0, <2>1, <2>2, ExpireStep
  <2>4. DogsOwned(Range(n.list), wait, pt_owner)
    BY <1>0, <2>3, OwnedFewer
  <2>5. DogsOwned(Range(W'.list), wait', pt_owner')
    BY <2>1, <2>3, <2>4 DEF timerVars
  <2> QED BY <1>0, <2>1, <2>3, <2>5 DEF TimerInv, timerVars
<1>7. CASE UNCHANGED vars
  BY <1>2, <1>7 DEF vars, clockVars
<1> QED BY <1>1, <1>3, <1>4, <1>5, <1>6, <1>7 DEF Next

(***************************************************************************)
(* A task deletes only timers of its own, and none while it is in          *)
(* timer_settime; when it ends, so does its call.                          *)
(***************************************************************************)
LEMMA SettingStep ==
  ASSUME TimerInv, SettingInv, [Next]_vars
  PROVE  SettingInv'
<1> DEFINE Places == {<<>>} \cup ({"period", "start"} \X Periodic)
<1>0. /\ setting \in [Tasks -> Places] /\ idle \notin Tasks
      /\ pt_owner \in [Periodic -> AllTasks] /\ victim \in AllTasks
      /\ \A t \in Tasks, d \in Periodic :
           setting[t] = <<"period", d>> \/ setting[t] = <<"start", d>>
             => SharedTimers \/ pt_owner[d] = t
  BY SchedTasks DEF SettingInv, SettingOwned, TimerInv, DogsOwned
<1>1. CASE UNCHANGED timerVars
  BY <1>0, <1>1 DEF timerVars, SettingInv, SettingOwned
<1>2. ASSUME NEW t \in Tasks, NEW place \in Places, UNCHANGED pt_owner,
             setting' = [setting EXCEPT ![t] = place],
             \A d \in Periodic : place = <<"period", d>> \/ place = <<"start", d>>
               => SharedTimers \/ pt_owner[d] = t
      PROVE  SettingInv'
  <2>1. /\ setting' \in [Tasks -> Places] /\ setting'[t] = place
        /\ \A u \in Tasks : u # t => setting'[u] = setting[u]
    BY <1>0, <1>2
  <2> QED BY <1>0, <1>2, <2>1 DEF SettingInv, SettingOwned
<1>r. ASSUME NEW t \in Tasks, Released(t) PROVE SettingInv'
  <2>1. /\ setting' = [setting EXCEPT ![t] = <<>>]
        /\ pt_owner' = [d \in Periodic |->
                          IF d \in {e \in Periodic : pt_owner[e] = t} THEN idle ELSE pt_owner[d]]
    BY <1>r DEF Released, timer_release
  <2>2. /\ setting' \in [Tasks -> Places] /\ setting'[t] = <<>>
        /\ \A u \in Tasks : u # t => setting'[u] = setting[u]
        /\ \A d \in Periodic : pt_owner[d] # t => pt_owner'[d] = pt_owner[d]
    BY <1>0, <2>1
  <2>3. \A x, y : <<>> # <<x, y>>
    OBVIOUS
  <2>4. ASSUME NEW u \in Tasks, NEW d \in Periodic,
               setting'[u] = <<"period", d>> \/ setting'[u] = <<"start", d>>, ~SharedTimers
        PROVE  pt_owner'[d] = u
    <3>1. u # t
      BY <2>2, <2>3, <2>4
    <3> QED BY <1>0, <2>2, <2>4, <3>1
  <2> QED BY <2>2, <2>4 DEF SettingInv, SettingOwned
<1>3. ASSUME NEW t \in Tasks, TaskStep(t) PROVE SettingInv'
  <2>1. CASE \/ Lock(t) \/ Unlock(t) \/ sched_yield(t) \/ Wait(t) \/ WaitReturns(t)
             \/ \E u \in Tasks, p \in Priorities : SetPriority(t, u, p)
             \/ \E delay \in Delays : nxsem_tickwait(t, delay)
             \/ \E d \in Periodic : Disarm(t, d)
             \/ \E u \in Tasks : task_delete(t, u)
    BY <1>1, <2>1 DEF Lock, Unlock, sched_yield, Wait, WaitReturns, SetPriority,
                      nxsem_tickwait, Disarm, task_delete
  <2>2. CASE \E d \in Periodic : timer_create(t, d)
    <3>1. PICK d \in Periodic : timer_create(t, d)
      BY <2>2
    <3>2. /\ pt_owner[d] = idle /\ UNCHANGED setting
          /\ pt_owner' = [pt_owner EXCEPT ![d] = t]
      BY <3>1 DEF timer_create
    <3>3. \A e \in Periodic : e # d => pt_owner'[e] = pt_owner[e]
      BY <1>0, <3>2
    <3> QED BY <1>0, <3>2, <3>3 DEF SettingInv, SettingOwned
  <2>3. CASE \E d \in Periodic : timer_delete(t, d)
    <3>1. PICK d \in Periodic : timer_delete(t, d)
      BY <2>3
    <3>2. /\ setting[t] = <<>> /\ (SharedTimers \/ pt_owner[d] = t) /\ UNCHANGED setting
          /\ pt_owner' = [x \in Periodic |-> IF x \in {d} THEN idle ELSE pt_owner[x]]
      BY <3>1 DEF timer_delete, timer_release, MayUse, Runs
    <3>3. \A e \in Periodic : e # d => pt_owner'[e] = pt_owner[e]
      BY <1>0, <3>2
    <3>4. \A x, y : <<>> # <<x, y>>
      OBVIOUS
    <3>5. ASSUME NEW u \in Tasks, NEW e \in Periodic,
                 setting[u] = <<"period", e>> \/ setting[u] = <<"start", e>>, ~SharedTimers
          PROVE  pt_owner'[e] = u
      <4>1. u # t /\ pt_owner[e] = u
        BY <1>0, <3>2, <3>4, <3>5
      <4> QED BY <3>2, <3>3, <3>5, <4>1
    <3> QED BY <1>0, <3>2, <3>5 DEF SettingInv, SettingOwned
  <2>4. CASE \E d \in Periodic : timer_settime(t, d)
    <3>1. PICK d \in Periodic : timer_settime(t, d)
      BY <2>4
    <3>2. /\ SharedTimers \/ pt_owner[d] = t
          /\ UNCHANGED pt_owner /\ setting' = [setting EXCEPT ![t] = <<"period", d>>]
      BY <3>1 DEF timer_settime, MayUse
    <3>3. <<"period", d>> \in Places
      OBVIOUS
    <3>4. \A x, e : <<"period", d>> = <<x, e>> => e = d
      OBVIOUS
    <3> QED BY <1>2, <3>2, <3>3, <3>4
  <2>5. CASE SettimeStep(t)
    <3>1. PICK d \in Periodic, ticks \in Delays \cup {0} :
            StorePeriod(t, d, ticks) \/ StartTimer(t, d, ticks)
      BY <2>5 DEF SettimeStep
    <3>2. CASE StorePeriod(t, d, ticks)
      <4>1. /\ setting[t] = <<"period", d>> /\ UNCHANGED pt_owner
            /\ setting' = [setting EXCEPT ![t] = <<"start", d>>]
        BY <3>2 DEF StorePeriod
      <4>2. <<"start", d>> \in Places /\ (SharedTimers \/ pt_owner[d] = t)
        BY <1>0, <4>1
      <4>3. \A x, e : <<"start", d>> = <<x, e>> => e = d
        OBVIOUS
      <4> QED BY <1>2, <4>1, <4>2, <4>3
    <3>3. CASE StartTimer(t, d, ticks)
      <4>1. UNCHANGED pt_owner /\ setting' = [setting EXCEPT ![t] = <<>>]
        BY <3>3 DEF StartTimer
      <4>2. <<>> \in Places /\ \A x, y : <<>> # <<x, y>>
        OBVIOUS
      <4> QED BY <1>2, <4>1, <4>2
    <3> QED BY <3>1, <3>2, <3>3
  <2>6. CASE \E woken \in Woken : Exit(t, woken)
    BY <1>r, <2>6 DEF Exit
  <2>7. CASE Terminated(t)
    <3>1. Released(victim) /\ victim # idle
      BY <2>7 DEF Terminated
    <3> QED BY <1>0, <1>r, <3>1 DEF AllTasks
  <2> QED BY <1>3, <2>1, <2>2, <2>3, <2>4, <2>5, <2>6, <2>7 DEF TaskStep
<1>4. CASE UNCHANGED vars
  BY <1>1, <1>4 DEF vars
<1>5. CASE Tick \/ Expire \/ \E t \in Tasks : Post(t) \/ Create(t)
  BY <1>1, <1>5 DEF Tick, Expire, Post, Create
<1> QED BY <1>3, <1>4, <1>5 DEF Next

(***************************************************************************)
(* WDOG_ISACTIVE: the watchdog is in the list.                             *)
(***************************************************************************)
LEMMA ActiveIsListed ==
  ASSUME NEW w, NEW d
  PROVE  WDOG_ISACTIVE(w, d) <=> d \in Range(w.list)
BY DEF WDOG_ISACTIVE, PositionsOf, Range

(***************************************************************************)
(* NoStrayTimeout: the watchdog of a task is active only during its timed  *)
(* wait, also when tasks are deleted and exit while it runs, so that no    *)
(* nxsem_timeout of an earlier wait ends a later one.                      *)
(***************************************************************************)
THEOREM NoTimeoutStrays == Spec => []NoStrayTimeout
<1>1. Init => TimerInv /\ SettingInv
  BY TimerInit
<1>2. TimerInv /\ SettingInv /\ [Next]_vars => TimerInv' /\ SettingInv'
  BY TimerStep, SettingStep
<1>3. TimerInv => NoStrayTimeout
  BY ActiveIsListed DEF TimerInv, DogsOwned, NoStrayTimeout
<1> QED BY <1>1, <1>2, <1>3, PTL DEF Spec

(***************************************************************************)
(* TimersOwned: a POSIX timer that can expire was created by a task that   *)
(* lives, because nxsched_release_tcb deletes the timers of a task, and a  *)
(* task that ends between the steps of its timer_settime does not start    *)
(* the watchdog.  A task must not set or delete the timers of another: the *)
(* owner could end between the cancellation and the start.                 *)
(***************************************************************************)
THEOREM TimersHaveOwners == ~SharedTimers => (Spec => []TimersOwned)
<1> SUFFICES ASSUME ~SharedTimers PROVE Spec => []TimersOwned
  OBVIOUS
<1>1. Init => TimerInv /\ SettingInv
  BY TimerInit
<1>2. TimerInv /\ SettingInv /\ [Next]_vars => TimerInv' /\ SettingInv'
  BY TimerStep, SettingStep
<1>3. TimerInv => TimersOwned
  <2> SUFFICES ASSUME TimerInv, NEW d \in Periodic, WDOG_ISACTIVE(W, d)
               PROVE  pt_owner[d] \in Tasks /\ wait[pt_owner[d]] # "inactive"
    BY DEF TimersOwned
  <2>1. d \in Range(W.list)
    BY ActiveIsListed
  <2>2. pt_owner[d] # idle /\ pt_owner[d] \in AllTasks /\ wait[pt_owner[d]] # "inactive"
    BY <2>1 DEF TimerInv, DogsOwned
  <2> QED BY <2>2 DEF AllTasks
<1> QED BY <1>1, <1>2, <1>3, PTL DEF Spec

(***************************************************************************)
(* IsCountdown: the lags of wd_start, wd_cancel and wd_timer implement     *)
(* timers that expire at their tick and in the order of their start, for   *)
(* any number of watchdogs and all delays of 32 bits.                      *)
(***************************************************************************)
THEOREM WatchdogsCountDown == Spec => IsCountdown
<1>1. Init => TimerInv /\ SettingInv /\ CD!Init
  BY TimerInit
<1>2. TimerInv /\ SettingInv /\ [Next]_vars => TimerInv' /\ SettingInv'
  BY TimerStep, SettingStep
<1>3. TimerInv /\ SettingInv /\ [Next]_vars =>
        [CD!Next]_<<g_wdactivelist, [d \in Wdogs |-> wd_gettime(W, d)]>>
  BY TimerStep DEF CountdownStep
<1> QED BY <1>1, <1>2, <1>3, PTL DEF Spec, IsCountdown, CD!Spec
=============================================================================
