--------------------------- MODULE SemaphoreProofs --------------------------
(***************************************************************************)
(* What the operations of Semaphore do to the counts, the wait list and    *)
(* the waiting tasks, for every user of semaphores.                        *)
(***************************************************************************)
EXTENDS Semaphore, PrioListProofs

(***************************************************************************)
(* The values that SemState takes.                                         *)
(***************************************************************************)
SemStates ==
    [count : [Sems -> Int], list : Seq(Tasks),
     state : [Tasks -> {"READY", "WAIT_SEM", "INVALID"}],
     wait : [Tasks -> Sems \cup {NONE}]]

(***************************************************************************)
(* The tasks in the state of a wait, and those of them that wait for s.    *)
(***************************************************************************)
Waiting(r) == {t \in Tasks : r.state[t] = "WAIT_SEM"}
WaitersOf(r, s) == {t \in Waiting(r) : r.wait[t] = s}

(***************************************************************************)
(* The list enumerates the waiting tasks, but for the tasks X that are     *)
(* being deleted, and each of them waits for a semaphore.                  *)
(***************************************************************************)
Listed(r, X) ==
    /\ r \in SemStates
    /\ Lists(r.list, Waiting(r) \ X, Priority)
    /\ \A t \in Waiting(r) : r.wait[t] \in Sems

(***************************************************************************)
(* The type of the variables in terms of SemStates.                        *)
(***************************************************************************)
LEMMA SemStateType ==
  SemTypeOK <=> /\ SemState \in SemStates
                /\ errcode \in [Tasks -> {"OK", "EINTR", "ETIMEDOUT"}]
BY DEF SemTypeOK, SemState, SemStates

(***************************************************************************)
(* SemBecomes sets the variables to the fields of a value.                 *)
(***************************************************************************)
LEMMA SemBecomesState ==
  ASSUME NEW r \in SemStates, SemBecomes(r)
  PROVE  SemState' = r
BY DEF SemBecomes, SemState, SemStates

(***************************************************************************)
(* What one post does.  A waiting task gets the count exactly when the     *)
(* count was negative and a task waits in the list; it is a best one.      *)
(***************************************************************************)
Unblocked(r, n, s, b) ==
    n = [count |-> [r.count EXCEPT ![s] = @ + 1], list |-> n.list,
         state |-> [r.state EXCEPT ![b] = "READY"],
         wait |-> [r.wait EXCEPT ![b] = NONE]]

(***************************************************************************)
(* A post leaves the lists consistent, and has one of three effects: none  *)
(* at the largest count, one more in the count, or the best waiting task   *)
(* gets it.                                                                *)
(***************************************************************************)
LEMMA PostEffect ==
  ASSUME NEW r, NEW X, NEW s \in Sems, Listed(r, X)
  PROVE  /\ Listed(Posted(r, s), X)
         /\ \/ r.count[s] >= SEM_VALUE_MAX /\ Posted(r, s) = r
            \/ /\ r.count[s] < SEM_VALUE_MAX
               /\ r.count[s] >= 0 \/ WaitersOf(r, s) \subseteq X
               /\ Posted(r, s) = SetCount(r, s, r.count[s] + 1)
            \/ \E b \in WaitersOf(r, s) \ X :
                 /\ r.count[s] < 0 /\ Unblocked(r, Posted(r, s), s, b)
                 /\ \A u \in WaitersOf(r, s) \ X : Priority[u] <= Priority[b]
<1> DEFINE w == WaitingIn(r, s)
           n == Posted(r, s)
           M == Waiting(r) \ X
<1>0. /\ r \in SemStates /\ r.count \in [Sems -> Int] /\ r.list \in Seq(Tasks)
      /\ r.state \in [Tasks -> {"READY", "WAIT_SEM", "INVALID"}]
      /\ r.wait \in [Tasks -> Sems \cup {NONE}]
      /\ r.count[s] \in Int /\ SEM_VALUE_MAX \in Nat \ {0}
      /\ Priority \in [Tasks -> Nat] /\ NONE \notin Sems
      /\ Lists(r.list, M, Priority) /\ M \in SUBSET Tasks
      /\ \A t \in Waiting(r) : r.wait[t] \in Sems
  BY SemPriorities, SemMaximum, SemTasks DEF Listed, SemStates, Waiting
<1>1. DOMAIN r.list = 1 .. Len(r.list) /\ Len(r.list) \in Nat
  BY <1>0, LenProperties
<1>2. w \in SUBSET (1 .. Len(r.list))
  BY <1>1 DEF WaitingIn
<1>3. w = {} => WaitersOf(r, s) \subseteq X
  <2>1. ASSUME NEW t \in WaitersOf(r, s), t \notin X PROVE w # {}
    <3>1. t \in M /\ r.wait[t] = s
      BY <2>1 DEF WaitersOf
    <3>2. PICK i \in 1 .. Len(r.list) : r.list[i] = t
      BY <3>1, <1>0 DEF Lists
    <3> QED BY <3>1, <3>2, <1>1 DEF WaitingIn
  <2> QED BY <2>1
<1>4. CASE r.count[s] >= SEM_VALUE_MAX
  <2>1. n = r
    BY <1>4 DEF Posted
  <2> QED BY <1>4, <2>1
<1>5. CASE r.count[s] < SEM_VALUE_MAX /\ ~(r.count[s] + 1 <= 0 /\ w # {})
  <2>1. n = SetCount(r, s, r.count[s] + 1)
    BY <1>0, <1>5 DEF Posted
  <2>2. r.count[s] >= 0 \/ WaitersOf(r, s) \subseteq X
    BY <1>0, <1>3, <1>5
  <2>3. n \in SemStates /\ n.list = r.list /\ n.state = r.state /\ n.wait = r.wait
    BY <1>0, <2>1 DEF SemStates, SetCount
  <2>4. Listed(n, X)
    BY <1>0, <2>3 DEF Listed, Waiting
  <2> QED BY <1>5, <2>1, <2>2, <2>4
<1>6. CASE r.count[s] < SEM_VALUE_MAX /\ r.count[s] + 1 <= 0 /\ w # {}
  <2> HIDE DEF w, M
  <2>1. PICK b \in M :
              /\ b = FirstOf(r.list, w)
              /\ \E i \in w : r.list[i] = b
              /\ RemoveFirstOf(r.list, w) \in Seq(Tasks)
              /\ Lists(RemoveFirstOf(r.list, w), M \ {b}, Priority)
              /\ \A j \in w : Priority[r.list[j]] <= Priority[b]
    BY <1>0, <1>2, <1>6, FirstMatchIsBest
  <2> USE DEF w, M
  <2>2. n = [count |-> [r.count EXCEPT ![s] = @ + 1],
             list |-> RemoveFirstOf(r.list, w),
             state |-> [r.state EXCEPT ![b] = "READY"],
             wait |-> [r.wait EXCEPT ![b] = NONE]]
    BY <1>0, <1>6, <2>1 DEF Posted
  <2>3. b \in WaitersOf(r, s) \ X /\ b \in Tasks
    BY <2>1, <1>1 DEF WaitingIn, WaitersOf, Waiting
  <2>4. ASSUME NEW u \in WaitersOf(r, s) \ X PROVE Priority[u] <= Priority[b]
    <3>1. u \in M /\ r.wait[u] = s
      BY DEF WaitersOf
    <3>2. PICK j \in 1 .. Len(r.list) : r.list[j] = u
      BY <3>1, <1>0 DEF Lists
    <3>3. j \in w
      BY <3>1, <3>2, <1>1 DEF WaitingIn
    <3> QED BY <3>2, <3>3, <2>1
  <2> HIDE DEF n
  <2>5. n \in SemStates /\ Waiting(n) = Waiting(r) \ {b}
    BY <1>0, <2>1, <2>2, <2>3 DEF SemStates, Waiting
  <2>6. (Waiting(r) \ {b}) \ X = M \ {b}
    OBVIOUS
  <2>7. Listed(n, X)
    <3>1. n.list = RemoveFirstOf(r.list, w) /\ n.wait = [r.wait EXCEPT ![b] = NONE]
      BY <2>2
    <3>2. Lists(n.list, Waiting(n) \ X, Priority)
      BY <2>1, <2>5, <2>6, <3>1
    <3>3. \A t \in Waiting(n) : n.wait[t] \in Sems
      BY <1>0, <2>5, <3>1 DEF Waiting
    <3> QED BY <2>5, <3>2, <3>3 DEF Listed
  <2>8. Unblocked(r, n, s, b)
    BY <2>2 DEF Unblocked
  <2>9. r.count[s] < 0
    BY <1>0, <1>6
  <2>10. \A u \in WaitersOf(r, s) \ X : Priority[u] <= Priority[b]
    BY <2>4
  <2> QED BY <2>3, <2>7, <2>8, <2>9, <2>10, Zenon DEF n
<1> QED BY <1>0, <1>4, <1>5, <1>6

(***************************************************************************)
(* nxsem_post has the effect of Posted.                                    *)
(***************************************************************************)
LEMMA PostStates ==
  ASSUME NEW s \in Sems, NEW X, Listed(SemState, X)
  PROVE  nxsem_post(s) => SemState' = Posted(SemState, s)
<1>1. Posted(SemState, s) \in SemStates
  BY PostEffect DEF Listed
<1> QED BY <1>1, SemBecomesState DEF nxsem_post

(***************************************************************************)
(* The loop of nxsem_reset is well defined: every value follows from the   *)
(* one before by a post.                                                   *)
(***************************************************************************)
LEMMA PostLoopSteps ==
  ASSUME NEW r, NEW s, NEW p \in Nat
  PROVE  \A n \in 0 .. p :
            PostLoop(r, s, p)[n] =
              IF n = 0 THEN r ELSE Posted(PostLoop(r, s, p)[n - 1], s)
<1> DEFINE Loop(m, g) ==
             g = [n \in 0 .. m |-> IF n = 0 THEN r ELSE Posted(g[n - 1], s)]
           T == {m \in 0 .. p : ~ \E g : Loop(m, g)}
<1>1. T = {}
  <2> SUFFICES ASSUME T # {} PROVE FALSE
    OBVIOUS
  <2>1. T \in SUBSET Nat
    OBVIOUS
  <2> DEFINE m == Min(T)
  <2>2. m \in T /\ \A k \in T : m <= k
    <3> HIDE DEF T
    <3> QED BY <2>1, MinProperties
  <2> HIDE DEF m
  <2>3. m \in Nat /\ m <= p /\ ~ \E g : Loop(m, g)
    BY <2>2
  <2>4. CASE m = 0
    <3> DEFINE g == [n \in 0 .. 0 |-> r]
    <3>1. g = [n \in 0 .. 0 |-> IF n = 0 THEN r ELSE Posted(g[n - 1], s)]
      OBVIOUS
    <3> QED BY <2>3, <2>4, <3>1
  <2>5. CASE m > 0
    <3>1. m - 1 \in 0 .. p /\ m - 1 \notin T
      BY <2>2, <2>3, <2>5
    <3>2. PICK g : Loop(m - 1, g)
      BY <3>1
    <3> DEFINE h == [n \in 0 .. m |-> IF n = m THEN Posted(g[m - 1], s) ELSE g[n]]
    <3>3. ASSUME NEW n \in 0 .. m
          PROVE  h[n] = IF n = 0 THEN r ELSE Posted(h[n - 1], s)
      <4>1. CASE n = m
        <5>1. h[n] = Posted(g[m - 1], s) /\ n # 0
          BY <4>1, <2>3, <2>5
        <5>2. n - 1 \in 0 .. m /\ n - 1 # m /\ n - 1 = m - 1
          BY <4>1, <2>3, <2>5
        <5>3. h[n - 1] = g[m - 1]
          BY <5>2
        <5> QED BY <5>1, <5>3
      <4>2. CASE n # m
        <5>1. n \in 0 .. m - 1 /\ h[n] = g[n]
          BY <4>2, <2>3
        <5>2. g[n] = IF n = 0 THEN r ELSE Posted(g[n - 1], s)
          BY <3>2, <5>1
        <5>3. n # 0 => n - 1 \in 0 .. m /\ n - 1 # m
          BY <5>1, <2>3
        <5>4. n # 0 => h[n - 1] = g[n - 1]
          BY <5>3
        <5> QED BY <5>1, <5>2, <5>4
      <4> QED BY <4>1, <4>2
    <3>4. h = [n \in 0 .. m |-> h[n]]
      OBVIOUS
    <3> HIDE DEF h
    <3>5. h = [n \in 0 .. m |-> IF n = 0 THEN r ELSE Posted(h[n - 1], s)]
      BY <3>3, <3>4
    <3> QED BY <2>3, <3>5
  <2> QED BY <2>3, <2>4, <2>5
<1>2. p \in 0 .. p
  OBVIOUS
<1>3. \E g : Loop(p, g)
  BY <1>1, <1>2
<1>4. PostLoop(r, s, p) = CHOOSE g : Loop(p, g)
  BY DEF PostLoop
<1>5. Loop(p, PostLoop(r, s, p))
  <2> HIDE DEF Loop
  <2> QED BY <1>3, <1>4
<1> QED BY <1>5

(***************************************************************************)
(* What k posts do while the count is negative: the count grows by k, at   *)
(* most k tasks are unblocked, exactly k when the list holds all that the  *)
(* count says, and none that stays has a higher priority.                  *)
(***************************************************************************)
WokenIn(r, n) == Waiting(r) \ Waiting(n)
Balanced(r, s) == Cardinality(WaitersOf(r, s)) = - r.count[s]

PostedTimes(r, n, s, X, k) ==
    /\ Listed(n, X)
    /\ n.count = [r.count EXCEPT ![s] = @ + k]
    /\ Waiting(n) \subseteq Waiting(r) /\ WokenIn(r, n) \subseteq WaitersOf(r, s) \ X
    /\ \A t \in Tasks :
         IF t \in WokenIn(r, n) THEN n.state[t] = "READY"
         ELSE n.state[t] = r.state[t] /\ n.wait[t] = r.wait[t]
    /\ Cardinality(WaitersOf(n, s)) + k >= Cardinality(WaitersOf(r, s))
    /\ X = {} /\ Balanced(r, s) => Balanced(n, s)
    /\ \A t \in WokenIn(r, n), u \in WaitersOf(n, s) \ X : Priority[u] <= Priority[t]

(***************************************************************************)
(* The sets of waiting tasks are finite.                                   *)
(***************************************************************************)
LEMMA WaitersFinite ==
  ASSUME NEW r, NEW s
  PROVE  IsFiniteSet(WaitersOf(r, s)) /\ Cardinality(WaitersOf(r, s)) \in Nat
<1>1. WaitersOf(r, s) \in SUBSET Tasks
  BY DEF WaitersOf, Waiting
<1>2. IsFiniteSet(WaitersOf(r, s))
  BY <1>1, SemTasks, FS_Subset
<1> QED BY <1>2, FS_CardinalityType

(***************************************************************************)
(* A value is the effect of no post on itself.                             *)
(***************************************************************************)
LEMMA PostedNever ==
  ASSUME NEW r, NEW X, NEW s \in Sems, Listed(r, X)
  PROVE  PostedTimes(r, r, s, X, 0)
<1>1. r.count \in [Sems -> Int]
  BY DEF Listed, SemStates
<1>2. r.count = [r.count EXCEPT ![s] = @ + 0]
  BY <1>1
<1>3. WokenIn(r, r) = {}
  BY DEF WokenIn
<1>4. Cardinality(WaitersOf(r, s)) + 0 >= Cardinality(WaitersOf(r, s))
  BY WaitersFinite
<1> QED BY <1>2, <1>3, <1>4 DEF PostedTimes

(***************************************************************************)
(* One more post.                                                          *)
(***************************************************************************)
LEMMA PostedOnceMore ==
  ASSUME NEW r, NEW n, NEW X, NEW s \in Sems, NEW k \in Nat,
         Listed(r, X), PostedTimes(r, n, s, X, k), r.count[s] + k < 0
  PROVE  PostedTimes(r, Posted(n, s), s, X, k + 1)
<1> DEFINE m == Posted(n, s)
<1>0. /\ Listed(n, X) /\ n.count[s] = r.count[s] + k /\ n.count[s] < 0
      /\ r.count \in [Sems -> Int] /\ n \in SemStates /\ SEM_VALUE_MAX \in Nat
      /\ n.count \in [Sems -> Int]
      /\ n.state \in [Tasks -> {"READY", "WAIT_SEM", "INVALID"}]
      /\ n.wait \in [Tasks -> Sems \cup {NONE}]
  BY SemMaximum DEF PostedTimes, Listed, SemStates
<1>1. /\ Listed(m, X)
      /\ \/ WaitersOf(n, s) \subseteq X /\ m = SetCount(n, s, n.count[s] + 1)
         \/ \E b \in WaitersOf(n, s) \ X :
              /\ Unblocked(n, m, s, b)
              /\ \A u \in WaitersOf(n, s) \ X : Priority[u] <= Priority[b]
  <2>1. ~(n.count[s] >= SEM_VALUE_MAX) /\ ~(n.count[s] >= 0)
    BY <1>0
  <2> HIDE DEF m
  <2> QED BY <1>0, <2>1, PostEffect DEF m
<1> HIDE DEF m
<1>2. m.count = [n.count EXCEPT ![s] = @ + 1]
  BY <1>1 DEF SetCount, Unblocked
<1>3. m.count = [r.count EXCEPT ![s] = @ + (k + 1)]
  <2>1. n.count = [r.count EXCEPT ![s] = @ + k]
    BY DEF PostedTimes
  <2>2. \A x \in Sems : m.count[x] = IF x = s THEN r.count[s] + (k + 1) ELSE r.count[x]
    BY <1>0, <1>2, <2>1
  <2>3. m.count = [x \in Sems |-> m.count[x]]
    BY <1>0, <1>2
  <2> QED BY <1>0, <2>2, <2>3
<1>4. ASSUME WaitersOf(n, s) \subseteq X, m = SetCount(n, s, n.count[s] + 1)
      PROVE  PostedTimes(r, m, s, X, k + 1)
  <2>1. m.state = n.state /\ m.wait = n.wait
    BY <1>4 DEF SetCount
  <2>2. Waiting(m) = Waiting(n) /\ WaitersOf(m, s) = WaitersOf(n, s)
        /\ WokenIn(r, m) = WokenIn(r, n)
    BY <2>1 DEF Waiting, WaitersOf, WokenIn
  <2>3. Cardinality(WaitersOf(m, s)) + (k + 1) >= Cardinality(WaitersOf(r, s))
    BY <2>2, WaitersFinite DEF PostedTimes
  <2>4. X = {} => ~Balanced(r, s)
    <3> SUFFICES ASSUME X = {}, Balanced(r, s) PROVE FALSE
      OBVIOUS
    <3>1. WaitersOf(n, s) = {}
      BY <1>4
    <3>2. Cardinality(WaitersOf(n, s)) = - n.count[s]
      BY DEF PostedTimes, Balanced
    <3> QED BY <1>0, <3>1, <3>2, FS_EmptySet
  <2> QED BY <1>1, <1>3, <2>1, <2>2, <2>3, <2>4 DEF PostedTimes
<1>5. ASSUME NEW b \in WaitersOf(n, s) \ X, Unblocked(n, m, s, b),
             \A u \in WaitersOf(n, s) \ X : Priority[u] <= Priority[b]
      PROVE  PostedTimes(r, m, s, X, k + 1)
  <2>1. /\ m.state = [n.state EXCEPT ![b] = "READY"]
        /\ m.wait = [n.wait EXCEPT ![b] = NONE]
    BY <1>5 DEF Unblocked
  <2>2. b \in Tasks /\ b \in Waiting(n) /\ b \in Waiting(r) /\ n.wait[b] = s
    BY DEF WaitersOf, Waiting, PostedTimes
  <2>3. Waiting(m) = Waiting(n) \ {b} /\ WaitersOf(m, s) = WaitersOf(n, s) \ {b}
    BY <1>0, <2>1, <2>2 DEF Waiting, WaitersOf
  <2>4. WokenIn(r, m) = WokenIn(r, n) \cup {b}
    BY <2>2, <2>3 DEF WokenIn
  <2>5. b \in WaitersOf(r, s)
    <3>1. b \notin WokenIn(r, n)
      BY <2>2 DEF WokenIn
    <3>2. r.wait[b] = n.wait[b]
      BY <2>2, <3>1 DEF PostedTimes
    <3> QED BY <2>2, <3>2 DEF WaitersOf
  <2>6. ASSUME NEW t \in Tasks
        PROVE  IF t \in WokenIn(r, m) THEN m.state[t] = "READY"
               ELSE m.state[t] = r.state[t] /\ m.wait[t] = r.wait[t]
    BY <1>0, <2>1, <2>4 DEF PostedTimes
  <2>7. Cardinality(WaitersOf(m, s)) = Cardinality(WaitersOf(n, s)) - 1
    BY <2>3, WaitersFinite, FS_RemoveElement
  <2>8. Cardinality(WaitersOf(m, s)) + (k + 1) >= Cardinality(WaitersOf(r, s))
    <3>1. Cardinality(WaitersOf(n, s)) + k >= Cardinality(WaitersOf(r, s))
      BY DEF PostedTimes
    <3> QED BY <2>7, <3>1, WaitersFinite
  <2>9. X = {} /\ Balanced(r, s) => Balanced(m, s)
    <3>1. X = {} /\ Balanced(r, s) => Cardinality(WaitersOf(n, s)) = - n.count[s]
      BY DEF PostedTimes, Balanced
    <3>2. m.count[s] = n.count[s] + 1
      BY <1>0, <1>2
    <3> QED BY <1>0, <2>7, <3>1, <3>2, WaitersFinite DEF Balanced
  <2>10. ASSUME NEW t \in WokenIn(r, m), NEW u \in WaitersOf(m, s) \ X
         PROVE  Priority[u] <= Priority[t]
    BY <1>5, <2>3, <2>4 DEF PostedTimes
  <2>11. Waiting(m) \subseteq Waiting(r) /\ WokenIn(r, m) \subseteq WaitersOf(r, s) \ X
    BY <1>5, <2>3, <2>4, <2>5 DEF PostedTimes
  <2> QED BY <1>1, <1>3, <2>6, <2>8, <2>9, <2>10, <2>11 DEF PostedTimes
<1>6. PostedTimes(r, m, s, X, k + 1)
  BY <1>1, <1>4, <1>5
<1> QED BY <1>6 DEF m

(***************************************************************************)
(* The loop of nxsem_reset, which stops when the count is 0, makes as many *)
(* posts as its bound says.                                                *)
(***************************************************************************)
LEMMA PostLoopEffect ==
  ASSUME NEW r, NEW X, NEW s \in Sems, NEW p \in Nat, Listed(r, X),
         p = 0 \/ r.count[s] + p <= 0
  PROVE  PostedTimes(r, PostLoop(r, s, p)[p], s, X, p)
<1> DEFINE f == PostLoop(r, s, p)
           T == {k \in 0 .. p : ~PostedTimes(r, f[k], s, X, k)}
<1>1. \A n \in 0 .. p : f[n] = IF n = 0 THEN r ELSE Posted(f[n - 1], s)
  BY PostLoopSteps
<1>2. r.count[s] \in Int
  BY DEF Listed, SemStates
<1> HIDE DEF f
<1>3. T = {}
  <2> SUFFICES ASSUME T # {} PROVE FALSE
    OBVIOUS
  <2>1. T \in SUBSET Nat
    OBVIOUS
  <2> DEFINE m == Min(T)
  <2>2. m \in T /\ \A k \in T : m <= k
    <3> HIDE DEF T
    <3> QED BY <2>1, MinProperties
  <2> HIDE DEF m
  <2>3. m \in 0 .. p /\ ~PostedTimes(r, f[m], s, X, m)
    BY <2>2
  <2>4. CASE m = 0
    BY <1>1, <2>3, <2>4, PostedNever
  <2>5. CASE m # 0
    <3>1. m - 1 \in Nat /\ m - 1 \in 0 .. p /\ m - 1 \notin T /\ (m - 1) + 1 = m
      BY <2>2, <2>3, <2>5
    <3>2. PostedTimes(r, f[m - 1], s, X, m - 1)
      BY <3>1
    <3>3. r.count[s] + (m - 1) < 0
      BY <1>2, <2>3, <2>5
    <3>4. PostedTimes(r, Posted(f[m - 1], s), s, X, (m - 1) + 1)
      BY <3>1, <3>2, <3>3, PostedOnceMore
    <3>5. f[m] = Posted(f[m - 1], s)
      BY <1>1, <2>3, <2>5
    <3> QED BY <2>3, <3>1, <3>4, <3>5
  <2> QED BY <2>4, <2>5
<1>4. p \in 0 .. p
  OBVIOUS
<1> QED BY <1>3, <1>4 DEF f

(***************************************************************************)
(* The three other operations, as values: a wait that takes a count, one   *)
(* that blocks, and the end of a wait by a signal or a timeout.            *)
(***************************************************************************)
Taken(r, t, s) ==
    [count |-> [r.count EXCEPT ![s] = @ - 1], list |-> r.list,
     state |-> r.state, wait |-> [r.wait EXCEPT ![t] = NONE]]
Blocked(r, t, s) ==
    [count |-> [r.count EXCEPT ![s] = @ - 1],
     list |-> nxsched_add_prioritized(r.list, t),
     state |-> [r.state EXCEPT ![t] = "WAIT_SEM"],
     wait |-> [r.wait EXCEPT ![t] = s]]
Ended(r, t) ==
    [count |-> [r.count EXCEPT ![r.wait[t]] = @ + 1],
     list |-> dq_rem(r.list, t),
     state |-> [r.state EXCEPT ![t] = "READY"],
     wait |-> [r.wait EXCEPT ![t] = NONE]]

(***************************************************************************)
(* TakeCount, BlockOn and nxsem_wait_irq have these effects.               *)
(***************************************************************************)
LEMMA WaitStates ==
  ASSUME NEW t \in Tasks, NEW s \in Sems
  PROVE  /\ TakeCount(t, s) => SemState' = Taken(SemState, t, s)
         /\ BlockOn(t, s) => SemState' = Blocked(SemState, t, s)
         /\ \A code : nxsem_wait_irq(t, code) => SemState' = Ended(SemState, t)
BY DEF TakeCount, BlockOn, nxsem_wait_irq, SemState, Taken, Blocked, Ended

(***************************************************************************)
(* A task that does not wait and takes a count leaves the list alone.      *)
(***************************************************************************)
LEMMA TakeEffect ==
  ASSUME NEW r, NEW X, NEW s \in Sems, NEW t \in Tasks, Listed(r, X),
         t \notin Waiting(r)
  PROVE  /\ Listed(Taken(r, t, s), X)
         /\ \A x \in Sems : WaitersOf(Taken(r, t, s), x) = WaitersOf(r, x)
<1> DEFINE n == Taken(r, t, s)
<1>1. /\ r.count \in [Sems -> Int] /\ r.list \in Seq(Tasks)
      /\ r.state \in [Tasks -> {"READY", "WAIT_SEM", "INVALID"}]
      /\ r.wait \in [Tasks -> Sems \cup {NONE}]
  BY DEF Listed, SemStates
<1>2. n \in SemStates
  BY <1>1 DEF SemStates, Taken
<1>3. n.list = r.list /\ n.state = r.state /\ n.wait = [r.wait EXCEPT ![t] = NONE]
  BY DEF Taken
<1> HIDE DEF n
<1>4. Waiting(n) = Waiting(r) /\ \A u \in Waiting(r) : n.wait[u] = r.wait[u]
  BY <1>1, <1>3 DEF Waiting
<1>5. Listed(n, X)
  BY <1>2, <1>3, <1>4 DEF Listed
<1>6. \A x \in Sems : WaitersOf(n, x) = WaitersOf(r, x)
  BY <1>4 DEF WaitersOf
<1> QED BY <1>5, <1>6 DEF n

(***************************************************************************)
(* A task that blocks joins the list and the waiters of its semaphore.     *)
(***************************************************************************)
LEMMA BlockEffect ==
  ASSUME NEW r, NEW X, NEW s \in Sems, NEW t \in Tasks, Listed(r, X),
         t \notin Waiting(r), t \notin X
  PROVE  /\ Listed(Blocked(r, t, s), X)
         /\ \A x \in Sems : WaitersOf(Blocked(r, t, s), x) =
                             IF x = s THEN WaitersOf(r, x) \cup {t} ELSE WaitersOf(r, x)
<1> DEFINE n == Blocked(r, t, s)
           M == Waiting(r) \ X
<1>1. /\ r.count \in [Sems -> Int] /\ r.list \in Seq(Tasks)
      /\ r.state \in [Tasks -> {"READY", "WAIT_SEM", "INVALID"}]
      /\ r.wait \in [Tasks -> Sems \cup {NONE}]
      /\ Lists(r.list, M, Priority) /\ Priority \in [Tasks -> Nat]
      /\ M \in SUBSET Tasks /\ t \notin M
      /\ \A u \in Waiting(r) : r.wait[u] \in Sems
  BY SemPriorities DEF Listed, SemStates, Waiting
<1>2. /\ nxsched_add_prioritized(r.list, t) \in Seq(Tasks)
      /\ Lists(nxsched_add_prioritized(r.list, t), M \cup {t}, Priority)
  <2> HIDE DEF M
  <2> QED BY <1>1, InsertKeepsList DEF nxsched_add_prioritized
<1>3. n \in SemStates
  BY <1>1, <1>2 DEF SemStates, Blocked
<1>4. /\ n.list = nxsched_add_prioritized(r.list, t)
      /\ n.state = [r.state EXCEPT ![t] = "WAIT_SEM"]
      /\ n.wait = [r.wait EXCEPT ![t] = s]
  BY DEF Blocked
<1> HIDE DEF n
<1>5. Waiting(n) = Waiting(r) \cup {t}
  BY <1>1, <1>4 DEF Waiting
<1>6. /\ n.wait[t] = s
      /\ \A u \in Waiting(r) : u # t /\ n.wait[u] = r.wait[u]
  BY <1>1, <1>4 DEF Waiting
<1>7. Listed(n, X)
  <2>1. Waiting(n) \ X = M \cup {t}
    BY <1>5
  <2>2. Lists(n.list, Waiting(n) \ X, Priority)
    BY <1>2, <1>4, <2>1
  <2>3. \A u \in Waiting(n) : n.wait[u] \in Sems
    BY <1>1, <1>5, <1>6
  <2> QED BY <1>3, <2>2, <2>3 DEF Listed
<1>8. WaitersOf(n, s) = WaitersOf(r, s) \cup {t}
  BY <1>5, <1>6 DEF WaitersOf
<1>9. \A x \in Sems \ {s} : WaitersOf(n, x) = WaitersOf(r, x)
  BY <1>5, <1>6 DEF WaitersOf
<1> QED BY <1>7, <1>8, <1>9 DEF n

(***************************************************************************)
(* A task whose wait ends leaves the list and the waiters.                 *)
(***************************************************************************)
LEMMA EndEffect ==
  ASSUME NEW r, NEW X, NEW t \in Tasks, Listed(r, X), t \in Waiting(r)
  PROVE  /\ Listed(Ended(r, t), X)
         /\ r.wait[t] \in Sems
         /\ \A x \in Sems : WaitersOf(Ended(r, t), x) = WaitersOf(r, x) \ {t}
<1> DEFINE n == Ended(r, t)
           M == Waiting(r) \ X
<1>1. /\ r.count \in [Sems -> Int] /\ r.list \in Seq(Tasks)
      /\ r.state \in [Tasks -> {"READY", "WAIT_SEM", "INVALID"}]
      /\ r.wait \in [Tasks -> Sems \cup {NONE}]
      /\ Lists(r.list, M, Priority) /\ Priority \in [Tasks -> Nat]
      /\ M \in SUBSET Tasks /\ r.wait[t] \in Sems
      /\ \A u \in Waiting(r) : r.wait[u] \in Sems
  BY SemPriorities DEF Listed, SemStates, Waiting
<1>2. dq_rem(r.list, t) \in Seq(Tasks) /\ Lists(dq_rem(r.list, t), M \ {t}, Priority)
  <2> HIDE DEF M
  <2> QED BY <1>1, DqRemLists
<1>3. n \in SemStates
  BY <1>1, <1>2 DEF SemStates, Ended
<1>4. /\ n.list = dq_rem(r.list, t)
      /\ n.state = [r.state EXCEPT ![t] = "READY"]
      /\ n.wait = [r.wait EXCEPT ![t] = NONE]
  BY DEF Ended
<1> HIDE DEF n
<1>5. Waiting(n) = Waiting(r) \ {t}
  BY <1>1, <1>4 DEF Waiting
<1>6. \A u \in Waiting(n) : n.wait[u] = r.wait[u]
  BY <1>1, <1>4, <1>5 DEF Waiting
<1>7. Listed(n, X)
  <2>1. Waiting(n) \ X = M \ {t}
    BY <1>5
  <2>2. Lists(n.list, Waiting(n) \ X, Priority)
    BY <1>2, <1>4, <2>1
  <2>3. \A u \in Waiting(n) : n.wait[u] \in Sems
    BY <1>1, <1>5, <1>6
  <2> QED BY <1>3, <2>2, <2>3 DEF Listed
<1>8. \A x \in Sems : WaitersOf(n, x) = WaitersOf(r, x) \ {t}
  BY <1>5, <1>6 DEF WaitersOf
<1> QED BY <1>1, <1>7, <1>8 DEF n
=============================================================================
