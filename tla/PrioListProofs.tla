--------------------------- MODULE PrioListProofs ---------------------------
(***************************************************************************)
(* What the list operations of PrioList do, position by position.          *)
(***************************************************************************)
EXTENDS PrioList, SequenceTheorems, WellFoundedInduction, FiniteSetTheorems, TLAPS

(***************************************************************************)
(* A non-empty set of natural numbers has a least element, so the search   *)
(* loops stop at a well-defined position.                                  *)
(***************************************************************************)
LEMMA MinProperties ==
  ASSUME NEW T \in SUBSET Nat, T # {}
  PROVE  /\ Min(T) \in T
         /\ \A j \in T : Min(T) <= j
<1>1. PICK x \in T : \A y \in T : ~ (<<y, x>> \in OpToRel(<, Nat))
  BY WFMin, NatLessThanWellFounded
<1>2. \A y \in T : x <= y
  <2>1. ASSUME NEW y \in T PROVE x <= y
    <3>1. y < x => <<y, x>> \in OpToRel(<, Nat)
      BY DEF OpToRel
    <3>2. ~(y < x)
      BY <1>1, <3>1
    <3>3. x \in Nat /\ y \in Nat
      OBVIOUS
    <3> QED BY <3>2, <3>3
  <2> QED BY <2>1
<1> QED BY <1>2 DEF Min

(***************************************************************************)
(* The list after an insertion, position by position (the pointer updates  *)
(* of sq_addafter, sq_addfirst and of the dq_ insertions).                 *)
(***************************************************************************)
IsInsertion(n, s, i, e, S) ==
    /\ n \in Seq(S) /\ Len(n) = Len(s) + 1
    /\ \A j \in 1 .. Len(s) + 1 :
         n[j] = IF j < i THEN s[j] ELSE IF j = i THEN e ELSE s[j - 1]

(***************************************************************************)
(* InsertAt shifts the entries from the place of the new one on.           *)
(***************************************************************************)
LEMMA InsertAtProperties ==
  ASSUME NEW S, NEW s \in Seq(S), NEW e \in S, NEW i \in 1 .. Len(s) + 1
  PROVE  IsInsertion(InsertAt(s, i, e), s, i, e, S)
<1> DEFINE a == SubSeq(s, 1, i - 1)
           b == SubSeq(s, i, Len(s))
           c == a \o <<e>>
<1>0. Len(s) \in Nat /\ i \in Nat /\ (\A k \in 1 .. Len(s) : s[k] \in S)
  BY ElementOfSeq, LenProperties
<1>1. /\ a \in Seq(S) /\ Len(a) = i - 1
      /\ \A k \in 1 .. i - 1 : a[k] = s[k]
  <2>1. \A k \in 1 .. i - 1 : s[k] \in S
    BY <1>0
  <2>2. /\ a \in Seq(S) /\ Len(a) = IF 1 <= i - 1 THEN (i - 1) - 1 + 1 ELSE 0
        /\ \A k \in 1 .. (i - 1) - 1 + 1 : a[k] = s[1 + k - 1]
    BY <2>1, <1>0, SubSeqProperties
  <2> QED BY <2>2, <1>0
<1>2. /\ b \in Seq(S) /\ Len(b) = Len(s) - i + 1
      /\ \A k \in 1 .. Len(s) - i + 1 : b[k] = s[i + k - 1]
  <2>1. \A k \in i .. Len(s) : s[k] \in S
    BY <1>0
  <2>2. /\ b \in Seq(S) /\ Len(b) = IF i <= Len(s) THEN Len(s) - i + 1 ELSE 0
        /\ \A k \in 1 .. Len(s) - i + 1 : b[k] = s[i + k - 1]
    BY <2>1, <1>0, SubSeqProperties
  <2> QED BY <2>2, <1>0
<1>3. <<e>> \in Seq(S) /\ Len(<<e>>) = 1 /\ <<e>>[1] = e
  OBVIOUS
<1> HIDE DEF a, b
<1>4. /\ c \in Seq(S) /\ Len(c) = i
      /\ \A k \in 1 .. i : c[k] = IF k < i THEN s[k] ELSE e
  <2>1. /\ c \in Seq(S) /\ Len(c) = Len(a) + Len(<<e>>)
        /\ \A k \in 1 .. Len(a) + Len(<<e>>) :
             c[k] = IF k <= Len(a) THEN a[k] ELSE <<e>>[k - Len(a)]
    BY <1>1, <1>3, ConcatProperties
  <2> HIDE DEF c
  <2> QED BY <2>1, <1>1, <1>3, <1>0
<1> HIDE DEF c
<1>5. /\ c \o b \in Seq(S) /\ Len(c \o b) = Len(c) + Len(b)
      /\ \A k \in 1 .. Len(c) + Len(b) :
           (c \o b)[k] = IF k <= Len(c) THEN c[k] ELSE b[k - Len(c)]
  BY <1>2, <1>4, ConcatProperties
<1>6. InsertAt(s, i, e) = c \o b
  BY DEF InsertAt, a, b, c
<1> QED
  <2> DEFINE d == c \o b
  <2>0. /\ d \in Seq(S) /\ Len(d) = Len(c) + Len(b)
        /\ \A k \in 1 .. Len(c) + Len(b) :
             d[k] = IF k <= Len(c) THEN c[k] ELSE b[k - Len(c)]
    BY <1>5
  <2> HIDE DEF d
  <2>1. Len(d) = Len(s) + 1
    BY <2>0, <1>4, <1>2, <1>0
  <2>2. ASSUME NEW j \in 1 .. Len(s) + 1
        PROVE  d[j] = IF j < i THEN s[j] ELSE IF j = i THEN e ELSE s[j - 1]
    <3>1. d[j] = IF j <= i THEN c[j] ELSE b[j - i]
      BY <2>0, <1>4, <1>2, <1>0
    <3>2. CASE j <= i
      BY <3>1, <3>2, <1>4, <1>0
    <3>3. CASE j > i
      <4>1. j - i \in 1 .. Len(s) - i + 1
        BY <3>3, <1>0
      <4>2. b[j - i] = s[i + (j - i) - 1]
        BY <4>1, <1>2
      <4> QED BY <3>1, <3>3, <4>2, <1>0
    <3> QED BY <3>2, <3>3, <1>0
  <2>3. InsertAt(s, i, e) = d
    BY <1>6 DEF d
  <2>4. IsInsertion(d, s, i, e, S)
    BY <2>0, <2>1, <2>2 DEF IsInsertion
  <2> QED BY <2>3, <2>4

(***************************************************************************)
(* The list after a removal, position by position (sq_remfirst, dq_rem).   *)
(***************************************************************************)
IsRemoval(n, s, i, S) ==
    /\ n \in Seq(S) /\ Len(n) = Len(s) - 1
    /\ \A j \in 1 .. Len(s) - 1 : n[j] = IF j < i THEN s[j] ELSE s[j + 1]

(***************************************************************************)
(* RemoveAt closes the gap it leaves.                                      *)
(***************************************************************************)
LEMMA RemoveAtProperties ==
  ASSUME NEW S, NEW s \in Seq(S), NEW i \in 1 .. Len(s)
  PROVE  IsRemoval(RemoveAt(s, i), s, i, S)
<1> DEFINE a == SubSeq(s, 1, i - 1)
           b == SubSeq(s, i + 1, Len(s))
<1>0. Len(s) \in Nat /\ i \in Nat /\ (\A k \in 1 .. Len(s) : s[k] \in S)
  BY ElementOfSeq, LenProperties
<1>1. /\ a \in Seq(S) /\ Len(a) = i - 1
      /\ \A k \in 1 .. i - 1 : a[k] = s[k]
  <2>1. \A k \in 1 .. i - 1 : s[k] \in S
    BY <1>0
  <2>2. /\ a \in Seq(S) /\ Len(a) = IF 1 <= i - 1 THEN (i - 1) - 1 + 1 ELSE 0
        /\ \A k \in 1 .. (i - 1) - 1 + 1 : a[k] = s[1 + k - 1]
    BY <2>1, <1>0, SubSeqProperties
  <2> QED BY <2>2, <1>0
<1>2. /\ b \in Seq(S) /\ Len(b) = Len(s) - i
      /\ \A k \in 1 .. Len(s) - i : b[k] = s[i + k]
  <2>1. \A k \in i + 1 .. Len(s) : s[k] \in S
    BY <1>0
  <2>2. /\ b \in Seq(S)
        /\ Len(b) = IF i + 1 <= Len(s) THEN Len(s) - (i + 1) + 1 ELSE 0
        /\ \A k \in 1 .. Len(s) - (i + 1) + 1 : b[k] = s[(i + 1) + k - 1]
    BY <2>1, <1>0, SubSeqProperties
  <2> QED BY <2>2, <1>0
<1> HIDE DEF a, b
<1>3. /\ a \o b \in Seq(S) /\ Len(a \o b) = Len(a) + Len(b)
      /\ \A k \in 1 .. Len(a) + Len(b) :
           (a \o b)[k] = IF k <= Len(a) THEN a[k] ELSE b[k - Len(a)]
  BY <1>1, <1>2, ConcatProperties
<1>4. RemoveAt(s, i) = a \o b
  BY DEF RemoveAt, a, b
<1> QED
  <2> DEFINE d == a \o b
  <2>0. /\ d \in Seq(S) /\ Len(d) = Len(a) + Len(b)
        /\ \A k \in 1 .. Len(a) + Len(b) :
             d[k] = IF k <= Len(a) THEN a[k] ELSE b[k - Len(a)]
    BY <1>3
  <2> HIDE DEF d
  <2>2. ASSUME NEW j \in 1 .. Len(s) - 1
        PROVE  d[j] = IF j < i THEN s[j] ELSE s[j + 1]
    <3>1. d[j] = IF j <= i - 1 THEN a[j] ELSE b[j - (i - 1)]
      BY <1>1, <1>2, <2>0, <1>0
    <3>2. CASE j < i
      BY <3>1, <3>2, <1>1, <1>0
    <3>3. CASE j >= i
      <4>1. j - (i - 1) \in 1 .. Len(s) - i
        BY <3>3, <1>0
      <4>2. b[j - (i - 1)] = s[i + (j - (i - 1))]
        BY <4>1, <1>2
      <4> QED BY <3>1, <3>3, <4>2, <1>0
    <3> QED BY <3>2, <3>3, <1>0
  <2>3. RemoveAt(s, i) = d
    BY <1>4 DEF d
  <2>4. Len(d) = Len(s) - 1
    BY <2>0, <1>1, <1>2, <1>0
  <2>5. IsRemoval(d, s, i, S)
    BY <2>0, <2>2, <2>4 DEF IsRemoval
  <2> QED BY <2>3, <2>5

(***************************************************************************)
(* The search loop of an insertion stops at the first lower position: all  *)
(* positions before it are not lower, and it is lower unless it is past    *)
(* the tail.                                                               *)
(***************************************************************************)
LEMMA InsertBeforePosition ==
  ASSUME NEW S, NEW s \in Seq(S), NEW e \in S, NEW lower \in SUBSET (1 .. Len(s))
  PROVE  \E i \in 1 .. Len(s) + 1 :
            /\ InsertBefore(s, lower, e) = InsertAt(s, i, e)
            /\ i <= Len(s) => i \in lower
            /\ \A j \in 1 .. i - 1 : j \notin lower
<1>0. Len(s) \in Nat
  BY LenProperties
<1>1. CASE lower = {}
  <2>1. InsertBefore(s, lower, e) = InsertAt(s, Len(s) + 1, e)
    BY <1>1 DEF InsertBefore
  <2> QED BY <2>1, <1>0, <1>1
<1>2. CASE lower # {}
  <2>1. lower \in SUBSET Nat
    BY <1>0
  <2>2. Min(lower) \in lower /\ \A j \in lower : Min(lower) <= j
    BY <2>1, <1>2, MinProperties
  <2>3. InsertBefore(s, lower, e) = InsertAt(s, Min(lower), e)
    BY <1>2 DEF InsertBefore
  <2>4. Min(lower) \in 1 .. Len(s) + 1
    <3>1. Min(lower) \in 1 .. Len(s)
      BY <2>2
    <3> QED BY <3>1, <1>0
  <2>5. \A j \in 1 .. Min(lower) - 1 : j \notin lower
    BY <2>2, <2>4, <1>0
  <2> QED BY <2>2, <2>3, <2>4, <2>5
<1> QED BY <1>1, <1>2

(***************************************************************************)
(* Together: the list after the search and the insertion.                  *)
(***************************************************************************)
LEMMA InsertBeforeProperties ==
  ASSUME NEW S, NEW s \in Seq(S), NEW e \in S, NEW lower \in SUBSET (1 .. Len(s))
  PROVE  \E k \in 1 .. Len(s) + 1 :
            /\ IsInsertion(InsertBefore(s, lower, e), s, k, e, S)
            /\ k <= Len(s) => k \in lower
            /\ \A j \in 1 .. k - 1 : j \notin lower
<1>1. PICK k \in 1 .. Len(s) + 1 :
             /\ InsertBefore(s, lower, e) = InsertAt(s, k, e)
             /\ k <= Len(s) => k \in lower
             /\ \A j \in 1 .. k - 1 : j \notin lower
  BY InsertBeforePosition
<1>2. IsInsertion(InsertAt(s, k, e), s, k, e, S)
  BY InsertAtProperties
<1> QED BY <1>1, <1>2

(***************************************************************************)
(* The search loop of a wake-up stops at the first matching position, and  *)
(* that entry is the one that is removed.                                  *)
(***************************************************************************)
LEMMA RemoveFirstOfPosition ==
  ASSUME NEW s, NEW matching \in SUBSET Nat, matching # {}
  PROVE  \E i \in matching :
            /\ FirstOf(s, matching) = s[i]
            /\ RemoveFirstOf(s, matching) = RemoveAt(s, i)
            /\ \A j \in matching : i <= j
BY MinProperties DEF FirstOf, RemoveFirstOf

(***************************************************************************)
(* dq_rem of an entry that is in the list removes one of its positions.    *)
(***************************************************************************)
LEMMA DqRemPosition ==
  ASSUME NEW S, NEW s \in Seq(S), NEW e
  PROVE  \/ /\ \A i \in 1 .. Len(s) : s[i] # e
            /\ dq_rem(s, e) = s
         \/ \E i \in 1 .. Len(s) : s[i] = e /\ dq_rem(s, e) = RemoveAt(s, i)
<1>0. DOMAIN s = 1 .. Len(s) /\ Len(s) \in Nat
  BY LenProperties
<1>1. CASE PositionsOf(s, e) = {}
  BY <1>0, <1>1 DEF dq_rem, PositionsOf
<1>2. CASE PositionsOf(s, e) # {}
  <2>1. PositionsOf(s, e) \in SUBSET Nat
    BY <1>0 DEF PositionsOf
  <2>2. PICK i \in PositionsOf(s, e) :
               RemoveFirstOf(s, PositionsOf(s, e)) = RemoveAt(s, i)
    BY <1>2, <2>1, RemoveFirstOfPosition
  <2>3. dq_rem(s, e) = RemoveAt(s, i)
    BY <1>2, <2>2 DEF dq_rem
  <2>4. i \in 1 .. Len(s) /\ s[i] = e
    BY <1>0 DEF PositionsOf
  <2> QED BY <2>3, <2>4
<1> QED BY <1>1, <1>2

(***************************************************************************)
(* A list of the members of M, each once, in descending order of P: the    *)
(* shape of every prioritized task list.                                   *)
(***************************************************************************)
Lists(s, M, P) ==
    /\ \A e \in M : \E i \in 1 .. Len(s) : s[i] = e
    /\ \A i \in 1 .. Len(s) : s[i] \in M
    /\ \A i, j \in 1 .. Len(s) : i < j => s[i] # s[j] /\ P[s[i]] >= P[s[j]]

(***************************************************************************)
(* nxsched_add_prioritized keeps a task list sorted and free of            *)
(* duplicates, and adds the task and nothing else.                         *)
(***************************************************************************)
LEMMA InsertKeepsList ==
  ASSUME NEW S, NEW s \in Seq(S), NEW P \in [S -> Nat], NEW M \in SUBSET S,
         NEW e \in S, e \notin M, Lists(s, M, P)
  PROVE  LET n == InsertBefore(s, {i \in DOMAIN s : P[s[i]] < P[e]}, e)
         IN  n \in Seq(S) /\ Lists(n, M \cup {e}, P)
<1> DEFINE lower == {i \in DOMAIN s : P[s[i]] < P[e]}
           n == InsertBefore(s, lower, e)
<1>0. /\ DOMAIN s = 1 .. Len(s) /\ Len(s) \in Nat
      /\ \A i \in 1 .. Len(s) : s[i] \in S
  BY LenProperties, ElementOfSeq
<1>1. lower \in SUBSET (1 .. Len(s))
  BY <1>0
<1>2. PICK k \in 1 .. Len(s) + 1 :
             /\ IsInsertion(n, s, k, e, S)
             /\ k <= Len(s) => k \in lower
             /\ \A j \in 1 .. k - 1 : j \notin lower
  <2> HIDE DEF lower
  <2> QED BY <1>1, InsertBeforeProperties
<1>3. /\ n \in Seq(S) /\ Len(n) = Len(s) + 1
      /\ \A j \in 1 .. Len(s) + 1 :
           n[j] = IF j < k THEN s[j] ELSE IF j = k THEN e ELSE s[j - 1]
  <2> HIDE DEF n, lower
  <2> QED BY <1>2 DEF IsInsertion
<1>4. \A j \in 1 .. k - 1 : P[s[j]] >= P[e]
  <2>1. ASSUME NEW j \in 1 .. k - 1 PROVE P[s[j]] >= P[e]
    <3>1. j \in 1 .. Len(s) /\ s[j] \in S
      BY <1>0
    <3>2. ~(P[s[j]] < P[e])
      BY <1>2, <3>1, <1>0
    <3>3. P[s[j]] \in Nat /\ P[e] \in Nat
      BY <3>1
    <3> QED BY <3>2, <3>3
  <2> QED BY <2>1
<1>5. \A j \in k .. Len(s) : P[e] >= P[s[j]]
  <2>1. ASSUME NEW j \in k .. Len(s) PROVE P[e] >= P[s[j]]
    <3>1. k \in lower /\ j \in 1 .. Len(s) /\ k \in 1 .. Len(s)
      BY <1>2, <1>0
    <3>2. P[s[k]] < P[e]
      BY <3>1
    <3>3. P[s[k]] >= P[s[j]]
      <4>1. CASE k = j
        BY <4>1, <3>1, <1>0
      <4>2. CASE k < j
        BY <4>2, <3>1 DEF Lists
      <4> QED BY <4>1, <4>2, <1>0
    <3>4. P[s[j]] \in Nat /\ P[e] \in Nat /\ P[s[k]] \in Nat
      BY <3>1, <1>0
    <3> QED BY <3>2, <3>3, <3>4
  <2> QED BY <2>1
<1>6. \A i \in 1 .. Len(s) : s[i] # e
  BY DEF Lists
<1> HIDE DEF n, lower
<1>7. \A x \in M \cup {e} : \E i \in 1 .. Len(n) : n[i] = x
  <2>1. \E i \in 1 .. Len(n) : n[i] = e
    BY <1>3, <1>0
  <2>2. ASSUME NEW x \in M PROVE \E i \in 1 .. Len(n) : n[i] = x
    <3>1. PICK i \in 1 .. Len(s) : s[i] = x
      BY DEF Lists
    <3>2. CASE i < k
      <4>1. i \in 1 .. Len(n) /\ n[i] = x
        BY <3>1, <3>2, <1>3, <1>0
      <4> QED BY <4>1
    <3>3. CASE i >= k
      <4>0. i + 1 \in 1 .. Len(s) + 1 /\ ~(i + 1 < k) /\ i + 1 # k
        BY <3>3, <1>0
      <4>1. n[i + 1] = s[(i + 1) - 1]
        BY <4>0, <1>3
      <4>2. (i + 1) - 1 = i
        OBVIOUS
      <4>3. i + 1 \in 1 .. Len(n)
        BY <4>0, <1>3
      <4> QED BY <4>1, <4>2, <4>3, <3>1
    <3> QED BY <3>2, <3>3, <1>0
  <2> QED BY <2>1, <2>2
<1>8. \A i \in 1 .. Len(n) : n[i] \in M \cup {e}
  <2>1. ASSUME NEW i \in 1 .. Len(n) PROVE n[i] \in M \cup {e}
    <3>1. CASE i < k
      <4>1. n[i] = s[i] /\ i \in 1 .. Len(s)
        BY <3>1, <1>3, <1>0
      <4> QED BY <4>1 DEF Lists
    <3>2. CASE i = k
      BY <3>2, <1>3, <1>0
    <3>3. CASE i > k
      <4>1. n[i] = s[i - 1] /\ i - 1 \in 1 .. Len(s)
        BY <3>3, <1>3, <1>0
      <4> QED BY <4>1 DEF Lists
    <3> QED BY <3>1, <3>2, <3>3, <1>0
  <2> QED BY <2>1
<1>9. ASSUME NEW i \in 1 .. Len(n), NEW j \in 1 .. Len(n), i < j
      PROVE  n[i] # n[j] /\ P[n[i]] >= P[n[j]]
  <2>1. CASE j < k
    <3>1. n[i] = s[i] /\ n[j] = s[j] /\ i \in 1 .. Len(s) /\ j \in 1 .. Len(s)
      BY <2>1, <1>9, <1>3, <1>0
    <3> QED BY <3>1, <1>9 DEF Lists
  <2>2. CASE j = k
    <3>1. n[i] = s[i] /\ n[j] = e /\ i \in 1 .. k - 1 /\ i \in 1 .. Len(s)
      BY <2>2, <1>9, <1>3, <1>0
    <3> QED BY <3>1, <1>4, <1>6
  <2>3. CASE j > k /\ i < k
    <3>1. n[i] = s[i] /\ n[j] = s[j - 1] /\ i \in 1 .. Len(s)
          /\ j - 1 \in 1 .. Len(s) /\ i < j - 1
      BY <2>3, <1>9, <1>3, <1>0
    <3> QED BY <3>1 DEF Lists
  <2>4. CASE j > k /\ i = k
    <3>1. n[i] = e /\ n[j] = s[j - 1] /\ j - 1 \in k .. Len(s)
          /\ j - 1 \in 1 .. Len(s)
      BY <2>4, <1>9, <1>3, <1>0
    <3> QED BY <3>1, <1>5, <1>6
  <2>5. CASE j > k /\ i > k
    <3>1. n[i] = s[i - 1] /\ n[j] = s[j - 1] /\ i - 1 \in 1 .. Len(s)
          /\ j - 1 \in 1 .. Len(s) /\ i - 1 < j - 1
      BY <2>5, <1>9, <1>3, <1>0
    <3> QED BY <3>1 DEF Lists
  <2>6. j < k \/ j = k \/ (j > k /\ i < k) \/ (j > k /\ i = k) \/ (j > k /\ i > k)
    BY <1>0, <1>3
  <2> QED BY <2>1, <2>2, <2>3, <2>4, <2>5, <2>6
<1> QED
  <2>1. Lists(n, M \cup {e}, P)
    BY <1>7, <1>8, <1>9 DEF Lists
  <2> QED BY <1>3, <2>1 DEF n, lower

(***************************************************************************)
(* Removing one position of a task list keeps it sorted and free of        *)
(* duplicates, and removes that task and no other.                         *)
(***************************************************************************)
LEMMA RemoveKeepsList ==
  ASSUME NEW S, NEW s \in Seq(S), NEW P \in [S -> Nat], NEW M \in SUBSET S,
         NEW k \in 1 .. Len(s), Lists(s, M, P)
  PROVE  RemoveAt(s, k) \in Seq(S) /\ Lists(RemoveAt(s, k), M \ {s[k]}, P)
<1> DEFINE n == RemoveAt(s, k)
<1>0. /\ DOMAIN s = 1 .. Len(s) /\ Len(s) \in Nat
      /\ \A i \in 1 .. Len(s) : s[i] \in S
  BY LenProperties, ElementOfSeq
<1>a. IsRemoval(n, s, k, S)
  BY RemoveAtProperties
<1> HIDE DEF n
<1>1. /\ n \in Seq(S) /\ Len(n) = Len(s) - 1
      /\ \A j \in 1 .. Len(s) - 1 : n[j] = IF j < k THEN s[j] ELSE s[j + 1]
  BY <1>a DEF IsRemoval
<1>2. ASSUME NEW i \in 1 .. Len(s), i # k PROVE s[i] # s[k]
  <2>1. i < k \/ k < i
    BY <1>2, <1>0
  <2> QED BY <2>1 DEF Lists
<1>3. \A x \in M \ {s[k]} : \E i \in 1 .. Len(n) : n[i] = x
  <2>1. ASSUME NEW x \in M, x # s[k] PROVE \E i \in 1 .. Len(n) : n[i] = x
    <3>1. PICK i \in 1 .. Len(s) : s[i] = x
      BY DEF Lists
    <3>2. CASE i < k
      <4>1. i \in 1 .. Len(n) /\ n[i] = x
        BY <3>1, <3>2, <1>1, <1>0
      <4> QED BY <4>1
    <3>3. CASE i > k
      <4>1. i - 1 \in 1 .. Len(n) /\ n[i - 1] = s[(i - 1) + 1]
        BY <3>3, <1>1, <1>0
      <4>2. (i - 1) + 1 = i
        BY <1>0
      <4> QED BY <4>1, <4>2, <3>1
    <3> QED BY <3>1, <3>2, <3>3, <2>1, <1>0
  <2> QED BY <2>1
<1>4. ASSUME NEW i \in 1 .. Len(n)
      PROVE  \E h \in 1 .. Len(s) : /\ n[i] = s[h] /\ h # k
                                    /\ h = IF i < k THEN i ELSE i + 1
  <2>0. i \in Nat /\ i >= 1 /\ i <= Len(s) - 1 /\ k \in Nat
    BY <1>1, <1>0
  <2>1. CASE i < k
    <3>1. i \in 1 .. Len(s) /\ n[i] = s[i] /\ i # k
      BY <2>0, <2>1, <1>1, <1>0
    <3> QED BY <3>1, <2>1
  <2>2. CASE ~(i < k)
    <3>1. i + 1 \in 1 .. Len(s) /\ n[i] = s[i + 1] /\ i + 1 # k
      BY <2>0, <2>2, <1>1, <1>0
    <3> QED BY <3>1, <2>2
  <2> QED BY <2>1, <2>2
<1>5. \A i \in 1 .. Len(n) : n[i] \in M \ {s[k]}
  BY <1>4, <1>2 DEF Lists
<1>6. ASSUME NEW i \in 1 .. Len(n), NEW j \in 1 .. Len(n), i < j
      PROVE  n[i] # n[j] /\ P[n[i]] >= P[n[j]]
  <2>1. PICK h \in 1 .. Len(s) : n[i] = s[h] /\ h = IF i < k THEN i ELSE i + 1
    BY <1>4
  <2>2. PICK g \in 1 .. Len(s) : n[j] = s[g] /\ g = IF j < k THEN j ELSE j + 1
    BY <1>4
  <2>3. h < g
    <3>1. i \in Nat /\ j \in Nat /\ k \in Nat
      BY <1>0, <1>1
    <3> QED BY <2>1, <2>2, <1>6, <3>1
  <2> QED BY <2>1, <2>2, <2>3 DEF Lists
<1>7. Lists(n, M \ {s[k]}, P)
  BY <1>3, <1>5, <1>6 DEF Lists
<1> QED BY <1>1, <1>7 DEF n

(***************************************************************************)
(* dq_rem of an entry takes it out of the list, or leaves a list in which  *)
(* it is not.                                                              *)
(***************************************************************************)
LEMMA DqRemLists ==
  ASSUME NEW S, NEW s \in Seq(S), NEW P \in [S -> Nat], NEW M \in SUBSET S, NEW e,
         Lists(s, M, P)
  PROVE  dq_rem(s, e) \in Seq(S) /\ Lists(dq_rem(s, e), M \ {e}, P)
<1>1. CASE /\ \A i \in 1 .. Len(s) : s[i] # e
           /\ dq_rem(s, e) = s
  <2>1. M \ {e} = M
    BY <1>1 DEF Lists
  <2> QED BY <1>1, <2>1
<1>2. CASE \E i \in 1 .. Len(s) : s[i] = e /\ dq_rem(s, e) = RemoveAt(s, i)
  <2>1. PICK i \in 1 .. Len(s) : s[i] = e /\ dq_rem(s, e) = RemoveAt(s, i)
    BY <1>2
  <2>2. RemoveAt(s, i) \in Seq(S) /\ Lists(RemoveAt(s, i), M \ {s[i]}, P)
    BY RemoveKeepsList
  <2> QED BY <2>1, <2>2
<1> QED BY <1>1, <1>2, DqRemPosition

(***************************************************************************)
(* The first match in a list is a best one, and it is taken out.           *)
(***************************************************************************)
LEMMA FirstMatchIsBest ==
  ASSUME NEW S, NEW s \in Seq(S), NEW P \in [S -> Nat], NEW M \in SUBSET S,
         NEW matching \in SUBSET (1 .. Len(s)), matching # {}, Lists(s, M, P)
  PROVE  \E b \in M :
            /\ b = FirstOf(s, matching)
            /\ \E i \in matching : s[i] = b
            /\ RemoveFirstOf(s, matching) \in Seq(S)
            /\ Lists(RemoveFirstOf(s, matching), M \ {b}, P)
            /\ \A j \in matching : P[s[j]] <= P[b]
<1>0. Len(s) \in Nat /\ \A i \in 1 .. Len(s) : s[i] \in S
  BY LenProperties, ElementOfSeq
<1>1. PICK i \in matching :
             /\ FirstOf(s, matching) = s[i]
             /\ RemoveFirstOf(s, matching) = RemoveAt(s, i)
             /\ \A j \in matching : i <= j
  <2>1. matching \in SUBSET Nat
    BY <1>0
  <2> QED BY <2>1, RemoveFirstOfPosition
<1>2. RemoveAt(s, i) \in Seq(S) /\ Lists(RemoveAt(s, i), M \ {s[i]}, P)
  BY RemoveKeepsList
<1>3. s[i] \in M
  BY DEF Lists
<1>4. ASSUME NEW j \in matching PROVE P[s[j]] <= P[s[i]]
  <2>1. i <= j /\ i \in 1 .. Len(s) /\ j \in 1 .. Len(s)
    BY <1>1
  <2>2. P[s[i]] \in Nat /\ P[s[j]] \in Nat
    BY <1>0, <2>1
  <2>3. CASE i = j
    BY <2>2, <2>3
  <2>4. CASE i < j
    BY <2>1, <2>2, <2>4 DEF Lists
  <2> QED BY <1>0, <2>1, <2>3, <2>4
<1> QED BY <1>1, <1>2, <1>3, <1>4
=============================================================================
