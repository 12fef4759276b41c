----------------------------- MODULE Countdown -----------------------------
(***************************************************************************)
(* What watchdog timers promise: a timer that was started with n ticks     *)
(* expires at the n-th tick, not earlier and not later, unless it is       *)
(* stopped or started again; timers that expire at the same tick run in    *)
(* the order in which they were started.                                   *)
(***************************************************************************)
EXTENDS PrioList

CONSTANTS Timers, MaxTicks

VARIABLES
    queue,   \* the started timers, in the order in which they will run
    left     \* ticks until a timer expires, 0 when it is not started

Init == queue = <<>> /\ left = [d \in Timers |-> 0]

\* The queue and the ticks with timer d started for n ticks, or not at all.
Started(q, l, d, n) ==
    /\ queue' = IF n = 0 THEN q
                ELSE InsertBefore(q, {i \in DOMAIN q : l[q[i]] > n}, d)
    /\ left' = [l EXCEPT ![d] = n]

Start(d, n) == Started(dq_rem(queue, d), left, d, n)

\* n is the queue q without the timers of D, the others in their order.
Without(q, D, n) ==
    /\ n \in Seq(Timers) /\ IsInjective(n) /\ Range(n) = Range(q) \ D
    /\ \A i, j \in DOMAIN n : i < j =>
         \E a, b \in DOMAIN q : a < b /\ q[a] = n[i] /\ q[b] = n[j]

\* Timers are stopped, all that a task has when it ends.
Stop(D) ==
    /\ Without(queue, D, queue')
    /\ left' = [d \in Timers |-> IF d \in D THEN 0 ELSE left[d]]

Due == queue # <<>> /\ left[Head(queue)] = 0

\* All timers count, once the ones that have expired have run.
Tick ==
    /\ ~Due
    /\ left' = [d \in Timers |-> IF left[d] > 0 THEN left[d] - 1 ELSE 0]
    /\ UNCHANGED queue

\* The first timer has expired and runs; it may start itself again.
Run(n) == Due /\ Started(Tail(queue), left, Head(queue), n)

Next ==
    \/ \E n \in 0..MaxTicks : Run(n) \/ (n > 0 /\ \E d \in Timers : Start(d, n))
    \/ \E D \in SUBSET Timers : Stop(D)
    \/ Tick

Spec == Init /\ [][Next]_<<queue, left>>
=============================================================================
