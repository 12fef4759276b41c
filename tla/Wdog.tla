------------------------------- MODULE Wdog --------------------------------
(***************************************************************************)
(* Watchdog timers (sched/wdog): a list in the order of expiry in which    *)
(* each watchdog holds the ticks from the one before it.  The operators    *)
(* make a new list and lags of the ones they are given; wd_expiration runs *)
(* the functions of the watchdogs, which is up to the user of this module. *)
(***************************************************************************)
EXTENDS PrioList

CONSTANTS
    Wdogs,          \* the watchdogs
    INT32_MAX       \* the longest delay

ASSUME WdogsAssumption == IsFiniteSet(Wdogs) /\ INT32_MAX \in Nat \ {0}

VARIABLES
    g_wdactivelist,   \* the active watchdogs
    lag               \* of a watchdog; 0 and not read when it is not active

wdVars == <<g_wdactivelist, lag>>

WdTypeOK == g_wdactivelist \in Seq(Wdogs) /\ lag \in [Wdogs -> 0..INT32_MAX]

W == [list |-> g_wdactivelist, lag |-> lag]
WdBecomes(w) == g_wdactivelist' = w.list /\ lag' = w.lag

-----------------------------------------------------------------------------
WDOG_ISACTIVE(w, d) == PositionsOf(w.list, d) # {}

\* The sums of the lags: when the watchdog at each position expires.
Expiry(w) ==
    LET sum[i \in 0..Len(w.list)] ==
          IF i = 0 THEN 0 ELSE sum[i - 1] + w.lag[w.list[i]]
    IN  sum

wd_gettime(w, d) ==
    IF WDOG_ISACTIVE(w, d) THEN Expiry(w)[Min(PositionsOf(w.list, d))] ELSE 0

\* Defect: the ticks of the watchdog that is taken out are lost.
CancelForgets(w, d) ==
    [list |-> dq_rem(w.list, d), lag |-> [w.lag EXCEPT ![d] = 0]]

\* The next watchdog inherits the ticks of the one that is taken out.
wd_cancel(w, d) ==
    IF ~WDOG_ISACTIVE(w, d) THEN w
    ELSE LET i == Min(PositionsOf(w.list, d))
             added == IF i = Len(w.list) THEN w.lag
                      ELSE [w.lag EXCEPT ![w.list[i + 1]] = @ + w.lag[d]]
         IN  [list |-> RemoveAt(w.list, i), lag |-> [added EXCEPT ![d] = 0]]

\* The watchdogs of a sequence are cancelled one after the other.
CancelLoop(w, dogs) ==
    LET after[n \in 0..Len(dogs)] ==
          IF n = 0 THEN w ELSE wd_cancel(after[n - 1], dogs[n])
    IN  after

\* One tick more than asked for, within 32 bits.
Ticks(delay) ==
    IF delay = 0 THEN 1 ELSE IF delay = INT32_MAX THEN delay ELSE delay + 1

\* A watchdog goes behind those that expire no later.
wd_start(w, d, delay) ==
    LET c == wd_cancel(w, d)
        later == {i \in DOMAIN c.list : Expiry(c)[i] > Ticks(delay)}
        i == IF later = {} THEN Len(c.list) + 1 ELSE Min(later)
        own == Ticks(delay) - Expiry(c)[i - 1]
        rest == IF later = {} THEN c.lag ELSE [c.lag EXCEPT ![c.list[i]] = @ - own]
    IN  [list |-> InsertBefore(c.list, later, d), lag |-> [rest EXCEPT ![d] = own]]

\* The first half of wd_timer: a tick.
Ticked(w) ==
    IF w.list = <<>> THEN w ELSE [w EXCEPT !.lag[Head(w.list)] = @ - 1]

\* The head of the list has expired; wd_expiration removes it.
Expired(w) == w.list # <<>> /\ w.lag[Head(w.list)] <= 0
Removed(w) == wd_cancel(w, Head(w.list))
=============================================================================
