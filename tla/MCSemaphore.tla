----------------------------- MODULE MCSemaphore -----------------------------
(***************************************************************************)
(* Instances of SemaphoreUse for TLC.                                      *)
(***************************************************************************)
EXTENDS SemaphoreUse
CONSTANTS t1, t2, t3, s1, s2

T3Highest == [t \in Tasks |-> IF t = t3 THEN 150 ELSE 100]
OneEach   == [s \in Sems |-> 1]
=============================================================================
