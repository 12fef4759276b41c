----------------------------- MODULE MCKernel ------------------------------
(***************************************************************************)
(* Instances of Kernel for TLC.                                            *)
(***************************************************************************)
EXTENDS Kernel

CONSTANTS t1, t2, t3, d1, d2, d3, p1

Waitdogs == t1 :> d1 @@ t2 :> d2 @@ t3 :> d3
TwoWaitdogs == t1 :> d1 @@ t2 :> d2
OneHigh == t1 :> 1 @@ t2 :> 1 @@ t3 :> 2
SamePriority == t1 :> 1 @@ t2 :> 1
=============================================================================
