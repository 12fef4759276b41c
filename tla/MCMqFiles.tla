----------------------------- MODULE MCMqFiles -----------------------------
(***************************************************************************)
(* Instances of MqFiles for TLC.                                           *)
(***************************************************************************)
EXTENDS MqFiles

CONSTANTS t1, t2, t3, sem, i1, i2, n1

SamePriority == [t \in Tasks |-> 100]
Symmetric == Permutations(Nodes)
=============================================================================
