----------------------------- MODULE MCMsgQueue -----------------------------
(***************************************************************************)
(* Instances of MsgQueue for TLC.                                          *)
(***************************************************************************)
EXTENDS MsgQueue
CONSTANTS t1, t2, t3, q1, q2

EqualPriority == [t \in Tasks |-> 100]
T3Highest     == [t \in Tasks |-> IF t = t3 THEN 150 ELSE 100]
OneSlot       == [q \in Queues |-> 1]
TwoSlots      == [q \in Queues |-> 2]

\* Nothing reads ret, the value that the last call returned: states that differ
\* in it only are explored once.
NoRet == <<queueVars, poolVars, waitVars, ntpid, errcode, waitdog, pc, frame,
           mqmsg, locked, fault, nsent>>
=============================================================================
