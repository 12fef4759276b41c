------------------------------ MODULE PrioList ------------------------------
(***************************************************************************)
(* The linked lists of the kernel (libs/libc/queue) that are kept in       *)
(* priority order: the task lists that nxsched_add_prioritized maintains   *)
(* and the message list of a queue.  A list is a sequence, its head first. *)
(* Every list here is searched from the head and the search stops at the   *)
(* first entry that matches, so an operation is named by the set of        *)
(* positions that match.                                                   *)
(***************************************************************************)
EXTENDS Integers, Sequences, FiniteSets, SequencesExt

(***************************************************************************)
(* Insert e in front of the first of the positions `lower`, or at the tail *)
(* when no position is lower: the search loop of nxsched_add_prioritized   *)
(* and of nxmq_do_send, with the dq_/sq_ insertion that follows it.        *)
(***************************************************************************)
InsertBefore(s, lower, e) ==
    InsertAt(s, IF lower = {} THEN Len(s) + 1 ELSE Min(lower), e)

(***************************************************************************)
(* The entry at the first of the matching positions, and the list without  *)
(* it.                                                                     *)
(***************************************************************************)
FirstOf(s, matching) == s[Min(matching)]
RemoveFirstOf(s, matching) == RemoveAt(s, Min(matching))

(***************************************************************************)
(* The positions of entry e, and the list without e: dq_rem unlinks a node *)
(* wherever it is.                                                         *)
(***************************************************************************)
PositionsOf(s, e) == {i \in DOMAIN s : s[i] = e}
dq_rem(s, e) == IF PositionsOf(s, e) = {} THEN s
                ELSE RemoveFirstOf(s, PositionsOf(s, e))
=============================================================================
