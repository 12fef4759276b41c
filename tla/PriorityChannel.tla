--------------------------- MODULE PriorityChannel ---------------------------
(***************************************************************************)
(* What a set of POSIX message queues promises: a queue is a set of        *)
(* messages that carry a priority and a stamp, their place in the order of *)
(* arrival.  A send adds a message that is newer than all others; a        *)
(* receive takes, among the messages of the highest priority, the oldest.  *)
(***************************************************************************)
EXTENDS Integers

CONSTANT Queues
VARIABLE content

Init == content = [q \in Queues |-> {}]

Send(q, m) ==
    /\ \A n \in content[q] : n.stamp < m.stamp
    /\ content' = [content EXCEPT ![q] = @ \cup {m}]

Receive(q, m) ==
    /\ m \in content[q]
    /\ \A n \in content[q] \ {m} :
         m.prio > n.prio \/ (m.prio = n.prio /\ m.stamp < n.stamp)
    /\ content' = [content EXCEPT ![q] = @ \ {m}]

\* The message of a send is the one that is in content' and was not before.
Next == \E q \in Queues : \/ \E m \in content'[q] : Send(q, m)
                          \/ \E m \in content[q] : Receive(q, m)

Spec == Init /\ [][Next]_content
=============================================================================
