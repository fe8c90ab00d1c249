---------------------------- MODULE LossyNetwork ----------------------------
(***************************************************************************)
(* The network that Raft is written for: a message that was sent may be    *)
(* handed to its receiver at any later time, any number of times, or       *)
(* never.  It is what becomes of the variable msgs of Raft, beside what    *)
(* has been handed out.                                                    *)
(***************************************************************************)
CONSTANT Node

VARIABLES
    msgs,   \* every message ever sent
    handed  \* handed[i]: the messages that node i has been handed

vars == <<msgs, handed>>

Init ==
    /\ msgs = {}
    /\ handed = [i \in Node |-> {}]

\* Messages are sent, and nodes are handed some of those sent so far
Carry ==
    /\ msgs \subseteq msgs'
    /\ \A i \in Node :
          /\ handed[i] \subseteq handed'[i]
          /\ \A m \in handed'[i] : m \in msgs' /\ m.to = i

Spec == Init /\ [][Carry]_vars

=============================================================================
