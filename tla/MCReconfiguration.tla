-------------------------- MODULE MCReconfiguration --------------------------
(* The instance of Reconfiguration that TLC explores.                         *)
EXTENDS Reconfiguration, TLC

\* Single nodes leave, or two at once through a joint configuration, which the leader
\* then leaves by itself unless it hands over
Shrinking ==
    {[kind |-> "simple", add |-> {}, remove |-> {s}, auto |-> FALSE] : s \in Server}
      \cup {[kind |-> "joint", add |-> {}, remove |-> r, auto |-> TRUE] :
              r \in kSubset(2, Server)}

Symmetry == Permutations(Server)

=============================================================================
