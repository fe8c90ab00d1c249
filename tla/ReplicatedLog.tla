---------------------------- MODULE ReplicatedLog ----------------------------
(***************************************************************************)
(* What raft promises its clients: one log that only grows, of which every *)
(* node has a prefix that only grows.  Raft is shown to implement it.      *)
(***************************************************************************)
EXTENDS Sequences, SequencesExt

CONSTANT Node

VARIABLES
    chosen,  \* the entries that are committed, in order
    applied  \* applied[i]: those that node i knows to be committed

vars == <<chosen, applied>>

Init == \A i \in Node : IsPrefix(applied[i], chosen)

\* Entries are committed, and nodes learn of some that are
Grow ==
    /\ IsPrefix(chosen, chosen')
    /\ \A i \in Node :
          /\ IsPrefix(applied[i], applied'[i])
          /\ IsPrefix(applied'[i], chosen')

Spec == Init /\ [][Grow]_vars

=============================================================================
