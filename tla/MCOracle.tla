------------------------------ MODULE MCOracle ------------------------------
(* The instances of MCRaft, with the oracle beside them.                      *)
EXTENDS RaftOracle, MCRaft

=============================================================================
