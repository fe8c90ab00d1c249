----------------------------- MODULE RaftOracle -----------------------------
(***************************************************************************)
(* The oracle of the harness (harness/dst/oracle.go) beside Raft.  It does *)
(* not look at the nodes: Cluster.Step keeps, for each node, the role and  *)
(* the term that its last Ready told, and the entries its Readys gave out  *)
(* as committed.  The last two are what the disk of the node holds; the    *)
(* role is a variable here.                                                *)
(***************************************************************************)
EXTENDS RaftElection

VARIABLE role  \* role[i]: Node.stateStr, from Ready.SoftState

oracleVars == <<vars, role>>

OracleInit ==
    /\ Init
    /\ role = [i \in Node |-> "Follower"]

\* Faulty: only a role that a node has taken up is told, not that it has stepped down
MutShown(i) == IF node[i].state = "Follower" THEN role[i] ELSE node[i].state

\* The role that a Ready of node i tells
Shown(i) == node[i].state

\* Cluster.Step refreshes the cache when it handles a Ready
OracleNext ==
    /\ Next
    /\ role' = [i \in Node |-> IF Ready(i) THEN Shown(i) ELSE role[i]]

OracleSpec == OracleInit /\ [][OracleNext]_oracleVars

-----------------------------------------------------------------------------
\* checkLogPrefix: no two nodes have given out different entries at an index
CheckLogPrefix ==
    \A i, j \in Node : \A k \in 1..Min({disk[i].commit, disk[j].commit}) :
        disk[i].log[k] = disk[j].log[k]

\* checkLeaderUniqueness: no two nodes were last seen to lead the same term
CheckLeaderUniqueness ==
    \A i, j \in Node :
        role[i] = "Leader" /\ role[j] = "Leader" /\ disk[i].term = disk[j].term => i = j

\* The oracle never accuses raft, although it looks at roles and terms of different
\* moments: "a snapshot of the most recent transition, not the live state"
\* (CheckInvariants, Cluster.Step).
OracleIsQuiet == CheckLogPrefix /\ CheckLeaderUniqueness

=============================================================================
