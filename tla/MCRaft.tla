------------------------------- MODULE MCRaft -------------------------------
(* The instances of Raft that TLC explores: which calls the timers and the    *)
(* application make, from which states, and which nodes may be exchanged for  *)
(* one another because the instance treats them alike.                        *)
EXTENDS RaftElection, TLC

CONSTANTS n1, n2, n3, v1

\* Two nodes compete; the third only votes
TwoHup == {"Hup"} \X {n1, n2}

\* One node leads, clients propose to the others, and it is asked to hand over
Replicating == {<<"Hup", n1>>, <<"TransferLeader", n1>>} \cup ({"Propose"} \X {n2, n3})

\* Leaders step down when they lose their quorum, followers forget them, and both ask
\* for the leadership; one of them is also told that the other cannot be reached
SteppingDown ==
    ({"Hup", "CheckQuorum", "ForgetLeader", "TransferLeader"} \X {n1, n2})
      \cup {<<"ReportUnreachable", n1>>}

\* A node with an entry of term 3 competes with a leader of term 4; where n3 leads, it
\* sends heartbeats
Rivals == {<<"Hup", n2>>, <<"Beat", n3>>}

Symmetry12 == Permutations({n1, n2})
Symmetry23 == Permutations({n2, n3})

(* n1 has asked for votes and is one answer away from leading; every node has *)
(* restarted since the term before, and all other messages are lost.          *)
AlmostElected(stored, term) ==
    /\ disk = stored
    /\ node = [i \in Node |->
          IF i = n1 THEN [NewRaft(n1, disk[n1]) EXCEPT !.state = "Candidate",
                                                       !.granted = {n1}]
          ELSE NewRaft(i, disk[i])]
    /\ msgs = {VoteResp("MsgVoteResp", n3, n1, term, FALSE)}
    /\ restarts = 0

Stored(term, vote, log) ==
    [term |-> term, vote |-> vote, commit |-> 1, log |-> BootLog \o log]

First(term) == <<[term |-> term, val |-> Empty]>>

(* The logs have diverged: n1 led term 2 and n2 led term 3, and each stored   *)
(* its first entry of the term and reached nobody.                            *)
InitDiverged ==
    AlmostElected((n1 :> Stored(4, n1, First(2))) @@ (n3 :> Stored(4, n1, <<>>))
                    @@ (n2 :> Stored(4, None, First(3))), 4)

(* n3 leads term 5 and has committed two entries with n2, which does not      *)
(* know; n1 still holds what it stored as the leader of term 2.  All messages *)
(* so far are lost.                                                           *)
InitOutvoted ==
    LET log == Append(First(5), [term |-> 5, val |-> v1])
    IN  /\ node = [i \in Node |->
              CASE i = n1 -> NewRaft(n1, Stored(4, n1, First(2)))
                [] i = n2 -> [NewRaft(n2, Stored(5, n3, log)) EXCEPT !.lead = n3]
                [] i = n3 -> [NewRaft(n3, [Stored(5, n3, log) EXCEPT !.commit = 3]) EXCEPT
                                !.state = "Leader", !.lead = n3,
                                !.prog = (n1 :> [ResetProgress(0, 1) EXCEPT !.paused = TRUE])
                                      @@ (n2 :> BecomeReplicate(ResetProgress(3, 3)))
                                      @@ (n3 :> BecomeReplicate(ResetProgress(3, 3)))]]
        /\ disk = [i \in Node |-> HardState(node[i])]
        /\ msgs = {}
        /\ restarts = 0

(* n1 has just been elected to term 2, with the votes of all; the messages of *)
(* the election are lost.                                                     *)
InitElected ==
    /\ disk = [i \in Node |-> Stored(2, n1, <<>>)]
    /\ node = [i \in Node |->
          LET n == NewRaft(i, disk[i])
          IN  IF i = n1 THEN BcastAppend(n1, BecomeLeader(n1, [n EXCEPT !.state = "Candidate"]))
              ELSE n]
    /\ msgs = {}
    /\ restarts = 0

\* The leadership is asked for where n1 leads from the beginning  (a bound)
TransfersAfterElection ==
    node'[n1].transferee # node[n1].transferee => \A m \in msgs : m.type # "MsgPreVote"

SpecReplicating == (Init \/ InitElected) /\ [][Next /\ TransfersAfterElection]_vars

SpecDiverged == (InitDiverged \/ InitOutvoted) /\ [][Next]_vars

=============================================================================
