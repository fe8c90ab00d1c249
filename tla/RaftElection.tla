---------------------------- MODULE RaftElection ----------------------------
(***************************************************************************)
(* Why at most one node leads a term: the invariant of Raft that makes     *)
(* ElectionSafety inductive.  It follows a vote from the call that casts   *)
(* it, through the Ready that stores it and releases the message that      *)
(* tells of it, to the candidate that counts it.                           *)
(***************************************************************************)
EXTENDS Raft

\* A message that shows for whom its sender voted in a term: a candidate that asks
\* for votes has voted for itself
IsGrant(m) == m.type = "MsgVoteResp" /\ ~m.reject
IsBallot(m) == m.type = "MsgVote" \/ IsGrant(m)
VoteOf(m) == IF m.type = "MsgVote" THEN m.from ELSE m.to

\* A record with a term and a vote (of a node, of a disk) is past the term t, or is
\* in it with a vote for c
Holds(s, t, c) == s.term > t \/ (s.term = t /\ s.vote = c)

Requested(c, t) == \E m \in msgs : m.type = "MsgVote" /\ m.from = c /\ m.term = t

Granted(j, t, c) == \E m \in msgs : IsGrant(m) /\ m.from = j /\ m.term = t /\ m.to = c

Supporters(c, t) == {j \in Node : j = c \/ Granted(j, t, c)}

\* The answers that wait for the node itself are its own
OwnAnswers(i, n) ==
    /\ \A k \in 1..Len(n.self) : n.self[k].from = i
    /\ \A k \in 1..Len(n.steps) : n.steps[k].from = i

\* A disk is behind its node, but not in the vote of the term they are both in
DiskBehind ==
    \A i \in Node :
        /\ disk[i].term =< node[i].term
        /\ disk[i].term = node[i].term /\ disk[i].vote # None =>
              node[i].vote = disk[i].vote

\* A vote told to the network is stored, one that is about to be told is held
BallotsHold ==
    /\ \A m \in msgs : IsBallot(m) => Holds(disk[m.from], m.term, VoteOf(m))
    /\ \A i \in Node : \A m \in node[i].outbox :
          IsBallot(m) => m.from = i /\ Holds(node[i], m.term, VoteOf(m))

\* Nobody votes twice in a term
OneBallot ==
    \A a, b \in AllMsgs :
        IsBallot(a) /\ IsBallot(b) /\ a.from = b.from /\ a.term = b.term =>
            VoteOf(a) = VoteOf(b)

\* Every vote answers a request
GrantsAnswer == \A m \in AllMsgs : IsGrant(m) => Requested(m.to, m.term)

\* What a candidate has counted it was given, and who leads or has led had a quorum
CountsAreVotes ==
    \A i \in Node : node[i].state = "Candidate" =>
        node[i].granted \subseteq Supporters(i, node[i].term)

LeadersHadQuorum ==
    /\ \A i \in Node : node[i].state = "Leader" => Supporters(i, node[i].term) \in Quorum
    /\ \A m \in AllMsgs : m.type = "MsgApp" => Supporters(m.from, m.term) \in Quorum

\* Votes are cast once a term, survive restarts, and are what an election is won with:
\* the invariant behind ElectionSafety and VotesAreDurable (send, Step, poll).
ElectionInv ==
    /\ TypeOK
    /\ DiskBehind
    /\ BallotsHold
    /\ OneBallot
    /\ GrantsAnswer
    /\ \A i \in Node : OwnAnswers(i, node[i])
    /\ CountsAreVotes
    /\ LeadersHadQuorum

=============================================================================
