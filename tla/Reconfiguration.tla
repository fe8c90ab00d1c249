--------------------------- MODULE Reconfiguration ---------------------------
(***************************************************************************)
(* What a leader of raft does with proposals when they change the          *)
(* configuration, or are more than it takes: one configuration change at a *)
(* time, by single steps or through a joint configuration, and the quota   *)
(* of uncommitted entries.  A configuration takes effect when a node       *)
(* applies its entry, so nodes use different configurations at a time; the *)
(* question is whether raft stays safe.                                    *)
(*                                                                         *)
(* Raft follows every message and has a fixed configuration.  Here a       *)
(* request and its answer are one step between two nodes (Vote,            *)
(* Replicate), a campaign has no pre-vote, and what a node appends is on   *)
(* its disk at once.                                                       *)
(***************************************************************************)
EXTENDS Integers, FiniteSets, Sequences, SequencesExt, FiniteSetsExt

CONSTANTS
    Server,        \* all nodes that are ever in the cluster
    None,          \* no node
    Bootstrapped,  \* the voters at the beginning
    Changes,       \* the configuration changes that are proposed   (a bound)
    MaxUncommitted,\* Config.MaxUncommittedEntriesSize, in entries
    MaxTerm,       \* no node campaigns in this term                 (a bound)
    MaxLog         \* no client proposes past this index             (a bound)

VARIABLE node  \* node[i]: the fields of struct raft that matter here

-----------------------------------------------------------------------------
(***************************************************************************)
(* Types.  An entry holds a change of the configuration, or the payload of *)
(* a client, or nothing.                                                   *)
(***************************************************************************)
Config == [voters : SUBSET Server, outgoing : SUBSET Server, auto : BOOLEAN]

Change == [kind : {"empty", "normal", "simple", "joint", "leave"},
           add : SUBSET Server, remove : SUBSET Server, auto : BOOLEAN]

Plain(kind) == [kind |-> kind, add |-> {}, remove |-> {}, auto |-> FALSE]

Entry == [term : Nat \ {0}, change : Change]

ASSUME ReconfigurationAssumption ==
    /\ IsFiniteSet(Server) /\ None \notin Server
    /\ Bootstrapped \in (SUBSET Server) \ {{}}
    /\ Changes \subseteq {c \in Change : c.kind \in {"simple", "joint", "leave"}}
    \* more than one node at a time needs a joint configuration (ConfChangeV2.EnterJoint)
    /\ \A c \in Changes : c.kind = "simple" => Cardinality(c.add \cup c.remove) <= 1
    /\ MaxUncommitted \in Nat /\ MaxTerm \in Nat /\ MaxLog \in Nat

NodeState ==
    [role : {"Follower", "Candidate", "Leader"}, term : Nat, vote : Server \cup {None},
     lead : Server \cup {None}, granted : SUBSET Server, log : Seq(Entry), commit : Nat,
     applied : Nat, conf : Config, match : [Server -> Nat],
     pendingConfIndex : Nat, uncommittedSize : Nat]

Init ==
    node = [i \in Server |->
              [role |-> "Follower", term |-> 0, vote |-> None, lead |-> None,
               granted |-> {}, log |-> <<>>, commit |-> 0, applied |-> 0,
               conf |-> [voters |-> Bootstrapped, outgoing |-> {}, auto |-> FALSE],
               match |-> [j \in Server |-> 0], pendingConfIndex |-> 0,
               uncommittedSize |-> 0]]

-----------------------------------------------------------------------------
(***************************************************************************)
(* Configurations (packages quorum and confchange).                        *)
(***************************************************************************)
IsJoint(c) == c.outgoing # {}

\* Voters.IDs, which is also the domain of Progress: there are no learners
Members(c) == c.voters \cup c.outgoing

Majority(Q, voters) == 2 * Cardinality(Q \cap voters) > Cardinality(voters)

\* Faulty: the outgoing voters are not asked
MutIsQuorum(Q, c) == Majority(Q, c.voters)

IsQuorum(Q, c) == Majority(Q, c.voters) /\ (IsJoint(c) => Majority(Q, c.outgoing))

IsChange(ch) == ch.kind \in {"simple", "joint", "leave"}

Voters(c, ch) == (c.voters \cup ch.add) \ ch.remove

\* Whether the Changer returns no error, on which applyConfChange panics
Fits(c, ch) ==
    CASE ch.kind = "leave"  -> IsJoint(c)
      [] ch.kind = "simple" -> /\ ~IsJoint(c) /\ Voters(c, ch) # {}
                               /\ Cardinality(SymDiff(c.voters, Voters(c, ch))) <= 1
      [] ch.kind = "joint"  -> ~IsJoint(c) /\ Voters(c, ch) # {}
      [] OTHER              -> TRUE

\* LeaveJoint, EnterJoint or Simple
Changed(c, ch) ==
    CASE ch.kind = "leave"  -> [c EXCEPT !.outgoing = {}, !.auto = FALSE]
      [] ch.kind = "simple" -> [c EXCEPT !.voters = Voters(c, ch)]
      [] ch.kind = "joint"  -> [voters |-> Voters(c, ch), outgoing |-> c.voters,
                                auto |-> ch.auto]
      [] OTHER              -> c

-----------------------------------------------------------------------------
(***************************************************************************)
(* The log of a leader and its quota.                                      *)
(***************************************************************************)
PayloadSize(ch) == IF ch.kind \in {"empty", "leave"} THEN 0 ELSE 1

\* The payload of the entries a+1 .. b of the log
Payload(log, a, b) == Cardinality({k \in a + 1 .. b : PayloadSize(log[k].change) = 1})

\* increaseUncommittedSize refuses the entry
OverQuota(n, ch) ==
    /\ n.uncommittedSize > 0
    /\ PayloadSize(ch) > 0
    /\ n.uncommittedSize + PayloadSize(ch) > MaxUncommitted

\* reduceUncommittedSize
Reduced(n, size) ==
    IF size > n.uncommittedSize THEN 0 ELSE n.uncommittedSize - size

\* maybeCommit
MaybeCommit(n) ==
    LET agreed == {k \in n.commit + 1 .. Len(n.log) :
                     /\ n.log[k].term = n.term
                     /\ IsQuorum({j \in Server : n.match[j] >= k}, n.conf)}
    IN  IF n.role = "Leader" /\ agreed # {} THEN [n EXCEPT !.commit = Max(agreed)] ELSE n

\* appendEntry
AppendEntry(i, n, ch) ==
    IF OverQuota(n, ch) THEN n
    ELSE MaybeCommit([n EXCEPT !.log = Append(@, [term |-> n.term, change |-> ch]),
                                  !.match[i] = Len(n.log) + 1,
                                  !.uncommittedSize = @ + PayloadSize(ch)])

-----------------------------------------------------------------------------
(***************************************************************************)
(* Elections.                                                              *)
(***************************************************************************)
\* Faulty: the quota in use is kept
MutReset(n, term) ==
    [n EXCEPT !.term = term, !.vote = IF term = n.term THEN @ ELSE None, !.lead = None,
              !.granted = {}, !.match = [j \in Server |-> 0], !.pendingConfIndex = 0]

Reset(n, term) ==
    [n EXCEPT !.term = term, !.vote = IF term = n.term THEN @ ELSE None, !.lead = None,
              !.granted = {}, !.match = [j \in Server |-> 0],
              !.pendingConfIndex = 0, !.uncommittedSize = 0]

BecomeFollower(n, term, lead) == [Reset(n, term) EXCEPT !.role = "Follower", !.lead = lead]

BecomeLeader(i, n) ==
    AppendEntry(i, [Reset(n, n.term) EXCEPT !.role = "Leader", !.lead = i,
                                            !.match[i] = Len(n.log),
                                            !.pendingConfIndex = Len(n.log)],
                Plain("empty"))

\* A candidate that has a quorum of its configuration leads
Tally(i, n) == IF IsQuorum(n.granted, n.conf) THEN BecomeLeader(i, n) ELSE n

\* Faulty: a node campaigns with a configuration it knows to be replaced
MutHasUnappliedConfChanges(n) == FALSE

HasUnappliedConfChanges(n) ==
    \E k \in n.applied + 1 .. n.commit : IsChange(n.log[k].change)

\* hup and campaign
Campaign(i) ==
    LET n == node[i]
    IN  /\ n.role # "Leader"
        /\ n.term < MaxTerm
        /\ i \in Members(n.conf)           \* promotable
        /\ ~HasUnappliedConfChanges(n)
        /\ node' = [node EXCEPT ![i] =
                      Tally(i, [Reset(n, n.term + 1) EXCEPT !.role = "Candidate",
                                                            !.vote = i, !.granted = {i}])]

LastTerm(n) == IF n.log = <<>> THEN 0 ELSE n.log[Len(n.log)].term

\* isUpToDate
IsUpToDate(n, by) ==
    \/ LastTerm(n) > LastTerm(by)
    \/ LastTerm(n) = LastTerm(by) /\ Len(n.log) >= Len(by.log)

\* Candidate i asks node j, which decides by its own term, vote and log and does not look
\* at any configuration
Vote(i, j) ==
    LET n == node[i]
        voter == IF node[j].term < n.term THEN BecomeFollower(node[j], n.term, None)
                 ELSE node[j]
        canVote == voter.vote = i \/ (voter.vote = None /\ voter.lead = None)
    IN  /\ n.role = "Candidate"
        /\ j \in Members(n.conf) \ n.granted
        /\ node[j].term <= n.term
        /\ node' = IF canVote /\ IsUpToDate(n, voter)
                   THEN [node EXCEPT ![j] = [voter EXCEPT !.vote = i],
                                     ![i] = Tally(i, [n EXCEPT !.granted = @ \cup {j}])]
                   ELSE [node EXCEPT ![j] = voter]

\* A node of a higher term answers
StepDown(i, j) ==
    /\ node[i].role # "Follower"
    /\ node[j].term > node[i].term
    /\ node' = [node EXCEPT ![i] = BecomeFollower(@, node[j].term, None)]

-----------------------------------------------------------------------------
(***************************************************************************)
(* Replication.                                                            *)
(***************************************************************************)
\* Leader i brings node j up to index k of its log, and is told so.  The commit index it
\* sends is the present one: a follower that has a change knows the ones before it to be
\* committed
Replicate(i, j, k) ==
    LET n == node[i]
        peer == IF node[j].role # "Follower" \/ node[j].term < n.term
                THEN BecomeFollower(node[j], n.term, i) ELSE [node[j] EXCEPT !.lead = i]
        has == Len(peer.log) >= k /\ SubSeq(peer.log, 1, k) = SubSeq(n.log, 1, k)
    IN  /\ n.role = "Leader"
        /\ j \in Members(n.conf) \ {i}
        /\ node[j].term <= n.term
        /\ k \in n.match[j] .. Len(n.log)
        /\ node' = [node EXCEPT
                      ![j] = [peer EXCEPT !.log = IF has THEN @ ELSE SubSeq(n.log, 1, k),
                                          !.commit = Max({@, Min({n.commit, k})})],
                      ![i] = MaybeCommit([n EXCEPT !.match[j] = k])]

-----------------------------------------------------------------------------
(***************************************************************************)
(* Proposals.                                                              *)
(***************************************************************************)
\* Some change may not have been applied yet
Pending(n) == n.pendingConfIndex > n.applied

\* Faulty: a change is taken whatever the configuration
MutRefused(n, ch) == IsChange(ch) /\ Pending(n)

\* The reasons to ignore a change: alreadyPending, alreadyJoint, wantsLeaveJoint
Refused(n, ch) ==
    IsChange(ch) /\ (Pending(n) \/ (IsJoint(n.conf) # (ch.kind = "leave")))

\* MsgProp at the leader.  A change that is ignored leaves an empty entry in its place;
\* one that is then over the quota has been noted as pending all the same
StepProp(i, n, ch) ==
    IF Refused(n, ch) THEN AppendEntry(i, n, Plain("empty"))
    ELSE IF IsChange(ch)
    THEN AppendEntry(i, [n EXCEPT !.pendingConfIndex = Len(n.log) + 1], ch)
    ELSE AppendEntry(i, n, ch)

\* The proposal of the application, which never asks for all voters to be removed.  A
\* leader that has been removed, or hands over the leadership, drops it
Propose(i, ch) ==
    /\ node[i].role = "Leader"
    /\ i \in Members(node[i].conf)
    /\ Voters(node[i].conf, ch) # {}
    /\ Len(node[i].log) < MaxLog
    /\ node' = [node EXCEPT ![i] = StepProp(i, @, ch)]

-----------------------------------------------------------------------------
(***************************************************************************)
(* A Ready with committed entries: they are applied one by one, then the   *)
(* node is told so.                                                        *)
(***************************************************************************)
\* applyConfChange and switchToConfig: a leader starts counting anew for those who join,
\* and may find more committed, unless it has been removed itself
SwitchToConfig(i, n, conf) ==
    LET s == [n EXCEPT !.conf = conf,
                       !.match = [j \in Server |->
                                    IF j \in Members(n.conf) \cap Members(conf) THEN @[j]
                                    ELSE 0]]
    IN  IF i \in Members(conf) THEN MaybeCommit(s) ELSE s

\* appliedTo: a leader leaves a joint configuration by itself when it has applied all
\* changes, unless it is handing over the leadership
AppliedTo(i, n, k, handsOver) ==
    LET a == [n EXCEPT !.applied = k]
    IN  IF /\ a.conf.auto /\ k >= a.pendingConfIndex /\ a.role = "Leader"
           /\ i \in Members(a.conf) /\ ~handsOver
        THEN StepProp(i, a, Plain("leave")) ELSE a

\* The node applies the entries until k, one by one
ApplyEntries(i, n, k) ==
    LET after[x \in n.applied .. k] ==
          IF x = n.applied THEN n
          ELSE IF IsChange(n.log[x].change)
          THEN SwitchToConfig(i, after[x - 1], Changed(after[x - 1].conf, n.log[x].change))
          ELSE after[x - 1]
    IN  after[k]

Apply(i, k, handsOver) ==
    LET n == node[i]
        told == AppliedTo(i, ApplyEntries(i, n, k), k, handsOver)
    IN  /\ k \in n.applied + 1 .. n.commit
        /\ handsOver => n.role = "Leader"
        /\ node' = [node EXCEPT ![i] =
                      [told EXCEPT !.uncommittedSize =
                          Reduced(told, Payload(n.log, n.applied, k))]]

Next ==
    \E i \in Server :
        \/ Campaign(i)
        \/ \E j \in Server : Vote(i, j)
        \/ \E j \in Server : StepDown(i, j)
        \/ \E j \in Server : \E k \in 0 .. Len(node[i].log) : Replicate(i, j, k)
        \/ \E ch \in Changes \cup {Plain("normal")} : Propose(i, ch)
        \/ \E k \in 1 .. node[i].commit, handsOver \in BOOLEAN : Apply(i, k, handsOver)

Spec == Init /\ [][Next]_node

-----------------------------------------------------------------------------
(***************************************************************************)
(* Correctness.                                                            *)
(***************************************************************************)
\* The types; what is applied is committed and what is committed is in the log.
TypeOK ==
    /\ node \in [Server -> NodeState]
    /\ \A i \in Server : node[i].applied <= node[i].commit
                         /\ node[i].commit <= Len(node[i].log)

\* No two leaders of one term, although they need not have the same configuration
\* (campaign, Step of MsgVote, applyConfChange).
OneLeaderPerTerm ==
    \A i, j \in Server :
        /\ node[i].role = "Leader" /\ node[j].role = "Leader"
        /\ node[i].term = node[j].term
        => i = j

\* What one node knows to be committed is in the log of every leader of a later term and
\* is not contradicted by what another knows: raft stays safe while configurations
\* change (maybeCommit, hup, switchToConfig).
CommittedForGood ==
    \A i, j \in Server :
        LET common == Min({node[i].commit, node[j].commit})
        IN  /\ SubSeq(node[i].log, 1, common) = SubSeq(node[j].log, 1, common)
            /\ node[j].role = "Leader" /\ node[j].term >= node[i].term =>
                  IsPrefix(SubSeq(node[i].log, 1, node[i].commit), node[j].log)

Unapplied(n) == {k \in n.applied + 1 .. Len(n.log) : IsChange(n.log[k].change)}

\* "Only one conf change may be pending (in the log, but not yet applied) at a time.  This
\* is enforced via pendingConfIndex, which is set to a value >= the log index of the
\* latest pending configuration change" (raft.pendingConfIndex, becomeLeader, stepLeader).
OneChangePending ==
    \A i \in Server :
        node[i].role = "Leader" =>
            /\ Cardinality(Unapplied(node[i])) <= 1
            /\ \A k \in Unapplied(node[i]) : k <= node[i].pendingConfIndex

\* What configuration c becomes when the entries a+1 .. k of the log are applied
ConfAfter(c, log, a, k) ==
    LET after[x \in a .. k] == IF x = a THEN c ELSE Changed(after[x - 1], log[x].change)
    IN  after[k]

\* A change in a log that is committed fits the configuration that those before it lead
\* to, so that no node panics when it applies it (applyConfChange).
ChangesFit ==
    \A i \in Server :
        LET n == node[i] IN
        \A k \in n.applied + 1 .. n.commit :
            Fits(ConfAfter(n.conf, n.log, n.applied, k - 1), n.log[k].change)

\* "uncommittedSize may underestimate the size of the uncommitted Raft log tail but will
\* never overestimate it": no proposal is refused for entries that have been applied, and
\* the size, an unsigned number in the code, is never below zero
\* (increaseUncommittedSize, reduceUncommittedSize, reset).
QuotaIsNotOverestimated ==
    TypeOK /\ \A i \in Server :
        node[i].uncommittedSize <=
            Payload(node[i].log, node[i].applied, Len(node[i].log))

=============================================================================
