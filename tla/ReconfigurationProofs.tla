-------------------------- MODULE ReconfigurationProofs --------------------------
(***************************************************************************)
(* Why configurations may change while raft runs: nodes that have applied  *)
(* a change and nodes that have not still ask quorums with a node in       *)
(* common, for every set of nodes, configuration and change; why there is  *)
(* only one change at a time; and why raft therefore has one leader in a   *)
(* term and never loses what is committed.  The quota of uncommitted       *)
(* entries is at the end.                                                  *)
(***************************************************************************)
EXTENDS Reconfiguration, NumberLemmas, FiniteSetTheorems, TLAPS

\* A configuration's voters are finitely many, and so is any part of them.
LEMMA Finite ==
    ASSUME NEW S \in SUBSET Server
    PROVE  IsFiniteSet(S) /\ Cardinality(S) \in Nat
BY ReconfigurationAssumption, FS_Subset, FS_CardinalityType

\* Majorities of two sets of voters that differ in one node at most have a node in common:
\* without one they would be disjoint parts of the union, which is too small for them.
LEMMA MajoritiesOverlap ==
    ASSUME NEW V \in SUBSET Server, NEW W \in SUBSET Server,
           Cardinality(SymDiff(V, W)) <= 1,
           NEW Q \in SUBSET Server, NEW R \in SUBSET Server,
           Majority(Q, V), Majority(R, W)
    PROVE  Q \cap R # {}
<1> DEFINE U == V \cup W
           I == V \cap W
           D == SymDiff(V, W)
           P == Q \cap V
           S == R \cap W
<1>1. /\ IsFiniteSet(V) /\ IsFiniteSet(W) /\ IsFiniteSet(U) /\ IsFiniteSet(I)
      /\ Cardinality(V) \in Nat /\ Cardinality(W) \in Nat /\ Cardinality(U) \in Nat
      /\ Cardinality(I) \in Nat /\ Cardinality(D) \in Nat
      /\ Cardinality(P) \in Nat /\ Cardinality(S) \in Nat
  <2>1. /\ V \in SUBSET Server /\ W \in SUBSET Server /\ U \in SUBSET Server
        /\ I \in SUBSET Server /\ D \in SUBSET Server
        /\ P \in SUBSET Server /\ S \in SUBSET Server
    BY DEF SymDiff
  <2> HIDE DEF U, I, D, P, S
  <2> QED
    BY <2>1, Finite
<1>2. Cardinality(U) = Cardinality(V) + Cardinality(W) - Cardinality(I)
  BY <1>1, FS_Union
<1>3. Cardinality(U) = Cardinality(D) + Cardinality(I)
  <2>1. U \ I = D /\ U \cap I = I
    BY DEF SymDiff
  <2>2. Cardinality(U \ I) = Cardinality(U) - Cardinality(U \cap I)
    BY <1>1, FS_Difference
  <2> HIDE DEF U, I, D
  <2> QED
    BY <1>1, <2>1, <2>2
<1>4. 2 * Cardinality(P) > Cardinality(V) /\ 2 * Cardinality(S) > Cardinality(W)
  BY DEF Majority
<1>5. Cardinality(P) + Cardinality(S) > Cardinality(U)
  <2> HIDE DEF U, I, D, P, S
  <2>1. Cardinality(D) <= 1
    BY DEF D
  <2> QED
    BY <1>1, <1>2, <1>3, <1>4, <2>1
<1>6. P \cap S # {}
  <2>1. P \subseteq U /\ S \subseteq U
    OBVIOUS
  <2> HIDE DEF U, P, S
  <2> QED
    BY <1>1, <1>5, <2>1, FS_MajoritiesIntersect
<1> QED
  BY <1>6

\* A set of voters does not differ from itself.
LEMMA SameVoters ==
    ASSUME NEW V
    PROVE  Cardinality(SymDiff(V, V)) <= 1
<1>1. SymDiff(V, V) = {}
  BY DEF SymDiff
<1>2. Cardinality({}) = 0
  BY FS_EmptySet
<1> QED
  BY <1>1, <1>2

\* A quorum of a configuration, which elects a leader or commits an entry, and a quorum
\* of what any change that raft applies makes of it have a node in common, whether the
\* change adds or removes a node, enters a joint configuration or leaves it
\* (JointConfig.VoteResult and CommittedIndex, Changer.Simple, EnterJoint, LeaveJoint).
THEOREM QuorumsOverlap ==
    ASSUME NEW c \in Config, NEW ch \in Change, Fits(c, ch),
           NEW Q \in SUBSET Server, IsQuorum(Q, c),
           NEW R \in SUBSET Server, IsQuorum(R, Changed(c, ch))
    PROVE  Q \cap R # {}
<1>1. /\ c.voters \in SUBSET Server /\ c.outgoing \in SUBSET Server
      /\ Voters(c, ch) \in SUBSET Server
  BY DEF Config, Change, Voters
<1>2. Majority(Q, c.voters)
  BY DEF IsQuorum
<1>3. CASE ch.kind = "simple"
  <2>1. Cardinality(SymDiff(c.voters, Voters(c, ch))) <= 1
    BY <1>3 DEF Fits
  <2>2. Changed(c, ch).voters = Voters(c, ch)
    BY <1>3 DEF Changed, Config
  <2>3. Majority(R, Voters(c, ch))
    BY <2>2 DEF IsQuorum
  <2> QED
    BY <1>1, <1>2, <2>1, <2>3, MajoritiesOverlap
<1>4. CASE ch.kind = "joint"
  <2>1. ~IsJoint(c) /\ Voters(c, ch) # {}
    BY <1>4 DEF Fits
  <2>2. Changed(c, ch).outgoing = c.voters
    BY <1>4 DEF Changed
  <2>3. c.voters # {}
    BY <1>2, FS_EmptySet DEF Majority
  <2>4. Majority(R, c.voters)
    BY <2>2, <2>3 DEF IsQuorum, IsJoint
  <2> QED
    BY <1>1, <1>2, <2>4, SameVoters, MajoritiesOverlap
<1>5. CASE ch.kind \notin {"simple", "joint"}
  <2>1. Changed(c, ch).voters = c.voters
    BY <1>5 DEF Changed, Config
  <2>2. Majority(R, c.voters)
    BY <2>1 DEF IsQuorum
  <2> QED
    BY <1>1, <1>2, <2>2, SameVoters, MajoritiesOverlap
<1> QED
  BY <1>3, <1>4, <1>5

\* Two leaders of a term: candidates of one term that differ by one change cannot both
\* have the votes of a quorum of their configuration, if no node votes for both
\* (campaign, Step of MsgVoteResp, poll).
THEOREM OneWinner ==
    ASSUME NEW c \in Config, NEW ch \in Change, Fits(c, ch),
           NEW voteOf \in [Server -> Server \cup {None}],
           NEW i \in Server, NEW j \in Server,
           IsQuorum({s \in Server : voteOf[s] = i}, c),
           IsQuorum({s \in Server : voteOf[s] = j}, Changed(c, ch))
    PROVE  i = j
<1>1. {s \in Server : voteOf[s] = i} \cap {s \in Server : voteOf[s] = j} # {}
  BY QuorumsOverlap
<1> QED
  BY <1>1

-----------------------------------------------------------------------------
(***************************************************************************)
(* One change at a time.  Of two changes in a log the earlier one is known *)
(* to be committed by whoever has the log, since a leader takes a change   *)
(* only when it has applied those before, and what it replicates goes with *)
(* its commit index.  A node that has no committed change to apply when it *)
(* campaigns has therefore at most one that it has not applied.            *)
(***************************************************************************)

\* A node, of whatever configuration: what is applied is not looked at
Shaped(n) ==
    n \in [role : {"Follower", "Candidate", "Leader"}, term : Nat, vote : {n.vote},
           lead : {n.lead}, granted : {n.granted}, log : Seq([term : Nat, change : Change]),
           commit : Nat, applied : Nat, conf : {n.conf}, match : {n.match},
           pendingConfIndex : Nat, uncommittedSize : {n.uncommittedSize}]

\* The entries of a log that change the configuration
ChangesIn(log) == {k \in 1..Len(log) : IsChange(log[k].change)}

\* The parts of the invariant, for a node
EarlierCommitted(n) == \A k, l \in ChangesIn(n.log) : k < l => k =< n.commit

\* A leader notes as pending whatever change it has
Noted(n) == n.role = "Leader" => \A k \in ChangesIn(n.log) : k =< n.pendingConfIndex

\* Who campaigns or leads has applied all changes but the last
EarlierApplied(n) ==
    n.role # "Follower" => \A k, l \in ChangesIn(n.log) : k < l => k =< n.applied

\* All of it, for one node
InTurn(n) ==
    /\ Shaped(n) /\ n.applied =< n.commit
    /\ EarlierCommitted(n) /\ Noted(n) /\ EarlierApplied(n)

\* The invariant: every node is in turn
ChangesInv ==
    /\ node = [i \in Server |-> node[i]]
    /\ \A i \in Server : InTurn(node[i])

\* A step of a node that touches neither its log nor its role
Keeps(n, o) ==
    /\ Shaped(o)
    /\ o.role = n.role /\ o.log = n.log /\ o.term = n.term
    /\ o.applied = n.applied /\ o.pendingConfIndex = n.pendingConfIndex
    /\ o.commit >= n.commit

\* Two steps that keep the log, one after the other
LEMMA KeepsTrans ==
    ASSUME NEW n, Shaped(n), NEW o, NEW p, Keeps(n, o), Keeps(o, p)
    PROVE  Keeps(n, p)
<1>1. n.commit \in Nat /\ o.commit \in Nat /\ p.commit \in Nat
  BY DEF Shaped, Keeps
<1> QED
  BY <1>1 DEF Keeps

\* A step that keeps log and role keeps the node in turn
LEMMA KeepsInTurn ==
    ASSUME NEW n, InTurn(n), NEW o, Keeps(n, o)
    PROVE  InTurn(o)
<1>1. /\ n.commit \in Nat /\ o.commit \in Nat /\ n.applied \in Nat /\ o.applied \in Nat
      /\ Len(n.log) \in Nat
  BY DEF Shaped, Keeps, InTurn
<1>2. \A k \in ChangesIn(n.log) : k \in Nat
  BY <1>1 DEF ChangesIn
<1> QED
  BY <1>1, <1>2 DEF Keeps, InTurn, EarlierCommitted, Noted, EarlierApplied

\* maybeCommit only raises the commit index
LEMMA MaybeCommitKeeps ==
    ASSUME NEW n, Shaped(n)
    PROVE  Keeps(n, MaybeCommit(n))
<1> DEFINE agreed == {k \in n.commit + 1 .. Len(n.log) :
                        /\ n.log[k].term = n.term
                        /\ IsQuorum({j \in Server : n.match[j] >= k}, n.conf)}
           o == [n EXCEPT !.commit = Max(agreed)]
<1>1. n.commit \in Nat /\ Len(n.log) \in Nat
  BY DEF Shaped
<1>2. Keeps(n, n)
  BY <1>1 DEF Keeps
<1>3. CASE n.role = "Leader" /\ agreed # {}
  <2>1. MaybeCommit(n) = o
    BY <1>3 DEF MaybeCommit
  <2>2. agreed \in SUBSET (0..Len(n.log)) /\ \A x \in agreed : x \in Nat /\ x > n.commit
    BY <1>1
  <2>3. Max(agreed) \in Nat /\ Max(agreed) > n.commit
    <3> HIDE DEF agreed
    <3> QED
      BY <1>1, <1>3, <2>2, MaxIn
  <2> HIDE DEF agreed
  <2>4. Shaped(o)
    BY <2>3 DEF Shaped
  <2>5. o.role = n.role /\ o.log = n.log /\ o.term = n.term /\ o.applied = n.applied
        /\ o.pendingConfIndex = n.pendingConfIndex /\ o.commit = Max(agreed)
    BY DEF Shaped
  <2> QED
    BY <1>1, <2>1, <2>3, <2>4, <2>5 DEF Keeps
<1>4. CASE ~(n.role = "Leader" /\ agreed # {})
  BY <1>2, <1>4 DEF MaybeCommit
<1> QED
  BY <1>3, <1>4

\* appendEntry adds the entry or refuses it
LEMMA AppendEntryAdds ==
    ASSUME NEW i \in Server, NEW n, Shaped(n), NEW ch \in Change
    PROVE  LET o == AppendEntry(i, n, ch)
           IN  \/ o = n
               \/ \E g : /\ g.log = Append(n.log, [term |-> n.term, change |-> ch])
                         /\ g.role = n.role /\ g.applied = n.applied
                         /\ g.commit = n.commit
                         /\ g.pendingConfIndex = n.pendingConfIndex
                         /\ Shaped(g) /\ Keeps(g, o)
<1> DEFINE e == [term |-> n.term, change |-> ch]
           g == [n EXCEPT !.log = Append(@, e), !.match[i] = Len(n.log) + 1,
                          !.uncommittedSize = @ + PayloadSize(ch)]
<1>1. n.log \in Seq([term : Nat, change : Change]) /\ n.term \in Nat
  BY DEF Shaped
<1>2. e \in [term : Nat, change : Change]
  BY <1>1
<1>3. Append(n.log, e) \in Seq([term : Nat, change : Change])
  BY <1>1, <1>2
<1>4. CASE OverQuota(n, ch)
  BY <1>4 DEF AppendEntry
<1>5. CASE ~OverQuota(n, ch)
  <2>1. AppendEntry(i, n, ch) = MaybeCommit(g)
    BY <1>5 DEF AppendEntry
  <2> HIDE DEF e
  <2>2. Shaped(g)
    BY <1>3 DEF Shaped
  <2>3. /\ g.log = Append(n.log, e) /\ g.role = n.role /\ g.applied = n.applied
        /\ g.commit = n.commit /\ g.pendingConfIndex = n.pendingConfIndex
    BY DEF Shaped
  <2> HIDE DEF g
  <2>4. Keeps(g, MaybeCommit(g))
    BY <2>2, MaybeCommitKeeps
  <2> QED
    BY <2>1, <2>2, <2>3, <2>4 DEF e
<1> QED
  BY <1>4, <1>5

\* The changes in a log that has an entry more
LEMMA ChangesAfterAppend ==
    ASSUME NEW S, NEW log \in Seq(S), NEW e \in S,
           NEW k \in ChangesIn(Append(log, e))
    PROVE  \/ k \in ChangesIn(log)
           \/ k = Len(log) + 1 /\ IsChange(e.change)
<1>1. /\ Len(Append(log, e)) = Len(log) + 1 /\ Len(log) \in Nat
      /\ \A x \in 1..Len(log) : Append(log, e)[x] = log[x]
      /\ Append(log, e)[Len(log) + 1] = e
  OBVIOUS
<1>2. k \in 1..Len(log) + 1 /\ IsChange(Append(log, e)[k].change)
  BY <1>1 DEF ChangesIn
<1>3. CASE k = Len(log) + 1
  BY <1>1, <1>2, <1>3
<1>4. CASE k # Len(log) + 1
  <2>1. k \in 1..Len(log)
    BY <1>1, <1>2, <1>4
  <2> QED
    BY <1>1, <1>2, <2>1 DEF ChangesIn
<1> QED
  BY <1>3, <1>4

\* An entry that changes nothing, or a change after all others are applied
LEMMA AppendInTurn ==
    ASSUME NEW i \in Server, NEW n, InTurn(n), NEW ch \in Change,
           IsChange(ch) => /\ \A k \in ChangesIn(n.log) : k =< n.applied
                           /\ n.role = "Leader" => n.pendingConfIndex = Len(n.log) + 1
    PROVE  InTurn(AppendEntry(i, n, ch))
<1> DEFINE o == AppendEntry(i, n, ch)
           e == [term |-> n.term, change |-> ch]
<1>1. CASE o = n
  BY <1>1
<1>2. ASSUME NEW g, g.log = Append(n.log, e), g.role = n.role, g.applied = n.applied,
             g.commit = n.commit, g.pendingConfIndex = n.pendingConfIndex,
             Shaped(g), Keeps(g, o)
      PROVE  InTurn(o)
  <2>1. /\ n.log \in Seq([term : Nat, change : Change]) /\ n.term \in Nat
        /\ Len(n.log) \in Nat /\ n.commit \in Nat /\ n.applied \in Nat
        /\ n.pendingConfIndex \in Nat /\ n.applied =< n.commit
    BY DEF InTurn, Shaped
  <2>2. e \in [term : Nat, change : Change] /\ e.change = ch
    BY <2>1
  <2> HIDE DEF e, o
  <2>3. \A k \in ChangesIn(g.log) : k \in ChangesIn(n.log) \/ (k = Len(n.log) + 1 /\ IsChange(ch))
    <3> SUFFICES ASSUME NEW k \in ChangesIn(g.log)
                 PROVE  k \in ChangesIn(n.log) \/ (k = Len(n.log) + 1 /\ IsChange(ch))
      OBVIOUS
    <3> DEFINE S == [term : Nat, change : Change]
    <3>1. k \in ChangesIn(Append(n.log, e))
      BY <1>2
    <3>2. n.log \in Seq(S) /\ e \in S
      BY <2>1, <2>2
    <3> HIDE DEF S
    <3> QED
      BY <2>2, <3>1, <3>2, ChangesAfterAppend
  <2>4. \A k \in ChangesIn(n.log) : k \in 1..Len(n.log)
    BY DEF ChangesIn
  <2>5. ASSUME NEW k \in ChangesIn(g.log), NEW l \in ChangesIn(g.log), k < l
        PROVE  /\ k =< g.commit
               /\ g.role # "Follower" => k =< g.applied
    <3>1. k \in ChangesIn(n.log)
      BY <2>1, <2>3, <2>4, <2>5
    <3>2. CASE l \in ChangesIn(n.log)
      BY <1>2, <2>5, <3>1, <3>2 DEF InTurn, EarlierCommitted, EarlierApplied
    <3>3. CASE IsChange(ch)
      <4>1. k =< n.applied /\ k \in Nat
        BY <2>1, <2>4, <3>1, <3>3
      <4> QED
        BY <1>2, <2>1, <4>1
    <3> QED
      BY <2>3, <3>2, <3>3
  <2>6. ASSUME g.role = "Leader", NEW k \in ChangesIn(g.log)
        PROVE  k =< g.pendingConfIndex
    <3>1. CASE IsChange(ch)
      <4>1. k \in 1..Len(n.log) + 1 /\ g.pendingConfIndex = Len(n.log) + 1
        BY <1>2, <2>1, <2>3, <2>4, <2>6, <3>1
      <4> QED
        BY <2>1, <4>1
    <3>2. CASE k \in ChangesIn(n.log)
      BY <1>2, <2>6, <3>2 DEF InTurn, Noted
    <3> QED
      BY <2>3, <3>1, <3>2
  <2>7. InTurn(g)
    BY <1>2, <2>1, <2>5, <2>6 DEF InTurn, EarlierCommitted, Noted, EarlierApplied
  <2> QED
    BY <1>2, <2>7, KeepsInTurn
<1>3. Shaped(n)
  BY DEF InTurn
<1> QED
  <2>1. \/ o = n
        \/ \E g : /\ g.log = Append(n.log, e)
                  /\ g.role = n.role /\ g.applied = n.applied
                  /\ g.commit = n.commit
                  /\ g.pendingConfIndex = n.pendingConfIndex
                  /\ Shaped(g) /\ Keeps(g, o)
    BY <1>3, AppendEntryAdds
  <2> HIDE DEF o, e
  <2>2. InTurn(o)
    BY <1>1, <1>2, <2>1
  <2> QED
    BY <2>2 DEF o

\* Entering a term, or a role in it
LEMMA ResetFields ==
    ASSUME NEW n, Shaped(n), NEW t \in Nat
    PROVE  LET o == Reset(n, t)
           IN  /\ Shaped(o) /\ o.role = n.role /\ o.log = n.log /\ o.term = t
               /\ o.commit = n.commit /\ o.applied = n.applied /\ o.pendingConfIndex = 0
               /\ o.conf = n.conf
  BY DEF Shaped, Reset

\* A node that becomes a follower
LEMMA BecomeFollowerInTurn ==
    ASSUME NEW n, InTurn(n), NEW t \in Nat, NEW lead
    PROVE  LET o == BecomeFollower(n, t, lead)
           IN  /\ InTurn(o) /\ o.role = "Follower" /\ o.log = n.log
               /\ o.commit = n.commit /\ o.applied = n.applied
<1> DEFINE r == Reset(n, t)
           o == BecomeFollower(n, t, lead)
<1>1. /\ Shaped(r) /\ r.log = n.log /\ r.commit = n.commit /\ r.applied = n.applied
  BY ResetFields DEF InTurn
<1>2. o = [r EXCEPT !.role = "Follower", !.lead = lead]
  BY DEF BecomeFollower
<1> HIDE DEF r, o
<1>3. /\ Shaped(o) /\ o.role = "Follower" /\ o.log = r.log /\ o.commit = r.commit
      /\ o.applied = r.applied
  BY <1>1, <1>2 DEF Shaped
<1>4. InTurn(o)
  BY <1>1, <1>3 DEF InTurn, EarlierCommitted, Noted, EarlierApplied
<1> QED
  BY <1>1, <1>3, <1>4 DEF o

\* A candidate, whether it is elected or not
LEMMA TallyInTurn ==
    ASSUME NEW i \in Server, NEW n, InTurn(n), n.role # "Follower"
    PROVE  InTurn(Tally(i, n))
<1> DEFINE r == Reset(n, n.term)
           b == [r EXCEPT !.role = "Leader", !.lead = i, !.match[i] = Len(n.log),
                          !.pendingConfIndex = Len(n.log)]
<1>1. CASE IsQuorum(n.granted, n.conf)
  <2>1. /\ Shaped(n) /\ n.term \in Nat /\ Len(n.log) \in Nat
    BY DEF InTurn, Shaped
  <2>2. /\ Shaped(r) /\ r.log = n.log /\ r.commit = n.commit /\ r.applied = n.applied
    BY <2>1, ResetFields
  <2>3. Tally(i, n) = AppendEntry(i, b, Plain("empty"))
    BY <1>1 DEF Tally, BecomeLeader
  <2> HIDE DEF r
  <2>4. /\ Shaped(b) /\ b.role = "Leader" /\ b.log = n.log /\ b.commit = n.commit
        /\ b.applied = n.applied /\ b.pendingConfIndex = Len(n.log)
    BY <2>1, <2>2 DEF Shaped
  <2> HIDE DEF b
  <2>5. \A k \in ChangesIn(n.log) : k =< Len(n.log)
    BY <2>1 DEF ChangesIn
  <2>6. InTurn(b)
    BY <2>4, <2>5 DEF InTurn, EarlierCommitted, Noted, EarlierApplied
  <2>7. Plain("empty") \in Change /\ ~IsChange(Plain("empty"))
    BY DEF Plain, Change, IsChange
  <2> QED
    BY <2>3, <2>6, <2>7, AppendInTurn
<1>2. CASE ~IsQuorum(n.granted, n.conf)
  BY <1>2 DEF Tally
<1> QED
  BY <1>1, <1>2

\* A campaign begins where no committed change waits
LEMMA CandidateInTurn ==
    ASSUME NEW n, InTurn(n), ~HasUnappliedConfChanges(n), NEW i
    PROVE  LET c == [Reset(n, n.term + 1) EXCEPT !.role = "Candidate", !.vote = i,
                                                 !.granted = {i}]
           IN  InTurn(c) /\ c.role = "Candidate"
<1> DEFINE r == Reset(n, n.term + 1)
           c == [r EXCEPT !.role = "Candidate", !.vote = i, !.granted = {i}]
<1>1. Shaped(n) /\ n.term + 1 \in Nat
  BY DEF InTurn, Shaped
<1>2. /\ n.commit \in Nat /\ n.applied \in Nat /\ Len(n.log) \in Nat
  BY <1>1 DEF Shaped
<1>3. /\ Shaped(r) /\ r.log = n.log /\ r.commit = n.commit /\ r.applied = n.applied
  BY <1>1, ResetFields
<1> HIDE DEF r
<1>4. /\ Shaped(c) /\ c.role = "Candidate" /\ c.log = n.log /\ c.commit = n.commit
      /\ c.applied = n.applied
  BY <1>3 DEF Shaped
<1> HIDE DEF c
<1>5. ASSUME NEW k \in ChangesIn(n.log), NEW l \in ChangesIn(n.log), k < l
      PROVE  k =< n.applied
  <2>1. k =< n.commit /\ k \in 1..Len(n.log) /\ IsChange(n.log[k].change)
    BY <1>5 DEF InTurn, EarlierCommitted, ChangesIn
  <2>2. k \notin n.applied + 1 .. n.commit
    BY <2>1 DEF HasUnappliedConfChanges
  <2> QED
    BY <1>2, <2>1, <2>2
<1>6. InTurn(c)
  BY <1>4, <1>5 DEF InTurn, EarlierCommitted, Noted, EarlierApplied
<1> QED
  BY <1>4, <1>6 DEF c, r

\* So the node that campaigns is in turn, whether it leads at once or not
LEMMA CampaignInTurn ==
    ASSUME ChangesInv, NEW i \in Server, Campaign(i)
    PROVE  \E o : node' = [node EXCEPT ![i] = o] /\ InTurn(o)
<1> DEFINE n == node[i]
           c == [Reset(n, n.term + 1) EXCEPT !.role = "Candidate", !.vote = i, !.granted = {i}]
<1>1. node' = [node EXCEPT ![i] = Tally(i, c)] /\ ~HasUnappliedConfChanges(n)
  BY DEF Campaign
<1>2. InTurn(n)
  BY DEF ChangesInv
<1>3. InTurn(c) /\ c.role = "Candidate"
  BY <1>1, <1>2, CandidateInTurn
<1> HIDE DEF c
<1>4. InTurn(Tally(i, c))
  BY <1>3, TallyInTurn
<1> QED
  BY <1>1, <1>4

\* A vote
LEMMA VoteInTurn ==
    ASSUME ChangesInv, NEW i \in Server, NEW j \in Server, Vote(i, j)
    PROVE  ChangesInv'
<1> DEFINE n == node[i]
           voter == IF node[j].term < n.term THEN BecomeFollower(node[j], n.term, None)
                    ELSE node[j]
           given == [voter EXCEPT !.vote = i]
           more == [n EXCEPT !.granted = @ \cup {j}]
<1>1. InTurn(n) /\ Shaped(n) /\ n.term \in Nat /\ InTurn(node[j])
  BY DEF ChangesInv, InTurn, Shaped
<1>2. n.role = "Candidate"
  BY DEF Vote
<1>3. \/ node' = [node EXCEPT ![j] = given, ![i] = Tally(i, more)]
      \/ node' = [node EXCEPT ![j] = voter]
  BY DEF Vote
<1>4. node = [k \in Server |-> node[k]] /\ \A k \in Server : InTurn(node[k])
  BY DEF ChangesInv
<1>5. InTurn(voter)
  <2>1. InTurn(BecomeFollower(node[j], n.term, None))
    BY <1>1, BecomeFollowerInTurn
  <2> QED
    BY <1>1, <2>1
<1> HIDE DEF n, voter
<1>6. Keeps(voter, given)
  <2>1. Shaped(voter) /\ voter.commit \in Nat
    BY <1>5 DEF InTurn, Shaped
  <2>2. Shaped(given)
    BY <2>1 DEF Shaped
  <2>3. /\ given.role = voter.role /\ given.log = voter.log /\ given.term = voter.term
        /\ given.applied = voter.applied /\ given.commit = voter.commit
        /\ given.pendingConfIndex = voter.pendingConfIndex
    BY <2>1 DEF Shaped
  <2> HIDE DEF given
  <2> QED
    BY <2>1, <2>2, <2>3 DEF Keeps
<1>7. Keeps(n, more)
  <2>1. n.commit \in Nat
    BY <1>1 DEF Shaped
  <2>2. Shaped(more)
    BY <1>1 DEF Shaped
  <2>3. /\ more.role = n.role /\ more.log = n.log /\ more.term = n.term
        /\ more.applied = n.applied /\ more.commit = n.commit
        /\ more.pendingConfIndex = n.pendingConfIndex
    BY <1>1 DEF Shaped
  <2> HIDE DEF more
  <2> QED
    BY <2>1, <2>2, <2>3 DEF Keeps
<1> HIDE DEF given, more
<1>8. InTurn(given) /\ InTurn(more) /\ more.role # "Follower"
  BY <1>1, <1>2, <1>5, <1>6, <1>7, KeepsInTurn DEF Keeps
<1>9. InTurn(Tally(i, more))
  BY <1>8, TallyInTurn
<1> QED
  BY <1>3, <1>4, <1>5, <1>8, <1>9 DEF ChangesInv

\* One that steps down
LEMMA StepDownInTurn ==
    ASSUME ChangesInv, NEW i \in Server, NEW j \in Server, StepDown(i, j)
    PROVE  ChangesInv'
<1>1. InTurn(node[i]) /\ InTurn(node[j]) /\ node = [k \in Server |-> node[k]]
  BY DEF ChangesInv
<1>2. node[j].term \in Nat
  BY <1>1 DEF InTurn, Shaped
<1>3. InTurn(BecomeFollower(node[i], node[j].term, None))
  BY <1>1, <1>2, BecomeFollowerInTurn
<1>4. node' = [node EXCEPT ![i] = BecomeFollower(node[i], node[j].term, None)]
  BY DEF StepDown
<1> QED
  BY <1>1, <1>3, <1>4 DEF ChangesInv

\* The changes in the beginning of a log
LEMMA ChangesInPart ==
    ASSUME NEW S, NEW log \in Seq(S), NEW k \in 0..Len(log)
    PROVE  /\ SubSeq(log, 1, k) \in Seq(S)
           /\ \A x \in ChangesIn(SubSeq(log, 1, k)) : x \in ChangesIn(log) /\ x =< k
<1>1. /\ SubSeq(log, 1, k) \in Seq(S) /\ Len(SubSeq(log, 1, k)) = k
      /\ \A x \in 1..k : SubSeq(log, 1, k)[x] = log[x]
      /\ Len(log) \in Nat
  OBVIOUS
<1>2. ASSUME NEW x \in ChangesIn(SubSeq(log, 1, k))
      PROVE  x \in ChangesIn(log) /\ x =< k
  <2>1. x \in 1..k /\ IsChange(SubSeq(log, 1, k)[x].change)
    BY <1>1 DEF ChangesIn
  <2>2. x \in 1..Len(log) /\ SubSeq(log, 1, k)[x] = log[x] /\ x =< k
    BY <1>1, <2>1
  <2> QED
    BY <2>1, <2>2 DEF ChangesIn
<1> QED
  BY <1>1, <1>2

\* What a leader replicates goes with its commit index
LEMMA ReplicateInTurn ==
    ASSUME ChangesInv, NEW i \in Server, NEW j \in Server, NEW k \in 0 .. Len(node[i].log),
           Replicate(i, j, k)
    PROVE  ChangesInv'
<1> DEFINE n == node[i]
           peer == IF node[j].role # "Follower" \/ node[j].term < n.term
                   THEN BecomeFollower(node[j], n.term, i) ELSE [node[j] EXCEPT !.lead = i]
           has == Len(peer.log) >= k /\ SubSeq(peer.log, 1, k) = SubSeq(n.log, 1, k)
           part == SubSeq(n.log, 1, k)
           commit == Max({peer.commit, Min({n.commit, k})})
           o == [peer EXCEPT !.log = IF has THEN @ ELSE part,
                             !.commit = Max({@, Min({n.commit, k})})]
           counted == [n EXCEPT !.match[j] = k]
<1>1. /\ node' = [node EXCEPT ![j] = o, ![i] = MaybeCommit(counted)]
      /\ j # i
  BY DEF Replicate
<1>2. node = [x \in Server |-> node[x]] /\ \A x \in Server : InTurn(node[x])
  BY DEF ChangesInv
<1>3. InTurn(n) /\ InTurn(node[j]) /\ k \in 0..Len(n.log)
  BY <1>2
<1>4. Shaped(n) /\ Shaped(node[j])
  BY <1>3 DEF InTurn
<1>5. InTurn(peer) /\ peer.role = "Follower"
  <2>1. n.term \in Nat
    <3> HIDE DEF n
    <3> QED
      BY <1>4 DEF Shaped
  <2>2. /\ InTurn(BecomeFollower(node[j], n.term, i))
        /\ BecomeFollower(node[j], n.term, i).role = "Follower"
    BY <1>3, <2>1, BecomeFollowerInTurn
  <2>3. ASSUME node[j].role = "Follower"
        PROVE  InTurn([node[j] EXCEPT !.lead = i]) /\ [node[j] EXCEPT !.lead = i].role = "Follower"
    <3> DEFINE f == [node[j] EXCEPT !.lead = i]
    <3>1. /\ Shaped(f) /\ f.log = node[j].log /\ f.commit = node[j].commit
          /\ f.applied = node[j].applied /\ f.role = "Follower"
      BY <1>4, <2>3 DEF Shaped
    <3> HIDE DEF f
    <3>2. InTurn(f)
      BY <1>3, <3>1 DEF InTurn, EarlierCommitted, Noted, EarlierApplied
    <3> QED
      BY <3>1, <3>2 DEF f
  <2> QED
    BY <2>2, <2>3
<1> HIDE DEF n, peer
<1>6. /\ n.log \in Seq([term : Nat, change : Change]) /\ n.commit \in Nat /\ k \in Nat
      /\ Shaped(peer) /\ peer.commit \in Nat /\ peer.applied \in Nat
      /\ peer.applied =< peer.commit
      /\ peer.log \in Seq([term : Nat, change : Change])
  BY <1>3, <1>4, <1>5 DEF InTurn, Shaped
<1>7. /\ commit \in Nat /\ commit >= peer.commit
      /\ \A x \in Nat : x =< n.commit /\ x =< k => x =< commit
  <2> DEFINE least == Min({n.commit, k})
  <2>1. least = IF n.commit <= k THEN n.commit ELSE k
    BY <1>6, MinPair
  <2>2. least \in Nat
    BY <1>6, <2>1
  <2> HIDE DEF least
  <2>3. Max({peer.commit, least}) = IF peer.commit >= least THEN peer.commit ELSE least
    BY <1>6, <2>2, MaxPair
  <2>4. commit = Max({peer.commit, least})
    BY DEF least
  <2> HIDE DEF commit
  <2>5. commit \in Nat /\ commit >= peer.commit /\ commit >= least
    BY <1>6, <2>2, <2>3, <2>4
  <2> QED
    BY <1>6, <2>1, <2>2, <2>5
<1>8. /\ part \in Seq([term : Nat, change : Change])
      /\ \A x \in ChangesIn(part) : x \in ChangesIn(n.log) /\ x =< k
  <2> DEFINE S == [term : Nat, change : Change]
  <2>1. n.log \in Seq(S)
    BY <1>6
  <2> HIDE DEF S
  <2>2. /\ part \in Seq(S)
        /\ \A x \in ChangesIn(part) : x \in ChangesIn(n.log) /\ x =< k
    BY <1>3, <2>1, ChangesInPart
  <2> QED
    BY <2>2 DEF S
<1>9. /\ o.log \in {peer.log, part} /\ o.commit = commit /\ o.applied = peer.applied
      /\ o.role = "Follower"
  <2> HIDE DEF part, has
  <2> QED
    BY <1>5, <1>6 DEF Shaped
<1>10. Shaped(o)
  <2>1. o = [peer EXCEPT !.log = IF has THEN @ ELSE part, !.commit = commit]
    OBVIOUS
  <2> HIDE DEF part, has, commit, o
  <2>2. (IF has THEN peer.log ELSE part) \in Seq([term : Nat, change : Change])
    BY <1>6, <1>8
  <2> QED
    BY <1>6, <1>7, <2>1, <2>2 DEF Shaped
<1> HIDE DEF o, part, commit
<1>11. ASSUME NEW x \in ChangesIn(o.log), NEW y \in ChangesIn(o.log), x < y
       PROVE  x =< o.commit
  <2>1. CASE o.log = peer.log
    <3>1. x =< peer.commit
      BY <1>5, <1>11, <2>1 DEF InTurn, EarlierCommitted
    <3>2. x \in 1..Len(peer.log)
      BY <2>1 DEF ChangesIn
    <3> QED
      BY <1>6, <1>7, <1>9, <3>1, <3>2
  <2>2. CASE o.log = part
    <3>1. x \in ChangesIn(n.log) /\ y \in ChangesIn(n.log) /\ x =< k
      BY <1>8, <2>2
    <3>2. x =< n.commit
      BY <1>3, <1>11, <3>1 DEF InTurn, EarlierCommitted
    <3>3. x \in 1..Len(n.log)
      BY <3>1 DEF ChangesIn
    <3> QED
      BY <1>6, <1>7, <1>9, <3>1, <3>2, <3>3
  <2> QED
    BY <1>9, <2>1, <2>2
<1>12. InTurn(o)
  <2>1. o.applied =< o.commit
    BY <1>6, <1>7, <1>9
  <2> QED
    BY <1>9, <1>10, <1>11, <2>1 DEF InTurn, EarlierCommitted, Noted, EarlierApplied
<1>13. InTurn(MaybeCommit(counted))
  <2>1. /\ Shaped(counted) /\ counted.role = n.role /\ counted.log = n.log
        /\ counted.term = n.term /\ counted.applied = n.applied /\ counted.commit = n.commit
        /\ counted.pendingConfIndex = n.pendingConfIndex
    BY <1>4 DEF Shaped
  <2> HIDE DEF counted
  <2>2. Keeps(n, counted)
    BY <1>6, <2>1 DEF Keeps
  <2>3. Keeps(counted, MaybeCommit(counted))
    BY <2>1, MaybeCommitKeeps
  <2> QED
    BY <1>3, <2>2, <2>3, KeepsInTurn
<1> HIDE DEF counted
<1> QED
  BY <1>1, <1>2, <1>12, <1>13 DEF ChangesInv

\* A leader takes a change when it has applied all before it
LEMMA StepPropInTurn ==
    ASSUME NEW i \in Server, NEW n, InTurn(n), n.role = "Leader", NEW ch \in Change
    PROVE  InTurn(StepProp(i, n, ch))
<1> DEFINE noted == [n EXCEPT !.pendingConfIndex = Len(n.log) + 1]
<1>1. Plain("empty") \in Change /\ ~IsChange(Plain("empty"))
  BY DEF Plain, Change, IsChange
<1>2. CASE Refused(n, ch)
  BY <1>1, <1>2, AppendInTurn DEF StepProp
<1>3. CASE ~Refused(n, ch) /\ ~IsChange(ch)
  BY <1>3, AppendInTurn DEF StepProp
<1>4. CASE ~Refused(n, ch) /\ IsChange(ch)
  <2>1. StepProp(i, n, ch) = AppendEntry(i, noted, ch)
    BY <1>4 DEF StepProp
  <2>2. Shaped(n) /\ Len(n.log) \in Nat /\ n.applied \in Nat /\ n.pendingConfIndex \in Nat
    BY DEF InTurn, Shaped
  <2>3. n.pendingConfIndex =< n.applied
    BY <1>4, <2>2 DEF Refused, Pending
  <2>4. \A k \in ChangesIn(n.log) : k \in 1..Len(n.log) /\ k =< n.pendingConfIndex
    BY DEF InTurn, Noted, ChangesIn
  <2>5. \A k \in ChangesIn(n.log) : k =< n.applied /\ k =< Len(n.log) + 1
    BY <2>2, <2>3, <2>4
  <2>6. /\ Shaped(noted) /\ noted.role = n.role /\ noted.log = n.log
        /\ noted.applied = n.applied /\ noted.commit = n.commit
        /\ noted.pendingConfIndex = Len(n.log) + 1
    BY <2>2 DEF Shaped
  <2> HIDE DEF noted
  <2>7. InTurn(noted)
    BY <2>5, <2>6 DEF InTurn, EarlierCommitted, Noted, EarlierApplied
  <2> QED
    BY <2>1, <2>5, <2>6, <2>7, AppendInTurn
<1> QED
  BY <1>2, <1>3, <1>4

\* What is applied changes the configuration, and may show that more is committed
LEMMA SwitchToConfigKeeps ==
    ASSUME NEW i \in Server, NEW n, Shaped(n), NEW conf
    PROVE  Keeps(n, SwitchToConfig(i, n, conf))
<1> DEFINE s == [n EXCEPT !.conf = conf,
                          !.match = [j \in Server |->
                                       IF j \in Members(n.conf) \cap Members(conf) THEN @[j]
                                       ELSE 0]]
<1>1. SwitchToConfig(i, n, conf) = IF i \in Members(conf) THEN MaybeCommit(s) ELSE s
  BY DEF SwitchToConfig
<1>2. n.commit \in Nat
  BY DEF Shaped
<1>3. /\ Shaped(s) /\ s.role = n.role /\ s.log = n.log /\ s.term = n.term
      /\ s.applied = n.applied /\ s.commit = n.commit
      /\ s.pendingConfIndex = n.pendingConfIndex
  BY DEF Shaped
<1> HIDE DEF s
<1>4. Keeps(n, s)
  BY <1>2, <1>3 DEF Keeps
<1>5. Keeps(n, MaybeCommit(s))
  BY <1>3, <1>4, MaybeCommitKeeps, KeepsTrans
<1> QED
  BY <1>1, <1>4, <1>5

\* What applying entries one by one leads to: the recursive function is what it says.  The
\* function for a longer stretch agrees with the one for a shorter on what both are about.
LEMMA ApplyEntriesDef ==
    ASSUME NEW i, NEW n, NEW a \in Nat, n.applied = a
    PROVE  /\ ApplyEntries(i, n, a) = n
           /\ \A k \in Nat : k > a =>
                ApplyEntries(i, n, k) =
                  LET s == ApplyEntries(i, n, k - 1)
                  IN  IF IsChange(n.log[k].change)
                      THEN SwitchToConfig(i, s, Changed(s.conf, n.log[k].change))
                      ELSE s
<1> DEFINE next(x, s) == IF IsChange(n.log[x].change)
                         THEN SwitchToConfig(i, s, Changed(s.conf, n.log[x].change))
                         ELSE s
           After(f, y) == f = [x \in a .. y |-> IF x = a THEN n ELSE next(x, f[x - 1])]
           N == {y \in Nat : \E f : After(f, a + y)}
           F(y) == CHOOSE f : After(f, y)
<1>1. \A y \in Nat : ApplyEntries(i, n, y) = F(y)[y]
  BY DEF ApplyEntries
<1>2. N = Nat
  <2>1. 0 \in N
    <3>1. After([x \in a .. a + 0 |-> n], a + 0)
      OBVIOUS
    <3> QED
      BY <3>1
  <2>2. ASSUME NEW y \in N PROVE y + 1 \in N
    <3>1. y \in Nat
      OBVIOUS
    <3>2. PICK g : After(g, a + y)
      BY <2>2
    <3> DEFINE z == a + y
               f == [x \in a .. z + 1 |-> IF x = z + 1 THEN next(x, g[z]) ELSE g[x]]
    <3>3. z \in Nat /\ a =< z
      BY <3>1
    <3>4. g = [x \in a .. z |-> IF x = a THEN n ELSE next(x, g[x - 1])]
      BY <3>2
    <3> HIDE DEF next, z
    <3>5. \A x \in a .. z + 1 : f[x] = IF x = a THEN n ELSE next(x, f[x - 1])
      <4> SUFFICES ASSUME NEW x \in a .. z + 1
                   PROVE  f[x] = IF x = a THEN n ELSE next(x, f[x - 1])
        OBVIOUS
      <4>1. CASE x = z + 1
        <5>1. x # a /\ x - 1 = z /\ z \in a .. z + 1 /\ z # z + 1
          BY <3>3, <4>1
        <5>2. f[x] = next(x, g[z]) /\ f[z] = g[z]
          BY <4>1, <5>1
        <5> HIDE DEF f
        <5> QED
          BY <5>1, <5>2
      <4>2. CASE x # z + 1
        <5>1. x \in a .. z /\ f[x] = g[x]
          BY <3>3, <4>2
        <5>2. x # a => x - 1 \in a .. z /\ x - 1 \in a .. z + 1 /\ x - 1 # z + 1
          BY <3>3, <5>1
        <5>3. x # a => f[x - 1] = g[x - 1]
          BY <5>2
        <5> HIDE DEF f
        <5> QED
          BY <3>4, <5>1, <5>3
      <4> QED
        BY <4>1, <4>2
    <3>6. f = [x \in a .. z + 1 |-> IF x = a THEN n ELSE next(x, f[x - 1])]
      BY <3>5
    <3>7. z + 1 = a + (y + 1)
      BY <3>1 DEF z
    <3> HIDE DEF f
    <3>8. After(f, a + (y + 1))
      BY <3>6, <3>7
    <3>9. y + 1 \in Nat
      BY <3>1
    <3> HIDE DEF After
    <3> QED
      BY <3>8, <3>9
  <2> HIDE DEF After
  <2>3. N \in SUBSET Nat
    OBVIOUS
  <2> HIDE DEF N
  <2> QED
    BY <2>1, <2>2, <2>3, AllNumbers
<1>3. ASSUME NEW k \in Nat, k >= a PROVE After(F(k), k)
  <2>1. k - a \in Nat /\ a + (k - a) = k
    BY <1>3
  <2> HIDE DEF After
  <2>2. \E f : After(f, k)
    BY <1>2, <2>1
  <2> QED
    BY <2>2
<1>4. \A k \in Nat : k >= a => \A x \in a .. k :
          F(k)[x] = IF x = a THEN n ELSE next(x, F(k)[x - 1])
  <2> SUFFICES ASSUME NEW k \in Nat, k >= a, NEW x \in a .. k
               PROVE  F(k)[x] = IF x = a THEN n ELSE next(x, F(k)[x - 1])
    OBVIOUS
  <2> DEFINE f == F(k)
  <2>1. f = [w \in a .. k |-> IF w = a THEN n ELSE next(w, f[w - 1])]
    BY <1>3
  <2> HIDE DEF f, next
  <2>2. f[x] = IF x = a THEN n ELSE next(x, f[x - 1])
    BY <2>1
  <2> QED
    BY <2>2 DEF f
<1> HIDE DEF F, next
<1>5. F(a)[a] = n
  BY <1>4
<1>6. ASSUME NEW k \in Nat, k > a PROVE F(k)[k - 1] = F(k - 1)[k - 1]
  <2> DEFINE M == {y \in Nat : a + y =< k - 1 => F(k)[a + y] = F(k - 1)[a + y]}
  <2>1. k - 1 \in Nat /\ k - 1 >= a /\ k >= a
    BY <1>6
  <2>2. 0 \in M
    <3>1. a \in a .. k /\ a \in a .. k - 1 /\ a + 0 = a
      BY <2>1
    <3>2. F(k)[a] = n /\ F(k - 1)[a] = n
      BY <1>4, <2>1, <3>1
    <3> QED
      BY <3>1, <3>2
  <2>3. ASSUME NEW y \in M PROVE y + 1 \in M
    <3>1. y \in Nat
      OBVIOUS
    <3>2. ASSUME a + (y + 1) =< k - 1
          PROVE  F(k)[a + (y + 1)] = F(k - 1)[a + (y + 1)]
      <4> DEFINE x == a + (y + 1)
      <4>1. x \in a .. k /\ x \in a .. k - 1 /\ x # a /\ x - 1 = a + y /\ a + y =< k - 1
        BY <2>1, <3>1, <3>2
      <4> HIDE DEF x
      <4>2. F(k)[x] = next(x, F(k)[x - 1]) /\ F(k - 1)[x] = next(x, F(k - 1)[x - 1])
        BY <1>4, <2>1, <4>1
      <4>3. F(k)[x - 1] = F(k - 1)[x - 1]
        BY <4>1
      <4> QED
        BY <4>2, <4>3 DEF x
    <3> QED
      BY <3>1, <3>2
  <2>4. M \in SUBSET Nat
    OBVIOUS
  <2>5. k - 1 - a \in Nat /\ a + (k - 1 - a) = k - 1
    BY <2>1
  <2>6. k - 1 - a \in M
    <3> HIDE DEF M
    <3> QED
      BY <2>2, <2>3, <2>4, <2>5, AllNumbers
  <2> QED
    BY <2>5, <2>6
<1>7. ASSUME NEW k \in Nat, k > a PROVE F(k)[k] = next(k, F(k - 1)[k - 1])
  <2>1. k \in a .. k /\ k # a /\ k >= a
    BY <1>7
  <2>2. F(k)[k] = next(k, F(k)[k - 1])
    BY <1>4, <2>1
  <2> QED
    BY <1>6, <1>7, <2>2
<1>8. \A k \in Nat : k > a => k - 1 \in Nat
  OBVIOUS
<1> QED
  BY <1>1, <1>5, <1>7, <1>8 DEF next

\* So any number of entries changes a node no more than one does
LEMMA ApplyEntriesKeeps ==
    ASSUME NEW i \in Server, NEW n, Shaped(n), NEW k \in Nat, n.applied =< k
    PROVE  Keeps(n, ApplyEntries(i, n, k))
<1> DEFINE S(x) == ApplyEntries(i, n, x)
           a == n.applied
           M == {y \in Nat : Keeps(n, S(a + y))}
<1>1. a \in Nat /\ n.commit \in Nat
  BY DEF Shaped
<1>2. /\ S(a) = n
      /\ \A x \in Nat : x > a =>
           S(x) = IF IsChange(n.log[x].change)
                  THEN SwitchToConfig(i, S(x - 1), Changed(S(x - 1).conf, n.log[x].change))
                  ELSE S(x - 1)
  BY <1>1, ApplyEntriesDef
<1> HIDE DEF S, a
<1>3. 0 \in M
  <2>1. Keeps(n, n) /\ a + 0 = a
    BY <1>1 DEF Keeps
  <2> QED
    BY <1>2, <2>1
<1>4. ASSUME NEW y \in M PROVE y + 1 \in M
  <2> DEFINE x == a + (y + 1)
             s == S(x - 1)
  <2>1. y \in Nat /\ x \in Nat /\ x > a /\ x - 1 = a + y
    BY <1>1
  <2>2. Keeps(n, s)
    BY <2>1
  <2> HIDE DEF x
  <2>3. S(x) = IF IsChange(n.log[x].change)
               THEN SwitchToConfig(i, s, Changed(s.conf, n.log[x].change)) ELSE s
    BY <1>2, <2>1
  <2> HIDE DEF s
  <2>4. Shaped(s)
    BY <2>2 DEF Keeps
  <2>5. Keeps(n, SwitchToConfig(i, s, Changed(s.conf, n.log[x].change)))
    BY <2>2, <2>4, SwitchToConfigKeeps, KeepsTrans
  <2>6. Keeps(n, S(x))
    BY <2>2, <2>3, <2>5
  <2> QED
    BY <2>1, <2>6 DEF x
<1>5. M \in SUBSET Nat
  OBVIOUS
<1>6. k - a \in Nat /\ a + (k - a) = k
  BY <1>1 DEF a
<1>7. k - a \in M
  <2> HIDE DEF M
  <2> QED
    BY <1>3, <1>4, <1>5, <1>6, AllNumbers
<1> QED
  BY <1>6, <1>7 DEF S

\* Entries that are committed are applied
LEMMA AppliedInTurn ==
    ASSUME NEW i \in Server, NEW n, InTurn(n), NEW k \in n.applied + 1 .. n.commit
    PROVE  InTurn([ApplyEntries(i, n, k) EXCEPT !.applied = k])
<1> DEFINE s == ApplyEntries(i, n, k)
           a == [s EXCEPT !.applied = k]
<1>1. Shaped(n) /\ n.applied \in Nat /\ n.commit \in Nat
  BY DEF InTurn, Shaped
<1>2. k \in Nat /\ n.applied =< k /\ k =< n.commit
  BY <1>1
<1>3. Keeps(n, s)
  BY <1>1, <1>2, ApplyEntriesKeeps
<1> HIDE DEF s
<1>4. InTurn(s) /\ Shaped(s) /\ s.applied = n.applied /\ s.commit >= n.commit /\ s.commit \in Nat
  BY <1>3, KeepsInTurn DEF Keeps, InTurn, Shaped
<1>5. /\ Shaped(a) /\ a.role = s.role /\ a.log = s.log /\ a.commit = s.commit
      /\ a.applied = k /\ a.pendingConfIndex = s.pendingConfIndex
  BY <1>2, <1>4 DEF Shaped
<1> HIDE DEF a
<1>6. \A x \in ChangesIn(s.log) : x \in 1..Len(s.log)
  BY DEF ChangesIn
<1>7. \A x \in ChangesIn(s.log) : x =< n.applied => x =< k
  BY <1>1, <1>2, <1>6
<1>8. a.applied =< a.commit
  BY <1>1, <1>2, <1>4, <1>5
<1>9. InTurn(a)
  BY <1>4, <1>5, <1>7, <1>8 DEF InTurn, EarlierCommitted, Noted, EarlierApplied
<1> QED
  BY <1>9 DEF a, s

\* Entries are applied, and a leader that is done with a joint configuration leaves it
LEMMA ApplyInTurn ==
    ASSUME ChangesInv, NEW i \in Server, NEW k, NEW handsOver, Apply(i, k, handsOver)
    PROVE  ChangesInv'
<1> DEFINE n == node[i]
           s == ApplyEntries(i, n, k)
           a == [s EXCEPT !.applied = k]
           told == AppliedTo(i, s, k, handsOver)
           o == [told EXCEPT !.uncommittedSize =
                    Reduced(told, Payload(n.log, n.applied, k))]
<1>1. node' = [node EXCEPT ![i] = o] /\ k \in n.applied + 1 .. n.commit
  BY DEF Apply
<1>2. node = [x \in Server |-> node[x]] /\ \A x \in Server : InTurn(node[x])
  BY DEF ChangesInv
<1>3. InTurn(a)
  BY <1>1, <1>2, AppliedInTurn
<1>4. Plain("leave") \in Change
  BY DEF Plain, Change
<1>5. told = a \/ (a.role = "Leader" /\ told = StepProp(i, a, Plain("leave")))
  BY DEF AppliedTo, a
<1> HIDE DEF a
<1>6. InTurn(told)
  BY <1>3, <1>4, <1>5, StepPropInTurn
<1> HIDE DEF told
<1>7. InTurn(o)
  <2>1. Shaped(told) /\ told.commit \in Nat
    BY <1>6 DEF InTurn, Shaped
  <2>2. /\ Shaped(o) /\ o.role = told.role /\ o.log = told.log /\ o.term = told.term
        /\ o.applied = told.applied /\ o.commit = told.commit
        /\ o.pendingConfIndex = told.pendingConfIndex
    BY <2>1 DEF Shaped
  <2> HIDE DEF o
  <2>3. Keeps(told, o)
    BY <2>1, <2>2 DEF Keeps
  <2> QED
    BY <1>6, <2>3, KeepsInTurn
<1> HIDE DEF o
<1> QED
  BY <1>1, <1>2, <1>7 DEF ChangesInv

\* No log has a change in the beginning.
LEMMA ChangesInit == Init => ChangesInv
<1> DEFINE n == [role |-> "Follower", term |-> 0, vote |-> None, lead |-> None,
                 granted |-> {}, log |-> <<>>, commit |-> 0, applied |-> 0,
                 conf |-> [voters |-> Bootstrapped, outgoing |-> {}, auto |-> FALSE],
                 match |-> [j \in Server |-> 0], pendingConfIndex |-> 0,
                 uncommittedSize |-> 0]
<1>1. Init => node = [i \in Server |-> n]
  BY DEF Init
<1>2. /\ n.role = "Follower" /\ n.log = <<>> /\ n.applied = 0 /\ n.commit = 0
  OBVIOUS
<1>3. Shaped(n)
  <2>1. <<>> \in Seq([term : Nat, change : Change])
    OBVIOUS
  <2> QED
    BY <2>1 DEF Shaped
<1> HIDE DEF n
<1>4. ChangesIn(n.log) = {}
  BY <1>2 DEF ChangesIn
<1>5. InTurn(n)
  BY <1>2, <1>3, <1>4 DEF InTurn, EarlierCommitted, Noted, EarlierApplied
<1> QED
  BY <1>1, <1>5 DEF ChangesInv

\* Every action keeps the changes in turn.
LEMMA ChangesStep == ChangesInv /\ [Next]_node => ChangesInv'
<1> SUFFICES ASSUME ChangesInv, [Next]_node PROVE ChangesInv'
  OBVIOUS
<1>1. node = [i \in Server |-> node[i]] /\ \A i \in Server : InTurn(node[i])
  BY DEF ChangesInv
<1>2. ASSUME NEW i \in Server, NEW o, node' = [node EXCEPT ![i] = o], InTurn(o)
      PROVE  ChangesInv'
  BY <1>1, <1>2 DEF ChangesInv
<1>3. ASSUME NEW i \in Server, Campaign(i) PROVE ChangesInv'
  BY <1>2, <1>3, CampaignInTurn
<1>4. ASSUME NEW i \in Server, NEW ch \in Changes \cup {Plain("normal")}, Propose(i, ch)
      PROVE  ChangesInv'
  <2>1. ch \in Change
    <3>1. Plain("normal") \in Change
      BY DEF Plain, Change
    <3>2. Changes \subseteq Change
      BY ReconfigurationAssumption
    <3> QED
      BY <3>1, <3>2
  <2>2. node' = [node EXCEPT ![i] = StepProp(i, node[i], ch)] /\ node[i].role = "Leader"
    BY <1>4 DEF Propose
  <2> QED
    BY <1>1, <1>2, <2>1, <2>2, StepPropInTurn
<1>5. CASE UNCHANGED node
  BY <1>5 DEF ChangesInv
<1> QED
  BY <1>3, <1>4, <1>5, VoteInTurn, StepDownInTurn, ReplicateInTurn, ApplyInTurn DEF Next

\* Two sets with a number less than any other of them
LEMMA AtMostOne ==
    ASSUME NEW S \in SUBSET Nat, \A k, l \in S : ~(k < l)
    PROVE  Cardinality(S) =< 1
<1>1. CASE S = {}
  BY <1>1, FS_EmptySet
<1>2. CASE S # {}
  <2>1. PICK k \in S : TRUE
    BY <1>2
  <2>2. \A l \in S : l = k
    OBVIOUS
  <2>3. S = {k}
    BY <2>1, <2>2
  <2>4. Cardinality({k}) = 1
    BY FS_Singleton
  <2> QED
    BY <2>3, <2>4
<1> QED
  BY <1>1, <1>2

\* A leader never has two changes that it has not applied, and knows of the one it may have:
\* with hup's look at what is committed and not applied, and each change that is refused
\* until the last is applied, pendingConfIndex is enough (becomeLeader, stepLeader, hup).
THEOREM ChangesAreInTurn == Spec => []OneChangePending
<1>1. ChangesInv => OneChangePending
  <2> SUFFICES ASSUME ChangesInv, NEW i \in Server, node[i].role = "Leader"
               PROVE  /\ Cardinality(Unapplied(node[i])) =< 1
                      /\ \A k \in Unapplied(node[i]) : k =< node[i].pendingConfIndex
    BY DEF OneChangePending
  <2> DEFINE n == node[i]
             U == Unapplied(n)
  <2>1. InTurn(n) /\ n.role = "Leader"
    BY DEF ChangesInv
  <2> HIDE DEF n
  <2>2. n.applied \in Nat /\ Len(n.log) \in Nat
    BY <2>1 DEF InTurn, Shaped
  <2>3. \A k \in U : k \in ChangesIn(n.log) /\ k \in Nat /\ k > n.applied
    BY <2>2 DEF Unapplied, ChangesIn
  <2> HIDE DEF U
  <2>4. \A k, l \in U : ~(k < l)
    <3> SUFFICES ASSUME NEW k \in U, NEW l \in U, k < l PROVE FALSE
      OBVIOUS
    <3>1. k =< n.applied
      BY <2>1, <2>3 DEF InTurn, EarlierApplied
    <3> QED
      BY <2>2, <2>3, <3>1
  <2>5. Cardinality(U) =< 1
    BY <2>3, <2>4, AtMostOne
  <2>6. \A k \in U : k =< n.pendingConfIndex
    BY <2>1, <2>3 DEF InTurn, Noted
  <2> QED
    BY <2>5, <2>6 DEF U, n
<1> QED
  BY <1>1, ChangesInit, ChangesStep, PTL DEF Spec

-----------------------------------------------------------------------------
(***************************************************************************)
(* What the logs of nodes have in common, and the configurations that logs *)
(* lead to.                                                                *)
(***************************************************************************)
\* A log
Log == Seq(Entry)

\* Two logs have the same first k entries
Has(a, b, k) == k =< Len(a) /\ k =< Len(b) /\ \A x \in 1..k : a[x] = b[x]

\* Whoever has more has less.
LEMMA HasLess ==
    ASSUME NEW a \in Log, NEW b \in Log, NEW k \in Nat, NEW l \in Nat, Has(a, b, k), l =< k
    PROVE  Has(a, b, l)
  BY DEF Has, Log

\* To have the same entries goes both ways,
LEMMA HasSym ==
    ASSUME NEW a, NEW b, NEW k, Has(a, b, k)
    PROVE  Has(b, a, k)
  BY DEF Has

\* is passed on,
LEMMA HasTrans ==
    ASSUME NEW a \in Log, NEW b \in Log, NEW c \in Log, NEW k \in Nat, NEW l \in Nat, NEW x \in Nat,
           Has(a, b, k), Has(b, c, l), x =< k, x =< l
    PROVE  Has(a, c, x)
<1>1. Has(a, b, x) /\ Has(b, c, x)
  BY HasLess
<1> QED
  BY <1>1 DEF Has

\* and holds of a log and itself.
LEMMA HasSelf ==
    ASSUME NEW a \in Log, NEW k \in Nat, k =< Len(a)
    PROVE  Has(a, a, k)
  BY DEF Has

\* A longer log has what it had
LEMMA HasAppend ==
    ASSUME NEW a \in Log, NEW e \in Entry
    PROVE  /\ Append(a, e) \in Log /\ Len(Append(a, e)) = Len(a) + 1
           /\ Append(a, e)[Len(a) + 1] = e
           /\ \A k \in 1..Len(a) : Append(a, e)[k] = a[k]
           /\ Has(Append(a, e), a, Len(a))
<1>1. Len(a) \in Nat
  BY DEF Log
<1>2. /\ Append(a, e) \in Log /\ Len(Append(a, e)) = Len(a) + 1
      /\ Append(a, e)[Len(a) + 1] = e
      /\ \A k \in 1..Len(a) : Append(a, e)[k] = a[k]
  BY DEF Log
<1> QED
  BY <1>1, <1>2 DEF Has

-----------------------------------------------------------------------------
\* The configuration that nodes begin with, and the one after the first k entries of a log
Initially == [voters |-> Bootstrapped, outgoing |-> {}, auto |-> FALSE]

\* The configuration that the first k entries of a log lead to
Conf(log, k) == ConfAfter(Initially, log, 0, k)

\* What ConfAfter computes.  The numbers y such that the entries a+1 .. a+y can be applied
\* are all.
LEMMA ConfAfterDef ==
    ASSUME NEW c, NEW log, NEW a \in Nat
    PROVE  /\ ConfAfter(c, log, a, a) = c
           /\ \A k \in Nat : k > a =>
                ConfAfter(c, log, a, k) = Changed(ConfAfter(c, log, a, k - 1), log[k].change)
<1> DEFINE next(x, s) == Changed(s, log[x].change)
           After(f, y) == f = [x \in a .. y |-> IF x = a THEN c ELSE next(x, f[x - 1])]
           N == {y \in Nat : \E f : After(f, a + y)}
           F(y) == CHOOSE f : After(f, y)
<1>1. \A y \in Nat : ConfAfter(c, log, a, y) = F(y)[y]
  BY DEF ConfAfter
<1>2. N = Nat
  <2>1. 0 \in N
    <3>1. After([x \in a .. a + 0 |-> c], a + 0)
      OBVIOUS
    <3> QED
      BY <3>1
  <2>2. ASSUME NEW y \in N PROVE y + 1 \in N
    <3>1. y \in Nat
      OBVIOUS
    <3>2. PICK g : After(g, a + y)
      BY <2>2
    <3> DEFINE z == a + y
               f == [x \in a .. z + 1 |-> IF x = z + 1 THEN next(x, g[z]) ELSE g[x]]
    <3>3. z \in Nat /\ a =< z
      BY <3>1
    <3>4. g = [x \in a .. z |-> IF x = a THEN c ELSE next(x, g[x - 1])]
      BY <3>2
    <3> HIDE DEF next, z
    <3>5. \A x \in a .. z + 1 : f[x] = IF x = a THEN c ELSE next(x, f[x - 1])
      <4> SUFFICES ASSUME NEW x \in a .. z + 1
                   PROVE  f[x] = IF x = a THEN c ELSE next(x, f[x - 1])
        OBVIOUS
      <4>1. CASE x = z + 1
        <5>1. x # a /\ x - 1 = z /\ z \in a .. z + 1 /\ z # z + 1
          BY <3>3, <4>1
        <5>2. f[x] = next(x, g[z]) /\ f[z] = g[z]
          BY <4>1, <5>1
        <5> HIDE DEF f
        <5> QED
          BY <5>1, <5>2
      <4>2. CASE x # z + 1
        <5>1. x \in a .. z /\ f[x] = g[x]
          BY <3>3, <4>2
        <5>2. x # a => x - 1 \in a .. z /\ x - 1 \in a .. z + 1 /\ x - 1 # z + 1
          BY <3>3, <5>1
        <5>3. x # a => f[x - 1] = g[x - 1]
          BY <5>2
        <5> HIDE DEF f
        <5> QED
          BY <3>4, <5>1, <5>3
      <4> QED
        BY <4>1, <4>2
    <3>6. f = [x \in a .. z + 1 |-> IF x = a THEN c ELSE next(x, f[x - 1])]
      BY <3>5
    <3>7. z + 1 = a + (y + 1)
      BY <3>1 DEF z
    <3> HIDE DEF f
    <3>8. After(f, a + (y + 1))
      BY <3>6, <3>7
    <3>9. y + 1 \in Nat
      BY <3>1
    <3> HIDE DEF After
    <3> QED
      BY <3>8, <3>9
  <2> HIDE DEF After
  <2>3. N \in SUBSET Nat
    OBVIOUS
  <2> HIDE DEF N
  <2> QED
    BY <2>1, <2>2, <2>3, AllNumbers
<1>3. ASSUME NEW k \in Nat, k >= a PROVE After(F(k), k)
  <2>1. k - a \in Nat /\ a + (k - a) = k
    BY <1>3
  <2> HIDE DEF After
  <2>2. \E f : After(f, k)
    BY <1>2, <2>1
  <2> QED
    BY <2>2
<1>4. \A k \in Nat : k >= a => \A x \in a .. k :
          F(k)[x] = IF x = a THEN c ELSE next(x, F(k)[x - 1])
  <2> SUFFICES ASSUME NEW k \in Nat, k >= a, NEW x \in a .. k
               PROVE  F(k)[x] = IF x = a THEN c ELSE next(x, F(k)[x - 1])
    OBVIOUS
  <2> DEFINE f == F(k)
  <2>1. f = [w \in a .. k |-> IF w = a THEN c ELSE next(w, f[w - 1])]
    BY <1>3
  <2> HIDE DEF f, next
  <2>2. f[x] = IF x = a THEN c ELSE next(x, f[x - 1])
    BY <2>1
  <2> QED
    BY <2>2 DEF f
<1> HIDE DEF F, next
<1>5. F(a)[a] = c
  BY <1>4
<1>6. ASSUME NEW k \in Nat, k > a PROVE F(k)[k - 1] = F(k - 1)[k - 1]
  <2> DEFINE M == {y \in Nat : a + y =< k - 1 => F(k)[a + y] = F(k - 1)[a + y]}
  <2>1. k - 1 \in Nat /\ k - 1 >= a /\ k >= a
    BY <1>6
  <2>2. 0 \in M
    <3>1. a \in a .. k /\ a \in a .. k - 1 /\ a + 0 = a
      BY <2>1
    <3>2. F(k)[a] = c /\ F(k - 1)[a] = c
      BY <1>4, <2>1, <3>1
    <3> QED
      BY <3>1, <3>2
  <2>3. ASSUME NEW y \in M PROVE y + 1 \in M
    <3>1. y \in Nat
      OBVIOUS
    <3>2. ASSUME a + (y + 1) =< k - 1
          PROVE  F(k)[a + (y + 1)] = F(k - 1)[a + (y + 1)]
      <4> DEFINE x == a + (y + 1)
      <4>1. x \in a .. k /\ x \in a .. k - 1 /\ x # a /\ x - 1 = a + y /\ a + y =< k - 1
        BY <2>1, <3>1, <3>2
      <4> HIDE DEF x
      <4>2. F(k)[x] = next(x, F(k)[x - 1]) /\ F(k - 1)[x] = next(x, F(k - 1)[x - 1])
        BY <1>4, <2>1, <4>1
      <4>3. F(k)[x - 1] = F(k - 1)[x - 1]
        BY <4>1
      <4> QED
        BY <4>2, <4>3 DEF x
    <3> QED
      BY <3>1, <3>2
  <2>4. M \in SUBSET Nat
    OBVIOUS
  <2>5. k - 1 - a \in Nat /\ a + (k - 1 - a) = k - 1
    BY <2>1
  <2>6. k - 1 - a \in M
    <3> HIDE DEF M
    <3> QED
      BY <2>2, <2>3, <2>4, <2>5, AllNumbers
  <2> QED
    BY <2>5, <2>6
<1>7. ASSUME NEW k \in Nat, k > a PROVE F(k)[k] = next(k, F(k - 1)[k - 1])
  <2>1. k \in a .. k /\ k # a /\ k >= a
    BY <1>7
  <2>2. F(k)[k] = next(k, F(k)[k - 1])
    BY <1>4, <2>1
  <2> QED
    BY <1>6, <1>7, <2>2
<1>8. \A k \in Nat : k > a => k - 1 \in Nat
  OBVIOUS
<1> QED
  BY <1>1, <1>5, <1>7, <1>8 DEF next

-----------------------------------------------------------------------------
(***************************************************************************)
(* Entries that a node has not applied separate its configuration from     *)
(* that of the whole log.  With one change among them at most, quorums of  *)
(* the two have a node in common.                                          *)
(***************************************************************************)
\* It is that of the beginning, changed by one entry after the other.
LEMMA ConfDef ==
    ASSUME NEW log
    PROVE  /\ Conf(log, 0) = Initially
           /\ \A k \in Nat : k > 0 => Conf(log, k) = Changed(Conf(log, k - 1), log[k].change)
<1>1. /\ ConfAfter(Initially, log, 0, 0) = Initially
      /\ \A k \in Nat : k > 0 =>
            ConfAfter(Initially, log, 0, k) = Changed(ConfAfter(Initially, log, 0, k - 1), log[k].change)
  BY ConfAfterDef
<1> QED
  BY <1>1 DEF Conf

\* A change leads from a configuration to a configuration,
LEMMA ChangedType ==
    ASSUME NEW c \in Config, NEW ch \in Change
    PROVE  Changed(c, ch) \in Config
<1>1. /\ c.voters \in SUBSET Server /\ c.outgoing \in SUBSET Server /\ c.auto \in BOOLEAN
      /\ Voters(c, ch) \in SUBSET Server /\ ch.auto \in BOOLEAN
  BY DEF Config, Change, Voters
<1> HIDE DEF Voters
<1> QED
  BY <1>1 DEF Config, Changed

\* and so does any number of them.
LEMMA ConfType ==
    ASSUME NEW log \in Log, NEW k \in 0..Len(log)
    PROVE  Conf(log, k) \in Config
<1> DEFINE M == {x \in Nat : x =< Len(log) => Conf(log, x) \in Config}
<1>1. Len(log) \in Nat
  BY DEF Log
<1>2. 0 \in M
  <2>1. Initially \in Config
    BY ReconfigurationAssumption DEF Initially, Config
  <2> QED
    BY <2>1, ConfDef
<1>3. ASSUME NEW x \in M PROVE x + 1 \in M
  <2>1. x \in Nat /\ x + 1 \in Nat /\ x + 1 > 0 /\ (x + 1) - 1 = x
    OBVIOUS
  <2>2. ASSUME x + 1 =< Len(log) PROVE Conf(log, x + 1) \in Config
    <3>1. Conf(log, x) \in Config
      BY <1>1, <2>1, <2>2
    <3>2. log[x + 1].change \in Change
      <4>1. log[x + 1] \in Entry
        BY <1>1, <2>1, <2>2 DEF Log
      <4> QED
        BY <4>1 DEF Entry
    <3>3. Conf(log, x + 1) = Changed(Conf(log, x), log[x + 1].change)
      BY <2>1, ConfDef
    <3> QED
      BY <3>1, <3>2, <3>3, ChangedType
  <2> QED
    BY <2>1, <2>2
<1>4. M \in SUBSET Nat
  OBVIOUS
<1>5. k \in M
  <2>1. k \in Nat
    BY <1>1
  <2> HIDE DEF M
  <2> QED
    BY <1>2, <1>3, <1>4, <2>1, AllNumbers
<1> QED
  BY <1>1, <1>5

\* Equal beginnings of logs lead to equal configurations
LEMMA ConfSame ==
    ASSUME NEW a \in Log, NEW b \in Log, NEW k \in Nat, Has(a, b, k), NEW l \in 0..k
    PROVE  Conf(a, l) = Conf(b, l)
<1> DEFINE M == {x \in Nat : x =< k => Conf(a, x) = Conf(b, x)}
<1>1. 0 \in M
  BY ConfDef
<1>2. ASSUME NEW x \in M PROVE x + 1 \in M
  <2>1. x \in Nat /\ x + 1 \in Nat /\ x + 1 > 0 /\ (x + 1) - 1 = x
    OBVIOUS
  <2>2. ASSUME x + 1 =< k PROVE Conf(a, x + 1) = Conf(b, x + 1)
    <3>1. Conf(a, x) = Conf(b, x)
      BY <2>1, <2>2
    <3>2. a[x + 1] = b[x + 1]
      BY <2>1, <2>2 DEF Has
    <3>3. /\ Conf(a, x + 1) = Changed(Conf(a, x), a[x + 1].change)
          /\ Conf(b, x + 1) = Changed(Conf(b, x), b[x + 1].change)
      BY <2>1, ConfDef
    <3> QED
      BY <3>1, <3>2, <3>3
  <2> QED
    BY <2>1, <2>2
<1>3. M \in SUBSET Nat
  OBVIOUS
<1>4. l \in M
  <2> HIDE DEF M
  <2> QED
    BY <1>1, <1>2, <1>3, AllNumbers
<1> QED
  BY <1>4

\* Entries that change nothing
LEMMA ConfQuiet ==
    ASSUME NEW log \in Log, NEW a \in Nat, NEW b \in Nat, a =< b, b =< Len(log),
           \A x \in ChangesIn(log) : ~(a < x /\ x =< b)
    PROVE  Conf(log, a) = Conf(log, b)
<1> DEFINE M == {x \in Nat : a + x =< b => Conf(log, a + x) = Conf(log, a)}
<1>1. 0 \in M
  OBVIOUS
<1>2. ASSUME NEW y \in M PROVE y + 1 \in M
  <2>1. y \in Nat
    OBVIOUS
  <2>2. ASSUME a + (y + 1) =< b PROVE Conf(log, a + (y + 1)) = Conf(log, a)
    <3> DEFINE x == a + (y + 1)
    <3>1. x \in Nat /\ x > 0 /\ x - 1 = a + y /\ a < x /\ x =< b /\ x - 1 =< b
      BY <2>1, <2>2
    <3>2. Len(log) \in Nat
      BY DEF Log
    <3> HIDE DEF x
    <3>3. x \in 1..Len(log) /\ Conf(log, x - 1) = Conf(log, a)
      BY <3>1, <3>2
    <3>4. ~IsChange(log[x].change)
      BY <3>1, <3>3 DEF ChangesIn
    <3>5. Conf(log, x) = Changed(Conf(log, x - 1), log[x].change)
      BY <3>1, ConfDef
    <3>6. Conf(log, x) = Conf(log, x - 1)
      BY <3>4, <3>5 DEF Changed, IsChange
    <3> QED
      BY <3>3, <3>6 DEF x
  <2> QED
    BY <2>1, <2>2
<1>3. M \in SUBSET Nat
  OBVIOUS
<1>4. b - a \in M /\ b - a \in Nat
  <2>1. b - a \in Nat
    OBVIOUS
  <2> HIDE DEF M
  <2> QED
    BY <1>1, <1>2, <1>3, <2>1, AllNumbers
<1>5. a + (b - a) = b
  OBVIOUS
<1> QED
  BY <1>4, <1>5

\* Applied in two goes
LEMMA ConfFrom ==
    ASSUME NEW log, NEW a \in Nat, NEW k \in Nat, a =< k
    PROVE  ConfAfter(Conf(log, a), log, a, k) = Conf(log, k)
<1> DEFINE g(x) == ConfAfter(Conf(log, a), log, a, x)
           M == {x \in Nat : g(a + x) = Conf(log, a + x)}
<1>0. /\ g(a) = Conf(log, a)
      /\ \A x \in Nat : x > a => g(x) = Changed(g(x - 1), log[x].change)
  BY ConfAfterDef
<1> HIDE DEF g
<1>1. 0 \in M
  <2>1. a + 0 = a
    OBVIOUS
  <2> QED
    BY <1>0, <2>1
<1>2. ASSUME NEW y \in M PROVE y + 1 \in M
  <2> DEFINE x == a + (y + 1)
  <2>1. y \in Nat /\ g(a + y) = Conf(log, a + y)
    OBVIOUS
  <2>2. x \in Nat /\ x > a /\ x > 0 /\ x - 1 = a + y /\ y + 1 \in Nat
    BY <2>1
  <2> HIDE DEF x
  <2>3. g(x) = Changed(g(x - 1), log[x].change)
    BY <1>0, <2>2
  <2>4. Conf(log, x) = Changed(Conf(log, x - 1), log[x].change)
    BY <2>2, ConfDef
  <2>5. g(x) = Conf(log, x)
    BY <2>1, <2>2, <2>3, <2>4
  <2> QED
    BY <2>2, <2>5 DEF x
<1>3. M \in SUBSET Nat
  OBVIOUS
<1>4. k - a \in M
  <2>1. k - a \in Nat
    OBVIOUS
  <2> HIDE DEF M
  <2> QED
    BY <1>1, <1>2, <1>3, <2>1, AllNumbers
<1>5. a + (k - a) = k
  OBVIOUS
<1> QED
  BY <1>4, <1>5 DEF g

\* At most one of the entries a+1 .. b of a log is a change
FewChanges(log, a, b) == \A k, l \in ChangesIn(log) : a < k /\ k < l => b < l

\* The changes among the first k entries of a log fit what those before them lead to
AllFit(log, k) == \A x \in 1..k : Fits(Conf(log, x - 1), log[x].change)

\* Quorums before and after at most one change have a node in common
LEMMA Adjacent ==
    ASSUME NEW log \in Log, NEW a \in Nat, NEW b \in Nat, a =< b, b =< Len(log),
           FewChanges(log, a, b), AllFit(log, b),
           NEW Q \in SUBSET Server, IsQuorum(Q, Conf(log, a)),
           NEW R \in SUBSET Server, IsQuorum(R, Conf(log, b))
    PROVE  Q \cap R # {}
<1>0. Len(log) \in Nat
  BY DEF Log
<1>1. CASE \A x \in ChangesIn(log) : ~(a < x /\ x =< b)
  <2> DEFINE c == Conf(log, a)
             ch == Plain("empty")
  <2>1. Conf(log, b) = c
    BY <1>1, ConfQuiet
  <2>2. c \in Config
    <3>1. a \in 0..Len(log)
      BY <1>0
    <3> QED
      BY <3>1, ConfType
  <2>3. ch \in Change /\ Fits(c, ch) /\ Changed(c, ch) = c
    BY DEF Plain, Change, Fits, Changed
  <2> HIDE DEF c, ch
  <2> QED
    BY <2>1, <2>2, <2>3, QuorumsOverlap DEF c
<1>2. ASSUME NEW x \in ChangesIn(log), a < x, x =< b
      PROVE  Q \cap R # {}
  <2>1. x \in Nat /\ x - 1 \in Nat /\ x \in 1..Len(log) /\ x > 0
    BY <1>0 DEF ChangesIn
  <2>2. Conf(log, a) = Conf(log, x - 1)
    <3>1. \A y \in ChangesIn(log) : ~(a < y /\ y =< x - 1)
      <4> SUFFICES ASSUME NEW y \in ChangesIn(log), a < y, y =< x - 1 PROVE FALSE
        OBVIOUS
      <4>1. y < x
        BY <1>0, <2>1 DEF ChangesIn
      <4>2. b < x
        BY <4>1 DEF FewChanges
      <4> QED
        BY <1>2, <2>1, <4>2
    <3>2. a =< x - 1 /\ x - 1 =< Len(log)
      BY <1>0, <1>2, <2>1
    <3> QED
      BY <2>1, <3>1, <3>2, ConfQuiet
  <2>3. Conf(log, x) = Conf(log, b)
    <3>1. \A y \in ChangesIn(log) : ~(x < y /\ y =< b)
      <4> SUFFICES ASSUME NEW y \in ChangesIn(log), x < y, y =< b PROVE FALSE
        OBVIOUS
      <4>1. b < y
        BY <1>2 DEF FewChanges
      <4>2. y \in Nat
        BY <1>0 DEF ChangesIn
      <4> QED
        BY <4>1, <4>2
    <3> QED
      BY <1>2, <2>1, <3>1, ConfQuiet
  <2> DEFINE c == Conf(log, x - 1)
             ch == log[x].change
  <2>4. c \in Config /\ ch \in Change
    <3>1. x - 1 \in 0..Len(log)
      BY <1>0, <2>1
    <3>2. ch \in Change
      <4>1. log[x] \in Entry
        BY <2>1 DEF Log
      <4> QED
        BY <4>1 DEF Entry
    <3> QED
      BY <3>1, <3>2, ConfType
  <2>5. Fits(c, ch)
    BY <1>2, <2>1 DEF AllFit
  <2>6. Conf(log, x) = Changed(c, ch)
    BY <2>1, ConfDef
  <2> HIDE DEF c, ch
  <2> QED
    BY <2>2, <2>3, <2>4, <2>5, <2>6, QuorumsOverlap DEF c
<1> QED
  BY <1>1, <1>2

-----------------------------------------------------------------------------
(***************************************************************************)
(* Why raft is safe while configurations change.  The variables do not     *)
(* tell how it came about that an entry is committed: the leader may be    *)
(* gone, the configuration it used replaced, the nodes that acknowledged   *)
(* it ahead.  A history does.  The invariant says that there is one that   *)
(* explains the nodes; a step of a node either keeps the history or makes  *)
(* it longer.                                                              *)
(*                                                                         *)
(* An entry wins when a quorum acknowledged it, of the configuration that  *)
(* some entries before it lead to, of which it is known, by entries that   *)
(* have won, that they are committed, and between which and it there is    *)
(* one change at most.  What wins is defined all at once, as the least set *)
(* that has everything that wins by others in it.                          *)
(***************************************************************************)
\* A history: of every term that was led the log of its leader, how much of it the leader
\* had when it was elected and how much of that it had applied, and who it was; all votes;
\* and all acknowledgements <<j, t, x>>, that node j has the first x entries of the log of
\* the leader of term t
History ==
    [log : [Nat -> Log], base : [Nat -> Nat], conf : [Nat -> Nat],
     chief : [Nat -> Server \cup {None}], led : SUBSET Nat,
     votes : SUBSET (Server \X Nat \X Server), acks : SUBSET (Server \X Nat \X Nat)]

\* An entry that the leader of term t appended
Own(h, t, x) == t \in h.led /\ x \in h.base[t] + 1 .. Len(h.log[t])

\* The first a entries of the log of term t are among those that S holds, of an earlier
\* term, when its leader was elected, or of this one, below x
Known(h, S, t, a, x) ==
    \/ a = 0
    \/ \E u, y \in Nat :
          /\ <<u, y>> \in S /\ Own(h, u, y) /\ a =< y /\ Has(h.log[t], h.log[u], y)
          /\ (u = t /\ y < x) \/ (u < t /\ y =< h.base[t])

\* Entry x of term t has the acknowledgements X of a quorum, of a configuration that its
\* leader may use for it: what leads to it is known, and lacks at most one change
Wins(h, S, X, t, x) ==
    /\ Own(h, t, x)
    /\ \E a \in Nat : \E Q \in SUBSET Server :
          /\ a < x /\ FewChanges(h.log[t], a, x) /\ Known(h, S, t, a, x)
          /\ IsQuorum(Q, Conf(h.log[t], a)) /\ \A j \in Q : <<j, t, x>> \in X

\* S has every entry that wins once it has what leads to it.
Closed(h, X, S) == \A t, x \in Nat : Wins(h, S, X, t, x) => <<t, x>> \in S

\* The entries that win, one based on another
Winners(h, X) == {p \in Nat \X Nat : \A S \in SUBSET (Nat \X Nat) : Closed(h, X, S) => p \in S}

\* What is committed, and what may still become so: who has not left the term may still
\* acknowledge
Chosen(h) == Winners(h, h.acks)

\* What is acknowledged, or may still be by a node that has not left the term
May(N, h) == {v \in Server \X Nat \X Nat : v \in h.acks \/ N[v[1]].term =< v[2]}

\* What has won or may still win: a leader of a later term must have it
Firm(N, h) == Winners(h, May(N, h))

\* More winners make more known,
LEMMA KnownMore ==
    ASSUME NEW h, NEW S, NEW S2, S \subseteq S2, NEW t, NEW a, NEW x, Known(h, S, t, a, x)
    PROVE  Known(h, S2, t, a, x)
  BY DEF Known

\* and more winners and acknowledgements make more win.
LEMMA WinsMore ==
    ASSUME NEW h, NEW S, NEW S2, S \subseteq S2, NEW X, NEW X2,
           NEW t, NEW x, \A j \in Server : <<j, t, x>> \in X => <<j, t, x>> \in X2,
           Wins(h, S, X, t, x)
    PROVE  Wins(h, S2, X2, t, x)
<1>1. PICK a \in Nat, Q \in SUBSET Server :
          /\ a < x /\ FewChanges(h.log[t], a, x) /\ Known(h, S, t, a, x)
          /\ IsQuorum(Q, Conf(h.log[t], a)) /\ \A j \in Q : <<j, t, x>> \in X
  BY DEF Wins
<1>2. Known(h, S2, t, a, x)
  BY <1>1, KnownMore
<1>3. \A j \in Q : <<j, t, x>> \in X2
  BY <1>1
<1> QED
  BY <1>1, <1>2, <1>3 DEF Wins

\* The winners have all that wins by them,
LEMMA WinnersClosed ==
    ASSUME NEW h, NEW X
    PROVE  Winners(h, X) \in SUBSET (Nat \X Nat) /\ Closed(h, X, Winners(h, X))
<1>1. Winners(h, X) \in SUBSET (Nat \X Nat)
  BY DEF Winners
<1>2. ASSUME NEW t \in Nat, NEW x \in Nat, Wins(h, Winners(h, X), X, t, x),
             NEW S \in SUBSET (Nat \X Nat), Closed(h, X, S)
      PROVE  <<t, x>> \in S
  <2>1. Winners(h, X) \subseteq S
    BY <1>2 DEF Winners
  <2>2. Wins(h, S, X, t, x)
    BY <1>2, <2>1, WinsMore
  <2> QED
    BY <1>2, <2>2 DEF Closed
<1>3. ASSUME NEW t \in Nat, NEW x \in Nat, Wins(h, Winners(h, X), X, t, x)
      PROVE  <<t, x>> \in Winners(h, X)
  BY <1>2, <1>3 DEF Winners
<1> QED
  BY <1>1, <1>3 DEF Closed

\* are no more than any other set that has,
LEMMA WinnersLeast ==
    ASSUME NEW h, NEW X, NEW S \in SUBSET (Nat \X Nat), Closed(h, X, S)
    PROVE  Winners(h, X) \subseteq S
  BY DEF Winners

\* and each of them does win by others of them.
LEMMA WinnersWin ==
    ASSUME NEW h, NEW X, NEW t, NEW x, <<t, x>> \in Winners(h, X)
    PROVE  t \in Nat /\ x \in Nat /\ Wins(h, Winners(h, X), X, t, x)
<1> DEFINE S == {p \in Winners(h, X) : Wins(h, Winners(h, X), X, p[1], p[2])}
<1>1. S \in SUBSET (Nat \X Nat) /\ S \subseteq Winners(h, X)
  BY WinnersClosed
<1>2. Closed(h, X, S)
  <2> SUFFICES ASSUME NEW u \in Nat, NEW y \in Nat, Wins(h, S, X, u, y)
               PROVE  <<u, y>> \in S
    BY DEF Closed
  <2>1. Wins(h, Winners(h, X), X, u, y)
    <3> HIDE DEF S
    <3> QED
      BY <1>1, WinsMore
  <2>2. <<u, y>> \in Winners(h, X)
    BY <2>1, WinnersClosed DEF Closed
  <2> QED
    BY <2>1, <2>2
<1>3. Winners(h, X) \subseteq S
  BY <1>1, <1>2, WinnersLeast
<1>4. <<t, x>> \in S
  BY <1>3
<1>5. <<t, x>> \in Nat \X Nat
  BY <1>1, <1>4
<1> QED
  BY <1>4, <1>5

\* More acknowledgements, of entries that leaders appended, make more winners.
LEMMA WinnersMore ==
    ASSUME NEW h, NEW X, NEW X2,
           \A t, x \in Nat : \A j \in Server :
              Own(h, t, x) /\ <<j, t, x>> \in X => <<j, t, x>> \in X2
    PROVE  Winners(h, X) \subseteq Winners(h, X2)
<1>1. Closed(h, X, Winners(h, X2))
  <2> SUFFICES ASSUME NEW t \in Nat, NEW x \in Nat, Wins(h, Winners(h, X2), X, t, x)
               PROVE  <<t, x>> \in Winners(h, X2)
    BY DEF Closed
  <2>1. Own(h, t, x)
    BY DEF Wins
  <2>2. Wins(h, Winners(h, X2), X2, t, x)
    BY <2>1, WinsMore
  <2> QED
    BY <2>2, WinnersClosed DEF Closed
<1> QED
  BY <1>1, WinnersClosed, WinnersLeast

\* What is committed is among what may be.
LEMMA ChosenIsFirm ==
    ASSUME NEW N, NEW h \in History
    PROVE  Chosen(h) \subseteq Firm(N, h)
<1>1. \A t, x \in Nat : \A j \in Server : <<j, t, x>> \in h.acks => <<j, t, x>> \in May(N, h)
  BY DEF May
<1> QED
  BY <1>1, WinnersMore DEF Chosen, Firm

-----------------------------------------------------------------------------
\* Every entry of a log was written by the leader of its term, whose log has all before it
Written(h, log, k) ==
    \A x \in 1..k : log[x].term \in h.led /\ Has(log, h.log[log[x].term], x)

\* The logs of leaders: only the end, above what its leader had when it was elected, is of
\* the leader's own term, and every change fits what comes before it
Reigns(h) ==
    \A t \in h.led :
        /\ t >= 1 /\ h.base[t] =< Len(h.log[t])
        /\ Written(h, h.log[t], Len(h.log[t])) /\ AllFit(h.log[t], Len(h.log[t]))
        /\ \A x \in 1..Len(h.log[t]) : IF x =< h.base[t] THEN h.log[t][x].term < t
                                       ELSE h.log[t][x].term = t

\* Who voted for the leader of term t
Electors(h, t) == {j \in Server : <<j, t, h.chief[t]>> \in h.votes}

\* A leader had a quorum of the configuration that it had applied, and lacked at most one
\* change that was in its log
Elections(h) ==
    /\ \A t \in h.led :
          /\ h.conf[t] =< h.base[t] /\ FewChanges(h.log[t], h.conf[t], h.base[t])
          /\ Known(h, Chosen(h), t, h.conf[t], 0)
          /\ IsQuorum(Electors(h, t), Conf(h.log[t], h.conf[t]))
    /\ \A j, a, b \in Server : \A t \in Nat :
          <<j, t, a>> \in h.votes /\ <<j, t, b>> \in h.votes => a = b

\* The last of n entries is at least the k-th of term t
Reaches(log, n, t, k) == n >= 1 /\ (log[n].term > t \/ (log[n].term = t /\ n >= k))

\* What a node has committed is chosen
Done(h, n) ==
    n.commit = 0 \/
    \E u, y \in Nat :
        /\ <<u, y>> \in Chosen(h) /\ u =< n.term /\ (n.role = "Candidate" => u < n.term)
        /\ n.commit =< y /\ Has(n.log, h.log[u], n.commit)

\* What a node has is written by leaders, and the configuration it uses is the one that
\* the entries it has applied lead to
Holds(h, n) ==
    /\ Written(h, n.log, Len(n.log))
    /\ \A x \in 1..Len(n.log) :
          n.log[x].term =< n.term /\ (n.role = "Candidate" => n.log[x].term < n.term)
    /\ n.applied =< n.commit /\ n.conf = Conf(n.log, n.applied) /\ Done(h, n)
    /\ n.role # "Follower" => n.term >= 1

\* A node's votes are those of the history, and none is of a later term than its own
Ballots(h, i, n) ==
    /\ \A t \in Nat : \A x \in Server :
          /\ <<i, t, x>> \in h.votes => t =< n.term /\ (t = n.term => n.vote = x)
          /\ <<x, t, i>> \in h.votes => t =< n.term
    /\ n.vote # None => <<i, n.term, n.vote>> \in h.votes
    /\ n.role = "Candidate" => \A j \in n.granted : <<j, n.term, i>> \in h.votes
    /\ \A t \in h.led : h.chief[t] = i => t =< n.term /\ (t = n.term => n.role # "Candidate")

\* A leader is the one of its term, has counted what was acknowledged, and knows why its
\* commit index is what it is
Leads(h, i, n) ==
    n.role = "Leader" =>
        /\ n.term \in h.led /\ h.chief[n.term] = i /\ h.log[n.term] = n.log
        /\ \A j \in Server : \A x \in 1..n.match[j] : <<j, n.term, x>> \in h.acks
        /\ \A x \in Nat : x > n.commit => Known(h, Chosen(h), n.term, n.commit, x)

\* All of it, for node i in state n
Local(h, i, n) == n \in NodeState /\ Holds(h, n) /\ Ballots(h, i, n) /\ Leads(h, i, n)

\* Acknowledgements hold as long as they matter
AcksHold(N, h) ==
    \A j \in Server : \A t, k \in Nat : <<j, t, k>> \in h.acks =>
        /\ k >= 1 /\ t \in h.led /\ k =< Len(h.log[t]) /\ t =< N[j].term
        /\ N[j].term = t \/ <<t, k>> \in Firm(N, h) => Has(N[j].log, h.log[t], k)

\* Who has acknowledged an entry votes for who has it
VotesRespect(N, h) ==
    \A i, j \in Server : \A u, t, k \in Nat :
        /\ <<j, u, i>> \in h.votes /\ <<j, t, k>> \in h.acks /\ t < u /\ <<t, k>> \in Firm(N, h)
        => /\ u \in h.led /\ h.chief[u] = i => Reaches(h.log[u], h.base[u], t, k)
           /\ N[i].role = "Candidate" /\ N[i].term = u => Reaches(N[i].log, Len(N[i].log), t, k)

\* History h explains the states N of all nodes
Good(N, h) ==
    /\ N = [i \in Server |-> N[i]] /\ h \in History /\ Reigns(h) /\ Elections(h)
    /\ \A i \in Server : Local(h, i, N[i])
    /\ AcksHold(N, h) /\ VotesRespect(N, h)

\* Later leaders have what may be committed
LeadersHave(N, h) ==
    \A t, x, u \in Nat :
        <<t, x>> \in Firm(N, h) /\ u \in h.led /\ t < u =>
            x =< h.base[u] /\ Has(h.log[u], h.log[t], x)

-----------------------------------------------------------------------------
(***************************************************************************)
(* What follows from how logs are written.                                 *)
(***************************************************************************)
\* The entries of a log have a term and a change.
LEMMA EntryType ==
    ASSUME NEW L \in Log, NEW x \in 1..Len(L)
    PROVE  L[x] \in Entry /\ L[x].term \in Nat /\ L[x].term >= 1 /\ L[x].change \in Change
<1>1. L[x] \in Entry
  BY DEF Log
<1> QED
  BY <1>1 DEF Entry

\* A log of a reign
LEMMA ReignLog ==
    ASSUME NEW h \in History, Reigns(h), NEW t \in h.led
    PROVE  /\ t \in Nat /\ t >= 1 /\ h.log[t] \in Log /\ Len(h.log[t]) \in Nat
           /\ h.base[t] \in Nat /\ h.conf[t] \in Nat
           /\ h.base[t] =< Len(h.log[t]) /\ Written(h, h.log[t], Len(h.log[t]))
           /\ AllFit(h.log[t], Len(h.log[t]))
           /\ \A x \in 1..Len(h.log[t]) : IF x =< h.base[t] THEN h.log[t][x].term < t
                                          ELSE h.log[t][x].term = t
<1>1. t \in Nat /\ h.log[t] \in Log /\ h.base[t] \in Nat /\ h.conf[t] \in Nat
  BY DEF History
<1>2. Len(h.log[t]) \in Nat
  BY <1>1 DEF Log
<1> QED
  BY <1>1, <1>2 DEF Reigns

\* Terms of logs that leaders wrote: they do not decrease, and an entry of the term of its
\* leader is one that it appended
LEMMA WrittenTerms ==
    ASSUME NEW h \in History, Reigns(h), NEW L \in Log, NEW n \in 0..Len(L), Written(h, L, n),
           NEW y \in 1..n
    PROVE  /\ L[y].term \in h.led /\ Has(L, h.log[L[y].term], y)
           /\ Own(h, L[y].term, y) /\ h.log[L[y].term] \in Log
           /\ \A x \in 1..y : L[x].term =< L[y].term
<1> DEFINE w == L[y].term
<1>0. Len(L) \in Nat
  BY DEF Log
<1>1. w \in h.led /\ Has(L, h.log[w], y)
  BY DEF Written
<1> HIDE DEF w
<1>2. /\ w \in Nat /\ h.log[w] \in Log /\ Len(h.log[w]) \in Nat /\ h.base[w] \in Nat
      /\ \A x \in 1..Len(h.log[w]) : IF x =< h.base[w] THEN h.log[w][x].term < w
                                     ELSE h.log[w][x].term = w
  BY <1>1, ReignLog
<1>3. y =< Len(h.log[w]) /\ \A x \in 1..y : L[x] = h.log[w][x] /\ x \in 1..Len(h.log[w])
  BY <1>0, <1>1, <1>2 DEF Has
<1>4. h.log[w][y].term = w /\ y \in 1..Len(h.log[w])
  BY <1>0, <1>3 DEF w
<1>5. ~(y =< h.base[w])
  <2>1. y =< h.base[w] => h.log[w][y].term < w
    BY <1>2, <1>4
  <2> QED
    BY <1>2, <1>4, <2>1
<1>6. Own(h, w, y)
  BY <1>0, <1>1, <1>2, <1>3, <1>5 DEF Own
<1>7. ASSUME NEW x \in 1..y PROVE L[x].term =< w
  <2>1. L[x].term \in Nat
    <3>1. x \in 1..Len(L)
      BY <1>0
    <3> QED
      BY <3>1, EntryType
  <2>2. L[x].term = h.log[w][x].term /\ x \in 1..Len(h.log[w])
    BY <1>3
  <2>3. L[x].term < w \/ L[x].term = w
    BY <1>2, <2>2
  <2> QED
    BY <1>2, <2>1, <2>3
<1> QED
  BY <1>1, <1>2, <1>6, <1>7 DEF w

\* The changes in such a log fit
LEMMA WrittenFits ==
    ASSUME NEW h \in History, Reigns(h), NEW L \in Log, NEW n \in 0..Len(L), Written(h, L, n)
    PROVE  AllFit(L, n)
<1> SUFFICES ASSUME NEW x \in 1..n PROVE Fits(Conf(L, x - 1), L[x].change)
  BY DEF AllFit
<1> DEFINE w == L[x].term
<1>0. Len(L) \in Nat /\ x \in Nat /\ x - 1 \in 0..x
  BY DEF Log
<1>1. w \in h.led /\ Has(L, h.log[w], x) /\ h.log[w] \in Log
  BY WrittenTerms
<1> HIDE DEF w
<1>2. AllFit(h.log[w], Len(h.log[w])) /\ Len(h.log[w]) \in Nat
  BY <1>1, ReignLog
<1>3. x \in 1..Len(h.log[w]) /\ L[x] = h.log[w][x]
  BY <1>0, <1>1, <1>2 DEF Has
<1>4. Conf(L, x - 1) = Conf(h.log[w], x - 1)
  BY <1>0, <1>1, ConfSame
<1> QED
  BY <1>2, <1>3, <1>4 DEF AllFit

\* What wins was appended by the leader of its term.
LEMMA FirmOwn ==
    ASSUME NEW h \in History, NEW X, NEW t, NEW x, <<t, x>> \in Winners(h, X)
    PROVE  t \in Nat /\ x \in Nat /\ Own(h, t, x) /\ t \in h.led /\ h.log[t] \in Log
<1>1. t \in Nat /\ x \in Nat /\ Wins(h, Winners(h, X), X, t, x)
  BY WinnersWin
<1>2. Own(h, t, x) /\ t \in h.led
  BY <1>1 DEF Wins, Own
<1>3. h.log[t] \in Log
  BY <1>1 DEF History
<1> QED
  BY <1>1, <1>2, <1>3

\* Who reaches the k-th entry of term t has it
LEMMA ReachesHas ==
    ASSUME NEW h \in History, Reigns(h), NEW F, NEW T \in Nat,
           \A t, x, u \in Nat : <<t, x>> \in F /\ u \in h.led /\ u < T /\ t < u =>
               x =< h.base[u] /\ Has(h.log[u], h.log[t], x),
           NEW L \in Log, NEW n \in 0..Len(L), Written(h, L, n), \A y \in 1..n : L[y].term < T,
           NEW t \in Nat, NEW x \in Nat, <<t, x>> \in F, Own(h, t, x), Reaches(L, n, t, x)
    PROVE  x =< n /\ Has(L, h.log[t], x)
<1> DEFINE w == L[n].term
<1>0. Len(L) \in Nat /\ n \in 1..n /\ n \in Nat /\ h.log[t] \in Log /\ Len(h.log[t]) \in Nat
  <2>1. h.log[t] \in Log
    BY DEF History
  <2>2. Len(L) \in Nat /\ Len(h.log[t]) \in Nat
    BY <2>1 DEF Log
  <2>3. n >= 1
    BY DEF Reaches
  <2> QED
    BY <2>1, <2>2, <2>3
<1>1. w \in h.led /\ Has(L, h.log[w], n) /\ Own(h, w, n) /\ h.log[w] \in Log /\ w < T
  BY <1>0, WrittenTerms
<1>2. w > t \/ (w = t /\ n >= x)
  BY DEF Reaches
<1> HIDE DEF w
<1>3. w \in Nat /\ h.base[w] \in Nat
  BY <1>1, ReignLog
<1>4. CASE w = t /\ n >= x
  BY <1>0, <1>1, <1>4, HasLess
<1>5. CASE w > t
  <2>1. x =< h.base[w] /\ Has(h.log[w], h.log[t], x)
    BY <1>1, <1>3, <1>5
  <2>2. x =< n
    BY <1>0, <1>1, <1>3, <2>1 DEF Own
  <2> QED
    BY <1>0, <1>1, <2>1, <2>2, HasTrans
<1> QED
  BY <1>2, <1>4, <1>5

-----------------------------------------------------------------------------
(***************************************************************************)
(* Leaders of later terms have what may be committed, shown for one that   *)
(* was elected: its quorum has a node in common with the one that          *)
(* acknowledged.                                                           *)
(***************************************************************************)
\* What may be committed of earlier terms is in every log that a quorum prefers, of a
\* configuration that leads to the log by at most one change
LEMMA Complete ==
    ASSUME NEW N, NEW h \in History, Reigns(h), NEW T \in Nat,
           \A t, x, u \in Nat : <<t, x>> \in Firm(N, h) /\ u \in h.led /\ u < T /\ t < u =>
               x =< h.base[u] /\ Has(h.log[u], h.log[t], x),
           NEW L \in Log, NEW n \in 0..Len(L), NEW b \in 0..n,
           Written(h, L, n), \A y \in 1..n : L[y].term < T, FewChanges(L, b, n),
           NEW Q \in SUBSET Server, IsQuorum(Q, Conf(L, b)),
           \A j \in Q : N[j].term \in Nat /\ N[j].term >= T,
           \A j \in Q : \A t, x \in Nat :
               <<j, t, x>> \in h.acks /\ t < T /\ <<t, x>> \in Firm(N, h) => Reaches(L, n, t, x),
           b = 0 \/ \E u, y \in Nat : <<u, y>> \in Firm(N, h) /\ u < T /\ b =< y
                                      /\ Has(L, h.log[u], b)
    PROVE  \A t, x \in Nat : <<t, x>> \in Firm(N, h) /\ t < T => x =< n /\ Has(L, h.log[t], x)
<1> DEFINE F == Firm(N, h)
           S == {p \in F : p[1] < T => p[2] =< n /\ Has(L, h.log[p[1]], p[2])}
<1>0. Len(L) \in Nat /\ n \in Nat /\ b \in Nat /\ b =< n /\ n =< Len(L)
  BY DEF Log
<1>1. S \in SUBSET (Nat \X Nat) /\ S \subseteq F /\ F \in SUBSET (Nat \X Nat)
  BY WinnersClosed DEF Firm
<1>2. AllFit(L, n)
  BY WrittenFits
<1>3. ASSUME NEW t \in Nat, NEW x \in Nat, Wins(h, S, May(N, h), t, x) PROVE <<t, x>> \in S
  <2>1. <<t, x>> \in F
    <3>1. Wins(h, F, May(N, h), t, x)
      <4> HIDE DEF S, F
      <4> QED
        BY <1>1, <1>3, WinsMore
    <3> QED
      BY <3>1, WinnersClosed DEF Firm, Closed
  <2>2. t \in h.led /\ h.log[t] \in Log /\ Own(h, t, x)
    BY <2>1, FirmOwn DEF Firm
  <2> SUFFICES ASSUME t < T PROVE x =< n /\ Has(L, h.log[t], x)
    BY <2>1
  <2> DEFINE P == h.log[t]
  <2>3. PICK a \in Nat, R \in SUBSET Server :
            /\ a < x /\ FewChanges(P, a, x) /\ Known(h, S, t, a, x)
            /\ IsQuorum(R, Conf(P, a)) /\ \A j \in R : <<j, t, x>> \in May(N, h)
    BY <1>3 DEF Wins
  <2>4. /\ Len(P) \in Nat /\ x =< Len(P) /\ h.base[t] \in Nat /\ h.base[t] < x
        /\ AllFit(P, Len(P))
    BY <2>2, ReignLog DEF Own
  <2>5. a =< n /\ Has(L, P, a)
    <3>1. CASE a = 0
      BY <1>0, <2>4, <3>1 DEF Has
    <3>2. ASSUME NEW u \in Nat, NEW y \in Nat, <<u, y>> \in S, a =< y, Has(P, h.log[u], y),
                 (u = t /\ y < x) \/ (u < t /\ y =< h.base[t])
          PROVE  a =< n /\ Has(L, P, a)
      <4>1. u < T
        BY <3>2
      <4>2. y =< n /\ Has(L, h.log[u], y)
        BY <3>2, <4>1
      <4>3. h.log[u] \in Log
        BY DEF History
      <4>4. Has(h.log[u], P, y)
        BY <3>2, HasSym
      <4> HIDE DEF P
      <4>5. Has(L, P, a)
        BY <2>2, <3>2, <4>2, <4>3, <4>4, HasTrans DEF P
      <4> QED
        BY <1>0, <3>2, <4>2, <4>5
    <3> QED
      BY <2>3, <3>1, <3>2 DEF Known
  <2>6. ASSUME NEW j \in Q \cap R PROVE x =< n /\ Has(L, h.log[t], x)
    <3>1. <<j, t, x>> \in h.acks
      <4>1. <<j, t, x>> \in May(N, h) /\ N[j].term \in Nat /\ N[j].term >= T
        BY <2>3
      <4> QED
        BY <4>1 DEF May
    <3>2. Reaches(L, n, t, x)
      BY <2>1, <3>1
    <3> HIDE DEF S
    <3> QED
      BY <2>1, <2>2, <3>2, ReachesHas
  <2> HIDE DEF S, P
  <2>7. CASE b =< a
    <3>1. Conf(L, a) = Conf(P, a)
      BY <2>2, <2>5, ConfSame DEF P
    <3>2. FewChanges(L, b, a)
      <4> SUFFICES ASSUME NEW k \in ChangesIn(L), NEW l \in ChangesIn(L), b < k, k < l
                   PROVE  a < l
        BY DEF FewChanges
      <4>1. n < l
        BY DEF FewChanges
      <4>2. l \in Nat
        BY <1>0 DEF ChangesIn
      <4> QED
        BY <1>0, <2>5, <4>1, <4>2
    <3>3. AllFit(L, a) /\ a =< Len(L)
      BY <1>0, <1>2, <2>5 DEF AllFit
    <3>4. Q \cap R # {}
      BY <1>0, <2>3, <2>7, <3>1, <3>2, <3>3, Adjacent
    <3> QED
      BY <2>6, <3>4
  <2>8. CASE a < b
    <3>1. PICK u \in Nat, y \in Nat : <<u, y>> \in F /\ u < T /\ b =< y /\ Has(L, h.log[u], b)
      BY <1>0, <2>8
    <3>2. h.log[u] \in Log /\ u \in h.led
      BY <3>1, FirmOwn DEF Firm
    <3>3. (b < x /\ Has(L, P, b)) \/ (x =< b /\ Has(L, P, x))
      <4>1. CASE u < t
        <5>1. y =< h.base[t] /\ Has(P, h.log[u], y)
          BY <2>2, <3>1, <4>1 DEF P
        <5>2. Has(h.log[u], P, y)
          BY <5>1, HasSym
        <5>3. Has(L, P, b)
          BY <1>0, <2>2, <3>1, <3>2, <5>2, HasTrans DEF P
        <5> QED
          BY <1>0, <2>4, <3>1, <5>1, <5>3
      <4>2. CASE u = t
        <5>1. Has(L, P, b)
          BY <3>1, <4>2 DEF P
        <5> QED
          BY <1>0, <2>2, <5>1, HasLess DEF P
      <4>3. CASE t < u
        <5>1. Has(h.log[u], P, x)
          BY <2>1, <3>1, <3>2, <4>3 DEF P
        <5>2. CASE b < x
          BY <1>0, <2>2, <3>1, <3>2, <5>1, <5>2, HasTrans DEF P
        <5>3. CASE x =< b
          BY <1>0, <2>2, <3>1, <3>2, <5>1, <5>3, HasTrans DEF P
        <5> QED
          BY <1>0, <5>2, <5>3
      <4> QED
        BY <4>1, <4>2, <4>3
    <3>4. CASE x =< b /\ Has(L, P, x)
      BY <1>0, <3>4 DEF P
    <3>5. CASE b < x /\ Has(L, P, b)
      <4>1. Conf(L, b) = Conf(P, b)
        BY <1>0, <2>2, <3>5, ConfSame DEF P
      <4>2. FewChanges(P, a, b)
        <5> SUFFICES ASSUME NEW k \in ChangesIn(P), NEW l \in ChangesIn(P), a < k, k < l
                     PROVE  b < l
          BY DEF FewChanges
        <5>1. x < l
          BY <2>3 DEF FewChanges
        <5>2. l \in Nat
          BY <2>4 DEF ChangesIn
        <5> QED
          BY <1>0, <3>5, <5>1, <5>2
      <4>3. AllFit(P, b) /\ b =< Len(P)
        BY <1>0, <2>4, <3>5 DEF AllFit
      <4>4. R \cap Q # {}
        BY <1>0, <2>2, <2>3, <2>8, <4>1, <4>2, <4>3, Adjacent DEF P
      <4> QED
        BY <2>6, <4>4
    <3> QED
      BY <3>3, <3>4, <3>5
  <2> QED
    BY <1>0, <2>7, <2>8
<1>4. Closed(h, May(N, h), S)
  BY <1>3 DEF Closed
<1>5. F \subseteq S
  <2> HIDE DEF S
  <2> QED
    BY <1>1, <1>4, WinnersLeast DEF Firm
<1> SUFFICES ASSUME NEW t \in Nat, NEW x \in Nat, <<t, x>> \in F, t < T
             PROVE  x =< n /\ Has(L, h.log[t], x)
  OBVIOUS
<1>6. <<t, x>> \in S
  BY <1>5
<1> QED
  BY <1>6

-----------------------------------------------------------------------------
(***************************************************************************)
(* The same for a candidate that is about to be elected, and for all       *)
(* leaders.                                                                *)
(***************************************************************************)
\* More nodes are a quorum if fewer are.
LEMMA QuorumMore ==
    ASSUME NEW c \in Config, NEW Q \in SUBSET Server, NEW R \in SUBSET Server, Q \subseteq R,
           IsQuorum(Q, c)
    PROVE  IsQuorum(R, c)
<1>1. ASSUME NEW V \in SUBSET Server, Majority(Q, V) PROVE Majority(R, V)
  <2>1. IsFiniteSet(R \cap V) /\ Q \cap V \subseteq R \cap V
    BY Finite
  <2>2. Cardinality(Q \cap V) <= Cardinality(R \cap V)
    BY <2>1, FS_Subset
  <2>3. /\ Cardinality(Q \cap V) \in Nat /\ Cardinality(R \cap V) \in Nat
        /\ Cardinality(V) \in Nat
    BY Finite
  <2> QED
    BY <1>1, <2>2, <2>3 DEF Majority
<1>2. c.voters \in SUBSET Server /\ c.outgoing \in SUBSET Server
  BY DEF Config
<1> QED
  BY <1>1, <1>2 DEF IsQuorum

\* The parts of Good for one node
LEMMA GoodNode ==
    ASSUME NEW N, NEW h, Good(N, h), NEW i \in Server
    PROVE  /\ h \in History /\ Reigns(h) /\ Elections(h) /\ N[i] \in NodeState
           /\ Holds(h, N[i]) /\ Ballots(h, i, N[i]) /\ Leads(h, i, N[i])
           /\ N[i].term \in Nat /\ N[i].log \in Log /\ Len(N[i].log) \in Nat
           /\ N[i].commit \in Nat /\ N[i].applied \in Nat
           /\ N[i].granted \in SUBSET Server /\ N[i].match \in [Server -> Nat]
<1>1. N[i] \in NodeState
  BY DEF Good, Local
<1>2. N[i].log \in Log /\ N[i].term \in Nat /\ N[i].commit \in Nat /\ N[i].applied \in Nat
      /\ N[i].granted \in SUBSET Server /\ N[i].match \in [Server -> Nat]
  BY <1>1 DEF NodeState, Log
<1>3. Len(N[i].log) \in Nat
  BY <1>2 DEF Log
<1> QED
  BY <1>1, <1>2, <1>3 DEF Good, Local

\* So the leaders of later terms have all that may be committed: the first that had not
\* would have had a vote of someone who acknowledged it.
LEMMA LeadersHold ==
    ASSUME NEW N, NEW h, Good(N, h)
    PROVE  LeadersHave(N, h)
<1> DEFINE F == Firm(N, h)
           Lacks == {u \in h.led : ~ \A t, x \in Nat : <<t, x>> \in F /\ t < u =>
                                       x =< h.base[u] /\ Has(h.log[u], h.log[t], x)}
<1>0. h \in History /\ Reigns(h) /\ Elections(h)
  BY DEF Good
<1>1. ASSUME NEW T \in h.led,
             \A t, x, u \in Nat : <<t, x>> \in F /\ u \in h.led /\ u < T /\ t < u =>
               x =< h.base[u] /\ Has(h.log[u], h.log[t], x)
      PROVE  \A t, x \in Nat : <<t, x>> \in F /\ t < T =>
               x =< h.base[T] /\ Has(h.log[T], h.log[t], x)
  <2> DEFINE L == h.log[T]
             n == h.base[T]
             b == h.conf[T]
             Q == Electors(h, T)
  <2>1. /\ T \in Nat /\ L \in Log /\ n \in 0..Len(L) /\ b \in Nat /\ Len(L) \in Nat
        /\ Written(h, L, Len(L)) /\ n \in Nat
        /\ \A x \in 1..Len(L) : x =< n => L[x].term < T
    BY <1>0, ReignLog
  <2>2. /\ b \in 0..n /\ FewChanges(L, b, n) /\ IsQuorum(Q, Conf(L, b))
        /\ Known(h, Chosen(h), T, b, 0)
    BY <1>0, <2>1 DEF Elections
  <2>3. Written(h, L, n) /\ \A y \in 1..n : L[y].term < T
    BY <2>1 DEF Written
  <2>4. ASSUME NEW j \in Q
        PROVE  /\ N[j].term \in Nat /\ N[j].term >= T
               /\ \A t, x \in Nat : <<j, t, x>> \in h.acks /\ t < T /\ <<t, x>> \in F =>
                                       Reaches(L, n, t, x)
    <3>1. j \in Server /\ <<j, T, h.chief[T]>> \in h.votes
      BY DEF Electors
    <3>2. h.chief[T] \in Server
      BY <1>0, <3>1 DEF History
    <3>3. N[j].term \in Nat /\ N[j].term >= T
      BY <2>1, <3>1, <3>2, GoodNode DEF Ballots
    <3>4. \A t, x \in Nat : <<j, t, x>> \in h.acks /\ t < T /\ <<t, x>> \in F =>
                               Reaches(L, n, t, x)
      BY <2>1, <3>1, <3>2 DEF Good, VotesRespect
    <3> QED
      BY <3>3, <3>4
  <2>5. b = 0 \/ \E u, y \in Nat : <<u, y>> \in F /\ u < T /\ b =< y /\ Has(L, h.log[u], b)
    <3> SUFFICES ASSUME b # 0
                 PROVE  \E u, y \in Nat : <<u, y>> \in F /\ u < T /\ b =< y /\ Has(L, h.log[u], b)
      OBVIOUS
    <3>1. PICK u, y \in Nat :
              /\ <<u, y>> \in Chosen(h) /\ b =< y /\ Has(L, h.log[u], y)
              /\ (u = T /\ y < 0) \/ (u < T /\ y =< n)
      BY <2>2 DEF Known
    <3>2. h.log[u] \in Log
      BY <1>0 DEF History
    <3>3. Has(L, h.log[u], b)
      BY <2>1, <3>1, <3>2, HasLess
    <3>4. <<u, y>> \in F
      BY <1>0, <3>1, ChosenIsFirm
    <3> QED
      BY <3>1, <3>3, <3>4
  <2>6. Q \in SUBSET Server
    BY DEF Electors
  <2> HIDE DEF L, n, b, Q
  <2>7. \A t, x \in Nat : <<t, x>> \in F /\ t < T => x =< n /\ Has(L, h.log[t], x)
    BY <1>0, <1>1, <2>1, <2>2, <2>3, <2>4, <2>5, <2>6, Complete
  <2> QED
    BY <2>7 DEF L, n
<1>2. ASSUME Lacks # {} PROVE FALSE
  <2>1. Lacks \in SUBSET Nat
    BY <1>0 DEF History
  <2>2. PICK T \in Lacks : \A u \in Lacks : T =< u
    <3> HIDE DEF Lacks
    <3> QED
      BY <1>2, <2>1, SmallestOf
  <2>3. T \in h.led /\ T \in Nat
    BY <2>1
  <2>4. \A t, x, u \in Nat : <<t, x>> \in F /\ u \in h.led /\ u < T /\ t < u =>
            x =< h.base[u] /\ Has(h.log[u], h.log[t], x)
    <3> SUFFICES ASSUME NEW t \in Nat, NEW x \in Nat, NEW u \in Nat,
                        <<t, x>> \in F, u \in h.led, u < T, t < u
                 PROVE  x =< h.base[u] /\ Has(h.log[u], h.log[t], x)
      OBVIOUS
    <3>1. u \notin Lacks
      <4> HIDE DEF Lacks
      <4> QED
        BY <2>2, <2>3
    <3> QED
      BY <3>1
  <2>5. T \notin Lacks
    BY <1>1, <2>3, <2>4
  <2> QED
    BY <2>5
<1> QED
  BY <1>2 DEF LeadersHave

\* A candidate that has its quorum has what may be committed of earlier terms
LEMMA CandidateHas ==
    ASSUME NEW N, NEW h, Good(N, h), NEW i \in Server, N[i].role = "Candidate",
           EarlierApplied(N[i]), IsQuorum(N[i].granted, N[i].conf)
    PROVE  \A t, x \in Nat : <<t, x>> \in Firm(N, h) /\ t < N[i].term =>
               x =< Len(N[i].log) /\ Has(N[i].log, h.log[t], x)
<1> DEFINE F == Firm(N, h)
           T == N[i].term
           L == N[i].log
           n == Len(L)
           b == N[i].applied
           Q == N[i].granted
<1>0. /\ h \in History /\ Reigns(h) /\ T \in Nat /\ L \in Log /\ n \in Nat /\ b \in Nat
      /\ N[i].commit \in Nat /\ Q \in SUBSET Server
      /\ Holds(h, N[i]) /\ Ballots(h, i, N[i])
  BY GoodNode
<1>1. /\ Written(h, L, n) /\ \A y \in 1..n : L[y].term < T
      /\ b =< N[i].commit /\ N[i].conf = Conf(L, b) /\ Done(h, N[i])
  BY <1>0 DEF Holds
<1>2. N[i].commit = 0 \/
      \E u, y \in Nat : <<u, y>> \in Chosen(h) /\ u < T /\ N[i].commit =< y
                        /\ Has(L, h.log[u], N[i].commit)
  BY <1>1 DEF Done
<1>3. b = 0 \/ \E u, y \in Nat : <<u, y>> \in F /\ u < T /\ b =< y /\ Has(L, h.log[u], b)
  <2>1. CASE N[i].commit = 0
    BY <1>0, <1>1, <2>1
  <2>2. ASSUME NEW u \in Nat, NEW y \in Nat, <<u, y>> \in Chosen(h), u < T, N[i].commit =< y,
               Has(L, h.log[u], N[i].commit)
        PROVE  \E w, z \in Nat : <<w, z>> \in F /\ w < T /\ b =< z /\ Has(L, h.log[w], b)
    <3>0. h.log[u] \in Log
      BY <1>0 DEF History
    <3>1. h.log[u] \in Log /\ b =< y
      BY <1>0, <1>1, <2>2, <3>0
    <3>2. Has(L, h.log[u], b)
      BY <1>0, <1>1, <2>2, <3>1, HasLess
    <3>3. <<u, y>> \in F
      BY <1>0, <2>2, ChosenIsFirm
    <3> QED
      BY <2>2, <3>1, <3>2, <3>3
  <2> QED
    BY <1>2, <2>1, <2>2
<1>4. b \in 0..n
  <2>1. N[i].commit =< n
    <3>1. ASSUME NEW u, Has(L, h.log[u], N[i].commit) PROVE N[i].commit =< n
      BY <3>1 DEF Has
    <3>2. N[i].commit = 0 => N[i].commit =< n
      BY <1>0
    <3> QED
      BY <1>2, <3>1, <3>2
  <2> QED
    BY <1>0, <1>1, <2>1
<1>5. FewChanges(L, b, n)
  <2> SUFFICES ASSUME NEW k \in ChangesIn(L), NEW l \in ChangesIn(L), b < k, k < l PROVE FALSE
    BY DEF FewChanges
  <2>1. k =< b
    BY DEF EarlierApplied
  <2>2. k \in Nat
    BY <1>0 DEF ChangesIn
  <2> QED
    BY <1>0, <2>1, <2>2
<1>6. ASSUME NEW j \in Q
      PROVE  /\ N[j].term \in Nat /\ N[j].term >= T
             /\ \A t, x \in Nat : <<j, t, x>> \in h.acks /\ t < T /\ <<t, x>> \in F =>
                                     Reaches(L, n, t, x)
  <2>1. j \in Server /\ <<j, T, i>> \in h.votes
    BY <1>0 DEF Ballots
  <2>2. N[j].term \in Nat /\ N[j].term >= T
    BY <1>0, <2>1, GoodNode DEF Ballots
  <2>3. \A t, x \in Nat : <<j, t, x>> \in h.acks /\ t < T /\ <<t, x>> \in F =>
                             Reaches(L, n, t, x)
    BY <1>0, <2>1 DEF Good, VotesRespect
  <2> QED
    BY <2>2, <2>3
<1>7. \A t, x, u \in Nat : <<t, x>> \in F /\ u \in h.led /\ u < T /\ t < u =>
          x =< h.base[u] /\ Has(h.log[u], h.log[t], x)
  BY LeadersHold DEF LeadersHave
<1>8. IsQuorum(Q, Conf(L, b)) /\ n \in 0..Len(L)
  BY <1>0, <1>1
<1> HIDE DEF L, n, b, Q, T
<1>9. \A t, x \in Nat : <<t, x>> \in F /\ t < T => x =< n /\ Has(L, h.log[t], x)
  BY <1>0, <1>1, <1>3, <1>4, <1>5, <1>6, <1>7, <1>8, Complete
<1> QED
  BY <1>9 DEF L, n, T

-----------------------------------------------------------------------------
(***************************************************************************)
(* Histories that have become longer: a vote, an acknowledgement, an       *)
(* entry, a leader.                                                        *)
(***************************************************************************)
\* A later history
Extends(h, g) ==
    /\ h.led \subseteq g.led /\ h.votes \subseteq g.votes /\ h.acks \subseteq g.acks
    /\ \A t \in h.led :
          /\ Has(g.log[t], h.log[t], Len(h.log[t]))
          /\ g.base[t] = h.base[t] /\ g.conf[t] = h.conf[t] /\ g.chief[t] = h.chief[t]

\* A longer history has the logs of the shorter as beginnings,
LEMMA ExtendsLog ==
    ASSUME NEW h \in History, NEW g \in History, Extends(h, g), NEW t \in h.led
    PROVE  /\ h.log[t] \in Log /\ g.log[t] \in Log /\ Len(h.log[t]) \in Nat
           /\ Len(g.log[t]) \in Nat /\ Len(h.log[t]) =< Len(g.log[t])
           /\ Has(g.log[t], h.log[t], Len(h.log[t]))
           /\ \A x \in 1..Len(h.log[t]) : g.log[t][x] = h.log[t][x]
<1>1. h.log[t] \in Log /\ g.log[t] \in Log
  BY DEF History
<1>2. Has(g.log[t], h.log[t], Len(h.log[t]))
  BY DEF Extends
<1> QED
  BY <1>1, <1>2 DEF Log, Has

\* so that who had entries of one still has them;
LEMMA ExtendsHas ==
    ASSUME NEW h \in History, NEW g \in History, Extends(h, g), NEW t \in h.led,
           NEW L \in Log, NEW x \in Nat
    PROVE  /\ Has(L, h.log[t], x) => Has(L, g.log[t], x)
           /\ Has(L, g.log[t], x) /\ x =< Len(h.log[t]) => Has(L, h.log[t], x)
<1>1. /\ h.log[t] \in Log /\ g.log[t] \in Log /\ Len(h.log[t]) \in Nat
      /\ Has(g.log[t], h.log[t], Len(h.log[t]))
  BY ExtendsLog
<1>2. Has(h.log[t], g.log[t], Len(h.log[t]))
  BY <1>1, HasSym
<1>3. Has(L, h.log[t], x) => x =< Len(h.log[t])
  BY DEF Has
<1>4. Has(L, h.log[t], x) => Has(L, g.log[t], x)
  BY <1>1, <1>2, <1>3, HasTrans
<1>5. Has(L, g.log[t], x) /\ x =< Len(h.log[t]) => Has(L, h.log[t], x)
  BY <1>1, HasTrans
<1> QED
  BY <1>4, <1>5

\* what leaders appended they did append;
LEMMA ExtendsOwn ==
    ASSUME NEW h \in History, NEW g \in History, Extends(h, g), NEW t, NEW x, Own(h, t, x)
    PROVE  Own(g, t, x)
<1>1. t \in h.led /\ x \in h.base[t] + 1 .. Len(h.log[t])
  BY DEF Own
<1>2. t \in g.led /\ g.base[t] = h.base[t] /\ Len(h.log[t]) =< Len(g.log[t])
      /\ Len(g.log[t]) \in Nat /\ Len(h.log[t]) \in Nat
  BY <1>1, ExtendsLog DEF Extends
<1>3. h.base[t] \in Nat
  BY <1>1 DEF History
<1> QED
  BY <1>1, <1>2, <1>3 DEF Own

\* what was known is;
LEMMA ExtendsKnown ==
    ASSUME NEW h \in History, NEW g \in History, Extends(h, g), NEW S, NEW S2, S \subseteq S2,
           NEW t \in h.led, NEW a, NEW x, Known(h, S, t, a, x)
    PROVE  Known(g, S2, t, a, x)
<1>1. CASE a = 0
  BY <1>1 DEF Known
<1>2. ASSUME NEW u \in Nat, NEW y \in Nat, <<u, y>> \in S, Own(h, u, y), a =< y,
             Has(h.log[t], h.log[u], y), (u = t /\ y < x) \/ (u < t /\ y =< h.base[t])
      PROVE  Known(g, S2, t, a, x)
  <2>1. Own(g, u, y) /\ u \in h.led
    BY <1>2, ExtendsOwn DEF Own
  <2>2. h.log[t] \in Log /\ g.log[t] \in Log /\ h.log[u] \in Log /\ g.log[u] \in Log
    BY <2>1, ExtendsLog
  <2>3. Has(h.log[t], g.log[u], y)
    BY <1>2, <2>1, <2>2, ExtendsHas
  <2>4. Has(g.log[u], h.log[t], y)
    BY <2>3, HasSym
  <2>5. Has(g.log[u], g.log[t], y)
    BY <2>2, <2>4, ExtendsHas
  <2>6. Has(g.log[t], g.log[u], y)
    BY <2>5, HasSym
  <2>7. g.base[t] = h.base[t]
    BY DEF Extends
  <2> QED
    BY <1>2, <2>1, <2>6, <2>7 DEF Known
<1> QED
  BY <1>1, <1>2 DEF Known

\* Few changes between indices that both logs have
LEMMA FewSame ==
    ASSUME NEW L \in Log, NEW P \in Log, NEW b \in Nat, Has(L, P, b), NEW a \in Nat,
           FewChanges(L, a, b)
    PROVE  FewChanges(P, a, b)
<1>1. Len(L) \in Nat /\ Len(P) \in Nat
  BY DEF Log
<1> SUFFICES ASSUME NEW k \in ChangesIn(P), NEW l \in ChangesIn(P), a < k, k < l, ~(b < l)
             PROVE  FALSE
  BY DEF FewChanges
<1>2. k \in Nat /\ l \in Nat /\ k \in 1..b /\ l \in 1..b
  BY <1>1 DEF ChangesIn
<1>3. k \in ChangesIn(L) /\ l \in ChangesIn(L)
  BY <1>1, <1>2 DEF ChangesIn, Has
<1> QED
  BY <1>2, <1>3 DEF FewChanges

\* what was chosen is;
LEMMA ExtendsChosen ==
    ASSUME NEW h \in History, NEW g \in History, Extends(h, g)
    PROVE  Chosen(h) \subseteq Chosen(g)
<1> DEFINE S == Chosen(g)
<1>0. S \in SUBSET (Nat \X Nat)
  BY WinnersClosed DEF Chosen
<1>1. ASSUME NEW t \in Nat, NEW x \in Nat, Wins(h, S, h.acks, t, x) PROVE <<t, x>> \in S
  <2>1. PICK a \in Nat, Q \in SUBSET Server :
            /\ a < x /\ FewChanges(h.log[t], a, x) /\ Known(h, S, t, a, x)
            /\ IsQuorum(Q, Conf(h.log[t], a)) /\ \A j \in Q : <<j, t, x>> \in h.acks
    BY <1>1 DEF Wins
  <2>2. Own(h, t, x) /\ Own(g, t, x) /\ t \in h.led
    BY <1>1, ExtendsOwn DEF Wins, Own
  <2>3. /\ h.log[t] \in Log /\ g.log[t] \in Log /\ Has(g.log[t], h.log[t], Len(h.log[t]))
        /\ Len(h.log[t]) \in Nat /\ h.base[t] \in Nat
    BY <2>2, ExtendsLog DEF History
  <2>4. x =< Len(h.log[t])
    BY <2>2, <2>3 DEF Own
  <2>5. Has(h.log[t], g.log[t], x) /\ Has(h.log[t], g.log[t], a)
    BY <2>1, <2>3, <2>4, HasSym, HasLess
  <2>6. FewChanges(g.log[t], a, x)
    BY <2>1, <2>3, <2>5, FewSame
  <2>7. Conf(g.log[t], a) = Conf(h.log[t], a)
    BY <2>1, <2>3, <2>5, ConfSame
  <2>8. Known(g, S, t, a, x)
    BY <2>1, <2>2, ExtendsKnown
  <2>9. \A j \in Q : <<j, t, x>> \in g.acks
    BY <2>1 DEF Extends
  <2>10. Wins(g, S, g.acks, t, x)
    BY <2>1, <2>2, <2>6, <2>7, <2>8, <2>9 DEF Wins
  <2> QED
    BY <2>10, WinnersClosed DEF Chosen, Closed
<1>2. Closed(h, h.acks, S)
  BY <1>1 DEF Closed
<1> HIDE DEF S
<1> QED
  BY <1>0, <1>2, WinnersLeast DEF Chosen, S

\* what was written by leaders is;
LEMMA ExtendsWritten ==
    ASSUME NEW h \in History, NEW g \in History, Extends(h, g), NEW L \in Log,
           NEW k \in 0..Len(L), Written(h, L, k)
    PROVE  Written(g, L, k)
<1> SUFFICES ASSUME NEW x \in 1..k PROVE L[x].term \in g.led /\ Has(L, g.log[L[x].term], x)
  BY DEF Written
<1>1. x \in Nat /\ L[x].term \in h.led /\ Has(L, h.log[L[x].term], x)
  BY DEF Written
<1>2. L[x].term \in g.led
  BY <1>1 DEF Extends
<1> QED
  BY <1>1, <1>2, ExtendsHas

\* what was done is,
LEMMA ExtendsDone ==
    ASSUME NEW h \in History, NEW g \in History, Extends(h, g), NEW n \in NodeState, Done(h, n)
    PROVE  Done(g, n)
<1>1. n.log \in Log /\ n.commit \in Nat
  BY DEF NodeState, Log
<1>2. CASE n.commit = 0
  BY <1>2 DEF Done
<1>3. ASSUME NEW u \in Nat, NEW y \in Nat, <<u, y>> \in Chosen(h), u =< n.term,
             n.role = "Candidate" => u < n.term,
             n.commit =< y, Has(n.log, h.log[u], n.commit)
      PROVE  Done(g, n)
  <2>1. u \in h.led
    BY <1>3, FirmOwn DEF Chosen
  <2>2. Has(n.log, g.log[u], n.commit)
    BY <1>1, <1>3, <2>1, ExtendsHas
  <2>3. <<u, y>> \in Chosen(g)
    BY <1>3, ExtendsChosen
  <2> QED
    BY <1>3, <2>2, <2>3 DEF Done
<1> QED
  BY <1>2, <1>3 DEF Done

\* and what nodes hold they do.
LEMMA ExtendsHolds ==
    ASSUME NEW h \in History, NEW g \in History, Extends(h, g), NEW n \in NodeState, Holds(h, n)
    PROVE  Holds(g, n)
<1>1. n.log \in Log /\ Len(n.log) \in 0..Len(n.log)
  BY DEF NodeState, Log
<1>2. Done(g, n) /\ Written(g, n.log, Len(n.log))
  BY <1>1, ExtendsDone, ExtendsWritten DEF Holds
<1> QED
  BY <1>2 DEF Holds

\* Of the entries that there were, no more may be committed than before
LEMMA FirmShrinks ==
    ASSUME NEW N, NEW M, NEW h \in History, NEW g \in History, Reigns(h), Reigns(g), Extends(h, g),
           \A v \in May(M, g) : v[2] \in h.led => v \in May(N, h),
           NEW t, NEW x, <<t, x>> \in Firm(M, g), t \in h.led, x =< Len(h.log[t])
    PROVE  <<t, x>> \in Firm(N, h)
<1> DEFINE F == Firm(N, h)
           S == {p \in Nat \X Nat : p[1] \in h.led /\ p[2] =< Len(h.log[p[1]]) => p \in F}
<1>1. ASSUME NEW s \in Nat, NEW z \in Nat, Wins(g, S, May(M, g), s, z),
             s \in h.led, z =< Len(h.log[s])
      PROVE  <<s, z>> \in F
  <2>1. PICK a \in Nat, Q \in SUBSET Server :
            /\ a < z /\ FewChanges(g.log[s], a, z) /\ Known(g, S, s, a, z)
            /\ IsQuorum(Q, Conf(g.log[s], a)) /\ \A j \in Q : <<j, s, z>> \in May(M, g)
    BY <1>1 DEF Wins
  <2>2. /\ h.log[s] \in Log /\ g.log[s] \in Log /\ Has(g.log[s], h.log[s], Len(h.log[s]))
        /\ Len(h.log[s]) \in Nat /\ h.base[s] \in Nat /\ g.base[s] = h.base[s]
        /\ h.base[s] =< Len(h.log[s])
    BY <1>1, ExtendsLog, ReignLog DEF Extends
  <2>3. Has(g.log[s], h.log[s], z) /\ Has(g.log[s], h.log[s], a)
    BY <1>1, <2>1, <2>2, HasLess
  <2>4. Own(h, s, z)
    BY <1>1, <2>2 DEF Wins, Own
  <2>5. FewChanges(h.log[s], a, z)
    BY <2>1, <2>2, <2>3, FewSame
  <2>6. Conf(g.log[s], a) = Conf(h.log[s], a)
    BY <2>1, <2>2, <2>3, ConfSame
  <2>7. Known(h, F, s, a, z)
    <3>1. CASE a = 0
      BY <3>1 DEF Known
    <3>2. ASSUME NEW u \in Nat, NEW y \in Nat, <<u, y>> \in S, Own(g, u, y), a =< y,
                 Has(g.log[s], g.log[u], y), (u = s /\ y < z) \/ (u < s /\ y =< g.base[s])
          PROVE  Known(h, F, s, a, z)
      <4>0. g.base[u] \in Nat /\ u \in g.led /\ Len(g.log[u]) \in Nat
        <5>1. u \in g.led
          BY <3>2 DEF Own
        <5> QED
          BY <5>1, ReignLog
      <4>1. y =< Len(h.log[s]) /\ y \in 1..y
        <5>1. y >= 1
          BY <3>2, <4>0 DEF Own
        <5> QED
          BY <1>1, <2>2, <3>2, <5>1
      <4>2. u \in h.led /\ Has(h.log[s], h.log[u], y)
        <5>1. CASE u = s
          BY <1>1, <2>2, <4>1, <5>1, HasSelf
        <5>2. CASE u # s
          <6>1. u \in g.led /\ g.base[u] \in Nat /\ y \in 1..Len(g.log[u]) /\ ~(y =< g.base[u])
            BY <3>2, <4>0 DEF Own
          <6>2. g.log[u][y].term = u
            BY <6>1, ReignLog
          <6>3. g.log[s][y] = g.log[u][y] /\ g.log[s][y] = h.log[s][y]
            BY <1>1, <2>2, <3>2, <4>1 DEF Has
          <6>4. h.log[s][y].term = u
            BY <6>2, <6>3
          <6>5. Written(h, h.log[s], Len(h.log[s])) /\ y \in 1..Len(h.log[s])
            BY <1>1, <2>2, <4>1, ReignLog
          <6> QED
            BY <6>4, <6>5 DEF Written
        <5> QED
          BY <5>1, <5>2
      <4>3. y =< Len(h.log[u]) /\ Len(h.log[u]) \in Nat
        BY <4>2, ExtendsLog DEF Has
      <4>4. Own(h, u, y)
        <5>1. g.base[u] = h.base[u] /\ h.base[u] \in Nat /\ Len(g.log[u]) \in Nat
          BY <4>2, ExtendsLog DEF Extends, History
        <5>2. y \in g.base[u] + 1 .. Len(g.log[u])
          BY <3>2 DEF Own
        <5>3. y \in h.base[u] + 1 .. Len(h.log[u])
          BY <4>3, <5>1, <5>2
        <5> QED
          BY <4>2, <5>3 DEF Own
      <4>5. <<u, y>> \in F
        BY <3>2, <4>2, <4>3
      <4> HIDE DEF F
      <4> QED
        BY <2>2, <3>2, <4>2, <4>4, <4>5 DEF Known
    <3> QED
      BY <2>1, <3>1, <3>2 DEF Known
  <2>8. \A j \in Q : <<j, s, z>> \in May(N, h)
    BY <1>1, <2>1
  <2>9. Wins(h, F, May(N, h), s, z)
    <3> HIDE DEF F, S
    <3> QED
      BY <2>1, <2>4, <2>5, <2>6, <2>7, <2>8 DEF Wins
  <2> QED
    BY <2>9, WinnersClosed DEF Firm, Closed
<1>2. Closed(g, May(M, g), S)
  BY <1>1 DEF Closed
<1>3. Firm(M, g) \subseteq S
  <2>1. S \in SUBSET (Nat \X Nat)
    OBVIOUS
  <2> HIDE DEF S
  <2> QED
    BY <1>2, <2>1, WinnersLeast DEF Firm
<1>4. <<t, x>> \in S
  BY <1>3
<1> QED
  BY <1>4

-----------------------------------------------------------------------------
(***************************************************************************)
(* The actions, in small steps of one node each.  First those that need no *)
(* longer history.                                                         *)
(***************************************************************************)
\* Some history explains the states of the nodes
Fine(N) == \E h : Good(N, h)

\* A longer history explains a node that the addition is not about.
LEMMA GoodElse ==
    ASSUME NEW N, NEW h, Good(N, h), NEW g \in History, Extends(h, g), NEW j \in Server,
           \A t \in Nat : \A x \in Server :
              /\ <<j, t, x>> \in g.votes => <<j, t, x>> \in h.votes
              /\ <<x, t, j>> \in g.votes => t =< N[j].term,
           \A t \in g.led : g.chief[t] = j => t \in h.led,
           N[j].role = "Leader" => g.log[N[j].term] = h.log[N[j].term]
    PROVE  Local(g, j, N[j])
<1> DEFINE n == N[j]
<1>0. h \in History /\ n \in NodeState /\ Holds(h, n) /\ Ballots(h, j, n) /\ Leads(h, j, n)
  BY GoodNode
<1>1. Holds(g, n)
  BY <1>0, ExtendsHolds
<1>2. Ballots(g, j, n)
  BY <1>0 DEF Ballots, Extends
<1>3. Leads(g, j, n)
  <2> SUFFICES ASSUME n.role = "Leader" PROVE Leads(g, j, n)
    BY DEF Leads
  <2>1. /\ n.term \in h.led /\ h.chief[n.term] = j /\ h.log[n.term] = n.log
        /\ \A k \in Server : \A x \in 1..n.match[k] : <<k, n.term, x>> \in h.acks
        /\ \A x \in Nat : x > n.commit => Known(h, Chosen(h), n.term, n.commit, x)
    BY <1>0 DEF Leads
  <2>2. \A x \in Nat : x > n.commit => Known(g, Chosen(g), n.term, n.commit, x)
    BY <1>0, <2>1, ExtendsKnown, ExtendsChosen
  <2> HIDE DEF n
  <2>3. n.term \in g.led /\ g.chief[n.term] = j /\ g.log[n.term] = n.log
    BY <2>1 DEF Extends, n
  <2>4. \A k \in Server : \A x \in 1..n.match[k] : <<k, n.term, x>> \in g.acks
    BY <2>1 DEF Extends
  <2> QED
    BY <2>2, <2>3, <2>4 DEF Leads
<1> QED
  BY <1>0, <1>1, <1>2, <1>3 DEF Local

\* When terms go up less may still win.
LEMMA LaterFirm ==
    ASSUME NEW N, NEW M, NEW h \in History,
           \A j \in Server : N[j].term \in Nat /\ M[j].term \in Nat /\ N[j].term =< M[j].term
    PROVE  Firm(M, h) \subseteq Firm(N, h)
<1>1. \A t, x \in Nat : \A j \in Server : <<j, t, x>> \in May(M, h) => <<j, t, x>> \in May(N, h)
  BY DEF May
<1> QED
  BY <1>1, WinnersMore DEF Firm

\* A step that leaves the log and the history alone
LEMMA Calm ==
    ASSUME NEW N, NEW h, Good(N, h), NEW i \in Server, NEW o, Local(h, i, o),
           o.log = N[i].log, o.term >= N[i].term,
           o.role = "Candidate" => N[i].role = "Candidate" \/ o.term > N[i].term
    PROVE  Good([N EXCEPT ![i] = o], h)
<1> DEFINE M == [N EXCEPT ![i] = o]
<1>0. /\ N = [j \in Server |-> N[j]] /\ h \in History /\ Reigns(h) /\ Elections(h)
      /\ AcksHold(N, h) /\ VotesRespect(N, h)
  BY DEF Good
<1>1. /\ \A j \in Server : N[j].term \in Nat /\ Local(h, j, N[j]) /\ Ballots(h, j, N[j])
      /\ o.term \in Nat
  BY GoodNode DEF Good, Local, NodeState
<1>2. /\ M = [j \in Server |-> M[j]] /\ M[i] = o /\ \A j \in Server \ {i} : M[j] = N[j]
  BY <1>0
<1> HIDE DEF M
<1>3. /\ \A j \in Server : /\ Local(h, j, M[j]) /\ M[j].log = N[j].log /\ M[j].term \in Nat
                           /\ N[j].term =< M[j].term
  BY <1>1, <1>2
<1>4. Firm(M, h) \subseteq Firm(N, h)
  BY <1>0, <1>1, <1>3, LaterFirm
<1>5. AcksHold(M, h)
  <2> SUFFICES ASSUME NEW j \in Server, NEW t \in Nat, NEW k \in Nat, <<j, t, k>> \in h.acks
               PROVE  /\ k >= 1 /\ t \in h.led /\ k =< Len(h.log[t]) /\ t =< M[j].term
                      /\ M[j].term = t \/ <<t, k>> \in Firm(M, h) => Has(M[j].log, h.log[t], k)
    BY DEF AcksHold
  <2>1. /\ k >= 1 /\ t \in h.led /\ k =< Len(h.log[t]) /\ t =< N[j].term
        /\ N[j].term = t \/ <<t, k>> \in Firm(N, h) => Has(N[j].log, h.log[t], k)
    BY <1>0 DEF AcksHold
  <2>2. t =< M[j].term /\ (M[j].term = t => N[j].term = t)
    BY <1>1, <1>3, <2>1
  <2> QED
    BY <1>3, <1>4, <2>1, <2>2
<1>6. VotesRespect(M, h)
  <2> SUFFICES ASSUME NEW a \in Server, NEW j \in Server, NEW u \in Nat, NEW t \in Nat, NEW k \in Nat,
                      <<j, u, a>> \in h.votes, <<j, t, k>> \in h.acks, t < u, <<t, k>> \in Firm(M, h)
               PROVE  /\ u \in h.led /\ h.chief[u] = a => Reaches(h.log[u], h.base[u], t, k)
                      /\ M[a].role = "Candidate" /\ M[a].term = u =>
                            Reaches(M[a].log, Len(M[a].log), t, k)
    BY DEF VotesRespect
  <2>1. /\ u \in h.led /\ h.chief[u] = a => Reaches(h.log[u], h.base[u], t, k)
        /\ N[a].role = "Candidate" /\ N[a].term = u => Reaches(N[a].log, Len(N[a].log), t, k)
    BY <1>0, <1>4 DEF VotesRespect
  <2>2. u =< N[a].term
    BY <1>1 DEF Ballots
  <2>3. M[a].role = "Candidate" /\ M[a].term = u => N[a].role = "Candidate" /\ N[a].term = u
    <3>1. CASE a = i
      BY <1>1, <1>2, <2>2, <3>1
    <3>2. CASE a # i
      BY <1>2, <3>2
    <3> QED
      BY <3>1, <3>2
  <2> QED
    BY <1>3, <2>1, <2>3
<1>7. Good(M, h)
  BY <1>0, <1>2, <1>3, <1>5, <1>6 DEF Good
<1> QED
  BY <1>7 DEF M

\* The node forgets what it knows of a term
LEMMA ResetType ==
    ASSUME NEW n \in NodeState, NEW t \in Nat
    PROVE  LET o == Reset(n, t)
           IN  /\ o \in NodeState /\ o.role = n.role /\ o.term = t /\ o.log = n.log
               /\ o.commit = n.commit /\ o.applied = n.applied /\ o.conf = n.conf
               /\ o.granted = {} /\ o.match = [j \in Server |-> 0]
               /\ o.vote = IF t = n.term THEN n.vote ELSE None
  BY DEF NodeState, Reset

\* What is committed in a log is there
LEMMA CommitInLog ==
    ASSUME NEW h \in History, NEW n \in NodeState, Holds(h, n)
    PROVE  n.applied =< n.commit /\ n.commit =< Len(n.log)
<1>1. n.commit \in Nat /\ Len(n.log) \in Nat
  <2>1. n.log \in Seq(Entry) /\ n.commit \in Nat
    BY DEF NodeState
  <2> QED
    BY <2>1
<1>2. n.applied =< n.commit /\ Done(h, n)
  BY DEF Holds
<1>3. CASE n.commit = 0
  BY <1>1, <1>2, <1>3
<1>4. ASSUME NEW u, Has(n.log, h.log[u], n.commit) PROVE n.commit =< Len(n.log)
  BY <1>4 DEF Has
<1> QED
  BY <1>2, <1>3, <1>4 DEF Done

\* A node becomes a follower, of its term or a later one
LEMMA FineRest ==
    ASSUME NEW N, Fine(N), NEW i \in Server, NEW t \in Nat, t >= N[i].term,
           NEW lead \in Server \cup {None}
    PROVE  Fine([N EXCEPT ![i] = BecomeFollower(N[i], t, lead)])
<1>0. PICK h : Good(N, h)
  BY DEF Fine
<1> DEFINE n == N[i]
           r == Reset(n, t)
           o == [r EXCEPT !.role = "Follower", !.lead = lead]
<1>1. /\ h \in History /\ n \in NodeState /\ Holds(h, n) /\ Ballots(h, i, n) /\ n.term \in Nat
  BY <1>0, GoodNode
<1>2. t >= n.term
  OBVIOUS
<1> HIDE DEF n
<1>3. /\ r \in NodeState /\ r.term = t /\ r.log = n.log
      /\ r.commit = n.commit /\ r.applied = n.applied /\ r.conf = n.conf
      /\ r.vote = IF t = n.term THEN n.vote ELSE None
  BY <1>1, ResetType
<1> HIDE DEF r
<1>4. /\ o \in NodeState /\ o.term = t /\ o.log = n.log /\ o.role = "Follower"
      /\ o.commit = n.commit /\ o.applied = n.applied /\ o.conf = n.conf
      /\ o.vote = IF t = n.term THEN n.vote ELSE None
  BY <1>3 DEF NodeState
<1> HIDE DEF o
<1>5. \A x \in 1..Len(n.log) : n.log[x].term \in Nat /\ n.log[x].term =< n.term
  <2>1. n.log \in Log
    BY <1>1 DEF NodeState, Log
  <2> QED
    BY <1>1, <2>1, EntryType DEF Holds
<1>6. Holds(h, o)
  <2>1. \A x \in 1..Len(n.log) : n.log[x].term =< t
    BY <1>1, <1>2, <1>5
  <2>2. Done(h, o)
    <3>1. CASE n.commit = 0
      BY <1>4, <3>1 DEF Done
    <3>2. ASSUME NEW u \in Nat, NEW y \in Nat, <<u, y>> \in Chosen(h), u =< n.term,
                 n.commit =< y, Has(n.log, h.log[u], n.commit)
          PROVE  Done(h, o)
      <4>1. u =< t
        BY <1>1, <1>2, <3>2
      <4> QED
        BY <1>4, <3>2, <4>1 DEF Done
    <3> QED
      BY <1>1, <3>1, <3>2 DEF Holds, Done
  <2> QED
    BY <1>1, <1>4, <2>1, <2>2 DEF Holds
<1>7. Ballots(h, i, o)
  <2>1. ASSUME NEW u \in Nat, NEW x \in Server, <<i, u, x>> \in h.votes
        PROVE  u =< o.term /\ (u = o.term => o.vote = x)
    <3>1. u =< n.term /\ (u = n.term => n.vote = x)
      BY <1>1, <2>1 DEF Ballots
    <3> QED
      BY <1>1, <1>2, <1>4, <3>1
  <2>2. ASSUME NEW u \in Nat, NEW x \in Server, <<x, u, i>> \in h.votes PROVE u =< o.term
    <3>1. u =< n.term
      BY <1>1, <2>2 DEF Ballots
    <3> QED
      BY <1>1, <1>2, <1>4, <3>1
  <2>3. o.vote # None => <<i, o.term, o.vote>> \in h.votes
    BY <1>1, <1>4 DEF Ballots
  <2>4. ASSUME NEW u \in h.led, h.chief[u] = i
        PROVE  u =< o.term /\ (u = o.term => o.role # "Candidate")
    <3>1. u =< n.term /\ u \in Nat
      BY <1>1, <2>4 DEF Ballots, History
    <3> QED
      BY <1>1, <1>2, <1>4, <3>1
  <2> QED
    BY <1>4, <2>1, <2>2, <2>3, <2>4 DEF Ballots
<1>8. Local(h, i, o)
  BY <1>4, <1>6, <1>7 DEF Local, Leads
<1>9. BecomeFollower(N[i], t, lead) = o
  BY DEF BecomeFollower, o, r, n
<1>10. Good([N EXCEPT ![i] = o], h)
  BY <1>0, <1>2, <1>4, <1>8, Calm DEF n
<1> QED
  BY <1>9, <1>10 DEF Fine

\* A campaign, before the node has voted
LEMMA FineStand ==
    ASSUME NEW N, Fine(N), NEW i \in Server
    PROVE  Fine([N EXCEPT ![i] = [Reset(N[i], N[i].term + 1) EXCEPT !.role = "Candidate"]])
<1>0. PICK h : Good(N, h)
  BY DEF Fine
<1> DEFINE n == N[i]
           t == n.term + 1
           r == Reset(n, t)
           o == [r EXCEPT !.role = "Candidate"]
<1>1. /\ h \in History /\ n \in NodeState /\ Holds(h, n) /\ Ballots(h, i, n) /\ n.term \in Nat
  BY <1>0, GoodNode
<1> HIDE DEF n
<1>2. t \in Nat /\ t > n.term
  BY <1>1
<1>3. /\ r \in NodeState /\ r.term = t /\ r.log = n.log
      /\ r.commit = n.commit /\ r.applied = n.applied /\ r.conf = n.conf
      /\ r.vote = None /\ r.granted = {}
  <2> HIDE DEF t
  <2> QED
    BY <1>1, <1>2, ResetType
<1> HIDE DEF r
<1>4. /\ o \in NodeState /\ o.term = t /\ o.log = n.log /\ o.role = "Candidate"
      /\ o.commit = n.commit /\ o.applied = n.applied /\ o.conf = n.conf
      /\ o.vote = None /\ o.granted = {}
  BY <1>3 DEF NodeState
<1> HIDE DEF o, t
<1>5. \A x \in 1..Len(n.log) : n.log[x].term \in Nat /\ n.log[x].term =< n.term
  <2>1. n.log \in Log
    BY <1>1 DEF NodeState, Log
  <2> QED
    BY <1>1, <2>1, EntryType DEF Holds
<1>6. Holds(h, o)
  <2>1. \A x \in 1..Len(n.log) : n.log[x].term < t /\ n.log[x].term =< t
    BY <1>1, <1>2, <1>5
  <2>2. Done(h, o)
    <3>1. CASE n.commit = 0
      BY <1>4, <3>1 DEF Done
    <3>2. ASSUME NEW u \in Nat, NEW y \in Nat, <<u, y>> \in Chosen(h), u =< n.term,
                 n.commit =< y, Has(n.log, h.log[u], n.commit)
          PROVE  Done(h, o)
      <4>1. u =< t /\ u < t
        BY <1>1, <1>2, <3>2
      <4> QED
        BY <1>4, <3>2, <4>1 DEF Done
    <3> QED
      BY <1>1, <3>1, <3>2 DEF Holds, Done
  <2>3. o.term >= 1
    BY <1>1, <1>2, <1>4
  <2> QED
    BY <1>1, <1>4, <2>1, <2>2, <2>3 DEF Holds
<1>7. Ballots(h, i, o)
  <2>1. ASSUME NEW u \in Nat, NEW x \in Server, <<i, u, x>> \in h.votes
        PROVE  u =< o.term /\ u # o.term
    <3>1. u =< n.term
      BY <1>1, <2>1 DEF Ballots
    <3> QED
      BY <1>1, <1>2, <1>4, <3>1
  <2>2. ASSUME NEW u \in Nat, NEW x \in Server, <<x, u, i>> \in h.votes PROVE u =< o.term
    <3>1. u =< n.term
      BY <1>1, <2>2 DEF Ballots
    <3> QED
      BY <1>1, <1>2, <1>4, <3>1
  <2>3. ASSUME NEW u \in h.led, h.chief[u] = i
        PROVE  u =< o.term /\ u # o.term
    <3>1. u =< n.term /\ u \in Nat
      BY <1>1, <2>3 DEF Ballots, History
    <3> QED
      BY <1>1, <1>2, <1>4, <3>1
  <2> QED
    BY <1>4, <2>1, <2>2, <2>3 DEF Ballots
<1>8. Local(h, i, o)
  BY <1>4, <1>6, <1>7 DEF Local, Leads
<1>9. [Reset(N[i], N[i].term + 1) EXCEPT !.role = "Candidate"] = o
  BY DEF o, r, n, t
<1>10. Good([N EXCEPT ![i] = o], h)
  <2>1. o.log = N[i].log /\ o.term >= N[i].term /\ o.term > N[i].term
    BY <1>1, <1>2, <1>4 DEF n
  <2> QED
    BY <1>0, <1>8, <2>1, Calm
<1> QED
  BY <1>9, <1>10 DEF Fine

\* Fields that do not matter
LEMMA FineOther ==
    ASSUME NEW N, Fine(N), NEW i \in Server, NEW x \in Server \cup {None}, NEW p \in Nat, NEW s \in Nat
    PROVE  Fine([N EXCEPT ![i] = [N[i] EXCEPT !.lead = x, !.pendingConfIndex = p,
                                              !.uncommittedSize = s]])
<1>0. PICK h : Good(N, h)
  BY DEF Fine
<1> DEFINE n == N[i]
           o == [n EXCEPT !.lead = x, !.pendingConfIndex = p, !.uncommittedSize = s]
<1>1. /\ h \in History /\ n \in NodeState /\ Holds(h, n) /\ Ballots(h, i, n) /\ Leads(h, i, n)
      /\ n.term \in Nat
  BY <1>0, GoodNode
<1> HIDE DEF n
<1>2. /\ o \in NodeState /\ o.term = n.term /\ o.log = n.log /\ o.role = n.role
      /\ o.commit = n.commit /\ o.applied = n.applied /\ o.conf = n.conf
      /\ o.vote = n.vote /\ o.granted = n.granted /\ o.match = n.match
  BY <1>1 DEF NodeState
<1> HIDE DEF o
<1>3. Holds(h, o) /\ Ballots(h, i, o) /\ Leads(h, i, o)
  BY <1>1, <1>2 DEF Holds, Done, Ballots, Leads
<1>4. Good([N EXCEPT ![i] = o], h)
  <2>1. o.log = N[i].log /\ o.term >= N[i].term /\ o.role = N[i].role
    BY <1>1, <1>2 DEF n
  <2> QED
    BY <1>0, <1>2, <1>3, <2>1, Calm DEF Local
<1> QED
  BY <1>4 DEF Fine, o, n

-----------------------------------------------------------------------------
(***************************************************************************)
(* A vote is cast.                                                         *)
(***************************************************************************)
\* The elections that there were
LEMMA ElectionsLast ==
    ASSUME NEW h \in History, NEW g \in History, Reigns(h), Elections(h), Extends(h, g), NEW t \in h.led
    PROVE  /\ g.conf[t] =< g.base[t] /\ FewChanges(g.log[t], g.conf[t], g.base[t])
           /\ Known(g, Chosen(g), t, g.conf[t], 0)
           /\ IsQuorum(Electors(g, t), Conf(g.log[t], g.conf[t]))
<1> DEFINE L == h.log[t]
           P == g.log[t]
           b == h.base[t]
           c == h.conf[t]
<1>1. /\ c =< b /\ FewChanges(L, c, b) /\ Known(h, Chosen(h), t, c, 0)
      /\ IsQuorum(Electors(h, t), Conf(L, c))
  BY DEF Elections
<1>2. g.base[t] = b /\ g.conf[t] = c /\ g.chief[t] = h.chief[t] /\ t \in Nat
  BY DEF Extends, History
<1>3. /\ L \in Log /\ P \in Log /\ Has(P, L, Len(L)) /\ b \in Nat /\ c \in Nat /\ b =< Len(L)
      /\ Len(L) \in Nat /\ Len(P) \in Nat
  BY ExtendsLog, ReignLog
<1>4. Known(g, Chosen(g), t, c, 0)
  BY <1>1, ExtendsKnown, ExtendsChosen
<1> HIDE DEF L, P, b, c
<1>5. Has(L, P, b) /\ Has(L, P, c) /\ c \in 0..Len(P)
  <2>1. Has(L, P, Len(L)) /\ c =< Len(L)
    BY <1>1, <1>3, HasSym
  <2>2. Has(L, P, b) /\ Has(L, P, c)
    BY <1>3, <2>1, HasLess
  <2>3. c =< Len(P)
    BY <2>2 DEF Has
  <2> QED
    BY <1>3, <2>2, <2>3
<1>6. FewChanges(P, c, b)
  BY <1>1, <1>3, <1>5, FewSame
<1>7. Conf(L, c) = Conf(P, c) /\ Conf(P, c) \in Config
  <2>1. c \in 0..c
    BY <1>3
  <2> QED
    BY <1>3, <1>5, <2>1, ConfSame, ConfType
<1>8. /\ Electors(h, t) \subseteq Electors(g, t) /\ Electors(h, t) \in SUBSET Server
      /\ Electors(g, t) \in SUBSET Server
  BY <1>2 DEF Electors, Extends
<1>9. IsQuorum(Electors(g, t), Conf(P, c))
  BY <1>1, <1>7, <1>8, QuorumMore
<1> QED
  BY <1>1, <1>2, <1>4, <1>6, <1>9 DEF P

\* A voter without an own opinion votes for a candidate that has no less
LEMMA FineBallot ==
    ASSUME NEW N, Fine(N), NEW i \in Server, NEW j \in Server, N[i].role = "Candidate",
           N[j].term = N[i].term, N[j].vote \in {i, None}, IsUpToDate(N[i], N[j])
    PROVE  Fine([N EXCEPT ![j] = [N[j] EXCEPT !.vote = i]])
<1>0. PICK h : Good(N, h)
  BY DEF Fine
<1> DEFINE n == N[j]
           T == N[i].term
           o == [n EXCEPT !.vote = i]
           M == [N EXCEPT ![j] = o]
           g == [h EXCEPT !.votes = @ \cup {<<j, T, i>>}]
<1>1. /\ N = [k \in Server |-> N[k]] /\ h \in History /\ Reigns(h) /\ Elections(h)
      /\ AcksHold(N, h) /\ VotesRespect(N, h) /\ LeadersHave(N, h)
  BY <1>0, LeadersHold DEF Good
<1>2. \A k \in Server : /\ N[k].term \in Nat /\ N[k].log \in Log /\ Len(N[k].log) \in Nat
                        /\ N[k] \in NodeState /\ Holds(h, N[k])
                        /\ Ballots(h, k, N[k]) /\ Leads(h, k, N[k])
  BY <1>0, GoodNode
<1>3. T \in Nat /\ n.term = T /\ n.vote \in {i, None}
  BY <1>2
<1>4. None \notin Server
  BY ReconfigurationAssumption
<1>5. /\ o \in NodeState /\ o.term = T /\ o.log = n.log /\ o.role = n.role
      /\ o.commit = n.commit /\ o.applied = n.applied /\ o.conf = n.conf
      /\ o.vote = i /\ o.granted = n.granted /\ o.match = n.match
  <2>1. n \in NodeState
    BY <1>2
  <2> HIDE DEF n
  <2> QED
    BY <1>3, <2>1 DEF NodeState
<1>6. /\ M = [k \in Server |-> M[k]] /\ M[j] = o /\ \A k \in Server \ {j} : M[k] = N[k]
  <2> HIDE DEF o
  <2> QED
    BY <1>1
<1>7. /\ g \in History /\ g.votes = h.votes \cup {<<j, T, i>>} /\ g.log = h.log /\ g.led = h.led
      /\ g.base = h.base /\ g.conf = h.conf /\ g.chief = h.chief /\ g.acks = h.acks
  <2> HIDE DEF T
  <2> QED
    BY <1>1, <1>3 DEF History
<1> HIDE DEF g, M, o
<1>8. Extends(h, g)
  <2>1. \A t \in h.led : Has(g.log[t], h.log[t], Len(h.log[t]))
    BY <1>1, <1>7, ReignLog, HasSelf
  <2> QED
    BY <1>7, <2>1 DEF Extends
<1>9. Reigns(g)
  BY <1>1, <1>7 DEF Reigns, Written
<1>10. ASSUME NEW x \in Server, <<j, T, x>> \in h.votes PROVE x = i
  BY <1>2, <1>3, <1>4, <1>10 DEF Ballots
<1>11. Elections(g)
  <2>1. ASSUME NEW k \in Server, NEW a \in Server, NEW b \in Server, NEW t \in Nat,
               <<k, t, a>> \in g.votes, <<k, t, b>> \in g.votes
        PROVE  a = b
    BY <1>1, <1>7, <1>10, <2>1 DEF Elections
  <2>2. \A t \in g.led : /\ g.conf[t] =< g.base[t] /\ FewChanges(g.log[t], g.conf[t], g.base[t])
                         /\ Known(g, Chosen(g), t, g.conf[t], 0)
                         /\ IsQuorum(Electors(g, t), Conf(g.log[t], g.conf[t]))
    BY <1>1, <1>7, <1>8, ElectionsLast
  <2> QED
    BY <2>1, <2>2 DEF Elections
<1>12. \A k \in Server : M[k].term = N[k].term /\ M[k].log = N[k].log /\ M[k].role = N[k].role
  BY <1>3, <1>5, <1>6
<1>13. ASSUME NEW t \in Nat, NEW x \in Nat, <<t, x>> \in Firm(M, g) PROVE <<t, x>> \in Firm(N, h)
  <2>1. t \in h.led /\ Own(g, t, x)
    BY <1>7, <1>13, FirmOwn DEF Firm
  <2>2. x =< Len(h.log[t])
    BY <1>1, <1>7, <2>1, ReignLog DEF Own
  <2>3. \A v \in May(M, g) : v \in May(N, h)
    BY <1>7, <1>12 DEF May
  <2> QED
    BY <1>1, <1>7, <1>8, <1>9, <1>13, <2>1, <2>2, <2>3, FirmShrinks
<1>14. AcksHold(M, g)
  BY <1>1, <1>7, <1>12, <1>13 DEF AcksHold
<1>15. ASSUME NEW t \in Nat, NEW k \in Nat, <<j, t, k>> \in h.acks, t < T, <<t, k>> \in Firm(N, h)
       PROVE  Reaches(N[i].log, Len(N[i].log), t, k)
  <2>1. k >= 1 /\ t \in h.led /\ Has(n.log, h.log[t], k)
    BY <1>1, <1>15 DEF AcksHold
  <2>2. h.log[t] \in Log /\ Own(h, t, k)
    BY <1>1, <1>15, FirmOwn DEF Firm
  <2>3. n.log \in Log /\ Len(n.log) \in Nat /\ Written(h, n.log, Len(n.log))
    BY <1>2 DEF Holds
  <2>4. k \in 1..Len(n.log) /\ n.log[k].term = t
    <3>1. k =< Len(n.log) /\ n.log[k] = h.log[t][k]
      BY <2>1 DEF Has
    <3>2. k \in 1..Len(h.log[t]) /\ ~(k =< h.base[t])
      <4>1. h.base[t] \in Nat /\ Len(h.log[t]) \in Nat
        BY <1>1, <2>1, ReignLog
      <4> QED
        BY <2>1, <2>2, <4>1 DEF Own
    <3>3. h.log[t][k].term = t
      BY <1>1, <2>1, <3>2, ReignLog
    <3> QED
      BY <2>1, <2>3, <3>1, <3>3
  <2>5. LastTerm(n) >= t /\ LastTerm(n) \in Nat /\ Len(n.log) >= k
    <3>1. n.log # <<>> /\ Len(n.log) \in 1..Len(n.log)
      BY <2>3, <2>4
    <3>2. n.log[k].term =< n.log[Len(n.log)].term
      BY <1>1, <2>3, <2>4, <3>1, WrittenTerms
    <3>3. n.log[Len(n.log)].term \in Nat
      BY <2>3, <3>1, EntryType
    <3>4. LastTerm(n) = n.log[Len(n.log)].term
      BY <3>1 DEF LastTerm
    <3> QED
      BY <2>3, <2>4, <3>2, <3>3, <3>4
  <2> DEFINE c == N[i]
  <2>6. c.log \in Log /\ Len(c.log) \in Nat /\ IsUpToDate(c, n)
    BY <1>2
  <2>7. t >= 1
    BY <1>1, <2>1, ReignLog
  <2> HIDE DEF c, n
  <2>8. LastTerm(c) \in Nat
    <3>1. c.log # <<>> => Len(c.log) \in 1..Len(c.log)
      BY <2>6 DEF Log
    <3>2. c.log # <<>> => c.log[Len(c.log)].term \in Nat
      BY <2>6, <3>1, EntryType
    <3> QED
      BY <3>2 DEF LastTerm
  <2>9. c.log # <<>> /\ Len(c.log) >= 1 /\ LastTerm(c) = c.log[Len(c.log)].term
    <3>1. LastTerm(c) >= LastTerm(n)
      BY <2>5, <2>6, <2>8 DEF IsUpToDate
    <3>2. LastTerm(c) # 0
      BY <2>5, <2>7, <2>8, <3>1
    <3>3. c.log # <<>>
      BY <3>2 DEF LastTerm
    <3>4. Len(c.log) >= 1
      BY <2>6, <3>3 DEF Log
    <3> QED
      BY <3>3, <3>4 DEF LastTerm
  <2>10. \/ LastTerm(c) > t
         \/ LastTerm(c) = t /\ Len(c.log) >= k
    <3>1. \/ LastTerm(c) > LastTerm(n)
          \/ LastTerm(c) = LastTerm(n) /\ Len(c.log) >= Len(n.log)
      BY <2>6 DEF IsUpToDate
    <3>2. Len(n.log) \in Nat
      BY <2>3
    <3> QED
      BY <2>5, <2>6, <2>8, <3>1, <3>2
  <2>11. Reaches(c.log, Len(c.log), t, k)
    BY <2>9, <2>10 DEF Reaches
  <2> QED
    BY <2>11 DEF c
<1>16. ~(T \in h.led /\ h.chief[T] = i)
  BY <1>2 DEF Ballots
<1>17. VotesRespect(M, g)
  <2> SUFFICES ASSUME NEW a \in Server, NEW b \in Server, NEW u \in Nat, NEW t \in Nat, NEW k \in Nat,
                      <<b, u, a>> \in g.votes, <<b, t, k>> \in g.acks, t < u, <<t, k>> \in Firm(M, g)
               PROVE  /\ u \in g.led /\ g.chief[u] = a => Reaches(g.log[u], g.base[u], t, k)
                      /\ M[a].role = "Candidate" /\ M[a].term = u =>
                            Reaches(M[a].log, Len(M[a].log), t, k)
    BY DEF VotesRespect
  <2>1. <<t, k>> \in Firm(N, h) /\ <<b, t, k>> \in h.acks
    BY <1>7, <1>13
  <2>2. CASE <<b, u, a>> \in h.votes
    BY <1>1, <1>7, <1>12, <2>1, <2>2 DEF VotesRespect
  <2>3. CASE b = j /\ u = T /\ a = i
    BY <1>7, <1>12, <1>15, <1>16, <2>1, <2>3
  <2> QED
    BY <1>7, <2>2, <2>3
<1>18. ASSUME NEW k \in Server, k # j PROVE Local(g, k, M[k])
  <2>1. ASSUME NEW t \in Nat, NEW x \in Server
        PROVE  /\ <<k, t, x>> \in g.votes => <<k, t, x>> \in h.votes
               /\ <<x, t, k>> \in g.votes => t =< N[k].term
    <3>1. <<x, t, k>> \in h.votes => t =< N[k].term
      BY <1>2 DEF Ballots
    <3>2. <<x, t, k>> \in g.votes => <<x, t, k>> \in h.votes \/ (t = T /\ k = i)
      BY <1>7
    <3> QED
      BY <1>3, <1>7, <1>18, <3>1, <3>2
  <2>2. Local(g, k, N[k])
    BY <1>0, <1>7, <1>8, <2>1, GoodElse
  <2> QED
    BY <1>6, <1>18, <2>2
<1>19. Local(g, j, M[j])
  <2>1. Holds(g, n)
    BY <1>1, <1>2, <1>7, <1>8, ExtendsHolds
  <2>2. Holds(g, o)
    BY <1>3, <1>5, <2>1 DEF Holds, Done
  <2>3. Ballots(h, j, n)
    BY <1>2
  <2>4. Leads(g, j, o)
    <3> SUFFICES ASSUME n.role = "Leader" PROVE Leads(g, j, o)
      BY <1>5 DEF Leads
    <3>1. /\ n.term \in h.led /\ h.chief[n.term] = j /\ h.log[n.term] = n.log
          /\ \A k \in Server : \A x \in 1..n.match[k] : <<k, n.term, x>> \in h.acks
          /\ \A x \in Nat : x > n.commit => Known(h, Chosen(h), n.term, n.commit, x)
      BY <1>2 DEF Leads
    <3>2. \A x \in Nat : x > n.commit => Known(g, Chosen(g), n.term, n.commit, x)
      BY <1>1, <1>7, <1>8, <3>1, ExtendsKnown, ExtendsChosen
    <3> QED
      BY <1>3, <1>5, <1>7, <3>1, <3>2 DEF Leads
  <2> HIDE DEF n, T
  <2>5. ASSUME NEW t \in Nat, NEW x \in Server
        PROVE  /\ <<j, t, x>> \in g.votes => t =< o.term /\ (t = o.term => o.vote = x)
               /\ <<x, t, j>> \in g.votes => t =< o.term
    <3>1. /\ <<j, t, x>> \in h.votes => t =< n.term
          /\ <<x, t, j>> \in h.votes => t =< n.term
      BY <2>3 DEF Ballots
    <3>2. <<j, T, x>> \in h.votes => x = i
      BY <1>10
    <3>3. /\ <<j, t, x>> \in g.votes => <<j, t, x>> \in h.votes \/ (t = T /\ x = i)
          /\ <<x, t, j>> \in g.votes => <<x, t, j>> \in h.votes \/ t = T
      BY <1>7
    <3> QED
      BY <1>3, <1>5, <3>1, <3>2, <3>3
  <2>6. <<j, o.term, o.vote>> \in g.votes
    BY <1>5, <1>7
  <2>7. o.role = "Candidate" => \A k \in o.granted : <<k, o.term, j>> \in g.votes
    BY <1>3, <1>5, <1>7, <2>3 DEF Ballots
  <2>8. \A t \in g.led : g.chief[t] = j => t =< o.term /\ (t = o.term => o.role # "Candidate")
    BY <1>3, <1>5, <1>7, <2>3 DEF Ballots
  <2>9. Ballots(g, j, o)
    BY <2>5, <2>6, <2>7, <2>8 DEF Ballots
  <2> QED
    BY <1>5, <1>6, <2>2, <2>4, <2>9 DEF Local
<1>20. Good(M, g)
  BY <1>6, <1>7, <1>9, <1>11, <1>14, <1>17, <1>18, <1>19 DEF Good
<1> QED
  BY <1>20 DEF Fine, M, o

-----------------------------------------------------------------------------
(***************************************************************************)
(* A vote and an acknowledgement are counted.                              *)
(***************************************************************************)
\* A candidate counts a vote
LEMMA FineCount ==
    ASSUME NEW N, Fine(N), NEW i \in Server, NEW j \in Server, N[i].role = "Candidate",
           N[j].term = N[i].term, N[j].vote = i
    PROVE  Fine([N EXCEPT ![i] = [N[i] EXCEPT !.granted = @ \cup {j}]])
<1>0. PICK h : Good(N, h)
  BY DEF Fine
<1> DEFINE n == N[i]
           o == [n EXCEPT !.granted = @ \cup {j}]
<1>1. /\ h \in History /\ n \in NodeState /\ Holds(h, n) /\ Ballots(h, i, n)
      /\ n.term \in Nat /\ n.role = "Candidate"
  BY <1>0, GoodNode
<1>2. <<j, n.term, i>> \in h.votes
  <2>1. Ballots(h, j, N[j]) /\ None \notin Server
    BY <1>0, GoodNode, ReconfigurationAssumption
  <2> QED
    BY <2>1 DEF Ballots
<1> HIDE DEF n
<1>3. /\ o \in NodeState /\ o.term = n.term /\ o.log = n.log /\ o.role = n.role
      /\ o.commit = n.commit /\ o.applied = n.applied /\ o.conf = n.conf
      /\ o.vote = n.vote /\ o.granted = n.granted \cup {j}
  BY <1>1 DEF NodeState
<1> HIDE DEF o
<1>4. Holds(h, o) /\ Ballots(h, i, o) /\ Leads(h, i, o)
  BY <1>1, <1>2, <1>3 DEF Holds, Done, Ballots, Leads
<1>5. Good([N EXCEPT ![i] = o], h)
  <2>1. o.log = N[i].log /\ o.term >= N[i].term /\ o.role = N[i].role
    BY <1>1, <1>3 DEF n
  <2> QED
    BY <1>0, <1>3, <1>4, <2>1, Calm DEF Local
<1> QED
  BY <1>5 DEF Fine, o, n

\* A leader is told how much of its log a node of its term has
LEMMA FineMatch ==
    ASSUME NEW N, Fine(N), NEW i \in Server, NEW j \in Server, N[i].role = "Leader",
           N[j].term = N[i].term, NEW k \in 0..Len(N[i].log), Has(N[j].log, N[i].log, k)
    PROVE  Fine([N EXCEPT ![i] = [N[i] EXCEPT !.match[j] = k]])
<1>0. PICK h : Good(N, h)
  BY DEF Fine
<1> DEFINE n == N[i]
           T == N[i].term
           o == [n EXCEPT !.match[j] = k]
           M == [N EXCEPT ![i] = o]
           g == [h EXCEPT !.acks = @ \cup {<<j, T, x>> : x \in 1..k}]
<1>1. /\ N = [a \in Server |-> N[a]] /\ h \in History /\ Reigns(h) /\ Elections(h)
      /\ AcksHold(N, h) /\ VotesRespect(N, h)
  BY <1>0 DEF Good
<1>2. \A a \in Server : /\ N[a].term \in Nat /\ N[a].log \in Log /\ Len(N[a].log) \in Nat
                        /\ N[a] \in NodeState /\ Holds(h, N[a])
                        /\ Ballots(h, a, N[a]) /\ Leads(h, a, N[a])
  BY <1>0, GoodNode
<1>3. /\ T \in Nat /\ n.term = T /\ n.role = "Leader" /\ N[j].term = T /\ k \in Nat
      /\ T \in h.led /\ h.chief[T] = i /\ h.log[T] = n.log /\ k =< Len(n.log)
      /\ n.match \in [Server -> Nat]
  <2>1. n \in NodeState /\ T \in Nat /\ Len(n.log) \in Nat /\ Leads(h, i, n)
    BY <1>2
  <2> QED
    BY <2>1 DEF Leads, NodeState
<1>4. /\ o \in NodeState /\ o.term = T /\ o.log = n.log /\ o.role = n.role
      /\ o.commit = n.commit /\ o.applied = n.applied /\ o.conf = n.conf
      /\ o.vote = n.vote /\ o.granted = n.granted /\ o.match = [n.match EXCEPT ![j] = k]
  <2>1. n \in NodeState
    BY <1>2
  <2> HIDE DEF n
  <2> QED
    BY <1>3, <2>1 DEF NodeState
<1>5. /\ M = [a \in Server |-> M[a]] /\ M[i] = o /\ \A a \in Server \ {i} : M[a] = N[a]
  <2> HIDE DEF o
  <2> QED
    BY <1>1
<1>6. /\ g \in History /\ g.votes = h.votes /\ g.log = h.log /\ g.led = h.led
      /\ g.base = h.base /\ g.conf = h.conf /\ g.chief = h.chief
      /\ g.acks = h.acks \cup {<<j, T, x>> : x \in 1..k}
  <2> HIDE DEF T
  <2>1. {<<j, T, x>> : x \in 1..k} \subseteq Server \X Nat \X Nat
    BY <1>3
  <2> QED
    BY <1>1, <2>1 DEF History
<1> HIDE DEF g, M, o
<1>7. Extends(h, g)
  <2>1. \A t \in h.led : Has(g.log[t], h.log[t], Len(h.log[t]))
    BY <1>1, <1>6, ReignLog, HasSelf
  <2> QED
    BY <1>6, <2>1 DEF Extends
<1>8. Reigns(g)
  BY <1>1, <1>6 DEF Reigns, Written
<1>9. Elections(g)
  <2>1. \A t \in g.led : /\ g.conf[t] =< g.base[t] /\ FewChanges(g.log[t], g.conf[t], g.base[t])
                         /\ Known(g, Chosen(g), t, g.conf[t], 0)
                         /\ IsQuorum(Electors(g, t), Conf(g.log[t], g.conf[t]))
    BY <1>1, <1>6, <1>7, ElectionsLast
  <2> QED
    BY <1>1, <1>6, <2>1 DEF Elections
<1>10. \A a \in Server : M[a].term = N[a].term /\ M[a].log = N[a].log /\ M[a].role = N[a].role
  BY <1>3, <1>4, <1>5
<1>11. ASSUME NEW t \in Nat, NEW x \in Nat, <<t, x>> \in Firm(M, g) PROVE <<t, x>> \in Firm(N, h)
  <2>1. t \in h.led /\ Own(g, t, x)
    BY <1>6, <1>11, FirmOwn DEF Firm
  <2>2. x =< Len(h.log[t])
    BY <1>1, <1>6, <2>1, ReignLog DEF Own
  <2>3. \A v \in May(M, g) : v \in May(N, h)
    <3> SUFFICES ASSUME NEW v \in May(M, g) PROVE v \in May(N, h)
      OBVIOUS
    <3>1. v \in Server \X Nat \X Nat /\ (v \in g.acks \/ M[v[1]].term =< v[2])
      BY DEF May
    <3>2. M[v[1]].term = N[v[1]].term
      BY <1>10, <3>1
    <3>3. CASE v \in {<<j, T, x2>> : x2 \in 1..k}
      <4>1. v[1] = j /\ v[2] = T
        BY <3>3
      <4>2. N[v[1]].term =< v[2]
        BY <1>3, <4>1
      <4> QED
        BY <3>1, <4>2 DEF May
    <3> QED
      BY <1>6, <3>1, <3>2, <3>3 DEF May
  <2> QED
    BY <1>1, <1>6, <1>7, <1>8, <1>11, <2>1, <2>2, <2>3, FirmShrinks
<1>12. AcksHold(M, g)
  <2> SUFFICES ASSUME NEW a \in Server, NEW t \in Nat, NEW x \in Nat, <<a, t, x>> \in g.acks
               PROVE  /\ x >= 1 /\ t \in g.led /\ x =< Len(g.log[t]) /\ t =< M[a].term
                      /\ M[a].term = t \/ <<t, x>> \in Firm(M, g) => Has(M[a].log, g.log[t], x)
    BY DEF AcksHold
  <2>1. CASE <<a, t, x>> \in h.acks
    BY <1>1, <1>6, <1>10, <1>11, <2>1 DEF AcksHold
  <2>2. CASE a = j /\ t = T /\ x \in 1..k
    <3>1. Len(n.log) \in Nat /\ N[j].log \in Log /\ n.log \in Log /\ Has(N[j].log, n.log, k)
      BY <1>2
    <3>2. Has(N[j].log, n.log, x)
      BY <1>3, <2>2, <3>1, HasLess
    <3> HIDE DEF n, T
    <3> QED
      BY <1>3, <1>6, <1>10, <2>2, <3>1, <3>2
  <2> QED
    BY <1>6, <2>1, <2>2
<1>13. VotesRespect(M, g)
  <2> SUFFICES ASSUME NEW a \in Server, NEW b \in Server, NEW u \in Nat, NEW t \in Nat, NEW x \in Nat,
                      <<b, u, a>> \in g.votes, <<b, t, x>> \in g.acks, t < u, <<t, x>> \in Firm(M, g)
               PROVE  /\ u \in g.led /\ g.chief[u] = a => Reaches(g.log[u], g.base[u], t, x)
                      /\ M[a].role = "Candidate" /\ M[a].term = u =>
                            Reaches(M[a].log, Len(M[a].log), t, x)
    BY DEF VotesRespect
  <2>1. <<t, x>> \in Firm(N, h) /\ <<b, u, a>> \in h.votes
    BY <1>6, <1>11
  <2>2. CASE <<b, t, x>> \in h.acks
    BY <1>1, <1>6, <1>10, <2>1, <2>2 DEF VotesRespect
  <2>3. CASE b = j /\ t = T
    <3>1. u =< N[j].term
      BY <1>2, <2>1, <2>3 DEF Ballots
    <3> QED
      BY <1>3, <2>3, <3>1
  <2> QED
    BY <1>6, <2>2, <2>3
<1>14. ASSUME NEW a \in Server, a # i PROVE Local(g, a, M[a])
  <2>1. \A t \in Nat : \A x \in Server : <<x, t, a>> \in g.votes => t =< N[a].term
    BY <1>2, <1>6 DEF Ballots
  <2>2. Local(g, a, N[a])
    BY <1>0, <1>6, <1>7, <2>1, GoodElse
  <2> QED
    BY <1>5, <1>14, <2>2
<1>15. Local(g, i, M[i])
  <2>1. Holds(g, n) /\ Ballots(h, i, n) /\ Leads(h, i, n)
    BY <1>1, <1>2, <1>6, <1>7, ExtendsHolds
  <2>2. Holds(g, o)
    BY <1>3, <1>4, <2>1 DEF Holds, Done
  <2>3. Ballots(g, i, o)
    BY <1>3, <1>4, <1>6, <2>1 DEF Ballots
  <2>4. \A x \in Nat : x > n.commit => Known(g, Chosen(g), T, n.commit, x)
    BY <1>1, <1>3, <1>6, <1>7, <2>1, ExtendsKnown, ExtendsChosen DEF Leads
  <2>5. \A a \in Server : \A x \in 1..o.match[a] : <<a, T, x>> \in g.acks
    <3> SUFFICES ASSUME NEW a \in Server, NEW x \in 1..o.match[a] PROVE <<a, T, x>> \in g.acks
      OBVIOUS
    <3>1. CASE a = j
      BY <1>3, <1>4, <1>6, <3>1
    <3>2. CASE a # j
      <4>1. o.match[a] = n.match[a]
        BY <1>3, <1>4, <3>2
      <4>2. <<a, n.term, x>> \in h.acks
        BY <1>3, <2>1, <4>1 DEF Leads
      <4> QED
        BY <1>3, <1>6, <4>2
    <3> QED
      BY <3>1, <3>2
  <2>6. Leads(g, i, o)
    BY <1>3, <1>4, <1>6, <2>4, <2>5 DEF Leads
  <2> QED
    BY <1>4, <1>5, <2>2, <2>3, <2>6 DEF Local
<1>16. Good(M, g)
  BY <1>5, <1>6, <1>8, <1>9, <1>12, <1>13, <1>14, <1>15 DEF Good
<1> QED
  BY <1>16 DEF Fine, M, o

-----------------------------------------------------------------------------
(***************************************************************************)
(* What a candidate with a quorum knows.                                   *)
(***************************************************************************)
\* What a candidate, or a leader, lacks of the changes in its log
LEMMA LacksOne ==
    ASSUME NEW n \in NodeState, n.role # "Follower", EarlierApplied(n), NEW b
    PROVE  FewChanges(n.log, n.applied, b)
<1>1. n.log \in Seq(Entry) /\ n.applied \in Nat
  BY DEF NodeState
<1>2. Len(n.log) \in Nat
  BY <1>1
<1> SUFFICES ASSUME NEW k \in ChangesIn(n.log), NEW l \in ChangesIn(n.log), n.applied < k, k < l
             PROVE  FALSE
  BY DEF FewChanges
<1>3. k =< n.applied /\ k \in Nat
  BY <1>2 DEF EarlierApplied, ChangesIn
<1> QED
  BY <1>1, <1>3

\* What a candidate has committed leads to what it has: the entry that shows it
LEMMA CandidateKnows ==
    ASSUME NEW N, NEW h, Good(N, h), NEW i \in Server, N[i].role = "Candidate",
           EarlierApplied(N[i]), IsQuorum(N[i].granted, N[i].conf)
    PROVE  N[i].commit = 0 \/
           \E u, y \in Nat :
              /\ <<u, y>> \in Chosen(h) /\ <<u, y>> \in Firm(N, h) /\ Own(h, u, y)
              /\ u < N[i].term /\ N[i].commit =< y
              /\ y =< Len(N[i].log) /\ Has(N[i].log, h.log[u], y)
<1>1. h \in History /\ Done(h, N[i])
  BY GoodNode DEF Holds
<1>2. ASSUME NEW u \in Nat, NEW y \in Nat, <<u, y>> \in Chosen(h), u < N[i].term,
             N[i].commit =< y
      PROVE  /\ <<u, y>> \in Firm(N, h) /\ Own(h, u, y)
             /\ y =< Len(N[i].log) /\ Has(N[i].log, h.log[u], y)
  <2>1. <<u, y>> \in Firm(N, h)
    BY <1>1, <1>2, ChosenIsFirm
  <2>2. Own(h, u, y)
    BY <1>1, <2>1, FirmOwn DEF Firm
  <2> QED
    BY <1>2, <2>1, <2>2, CandidateHas
<1> QED
  BY <1>1, <1>2 DEF Done

\* Nobody else has led the term of a candidate that has its quorum
LEMMA NoOther ==
    ASSUME NEW N, NEW h, Good(N, h), NEW i \in Server, N[i].role = "Candidate",
           EarlierApplied(N[i]), IsQuorum(N[i].granted, N[i].conf)
    PROVE  N[i].term \notin h.led
<1> SUFFICES ASSUME N[i].term \in h.led PROVE FALSE
  OBVIOUS
<1> DEFINE F == Firm(N, h)
           T == N[i].term
           L == N[i].log
           b == N[i].applied
           Q == N[i].granted
           P == h.log[T]
           c == h.conf[T]
           m == h.base[T]
           R == Electors(h, T)
<1>0. /\ h \in History /\ Reigns(h) /\ Elections(h) /\ T \in Nat /\ L \in Log /\ Len(L) \in Nat
      /\ N[i].commit \in Nat /\ Q \in SUBSET Server /\ N[i] \in NodeState /\ b \in Nat
      /\ Holds(h, N[i]) /\ Ballots(h, i, N[i]) /\ LeadersHave(N, h)
  BY GoodNode, LeadersHold
<1>1. /\ Written(h, L, Len(L)) /\ b =< N[i].commit /\ N[i].commit =< Len(L)
      /\ IsQuorum(Q, Conf(L, b)) /\ AllFit(L, Len(L))
  <2>1. Len(L) \in 0..Len(L)
    BY <1>0
  <2>2. Written(h, L, Len(L)) /\ N[i].conf = Conf(L, b)
    BY <1>0 DEF Holds
  <2> QED
    BY <1>0, <2>1, <2>2, WrittenFits, CommitInLog
<1>2. /\ P \in Log /\ Len(P) \in Nat /\ c \in Nat /\ m \in Nat /\ m =< Len(P)
      /\ AllFit(P, Len(P))
  BY <1>0, ReignLog
<1>3. /\ c =< m /\ FewChanges(P, c, m) /\ IsQuorum(R, Conf(P, c)) /\ R \in SUBSET Server
      /\ Known(h, Chosen(h), T, c, 0)
  BY <1>0 DEF Elections, Electors
<1>4. b = 0 \/ \E u, y \in Nat : /\ <<u, y>> \in F /\ u < T /\ b =< y /\ y =< m
                                 /\ Has(L, h.log[u], y) /\ Has(P, h.log[u], y)
  <2> SUFFICES ASSUME b # 0
               PROVE  \E u, y \in Nat : /\ <<u, y>> \in F /\ u < T /\ b =< y /\ y =< m
                                 /\ Has(L, h.log[u], y) /\ Has(P, h.log[u], y)
    OBVIOUS
  <2>1. N[i].commit # 0
    BY <1>0, <1>1
  <2>2. PICK u, y \in Nat : /\ <<u, y>> \in F /\ u < T /\ N[i].commit =< y
                            /\ Has(L, h.log[u], y)
    BY <2>1, CandidateKnows
  <2>3. y =< m /\ Has(P, h.log[u], y)
    BY <1>0, <2>2 DEF LeadersHave
  <2>4. b =< y
    BY <1>0, <1>1, <2>2
  <2> QED
    BY <2>2, <2>3, <2>4
<1>5. c = 0 \/ \E u, y \in Nat : /\ <<u, y>> \in F /\ u < T /\ c =< y /\ y =< Len(L)
                                 /\ Has(L, h.log[u], y) /\ Has(P, h.log[u], y)
  <2> SUFFICES ASSUME c # 0
               PROVE  \E u, y \in Nat : /\ <<u, y>> \in F /\ u < T /\ c =< y /\ y =< Len(L)
                                 /\ Has(L, h.log[u], y) /\ Has(P, h.log[u], y)
    OBVIOUS
  <2>1. PICK u, y \in Nat : /\ <<u, y>> \in Chosen(h) /\ c =< y /\ Has(P, h.log[u], y)
                            /\ (u = T /\ y < 0) \/ (u < T /\ y =< m)
    BY <1>3 DEF Known
  <2>2. u < T
    BY <2>1
  <2>3. <<u, y>> \in F
    BY <1>0, <2>1, ChosenIsFirm
  <2>4. y =< Len(L) /\ Has(L, h.log[u], y)
    BY <2>2, <2>3, CandidateHas
  <2> QED
    BY <2>1, <2>2, <2>3, <2>4
<1>6. FewChanges(L, b, c)
  BY <1>0, LacksOne
<1> HIDE DEF F, L, b, Q, P, c, m, R
<1>7. Q \cap R # {}
  <2>1. CASE b =< c
    <3>1. c =< Len(L) /\ Has(L, P, c)
      <4>1. CASE c = 0
        BY <1>0, <1>2, <4>1 DEF Has
      <4>2. ASSUME NEW u \in Nat, NEW y \in Nat, c =< y, y =< Len(L),
                   Has(L, h.log[u], y), Has(P, h.log[u], y)
            PROVE  c =< Len(L) /\ Has(L, P, c)
        <5>1. h.log[u] \in Log
          BY <1>0 DEF History
        <5>2. Has(h.log[u], P, y)
          BY <4>2, HasSym
        <5> QED
          BY <1>0, <1>2, <4>2, <5>1, <5>2, HasTrans
      <4> QED
        BY <1>5, <4>1, <4>2
    <3>2. Conf(L, c) = Conf(P, c)
      BY <1>0, <1>2, <3>1, ConfSame
    <3>3. AllFit(L, c)
      BY <1>0, <1>1, <1>2, <3>1 DEF AllFit
    <3> QED
      BY <1>0, <1>1, <1>2, <1>3, <1>6, <2>1, <3>1, <3>2, <3>3, Adjacent
  <2>2. CASE c < b
    <3>1. b =< m /\ Has(L, P, b)
      <4>1. b # 0
        BY <1>2, <2>2
      <4>2. PICK u \in Nat, y \in Nat : b =< y /\ y =< m /\ Has(L, h.log[u], y) /\ Has(P, h.log[u], y)
        BY <1>4, <4>1
      <4>3. h.log[u] \in Log
        BY <1>0 DEF History
      <4>4. Has(h.log[u], P, y)
        BY <4>2, HasSym
      <4> QED
        BY <1>0, <1>2, <4>2, <4>3, <4>4, HasTrans
    <3>2. Conf(L, b) = Conf(P, b)
      BY <1>0, <1>2, <3>1, ConfSame
    <3>3. AllFit(P, b)
      BY <1>0, <1>2, <3>1 DEF AllFit
    <3>4. FewChanges(P, c, b)
      <4> SUFFICES ASSUME NEW k \in ChangesIn(P), NEW l \in ChangesIn(P), c < k, k < l
                   PROVE  b < l
        BY DEF FewChanges
      <4>1. m < l
        BY <1>3 DEF FewChanges
      <4>2. l \in Nat
        BY <1>2 DEF ChangesIn
      <4> QED
        BY <1>0, <1>2, <3>1, <4>1, <4>2
    <3>5. b =< Len(P) /\ c =< b
      BY <1>0, <1>2, <2>2, <3>1
    <3>6. R \cap Q # {}
      BY <1>0, <1>1, <1>2, <1>3, <3>2, <3>3, <3>4, <3>5, Adjacent
    <3> QED
      BY <3>6
  <2> QED
    BY <1>0, <1>2, <2>1, <2>2
<1>8. PICK v \in Q \cap R : TRUE
  BY <1>7
<1>9. <<v, T, i>> \in h.votes /\ v \in Server
  BY <1>0, <1>8 DEF Ballots, Q
<1>10. <<v, T, h.chief[T]>> \in h.votes
  BY <1>8 DEF Electors, R
<1>11. h.chief[T] \in Server
  BY <1>0, <1>10 DEF History
<1>12. h.chief[T] = i
  BY <1>0, <1>9, <1>10, <1>11 DEF Elections
<1> QED
  BY <1>0, <1>12 DEF Ballots

-----------------------------------------------------------------------------
(***************************************************************************)
(* A candidate is elected.                                                 *)
(***************************************************************************)
\* A candidate that has a quorum of its configuration leads
LEMMA FineCrown ==
    ASSUME NEW N, Fine(N), NEW i \in Server, N[i].role = "Candidate",
           EarlierApplied(N[i]), IsQuorum(N[i].granted, N[i].conf)
    PROVE  Fine([N EXCEPT ![i] = [Reset(N[i], N[i].term) EXCEPT !.role = "Leader"]])
<1>0. PICK h : Good(N, h)
  BY DEF Fine
<1> DEFINE n == N[i]
           T == n.term
           L == n.log
           r == Reset(n, T)
           o == [r EXCEPT !.role = "Leader"]
           M == [N EXCEPT ![i] = o]
           g == [h EXCEPT !.log = [@ EXCEPT ![T] = L], !.base = [@ EXCEPT ![T] = Len(L)],
                          !.conf = [@ EXCEPT ![T] = n.applied],
                          !.chief = [@ EXCEPT ![T] = i], !.led = @ \cup {T}]
<1>1. /\ N = [k \in Server |-> N[k]] /\ h \in History /\ Reigns(h) /\ Elections(h)
      /\ AcksHold(N, h) /\ VotesRespect(N, h)
  BY <1>0 DEF Good
<1>2. \A k \in Server : /\ N[k].term \in Nat /\ N[k].log \in Log /\ Len(N[k].log) \in Nat
                        /\ N[k] \in NodeState /\ Holds(h, N[k])
                        /\ Ballots(h, k, N[k]) /\ Leads(h, k, N[k])
  BY <1>0, GoodNode
<1>3. /\ n \in NodeState /\ T \in Nat /\ L \in Log /\ Len(L) \in Nat /\ n.applied \in Nat
      /\ n.commit \in Nat /\ n.granted \in SUBSET Server /\ n.role = "Candidate"
      /\ Holds(h, n) /\ Ballots(h, i, n) /\ EarlierApplied(n) /\ IsQuorum(n.granted, n.conf)
  BY <1>0, GoodNode
<1>4. T \notin h.led
  BY <1>0, NoOther
<1>5. n.commit = 0 \/
      \E u, y \in Nat : /\ <<u, y>> \in Chosen(h) /\ Own(h, u, y) /\ u < T /\ n.commit =< y
                        /\ y =< Len(L) /\ Has(L, h.log[u], y)
  <2>1. n.commit = 0 \/
        \E u, y \in Nat :
              /\ <<u, y>> \in Chosen(h) /\ <<u, y>> \in Firm(N, h) /\ Own(h, u, y)
              /\ u < T /\ n.commit =< y /\ y =< Len(L) /\ Has(L, h.log[u], y)
    BY <1>0, CandidateKnows
  <2> QED
    BY <2>1
<1>6. /\ N[i] = n /\ N[i].log = L /\ N[i].term = T
  OBVIOUS
<1> HIDE DEF n
<1>7. /\ r \in NodeState /\ r.term = T /\ r.log = L
      /\ r.commit = n.commit /\ r.applied = n.applied /\ r.conf = n.conf
      /\ r.vote = n.vote /\ r.match = [k \in Server |-> 0]
  BY <1>3, ResetType
<1> HIDE DEF r
<1>8. /\ o \in NodeState /\ o.term = T /\ o.log = L /\ o.role = "Leader"
      /\ o.commit = n.commit /\ o.applied = n.applied /\ o.conf = n.conf
      /\ o.vote = n.vote /\ o.match = [k \in Server |-> 0]
  BY <1>7 DEF NodeState
<1>9. /\ M = [k \in Server |-> M[k]] /\ M[i] = o /\ \A k \in Server \ {i} : M[k] = N[k]
  <2> HIDE DEF o
  <2> QED
    BY <1>1
<1>10. /\ g \in History /\ g.votes = h.votes /\ g.acks = h.acks /\ g.led = h.led \cup {T}
       /\ g.log[T] = L /\ g.base[T] = Len(L) /\ g.conf[T] = n.applied /\ g.chief[T] = i
       /\ \A t \in h.led : /\ g.log[t] = h.log[t] /\ g.base[t] = h.base[t]
                           /\ g.conf[t] = h.conf[t] /\ g.chief[t] = h.chief[t]
  <2> HIDE DEF T, L
  <2> QED
    BY <1>1, <1>3, <1>4 DEF History
<1> HIDE DEF g, M, o
<1>11. Extends(h, g)
  <2>1. \A t \in h.led : Has(g.log[t], h.log[t], Len(h.log[t]))
    BY <1>1, <1>10, ReignLog, HasSelf
  <2> QED
    BY <1>10, <2>1 DEF Extends
<1>12. /\ Written(h, L, Len(L)) /\ n.applied =< n.commit /\ n.conf = Conf(L, n.applied)
       /\ n.commit =< Len(L) /\ \A x \in 1..Len(L) : L[x].term < T
       /\ T >= 1
  BY <1>1, <1>3, CommitInLog DEF Holds
<1>13. Written(g, L, Len(L))
  <2>1. Len(L) \in 0..Len(L)
    BY <1>3
  <2> QED
    BY <1>1, <1>3, <1>10, <1>11, <1>12, <2>1, ExtendsWritten
<1>14. AllFit(L, Len(L))
  <2>1. Len(L) \in 0..Len(L)
    BY <1>3
  <2> QED
    BY <1>1, <1>3, <1>12, <2>1, WrittenFits
<1>15. Reigns(g)
  <2> SUFFICES ASSUME NEW t \in g.led
               PROVE  /\ t >= 1 /\ g.base[t] =< Len(g.log[t])
                      /\ Written(g, g.log[t], Len(g.log[t])) /\ AllFit(g.log[t], Len(g.log[t]))
                      /\ \A x \in 1..Len(g.log[t]) : IF x =< g.base[t] THEN g.log[t][x].term < t
                                                     ELSE g.log[t][x].term = t
    BY DEF Reigns
  <2>1. CASE t \in h.led
    <3>1. Written(g, h.log[t], Len(h.log[t]))
      <4>1. h.log[t] \in Log /\ Len(h.log[t]) \in 0..Len(h.log[t])
        BY <1>1, <2>1, ReignLog
      <4> QED
        BY <1>1, <1>10, <1>11, <2>1, <4>1, ReignLog, ExtendsWritten
    <3> QED
      BY <1>1, <1>10, <2>1, <3>1, ReignLog
  <2>2. CASE t = T
    <3>1. \A x \in 1..Len(L) : x =< Len(L)
      BY <1>3
    <3> HIDE DEF T, L
    <3> QED
      BY <1>3, <1>10, <1>12, <1>13, <1>14, <2>2, <3>1
  <2> QED
    BY <1>10, <2>1, <2>2
<1>16. Chosen(h) \subseteq Chosen(g)
  BY <1>1, <1>10, <1>11, ExtendsChosen
<1>17. \A x \in Nat : Known(g, Chosen(g), T, n.commit, x)
  <2> SUFFICES ASSUME NEW x \in Nat PROVE Known(g, Chosen(g), T, n.commit, x)
    OBVIOUS
  <2>1. CASE n.commit = 0
    BY <2>1 DEF Known
  <2>2. ASSUME NEW u \in Nat, NEW y \in Nat, <<u, y>> \in Chosen(h), Own(h, u, y), u < T,
               n.commit =< y, y =< Len(L), Has(L, h.log[u], y)
        PROVE  Known(g, Chosen(g), T, n.commit, x)
    <3>1. Own(g, u, y)
      BY <1>1, <1>10, <1>11, <2>2, ExtendsOwn
    <3>2. g.log[u] = h.log[u]
      BY <1>10, <2>2 DEF Own
    <3>3. Has(g.log[T], g.log[u], y) /\ y =< g.base[T]
      BY <1>10, <2>2, <3>2
    <3>4. <<u, y>> \in Chosen(g)
      BY <1>16, <2>2
    <3> HIDE DEF T, L
    <3> QED
      BY <2>2, <3>1, <3>3, <3>4 DEF Known
  <2> QED
    BY <1>5, <2>1, <2>2
<1>18. Elections(g)
  <2>1. /\ g.conf[T] =< g.base[T] /\ FewChanges(g.log[T], g.conf[T], g.base[T])
        /\ Known(g, Chosen(g), T, g.conf[T], 0)
        /\ IsQuorum(Electors(g, T), Conf(g.log[T], g.conf[T]))
    <3>1. FewChanges(L, n.applied, Len(L))
      BY <1>3, LacksOne
    <3>2. Known(g, Chosen(g), T, n.applied, 0)
      <4>1. Known(g, Chosen(g), T, n.commit, 0)
        BY <1>17
      <4>2. \A y \in Nat : n.commit =< y => n.applied =< y
        BY <1>3, <1>12
      <4>3. n.commit = 0 => n.applied = 0
        BY <1>3, <1>12
      <4> QED
        BY <4>1, <4>2, <4>3 DEF Known
    <3>3. IsQuorum(Electors(g, T), n.conf)
      <4>1. n.granted \subseteq Electors(g, T) /\ Electors(g, T) \in SUBSET Server
        BY <1>3, <1>10 DEF Ballots, Electors
      <4>2. n.conf \in Config
        BY <1>3 DEF NodeState
      <4> QED
        BY <1>3, <4>1, <4>2, QuorumMore
    <3>4. n.applied =< Len(L)
      BY <1>3, <1>12
    <3> HIDE DEF T, L
    <3> QED
      BY <1>10, <1>12, <3>1, <3>2, <3>3, <3>4
  <2>2. \A t \in h.led : /\ g.conf[t] =< g.base[t] /\ FewChanges(g.log[t], g.conf[t], g.base[t])
                         /\ Known(g, Chosen(g), t, g.conf[t], 0)
                         /\ IsQuorum(Electors(g, t), Conf(g.log[t], g.conf[t]))
    BY <1>1, <1>10, <1>11, ElectionsLast
  <2> HIDE DEF T, L
  <2> QED
    BY <1>1, <1>10, <2>1, <2>2 DEF Elections
<1>19. \A k \in Server : M[k].term = N[k].term /\ M[k].log = N[k].log
  BY <1>6, <1>8, <1>9
<1>20. ASSUME NEW t \in h.led, NEW x \in Nat, x =< Len(h.log[t]), <<t, x>> \in Firm(M, g)
       PROVE  <<t, x>> \in Firm(N, h)
  <2>1. \A v \in May(M, g) : v \in May(N, h)
    BY <1>10, <1>19 DEF May
  <2> QED
    BY <1>1, <1>10, <1>11, <1>15, <1>20, <2>1, FirmShrinks
<1>21. AcksHold(M, g)
  <2> SUFFICES ASSUME NEW j \in Server, NEW t \in Nat, NEW k \in Nat, <<j, t, k>> \in g.acks
               PROVE  /\ k >= 1 /\ t \in g.led /\ k =< Len(g.log[t]) /\ t =< M[j].term
                      /\ M[j].term = t \/ <<t, k>> \in Firm(M, g) => Has(M[j].log, g.log[t], k)
    BY DEF AcksHold
  <2>1. /\ k >= 1 /\ t \in h.led /\ k =< Len(h.log[t]) /\ t =< N[j].term
        /\ N[j].term = t \/ <<t, k>> \in Firm(N, h) => Has(N[j].log, h.log[t], k)
    BY <1>1, <1>10 DEF AcksHold
  <2> QED
    BY <1>10, <1>19, <1>20, <2>1
<1>22. VotesRespect(M, g)
  <2> SUFFICES ASSUME NEW a \in Server, NEW b \in Server, NEW u \in Nat, NEW t \in Nat, NEW x \in Nat,
                      <<b, u, a>> \in g.votes, <<b, t, x>> \in g.acks, t < u, <<t, x>> \in Firm(M, g)
               PROVE  /\ u \in g.led /\ g.chief[u] = a => Reaches(g.log[u], g.base[u], t, x)
                      /\ M[a].role = "Candidate" /\ M[a].term = u =>
                            Reaches(M[a].log, Len(M[a].log), t, x)
    BY DEF VotesRespect
  <2>1. <<b, t, x>> \in h.acks /\ <<b, u, a>> \in h.votes
    BY <1>10
  <2>2. t \in h.led /\ x =< Len(h.log[t])
    BY <1>1, <2>1 DEF AcksHold
  <2>3. <<t, x>> \in Firm(N, h)
    BY <1>20, <2>2
  <2>4. /\ u \in h.led /\ h.chief[u] = a => Reaches(h.log[u], h.base[u], t, x)
        /\ N[a].role = "Candidate" /\ N[a].term = u => Reaches(N[a].log, Len(N[a].log), t, x)
    BY <1>1, <2>1, <2>3 DEF VotesRespect
  <2>5. CASE u = T /\ a = i
    BY <1>3, <1>6, <1>8, <1>9, <1>10, <2>4, <2>5
  <2>6. CASE u \in h.led
    <3>1. M[a].role = "Candidate" => M[a] = N[a]
      BY <1>8, <1>9
    <3> QED
      BY <1>10, <2>4, <2>6, <3>1
  <2>7. CASE u \notin h.led /\ ~(u = T /\ a = i)
    <3>1. ~(u \in g.led /\ g.chief[u] = a)
      BY <1>10, <2>7
    <3>2. M[a].role = "Candidate" => M[a] = N[a]
      BY <1>8, <1>9
    <3> QED
      BY <2>4, <3>1, <3>2
  <2> QED
    BY <2>5, <2>6, <2>7
<1>23. ASSUME NEW k \in Server, k # i PROVE Local(g, k, M[k])
  <2>1. \A t \in Nat : \A x \in Server : <<x, t, k>> \in g.votes => t =< N[k].term
    BY <1>2, <1>10 DEF Ballots
  <2>2. \A t \in g.led : g.chief[t] = k => t \in h.led
    BY <1>10, <1>23
  <2>3. N[k].role = "Leader" => g.log[N[k].term] = h.log[N[k].term]
    BY <1>2, <1>10 DEF Leads
  <2>4. Local(g, k, N[k])
    BY <1>0, <1>10, <1>11, <2>1, <2>2, <2>3, GoodElse
  <2> QED
    BY <1>9, <1>23, <2>4
<1>24. Local(g, i, M[i])
  <2>1. Holds(g, n)
    BY <1>1, <1>3, <1>10, <1>11, ExtendsHolds
  <2>2. Holds(g, o)
    <3>1. Done(g, o)
      <4>1. n.commit = 0 \/ \E u, y \in Nat : /\ <<u, y>> \in Chosen(g) /\ u =< n.term
                                              /\ n.commit =< y /\ Has(n.log, g.log[u], n.commit)
        BY <2>1 DEF Holds, Done
      <4> QED
        BY <1>8, <4>1 DEF Done
    <3> QED
      BY <1>3, <1>8, <2>1, <3>1 DEF Holds
  <2>3. Ballots(g, i, o)
    <3>1. \A t \in h.led : h.chief[t] = i => t =< T
      BY <1>3 DEF Ballots
    <3>2. \A t \in g.led : g.chief[t] = i => t =< o.term
      BY <1>3, <1>8, <1>10, <3>1
    <3> QED
      BY <1>3, <1>8, <1>10, <3>2 DEF Ballots
  <2>4. Leads(g, i, o)
    <3>1. \A k \in Server : \A x \in 1..o.match[k] : <<k, o.term, x>> \in g.acks
      BY <1>8
    <3> HIDE DEF T, L
    <3> QED
      BY <1>8, <1>10, <1>17, <3>1 DEF Leads
  <2> QED
    BY <1>8, <1>9, <2>2, <2>3, <2>4 DEF Local
<1>25. Good(M, g)
  BY <1>9, <1>10, <1>15, <1>18, <1>21, <1>22, <1>23, <1>24 DEF Good
<1> QED
  BY <1>25 DEF Fine, M, o, r, n

-----------------------------------------------------------------------------
(***************************************************************************)
(* A leader appends.                                                       *)
(***************************************************************************)
\* A leader appends an entry
LEMMA FineGrow ==
    ASSUME NEW N, Fine(N), NEW i \in Server, N[i].role = "Leader", NEW ch \in Change,
           Fits(Conf(N[i].log, Len(N[i].log)), ch)
    PROVE  Fine([N EXCEPT ![i] = [N[i] EXCEPT !.log =
                                    Append(@, [term |-> N[i].term, change |-> ch])]])
<1>0. PICK h : Good(N, h)
  BY DEF Fine
<1> DEFINE n == N[i]
           T == n.term
           L == n.log
           e == [term |-> T, change |-> ch]
           K == Append(L, e)
           o == [n EXCEPT !.log = K]
           M == [N EXCEPT ![i] = o]
           g == [h EXCEPT !.log = [@ EXCEPT ![T] = K]]
<1>1. /\ N = [k \in Server |-> N[k]] /\ h \in History /\ Reigns(h) /\ Elections(h)
      /\ AcksHold(N, h) /\ VotesRespect(N, h)
  BY <1>0 DEF Good
<1>2. \A k \in Server : /\ N[k].term \in Nat /\ N[k].log \in Log /\ Len(N[k].log) \in Nat
                        /\ N[k] \in NodeState /\ Holds(h, N[k])
                        /\ Ballots(h, k, N[k]) /\ Leads(h, k, N[k])
  BY <1>0, GoodNode
<1>3. /\ n \in NodeState /\ T \in Nat /\ L \in Log /\ Len(L) \in Nat /\ n.applied \in Nat
      /\ n.commit \in Nat /\ n.role = "Leader"
      /\ Holds(h, n) /\ Ballots(h, i, n) /\ Leads(h, i, n)
      /\ Fits(Conf(L, Len(L)), ch)
  BY <1>0, GoodNode
<1>4. N[i] = n /\ N[i].log = L /\ N[i].term = T
  OBVIOUS
<1> HIDE DEF n
<1>5. T \in h.led /\ h.chief[T] = i /\ h.log[T] = L /\ T >= 1
  BY <1>3 DEF Leads, Holds
<1>6. e \in Entry /\ e.term = T /\ e.change = ch
  BY <1>3, <1>5 DEF Entry
<1> HIDE DEF e, T, L
<1>7. /\ K \in Log /\ Len(K) = Len(L) + 1 /\ K[Len(L) + 1] = e
      /\ \A k \in 1..Len(L) : K[k] = L[k]
      /\ Has(K, L, Len(L))
  BY <1>3, <1>6, HasAppend
<1> HIDE DEF K
<1>8. /\ o \in NodeState /\ o.term = T /\ o.log = K /\ o.role = "Leader"
      /\ o.commit = n.commit /\ o.applied = n.applied /\ o.conf = n.conf
      /\ o.vote = n.vote /\ o.match = n.match
  BY <1>3, <1>7 DEF NodeState, Log, T
<1>9. /\ M = [k \in Server |-> M[k]] /\ M[i] = o /\ \A k \in Server \ {i} : M[k] = N[k]
  <2> HIDE DEF o
  <2> QED
    BY <1>1
<1>10. /\ g \in History /\ g.votes = h.votes /\ g.acks = h.acks /\ g.led = h.led
       /\ g.base = h.base /\ g.conf = h.conf /\ g.chief = h.chief
       /\ g.log[T] = K /\ \A t \in h.led \ {T} : g.log[t] = h.log[t]
  BY <1>1, <1>3, <1>7 DEF History
<1> HIDE DEF g, M, o
<1>11. Extends(h, g)
  <2>1. \A t \in h.led : Has(g.log[t], h.log[t], Len(h.log[t]))
    <3> SUFFICES ASSUME NEW t \in h.led PROVE Has(g.log[t], h.log[t], Len(h.log[t]))
      OBVIOUS
    <3>1. CASE t = T
      BY <1>5, <1>7, <1>10, <3>1
    <3>2. CASE t # T
      BY <1>1, <1>10, <3>2, ReignLog, HasSelf
    <3> QED
      BY <3>1, <3>2
  <2> QED
    BY <1>10, <2>1 DEF Extends
<1>12. /\ Written(h, L, Len(L)) /\ n.applied =< n.commit /\ n.conf = Conf(L, n.applied)
       /\ n.commit =< Len(L) /\ \A x \in 1..Len(L) : L[x].term =< T
  BY <1>1, <1>3, CommitInLog DEF Holds, T, L
<1>13. Written(g, K, Len(K))
  <2> SUFFICES ASSUME NEW x \in 1..Len(K) PROVE K[x].term \in g.led /\ Has(K, g.log[K[x].term], x)
    BY DEF Written
  <2>1. CASE x = Len(L) + 1
    <3>1. K[x].term = T
      BY <1>6, <1>7, <2>1
    <3>2. Has(K, K, x)
      BY <1>3, <1>7, <2>1, HasSelf
    <3> QED
      BY <1>5, <1>10, <3>1, <3>2
  <2>2. CASE x # Len(L) + 1
    <3>1. x \in 1..Len(L) /\ x \in Nat
      BY <1>3, <1>7, <2>2
    <3>2. K[x] = L[x] /\ L[x].term \in h.led /\ Has(L, h.log[L[x].term], x)
      BY <1>7, <1>12, <3>1 DEF Written
    <3>3. Has(L, g.log[L[x].term], x) /\ g.log[L[x].term] \in Log
      BY <1>1, <1>3, <1>10, <1>11, <3>1, <3>2, ExtendsHas, ExtendsLog
    <3>4. Has(K, g.log[L[x].term], x)
      <4>1. x =< Len(L)
        BY <3>1
      <4> QED
        BY <1>3, <1>7, <3>1, <3>3, <4>1, HasTrans
    <3> QED
      BY <1>10, <3>2, <3>4
  <2> QED
    BY <2>1, <2>2
<1>14. AllFit(K, Len(K))
  <2> SUFFICES ASSUME NEW x \in 1..Len(K) PROVE Fits(Conf(K, x - 1), K[x].change)
    BY DEF AllFit
  <2>0. x - 1 \in 0..Len(L) /\ Has(K, L, Len(L))
    BY <1>3, <1>7
  <2>1. Conf(K, x - 1) = Conf(L, x - 1)
    BY <1>3, <1>7, <2>0, ConfSame
  <2>2. CASE x = Len(L) + 1
    <3>1. x - 1 = Len(L) /\ K[x] = e
      BY <1>3, <1>7, <2>2
    <3> QED
      BY <1>3, <1>6, <2>1, <3>1
  <2>3. CASE x # Len(L) + 1
    <3>1. x \in 1..Len(L) /\ AllFit(L, Len(L))
      BY <1>1, <1>3, <1>5, <1>7, <2>3, ReignLog
    <3> QED
      BY <1>7, <2>1, <3>1 DEF AllFit
  <2> QED
    BY <2>2, <2>3
<1>15. Reigns(g)
  <2> SUFFICES ASSUME NEW t \in g.led
               PROVE  /\ t >= 1 /\ g.base[t] =< Len(g.log[t])
                      /\ Written(g, g.log[t], Len(g.log[t])) /\ AllFit(g.log[t], Len(g.log[t]))
                      /\ \A x \in 1..Len(g.log[t]) : IF x =< g.base[t] THEN g.log[t][x].term < t
                                                     ELSE g.log[t][x].term = t
    BY DEF Reigns
  <2>0. /\ t >= 1 /\ h.base[t] \in Nat /\ h.base[t] =< Len(h.log[t]) /\ h.log[t] \in Log
        /\ Len(h.log[t]) \in Nat
        /\ Written(h, h.log[t], Len(h.log[t])) /\ AllFit(h.log[t], Len(h.log[t]))
        /\ \A x \in 1..Len(h.log[t]) : IF x =< h.base[t] THEN h.log[t][x].term < t
                                       ELSE h.log[t][x].term = t
    BY <1>1, <1>10, ReignLog
  <2>1. CASE t # T
    <3>1. Written(g, h.log[t], Len(h.log[t]))
      <4>1. Len(h.log[t]) \in 0..Len(h.log[t])
        BY <2>0
      <4> QED
        BY <1>1, <1>10, <1>11, <2>0, <4>1, ExtendsWritten
    <3> QED
      BY <1>10, <2>0, <2>1, <3>1
  <2>2. CASE t = T
    <3>1. h.base[t] =< Len(L) /\ h.base[t] \in Nat
          /\ \A x \in 1..Len(L) : IF x =< h.base[t] THEN L[x].term < t ELSE L[x].term = t
      BY <1>5, <2>0, <2>2
    <3>2. h.base[t] =< Len(K)
      BY <1>3, <1>7, <3>1
    <3>3. ASSUME NEW x \in 1..Len(K)
          PROVE  IF x =< h.base[t] THEN K[x].term < t ELSE K[x].term = t
      <4>1. CASE x \in 1..Len(L)
        BY <1>7, <3>1, <4>1
      <4>2. CASE x = Len(L) + 1
        <5>1. ~(x =< h.base[t]) /\ K[x].term = T
          BY <1>3, <1>6, <1>7, <3>1, <4>2
        <5> QED
          BY <2>2, <5>1
      <4> QED
        BY <1>3, <1>7, <4>1, <4>2
    <3> QED
      BY <1>10, <1>13, <1>14, <2>0, <2>2, <3>2, <3>3
  <2> QED
    BY <2>1, <2>2
<1>16. Elections(g)
  <2>1. \A t \in g.led : /\ g.conf[t] =< g.base[t] /\ FewChanges(g.log[t], g.conf[t], g.base[t])
                         /\ Known(g, Chosen(g), t, g.conf[t], 0)
                         /\ IsQuorum(Electors(g, t), Conf(g.log[t], g.conf[t]))
    BY <1>1, <1>10, <1>11, ElectionsLast
  <2> QED
    BY <1>1, <1>10, <2>1 DEF Elections
<1>17. \A k \in Server : M[k].term = N[k].term /\ (M[k].role = "Candidate" => M[k] = N[k])
  BY <1>4, <1>8, <1>9
<1>18. ASSUME NEW t \in h.led, NEW x \in Nat, x =< Len(h.log[t]), <<t, x>> \in Firm(M, g)
       PROVE  <<t, x>> \in Firm(N, h)
  <2>1. \A v \in May(M, g) : v \in May(N, h)
    BY <1>10, <1>17 DEF May
  <2> QED
    BY <1>1, <1>10, <1>11, <1>15, <1>18, <2>1, FirmShrinks
<1>19. AcksHold(M, g)
  <2> SUFFICES ASSUME NEW j \in Server, NEW t \in Nat, NEW k \in Nat, <<j, t, k>> \in g.acks
               PROVE  /\ k >= 1 /\ t \in g.led /\ k =< Len(g.log[t]) /\ t =< M[j].term
                      /\ M[j].term = t \/ <<t, k>> \in Firm(M, g) => Has(M[j].log, g.log[t], k)
    BY DEF AcksHold
  <2>1. /\ k >= 1 /\ t \in h.led /\ k =< Len(h.log[t]) /\ t =< N[j].term
        /\ N[j].term = t \/ <<t, k>> \in Firm(N, h) => Has(N[j].log, h.log[t], k)
    BY <1>1, <1>10 DEF AcksHold
  <2>2. h.log[t] \in Log /\ Len(h.log[t]) \in Nat /\ Len(g.log[t]) \in Nat
        /\ Len(h.log[t]) =< Len(g.log[t])
    BY <1>1, <1>10, <1>11, <2>1, ExtendsLog
  <2>3. k =< Len(g.log[t])
    BY <2>1, <2>2
  <2>4. ASSUME M[j].term = t \/ <<t, k>> \in Firm(M, g) PROVE Has(M[j].log, g.log[t], k)
    <3>1. Has(N[j].log, h.log[t], k)
      BY <1>17, <1>18, <2>1, <2>4
    <3>2. Has(N[j].log, g.log[t], k) /\ N[j].log \in Log /\ g.log[t] \in Log
      BY <1>1, <1>2, <1>10, <1>11, <2>1, <3>1, ExtendsHas, ExtendsLog
    <3>3. CASE j = i
      <4>1. M[j].log = K /\ N[j].log = L
        BY <1>4, <1>8, <1>9, <3>3
      <4>2. k =< Len(L)
        BY <3>1, <4>1 DEF Has
      <4> QED
        BY <1>3, <1>7, <3>2, <4>1, <4>2, HasTrans
    <3>4. CASE j # i
      BY <1>9, <3>2, <3>4
    <3> QED
      BY <3>3, <3>4
  <2> QED
    BY <1>10, <1>17, <2>1, <2>3, <2>4
<1>20. VotesRespect(M, g)
  <2> SUFFICES ASSUME NEW a \in Server, NEW b \in Server, NEW u \in Nat, NEW t \in Nat, NEW x \in Nat,
                      <<b, u, a>> \in g.votes, <<b, t, x>> \in g.acks, t < u, <<t, x>> \in Firm(M, g)
               PROVE  /\ u \in g.led /\ g.chief[u] = a => Reaches(g.log[u], g.base[u], t, x)
                      /\ M[a].role = "Candidate" /\ M[a].term = u =>
                            Reaches(M[a].log, Len(M[a].log), t, x)
    BY DEF VotesRespect
  <2>1. <<b, t, x>> \in h.acks /\ <<b, u, a>> \in h.votes
    BY <1>10
  <2>2. t \in h.led /\ x =< Len(h.log[t])
    BY <1>1, <2>1 DEF AcksHold
  <2>3. <<t, x>> \in Firm(N, h)
    BY <1>18, <2>2
  <2>4. /\ u \in h.led /\ h.chief[u] = a => Reaches(h.log[u], h.base[u], t, x)
        /\ N[a].role = "Candidate" /\ N[a].term = u => Reaches(N[a].log, Len(N[a].log), t, x)
    BY <1>1, <2>1, <2>3 DEF VotesRespect
  <2>5. ASSUME u \in g.led, g.chief[u] = a PROVE Reaches(g.log[u], g.base[u], t, x)
    <3>1. Reaches(h.log[u], h.base[u], t, x) /\ u \in h.led
      BY <1>10, <2>4, <2>5
    <3>2. h.base[u] \in 1..Len(h.log[u])
      <4>1. h.base[u] \in Nat /\ h.base[u] =< Len(h.log[u]) /\ Len(h.log[u]) \in Nat
        BY <1>1, <3>1, ReignLog
      <4> QED
        BY <3>1, <4>1 DEF Reaches
    <3>3. g.log[u][h.base[u]] = h.log[u][h.base[u]]
      BY <1>1, <1>10, <1>11, <3>1, <3>2, ExtendsLog
    <3> QED
      BY <1>10, <3>1, <3>3 DEF Reaches
  <2> QED
    BY <1>17, <2>4, <2>5
<1>21. ASSUME NEW k \in Server, k # i PROVE Local(g, k, M[k])
  <2>1. \A t \in Nat : \A x \in Server : <<x, t, k>> \in g.votes => t =< N[k].term
    BY <1>2, <1>10 DEF Ballots
  <2>2. N[k].role = "Leader" => g.log[N[k].term] = h.log[N[k].term]
    BY <1>2, <1>5, <1>10, <1>21 DEF Leads
  <2>3. Local(g, k, N[k])
    BY <1>0, <1>10, <1>11, <2>1, <2>2, GoodElse
  <2> QED
    BY <1>9, <1>21, <2>3
<1>22. Local(g, i, M[i])
  <2>1. Holds(g, n)
    BY <1>1, <1>3, <1>10, <1>11, ExtendsHolds
  <2>2. Holds(g, o)
    <3>1. Done(g, o)
      <4>1. n.commit = 0 \/ \E u, y \in Nat : /\ <<u, y>> \in Chosen(g) /\ u =< T
                                              /\ n.commit =< y /\ Has(L, g.log[u], n.commit)
        BY <2>1 DEF Holds, Done, T, L
      <4>2. ASSUME NEW u \in Nat, Has(L, g.log[u], n.commit) PROVE Has(K, g.log[u], n.commit)
        <5>1. g.log[u] \in Log
          BY <1>10 DEF History
        <5> QED
          BY <1>3, <1>7, <1>12, <4>2, <5>1, HasTrans
      <4> QED
        BY <1>8, <4>1, <4>2 DEF Done
    <3>2. Conf(K, n.applied) = Conf(L, n.applied)
      <4>1. n.applied \in 0..Len(L)
        BY <1>3, <1>12
      <4> QED
        BY <1>3, <1>7, <4>1, ConfSame
    <3>3. \A x \in 1..Len(K) : K[x].term =< T
      <4> SUFFICES ASSUME NEW x \in 1..Len(K) PROVE K[x].term =< T
        OBVIOUS
      <4>1. x \in 1..Len(L) \/ x = Len(L) + 1
        BY <1>3, <1>7
      <4> QED
        BY <1>3, <1>6, <1>7, <1>12, <4>1
    <3> QED
      BY <1>5, <1>8, <1>12, <1>13, <3>1, <3>2, <3>3 DEF Holds
  <2>3. Ballots(g, i, o)
    BY <1>3, <1>8, <1>10 DEF Ballots, T
  <2>4. Leads(g, i, o)
    <3>1. /\ \A k \in Server : \A x \in 1..n.match[k] : <<k, T, x>> \in h.acks
          /\ \A x \in Nat : x > n.commit => Known(h, Chosen(h), T, n.commit, x)
      BY <1>3 DEF Leads, T
    <3>2. \A x \in Nat : x > n.commit => Known(g, Chosen(g), T, n.commit, x)
      BY <1>1, <1>5, <1>10, <1>11, <3>1, ExtendsKnown, ExtendsChosen
    <3> QED
      BY <1>5, <1>8, <1>10, <3>1, <3>2 DEF Leads
  <2> QED
    BY <1>8, <1>9, <2>2, <2>3, <2>4 DEF Local
<1>23. Good(M, g)
  BY <1>9, <1>10, <1>15, <1>16, <1>19, <1>20, <1>21, <1>22 DEF Good
<1> QED
  BY <1>23 DEF Fine, M, o, n, K, e, T, L

-----------------------------------------------------------------------------
(***************************************************************************)
(* A follower takes over the log of a leader, and learns what is           *)
(* committed.                                                              *)
(***************************************************************************)
\* A follower that lacks what the leader sends takes the log of the leader instead: it has
\* acknowledged nothing more, and committed nothing more
LEMMA FineTake ==
    ASSUME NEW N, Fine(N), NEW i \in Server, NEW j \in Server, N[i].role = "Leader",
           N[j].role = "Follower", N[j].term = N[i].term,
           NEW k \in 0..Len(N[i].log), ~Has(N[j].log, N[i].log, k)
    PROVE  Fine([N EXCEPT ![j] = [N[j] EXCEPT !.log = SubSeq(N[i].log, 1, k)]])
<1>0. PICK h : Good(N, h)
  BY DEF Fine
<1> DEFINE n == N[j]
           T == n.term
           L == N[i].log
           K == SubSeq(L, 1, k)
           o == [n EXCEPT !.log = K]
           M == [N EXCEPT ![j] = o]
<1>1. /\ N = [x \in Server |-> N[x]] /\ h \in History /\ Reigns(h) /\ Elections(h)
      /\ AcksHold(N, h) /\ VotesRespect(N, h) /\ LeadersHave(N, h)
  BY <1>0, LeadersHold DEF Good
<1>2. \A x \in Server : /\ N[x].term \in Nat /\ N[x].log \in Log /\ Len(N[x].log) \in Nat
                        /\ N[x] \in NodeState /\ Holds(h, N[x]) /\ Local(h, x, N[x])
                        /\ Ballots(h, x, N[x]) /\ Leads(h, x, N[x])
  BY <1>0, GoodNode DEF Local
<1>3. /\ n \in NodeState /\ T \in Nat /\ n.log \in Log /\ Len(n.log) \in Nat /\ n.applied \in Nat
      /\ n.commit \in Nat /\ n.role = "Follower" /\ Holds(h, n) /\ Ballots(h, j, n)
      /\ T \in h.led /\ h.log[T] = L /\ L \in Log /\ Len(L) \in Nat /\ k \in Nat /\ k =< Len(L)
      /\ ~Has(n.log, L, k) /\ T >= 1
  <2>1. Leads(h, i, N[i]) /\ N[i].log \in Log /\ Len(N[i].log) \in Nat
    BY <1>2
  <2>2. T \in h.led /\ h.log[T] = L
    BY <2>1 DEF Leads
  <2>3. T >= 1
    BY <1>1, <2>2, ReignLog
  <2> QED
    BY <1>0, <2>1, <2>2, <2>3, GoodNode
<1>4. N[j] = n /\ N[j].log = n.log /\ N[j].term = T
  OBVIOUS
<1> HIDE DEF n, L, T
<1>5. /\ K \in Log /\ Len(K) = k /\ \A x \in 1..k : K[x] = L[x]
  BY <1>3 DEF Log
<1>6. Has(K, L, k) /\ Has(L, K, k)
  BY <1>3, <1>5 DEF Has
<1> HIDE DEF K
<1>7. /\ o \in NodeState /\ o.term = T /\ o.log = K /\ o.role = "Follower"
      /\ o.commit = n.commit /\ o.applied = n.applied /\ o.conf = n.conf
      /\ o.vote = n.vote
  BY <1>3, <1>5 DEF NodeState, Log, T
<1>8. /\ M = [x \in Server |-> M[x]] /\ M[j] = o /\ \A x \in Server \ {j} : M[x] = N[x]
  <2> HIDE DEF o
  <2> QED
    BY <1>1
<1> HIDE DEF M, o
<1>9. \A x \in Server : /\ M[x].term = N[x].term
                        /\ M[x].role = "Candidate" => M[x] = N[x]
  BY <1>4, <1>7, <1>8
<1>10. Firm(M, h) \subseteq Firm(N, h)
  BY <1>1, <1>2, <1>9, LaterFirm
\* what the follower has of the log of the leader is less than that
<1>11. ASSUME NEW x \in Nat, NEW P \in Log, Has(n.log, P, x), Has(L, P, x)
       PROVE  x < k /\ Has(K, P, x)
  <2>1. Has(n.log, L, x)
    BY <1>3, <1>11, HasSym, HasTrans
  <2>2. x < k
    BY <1>3, <2>1, HasLess
  <2> QED
    BY <1>3, <1>5, <1>6, <1>11, <2>2, HasTrans
<1>12. ASSUME NEW t \in h.led, NEW x \in Nat, Has(n.log, h.log[t], x),
              t = T \/ (t < T /\ <<t, x>> \in Firm(N, h))
       PROVE  x < k /\ Has(K, h.log[t], x)
  <2>1. h.log[t] \in Log /\ t \in Nat /\ x =< Len(h.log[t])
    BY <1>1, <1>12, ReignLog DEF Has
  <2>2. CASE t = T
    <3>1. Has(L, L, x)
      BY <1>3, <2>1, <2>2, HasSelf
    <3> QED
      BY <1>3, <1>11, <1>12, <2>1, <2>2, <3>1
  <2>3. CASE t < T /\ <<t, x>> \in Firm(N, h)
    <3>1. Has(L, h.log[t], x)
      BY <1>1, <1>3, <2>1, <2>3 DEF LeadersHave
    <3> QED
      BY <1>11, <1>12, <2>1, <3>1
  <2> QED
    BY <1>12, <2>2, <2>3
<1>13. n.commit = 0 \/ (n.commit < k /\ \E u, y \in Nat : /\ <<u, y>> \in Chosen(h) /\ u =< T
                                           /\ n.commit =< y /\ Has(K, h.log[u], n.commit))
  <2> SUFFICES ASSUME n.commit # 0
               PROVE  n.commit < k /\ \E u, y \in Nat : /\ <<u, y>> \in Chosen(h) /\ u =< T
                                           /\ n.commit =< y /\ Has(K, h.log[u], n.commit)
    OBVIOUS
  <2>1. PICK u, y \in Nat : /\ <<u, y>> \in Chosen(h) /\ u =< T
                            /\ n.commit =< y /\ Has(n.log, h.log[u], n.commit)
    BY <1>3 DEF Holds, Done, T
  <2>2. <<u, y>> \in Firm(N, h) /\ u \in h.led /\ h.log[u] \in Log
    BY <1>1, <2>1, ChosenIsFirm, FirmOwn DEF Chosen
  <2>3. n.commit < k /\ Has(K, h.log[u], n.commit)
    <3>1. CASE u = T
      BY <1>3, <1>12, <2>1, <2>2, <3>1
    <3>2. CASE u # T
      <4>1. u < T
        BY <1>3, <2>1, <3>2
      <4>2. Has(L, h.log[u], y)
        BY <1>1, <1>3, <2>2, <4>1 DEF LeadersHave
      <4>3. Has(L, h.log[u], n.commit)
        BY <1>3, <2>1, <2>2, <4>2, HasLess
      <4> QED
        BY <1>3, <1>11, <2>1, <2>2, <4>3
    <3> QED
      BY <3>1, <3>2
  <2> QED
    BY <2>1, <2>3
<1>14. AcksHold(M, h)
  <2> SUFFICES ASSUME NEW a \in Server, NEW t \in Nat, NEW x \in Nat, <<a, t, x>> \in h.acks
               PROVE  /\ x >= 1 /\ t \in h.led /\ x =< Len(h.log[t]) /\ t =< M[a].term
                      /\ M[a].term = t \/ <<t, x>> \in Firm(M, h) => Has(M[a].log, h.log[t], x)
    BY DEF AcksHold
  <2>1. /\ x >= 1 /\ t \in h.led /\ x =< Len(h.log[t]) /\ t =< N[a].term
        /\ N[a].term = t \/ <<t, x>> \in Firm(N, h) => Has(N[a].log, h.log[t], x)
    BY <1>1 DEF AcksHold
  <2>2. CASE a # j
    BY <1>8, <1>10, <2>1, <2>2
  <2>3. CASE a = j
    <3>1. t = T \/ t < T
      BY <1>3, <1>4, <2>1, <2>3
    <3>2. N[a].term = T /\ N[a].log = n.log
      BY <1>4, <2>3
    <3>3. t = T \/ <<t, x>> \in Firm(M, h) => Has(n.log, h.log[t], x)
      BY <1>10, <2>1, <3>2
    <3>4. t = T \/ <<t, x>> \in Firm(M, h) => t = T \/ (t < T /\ <<t, x>> \in Firm(N, h))
      BY <1>10, <3>1
    <3>5. t = T \/ <<t, x>> \in Firm(M, h) => Has(K, h.log[t], x)
      BY <1>12, <2>1, <3>3, <3>4
    <3>6. M[a].term = T /\ M[a].log = K
      BY <1>7, <1>8, <2>3
    <3>7. /\ x >= 1 /\ t \in h.led /\ x =< Len(h.log[t]) /\ t =< M[a].term
          /\ M[a].term = t \/ <<t, x>> \in Firm(M, h) => Has(M[a].log, h.log[t], x)
      BY <2>1, <3>2, <3>5, <3>6
    <3> QED
      BY <3>7
  <2> QED
    BY <2>2, <2>3
<1>15. VotesRespect(M, h)
  <2> SUFFICES ASSUME NEW a \in Server, NEW b \in Server, NEW u \in Nat, NEW t \in Nat, NEW x \in Nat,
                      <<b, u, a>> \in h.votes, <<b, t, x>> \in h.acks, t < u, <<t, x>> \in Firm(M, h)
               PROVE  /\ u \in h.led /\ h.chief[u] = a => Reaches(h.log[u], h.base[u], t, x)
                      /\ M[a].role = "Candidate" /\ M[a].term = u => Reaches(M[a].log, Len(M[a].log), t, x)
    BY DEF VotesRespect
  <2>1. <<t, x>> \in Firm(N, h)
    BY <1>10
  <2>2. /\ u \in h.led /\ h.chief[u] = a => Reaches(h.log[u], h.base[u], t, x)
        /\ N[a].role = "Candidate" /\ N[a].term = u => Reaches(N[a].log, Len(N[a].log), t, x)
    BY <1>1, <2>1 DEF VotesRespect
  <2>3. M[a].role = "Candidate" => M[a] = N[a]
    BY <1>9
  <2> QED
    BY <2>2, <2>3
<1>16. Local(h, j, M[j])
  <2>1. Holds(h, o)
    <3>1. Done(h, o)
      BY <1>7, <1>13 DEF Done
    <3>2. Conf(K, n.applied) = Conf(n.log, n.applied)
      <4>1. n.applied =< n.commit
        BY <1>3 DEF Holds
      <4>2. CASE n.commit = 0
        <5>1. n.applied = 0
          BY <1>3, <4>1, <4>2
        <5> QED
          BY <5>1, ConfDef
      <4>3. CASE n.commit # 0
        <5>1. PICK u, y \in Nat : /\ <<u, y>> \in Chosen(h) /\ u =< T
                                  /\ n.commit =< y /\ Has(n.log, h.log[u], n.commit)
          BY <1>3, <4>3 DEF Holds, Done, T
        <5>2. <<u, y>> \in Firm(N, h) /\ u \in h.led /\ h.log[u] \in Log
          BY <1>1, <5>1, ChosenIsFirm, FirmOwn DEF Chosen
        <5>3. Has(L, h.log[u], n.commit)
          <6>1. CASE u = T
            BY <1>3, <5>1, <6>1, HasSelf DEF Has
          <6>2. CASE u # T
            <7>1. u < T
              BY <1>3, <5>1, <6>2
            <7>2. Has(L, h.log[u], y)
              BY <1>1, <1>3, <5>2, <7>1 DEF LeadersHave
            <7> QED
              BY <1>3, <5>1, <5>2, <7>2, HasLess
          <6> QED
            BY <6>1, <6>2
        <5>4. Has(K, h.log[u], n.commit)
          BY <1>3, <1>11, <5>1, <5>2, <5>3
        <5>5. n.applied \in 0..n.commit
          BY <1>3, <4>1
        <5>6. Conf(K, n.applied) = Conf(h.log[u], n.applied)
          BY <1>3, <1>5, <5>2, <5>4, <5>5, ConfSame
        <5>7. Conf(n.log, n.applied) = Conf(h.log[u], n.applied)
          BY <1>3, <5>1, <5>2, <5>5, ConfSame
        <5> QED
          BY <5>6, <5>7
      <4> QED
        BY <4>2, <4>3
    <3>3. Written(h, K, Len(K)) /\ \A x \in 1..Len(K) : K[x].term =< T
      <4> SUFFICES ASSUME NEW x \in 1..k
                   PROVE  K[x].term \in h.led /\ Has(K, h.log[K[x].term], x) /\ K[x].term =< T
        BY <1>5 DEF Written
      <4>1. x \in 1..Len(L) /\ x \in Nat /\ x =< k /\ K[x] = L[x]
        BY <1>3, <1>5
      <4>2. L[x].term \in h.led /\ Has(L, h.log[L[x].term], x)
        BY <1>1, <1>3, <4>1, ReignLog DEF Written
      <4>3. h.log[L[x].term] \in Log
        BY <1>1, <4>2, ReignLog
      <4>4. Has(K, h.log[L[x].term], x)
        BY <1>3, <1>5, <1>6, <4>1, <4>2, <4>3, HasTrans
      <4>5. L[x].term =< T
        <5>1. L[x].term \in Nat
          BY <1>3, <4>1, EntryType
        <5>2. L[x].term < T \/ L[x].term = T
          BY <1>1, <1>3, <4>1, ReignLog
        <5> QED
          BY <1>3, <5>1, <5>2
      <4> QED
        BY <4>1, <4>2, <4>4, <4>5
    <3> QED
      BY <1>3, <1>7, <3>1, <3>2, <3>3 DEF Holds
  <2>2. Ballots(h, j, o)
    BY <1>3, <1>7 DEF Ballots, T
  <2> QED
    BY <1>7, <1>8, <2>1, <2>2 DEF Local, Leads
<1>17. Good(M, h)
  <2>1. \A x \in Server : Local(h, x, M[x])
    BY <1>2, <1>8, <1>16
  <2> QED
    BY <1>1, <1>8, <1>14, <1>15, <2>1 DEF Good
<1> QED
  BY <1>17 DEF Fine, M, o, n, K, L

\* A follower learns what is committed of the log that it has
LEMMA FineLearn ==
    ASSUME NEW N, Fine(N), NEW i \in Server, NEW j \in Server,
           N[j].role = "Follower", N[j].term = N[i].term, N[i].role = "Leader",
           NEW k \in Nat, Has(N[j].log, N[i].log, k), NEW c \in Nat,
           c >= N[j].commit, c = N[j].commit \/ (c =< N[i].commit /\ c =< k)
    PROVE  Fine([N EXCEPT ![j] = [N[j] EXCEPT !.commit = c]])
<1>0. PICK h : Good(N, h)
  BY DEF Fine
<1> DEFINE n == N[j]
           p == N[i]
           o == [n EXCEPT !.commit = c]
<1>1. /\ h \in History /\ n \in NodeState /\ Holds(h, n) /\ Ballots(h, j, n)
      /\ n.term \in Nat /\ n.log \in Log /\ n.applied \in Nat /\ n.commit \in Nat
      /\ p \in NodeState /\ Holds(h, p) /\ p.commit \in Nat /\ p.log \in Log
      /\ n.role = "Follower" /\ n.term = p.term /\ p.role = "Leader" /\ Has(n.log, p.log, k)
      /\ c >= n.commit /\ (c = n.commit \/ (c =< p.commit /\ c =< k))
  BY <1>0, GoodNode
<1> HIDE DEF n, p
<1>2. /\ o \in NodeState /\ o.term = n.term /\ o.log = n.log /\ o.role = n.role
      /\ o.commit = c /\ o.applied = n.applied /\ o.conf = n.conf /\ o.vote = n.vote
  BY <1>1 DEF NodeState
<1> HIDE DEF o
<1>3. Done(h, o)
  <2>1. CASE c = n.commit
    BY <1>1, <1>2, <2>1 DEF Holds, Done
  <2>2. CASE c = 0
    BY <1>2, <2>2 DEF Done
  <2>3. CASE c # 0 /\ c =< p.commit /\ c =< k
    <3>1. PICK u, y \in Nat : /\ <<u, y>> \in Chosen(h) /\ u =< p.term
                              /\ p.commit =< y /\ Has(p.log, h.log[u], p.commit)
      BY <1>1, <2>3 DEF Holds, Done
    <3>2. h.log[u] \in Log
      BY <1>1 DEF History
    <3>3. Has(n.log, h.log[u], c)
      BY <1>1, <2>3, <3>1, <3>2, HasTrans
    <3>4. c =< y
      BY <1>1, <2>3, <3>1
    <3> QED
      BY <1>1, <1>2, <3>1, <3>3, <3>4 DEF Done
  <2> QED
    BY <1>1, <2>1, <2>2, <2>3
<1>4. Holds(h, o) /\ Ballots(h, j, o) /\ Leads(h, j, o)
  <2>1. o.applied =< o.commit
    <3>1. n.applied =< n.commit
      BY <1>1 DEF Holds
    <3> QED
      BY <1>1, <1>2, <3>1
  <2> QED
    BY <1>1, <1>2, <1>3, <2>1 DEF Holds, Ballots, Leads
<1>5. Good([N EXCEPT ![j] = o], h)
  <2>1. o.log = N[j].log /\ o.term >= N[j].term /\ o.role = N[j].role
    BY <1>1, <1>2 DEF n
  <2> QED
    BY <1>0, <1>2, <1>4, <2>1, Calm DEF Local
<1> QED
  BY <1>5 DEF Fine, o, n

-----------------------------------------------------------------------------
(***************************************************************************)
(* A leader commits, and nodes apply.                                      *)
(***************************************************************************)
\* A leader commits what a quorum has
LEMMA FineCommit ==
    ASSUME NEW N, Fine(N), NEW i \in Server, EarlierApplied(N[i])
    PROVE  Fine([N EXCEPT ![i] = MaybeCommit(N[i])])
<1>0. PICK h : Good(N, h)
  BY DEF Fine
<1> DEFINE n == N[i]
           T == n.term
           L == n.log
           agreed == {k \in n.commit + 1 .. Len(L) :
                        /\ L[k].term = T
                        /\ IsQuorum({j \in Server : n.match[j] >= k}, n.conf)}
           c == Max(agreed)
           o == [n EXCEPT !.commit = c]
<1>1. /\ N = [x \in Server |-> N[x]] /\ h \in History /\ Reigns(h) /\ Elections(h)
      /\ n \in NodeState /\ Holds(h, n) /\ Ballots(h, i, n) /\ Leads(h, i, n)
      /\ T \in Nat /\ L \in Log /\ Len(L) \in Nat /\ n.commit \in Nat /\ n.applied \in Nat
      /\ n.match \in [Server -> Nat] /\ EarlierApplied(n)
  BY <1>0, GoodNode DEF Good
<1>2. N[i] = n /\ N[i].log = L /\ N[i].term = T
  OBVIOUS
<1>3. CASE ~(n.role = "Leader" /\ agreed # {})
  <2>1. MaybeCommit(n) = n
    BY <1>3 DEF MaybeCommit
  <2>2. [N EXCEPT ![i] = n] = N
    <3> HIDE DEF n
    <3> QED
      BY <1>1, <1>2
  <2> QED
    BY <2>1, <2>2
<1>4. CASE n.role = "Leader" /\ agreed # {}
  <2>1. MaybeCommit(n) = o
    BY <1>4 DEF MaybeCommit
  <2>2. c \in agreed
    <3>1. agreed \in SUBSET (0..Len(L))
      BY <1>1
    <3> HIDE DEF agreed
    <3> QED
      BY <1>1, <1>4, <3>1, MaxIn
  <2> HIDE DEF c, n
  <2>3. /\ c \in Nat /\ c > n.commit /\ c =< Len(L) /\ c >= 1 /\ L[c].term = T
        /\ IsQuorum({j \in Server : n.match[j] >= c}, n.conf)
    BY <1>1, <2>2
  <2> HIDE DEF agreed
  <2>4. /\ o \in NodeState /\ o.term = T /\ o.log = L /\ o.role = "Leader"
        /\ o.commit = c /\ o.applied = n.applied /\ o.conf = n.conf /\ o.vote = n.vote
        /\ o.match = n.match
    BY <1>1, <1>4, <2>3 DEF NodeState
  <2> HIDE DEF o
  <2>5. /\ T \in h.led /\ h.log[T] = L /\ h.chief[T] = i
        /\ \A j \in Server : \A x \in 1..n.match[j] : <<j, T, x>> \in h.acks
        /\ Known(h, Chosen(h), T, n.commit, c)
    BY <1>1, <1>4, <2>3 DEF Leads
  <2> HIDE DEF T, L
  <2>6. Own(h, T, c)
    <3>1. h.base[T] \in Nat /\ (c =< h.base[T] => L[c].term < T)
      BY <1>1, <2>3, <2>5, ReignLog
    <3>2. ~(c =< h.base[T])
      BY <1>1, <2>3, <3>1
    <3> QED
      BY <1>1, <2>3, <2>5, <3>1, <3>2 DEF Own
  <2>7. n.applied =< n.commit /\ n.conf = Conf(L, n.applied)
    BY <1>1 DEF Holds, L
  <2>8. Known(h, Chosen(h), T, n.applied, c)
    <3>1. \A y \in Nat : n.commit =< y => n.applied =< y
      BY <1>1, <2>7
    <3>2. n.commit = 0 => n.applied = 0
      BY <1>1, <2>7
    <3> QED
      BY <2>5, <3>1, <3>2 DEF Known
  <2>9. FewChanges(L, n.applied, c)
    BY <1>1, <1>4, LacksOne DEF L
  <2>10. Wins(h, Chosen(h), h.acks, T, c)
    <3> DEFINE Q == {j \in Server : n.match[j] >= c}
    <3>1. Q \in SUBSET Server
      OBVIOUS
    <3>2. \A j \in Q : <<j, T, c>> \in h.acks
      <4> SUFFICES ASSUME NEW j \in Q PROVE <<j, T, c>> \in h.acks
        OBVIOUS
      <4>1. n.match[j] \in Nat /\ n.match[j] >= c /\ j \in Server
        BY <1>1
      <4>2. c \in 1..n.match[j]
        BY <2>3, <4>1
      <4> QED
        BY <2>5, <4>1, <4>2
    <3>3. n.applied < c /\ IsQuorum(Q, Conf(L, n.applied))
      BY <1>1, <2>3, <2>7
    <3> HIDE DEF Q
    <3> QED
      BY <1>1, <2>5, <2>6, <2>8, <2>9, <3>1, <3>2, <3>3 DEF Wins
  <2>11. <<T, c>> \in Chosen(h)
    BY <1>1, <2>3, <2>10, WinnersClosed DEF Chosen, Closed
  <2>12. Has(L, L, c)
    <3>1. L \in Log /\ c \in Nat /\ c =< Len(L)
      BY <1>1, <2>3
    <3> QED
      BY <3>1, HasSelf
  <2>13. Done(h, o)
    <3>1. T \in Nat /\ c \in Nat /\ T =< o.term /\ o.commit =< c /\ o.role # "Candidate"
      BY <1>1, <2>3, <2>4
    <3>2. Has(o.log, h.log[T], o.commit)
      BY <2>4, <2>5, <2>12
    <3> QED
      BY <2>11, <3>1, <3>2 DEF Done
  <2>14. Holds(h, o)
    <3>1. o.applied =< o.commit
      BY <1>1, <2>3, <2>4, <2>7
    <3> QED
      BY <1>1, <1>4, <2>4, <2>13, <3>1 DEF Holds, T, L
  <2>15. Leads(h, i, o)
    <3>1. \A x \in Nat : x > c => Known(h, Chosen(h), T, c, x)
      <4> SUFFICES ASSUME NEW x \in Nat, x > c PROVE Known(h, Chosen(h), T, c, x)
        OBVIOUS
      <4>1. Has(h.log[T], h.log[T], c) /\ c =< c /\ c < x
        BY <2>3, <2>5, <2>12
      <4> QED
        BY <1>1, <2>3, <2>6, <2>11, <4>1 DEF Known
    <3> QED
      BY <2>4, <2>5, <3>1 DEF Leads
  <2>16. Ballots(h, i, o)
    BY <1>1, <1>4, <2>4 DEF Ballots, T
  <2>17. Good([N EXCEPT ![i] = o], h)
    <3>1. o.log = N[i].log /\ o.term >= N[i].term /\ o.role # "Candidate"
      BY <1>1, <1>2, <2>4
    <3> QED
      BY <1>0, <2>4, <2>14, <2>15, <2>16, <3>1, Calm DEF Local
  <2> QED
    BY <1>2, <2>1, <2>17 DEF Fine
<1> QED
  BY <1>3, <1>4

\* A node applies the next entry that it knows to be committed
LEMMA FineApplied ==
    ASSUME NEW N, Fine(N), NEW i \in Server, N[i].applied < N[i].commit,
           NEW m \in [Server -> Nat], \A j \in Server : m[j] =< N[i].match[j]
    PROVE  Fine([N EXCEPT ![i] =
                    [N[i] EXCEPT !.conf = Changed(@, N[i].log[N[i].applied + 1].change),
                                 !.applied = @ + 1, !.match = m]])
<1>0. PICK h : Good(N, h)
  BY DEF Fine
<1> DEFINE n == N[i]
           x == n.applied + 1
           conf == Changed(n.conf, n.log[x].change)
           o == [n EXCEPT !.conf = conf, !.applied = x, !.match = m]
<1>1. /\ h \in History /\ n \in NodeState /\ Holds(h, n) /\ Ballots(h, i, n) /\ Leads(h, i, n)
      /\ n.term \in Nat /\ n.log \in Log /\ Len(n.log) \in Nat /\ n.commit \in Nat
      /\ n.applied \in Nat /\ n.match \in [Server -> Nat] /\ n.applied < n.commit
      /\ \A j \in Server : m[j] =< n.match[j]
  BY <1>0, GoodNode
<1> HIDE DEF n
<1>2. x \in Nat /\ x =< n.commit /\ x > 0 /\ x - 1 = n.applied /\ x \in 0..Len(n.log)
  <2>1. n.commit =< Len(n.log)
    BY <1>1, CommitInLog
  <2> QED
    BY <1>1, <2>1
<1> HIDE DEF x
<1>3. conf = Conf(n.log, x) /\ conf \in Config
  <2>1. n.conf = Conf(n.log, n.applied)
    BY <1>1 DEF Holds
  <2>2. conf = Conf(n.log, x)
    BY <1>2, <2>1, ConfDef
  <2> QED
    BY <1>1, <1>2, <2>2, ConfType
<1> HIDE DEF conf
<1>4. /\ o \in NodeState /\ o.term = n.term /\ o.log = n.log /\ o.role = n.role
      /\ o.commit = n.commit /\ o.applied = x /\ o.conf = conf /\ o.vote = n.vote
      /\ o.granted = n.granted /\ o.match = m
  BY <1>1, <1>2, <1>3 DEF NodeState
<1> HIDE DEF o
<1>5. Holds(h, o)
  BY <1>1, <1>2, <1>3, <1>4 DEF Holds, Done
<1>6. Leads(h, i, o)
  <2>1. \A j \in Server : \A y \in 1..m[j] : y \in 1..n.match[j]
    <3> SUFFICES ASSUME NEW j \in Server, NEW y \in 1..m[j] PROVE y \in 1..n.match[j]
      OBVIOUS
    <3>1. m[j] \in Nat /\ n.match[j] \in Nat /\ m[j] =< n.match[j]
      BY <1>1
    <3> QED
      BY <3>1
  <2> QED
    BY <1>1, <1>4, <2>1 DEF Leads
<1>7. Ballots(h, i, o)
  BY <1>1, <1>4 DEF Ballots
<1>8. Good([N EXCEPT ![i] = o], h)
  <2>1. o.log = N[i].log /\ o.term >= N[i].term /\ o.role = N[i].role
    BY <1>1, <1>4 DEF n
  <2> QED
    BY <1>0, <1>4, <1>5, <1>6, <1>7, <2>1, Calm DEF Local
<1> QED
  BY <1>8 DEF Fine, o, conf, x, n

-----------------------------------------------------------------------------
(***************************************************************************)
(* The actions, put together from the small steps.  First what they share. *)
(***************************************************************************)
\* What the history says of one node
LEMMA FineNode ==
    ASSUME NEW N, Fine(N), NEW i \in Server
    PROVE  /\ N = [x \in Server |-> N[x]] /\ N[i] \in NodeState
           /\ N[i].applied =< N[i].commit /\ N[i].commit =< Len(N[i].log)
           /\ N[i].conf = Conf(N[i].log, N[i].applied)
           /\ AllFit(N[i].log, Len(N[i].log)) /\ (N[i].role # "Follower" => N[i].term >= 1)
<1>1. PICK h : Good(N, h)
  BY DEF Fine
<1>2. h \in History /\ Reigns(h) /\ N[i] \in NodeState /\ Holds(h, N[i]) /\ N[i].log \in Log
  BY <1>1, GoodNode
<1>3. N[i].applied =< N[i].commit /\ N[i].commit =< Len(N[i].log)
  BY <1>2, CommitInLog
<1>4. Len(N[i].log) \in 0..Len(N[i].log)
  BY <1>2 DEF Log
<1>5. AllFit(N[i].log, Len(N[i].log))
  BY <1>2, <1>4, WrittenFits DEF Holds
<1> QED
  BY <1>1, <1>2, <1>3, <1>5 DEF Good, Holds

\* A node that changes twice
LEMMA Twice ==
    ASSUME NEW N, N = [x \in Server |-> N[x]], NEW i \in Server, NEW o, NEW p
    PROVE  /\ [N EXCEPT ![i] = o] = [x \in Server |-> [N EXCEPT ![i] = o][x]]
           /\ [N EXCEPT ![i] = o][i] = o
           /\ [[N EXCEPT ![i] = o] EXCEPT ![i] = p] = [N EXCEPT ![i] = p]
           /\ [N EXCEPT ![i] = N[i]] = N
           /\ \A j \in Server : j # i => [N EXCEPT ![i] = o][j] = N[j]
<1>1. /\ [N EXCEPT ![i] = o] = [x \in Server |-> IF x = i THEN o ELSE N[x]]
      /\ [N EXCEPT ![i] = N[i]] = [x \in Server |-> N[x]]
  OBVIOUS
<1> DEFINE M == [N EXCEPT ![i] = o]
<1>2. M = [x \in Server |-> IF x = i THEN o ELSE N[x]]
  BY <1>1
<1> HIDE DEF M
<1>3. [M EXCEPT ![i] = p] = [x \in Server |-> IF x = i THEN p ELSE M[x]]
  BY <1>2
<1>4. [M EXCEPT ![i] = p] = [x \in Server |-> IF x = i THEN p ELSE N[x]]
  BY <1>2, <1>3
<1>5. [N EXCEPT ![i] = p] = [x \in Server |-> IF x = i THEN p ELSE N[x]]
  OBVIOUS
<1>6. [M EXCEPT ![i] = p] = [N EXCEPT ![i] = p]
  BY <1>4, <1>5
<1>7. M = [x \in Server |-> M[x]] /\ M[i] = o /\ \A j \in Server : j # i => M[j] = N[j]
  BY <1>2
<1> QED
  BY <1>1, <1>6, <1>7 DEF M

\* maybeCommit changes nothing but the commit index
LEMMA MaybeCommitSame ==
    ASSUME NEW n \in NodeState
    PROVE  LET o == MaybeCommit(n)
           IN  /\ o.role = n.role /\ o.term = n.term /\ o.vote = n.vote /\ o.lead = n.lead
               /\ o.granted = n.granted /\ o.log = n.log /\ o.applied = n.applied
               /\ o.conf = n.conf /\ o.match = n.match
               /\ o.pendingConfIndex = n.pendingConfIndex
               /\ o.uncommittedSize = n.uncommittedSize
<1> DEFINE agreed == {k \in n.commit + 1 .. Len(n.log) :
                        /\ n.log[k].term = n.term
                        /\ IsQuorum({j \in Server : n.match[j] >= k}, n.conf)}
           c == Max(agreed)
<1>1. MaybeCommit(n) = n \/ MaybeCommit(n) = [n EXCEPT !.commit = c]
  BY DEF MaybeCommit
<1> HIDE DEF c
<1> QED
  BY <1>1 DEF NodeState

\* An entry that fits what the leader has
LEMMA FineAppend ==
    ASSUME NEW N, Fine(N), NEW i \in Server, N[i].role = "Leader", NEW ch \in Change,
           Fits(Conf(N[i].log, Len(N[i].log)), ch), EarlierApplied(AppendEntry(i, N[i], ch))
    PROVE  Fine([N EXCEPT ![i] = AppendEntry(i, N[i], ch)])
<1> DEFINE n == N[i]
           e == [term |-> n.term, change |-> ch]
           k == Len(n.log) + 1
           s == n.uncommittedSize + PayloadSize(ch)
           a == [n EXCEPT !.log = Append(@, e)]
           b == [a EXCEPT !.match[i] = k]
           g == [b EXCEPT !.lead = b.lead, !.pendingConfIndex = b.pendingConfIndex,
                          !.uncommittedSize = s]
<1>1. /\ N = [x \in Server |-> N[x]] /\ n \in NodeState /\ n.term >= 1
  BY FineNode
<1>2. CASE OverQuota(n, ch)
  BY <1>1, <1>2, Twice DEF AppendEntry
<1>3. CASE ~OverQuota(n, ch)
  <2>1. Fine([N EXCEPT ![i] = a])
    BY FineGrow
  <2>2. n.log \in Log /\ n.term \in Nat /\ n.match \in [Server -> Nat] /\ n.uncommittedSize \in Nat
    BY <1>1 DEF NodeState, Log
  <2>3. e \in Entry
    BY <1>1, <2>2 DEF Entry
  <2>4. AppendEntry(i, n, ch) =
          MaybeCommit([n EXCEPT !.log = Append(@, e), !.match[i] = k,
                                !.uncommittedSize = @ + PayloadSize(ch)])
    BY <1>3 DEF AppendEntry
  <2> HIDE DEF n, e
  <2>5. Append(n.log, e) \in Log /\ Len(Append(n.log, e)) = k
    BY <2>2, <2>3, HasAppend
  <2>6. /\ a \in NodeState /\ a.role = n.role /\ a.term = n.term /\ a.log = Append(n.log, e)
    BY <1>1, <2>5 DEF NodeState, Log
  <2>7. k \in 0..Len(a.log) /\ k \in Nat
    BY <2>2, <2>5, <2>6 DEF Log
  <2>8. Has(a.log, a.log, k)
    <3>1. a.log \in Log /\ k \in Nat /\ k =< Len(a.log)
      BY <2>5, <2>6, <2>7
    <3> HIDE DEF a, k
    <3> QED
      BY <3>1, HasSelf
  <2>9. s \in Nat
    BY <2>2 DEF PayloadSize
  <2>10. [n EXCEPT !.log = Append(@, e), !.match[i] = k, !.uncommittedSize = @ + PayloadSize(ch)] = g
    BY <1>1, <2>2 DEF NodeState
  <2> DEFINE A == [N EXCEPT ![i] = a]
             B == [N EXCEPT ![i] = b]
             G == [N EXCEPT ![i] = g]
  <2> HIDE DEF a, k
  <2>11. /\ A[i] = a /\ [A EXCEPT ![i] = b] = B /\ B[i] = b /\ [B EXCEPT ![i] = g] = G /\ G[i] = g
         /\ [G EXCEPT ![i] = MaybeCommit(g)] = [N EXCEPT ![i] = MaybeCommit(g)]
    <3> HIDE DEF b, g
    <3>1. /\ A[i] = a /\ [A EXCEPT ![i] = b] = B
      BY <1>1, Twice DEF n
    <3>2. /\ B[i] = b /\ [B EXCEPT ![i] = g] = G
      BY <1>1, Twice DEF n
    <3>3. G[i] = g /\ [G EXCEPT ![i] = MaybeCommit(g)] = [N EXCEPT ![i] = MaybeCommit(g)]
      BY <1>1, Twice DEF n
    <3> QED
      BY <3>1, <3>2, <3>3
  <2>12. Fine(A)
    BY <2>1
  <2>13. a.role = "Leader"
    BY <2>6 DEF n
  <2> HIDE DEF A
  <2>14. Fine([A EXCEPT ![i] = [A[i] EXCEPT !.match[i] = k]])
    BY <2>7, <2>8, <2>11, <2>12, <2>13, FineMatch
  <2>15. Fine(B)
    BY <2>11, <2>14
  <2> HIDE DEF B
  <2>16. b \in NodeState
    BY <2>6, <2>7 DEF NodeState
  <2>17. b.lead \in Server \cup {None} /\ b.pendingConfIndex \in Nat
    <3> HIDE DEF b
    <3> QED
      BY <2>16 DEF NodeState
  <2>18. Fine([B EXCEPT ![i] = [B[i] EXCEPT !.lead = b.lead,
                        !.pendingConfIndex = b.pendingConfIndex, !.uncommittedSize = s]])
    BY <2>9, <2>11, <2>15, <2>17, FineOther
  <2>19. Fine(G)
    BY <2>11, <2>18
  <2>20. AppendEntry(i, n, ch) = MaybeCommit(g)
    BY <2>4, <2>10
  <2> HIDE DEF G, g
  <2>21. g \in NodeState
    BY <2>11, <2>19, FineNode
  <2>22. EarlierApplied(g)
    BY <2>20, <2>21, MaybeCommitSame DEF EarlierApplied, n
  <2>23. Fine([G EXCEPT ![i] = MaybeCommit(G[i])])
    BY <2>11, <2>19, <2>22, FineCommit
  <2> QED
    BY <2>11, <2>20, <2>23 DEF n
<1> QED
  BY <1>2, <1>3

-----------------------------------------------------------------------------
(***************************************************************************)
(* Elections and proposals.                                                *)
(***************************************************************************)
\* A candidate, whether it is elected or not
LEMMA FineTally ==
    ASSUME NEW N, Fine(N), NEW i \in Server, N[i].role = "Candidate",
           EarlierApplied(N[i]), EarlierApplied(Tally(i, N[i]))
    PROVE  Fine([N EXCEPT ![i] = Tally(i, N[i])])
<1> DEFINE n == N[i]
           k == Len(n.log)
           r == Reset(n, n.term)
           l == [r EXCEPT !.role = "Leader"]
           m == [l EXCEPT !.match[i] = k]
           s == m.uncommittedSize
           p == [m EXCEPT !.lead = i, !.pendingConfIndex = k, !.uncommittedSize = s]
<1>1. /\ N = [x \in Server |-> N[x]] /\ n \in NodeState /\ n.term \in Nat /\ n.log \in Log
  BY FineNode DEF NodeState, Log
<1>2. CASE ~IsQuorum(n.granted, n.conf)
  BY <1>1, <1>2, Twice DEF Tally
<1>3. CASE IsQuorum(n.granted, n.conf)
  <2>1. Fine([N EXCEPT ![i] = l])
    BY <1>3, FineCrown
  <2>2. Tally(i, n) = AppendEntry(i, [r EXCEPT !.role = "Leader", !.lead = i, !.match[i] = k,
                                               !.pendingConfIndex = k], Plain("empty"))
    BY <1>3 DEF Tally, BecomeLeader
  <2>3. r \in NodeState /\ r.log = n.log
    BY <1>1, ResetType
  <2>4. k \in Nat
    BY <1>1 DEF Log
  <2> HIDE DEF n, r, k
  <2>5. l \in NodeState /\ l.log = n.log /\ l.role = "Leader"
    BY <2>3 DEF NodeState
  <2>6. [r EXCEPT !.role = "Leader", !.lead = i, !.match[i] = k, !.pendingConfIndex = k] = p
    BY <2>3, <2>4 DEF NodeState
  <2> DEFINE A == [N EXCEPT ![i] = l]
             B == [N EXCEPT ![i] = m]
             G == [N EXCEPT ![i] = p]
             o == AppendEntry(i, p, Plain("empty"))
  <2> HIDE DEF l
  <2>7. m \in NodeState /\ m.role = "Leader" /\ m.log = n.log
    BY <2>4, <2>5 DEF NodeState
  <2> HIDE DEF m
  <2>8. s \in Nat
    BY <2>7 DEF NodeState
  <2> HIDE DEF s
  <2>9. p.role = "Leader"
    BY <2>7 DEF NodeState
  <2> HIDE DEF p, o
  <2>10. A[i] = l /\ [A EXCEPT ![i] = m] = B
    BY <1>1, Twice DEF n
  <2>11. B[i] = m /\ [B EXCEPT ![i] = p] = G
    BY <1>1, Twice DEF n
  <2>12. G[i] = p /\ [G EXCEPT ![i] = o] = [N EXCEPT ![i] = o]
    BY <1>1, Twice DEF n
  <2>13. Fine(A)
    BY <2>1
  <2>14. Has(l.log, l.log, k) /\ k \in 0..Len(l.log)
    BY <1>1, <2>4, <2>5, HasSelf DEF k
  <2> HIDE DEF A
  <2>15. Fine([A EXCEPT ![i] = [A[i] EXCEPT !.match[i] = k]])
    BY <2>5, <2>10, <2>13, <2>14, FineMatch
  <2>16. Fine(B)
    BY <2>10, <2>15 DEF m
  <2> HIDE DEF B
  <2>17. Fine([B EXCEPT ![i] = [B[i] EXCEPT !.lead = i, !.pendingConfIndex = k,
                                            !.uncommittedSize = s]])
    BY <2>4, <2>8, <2>16, FineOther
  <2>18. Fine(G)
    BY <2>11, <2>17 DEF p
  <2> HIDE DEF G
  <2>19. Tally(i, n) = o
    BY <2>2, <2>6 DEF o
  <2>20. EarlierApplied(o)
    BY <2>19 DEF n
  <2>21. Plain("empty") \in Change /\ Fits(Conf(p.log, Len(p.log)), Plain("empty"))
    BY DEF Plain, Change, Fits
  <2>22. Fine([G EXCEPT ![i] = AppendEntry(i, G[i], Plain("empty"))])
    BY <2>9, <2>12, <2>18, <2>20, <2>21, FineAppend DEF o
  <2> QED
    BY <2>12, <2>19, <2>22 DEF n, o
<1> QED
  BY <1>2, <1>3

\* What a change by simple steps may do
SmallStep(ch) == ch.kind = "simple" => Cardinality(ch.add \cup ch.remove) =< 1

\* A proposal: a change is taken only when those before it are applied
LEMMA FineProp ==
    ASSUME NEW N, Fine(N), NEW i \in Server, N[i].role = "Leader", Noted(N[i]),
           NEW ch \in Change, SmallStep(ch), Voters(N[i].conf, ch) # {} \/ ch.kind = "leave",
           EarlierApplied(StepProp(i, N[i], ch))
    PROVE  Fine([N EXCEPT ![i] = StepProp(i, N[i], ch)])
<1> DEFINE n == N[i]
           k == Len(n.log) + 1
           p == [n EXCEPT !.lead = n.lead, !.pendingConfIndex = k,
                          !.uncommittedSize = n.uncommittedSize]
           P == [N EXCEPT ![i] = p]
<1>1. /\ N = [x \in Server |-> N[x]] /\ n \in NodeState /\ n.applied =< Len(n.log)
      /\ n.conf = Conf(n.log, n.applied) /\ n.log \in Log /\ Len(n.log) \in Nat
      /\ n.applied \in Nat /\ n.pendingConfIndex \in Nat /\ k \in Nat
  BY FineNode DEF NodeState, Log
<1>2. CASE Refused(n, ch)
  <2>1. Plain("empty") \in Change /\ Fits(Conf(n.log, Len(n.log)), Plain("empty"))
    BY DEF Plain, Change, Fits
  <2>2. StepProp(i, n, ch) = AppendEntry(i, n, Plain("empty"))
    BY <1>2 DEF StepProp
  <2> QED
    BY <2>1, <2>2, FineAppend
<1>3. CASE ~Refused(n, ch) /\ ~IsChange(ch)
  <2>1. Fits(Conf(n.log, Len(n.log)), ch)
    BY <1>3 DEF Fits, IsChange
  <2>2. StepProp(i, n, ch) = AppendEntry(i, n, ch)
    BY <1>3 DEF StepProp
  <2> QED
    BY <2>1, <2>2, FineAppend
<1>4. CASE ~Refused(n, ch) /\ IsChange(ch)
  <2>1. StepProp(i, n, ch) = AppendEntry(i, [n EXCEPT !.pendingConfIndex = k], ch)
    BY <1>4 DEF StepProp
  <2>2. [n EXCEPT !.pendingConfIndex = k] = p
    BY <1>1 DEF NodeState
  <2>3. n.role = "Leader" /\ n.lead \in Server \cup {None} /\ n.uncommittedSize \in Nat
    BY <1>1 DEF NodeState
  <2>4. Fine(P)
    BY <1>1, <2>3, FineOther
  <2>5. p.log = n.log /\ p.role = "Leader"
    BY <1>1, <2>3 DEF NodeState
  <2>6. n.pendingConfIndex =< n.applied /\ (IsJoint(n.conf) <=> ch.kind = "leave")
    <3>1. ~Pending(n)
      BY <1>4 DEF Refused
    <3>2. ~(IsJoint(n.conf) # (ch.kind = "leave"))
      BY <1>4 DEF Refused
    <3>3. IsJoint(n.conf) \in BOOLEAN
      BY DEF IsJoint
    <3>4. IsJoint(n.conf) <=> ch.kind = "leave"
      BY <3>2, <3>3
    <3> HIDE DEF n
    <3>5. n.pendingConfIndex =< n.applied
      BY <1>1, <3>1 DEF Pending
    <3> QED
      BY <3>4, <3>5
  <2>7. \A x \in ChangesIn(n.log) : x =< n.applied
    <3>1. \A x \in ChangesIn(n.log) : x =< n.pendingConfIndex /\ x \in 1..Len(n.log)
      BY <2>3 DEF Noted, ChangesIn
    <3> QED
      BY <1>1, <2>6, <3>1
  <2> HIDE DEF n
  <2>8. Conf(n.log, Len(n.log)) = n.conf
    <3>1. \A x \in ChangesIn(n.log) : ~(n.applied < x /\ x =< Len(n.log))
      <4>1. \A x \in ChangesIn(n.log) : x \in Nat
        BY DEF ChangesIn
      <4> QED
        BY <1>1, <2>7, <4>1
    <3> QED
      BY <1>1, <3>1, ConfQuiet
  <2>9. n.conf \in Config
    BY <1>1 DEF NodeState
  <2> DEFINE c == n.conf
  <2>10. c \in Config /\ (IsJoint(c) <=> ch.kind = "leave") /\ (Voters(c, ch) # {} \/ ch.kind = "leave")
    BY <2>6, <2>9 DEF n
  <2>11. Fits(c, ch)
    <3> HIDE DEF c
    <3>1. ch.add \in SUBSET Server /\ ch.remove \in SUBSET Server
      BY DEF Change
    <3>2. ASSUME ch.kind = "simple"
          PROVE  Cardinality(SymDiff(c.voters, Voters(c, ch))) =< 1
      <4> DEFINE S == SymDiff(c.voters, Voters(c, ch))
                 T == ch.add \cup ch.remove
      <4>1. S \subseteq T
        BY DEF SymDiff, Voters
      <4>2. IsFiniteSet(T) /\ Cardinality(T) =< 1
        BY <3>1, <3>2, Finite, FS_Subset DEF SmallStep
      <4> HIDE DEF S, T
      <4>3. IsFiniteSet(S) /\ Cardinality(S) =< Cardinality(T) /\ Cardinality(S) \in Nat
            /\ Cardinality(T) \in Nat
        BY <4>1, <4>2, FS_Subset, FS_CardinalityType
      <4> QED
        BY <4>2, <4>3 DEF S
    <3> QED
      BY <1>4, <2>10, <3>2 DEF Fits, IsChange
  <2> HIDE DEF p
  <2>12. P[i] = p /\ [P EXCEPT ![i] = AppendEntry(i, p, ch)] = [N EXCEPT ![i] = AppendEntry(i, p, ch)]
    BY <1>1, Twice DEF n
  <2>13. EarlierApplied(AppendEntry(i, p, ch))
    BY <2>1, <2>2 DEF n
  <2> HIDE DEF P
  <2>14. Fits(Conf(P[i].log, Len(P[i].log)), ch)
    BY <2>5, <2>8, <2>11, <2>12
  <2>15. Fine([P EXCEPT ![i] = AppendEntry(i, P[i], ch)])
    BY <2>4, <2>5, <2>12, <2>13, <2>14, FineAppend
  <2> QED
    BY <2>1, <2>2, <2>12, <2>15 DEF n
<1> QED
  BY <1>2, <1>3, <1>4

-----------------------------------------------------------------------------
(***************************************************************************)
(* The invariant, and the actions of one node that keep it.                *)
(***************************************************************************)
\* A candidate has voted for itself
OwnVote(i, n) == n.role = "Candidate" => i \in n.granted

\* The invariant from which raft is safe: changes are in turn, a history explains the
\* nodes, and candidates vote for themselves
SafetyInv == ChangesInv /\ Fine(node) /\ \A i \in Server : OwnVote(i, node[i])

\* The types agree: a node of NodeState is one that can be in turn.
LEMMA ShapedNode ==
    ASSUME NEW n \in NodeState
    PROVE  Shaped(n)
<1>1. n.log \in Seq(Entry) /\ Entry \subseteq [term : Nat, change : Change]
  BY DEF NodeState, Entry
<1>2. n.log \in Seq([term : Nat, change : Change])
  <2> DEFINE S == [term : Nat, change : Change]
  <2>1. Entry \subseteq S
    BY <1>1
  <2> HIDE DEF S
  <2>2. n.log \in Seq(S)
    BY <1>1, <2>1
  <2> QED
    BY <2>2 DEF S
<1> QED
  BY <1>2 DEF Shaped, NodeState

\* A leader that appends, or has a proposal, goes on to lead
LEMMA StillLeads ==
    ASSUME NEW i \in Server, NEW n, Shaped(n), n.role = "Leader", NEW ch \in Change
    PROVE  /\ AppendEntry(i, n, ch).role = "Leader" /\ AppendEntry(i, n, ch).applied = n.applied
           /\ StepProp(i, n, ch).role = "Leader" /\ StepProp(i, n, ch).applied = n.applied
<1>1. ASSUME NEW m, NEW c \in Change, Shaped(m), m.role = "Leader"
      PROVE  AppendEntry(i, m, c).role = "Leader" /\ AppendEntry(i, m, c).applied = m.applied
  <2> DEFINE o == AppendEntry(i, m, c)
  <2>1. \/ o = m
        \/ \E g : g.role = m.role /\ g.applied = m.applied /\ Keeps(g, o)
    <3>1. \/ AppendEntry(i, m, c) = m
          \/ \E g : /\ g.role = m.role /\ g.applied = m.applied
                    /\ Keeps(g, AppendEntry(i, m, c))
      BY <1>1, AppendEntryAdds
    <3> QED
      BY <3>1
  <2> HIDE DEF o
  <2>2. o.role = "Leader" /\ o.applied = m.applied
    BY <1>1, <2>1 DEF Keeps
  <2> QED
    BY <2>2 DEF o
<1> DEFINE p == [n EXCEPT !.pendingConfIndex = Len(n.log) + 1]
<1>2. Shaped(p) /\ p.role = "Leader" /\ p.applied = n.applied
  <2>1. Len(n.log) + 1 \in Nat
    BY DEF Shaped
  <2> QED
    BY <2>1 DEF Shaped
<1>3. Plain("empty") \in Change
  BY DEF Plain, Change
<1>4. \/ StepProp(i, n, ch) = AppendEntry(i, n, Plain("empty"))
      \/ StepProp(i, n, ch) = AppendEntry(i, p, ch)
      \/ StepProp(i, n, ch) = AppendEntry(i, n, ch)
  BY DEF StepProp
<1> HIDE DEF p
<1> QED
  BY <1>1, <1>2, <1>3, <1>4

\* One that counts its votes has its own, or leads
LEMMA TallyOwn ==
    ASSUME NEW i \in Server, NEW n \in NodeState, OwnVote(i, n)
    PROVE  OwnVote(i, Tally(i, n))
<1> DEFINE r == Reset(n, n.term)
           b == [r EXCEPT !.role = "Leader", !.lead = i, !.match[i] = Len(n.log),
                          !.pendingConfIndex = Len(n.log)]
<1>1. r \in NodeState /\ Len(n.log) \in Nat
  <2>1. n.term \in Nat /\ Len(n.log) \in Nat
    BY DEF NodeState
  <2> QED
    BY <2>1, ResetType
<1>2. Tally(i, n) = n \/ Tally(i, n) = AppendEntry(i, b, Plain("empty"))
  BY DEF Tally, BecomeLeader
<1> HIDE DEF r
<1>3. b \in NodeState /\ b.role = "Leader"
  BY <1>1 DEF NodeState
<1> HIDE DEF b
<1>4. Plain("empty") \in Change
  BY DEF Plain, Change
<1>5. AppendEntry(i, b, Plain("empty")).role = "Leader"
  BY <1>3, <1>4, ShapedNode, StillLeads
<1> QED
  BY <1>2, <1>5 DEF OwnVote

\* A campaign: the node stands, votes for itself, counts that, and leads if it is enough
LEMMA FineCampaign ==
    ASSUME SafetyInv, NEW i \in Server, Campaign(i), ChangesInv'
    PROVE  SafetyInv'
<1> DEFINE N == node
           n == N[i]
           r == Reset(n, n.term + 1)
           a == [r EXCEPT !.role = "Candidate"]
           b == [a EXCEPT !.vote = i]
           c == [b EXCEPT !.granted = @ \cup {i}]
           d == [r EXCEPT !.role = "Candidate", !.vote = i, !.granted = {i}]
           A == [N EXCEPT ![i] = a]
           B == [N EXCEPT ![i] = b]
           C == [N EXCEPT ![i] = c]
<1>1. node' = [N EXCEPT ![i] = Tally(i, d)] /\ ~HasUnappliedConfChanges(n)
  BY DEF Campaign
<1>2. Fine(N) /\ InTurn(n) /\ \A j \in Server : OwnVote(j, N[j])
  BY DEF SafetyInv, ChangesInv
<1>3. N = [x \in Server |-> N[x]] /\ n \in NodeState
  BY <1>2, FineNode
<1>4. InTurn(d)
  BY <1>1, <1>2, CandidateInTurn
<1>5. InTurn(node'[i])
  BY DEF ChangesInv
<1>6. Fine(A)
  BY <1>2, FineStand
<1> HIDE DEF N
<1>7. node'[i] = Tally(i, d) /\ \A j \in Server : j # i => node'[j] = N[j]
  <2> DEFINE o == Tally(i, d)
  <2> HIDE DEF o, d, n
  <2> QED
    BY <1>1, <1>3, Twice DEF o
<1>8. r \in NodeState /\ r.granted = {} /\ r.vote = None
  <2>1. n.term \in Nat /\ n.term + 1 \in Nat /\ n.term + 1 # n.term
    BY <1>3 DEF NodeState
  <2> HIDE DEF n
  <2> QED
    BY <1>3, <2>1, ResetType
<1> HIDE DEF n, r
<1>9. c = d
  BY <1>8 DEF NodeState
<1>10. a \in NodeState /\ a.role = "Candidate" /\ a.vote = None
  BY <1>8 DEF NodeState
<1> HIDE DEF a
<1>11. b \in NodeState /\ b.role = "Candidate" /\ b.vote = i
  BY <1>10 DEF NodeState
<1> HIDE DEF b
<1>12. c \in NodeState /\ c.role = "Candidate" /\ i \in c.granted
  BY <1>11 DEF NodeState
<1>13. [A EXCEPT ![i] = b] = B /\ A[i] = a
  BY <1>3, Twice DEF n
<1>14. IsUpToDate(A[i], A[i])
  <2>1. Len(a.log) \in Nat
    BY <1>10 DEF NodeState
  <2> HIDE DEF A
  <2> QED
    BY <1>13, <2>1 DEF IsUpToDate
<1> HIDE DEF A
<1>15. Fine([A EXCEPT ![i] = [A[i] EXCEPT !.vote = i]])
  BY <1>6, <1>10, <1>13, <1>14, FineBallot
<1>16. Fine(B)
  BY <1>13, <1>15 DEF b
<1> HIDE DEF c
<1>17. [B EXCEPT ![i] = c] = C /\ B[i] = b
  BY <1>3, Twice DEF n
<1> HIDE DEF B
<1>18. Fine([B EXCEPT ![i] = [B[i] EXCEPT !.granted = @ \cup {i}]])
  BY <1>11, <1>16, <1>17, FineCount
<1>19. Fine(C)
  BY <1>17, <1>18 DEF c
<1>20. [C EXCEPT ![i] = Tally(i, c)] = [N EXCEPT ![i] = Tally(i, c)] /\ C[i] = c
  <2> DEFINE o == Tally(i, c)
  <2> HIDE DEF o
  <2> QED
    BY <1>3, Twice DEF o, n
<1> HIDE DEF C
<1>21. EarlierApplied(C[i]) /\ EarlierApplied(Tally(i, C[i]))
  BY <1>4, <1>5, <1>7, <1>9, <1>20 DEF InTurn
<1>22. Fine([C EXCEPT ![i] = Tally(i, C[i])])
  BY <1>12, <1>19, <1>20, <1>21, FineTally
<1>23. Fine(node')
  BY <1>1, <1>9, <1>20, <1>22
<1>24. OwnVote(i, node'[i])
  BY <1>7, <1>9, <1>12, TallyOwn DEF OwnVote
<1> QED
  BY <1>2, <1>7, <1>23, <1>24 DEF SafetyInv

\* A node that hears of a higher term
LEMMA FineStepDown ==
    ASSUME SafetyInv, NEW i \in Server, NEW j \in Server, StepDown(i, j), ChangesInv'
    PROVE  SafetyInv'
<1> DEFINE o == BecomeFollower(node[i], node[j].term, None)
<1>1. node' = [node EXCEPT ![i] = o] /\ node[j].term > node[i].term
  BY DEF StepDown
<1>2. Fine(node) /\ node = [x \in Server |-> node[x]] /\ node[j].term \in Nat /\ node[i].term \in Nat
      /\ node[i] \in NodeState /\ \A x \in Server : OwnVote(x, node[x])
  BY FineNode DEF SafetyInv, NodeState
<1>3. Fine(node')
  <2>1. node[j].term >= node[i].term
    BY <1>1, <1>2
  <2>2. Fine([node EXCEPT ![i] = BecomeFollower(node[i], node[j].term, None)])
    BY <1>2, <2>1, FineRest
  <2> QED
    BY <1>1, <2>2
<1>4. o.role = "Follower"
  <2>1. Reset(node[i], node[j].term) \in NodeState
    BY <1>2, ResetType
  <2> QED
    BY <2>1 DEF BecomeFollower, NodeState
<1> HIDE DEF o
<1>5. \A x \in Server : OwnVote(x, node'[x])
  BY <1>1, <1>2, <1>4 DEF OwnVote
<1> QED
  BY <1>3, <1>5 DEF SafetyInv

\* A proposal of the application
LEMMA FinePropose ==
    ASSUME SafetyInv, NEW i \in Server, NEW ch \in Changes \cup {Plain("normal")}, Propose(i, ch),
           ChangesInv'
    PROVE  SafetyInv'
<1> DEFINE o == StepProp(i, node[i], ch)
<1>1. node' = [node EXCEPT ![i] = o] /\ node[i].role = "Leader" /\ Voters(node[i].conf, ch) # {}
  BY DEF Propose
<1>2. Fine(node) /\ node = [x \in Server |-> node[x]] /\ InTurn(node[i])
      /\ \A x \in Server : OwnVote(x, node[x])
  BY DEF SafetyInv, ChangesInv
<1>3. ch \in Change /\ SmallStep(ch)
  <2>1. CASE ch \in Changes
    BY <2>1, ReconfigurationAssumption DEF SmallStep
  <2>2. CASE ch = Plain("normal")
    BY <2>2 DEF Plain, Change, SmallStep
  <2> QED
    BY <2>1, <2>2
<1> HIDE DEF o
<1>4. node'[i] = o /\ \A x \in Server : x # i => node'[x] = node[x]
  BY <1>1, <1>2
<1>5. EarlierApplied(o) /\ Noted(node[i]) /\ Shaped(node[i])
  BY <1>2, <1>4 DEF ChangesInv, InTurn
<1>6. Fine(node')
  BY <1>1, <1>2, <1>3, <1>5, FineProp DEF o
<1>7. o.role = "Leader"
  BY <1>1, <1>3, <1>5, StillLeads DEF o
<1>8. \A x \in Server : OwnVote(x, node'[x])
  BY <1>2, <1>4, <1>7 DEF OwnVote
<1> QED
  BY <1>6, <1>8 DEF SafetyInv

-----------------------------------------------------------------------------
(***************************************************************************)
(* Votes.                                                                  *)
(***************************************************************************)
\* A node that asks another
LEMMA FineVote ==
    ASSUME SafetyInv, NEW i \in Server, NEW j \in Server, Vote(i, j), ChangesInv'
    PROVE  SafetyInv'
<1> DEFINE N == node
           n == N[i]
           v == IF N[j].term < n.term THEN BecomeFollower(N[j], n.term, None) ELSE N[j]
           V == [N EXCEPT ![j] = v]
           b == [v EXCEPT !.vote = i]
           B == [V EXCEPT ![j] = b]
           c == [n EXCEPT !.granted = @ \cup {j}]
           C == [B EXCEPT ![i] = c]
           o == Tally(i, c)
           canVote == v.vote = i \/ (v.vote = None /\ v.lead = None)
<1>1. /\ n.role = "Candidate" /\ j \notin n.granted /\ N[j].term =< n.term
      /\ node' = IF canVote /\ IsUpToDate(n, v)
                 THEN [N EXCEPT ![j] = b, ![i] = o] ELSE V
  BY DEF Vote
<1>2. Fine(N) /\ InTurn(n) /\ \A x \in Server : OwnVote(x, N[x])
  BY DEF SafetyInv, ChangesInv
<1>3. /\ N = [x \in Server |-> N[x]] /\ n \in NodeState /\ N[j] \in NodeState
      /\ n.term \in Nat /\ N[j].term \in Nat
  BY <1>2, FineNode DEF NodeState
<1>4. i # j
  BY <1>1, <1>2 DEF OwnVote
<1>5. Fine(V) /\ v.term = n.term /\ v \in NodeState /\ OwnVote(j, v)
  <2>1. CASE N[j].term < n.term
    <3>1. v = BecomeFollower(N[j], n.term, None)
      BY <2>1
    <3>2. LET r == Reset(N[j], n.term) IN r \in NodeState /\ r.term = n.term
      BY <1>3, ResetType
    <3>3. v \in NodeState /\ v.term = n.term /\ v.role = "Follower"
      <4> HIDE DEF n, v
      <4> QED
        BY <3>1, <3>2 DEF BecomeFollower, NodeState
    <3> HIDE DEF v
    <3>4. Fine([N EXCEPT ![j] = BecomeFollower(N[j], n.term, None)])
      <4>1. n.term >= N[j].term /\ None \in Server \cup {None}
        BY <1>3, <2>1
      <4> HIDE DEF N, n
      <4> QED
        BY <1>2, <1>3, <4>1, FineRest
    <3>5. OwnVote(j, v)
      BY <3>3 DEF OwnVote
    <3> HIDE DEF N, n
    <3> QED
      BY <3>1, <3>3, <3>4, <3>5
  <2>2. CASE ~(N[j].term < n.term)
    <3>1. v = N[j] /\ N[j].term = n.term
      BY <1>1, <1>3, <2>2
    <3>2. V = N
      <4> HIDE DEF v
      <4> QED
        BY <1>3, <3>1, Twice
    <3> HIDE DEF v, V
    <3> QED
      BY <1>2, <1>3, <3>1, <3>2
  <2> QED
    BY <2>1, <2>2
<1>6. ChangesInv' /\ InTurn(node'[i])
  BY DEF ChangesInv
<1> HIDE DEF N, n, v
<1>7. /\ V = [x \in Server |-> V[x]] /\ V[j] = v /\ V[i] = n
      /\ \A x \in Server : x # j => V[x] = N[x]
  BY <1>3, <1>4, Twice DEF n
<1>8. CASE ~(canVote /\ IsUpToDate(n, v))
  <2>1. node' = V
    BY <1>1, <1>8
  <2>2. \A x \in Server : OwnVote(x, V[x])
    BY <1>2, <1>5, <1>7
  <2> QED
    BY <1>5, <1>6, <2>1, <2>2 DEF SafetyInv
<1>9. CASE canVote /\ IsUpToDate(n, v)
  <2>1. node' = [N EXCEPT ![j] = b, ![i] = o]
    BY <1>1, <1>9
  <2>2. v.vote \in {i, None} /\ IsUpToDate(V[i], V[j])
    BY <1>7, <1>9
  <2>3. b \in NodeState /\ b.vote = i /\ b.term = n.term /\ b.role = v.role /\ b.granted = v.granted
    BY <1>5 DEF NodeState
  <2>4. /\ c \in NodeState /\ c.role = "Candidate" /\ c.log = n.log /\ c.applied = n.applied
        /\ OwnVote(i, c)
    <3>1. i \in n.granted
      BY <1>1, <1>2 DEF OwnVote, n
    <3> QED
      BY <1>1, <1>3, <3>1 DEF NodeState, OwnVote
  <2> HIDE DEF V, b, c
  <2>5. Fine([V EXCEPT ![j] = [V[j] EXCEPT !.vote = i]])
    BY <1>1, <1>5, <1>7, <2>2, FineBallot
  <2>6. Fine(B)
    BY <1>7, <2>5 DEF b
  <2>7. /\ B = [x \in Server |-> B[x]] /\ B[j] = b /\ B[i] = n
        /\ \A x \in Server : x # j => B[x] = N[x]
    <3>1. /\ B = [x \in Server |-> B[x]] /\ B[j] = b
          /\ \A x \in Server : x # j => B[x] = V[x]
      BY <1>7, Twice
    <3> HIDE DEF B
    <3> QED
      BY <1>4, <1>7, <3>1
  <2>8. Fine([B EXCEPT ![i] = [B[i] EXCEPT !.granted = @ \cup {j}]])
    <3> HIDE DEF B
    <3> QED
      BY <1>1, <2>3, <2>6, <2>7, FineCount
  <2>9. Fine(C)
    BY <2>7, <2>8 DEF c
  <2>10. [B EXCEPT ![j] = b] = B
    BY <2>7, Twice
  <2>11. /\ C[i] = c /\ [C EXCEPT ![i] = o] = [B EXCEPT ![i] = o]
    <3> HIDE DEF B, o
    <3> QED
      BY <2>7, Twice
  <2>12. B = [N EXCEPT ![j] = b]
    BY <1>3, Twice DEF V, B
  <2>13. node' = [B EXCEPT ![i] = o]
    BY <1>3, <2>1, <2>12
  <2>14. /\ node'[i] = o /\ \A x \in Server : x # i => node'[x] = B[x]
    <3> HIDE DEF B, o
    <3> QED
      BY <2>7, <2>13, Twice
  <2>15. EarlierApplied(C[i]) /\ EarlierApplied(Tally(i, C[i]))
    <3>1. EarlierApplied(o) /\ EarlierApplied(n)
      BY <1>2, <1>6, <2>14 DEF InTurn
    <3>2. EarlierApplied(c)
      BY <1>1, <2>4, <3>1 DEF EarlierApplied
    <3> QED
      BY <2>11, <3>1, <3>2
  <2> HIDE DEF C
  <2>16. Fine([C EXCEPT ![i] = Tally(i, C[i])])
    BY <2>4, <2>9, <2>11, <2>15, FineTally
  <2>17. Fine(node')
    BY <2>11, <2>13, <2>16
  <2>18. OwnVote(i, o) /\ OwnVote(j, b)
    <3>1. OwnVote(i, o)
      BY <2>4, TallyOwn
    <3>2. OwnVote(j, b)
      BY <1>5, <2>3 DEF OwnVote
    <3> QED
      BY <3>1, <3>2
  <2> HIDE DEF B, o
  <2>19. \A x \in Server : OwnVote(x, node'[x])
    BY <1>2, <2>7, <2>14, <2>18
  <2> QED
    BY <1>6, <2>17, <2>19 DEF SafetyInv
<1> QED
  BY <1>8, <1>9

-----------------------------------------------------------------------------
(***************************************************************************)
(* Replication.                                                            *)
(***************************************************************************)
\* The comparison of logs that the code makes
LEMMA HasSubSeq ==
    ASSUME NEW a \in Log, NEW b \in Log, NEW k \in 0..Len(b)
    PROVE  Len(a) >= k /\ SubSeq(a, 1, k) = SubSeq(b, 1, k) <=> Has(a, b, k)
<1>1. Len(a) \in Nat /\ Len(b) \in Nat /\ k \in Nat /\ k =< Len(b)
  BY DEF Log
<1>2. ASSUME k =< Len(a)
      PROVE  SubSeq(a, 1, k) = SubSeq(b, 1, k) <=> \A x \in 1..k : a[x] = b[x]
  <2>1. /\ SubSeq(a, 1, k) = [x \in 1..k |-> a[x]] /\ SubSeq(b, 1, k) = [x \in 1..k |-> b[x]]
    BY <1>1, <1>2 DEF Log
  <2> QED
    BY <2>1
<1> QED
  BY <1>1, <1>2 DEF Has

\* A part of a log agrees with the log.
LEMMA HasPart ==
    ASSUME NEW b \in Log, NEW k \in 0..Len(b)
    PROVE  Has(SubSeq(b, 1, k), b, k)
<1>1. Len(b) \in Nat /\ k \in Nat /\ k =< Len(b)
  BY DEF Log
<1>2. Len(SubSeq(b, 1, k)) = k /\ \A x \in 1..k : SubSeq(b, 1, k)[x] = b[x]
  BY <1>1 DEF Log
<1> QED
  BY <1>1, <1>2 DEF Has

\* A leader brings a node up to date
LEMMA FineReplicate ==
    ASSUME SafetyInv, NEW i \in Server, NEW j \in Server, NEW k, Replicate(i, j, k), ChangesInv'
    PROVE  SafetyInv'
<1> DEFINE N == node
           n == N[i]
           f == N[j].role # "Follower" \/ N[j].term < n.term
           v == IF f THEN BecomeFollower(N[j], n.term, i) ELSE [N[j] EXCEPT !.lead = i]
           has == Len(v.log) >= k /\ SubSeq(v.log, 1, k) = SubSeq(n.log, 1, k)
           part == SubSeq(n.log, 1, k)
           w == IF has THEN v ELSE [v EXCEPT !.log = part]
           com == Max({v.commit, Min({n.commit, k})})
           u == [w EXCEPT !.commit = com]
           m == [n EXCEPT !.match[j] = k]
           o == MaybeCommit(m)
           V == [N EXCEPT ![j] = v]
           W == [V EXCEPT ![j] = w]
           U == [W EXCEPT ![j] = u]
           M == [U EXCEPT ![i] = m]
<1>1. /\ n.role = "Leader" /\ i # j /\ N[j].term =< n.term /\ k \in n.match[j] .. Len(n.log)
      /\ node' = [N EXCEPT ![j] = [v EXCEPT !.log = IF has THEN @ ELSE part,
                                            !.commit = Max({@, Min({n.commit, k})})],
                           ![i] = o]
  BY DEF Replicate
<1>2. Fine(N) /\ InTurn(n) /\ \A x \in Server : OwnVote(x, N[x])
  BY DEF SafetyInv, ChangesInv
<1>3. /\ N = [x \in Server |-> N[x]] /\ n \in NodeState /\ N[j] \in NodeState
      /\ n.term \in Nat /\ N[j].term \in Nat
  BY <1>2, FineNode DEF NodeState
<1>4. /\ n.match[j] \in Nat /\ n.commit \in Nat /\ n.log \in Log /\ Len(n.log) \in Nat
  BY <1>3 DEF NodeState, Log
<1>5. k \in 0..Len(n.log) /\ k \in Nat
  BY <1>1, <1>4
<1>6. Fine(V) /\ v.term = n.term /\ v \in NodeState /\ v.role = "Follower"
  <2>1. CASE f
    <3>1. v = BecomeFollower(N[j], n.term, i)
      BY <2>1
    <3>2. LET r == Reset(N[j], n.term) IN r \in NodeState /\ r.term = n.term
      BY <1>3, ResetType
    <3> HIDE DEF n, N, v
    <3>3. v \in NodeState /\ v.term = n.term /\ v.role = "Follower"
      BY <3>1, <3>2 DEF BecomeFollower, NodeState
    <3>4. n.term >= N[j].term
      BY <1>1, <1>3
    <3> QED
      BY <1>2, <1>3, <3>1, <3>3, <3>4, FineRest
  <2>2. CASE ~f
    <3>1. v = [N[j] EXCEPT !.lead = i]
      BY <2>2
    <3>2. N[j].role = "Follower" /\ N[j].term = n.term
      BY <1>1, <1>3, <2>2
    <3> DEFINE y == N[j]
    <3> HIDE DEF n, N, v, y
    <3>3. y \in NodeState /\ y.pendingConfIndex \in Nat /\ y.uncommittedSize \in Nat
      BY <1>3 DEF NodeState, y
    <3>4. v = [y EXCEPT !.lead = i, !.pendingConfIndex = y.pendingConfIndex,
                        !.uncommittedSize = y.uncommittedSize]
      BY <3>1, <3>3 DEF NodeState, y
    <3>5. Fine(V)
      BY <1>2, <3>3, <3>4, FineOther DEF y
    <3>6. v \in NodeState /\ v.term = y.term /\ v.role = y.role
      BY <3>1, <3>3 DEF NodeState, y
    <3> QED
      BY <3>2, <3>5, <3>6 DEF y
  <2> QED
    BY <2>1, <2>2
<1>7. ChangesInv' /\ \A x \in Server : InTurn(node'[x])
  BY DEF ChangesInv
<1> HIDE DEF N, n, v
<1>8. /\ V = [x \in Server |-> V[x]] /\ V[j] = v /\ V[i] = n
      /\ \A x \in Server : x # j => V[x] = N[x]
  BY <1>1, <1>3, Twice DEF n
<1>9. v.log \in Log /\ v.commit \in Nat
  BY <1>6 DEF NodeState, Log
<1> HIDE DEF V
<1>10. has <=> Has(v.log, n.log, k)
  BY <1>4, <1>5, <1>9, HasSubSeq
<1>11. /\ Fine(W) /\ w \in NodeState /\ w.role = "Follower" /\ w.term = n.term
       /\ w.commit = v.commit /\ Has(w.log, n.log, k)
  <2>1. CASE has
    <3>1. w = v
      BY <2>1
    <3> HIDE DEF w
    <3>2. W = V
      BY <1>8, <3>1, Twice
    <3> HIDE DEF has, W
    <3> QED
      BY <1>6, <1>10, <2>1, <3>1, <3>2
  <2>2. CASE ~has
    <3>1. w = [v EXCEPT !.log = part]
      BY <2>2
    <3>2. Has(part, n.log, k) /\ part \in Log
      <4>1. Has(part, n.log, k)
        BY <1>4, <1>5, HasPart
      <4>2. part \in Log
        BY <1>4, <1>5 DEF Log
      <4> QED
        BY <4>1, <4>2
    <3>3. ~Has(v.log, n.log, k)
      BY <1>10, <2>2
    <3> HIDE DEF has, w
    <3>4. Fine([V EXCEPT ![j] = [V[j] EXCEPT !.log = SubSeq(V[i].log, 1, k)]])
      BY <1>1, <1>5, <1>6, <1>8, <3>3, FineTake
    <3>5. Fine(W)
      BY <1>8, <3>1, <3>4
    <3> HIDE DEF part, W
    <3>6. /\ w \in NodeState /\ w.role = v.role /\ w.term = v.term /\ w.log = part
          /\ w.commit = v.commit
      BY <1>6, <3>1, <3>2 DEF NodeState, Log
    <3> QED
      BY <1>6, <3>2, <3>5, <3>6
  <2> QED
    BY <2>1, <2>2
<1>12. u = [v EXCEPT !.log = IF has THEN @ ELSE part, !.commit = Max({@, Min({n.commit, k})})]
  <2>1. w = [v EXCEPT !.log = IF has THEN @ ELSE part]
    <3>1. CASE has
      <4>1. w = v
        BY <3>1
      <4>2. [v EXCEPT !.log = IF has THEN @ ELSE part] = [v EXCEPT !.log = v.log]
        BY <3>1
      <4> HIDE DEF w, has
      <4> QED
        BY <1>6, <4>1, <4>2 DEF NodeState
    <3>2. CASE ~has
      BY <3>2
    <3> QED
      BY <3>1, <3>2
  <2>2. [v EXCEPT !.log = IF has THEN @ ELSE part, !.commit = Max({@, Min({n.commit, k})})]
        = [[v EXCEPT !.log = IF has THEN @ ELSE part] EXCEPT !.commit = com]
    <3> DEFINE z == IF has THEN v.log ELSE part
    <3> HIDE DEF z, has, part
    <3>1. [v EXCEPT !.log = z, !.commit = com] = [[v EXCEPT !.log = z] EXCEPT !.commit = com]
      <4> HIDE DEF com
      <4> QED
        BY <1>6 DEF NodeState
    <3> QED
      BY <3>1 DEF z
  <2> HIDE DEF w, has, part, com
  <2> QED
    BY <2>1, <2>2
<1>13. node' = [N EXCEPT ![j] = u, ![i] = o]
  BY <1>1, <1>12
<1> HIDE DEF w, has, part
<1>14. /\ W = [x \in Server |-> W[x]] /\ W[j] = w /\ W[i] = n
       /\ \A x \in Server : x # j => W[x] = N[x]
  BY <1>1, <1>8, Twice
<1>15. com \in Nat /\ com >= w.commit /\ (com = w.commit \/ (com =< n.commit /\ com =< k))
  <2> DEFINE low == Min({n.commit, k})
  <2>1. low \in Nat /\ low =< n.commit /\ low =< k
    <3>1. low = IF n.commit <= k THEN n.commit ELSE k
      BY <1>4, <1>5, MinPair
    <3> HIDE DEF low
    <3> QED
      BY <1>4, <1>5, <3>1
  <2>2. com = Max({v.commit, low})
    OBVIOUS
  <2> HIDE DEF low
  <2>3. com \in {v.commit, low} /\ com >= v.commit
    <3>1. com = IF v.commit >= low THEN v.commit ELSE low
      BY <1>9, <2>1, <2>2, MaxPair
    <3> HIDE DEF com
    <3> QED
      BY <1>9, <2>1, <3>1
  <2> HIDE DEF com
  <2> QED
    BY <1>9, <1>11, <2>1, <2>3
<1> HIDE DEF com, W
<1>16. Fine([W EXCEPT ![j] = [W[j] EXCEPT !.commit = com]])
  BY <1>1, <1>5, <1>11, <1>14, <1>15, FineLearn
<1>17. Fine(U)
  BY <1>14, <1>16
<1>18. u \in NodeState /\ u.role = "Follower" /\ u.term = n.term /\ u.log = w.log
  BY <1>11, <1>15 DEF NodeState
<1> HIDE DEF u
<1>19. /\ U = [x \in Server |-> U[x]] /\ U[j] = u /\ U[i] = n
       /\ \A x \in Server : x # j => U[x] = N[x]
  BY <1>1, <1>14, Twice
<1>20. U = [N EXCEPT ![j] = u]
  BY <1>3, <1>8, <1>14, Twice DEF U, W, V
<1> HIDE DEF U
<1>21. Fine([U EXCEPT ![i] = [U[i] EXCEPT !.match[j] = k]])
  BY <1>1, <1>5, <1>11, <1>17, <1>18, <1>19, FineMatch
<1>22. Fine(M)
  BY <1>19, <1>21
<1>23. m \in NodeState /\ m.role = n.role /\ m.log = n.log /\ m.applied = n.applied
  BY <1>3, <1>5 DEF NodeState
<1> HIDE DEF m
<1>24. M[i] = m /\ [M EXCEPT ![i] = o] = [U EXCEPT ![i] = o]
  <2> HIDE DEF o
  <2> QED
    BY <1>19, Twice
<1>25. EarlierApplied(m)
  BY <1>2, <1>23 DEF EarlierApplied, InTurn
<1> HIDE DEF M
<1>26. Fine([M EXCEPT ![i] = MaybeCommit(M[i])])
  BY <1>22, <1>24, <1>25, FineCommit
<1>27. node' = [U EXCEPT ![i] = o]
  BY <1>13, <1>20
<1>28. Fine(node')
  BY <1>24, <1>26, <1>27
<1>29. o.role = "Leader"
  BY <1>1, <1>23, MaybeCommitSame
<1> HIDE DEF o
<1>30. \A x \in Server : OwnVote(x, node'[x])
  BY <1>2, <1>18, <1>19, <1>27, <1>29 DEF OwnVote
<1> QED
  BY <1>7, <1>28, <1>30 DEF SafetyInv

-----------------------------------------------------------------------------
(***************************************************************************)
(* Entries that are applied: each is two small steps, the configuration    *)
(* with the number of applied entries, and what more may then be           *)
(* committed.                                                              *)
(***************************************************************************)
\* maybeCommit does not look at what is applied
LEMMA CommitApart ==
    ASSUME NEW n \in NodeState, NEW a \in Nat
    PROVE  [MaybeCommit(n) EXCEPT !.applied = a] = MaybeCommit([n EXCEPT !.applied = a])
<1> DEFINE agreed == {k \in n.commit + 1 .. Len(n.log) :
                        /\ n.log[k].term = n.term
                        /\ IsQuorum({j \in Server : n.match[j] >= k}, n.conf)}
           p == [n EXCEPT !.applied = a]
           c == Max(agreed)
<1>1. /\ p.role = n.role /\ p.log = n.log /\ p.term = n.term /\ p.commit = n.commit
      /\ p.match = n.match /\ p.conf = n.conf
  BY DEF NodeState
<1>2. MaybeCommit(n) = IF n.role = "Leader" /\ agreed # {} THEN [n EXCEPT !.commit = c] ELSE n
  BY DEF MaybeCommit
<1>3. MaybeCommit(p) = IF n.role = "Leader" /\ agreed # {} THEN [p EXCEPT !.commit = c] ELSE p
  <2> HIDE DEF p
  <2> QED
    BY <1>1 DEF MaybeCommit
<1> HIDE DEF c
<1>4. [[n EXCEPT !.commit = c] EXCEPT !.applied = a] = [p EXCEPT !.commit = c]
  BY DEF NodeState
<1> HIDE DEF agreed
<1>5. CASE n.role = "Leader" /\ agreed # {}
  BY <1>2, <1>3, <1>4, <1>5
<1>6. CASE ~(n.role = "Leader" /\ agreed # {})
  BY <1>2, <1>3, <1>6
<1> QED
  BY <1>5, <1>6

\* What a node keeps while it applies entries
Same(n, s) ==
    /\ s \in NodeState /\ s.role = n.role /\ s.term = n.term /\ s.log = n.log
    /\ s.granted = n.granted /\ s.pendingConfIndex = n.pendingConfIndex
    /\ s.uncommittedSize = n.uncommittedSize /\ s.commit >= n.commit

\* One entry: the configuration changes with the number of those that are applied, and
\* then a leader may find more committed
LEMMA FineEntry ==
    ASSUME NEW N, N = [x \in Server |-> N[x]], NEW i \in Server, NEW s, NEW y \in Nat,
           Fine([N EXCEPT ![i] = [s EXCEPT !.applied = y]]), s \in NodeState, y < s.commit,
           EarlierApplied([s EXCEPT !.applied = y]),
           NEW t, t = IF IsChange(s.log[y + 1].change)
                      THEN SwitchToConfig(i, s, Changed(s.conf, s.log[y + 1].change))
                      ELSE s
    PROVE  Fine([N EXCEPT ![i] = [t EXCEPT !.applied = y + 1]]) /\ Same(s, t)
<1> DEFINE ch == s.log[y + 1].change
           conf == Changed(s.conf, ch)
           o == [s EXCEPT !.applied = y]
           O == [N EXCEPT ![i] = o]
           a == y + 1
<1>1. s.commit \in Nat /\ a \in Nat
  BY DEF NodeState
<1>2. Same(s, s)
  BY <1>1 DEF Same
<1>3. /\ o \in NodeState /\ o.role = s.role /\ o.log = s.log /\ o.commit = s.commit
      /\ o.applied = y /\ o.conf = s.conf /\ o.match = s.match
  BY DEF NodeState
<1> HIDE DEF o
<1>4. O[i] = o /\ Fine(O) /\ O = [x \in Server |-> O[x]]
  BY Twice DEF o
<1> HIDE DEF O
<1>5. ASSUME NEW m \in [Server -> Nat], \A j \in Server : m[j] =< s.match[j]
      PROVE  LET p == [s EXCEPT !.conf = conf, !.match = m]
             IN  /\ Fine([N EXCEPT ![i] = [p EXCEPT !.applied = a]]) /\ Same(s, p)
                 /\ EarlierApplied([p EXCEPT !.applied = a])
  <2> DEFINE p == [s EXCEPT !.conf = conf, !.match = m]
             q == [p EXCEPT !.applied = a]
             r == [o EXCEPT !.conf = Changed(@, o.log[o.applied + 1].change),
                            !.applied = @ + 1, !.match = m]
  <2>1. Fine([O EXCEPT ![i] = [O[i] EXCEPT !.conf = Changed(@, O[i].log[O[i].applied + 1].change),
                                           !.applied = @ + 1, !.match = m]])
    <3>1. O[i].applied < O[i].commit /\ \A j \in Server : m[j] =< O[i].match[j]
      BY <1>3, <1>4, <1>5
    <3> QED
      BY <1>4, <3>1, FineApplied
  <2>2. r = [o EXCEPT !.conf = conf, !.applied = a, !.match = m]
    BY <1>3
  <2>3. Fine([O EXCEPT ![i] = r])
    BY <1>4, <2>1
  <2>4. conf \in Config
    <3>1. Fine(O) /\ y + 1 \in 1..Len(s.log) /\ s.log \in Log
      <4>1. o.commit =< Len(o.log)
        BY <1>4, FineNode
      <4>2. s.log \in Log /\ Len(s.log) \in Nat
        BY DEF NodeState, Log
      <4> QED
        BY <1>1, <1>3, <1>4, <4>1, <4>2
    <3>2. ch \in Change
      BY <3>1, EntryType
    <3>3. s.conf \in Config
      BY DEF NodeState
    <3> HIDE DEF ch
    <3> QED
      BY <3>2, <3>3, ChangedType
  <2> HIDE DEF conf
  <2>5. /\ p \in NodeState /\ p.role = s.role /\ p.term = s.term /\ p.log = s.log
        /\ p.granted = s.granted /\ p.pendingConfIndex = s.pendingConfIndex
        /\ p.uncommittedSize = s.uncommittedSize /\ p.commit = s.commit
    BY <2>4 DEF NodeState
  <2>6. Same(s, p)
    <3> HIDE DEF p
    <3> QED
      BY <1>1, <2>5 DEF Same
  <2>7. r = q
    BY <2>2 DEF o, NodeState
  <2>8. q.role = s.role /\ q.log = s.log /\ q.applied = a
    <3> HIDE DEF p
    <3> QED
      BY <2>5 DEF NodeState
  <2> HIDE DEF p, q, r
  <2>9. [O EXCEPT ![i] = r] = [N EXCEPT ![i] = r]
    BY Twice DEF O
  <2>10. Fine([N EXCEPT ![i] = q])
    BY <2>3, <2>7, <2>9
  <2>11. EarlierApplied(q)
    <3>1. \A k \in ChangesIn(s.log) : k \in Nat
      BY DEF ChangesIn
    <3>2. \A k \in ChangesIn(s.log) : k =< y => k =< a
      BY <1>1, <3>1
    <3> QED
      BY <1>3, <2>8, <3>2 DEF EarlierApplied, o
  <2> QED
    BY <2>6, <2>10, <2>11 DEF p, q
<1>6. CASE ~IsChange(ch)
  <2>1. t = s
    BY <1>6
  <2>2. conf = s.conf
    BY <1>6 DEF Changed, IsChange
  <2>3. s.match \in [Server -> Nat] /\ \A j \in Server : s.match[j] =< s.match[j]
    BY DEF NodeState
  <2>4. Fine([N EXCEPT ![i] = [[s EXCEPT !.conf = conf, !.match = s.match] EXCEPT !.applied = a]])
    BY <1>5, <2>3
  <2> HIDE DEF conf
  <2>5. [s EXCEPT !.conf = conf, !.match = s.match] = s
    BY <2>2 DEF NodeState
  <2> QED
    BY <1>2, <2>1, <2>4, <2>5
<1>7. CASE IsChange(ch)
  <2> DEFINE m == [j \in Server |-> IF j \in Members(s.conf) \cap Members(conf)
                                    THEN s.match[j] ELSE 0]
             p == [s EXCEPT !.conf = conf, !.match = m]
             q == [p EXCEPT !.applied = a]
             Q == [N EXCEPT ![i] = q]
  <2>1. t = IF i \in Members(conf) THEN MaybeCommit(p) ELSE p
    <3>1. t = SwitchToConfig(i, s, conf)
      BY <1>7
    <3>2. SwitchToConfig(i, s, conf) =
            LET z == [s EXCEPT !.conf = conf,
                               !.match = [j \in Server |-> IF j \in Members(s.conf) \cap Members(conf)
                                                           THEN s.match[j] ELSE 0]]
            IN  IF i \in Members(conf) THEN MaybeCommit(z) ELSE z
      BY DEF SwitchToConfig
    <3> QED
      BY <3>1, <3>2
  <2>2. m \in [Server -> Nat] /\ \A j \in Server : m[j] =< s.match[j]
    <3>1. s.match \in [Server -> Nat]
      BY DEF NodeState
    <3>2. \A j \in Server : s.match[j] \in Nat
      BY <3>1
    <3> QED
      BY <3>2
  <2> HIDE DEF m
  <2>3. Fine(Q) /\ Same(s, p) /\ EarlierApplied(q)
    BY <1>5, <2>2
  <2> HIDE DEF p, conf
  <2>4. p \in NodeState
    BY <2>3 DEF Same
  <2>5. CASE i \notin Members(conf)
    BY <2>1, <2>3, <2>5
  <2>6. CASE i \in Members(conf)
    <3>1. t = MaybeCommit(p)
      BY <2>1, <2>6
    <3>2. [t EXCEPT !.applied = a] = MaybeCommit(q)
      BY <1>1, <2>4, <3>1, CommitApart
    <3> HIDE DEF q
    <3>3. Q[i] = q /\ [Q EXCEPT ![i] = MaybeCommit(q)] = [N EXCEPT ![i] = MaybeCommit(q)]
      BY Twice
    <3> HIDE DEF Q
    <3>4. Fine([Q EXCEPT ![i] = MaybeCommit(Q[i])])
      BY <2>3, <3>3, FineCommit
    <3>5. Fine([N EXCEPT ![i] = [t EXCEPT !.applied = a]])
      BY <3>2, <3>3, <3>4
    <3>6. Same(s, t)
      <4>1. /\ t.role = p.role /\ t.term = p.term /\ t.log = p.log /\ t.granted = p.granted
            /\ t.pendingConfIndex = p.pendingConfIndex /\ t.uncommittedSize = p.uncommittedSize
        BY <2>4, <3>1, MaybeCommitSame
      <4>2. t \in NodeState
        <5>1. [t EXCEPT !.applied = a] \in NodeState
          <6>1. [N EXCEPT ![i] = MaybeCommit(q)][i] = MaybeCommit(q)
            BY Twice
          <6>2. Fine([N EXCEPT ![i] = MaybeCommit(q)])
            BY <3>3, <3>4
          <6>3. MaybeCommit(q) \in NodeState
            BY <6>1, <6>2, FineNode
          <6> QED
            BY <3>2, <6>3
        <5>2. t = p \/ \E c : t = [p EXCEPT !.commit = c]
          BY <3>1 DEF MaybeCommit
        <5>3. ASSUME NEW c, t = [p EXCEPT !.commit = c] PROVE t \in NodeState
          <6>1. [t EXCEPT !.applied = a].commit = c
            BY <2>4, <5>3 DEF NodeState
          <6>2. c \in Nat
            BY <5>1, <6>1 DEF NodeState
          <6> QED
            BY <2>4, <5>3, <6>2 DEF NodeState
        <5> QED
          BY <2>4, <5>2, <5>3
      <4>3. t.commit >= p.commit
        BY <2>4, <3>1, ShapedNode, MaybeCommitKeeps DEF Keeps
      <4>4. t.commit \in Nat /\ p.commit \in Nat /\ s.commit \in Nat
        BY <2>4, <4>2 DEF NodeState
      <4> QED
        BY <2>3, <4>1, <4>2, <4>3, <4>4 DEF Same
    <3> QED
      BY <3>5, <3>6
  <2> QED
    BY <2>5, <2>6
<1> QED
  BY <1>6, <1>7

\* What is kept twice is kept.
LEMMA SameTrans ==
    ASSUME NEW n \in NodeState, NEW s, NEW t, Same(n, s), Same(s, t)
    PROVE  Same(n, t)
<1>1. n.commit \in Nat /\ s.commit \in Nat /\ t.commit \in Nat
  BY DEF Same, NodeState
<1> QED
  BY <1>1 DEF Same

\* Any number of entries, one by one
LEMMA FineEntries ==
    ASSUME NEW N, Fine(N), NEW i \in Server, EarlierApplied(N[i]),
           NEW k \in Nat, N[i].applied =< k, k =< N[i].commit
    PROVE  LET s == ApplyEntries(i, N[i], k)
           IN  Fine([N EXCEPT ![i] = [s EXCEPT !.applied = k]]) /\ Same(N[i], s)
<1> DEFINE n == N[i]
           a == n.applied
           S(y) == ApplyEntries(i, n, y)
           Ok(y) == Fine([N EXCEPT ![i] = [S(y) EXCEPT !.applied = y]]) /\ Same(n, S(y))
           M == {y \in Nat : a + y =< k => Ok(a + y)}
<1>1. /\ N = [x \in Server |-> N[x]] /\ n \in NodeState /\ a \in Nat /\ n.commit \in Nat
      /\ a =< k /\ k =< n.commit
  BY FineNode DEF NodeState
<1>2. /\ S(a) = n
      /\ \A x \in Nat : x > a =>
           S(x) = IF IsChange(n.log[x].change)
                  THEN SwitchToConfig(i, S(x - 1), Changed(S(x - 1).conf, n.log[x].change))
                  ELSE S(x - 1)
  BY <1>1, ApplyEntriesDef
<1>3. 0 \in M
  <2>1. [n EXCEPT !.applied = a] = n /\ Same(n, n)
    BY <1>1 DEF Same, NodeState
  <2>2. [N EXCEPT ![i] = n] = N
    BY <1>1, Twice
  <2>3. a + 0 = a
    BY <1>1
  <2> HIDE DEF n, a, S
  <2>4. Ok(a)
    BY <1>2, <2>1, <2>2
  <2> HIDE DEF Ok
  <2> QED
    BY <2>3, <2>4
<1> HIDE DEF S
<1>4. ASSUME NEW y \in M PROVE y + 1 \in M
  <2> DEFINE x == a + y
             s == S(x)
             t == S(x + 1)
  <2>1. y \in Nat /\ x \in Nat /\ x >= a /\ x + 1 = a + (y + 1) /\ x + 1 > a /\ (x + 1) - 1 = x
        /\ x + 1 \in Nat
    BY <1>1
  <2>2. ASSUME x + 1 =< k PROVE Ok(x + 1)
    <3>1. x =< k /\ x < n.commit
      BY <1>1, <2>1, <2>2
    <3>2. Ok(x)
      BY <2>1, <3>1
    <3>3. Fine([N EXCEPT ![i] = [s EXCEPT !.applied = x]]) /\ Same(n, s)
      BY <3>2
    <3>4. t = IF IsChange(n.log[x + 1].change)
              THEN SwitchToConfig(i, s, Changed(s.conf, n.log[x + 1].change)) ELSE s
      BY <1>2, <2>1
    <3> HIDE DEF s, t, x
    <3>5. s \in NodeState /\ s.log = n.log /\ s.role = n.role /\ s.commit >= n.commit
      BY <3>3 DEF Same
    <3>6. x < s.commit
      <4>1. s.commit \in Nat
        BY <3>5 DEF NodeState
      <4> QED
        BY <1>1, <2>1, <3>1, <3>5, <4>1
    <3>7. EarlierApplied([s EXCEPT !.applied = x])
      <4>1. /\ [s EXCEPT !.applied = x].role = n.role /\ [s EXCEPT !.applied = x].log = n.log
            /\ [s EXCEPT !.applied = x].applied = x
        BY <3>5 DEF NodeState
      <4>2. \A l \in ChangesIn(n.log) : l \in Nat
        BY DEF ChangesIn
      <4>3. \A l \in ChangesIn(n.log) : l =< a => l =< x
        BY <1>1, <2>1, <4>2
      <4> HIDE DEF n
      <4> QED
        BY <4>1, <4>3 DEF EarlierApplied, n
    <3>8. t = IF IsChange(s.log[x + 1].change)
              THEN SwitchToConfig(i, s, Changed(s.conf, s.log[x + 1].change)) ELSE s
      BY <3>4, <3>5
    <3>9. Fine([N EXCEPT ![i] = [t EXCEPT !.applied = x + 1]]) /\ Same(s, t)
      BY <1>1, <2>1, <3>3, <3>5, <3>6, <3>7, <3>8, FineEntry
    <3>10. Same(n, t)
      BY <1>1, <3>3, <3>9, SameTrans
    <3> QED
      BY <3>9, <3>10 DEF t
  <2> HIDE DEF Ok, x
  <2> QED
    BY <2>1, <2>2
<1>5. M \in SUBSET Nat
  OBVIOUS
<1>6. k - a \in Nat /\ a + (k - a) = k
  BY <1>1
<1>7. k - a \in M
  <2> HIDE DEF M, a
  <2> QED
    BY <1>3, <1>4, <1>5, <1>6, AllNumbers
<1>8. Ok(k)
  <2> HIDE DEF Ok, a
  <2> QED
    BY <1>1, <1>6, <1>7
<1> QED
  BY <1>8 DEF S

\* The payload of a stretch of a log is a number.
LEMMA PayloadNat ==
    ASSUME NEW log, NEW a \in Nat, NEW b \in Nat
    PROVE  Payload(log, a, b) \in Nat
<1>1. IsFiniteSet(a + 1 .. b)
  BY FS_Interval
<1> DEFINE S == {k \in a + 1 .. b : PayloadSize(log[k].change) = 1}
<1>2. S \in SUBSET (a + 1 .. b)
  OBVIOUS
<1> HIDE DEF S
<1>3. Cardinality(S) \in Nat
  BY <1>1, <1>2, FS_Subset, FS_CardinalityType
<1> QED
  BY <1>3 DEF Payload, S

\* Entries are applied, and the node is told so
LEMMA FineTold ==
    ASSUME SafetyInv, NEW i \in Server, NEW k, NEW handsOver, Apply(i, k, handsOver)
    PROVE  LET told == AppliedTo(i, ApplyEntries(i, node[i], k), k, handsOver)
           IN  /\ Fine([node EXCEPT ![i] = told]) /\ told \in NodeState /\ OwnVote(i, told)
               /\ told.applied = k
<1> DEFINE N == node
           n == N[i]
           s == ApplyEntries(i, n, k)
           a == [s EXCEPT !.applied = k]
           A == [N EXCEPT ![i] = a]
           told == AppliedTo(i, s, k, handsOver)
           T == [N EXCEPT ![i] = told]
<1>1. k \in n.applied + 1 .. n.commit
  BY DEF Apply
<1>2. Fine(N) /\ InTurn(n) /\ EarlierApplied(n) /\ Noted(n) /\ \A x \in Server : OwnVote(x, N[x])
  BY DEF SafetyInv, ChangesInv, InTurn
<1>3. /\ N = [x \in Server |-> N[x]] /\ n \in NodeState /\ n.applied \in Nat /\ n.commit \in Nat
  BY <1>2, FineNode DEF NodeState
<1>4. k \in Nat /\ n.applied =< k /\ k =< n.commit
  BY <1>1, <1>3
<1>5. Fine(A) /\ Same(n, s)
  BY <1>2, <1>4, FineEntries
<1>6. InTurn(a)
  BY <1>1, <1>2, AppliedInTurn
<1>7. told = a \/ (a.role = "Leader" /\ told = StepProp(i, a, Plain("leave")))
  BY DEF AppliedTo
<1> HIDE DEF n, s
<1>8. a \in NodeState /\ a.role = n.role /\ a.granted = n.granted /\ a.applied = k
  BY <1>4, <1>5 DEF Same, NodeState
<1> HIDE DEF a, told, N
<1>9. A[i] = a /\ A = [x \in Server |-> A[x]]
  BY <1>3, Twice DEF n
<1>10. Fine(T) /\ OwnVote(i, told) /\ told.applied = k
  <2>1. OwnVote(i, a)
    <3>1. OwnVote(i, n)
      BY <1>2 DEF n
    <3> QED
      BY <1>8, <3>1 DEF OwnVote
  <2>2. CASE told = a
    BY <1>5, <1>8, <2>1, <2>2
  <2>3. CASE a.role = "Leader" /\ told = StepProp(i, a, Plain("leave"))
    <3> DEFINE ch == Plain("leave")
    <3>1. ch \in Change /\ SmallStep(ch) /\ ch.kind = "leave"
      BY DEF Plain, Change, SmallStep
    <3>2. EarlierApplied(StepProp(i, a, ch)) /\ Noted(a) /\ Shaped(a)
      BY <1>6, <2>3, <3>1, StepPropInTurn DEF InTurn
    <3> HIDE DEF ch, A
    <3>3. Fine([A EXCEPT ![i] = StepProp(i, A[i], ch)])
      BY <1>5, <1>9, <2>3, <3>1, <3>2, FineProp
    <3>4. [A EXCEPT ![i] = told] = T
      BY <1>3, Twice DEF A, n
    <3>5. told.role = "Leader" /\ told.applied = k
      BY <1>8, <2>3, <3>1, <3>2, StillLeads DEF ch
    <3> QED
      BY <1>9, <2>3, <3>3, <3>4, <3>5 DEF OwnVote, ch
  <2> QED
    BY <1>7, <2>2, <2>3
<1>11. T[i] = told
  BY <1>3, Twice DEF n
<1>12. told \in NodeState
  BY <1>10, <1>11, FineNode
<1> QED
  BY <1>10, <1>12 DEF told, T, a, n, s, N

\* A Ready with committed entries
LEMMA FineApply ==
    ASSUME SafetyInv, NEW i \in Server, NEW k, NEW handsOver, Apply(i, k, handsOver), ChangesInv'
    PROVE  SafetyInv'
<1> DEFINE N == node
           n == N[i]
           told == AppliedTo(i, ApplyEntries(i, n, k), k, handsOver)
           T == [N EXCEPT ![i] = told]
           pay == Payload(n.log, n.applied, k)
           size == Reduced(told, pay)
           o == [told EXCEPT !.uncommittedSize = size]
<1>1. node' = [N EXCEPT ![i] = o] /\ k \in n.applied + 1 .. n.commit
  BY DEF Apply
<1>2. N = [x \in Server |-> N[x]] /\ \A x \in Server : OwnVote(x, N[x])
  BY FineNode DEF SafetyInv
<1>3. pay \in Nat
  <2>1. n.applied \in Nat /\ n.commit \in Nat
    BY FineNode DEF SafetyInv, NodeState
  <2> QED
    BY <1>1, <2>1, PayloadNat
<1>4. Fine(T) /\ told \in NodeState /\ OwnVote(i, told)
  BY FineTold
<1> HIDE DEF pay, told, n, N
<1>5. T[i] = told /\ T = [x \in Server |-> T[x]] /\ [T EXCEPT ![i] = o] = [N EXCEPT ![i] = o]
  <2> HIDE DEF o
  <2> QED
    BY <1>2, Twice DEF n
<1>6. told.lead \in Server \cup {None} /\ told.pendingConfIndex \in Nat /\ told.uncommittedSize \in Nat
  BY <1>4 DEF NodeState
<1>7. size \in Nat
  BY <1>3, <1>6 DEF Reduced
<1> HIDE DEF size, T
<1>8. o = [told EXCEPT !.lead = told.lead, !.pendingConfIndex = told.pendingConfIndex,
                       !.uncommittedSize = size]
  BY <1>4 DEF NodeState
<1>9. Fine([T EXCEPT ![i] = [T[i] EXCEPT !.lead = told.lead,
                !.pendingConfIndex = told.pendingConfIndex, !.uncommittedSize = size]])
  BY <1>4, <1>6, <1>7, FineOther
<1>10. Fine(node')
  BY <1>1, <1>5, <1>8, <1>9
<1>11. o.role = told.role /\ o.granted = told.granted
  BY <1>4 DEF NodeState
<1> HIDE DEF o
<1>12. \A x \in Server : OwnVote(x, node'[x])
  <2>1. node'[i] = o /\ \A x \in Server : x # i => node'[x] = N[x]
    BY <1>1, <1>2
  <2>2. OwnVote(i, o)
    BY <1>4, <1>11 DEF OwnVote
  <2> QED
    BY <1>2, <2>1, <2>2 DEF N
<1> QED
  BY <1>10, <1>12 DEF SafetyInv

-----------------------------------------------------------------------------
(***************************************************************************)
(* The invariant and what it implies.                                      *)
(***************************************************************************)
\* The empty history explains the beginning.
LEMMA FineInit == Init => Fine(node)
<1> SUFFICES ASSUME Init PROVE Fine(node)
  OBVIOUS
<1> DEFINE n == [role |-> "Follower", term |-> 0, vote |-> None, lead |-> None,
                 granted |-> {}, log |-> <<>>, commit |-> 0, applied |-> 0,
                 conf |-> [voters |-> Bootstrapped, outgoing |-> {}, auto |-> FALSE],
                 match |-> [j \in Server |-> 0], pendingConfIndex |-> 0,
                 uncommittedSize |-> 0]
           h == [log |-> [t \in Nat |-> <<>>], base |-> [t \in Nat |-> 0],
                 conf |-> [t \in Nat |-> 0], chief |-> [t \in Nat |-> None], led |-> {},
                 votes |-> {}, acks |-> {}]
<1>1. node = [i \in Server |-> n]
  BY DEF Init
<1>2. <<>> \in Log /\ Len(<<>>) = 0
  BY DEF Log
<1>3. n \in NodeState
  <2>1. /\ [voters |-> Bootstrapped, outgoing |-> {}, auto |-> FALSE] \in Config
        /\ [j \in Server |-> 0] \in [Server -> Nat]
    BY ReconfigurationAssumption DEF Config
  <2> QED
    BY <1>2, <2>1 DEF NodeState, Log
<1>4. h \in History
  BY <1>2 DEF History
<1>5. h.led = {} /\ h.votes = {} /\ h.acks = {}
  OBVIOUS
<1>6. /\ n.role = "Follower" /\ n.log = <<>> /\ n.commit = 0 /\ n.applied = 0
      /\ n.conf = Initially /\ n.vote = None /\ n.term = 0
  BY DEF Initially
<1> HIDE DEF n, h
<1>7. Reigns(h) /\ Elections(h)
  BY <1>5 DEF Reigns, Elections
<1>8. \A i \in Server : Local(h, i, n)
  <2> SUFFICES ASSUME NEW i \in Server PROVE Local(h, i, n)
    OBVIOUS
  <2>1. Holds(h, n)
    <3>1. Conf(<<>>, 0) = Initially
      BY ConfDef
    <3>2. Written(h, <<>>, 0)
      BY DEF Written
    <3> QED
      BY <1>2, <1>6, <3>1, <3>2 DEF Holds, Done
  <2>2. Ballots(h, i, n)
    BY <1>5, <1>6 DEF Ballots
  <2>3. Leads(h, i, n)
    BY <1>6 DEF Leads
  <2> QED
    BY <1>3, <2>1, <2>2, <2>3 DEF Local
<1>9. AcksHold(node, h) /\ VotesRespect(node, h)
  BY <1>5 DEF AcksHold, VotesRespect
<1>10. Good(node, h)
  BY <1>1, <1>4, <1>7, <1>8, <1>9 DEF Good
<1> QED
  BY <1>10 DEF Fine

\* The invariant holds in the beginning,
LEMMA SafetyInit == Init => SafetyInv
<1> SUFFICES ASSUME Init PROVE SafetyInv
  OBVIOUS
<1>1. \A i \in Server : OwnVote(i, node[i])
  BY DEF Init, OwnVote
<1> QED
  BY <1>1, ChangesInit, FineInit DEF SafetyInv

\* is kept by every action,
LEMMA SafetyStep == SafetyInv /\ [Next]_node => SafetyInv'
<1> SUFFICES ASSUME SafetyInv, [Next]_node PROVE SafetyInv'
  OBVIOUS
<1>1. ChangesInv'
  BY ChangesStep DEF SafetyInv
<1>2. CASE node' = node
  BY <1>2 DEF SafetyInv, ChangesInv
<1>3. CASE Next
  <2>1. PICK i \in Server :
          \/ Campaign(i)
          \/ \E j \in Server : Vote(i, j)
          \/ \E j \in Server : StepDown(i, j)
          \/ \E j \in Server : \E k \in 0 .. Len(node[i].log) : Replicate(i, j, k)
          \/ \E ch \in Changes \cup {Plain("normal")} : Propose(i, ch)
          \/ \E k \in 1 .. node[i].commit, handsOver \in BOOLEAN : Apply(i, k, handsOver)
    BY <1>3 DEF Next
  <2>2. CASE Campaign(i)
    BY <1>1, <2>2, FineCampaign
  <2>3. CASE \E j \in Server : Vote(i, j)
    BY <1>1, <2>3, FineVote
  <2>4. CASE \E j \in Server : StepDown(i, j)
    BY <1>1, <2>4, FineStepDown
  <2>5. CASE \E j \in Server : \E k \in 0 .. Len(node[i].log) : Replicate(i, j, k)
    BY <1>1, <2>5, FineReplicate
  <2>6. CASE \E ch \in Changes \cup {Plain("normal")} : Propose(i, ch)
    BY <1>1, <2>6, FinePropose
  <2>7. CASE \E k \in 1 .. node[i].commit, handsOver \in BOOLEAN : Apply(i, k, handsOver)
    BY <1>1, <2>7, FineApply
  <2> QED
    BY <2>1, <2>2, <2>3, <2>4, <2>5, <2>6, <2>7
<1> QED
  BY <1>2, <1>3

\* and so always holds.
LEMMA SafetyAlways == Spec => []SafetyInv
  BY SafetyInit, SafetyStep, PTL DEF Spec

\* The leader of a term is the one of the history.
LEMMA SafetyOneLeader == SafetyInv => OneLeaderPerTerm
<1> SUFFICES ASSUME SafetyInv PROVE OneLeaderPerTerm
  OBVIOUS
<1>1. PICK h : Good(node, h)
  BY DEF SafetyInv, Fine
<1>2. \A i \in Server : Leads(h, i, node[i])
  BY <1>1, GoodNode
<1> QED
  BY <1>2 DEF Leads, OneLeaderPerTerm

\* The change that a node applies next fits, as it did when a leader appended it.
LEMMA SafetyChangesFit == SafetyInv => ChangesFit
<1> SUFFICES ASSUME SafetyInv PROVE ChangesFit
  OBVIOUS
<1> SUFFICES ASSUME NEW i \in Server, NEW k \in node[i].applied + 1 .. node[i].commit
             PROVE  Fits(ConfAfter(node[i].conf, node[i].log, node[i].applied, k - 1),
                         node[i].log[k].change)
  BY DEF ChangesFit
<1> DEFINE n == node[i]
<1>1. /\ n \in NodeState /\ n.applied =< n.commit /\ n.commit =< Len(n.log)
      /\ n.conf = Conf(n.log, n.applied) /\ AllFit(n.log, Len(n.log))
  BY FineNode DEF SafetyInv
<1>2. n.applied \in Nat /\ n.commit \in Nat /\ Len(n.log) \in Nat
  BY <1>1 DEF NodeState
<1>3. k \in 1..Len(n.log) /\ k - 1 \in Nat /\ n.applied =< k - 1
  BY <1>1, <1>2
<1> HIDE DEF n
<1>4. ConfAfter(n.conf, n.log, n.applied, k - 1) = Conf(n.log, k - 1)
  BY <1>1, <1>2, <1>3, ConfFrom
<1>5. Fits(Conf(n.log, k - 1), n.log[k].change)
  BY <1>1, <1>3 DEF AllFit
<1> QED
  BY <1>4, <1>5 DEF n

\* What a node has committed is what the leader of every term since then has
LEMMA DoneIn ==
    ASSUME NEW N, NEW h, Good(N, h), NEW i \in Server, N[i].commit # 0
    PROVE  \E u, y \in Nat :
              /\ <<u, y>> \in Chosen(h) /\ u \in h.led /\ u =< N[i].term /\ N[i].commit =< y
              /\ h.log[u] \in Log /\ Has(N[i].log, h.log[u], N[i].commit)
              /\ \A t \in h.led : u =< t => h.log[t] \in Log /\ Has(h.log[t], h.log[u], y)
<1>1. /\ h \in History /\ Reigns(h) /\ Holds(h, N[i]) /\ LeadersHave(N, h)
  BY GoodNode, LeadersHold
<1>2. PICK u, y \in Nat :
        /\ <<u, y>> \in Chosen(h) /\ u =< N[i].term
        /\ N[i].commit =< y /\ Has(N[i].log, h.log[u], N[i].commit)
  BY <1>1 DEF Holds, Done
<1>3. u \in h.led /\ Own(h, u, y) /\ h.log[u] \in Log
  BY <1>1, <1>2, FirmOwn DEF Chosen
<1>4. <<u, y>> \in Firm(N, h)
  BY <1>1, <1>2, ChosenIsFirm
<1>5. ASSUME NEW t \in h.led, u =< t
      PROVE  h.log[t] \in Log /\ Has(h.log[t], h.log[u], y)
  <2>1. t \in Nat /\ h.log[t] \in Log
    BY <1>1, ReignLog
  <2>2. CASE t = u
    <3>1. y =< Len(h.log[u])
      <4>1. Len(h.log[u]) \in Nat /\ h.base[u] \in Nat
        BY <1>1, <1>3, ReignLog
      <4> QED
        BY <1>3, <4>1 DEF Own
    <3>2. Has(h.log[u], h.log[u], y)
      BY <1>3, <3>1, HasSelf
    <3> QED
      BY <2>1, <2>2, <3>2
  <2>3. CASE t # u
    <3>1. u < t
      BY <1>5, <2>1, <2>3
    <3> QED
      BY <1>1, <1>4, <2>1, <3>1 DEF LeadersHave
  <2> QED
    BY <2>2, <2>3
<1> QED
  BY <1>2, <1>3, <1>5

\* What is committed is chosen, and what is chosen is in the logs of all later leaders.
LEMMA SafetyCommitted == SafetyInv => CommittedForGood
<1> SUFFICES ASSUME SafetyInv, NEW i \in Server, NEW j \in Server
             PROVE  LET common == Min({node[i].commit, node[j].commit})
                    IN  /\ SubSeq(node[i].log, 1, common) = SubSeq(node[j].log, 1, common)
                        /\ node[j].role = "Leader" /\ node[j].term >= node[i].term =>
                             IsPrefix(SubSeq(node[i].log, 1, node[i].commit), node[j].log)
  BY DEF CommittedForGood
<1> DEFINE a == node[i].log
           b == node[j].log
           c == node[i].commit
           d == node[j].commit
           m == Min({c, d})
<1>1. PICK h : Good(node, h)
  BY DEF SafetyInv, Fine
<1>2. /\ a \in Log /\ b \in Log /\ c \in Nat /\ d \in Nat /\ c =< Len(a) /\ d =< Len(b)
      /\ Len(a) \in Nat /\ Len(b) \in Nat
  BY FineNode DEF SafetyInv, NodeState, Log
<1>3. m \in Nat /\ m =< c /\ m =< d
  <2>1. m = IF c =< d THEN c ELSE d
    BY <1>2, MinPair
  <2> HIDE DEF m
  <2> QED
    BY <1>2, <2>1
<1> HIDE DEF m
<1>4. SubSeq(a, 1, m) = SubSeq(b, 1, m)
  <2>1. CASE m = 0
    <3>1. SubSeq(a, 1, 0) = <<>> /\ SubSeq(b, 1, 0) = <<>>
      BY <1>2 DEF Log
    <3> QED
      BY <2>1, <3>1
  <2>2. CASE m # 0
    <3>1. c # 0 /\ d # 0
      BY <1>2, <1>3, <2>2
    <3>2. PICK u, y \in Nat :
            /\ u \in h.led /\ c =< y /\ h.log[u] \in Log /\ Has(a, h.log[u], c)
            /\ \A t \in h.led : u =< t => h.log[t] \in Log /\ Has(h.log[t], h.log[u], y)
      BY <1>1, <3>1, DoneIn
    <3>3. PICK v, z \in Nat :
            /\ v \in h.led /\ d =< z /\ h.log[v] \in Log /\ Has(b, h.log[v], d)
            /\ \A t \in h.led : v =< t => h.log[t] \in Log /\ Has(h.log[t], h.log[v], z)
      BY <1>1, <3>1, DoneIn
    <3>4. Has(h.log[u], h.log[v], m)
      <4>1. CASE u =< v
        <5>1. Has(h.log[v], h.log[u], y) /\ m =< y
          BY <1>2, <1>3, <3>2, <3>3, <4>1
        <5> QED
          BY <1>3, <3>2, <3>3, <5>1, HasLess, HasSym
      <4>2. CASE ~(u =< v)
        <5>1. Has(h.log[u], h.log[v], z) /\ m =< z
          BY <1>2, <1>3, <3>2, <3>3, <4>2
        <5> QED
          BY <1>3, <3>2, <3>3, <5>1, HasLess
      <4> QED
        BY <4>1, <4>2
    <3>5. Has(a, h.log[u], m) /\ Has(h.log[v], b, m)
      BY <1>2, <1>3, <3>2, <3>3, HasLess, HasSym
    <3>6. Has(a, h.log[v], m)
      BY <1>2, <1>3, <3>2, <3>3, <3>4, <3>5, HasTrans
    <3>7. Has(a, b, m)
      BY <1>2, <1>3, <3>3, <3>5, <3>6, HasTrans
    <3>8. m \in 0..Len(b)
      BY <1>2, <1>3
    <3> HIDE DEF a, b
    <3> QED
      BY <1>2, <3>7, <3>8, HasSubSeq
  <2> QED
    BY <2>1, <2>2
<1>5. ASSUME node[j].role = "Leader", node[j].term >= node[i].term
      PROVE  IsPrefix(SubSeq(a, 1, c), b)
  <2>1. Has(a, b, c)
    <3>1. CASE c = 0
      BY <1>2, <3>1 DEF Has
    <3>2. CASE c # 0
      <4>1. PICK u, y \in Nat :
              /\ u \in h.led /\ u =< node[i].term /\ c =< y /\ h.log[u] \in Log /\ Has(a, h.log[u], c)
              /\ \A t \in h.led : u =< t => h.log[t] \in Log /\ Has(h.log[t], h.log[u], y)
        BY <1>1, <3>2, DoneIn
      <4>2. node[j].term \in h.led /\ h.log[node[j].term] = b
        BY <1>1, <1>5, GoodNode DEF Leads
      <4>3. u =< node[j].term
        <5>1. node[i].term \in Nat /\ node[j].term \in Nat
          BY <1>1, GoodNode
        <5> QED
          BY <1>5, <4>1, <5>1
      <4>4. Has(b, h.log[u], y)
        BY <4>1, <4>2, <4>3
      <4> HIDE DEF a, b, c
      <4>5. Has(h.log[u], b, c)
        BY <1>2, <4>1, <4>4, HasLess, HasSym
      <4> QED
        BY <1>2, <4>1, <4>5, HasTrans
    <3> QED
      BY <3>1, <3>2
  <2> HIDE DEF a, b, c
  <2> DEFINE p == SubSeq(a, 1, c)
  <2>2. p \in Log /\ Len(p) = c /\ \A x \in 1..c : p[x] = a[x]
    BY <1>2 DEF Log
  <2> HIDE DEF p
  <2>3. c =< Len(b) /\ \A x \in 1..c : p[x] = b[x]
    BY <2>1, <2>2 DEF Has
  <2>4. SubSeq(p, 1, Len(p)) = SubSeq(b, 1, Len(p))
    <3>1. Has(p, b, c) /\ c \in 0..Len(b)
      BY <1>2, <2>2, <2>3 DEF Has
    <3> QED
      BY <1>2, <2>2, <3>1, HasSubSeq
  <2> QED
    BY <1>2, <2>2, <2>3, <2>4 DEF IsPrefix, p
<1> QED
  BY <1>4, <1>5 DEF m

-----------------------------------------------------------------------------
(***************************************************************************)
(* The quota of uncommitted entries.                                       *)
(***************************************************************************)
\* The payload of two stretches is the sum of theirs,
LEMMA PayloadSplit ==
    ASSUME NEW log, NEW a \in Nat, NEW k \in Nat, NEW b \in Nat, a =< k, k =< b
    PROVE  Payload(log, a, b) = Payload(log, a, k) + Payload(log, k, b)
<1> DEFINE S(x, y) == {l \in x + 1 .. y : PayloadSize(log[l].change) = 1}
<1>1. \A x, y \in Nat : IsFiniteSet(S(x, y))
  <2> SUFFICES ASSUME NEW x \in Nat, NEW y \in Nat PROVE IsFiniteSet(S(x, y))
    OBVIOUS
  <2>1. IsFiniteSet(x + 1 .. y)
    BY FS_Interval
  <2>2. S(x, y) \in SUBSET (x + 1 .. y)
    OBVIOUS
  <2> HIDE DEF S
  <2> QED
    BY <2>1, <2>2, FS_Subset
<1>2. S(a, b) = S(a, k) \cup S(k, b) /\ S(a, k) \cap S(k, b) = {}
  OBVIOUS
<1>3. \A x, y : Payload(log, x, y) = Cardinality(S(x, y))
  BY DEF Payload
<1> HIDE DEF S
<1>4. Cardinality(S(a, k)) \in Nat /\ Cardinality(S(k, b)) \in Nat
  BY <1>1, FS_CardinalityType
<1>5. Cardinality(S(a, b)) = Cardinality(S(a, k)) + Cardinality(S(k, b))
  <2>1. /\ IsFiniteSet(S(a, k)) /\ IsFiniteSet(S(k, b)) /\ Cardinality(S(a, k) \cap S(k, b)) = 0
    BY <1>1, <1>2, FS_EmptySet
  <2>2. Cardinality(S(a, k) \cup S(k, b)) =
          Cardinality(S(a, k)) + Cardinality(S(k, b)) - Cardinality(S(a, k) \cap S(k, b))
    BY <2>1, FS_Union
  <2> QED
    BY <1>2, <1>4, <2>1, <2>2
<1> QED
  BY <1>3, <1>5

\* depends on the entries in them,
LEMMA PayloadSame ==
    ASSUME NEW log, NEW other, NEW a \in Nat, NEW b \in Nat,
           \A x \in a + 1 .. b : other[x] = log[x]
    PROVE  Payload(other, a, b) = Payload(log, a, b)
<1>1. {k \in a + 1 .. b : PayloadSize(other[k].change) = 1}
        = {k \in a + 1 .. b : PayloadSize(log[k].change) = 1}
  OBVIOUS
<1> QED
  BY <1>1 DEF Payload

\* and grows with an entry by its own.
LEMMA PayloadAppend ==
    ASSUME NEW S, NEW log \in Seq(S), NEW e \in S, NEW a \in Nat, a =< Len(log)
    PROVE  Payload(Append(log, e), a, Len(log) + 1) = Payload(log, a, Len(log)) + PayloadSize(e.change)
<1> DEFINE more == Append(log, e)
           m == Len(log)
           P == {k \in m + 1 .. m + 1 : PayloadSize(more[k].change) = 1}
<1>1. m \in Nat /\ more[m + 1] = e /\ \A x \in 1..m : more[x] = log[x]
  OBVIOUS
<1>2. Payload(more, a, m) = Payload(log, a, m)
  <2>1. \A x \in a + 1 .. m : more[x] = log[x]
    BY <1>1
  <2> HIDE DEF more, m
  <2> QED
    BY <1>1, <2>1, PayloadSame
<1>3. Payload(more, m, m + 1) = PayloadSize(e.change)
  <2>1. Payload(more, m, m + 1) = Cardinality(P)
    BY DEF Payload
  <2>2. PayloadSize(e.change) \in {0, 1}
    BY DEF PayloadSize
  <2> HIDE DEF more, m
  <2>3. P = IF PayloadSize(e.change) = 1 THEN {m + 1} ELSE {}
    BY <1>1
  <2>4. Cardinality({m + 1}) = 1 /\ Cardinality({}) = 0
    BY FS_EmptySet, FS_Singleton
  <2> QED
    BY <2>1, <2>2, <2>3, <2>4
<1> HIDE DEF more, m
<1>4. Payload(more, a, m + 1) = Payload(more, a, m) + Payload(more, m, m + 1)
  <2>1. m + 1 \in Nat /\ m =< m + 1 /\ a =< m
    BY <1>1 DEF m
  <2> QED
    BY <1>1, <2>1, PayloadSplit
<1> QED
  BY <1>2, <1>3, <1>4 DEF more, m

-----------------------------------------------------------------------------
\* The quota in use is that of entries not applied, but for x entries
Within(n, x) == n.uncommittedSize =< x + Payload(n.log, n.applied, Len(n.log))

\* Only a leader keeps it
QuotaOk(n) == (n.role # "Leader" => n.uncommittedSize = 0) /\ Within(n, 0)

\* The quota in use is right at every node
QuotaInv == \A i \in Server : QuotaOk(node[i])

\* A node that uses none of the quota
LEMMA NoQuota ==
    ASSUME NEW n \in NodeState, n.uncommittedSize = 0
    PROVE  QuotaOk(n)
<1>1. n.applied \in Nat /\ Len(n.log) \in Nat
  BY DEF NodeState
<1>2. Payload(n.log, n.applied, Len(n.log)) \in Nat
  BY <1>1, PayloadNat
<1> QED
  BY <1>2 DEF QuotaOk, Within

\* An entry that is appended adds as much to the quota as to the log,
LEMMA WithinAppend ==
    ASSUME NEW i \in Server, NEW n \in NodeState, n.applied =< Len(n.log), NEW ch \in Change,
           NEW x \in Nat, Within(n, x)
    PROVE  Within(AppendEntry(i, n, ch), x)
<1> DEFINE e == [term |-> n.term, change |-> ch]
           g == [n EXCEPT !.log = Append(@, e), !.match[i] = Len(n.log) + 1,
                          !.uncommittedSize = @ + PayloadSize(ch)]
           E == [term : Nat, change : Change]
<1>1. Shaped(n) /\ n.log \in Seq(E) /\ e \in E /\ n.applied \in Nat /\ Len(n.log) \in Nat
      /\ n.uncommittedSize \in Nat
  <2>1. Shaped(n)
    BY ShapedNode
  <2>2. /\ n.log \in Seq(E) /\ n.term \in Nat
    BY <2>1 DEF Shaped
  <2>3. n.applied \in Nat /\ Len(n.log) \in Nat /\ n.uncommittedSize \in Nat
    BY DEF NodeState
  <2> QED
    BY <2>1, <2>2, <2>3
<1>2. CASE OverQuota(n, ch)
  BY <1>2 DEF AppendEntry
<1>3. CASE ~OverQuota(n, ch)
  <2>1. AppendEntry(i, n, ch) = MaybeCommit(g)
    BY <1>3 DEF AppendEntry
  <2>2. /\ g.log = Append(n.log, e) /\ g.applied = n.applied
        /\ g.uncommittedSize = n.uncommittedSize + PayloadSize(ch)
    BY DEF NodeState
  <2>3. e.change = ch
    OBVIOUS
  <2> HIDE DEF E, e
  <2>4. Len(Append(n.log, e)) = Len(n.log) + 1
    BY <1>1
  <2>5. Payload(g.log, g.applied, Len(g.log))
          = Payload(n.log, n.applied, Len(n.log)) + PayloadSize(ch)
    BY <1>1, <2>2, <2>3, <2>4, PayloadAppend
  <2>6. PayloadSize(ch) \in Nat /\ Payload(n.log, n.applied, Len(n.log)) \in Nat
    BY <1>1, PayloadNat DEF PayloadSize
  <2> HIDE DEF g
  <2>7. Within(g, x)
    BY <1>1, <2>2, <2>5, <2>6 DEF Within
  <2> DEFINE o == MaybeCommit(g)
  <2>8. o.log = g.log /\ o.applied = g.applied /\ o.uncommittedSize = g.uncommittedSize
    <3> DEFINE agreed == {k \in g.commit + 1 .. Len(g.log) :
                            /\ g.log[k].term = g.term
                            /\ IsQuorum({j \in Server : g.match[j] >= k}, g.conf)}
               c == Max(agreed)
    <3>1. o = g \/ o = [g EXCEPT !.commit = c]
      BY DEF MaybeCommit
    <3> HIDE DEF c, o
    <3>2. [g EXCEPT !.commit = c].log = g.log /\ [g EXCEPT !.commit = c].applied = g.applied
          /\ [g EXCEPT !.commit = c].uncommittedSize = g.uncommittedSize
      BY DEF g, NodeState
    <3> QED
      BY <3>1, <3>2
  <2> HIDE DEF o
  <2> QED
    BY <2>1, <2>7, <2>8 DEF Within, o
<1> QED
  BY <1>2, <1>3

\* and so does a proposal, refused or not.
LEMMA WithinProp ==
    ASSUME NEW i \in Server, NEW n \in NodeState, n.applied =< Len(n.log), NEW ch \in Change,
           NEW x \in Nat, Within(n, x)
    PROVE  Within(StepProp(i, n, ch), x)
<1> DEFINE p == [n EXCEPT !.pendingConfIndex = Len(n.log) + 1]
<1>1. Plain("empty") \in Change /\ Len(n.log) + 1 \in Nat
  BY DEF Plain, Change, NodeState
<1>2. /\ p \in NodeState /\ p.log = n.log /\ p.applied = n.applied
      /\ p.uncommittedSize = n.uncommittedSize
  BY <1>1 DEF NodeState
<1>3. \/ StepProp(i, n, ch) = AppendEntry(i, n, Plain("empty"))
      \/ StepProp(i, n, ch) = AppendEntry(i, p, ch)
      \/ StepProp(i, n, ch) = AppendEntry(i, n, ch)
  BY DEF StepProp
<1> HIDE DEF p
<1>4. Within(p, x)
  BY <1>2 DEF Within
<1>5. /\ Within(AppendEntry(i, n, Plain("empty")), x) /\ Within(AppendEntry(i, p, ch), x)
      /\ Within(AppendEntry(i, n, ch), x)
  BY <1>1, <1>2, <1>4, WithinAppend
<1> QED
  BY <1>3, <1>5

\* One that is elected starts with none in use.
LEMMA QuotaTally ==
    ASSUME NEW i \in Server, NEW n \in NodeState, n.applied =< Len(n.log), QuotaOk(n)
    PROVE  QuotaOk(Tally(i, n))
<1> DEFINE r == Reset(n, n.term)
           b == [r EXCEPT !.role = "Leader", !.lead = i, !.match[i] = Len(n.log),
                          !.pendingConfIndex = Len(n.log)]
<1>1. /\ r \in NodeState /\ Len(n.log) \in Nat /\ r.log = n.log /\ r.applied = n.applied
      /\ r.uncommittedSize = 0
  <2>1. n.term \in Nat /\ Len(n.log) \in Nat
    BY DEF NodeState
  <2>2. r.uncommittedSize = 0
    BY DEF Reset, NodeState
  <2> QED
    BY <2>1, <2>2, ResetType
<1>2. Tally(i, n) = n \/ Tally(i, n) = AppendEntry(i, b, Plain("empty"))
  BY DEF Tally, BecomeLeader
<1> HIDE DEF r
<1>3. /\ b \in NodeState /\ b.role = "Leader" /\ b.log = n.log /\ b.applied = n.applied
      /\ b.uncommittedSize = 0
  BY <1>1 DEF NodeState
<1> HIDE DEF b
<1>4. Plain("empty") \in Change
  BY DEF Plain, Change
<1>5. AppendEntry(i, b, Plain("empty")).role = "Leader"
  BY <1>3, <1>4, ShapedNode, StillLeads
<1>6. Within(AppendEntry(i, b, Plain("empty")), 0)
  <2>1. Within(b, 0)
    BY <1>3, NoQuota DEF QuotaOk
  <2> QED
    BY <1>3, <1>4, <2>1, WithinAppend
<1> QED
  BY <1>2, <1>5, <1>6 DEF QuotaOk

\* A follower uses none,
LEMMA QuotaReset ==
    ASSUME NEW n \in NodeState, NEW t \in Nat, NEW lead \in Server \cup {None}
    PROVE  LET o == BecomeFollower(n, t, lead)
           IN  o \in NodeState /\ o.uncommittedSize = 0 /\ QuotaOk(o)
<1> DEFINE r == Reset(n, t)
           o == [r EXCEPT !.role = "Follower", !.lead = lead]
<1>1. r \in NodeState /\ r.uncommittedSize = 0
  <2>1. r.uncommittedSize = 0
    BY DEF Reset, NodeState
  <2> QED
    BY <2>1, ResetType
<1> HIDE DEF r
<1>2. o \in NodeState /\ o.uncommittedSize = 0
  BY <1>1 DEF NodeState
<1> HIDE DEF o
<1>3. QuotaOk(o)
  BY <1>2, NoQuota
<1> QED
  BY <1>2, <1>3 DEF BecomeFollower, o, r

\* nor does one that campaigns, until it leads;
LEMMA QuotaCampaign ==
    ASSUME SafetyInv, QuotaInv, NEW i \in Server, Campaign(i)
    PROVE  QuotaInv'
<1> DEFINE n == node[i]
           r == Reset(n, n.term + 1)
           c == [r EXCEPT !.role = "Candidate", !.vote = i, !.granted = {i}]
           o == Tally(i, c)
<1>1. node' = [node EXCEPT ![i] = o]
  BY DEF Campaign
<1>2. /\ node = [x \in Server |-> node[x]] /\ n \in NodeState /\ n.applied =< Len(n.log)
      /\ \A x \in Server : QuotaOk(node[x])
  BY FineNode DEF SafetyInv, QuotaInv, NodeState
<1> HIDE DEF n
<1>3. /\ r \in NodeState /\ r.log = n.log /\ r.applied = n.applied /\ r.uncommittedSize = 0
  <2>1. r.uncommittedSize = 0 /\ n.term + 1 \in Nat
    BY <1>2 DEF Reset, NodeState
  <2> QED
    BY <1>2, <2>1, ResetType
<1> HIDE DEF r
<1>4. /\ c \in NodeState /\ c.log = n.log /\ c.applied = n.applied /\ c.uncommittedSize = 0
  BY <1>3 DEF NodeState
<1> HIDE DEF c
<1>5. QuotaOk(o)
  BY <1>2, <1>4, NoQuota, QuotaTally
<1> HIDE DEF o
<1> QED
  BY <1>1, <1>2, <1>5 DEF QuotaInv

\* a vote changes nothing that is in use,
LEMMA QuotaVote ==
    ASSUME SafetyInv, QuotaInv, NEW i \in Server, NEW j \in Server, Vote(i, j)
    PROVE  QuotaInv'
<1> DEFINE n == node[i]
           p == node[j]
           v == IF p.term < n.term THEN BecomeFollower(p, n.term, None) ELSE p
           b == [v EXCEPT !.vote = i]
           c == [n EXCEPT !.granted = @ \cup {j}]
           o == Tally(i, c)
           yes == (v.vote = i \/ (v.vote = None /\ v.lead = None)) /\ IsUpToDate(n, v)
<1>1. node' = IF yes THEN [node EXCEPT ![j] = b, ![i] = o] ELSE [node EXCEPT ![j] = v]
  BY DEF Vote
<1>2. /\ node = [x \in Server |-> node[x]] /\ n \in NodeState /\ p \in NodeState
      /\ n.applied =< Len(n.log) /\ n.term \in Nat
      /\ \A x \in Server : QuotaOk(node[x])
  <2>1. \A x \in Server : /\ node[x] \in NodeState /\ node[x].applied =< node[x].commit
                            /\ node[x].commit =< Len(node[x].log)
    BY FineNode DEF SafetyInv
  <2>2. node = [x \in Server |-> node[x]]
    BY FineNode DEF SafetyInv
  <2>3. n \in NodeState /\ p \in NodeState /\ n.applied =< n.commit /\ n.commit =< Len(n.log)
    BY <2>1
  <2> HIDE DEF n, p
  <2>4. n.term \in Nat /\ n.applied =< Len(n.log)
    BY <2>3 DEF NodeState
  <2> QED
    BY <2>2, <2>3, <2>4 DEF QuotaInv
<1>3. QuotaOk(n) /\ QuotaOk(p)
  BY <1>2
<1> HIDE DEF n, p
<1>4. v \in NodeState /\ QuotaOk(v)
  <2>1. /\ BecomeFollower(p, n.term, None) \in NodeState
        /\ QuotaOk(BecomeFollower(p, n.term, None))
    BY <1>2, QuotaReset
  <2> QED
    BY <1>2, <1>3, <2>1
<1> HIDE DEF v
<1>5. QuotaOk(b)
  <2>1. /\ b.role = v.role /\ b.log = v.log /\ b.applied = v.applied
        /\ b.uncommittedSize = v.uncommittedSize
    BY <1>4 DEF NodeState
  <2> HIDE DEF b
  <2> QED
    BY <1>4, <2>1 DEF QuotaOk, Within
<1>6. QuotaOk(o)
  <2>1. /\ c \in NodeState /\ c.role = n.role /\ c.log = n.log /\ c.applied = n.applied
        /\ c.uncommittedSize = n.uncommittedSize
    BY <1>2 DEF NodeState
  <2> HIDE DEF c
  <2>2. QuotaOk(c)
    BY <1>3, <2>1 DEF QuotaOk, Within
  <2> QED
    BY <1>2, <2>1, <2>2, QuotaTally
<1> HIDE DEF b, o, yes
<1>7. \A x \in Server : node'[x] \in {node[x], v, b, o} /\ (node'[x] = node[x] \/ x \in {i, j})
  BY <1>1, <1>2
<1> QED
  BY <1>2, <1>4, <1>5, <1>6, <1>7 DEF QuotaInv

\* and who steps down gives it up.
LEMMA QuotaStepDown ==
    ASSUME SafetyInv, QuotaInv, NEW i \in Server, NEW j \in Server, StepDown(i, j)
    PROVE  QuotaInv'
<1> DEFINE o == BecomeFollower(node[i], node[j].term, None)
<1>1. node' = [node EXCEPT ![i] = o]
  BY DEF StepDown
<1>2. /\ node = [x \in Server |-> node[x]] /\ node[i] \in NodeState /\ node[j].term \in Nat
      /\ \A x \in Server : QuotaOk(node[x])
  BY FineNode DEF SafetyInv, QuotaInv, NodeState
<1>3. QuotaOk(o)
  BY <1>2, QuotaReset
<1> HIDE DEF o
<1> QED
  BY <1>1, <1>2, <1>3 DEF QuotaInv

\* A leader that replicates uses what it did; who hears it is a follower.
LEMMA QuotaReplicate ==
    ASSUME SafetyInv, QuotaInv, NEW i \in Server, NEW j \in Server, NEW k, Replicate(i, j, k),
           SafetyInv'
    PROVE  QuotaInv'
<1> DEFINE n == node[i]
           p == node[j]
           v == IF p.role # "Follower" \/ p.term < n.term
                THEN BecomeFollower(p, n.term, i) ELSE [p EXCEPT !.lead = i]
           has == Len(v.log) >= k /\ SubSeq(v.log, 1, k) = SubSeq(n.log, 1, k)
           log == IF has THEN v.log ELSE SubSeq(n.log, 1, k)
           com == Max({v.commit, Min({n.commit, k})})
           u == [v EXCEPT !.log = log, !.commit = com]
           m == [n EXCEPT !.match[j] = k]
           o == MaybeCommit(m)
<1>1. i # j /\ k \in n.match[j] .. Len(n.log) /\ node' = [node EXCEPT ![j] = u, ![i] = o]
  BY DEF Replicate
<1>2. /\ node = [x \in Server |-> node[x]] /\ n \in NodeState /\ p \in NodeState /\ n.term \in Nat
      /\ \A x \in Server : QuotaOk(node[x])
  BY FineNode DEF SafetyInv, QuotaInv, NodeState
<1>3. QuotaOk(n) /\ QuotaOk(p)
  BY <1>2
<1>4. node'[j] \in NodeState
  BY FineNode DEF SafetyInv
<1> HIDE DEF n, p
<1>5. v \in NodeState /\ v.uncommittedSize = 0
  <2>1. CASE p.role # "Follower" \/ p.term < n.term
    <3>1. LET w == BecomeFollower(p, n.term, i) IN w \in NodeState /\ w.uncommittedSize = 0
      BY <1>2, QuotaReset
    <3> QED
      BY <2>1, <3>1
  <2>2. CASE ~(p.role # "Follower" \/ p.term < n.term)
    <3>1. v = [p EXCEPT !.lead = i] /\ p.role = "Follower"
      BY <2>2
    <3>2. p.uncommittedSize = 0
      BY <1>3, <3>1 DEF QuotaOk
    <3> HIDE DEF v
    <3> QED
      BY <1>2, <3>1, <3>2 DEF NodeState
  <2> QED
    BY <2>1, <2>2
<1> HIDE DEF v, has, log, com
<1>6. u.uncommittedSize = 0
  BY <1>5 DEF NodeState
<1>7. QuotaOk(o)
  <2>1. k \in Nat
    BY <1>1, <1>2 DEF NodeState
  <2>2. /\ m \in NodeState /\ m.role = n.role /\ m.log = n.log /\ m.applied = n.applied
        /\ m.uncommittedSize = n.uncommittedSize
    BY <1>2, <2>1 DEF NodeState
  <2> HIDE DEF m
  <2>3. /\ o.role = m.role /\ o.log = m.log /\ o.applied = m.applied
        /\ o.uncommittedSize = m.uncommittedSize
    BY <2>2, MaybeCommitSame
  <2> HIDE DEF o
  <2> QED
    BY <1>3, <2>2, <2>3 DEF QuotaOk, Within
<1> HIDE DEF u, o
<1>8. node'[j] = u /\ node'[i] = o /\ \A x \in Server : x \notin {i, j} => node'[x] = node[x]
  BY <1>1, <1>2
<1>9. QuotaOk(u)
  BY <1>4, <1>6, <1>8, NoQuota
<1> QED
  BY <1>2, <1>7, <1>8, <1>9 DEF QuotaInv

\* A leader takes a proposal if it is within the quota.
LEMMA QuotaPropose ==
    ASSUME SafetyInv, QuotaInv, NEW i \in Server, NEW ch \in Changes \cup {Plain("normal")},
           Propose(i, ch)
    PROVE  QuotaInv'
<1> DEFINE n == node[i]
           o == StepProp(i, n, ch)
<1>1. node' = [node EXCEPT ![i] = o] /\ n.role = "Leader"
  BY DEF Propose
<1>2. /\ node = [x \in Server |-> node[x]] /\ n \in NodeState /\ n.applied =< Len(n.log)
      /\ \A x \in Server : QuotaOk(node[x])
  BY FineNode DEF SafetyInv, QuotaInv, NodeState
<1>3. ch \in Change
  <2>1. Plain("normal") \in Change
    BY DEF Plain, Change
  <2> QED
    BY <2>1, ReconfigurationAssumption
<1>4. o.role = "Leader" /\ Within(o, 0)
  <2>1. Within(n, 0)
    BY <1>2 DEF QuotaOk
  <2> HIDE DEF n
  <2> QED
    BY <1>1, <1>2, <1>3, <2>1, WithinProp, StillLeads, ShapedNode
<1> HIDE DEF o
<1>5. QuotaOk(o)
  BY <1>4 DEF QuotaOk
<1> QED
  BY <1>1, <1>2, <1>5 DEF QuotaInv

\* What is applied is taken off the quota, and is no longer counted in the log.
LEMMA QuotaApply ==
    ASSUME SafetyInv, QuotaInv, NEW i \in Server, NEW k, NEW handsOver, Apply(i, k, handsOver)
    PROVE  QuotaInv'
<1> DEFINE n == node[i]
           s == ApplyEntries(i, n, k)
           a == [s EXCEPT !.applied = k]
           told == AppliedTo(i, s, k, handsOver)
           pay == Payload(n.log, n.applied, k)
           size == Reduced(told, pay)
           o == [told EXCEPT !.uncommittedSize = size]
<1>1. node' = [node EXCEPT ![i] = o] /\ k \in n.applied + 1 .. n.commit
  BY DEF Apply
<1>2. /\ node = [x \in Server |-> node[x]] /\ n \in NodeState /\ n.commit =< Len(n.log)
      /\ n.applied \in Nat /\ n.commit \in Nat /\ Len(n.log) \in Nat
      /\ \A x \in Server : QuotaOk(node[x])
  BY FineNode DEF SafetyInv, QuotaInv, NodeState
<1>3. k \in Nat /\ n.applied =< k /\ k =< n.commit /\ k =< Len(n.log)
  BY <1>1, <1>2
<1>4. Same(n, s)
  <2>1. EarlierApplied(n) /\ Fine(node)
    BY DEF SafetyInv, ChangesInv, InTurn
  <2> QED
    BY <1>3, <2>1, FineEntries
<1>5. told = a \/ (a.role = "Leader" /\ told = StepProp(i, a, Plain("leave")))
  BY DEF AppliedTo
<1>6. told \in NodeState /\ told.applied = k
  BY FineTold
<1>7. QuotaOk(n) /\ pay \in Nat /\ n.uncommittedSize \in Nat
  BY <1>2, <1>3, PayloadNat DEF NodeState
<1> DEFINE rest == Payload(n.log, k, Len(n.log))
           all == Payload(n.log, n.applied, Len(n.log))
<1>8. rest \in Nat /\ all \in Nat /\ all = pay + rest
  BY <1>2, <1>3, PayloadNat, PayloadSplit
<1> HIDE DEF n, s, pay
<1>9. /\ a \in NodeState /\ a.role = n.role /\ a.log = n.log /\ a.applied = k
      /\ a.uncommittedSize = n.uncommittedSize
  BY <1>3, <1>4 DEF Same, NodeState
<1> HIDE DEF a, told
<1>10. Within(a, pay)
  <2>1. n.uncommittedSize =< 0 + all
    BY <1>7 DEF QuotaOk, Within
  <2>2. n.uncommittedSize =< pay + rest
    BY <1>7, <1>8, <2>1
  <2> QED
    BY <1>9, <2>2 DEF Within
<1>11. told \in NodeState /\ (told.role # "Leader" => told.uncommittedSize = 0) /\ Within(told, pay)
       /\ told.applied = k
  <2>1. CASE told = a
    BY <1>6, <1>7, <1>9, <1>10, <2>1 DEF QuotaOk
  <2>2. CASE a.role = "Leader" /\ told = StepProp(i, a, Plain("leave"))
    <3>1. Plain("leave") \in Change
      BY DEF Plain, Change
    <3>2. told.role = "Leader"
      BY <1>9, <2>2, <3>1, ShapedNode, StillLeads
    <3>3. Within(told, pay)
      BY <1>3, <1>7, <1>9, <1>10, <2>2, <3>1, WithinProp
    <3> QED
      BY <1>6, <3>2, <3>3
  <2> QED
    BY <1>5, <2>1, <2>2
<1>12. size \in Nat /\ (told.uncommittedSize = 0 => size = 0)
       /\ size =< Payload(told.log, told.applied, Len(told.log))
  <2>1. told.uncommittedSize \in Nat /\ Len(told.log) \in Nat
    BY <1>11 DEF NodeState
  <2>2. Payload(told.log, told.applied, Len(told.log)) \in Nat
    BY <1>3, <1>11, <2>1, PayloadNat
  <2> QED
    BY <1>7, <1>11, <2>1, <2>2 DEF Reduced, Within
<1> HIDE DEF size
<1>13. o.role = told.role /\ o.log = told.log /\ o.applied = told.applied /\ o.uncommittedSize = size
  BY <1>11 DEF NodeState
<1> HIDE DEF o
<1>14. QuotaOk(o)
  <2>1. size =< 0 + Payload(told.log, told.applied, Len(told.log))
    <3>1. Len(told.log) \in Nat
      BY <1>11 DEF NodeState
    <3>2. Payload(told.log, told.applied, Len(told.log)) \in Nat
      BY <1>3, <1>11, <3>1, PayloadNat
    <3> QED
      BY <1>12, <3>2
  <2> QED
    BY <1>11, <1>12, <1>13, <2>1 DEF QuotaOk, Within
<1> QED
  BY <1>1, <1>2, <1>14 DEF QuotaInv, n

-----------------------------------------------------------------------------
(***************************************************************************)
(* The theorems.                                                           *)
(***************************************************************************)
\* Nothing is in use in the beginning.
LEMMA QuotaInit == Init => QuotaInv
<1> SUFFICES ASSUME Init, NEW i \in Server PROVE QuotaOk(node[i])
  BY DEF QuotaInv
<1>1. node[i].uncommittedSize = 0 /\ node[i] \in NodeState
  <2>1. Fine(node)
    BY FineInit
  <2>2. node[i] \in NodeState
    BY <2>1, FineNode
  <2> QED
    BY <2>2 DEF Init
<1> QED
  BY <1>1, NoQuota

\* Every action keeps the quota right.
LEMMA QuotaStep == SafetyInv /\ SafetyInv' /\ QuotaInv /\ [Next]_node => QuotaInv'
<1> SUFFICES ASSUME SafetyInv, SafetyInv', QuotaInv, [Next]_node PROVE QuotaInv'
  OBVIOUS
<1>1. CASE node' = node
  BY <1>1 DEF QuotaInv
<1>2. CASE Next
  <2>1. PICK i \in Server :
          \/ Campaign(i)
          \/ \E j \in Server : Vote(i, j)
          \/ \E j \in Server : StepDown(i, j)
          \/ \E j \in Server : \E k \in 0 .. Len(node[i].log) : Replicate(i, j, k)
          \/ \E ch \in Changes \cup {Plain("normal")} : Propose(i, ch)
          \/ \E k \in 1 .. node[i].commit, handsOver \in BOOLEAN : Apply(i, k, handsOver)
    BY <1>2 DEF Next
  <2>2. CASE Campaign(i)
    BY <2>2, QuotaCampaign
  <2>3. CASE \E j \in Server : Vote(i, j)
    BY <2>3, QuotaVote
  <2>4. CASE \E j \in Server : StepDown(i, j)
    BY <2>4, QuotaStepDown
  <2>5. CASE \E j \in Server : \E k \in 0 .. Len(node[i].log) : Replicate(i, j, k)
    BY <2>5, QuotaReplicate
  <2>6. CASE \E ch \in Changes \cup {Plain("normal")} : Propose(i, ch)
    BY <2>6, QuotaPropose
  <2>7. CASE \E k \in 1 .. node[i].commit, handsOver \in BOOLEAN : Apply(i, k, handsOver)
    BY <2>7, QuotaApply
  <2> QED
    BY <2>1, <2>2, <2>3, <2>4, <2>5, <2>6, <2>7
<1> QED
  BY <1>1, <1>2

\* So the quota is never overestimated, and the types are right.
LEMMA SafetyQuota == SafetyInv /\ QuotaInv => QuotaIsNotOverestimated
<1> SUFFICES ASSUME SafetyInv, QuotaInv PROVE QuotaIsNotOverestimated
  OBVIOUS
<1>1. \A i \in Server :
        /\ node[i] \in NodeState /\ node[i].applied =< node[i].commit
        /\ node[i].commit =< Len(node[i].log)
  BY FineNode DEF SafetyInv
<1>2. node = [i \in Server |-> node[i]]
  BY DEF SafetyInv, ChangesInv
<1>3. TypeOK
  BY <1>1, <1>2 DEF TypeOK
<1>4. ASSUME NEW i \in Server
      PROVE  node[i].uncommittedSize =< Payload(node[i].log, node[i].applied, Len(node[i].log))
  <2>1. node[i].applied \in Nat /\ Len(node[i].log) \in Nat
    BY <1>1 DEF NodeState
  <2>2. Payload(node[i].log, node[i].applied, Len(node[i].log)) \in Nat
    BY <2>1, PayloadNat
  <2> QED
    BY <2>2 DEF QuotaInv, QuotaOk, Within
<1> QED
  BY <1>3, <1>4 DEF QuotaIsNotOverestimated

\* There is one leader in a term, for all nodes, changes and bounds, although the voters it
\* asked are those of the configuration it happened to have applied (hup, campaign, Step of
\* MsgVote, applyConfChange).
THEOREM OneLeaderAtATime == Spec => []OneLeaderPerTerm
  BY SafetyAlways, SafetyOneLeader, PTL

\* What a node knows to be committed every other agrees with, and the leader of the same or a
\* later term has: no change of the configuration, in whatever order nodes apply it, loses a
\* committed entry (maybeCommit, hup, switchToConfig).
THEOREM CommittedIsForGood == Spec => []CommittedForGood
  BY SafetyAlways, SafetyCommitted, PTL

\* No node panics when it applies a change: it fits the configuration that the changes before
\* it led to, on every node that applies it (applyConfChange, confchange.Changer).
THEOREM ChangesAlwaysFit == Spec => []ChangesFit
  BY SafetyAlways, SafetyChangesFit, PTL

\* The size of the uncommitted log that a leader keeps never exceeds what is in the log and
\* not applied, and is never below zero (increaseUncommittedSize, reduceUncommittedSize,
\* reset, becomeLeader).
THEOREM QuotaNeverOverestimated == Spec => []QuotaIsNotOverestimated
<1>1. Spec => []QuotaInv
  BY SafetyAlways, QuotaInit, QuotaStep, PTL DEF Spec
<1> QED
  BY <1>1, SafetyAlways, SafetyQuota, PTL

=============================================================================
