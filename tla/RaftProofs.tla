----------------------------- MODULE RaftProofs -----------------------------
(***************************************************************************)
(* Types, elections and logs of Raft.  Each operator that stands for a     *)
(* method of the code has a lemma that says it yields a well-formed state  *)
(* of a node, from which the invariance of TypeOK follows action by        *)
(* action.                                                                 *)
(*                                                                         *)
(* Then: at most one node leads a term, and votes are durable.  Most of    *)
(* what a node does is calm: it casts no vote, counts none, and claims no  *)
(* leadership it did not have.  The rest (a campaign, a granted vote, an   *)
(* answer counted, an election won) is sound: what is new in the node is   *)
(* justified by the messages it has seen.  Sound steps, Ready and Restart  *)
(* preserve ElectionInv, and two quorums of one term have a common member. *)
(* The oracle of the harness, which sees leaders through their Readys,     *)
(* follows from it.                                                        *)
(*                                                                         *)
(* Then: logs that agree on the term of an index agree up to it.           *)
(***************************************************************************)
EXTENDS RaftOracle, NumberLemmas, TLAPS, FiniteSetTheorems, SequenceTheorems

-----------------------------------------------------------------------------
(***************************************************************************)
(* tracker.Progress.                                                       *)
(***************************************************************************)

\* A fresh progress is well formed
LEMMA ResetProgressType ==
    ASSUME NEW m \in Nat, NEW l \in Nat
    PROVE  ResetProgress(m, l) \in Progress
  BY DEF ResetProgress, Progress

\* Entering the replicating state
LEMMA BecomeReplicateType ==
    ASSUME NEW pr \in Progress
    PROVE  BecomeReplicate(pr) \in Progress
<1>1. pr.match + 1 \in Nat \ {0}
  BY DEF Progress
<1> QED
  BY <1>1 DEF BecomeReplicate, Progress

\* Going back to probing
LEMMA BecomeProbeType ==
    ASSUME NEW pr \in Progress
    PROVE  BecomeProbe(pr) \in Progress
<1>1. pr.match + 1 \in Nat \ {0} /\ pr.match \in Nat /\ pr.sentCommit \in Nat
  BY DEF Progress
<1>2. Min({pr.sentCommit, pr.match}) \in Nat
  BY <1>1, MinPair
<1> QED
  BY <1>1, <1>2 DEF BecomeProbe, Progress

\* Having sent some entries
LEMMA SentEntriesType ==
    ASSUME NEW pr \in Progress, NEW count \in Nat
    PROVE  SentEntries(pr, count) \in Progress
<1>1. pr.next + count \in Nat \ {0}
  BY DEF Progress
<1>2. (pr.paused \/ count > 0) \in BOOLEAN
  OBVIOUS
<1> QED
  BY <1>1, <1>2 DEF SentEntries, Progress

\* Having an acknowledgement
LEMMA MaybeUpdateType ==
    ASSUME NEW pr \in Progress, NEW k \in Nat
    PROVE  MaybeUpdate(pr, k) \in Progress
<1>1. pr.next \in Nat /\ k + 1 \in Nat
  BY DEF Progress
<1>2. Max({pr.next, k + 1}) \in Nat \ {0}
  BY <1>1, MaxPair DEF Progress
<1> QED
  BY <1>2 DEF MaybeUpdate, Progress

\* Having a rejection
LEMMA DecrToType ==
    ASSUME NEW pr \in Progress, NEW rejected \in Nat, NEW hint \in Nat
    PROVE  DecrTo(pr, rejected, hint) \in Progress
<1> DEFINE next == IF pr.state = "Replicate" THEN pr.match + 1
                   ELSE Max({Min({rejected, hint + 1}), pr.match + 1})
<1>1. pr.match + 1 \in Nat \ {0} /\ hint + 1 \in Nat /\ pr.sentCommit \in Nat
  BY DEF Progress
<1>2. Min({rejected, hint + 1}) \in Nat
  BY <1>1, MinPair
<1>3. Max({Min({rejected, hint + 1}), pr.match + 1}) \in Nat \ {0}
  BY <1>1, <1>2, MaxPair
<1>4. next \in Nat \ {0}
  BY <1>1, <1>3
<1>5. next - 1 \in Nat
  <2> HIDE DEF next
  <2> QED BY <1>4
<1>6. Min({pr.sentCommit, next - 1}) \in Nat
  <2> HIDE DEF next
  <2> QED BY <1>1, <1>5, MinPair
<1>7. (IF pr.state = "Replicate" THEN pr.paused ELSE FALSE) \in BOOLEAN
  BY DEF Progress
<1>8. DecrTo(pr, rejected, hint) =
        [pr EXCEPT !.next = next, !.sentCommit = Min({@, next - 1}),
                   !.paused = IF pr.state = "Replicate" THEN @ ELSE FALSE]
  BY DEF DecrTo
<1> HIDE DEF next
<1> QED
  BY <1>4, <1>6, <1>7, <1>8 DEF Progress

-----------------------------------------------------------------------------
(***************************************************************************)
(* raftLog and the quorum tracker.                                         *)
(***************************************************************************)

\* The last index of a log
LEMMA LastIndexType ==
    ASSUME NEW n \in NodeState
    PROVE  LastIndex(n) \in Nat
  BY DEF LastIndex, NodeState

\* The term of an index is a number, whatever the index
LEMMA TermAtType ==
    ASSUME NEW log \in Seq(Entry), NEW k \in Nat
    PROVE  TermAt(log, k) \in Nat
<1>1. CASE k \in 1..Len(log)
  <2>1. log[k] \in Entry
    BY <1>1
  <2> QED
    BY <2>1, <1>1 DEF TermAt, Entry
<1>2. CASE k \notin 1..Len(log)
  BY <1>2 DEF TermAt
<1> QED
  BY <1>1, <1>2

\* The hint of a rejection does not pass the index it starts from
LEMMA FindConflictType ==
    ASSUME NEW log \in Seq(Entry), NEW k \in Nat, NEW t \in Nat
    PROVE  FindConflictByTerm(log, k, t) \in Nat
<1> DEFINE S == {x \in 0..k : TermAt(log, x) <= t}
<1>1. 0 \in S
  BY DEF TermAt
<1>2. Max(S) \in S
  <2>1. S \in SUBSET (0..k) /\ S # {}
    BY <1>1
  <2> HIDE DEF S
  <2> QED
    BY <2>1, MaxIn
<1>3. Max(S) \in Nat
  BY <1>2
<1>4. FindConflictByTerm(log, k, t) = IF k > Len(log) THEN k ELSE Max(S)
  BY DEF FindConflictByTerm
<1> HIDE DEF S
<1> QED
  BY <1>3, <1>4

\* Committing up to an index
LEMMA CommitToType ==
    ASSUME NEW n \in NodeState, NEW k \in Nat
    PROVE  CommitTo(n, k) \in NodeState
<1>1. n.commit \in Nat
  BY DEF NodeState
<1>2. Max({n.commit, k}) \in Nat
  BY <1>1, MaxPair
<1> QED
  BY <1>2 DEF CommitTo, NodeState

\* All the nodes together are a quorum
LEMMA AllAreQuorum ==
    ASSUME NEW i \in Node
    PROVE  Node \in Quorum
<1>1. IsFiniteSet(Node)
  BY NodeAssumption
<1>2. Cardinality(Node) \in Nat /\ Cardinality(Node) # 0
  BY <1>1, FS_CardinalityType, FS_EmptySet
<1> QED
  BY <1>2 DEF Quorum

\* The index that a quorum has acknowledged lies in the log
LEMMA QuorumIndexType ==
    ASSUME NEW n \in NodeState, NEW i \in Node
    PROVE  QuorumIndex(n) \in Nat
<1> DEFINE S == {k \in 0..LastIndex(n) : {j \in Node : n.prog[j].match >= k} \in Quorum}
<1>1. LastIndex(n) \in Nat
  BY LastIndexType
<1>2. \A j \in Node : n.prog[j].match >= 0
  BY DEF NodeState, Progress
<1>3. {j \in Node : n.prog[j].match >= 0} = Node
  BY <1>2
<1>4. 0 \in S
  <2>1. 0 \in 0..LastIndex(n)
    BY <1>1
  <2>2. {j \in Node : n.prog[j].match >= 0} \in Quorum
    BY <1>3, AllAreQuorum
  <2> QED
    BY <2>1, <2>2
<1>5. Max(S) \in S
  <2>1. S \in SUBSET (0..LastIndex(n)) /\ S # {}
    BY <1>4
  <2> HIDE DEF S
  <2> QED
    BY <1>1, <2>1, MaxIn
<1>6. Max(S) \in Nat
  BY <1>1, <1>5
<1> QED
  BY <1>6 DEF QuorumIndex

-----------------------------------------------------------------------------
(***************************************************************************)
(* Messages.                                                               *)
(***************************************************************************)

\* A peer that is asked again
LEMMA UnpausedType ==
    ASSUME NEW pr \in Progress
    PROVE  LET u == [pr EXCEPT !.paused = FALSE]
           IN  u \in Progress /\ u.match = pr.match /\ u.next = pr.next
  BY DEF Progress

\* What a message holds follows from its type
LEMMA MessageFields ==
    ASSUME NEW m \in Message
    PROVE  /\ m.from \in Node /\ m.to \in Node /\ m.term \in Nat
           /\ m.type \in {"MsgVote", "MsgPreVote"} => m \in VoteMsg
           /\ m.type \in {"MsgVoteResp", "MsgPreVoteResp"} => m \in VoteRespMsg
           /\ m.type = "MsgApp" => m \in AppMsg
           /\ m.type = "MsgAppResp" => m \in AppRespMsg
           /\ m.type = "MsgHeartbeat" => m \in HeartbeatMsg
           /\ m.type = "MsgHeartbeatResp" => m \in HeartbeatRespMsg
           /\ m.type \in {"MsgTimeoutNow", "MsgTransferLeader"} => m \in SimpleMsg
           /\ m.type = "MsgProp" => m \in PropMsg
           /\ m.type = "MsgReadIndex" => m \in ReadIndexMsg
           /\ m.type = "MsgReadIndexResp" => m \in ReadIndexRespMsg
  BY DEF Message, VoteMsg, VoteRespMsg, AppMsg, AppRespMsg, HeartbeatMsg, HeartbeatRespMsg,
         SimpleMsg, PropMsg, ReadIndexMsg, ReadIndexRespMsg

\* Whatever its type, it has ends and a term
LEMMA MessageEnds ==
    ASSUME NEW m \in Message
    PROVE  m.from \in Node /\ m.to \in Node /\ m.term \in Nat
  BY MessageFields

\* A message that waits in the outbox
LEMMA SendType ==
    ASSUME NEW n \in NodeState, NEW ms \in SUBSET Message
    PROVE  Send(n, ms) \in NodeState
  BY DEF Send, NodeState

\* A message that waits for the node itself
LEMMA SendSelfType ==
    ASSUME NEW n \in NodeState, NEW m \in VoteRespMsg \cup AppRespMsg
    PROVE  SendSelf(n, m) \in NodeState
<1>1. Append(n.self, m) \in Seq(VoteRespMsg \cup AppRespMsg)
  BY DEF NodeState
<1> QED
  BY <1>1 DEF SendSelf, NodeState

\* An acknowledgement
LEMMA AppRespType ==
    ASSUME NEW i \in Node, NEW n \in NodeState, NEW to \in Node, NEW index \in Nat
    PROVE  AppResp(i, n, to, index) \in AppRespMsg
  BY DEF AppResp, AppRespMsg, NodeState

\* A rejection
LEMMA AppRejectType ==
    ASSUME NEW i \in Node, NEW n \in NodeState, NEW to \in Node, NEW index \in Nat,
           NEW hint \in Nat, NEW hintTerm \in Nat
    PROVE  AppReject(i, n, to, index, hint, hintTerm) \in AppRespMsg
  BY DEF AppReject, AppRespMsg, NodeState

\* An answer to a request for a vote
LEMMA VoteRespType ==
    ASSUME NEW type \in {"MsgVoteResp", "MsgPreVoteResp"}, NEW i \in Node, NEW to \in Node,
           NEW term \in Nat, NEW reject \in BOOLEAN
    PROVE  VoteResp(type, i, to, term, reject) \in VoteRespMsg
  BY DEF VoteResp, VoteRespMsg

\* A part of a log
LEMMA SubSeqType ==
    ASSUME NEW log \in Seq(Entry), NEW a \in Nat \ {0}, NEW b \in Nat, b =< Len(log)
    PROVE  SubSeq(log, a, b) \in Seq(Entry) /\ Len(SubSeq(log, a, b)) \in Nat
<1>1. SubSeq(log, a, b) \in Seq(Entry)
  BY SubSeqProperties
<1> QED
  BY <1>1

\* A message with entries
LEMMA AppType ==
    ASSUME NEW i \in Node, NEW n \in NodeState, NEW to \in Node, NEW next \in Nat \ {0}
    PROVE  App(i, n, to, next) \in AppMsg /\ Len(App(i, n, to, next).entries) \in Nat
<1>1. MaxEnts \in Nat \ {0}
  BY OptionAssumption
<1>2. n.log \in Seq(Entry) /\ n.term \in Nat /\ n.commit \in Nat
  BY DEF NodeState
<1>3. next - 1 \in Nat /\ next + MaxEnts - 1 \in Nat /\ LastIndex(n) \in Nat
  BY <1>1, LastIndexType
<1> DEFINE last == Min({next + MaxEnts - 1, LastIndex(n)})
<1>4. last \in Nat /\ last =< Len(n.log)
  BY <1>3, MinPair DEF LastIndex
<1>5. SubSeq(n.log, next, last) \in Seq(Entry) /\ Len(SubSeq(n.log, next, last)) \in Nat
  <2> HIDE DEF last
  <2> QED
    BY <1>2, <1>4, SubSeqType
<1>6. TermAt(n.log, next - 1) \in Nat
  BY <1>2, <1>3, TermAtType
<1>7. App(i, n, to, next) =
        [type |-> "MsgApp", from |-> i, to |-> to, term |-> n.term, index |-> next - 1,
         logTerm |-> TermAt(n.log, next - 1), entries |-> SubSeq(n.log, next, last),
         commit |-> n.commit]
  BY DEF App
<1> HIDE DEF last
<1> QED
  BY <1>2, <1>3, <1>5, <1>6, <1>7 DEF AppMsg

\* What a node knows of a peer
LEMMA ProgType ==
    ASSUME NEW n \in NodeState, NEW j \in Node
    PROVE  /\ n.prog[j] \in Progress
           /\ n.prog[j].match \in Nat /\ n.prog[j].next \in Nat \ {0}
           /\ n.prog[j].sentCommit \in Nat
<1>1. n.prog \in [Node -> Progress]
  BY DEF NodeState
<1>2. n.prog[j] \in Progress
  BY <1>1
<1> QED
  BY <1>2 DEF Progress

\* A change to what a node knows of a peer
LEMMA SetProgType ==
    ASSUME NEW n \in NodeState, NEW j \in Node, NEW pr \in Progress
    PROVE  [n EXCEPT !.prog[j] = pr] \in NodeState
  BY DEF NodeState

\* maybeSendAppend
LEMMA MaybeSendAppendType ==
    ASSUME NEW i \in Node, NEW n \in NodeState, NEW peers \in SUBSET Node,
           NEW sendIfEmpty \in BOOLEAN
    PROVE  MaybeSendAppend(i, n, peers, sendIfEmpty) \in NodeState
<1> DEFINE app(j) == App(i, n, j, n.prog[j].next)
           to == {j \in peers : /\ ~n.prog[j].paused
                                /\ sendIfEmpty \/ app(j).entries # <<>>}
           out == n.outbox \cup {app(j) : j \in to}
           sent(j) == SentEntries(n.prog[j], Len(app(j).entries))
           prog == [j \in Node |-> IF j \in to
                                   THEN [sent(j) EXCEPT !.sentCommit = n.commit]
                                   ELSE n.prog[j]]
<1>1. \A j \in Node : app(j) \in AppMsg /\ Len(app(j).entries) \in Nat
  BY ProgType, AppType
<1>2. \A j \in Node : [sent(j) EXCEPT !.sentCommit = n.commit] \in Progress
  <2> TAKE j \in Node
  <2>1. sent(j) \in Progress
    BY <1>1, ProgType, SentEntriesType
  <2>2. n.commit \in Nat
    BY DEF NodeState
  <2> HIDE DEF sent
  <2> QED
    BY <2>1, <2>2 DEF Progress
<1>3. prog \in [Node -> Progress]
  <2> HIDE DEF sent, to
  <2> QED
    BY <1>2, ProgType
<1>4. out \in SUBSET Message
  <2>1. to \subseteq Node /\ n.outbox \in SUBSET Message
    BY DEF NodeState
  <2> HIDE DEF to, app
  <2> QED
    BY <1>1, <2>1 DEF Message
<1>5. MaybeSendAppend(i, n, peers, sendIfEmpty) = [n EXCEPT !.outbox = out, !.prog = prog]
  BY DEF MaybeSendAppend
<1> HIDE DEF prog, out
<1> QED
  BY <1>3, <1>4, <1>5 DEF NodeState

\* The loop over what is left to send
LEMMA SendRestType ==
    ASSUME NEW i \in Node, NEW n \in NodeState, NEW j \in Node
    PROVE  SendRest(i, n, j) \in NodeState
<1> DEFINE next == n.prog[j].next
           starts == {k \in next..LastIndex(n) : (k - next) % MaxEnts = 0}
           out == n.outbox \cup {App(i, n, j, k) : k \in starts}
           pr == [n.prog[j] EXCEPT !.next = LastIndex(n) + 1, !.sentCommit = n.commit]
           sent == [n EXCEPT !.outbox = out]
<1>1. next \in Nat \ {0} /\ LastIndex(n) \in Nat
  BY ProgType, LastIndexType
<1>2. starts \subseteq Nat \ {0}
  <2> HIDE DEF next
  <2> QED
    BY <1>1
<1>3. \A k \in starts : App(i, n, j, k) \in AppMsg
  <2> HIDE DEF starts
  <2> QED
    BY <1>2, AppType
<1>4. out \in SUBSET Message
  <2>1. n.outbox \in SUBSET Message
    BY DEF NodeState
  <2> HIDE DEF starts
  <2> QED
    BY <1>3, <2>1 DEF Message
<1>5. pr \in Progress
  <2>1. LastIndex(n) + 1 \in Nat \ {0}
    BY LastIndexType
  <2>2. n.commit \in Nat
    BY DEF NodeState
  <2> QED
    BY <2>1, <2>2, ProgType DEF Progress
<1>6. SendRest(i, n, j) = IF starts = {} THEN n ELSE [sent EXCEPT !.prog[j] = pr]
  BY DEF SendRest
<1>7. sent \in NodeState
  <2> HIDE DEF out
  <2> QED
    BY <1>4 DEF NodeState
<1>8. [sent EXCEPT !.prog[j] = pr] \in NodeState
  <2> HIDE DEF sent, pr
  <2> QED
    BY <1>5, <1>7, SetProgType
<1> HIDE DEF starts, sent, pr
<1> QED
  BY <1>6, <1>8

\* bcastAppend
LEMMA BcastAppendType ==
    ASSUME NEW i \in Node, NEW n \in NodeState
    PROVE  BcastAppend(i, n) \in NodeState
  BY MaybeSendAppendType DEF BcastAppend

\* bcastHeartbeat
LEMMA BcastHeartbeatType ==
    ASSUME NEW i \in Node, NEW n \in NodeState, NEW ctxs \in SUBSET Nat
    PROVE  BcastHeartbeat(i, n, ctxs) \in NodeState
<1> DEFINE commit(j) == Min({n.prog[j].match, n.commit})
           beat(j, c) == [type |-> "MsgHeartbeat", from |-> i, to |-> j, term |-> n.term,
                          commit |-> commit(j), ctx |-> c]
           out == n.outbox \cup {beat(j, c) : j \in Node \ {i}, c \in ctxs}
           prog == [j \in Node |-> IF j = i THEN n.prog[j]
                                   ELSE [n.prog[j] EXCEPT !.sentCommit = commit(j)]]
<1>1. n.term \in Nat /\ n.commit \in Nat /\ n.outbox \in SUBSET Message
  BY DEF NodeState
<1>2. \A j \in Node : commit(j) \in Nat
  BY <1>1, ProgType, MinPair
<1>3. \A j \in Node : \A c \in ctxs : beat(j, c) \in HeartbeatMsg
  <2> HIDE DEF commit
  <2> QED
    BY <1>1, <1>2 DEF HeartbeatMsg
<1>4. out \in SUBSET Message
  <2> HIDE DEF beat
  <2> QED
    BY <1>1, <1>3 DEF Message
<1>5. prog \in [Node -> Progress]
  <2> HIDE DEF commit
  <2>1. \A j \in Node : [n.prog[j] EXCEPT !.sentCommit = commit(j)] \in Progress
    BY <1>2, ProgType DEF Progress
  <2> QED
    BY <2>1, ProgType
<1>6. BcastHeartbeat(i, n, ctxs) = [n EXCEPT !.outbox = out, !.prog = prog]
  BY DEF BcastHeartbeat
<1> HIDE DEF out, prog
<1> QED
  BY <1>4, <1>5, <1>6 DEF NodeState

-----------------------------------------------------------------------------
(***************************************************************************)
(* Changes of role.                                                        *)
(***************************************************************************)

\* reset
LEMMA ResetType ==
    ASSUME NEW i \in Node, NEW n \in NodeState, NEW t \in Nat
    PROVE  Reset(i, n, t) \in NodeState
<1> DEFINE prog == [j \in Node |->
                     ResetProgress(IF j = i THEN LastIndex(n) ELSE 0, LastIndex(n))]
           vote == IF n.term = t THEN n.vote ELSE None
<1>1. prog \in [Node -> Progress]
  BY ResetProgressType, LastIndexType
<1>2. vote \in Node \cup {None}
  BY DEF NodeState
<1>3. Reset(i, n, t) = [n EXCEPT !.term = t, !.vote = vote, !.lead = None,
                                 !.transferee = None, !.granted = {}, !.rejected = {},
                                 !.prog = prog]
  BY DEF Reset
<1> HIDE DEF prog, vote
<1> QED
  BY <1>1, <1>2, <1>3 DEF NodeState

\* becomeFollower
LEMMA BecomeFollowerType ==
    ASSUME NEW i \in Node, NEW n \in NodeState, NEW t \in Nat, NEW lead \in Node \cup {None}
    PROVE  BecomeFollower(i, n, t, lead) \in NodeState
<1> DEFINE r == Reset(i, n, t)
<1>1. r \in NodeState
  BY ResetType
<1>2. BecomeFollower(i, n, t, lead) = [r EXCEPT !.lead = lead, !.state = "Follower"]
  BY DEF BecomeFollower
<1> HIDE DEF r
<1> QED
  BY <1>1, <1>2 DEF NodeState

\* becomeCandidate
LEMMA BecomeCandidateType ==
    ASSUME NEW i \in Node, NEW n \in NodeState
    PROVE  BecomeCandidate(i, n) \in NodeState
<1>1. n.term + 1 \in Nat
  BY DEF NodeState
<1>2. Reset(i, n, n.term + 1) \in NodeState
  BY <1>1, ResetType
<1> QED
  BY <1>2 DEF BecomeCandidate, NodeState

\* becomePreCandidate
LEMMA BecomePreCandidateType ==
    ASSUME NEW n \in NodeState
    PROVE  BecomePreCandidate(n) \in NodeState
  BY DEF BecomePreCandidate, NodeState

\* appendEntry
LEMMA AppendEntryType ==
    ASSUME NEW i \in Node, NEW n \in NodeState, NEW val \in Value \cup {Empty}
    PROVE  AppendEntry(i, n, val) \in NodeState
<1> DEFINE a == [n EXCEPT !.log = Append(@, [term |-> n.term, val |-> val])]
<1>1. [term |-> n.term, val |-> val] \in Entry
  BY DEF NodeState, Entry
<1>2. Append(n.log, [term |-> n.term, val |-> val]) \in Seq(Entry)
  BY <1>1 DEF NodeState
<1>3. a \in NodeState
  BY <1>2 DEF NodeState
<1>4. AppResp(i, a, i, LastIndex(a)) \in AppRespMsg
  <2> HIDE DEF a
  <2> QED
    BY <1>3, LastIndexType, AppRespType
<1>5. AppendEntry(i, n, val) = SendSelf(a, AppResp(i, a, i, LastIndex(a)))
  BY DEF AppendEntry
<1> HIDE DEF a
<1> QED
  BY <1>3, <1>4, <1>5, SendSelfType

\* becomeLeader
LEMMA BecomeLeaderType ==
    ASSUME NEW i \in Node, NEW n \in NodeState
    PROVE  BecomeLeader(i, n) \in NodeState
<1> DEFINE r == Reset(i, n, n.term)
           pr == BecomeReplicate(r.prog[i])
           l == [[r EXCEPT !.lead = i, !.state = "Leader"] EXCEPT !.prog[i] = pr]
<1>1. r \in NodeState
  BY ResetType DEF NodeState
<1>2. pr \in Progress
  <2> HIDE DEF r
  <2> QED
    BY <1>1, ProgType, BecomeReplicateType
<1>3. [r EXCEPT !.lead = i, !.state = "Leader"] \in NodeState
  <2> HIDE DEF r
  <2> QED
    BY <1>1 DEF NodeState
<1>4. l \in NodeState
  <2> HIDE DEF r, pr
  <2> QED
    BY <1>2, <1>3, SetProgType
<1>5. BecomeLeader(i, n) = AppendEntry(i, l, Empty)
  BY DEF BecomeLeader
<1> HIDE DEF l
<1> QED
  BY <1>4, <1>5, AppendEntryType

\* The messages of a campaign
LEMMA SendCampaignType ==
    ASSUME NEW i \in Node, NEW n \in NodeState, NEW pre \in BOOLEAN
    PROVE  SendCampaign(i, n, pre) \in NodeState
<1> DEFINE term == IF pre THEN n.term + 1 ELSE n.term
           request(j) == [type |-> IF pre THEN "MsgPreVote" ELSE "MsgVote", from |-> i,
                          to |-> j, term |-> term, index |-> LastIndex(n),
                          logTerm |-> LastTerm(n)]
           ms == {request(j) : j \in Node \ {i}}
           answer == VoteResp(IF pre THEN "MsgPreVoteResp" ELSE "MsgVoteResp", i, i, term,
                              FALSE)
<1>1. term \in Nat
  BY DEF NodeState
<1>2. LastIndex(n) \in Nat /\ LastTerm(n) \in Nat
  BY LastIndexType, TermAtType DEF LastTerm, NodeState
<1>3. \A j \in Node : request(j) \in VoteMsg
  <2> HIDE DEF term
  <2> QED
    BY <1>1, <1>2 DEF VoteMsg
<1>4. ms \in SUBSET Message
  <2> HIDE DEF request
  <2> QED
    BY <1>3 DEF Message
<1>5. answer \in VoteRespMsg
  <2> HIDE DEF term
  <2> QED
    BY <1>1, VoteRespType
<1>6. SendCampaign(i, n, pre) = SendSelf(Send(n, ms), answer)
  BY DEF SendCampaign
<1> HIDE DEF ms, answer
<1> QED
  BY <1>4, <1>5, <1>6, SendType, SendSelfType

\* campaign
LEMMA CampaignType ==
    ASSUME NEW i \in Node, NEW n \in NodeState, NEW pre \in BOOLEAN
    PROVE  Campaign(i, n, pre) \in NodeState
  BY BecomeCandidateType, BecomePreCandidateType, SendCampaignType DEF Campaign

-----------------------------------------------------------------------------
(***************************************************************************)
(* Step.                                                                   *)
(***************************************************************************)

\* The first switch of Step
LEMMA AtTermOfType ==
    ASSUME NEW i \in Node, NEW n \in NodeState, NEW m \in Message
    PROVE  AtTermOf(i, n, m) \in NodeState
<1>1. m.term \in Nat /\ m.from \in Node
  BY MessageEnds
<1> QED
  BY <1>1, BecomeFollowerType DEF AtTermOf

\* A message of a lower term
LEMMA StepLowerTermType ==
    ASSUME NEW i \in Node, NEW n \in NodeState, NEW m \in Message
    PROVE  StepLowerTerm(i, n, m) \in NodeState
<1>1. m.from \in Node /\ n.term \in Nat
  BY MessageEnds DEF NodeState
<1>2. Send(n, {AppResp(i, n, m.from, 0)}) \in NodeState
  BY <1>1, AppRespType, SendType DEF Message
<1> DEFINE v == VoteResp("MsgPreVoteResp", i, m.from, n.term, TRUE)
<1>3. v \in VoteRespMsg
  BY <1>1, VoteRespType
<1> HIDE DEF v
<1>4. Send(n, {v}) \in NodeState
  BY <1>3, SendType DEF Message
<1> QED
  BY <1>2, <1>4 DEF StepLowerTerm, v

\* A request for a vote
LEMMA StepVoteType ==
    ASSUME NEW i \in Node, NEW n \in NodeState, NEW m \in Message
    PROVE  StepVote(i, n, m) \in NodeState
<1> DEFINE type == IF m.type = "MsgPreVote" THEN "MsgPreVoteResp" ELSE "MsgVoteResp"
           yes == Send(n, {VoteResp(type, i, m.from, m.term, FALSE)})
           no == Send(n, {VoteResp(type, i, m.from, n.term, TRUE)})
<1>1. m.from \in Node /\ m.term \in Nat /\ n.term \in Nat
  BY MessageFields DEF NodeState
<1>2. VoteResp(type, i, m.from, m.term, FALSE) \in Message
  BY <1>1, VoteRespType DEF Message
<1>3. VoteResp(type, i, m.from, n.term, TRUE) \in Message
  BY <1>1, VoteRespType DEF Message
<1>4. yes \in NodeState /\ no \in NodeState
  <2> HIDE DEF type
  <2> QED
    BY <1>2, <1>3, SendType
<1>5. [yes EXCEPT !.vote = IF m.type = "MsgPreVote" THEN @ ELSE m.from] \in NodeState
  <2> HIDE DEF yes
  <2> QED
    BY <1>1, <1>4 DEF NodeState
<1>6. StepVote(i, n, m) = no \/
      StepVote(i, n, m) = [yes EXCEPT !.vote = IF m.type = "MsgPreVote" THEN @ ELSE m.from]
  BY DEF StepVote
<1> HIDE DEF yes, no
<1> QED
  BY <1>4, <1>5, <1>6

\* An answer to a request for a vote
LEMMA StepVoteRespType ==
    ASSUME NEW i \in Node, NEW n \in NodeState, NEW m \in Message
    PROVE  StepVoteResp(i, n, m) \in NodeState
<1> DEFINE polled == IF m.from \in n.granted \cup n.rejected THEN n
                     ELSE IF m.reject THEN [n EXCEPT !.rejected = @ \cup {m.from}]
                     ELSE [n EXCEPT !.granted = @ \cup {m.from}]
<1>1. m.from \in Node /\ n.term \in Nat
  BY MessageFields DEF NodeState
<1>2. polled \in NodeState
  BY <1>1 DEF NodeState
<1>3. Campaign(i, polled, FALSE) \in NodeState
  BY <1>2, CampaignType
<1>4. BcastAppend(i, BecomeLeader(i, polled)) \in NodeState
  BY <1>2, BecomeLeaderType, BcastAppendType
<1>5. BecomeFollower(i, polled, n.term, None) \in NodeState
  BY <1>1, <1>2, BecomeFollowerType
<1>6. \/ StepVoteResp(i, n, m) = Campaign(i, polled, FALSE)
      \/ StepVoteResp(i, n, m) = BcastAppend(i, BecomeLeader(i, polled))
      \/ StepVoteResp(i, n, m) = BecomeFollower(i, polled, n.term, None)
      \/ StepVoteResp(i, n, m) = polled
  <2> DEFINE won == polled.granted \in Quorum
             lost == Node \ polled.rejected \notin Quorum
  <2>1. StepVoteResp(i, n, m) =
          CASE won /\ n.state = "PreCandidate" -> Campaign(i, polled, FALSE)
            [] won /\ n.state = "Candidate"    -> BcastAppend(i, BecomeLeader(i, polled))
            [] ~won /\ lost                    -> BecomeFollower(i, polled, n.term, None)
            [] OTHER                           -> polled
    BY DEF StepVoteResp
  <2> HIDE DEF polled, won, lost
  <2> QED
    BY <2>1
<1> HIDE DEF polled
<1> QED
  BY <1>2, <1>3, <1>4, <1>5, <1>6

\* Following the sender of a message
LEMMA FollowSenderType ==
    ASSUME NEW i \in Node, NEW n \in NodeState, NEW m \in Message
    PROVE  FollowSender(i, n, m) \in NodeState
<1>1. m.from \in Node /\ m.term \in Nat
  BY MessageFields
<1>2. [n EXCEPT !.lead = m.from] \in NodeState
  BY <1>1 DEF NodeState
<1>3. BecomeFollower(i, n, m.term, m.from) \in NodeState
  BY <1>1, BecomeFollowerType
<1> QED
  BY <1>2, <1>3 DEF FollowSender

\* The entries of a message taken into a log
LEMMA AppendAfterType ==
    ASSUME NEW log \in Seq(Entry), NEW from \in Nat, from =< Len(log),
           NEW entries \in Seq(Entry)
    PROVE  AppendAfter(log, from, entries) \in Seq(Entry)
<1> DEFINE conflict == {k \in 1..Len(entries) :
                          from + k > Len(log) \/ log[from + k].term # entries[k].term}
           first == Min(conflict)
<1>1. CASE conflict = {}
  BY <1>1 DEF AppendAfter
<1>2. CASE conflict # {}
  <2>1. first \in 1..Len(entries) /\ \A k \in conflict : first =< k
    <3>1. conflict \in SUBSET Nat
      OBVIOUS
    <3>2. conflict \subseteq 1..Len(entries)
      OBVIOUS
    <3> HIDE DEF conflict
    <3> QED
      BY <1>2, <3>1, <3>2, MinIn
  <2>2. from + first - 1 =< Len(log)
    <3>1. CASE first = 1
      BY <3>1
    <3>2. CASE first > 1
      <4>1. first - 1 \notin conflict /\ first - 1 \in 1..Len(entries)
        <5> HIDE DEF conflict
        <5>1. Len(entries) \in Nat /\ first \in Nat
          BY <2>1
        <5>2. first - 1 \in 1..Len(entries)
          <6> HIDE DEF first
          <6> QED
            BY <2>1, <3>2, <5>1
        <5>3. ~ (first =< first - 1)
          <6> HIDE DEF first
          <6> QED
            BY <5>1
        <5> QED
          BY <2>1, <5>2, <5>3
      <4>2. ~ (from + (first - 1) > Len(log))
        <5> HIDE DEF first
        <5> QED
          BY <4>1
      <4>3. from + first - 1 = from + (first - 1) /\ Len(log) \in Nat
        <5> HIDE DEF first
        <5> QED
          BY <2>1
      <4> QED
        <5> HIDE DEF first
        <5> QED
          BY <4>2, <4>3, <2>1
    <3> HIDE DEF first
    <3> QED
      BY <2>1, <3>1, <3>2
  <2>3. SubSeq(log, 1, from + first - 1) \in Seq(Entry)
    <3> HIDE DEF first
    <3>1. from + first - 1 \in Nat
      BY <2>1
    <3> QED
      BY <2>2, <3>1, SubSeqType
  <2>4. EntriesFrom(entries, first) \in Seq(Entry)
    <3> HIDE DEF first
    <3>1. first \in Nat \ {0} /\ Len(entries) \in Nat
      BY <2>1
    <3> QED
      BY <3>1, SubSeqType DEF EntriesFrom
  <2>5. AppendAfter(log, from, entries) =
          SubSeq(log, 1, from + first - 1) \o EntriesFrom(entries, first)
    BY <1>2 DEF AppendAfter
  <2> HIDE DEF first
  <2> QED
    BY <2>3, <2>4, <2>5, ConcatProperties
<1> QED
  BY <1>1, <1>2

\* handleAppendEntries
LEMMA HandleAppendEntriesType ==
    ASSUME NEW i \in Node, NEW n \in NodeState, NEW m \in AppMsg
    PROVE  HandleAppendEntries(i, n, m) \in NodeState
<1> DEFINE last == m.index + Len(m.entries)
           hint == FindConflictByTerm(n.log, Min({m.index, LastIndex(n)}), m.logTerm)
           old == Send(n, {AppResp(i, n, m.from, n.commit)})
           grown == [n EXCEPT !.log = AppendAfter(@, m.index, m.entries)]
           new == Send(CommitTo(grown, Min({m.commit, last})), {AppResp(i, n, m.from, last)})
           no == Send(n, {AppReject(i, n, m.from, m.index, hint, TermAt(n.log, hint))})
<1>1. /\ m.from \in Node /\ m.index \in Nat /\ m.commit \in Nat /\ m.logTerm \in Nat
      /\ m.entries \in Seq(Entry)
  BY DEF AppMsg
<1>2. n.log \in Seq(Entry) /\ n.commit \in Nat
  BY DEF NodeState
<1>3. last \in Nat
  BY <1>1
<1>4. hint \in Nat
  <2>1. Min({m.index, LastIndex(n)}) \in Nat
    BY <1>1, LastIndexType, MinPair
  <2> QED
    BY <1>1, <1>2, <2>1, FindConflictType
<1>5. old \in NodeState
  BY <1>1, <1>2, AppRespType, SendType DEF Message
<1>6. no \in NodeState
  <2> HIDE DEF hint
  <2>1. TermAt(n.log, hint) \in Nat
    BY <1>2, <1>4, TermAtType
  <2> QED
    BY <1>1, <1>4, <2>1, AppRejectType, SendType DEF Message
<1>7. ASSUME MatchTerm(n.log, m.index, m.logTerm)
      PROVE  new \in NodeState
  <2>1. m.index =< Len(n.log)
    BY <1>1, <1>2, <1>7 DEF MatchTerm
  <2>2. AppendAfter(n.log, m.index, m.entries) \in Seq(Entry)
    BY <1>1, <1>2, <2>1, AppendAfterType
  <2>3. grown \in NodeState
    BY <2>2 DEF NodeState
  <2>4. Min({m.commit, last}) \in Nat
    <3> HIDE DEF last
    <3> QED
      BY <1>1, <1>3, MinPair
  <2>5. AppResp(i, n, m.from, last) \in Message
    <3> HIDE DEF last
    <3> QED
      BY <1>1, <1>3, AppRespType DEF Message
  <2> HIDE DEF grown, last
  <2> QED
    BY <2>3, <2>4, <2>5, CommitToType, SendType
<1>8. \/ HandleAppendEntries(i, n, m) = old
      \/ HandleAppendEntries(i, n, m) = no
      \/ HandleAppendEntries(i, n, m) = new /\ MatchTerm(n.log, m.index, m.logTerm)
  <2>1. HandleAppendEntries(i, n, m) =
          CASE m.index < n.commit -> old
            [] m.index >= n.commit /\ MatchTerm(n.log, m.index, m.logTerm) -> new
            [] OTHER -> no
    BY DEF HandleAppendEntries
  <2> HIDE DEF old, new, no
  <2> QED
    BY <2>1
<1> HIDE DEF old, new, no
<1> QED
  BY <1>5, <1>6, <1>7, <1>8

\* MsgApp
LEMMA StepAppType ==
    ASSUME NEW i \in Node, NEW n \in NodeState, NEW m \in Message, m.type = "MsgApp"
    PROVE  StepApp(i, n, m) \in NodeState
<1>1. m \in AppMsg
  BY MessageFields
<1> QED
  BY <1>1, FollowSenderType, HandleAppendEntriesType DEF StepApp

\* MsgHeartbeat
LEMMA StepHeartbeatType ==
    ASSUME NEW i \in Node, NEW n \in NodeState, NEW m \in Message, m.type = "MsgHeartbeat"
    PROVE  StepHeartbeat(i, n, m) \in NodeState
<1>1. m.from \in Node /\ m.commit \in Nat /\ m.ctx \in Nat
  BY MessageFields DEF HeartbeatMsg
<1>2. HeartbeatResp(i, n, m) \in Message
  BY <1>1 DEF HeartbeatResp, Message, HeartbeatRespMsg, NodeState
<1>3. CommitTo(FollowSender(i, n, m), m.commit) \in NodeState
  BY <1>1, FollowSenderType, CommitToType
<1> QED
  BY <1>2, <1>3, SendType DEF StepHeartbeat

\* MsgAppResp with Reject
LEMMA StepAppRejectType ==
    ASSUME NEW i \in Node, NEW n \in NodeState, NEW m \in AppRespMsg
    PROVE  StepAppReject(i, n, m) \in NodeState
<1> DEFINE j == m.from
           hint == IF m.logTerm > 0 THEN FindConflictByTerm(n.log, m.rejectHint, m.logTerm)
                   ELSE m.rejectHint
           decr == DecrTo(n.prog[j], m.index, hint)
           probe == IF decr.state = "Replicate" THEN BecomeProbe(decr) ELSE decr
           backed == [n EXCEPT !.prog[j] = probe]
<1>1. j \in Node /\ m.index \in Nat /\ m.rejectHint \in Nat /\ m.logTerm \in Nat
  BY DEF AppRespMsg
<1>2. hint \in Nat
  BY <1>1, FindConflictType DEF NodeState
<1>3. decr \in Progress
  <2> HIDE DEF hint
  <2> QED
    BY <1>1, <1>2, ProgType, DecrToType
<1>4. probe \in Progress
  <2> HIDE DEF decr
  <2> QED
    BY <1>3, BecomeProbeType
<1>5. backed \in NodeState
  <2> HIDE DEF probe, j
  <2> QED
    BY <1>1, <1>4, SetProgType
<1>6. MaybeSendAppend(i, backed, {j}, TRUE) \in NodeState
  <2> HIDE DEF backed
  <2> QED
    BY <1>1, <1>5, MaybeSendAppendType
<1>7. StepAppReject(i, n, m) \in {n, MaybeSendAppend(i, backed, {j}, TRUE)}
  BY DEF StepAppReject
<1> HIDE DEF backed
<1> QED
  BY <1>6, <1>7

\* maybeCommit and what is sent after it
LEMMA CommitAndSendType ==
    ASSUME NEW i \in Node, NEW n \in NodeState, NEW j \in Node
    PROVE  CommitAndSend(i, n, j) \in NodeState
<1> DEFINE c == [n EXCEPT !.commit = QuorumIndex(n)]
           bump == ~CanCommit(n) /\ j # i /\ CanBumpCommit(n.prog[j], n.commit)
           sent == CASE CanCommit(n) -> BcastAppend(i, c)
                     [] bump -> MaybeSendAppend(i, n, {j}, TRUE)
                     [] OTHER -> n
<1>1. c \in NodeState
  BY QuorumIndexType DEF NodeState
<1>2. BcastAppend(i, c) \in NodeState
  <2> HIDE DEF c
  <2> QED
    BY <1>1, BcastAppendType
<1>3. MaybeSendAppend(i, n, {j}, TRUE) \in NodeState
  BY MaybeSendAppendType
<1>4. sent \in NodeState
  <2> HIDE DEF c, bump
  <2> QED
    BY <1>2, <1>3
<1>5. CommitAndSend(i, n, j) = IF j = i THEN sent ELSE SendRest(i, sent, j)
  BY DEF CommitAndSend
<1> HIDE DEF sent
<1> QED
  BY <1>4, <1>5, SendRestType

\* A message to a node that may take over
LEMMA SendSimpleType ==
    ASSUME NEW i \in Node, NEW n \in NodeState, NEW o \in NodeState, NEW j \in Node
    PROVE  Send(o, {Simple("MsgTimeoutNow", i, n, j)}) \in NodeState
<1>1. Simple("MsgTimeoutNow", i, n, j) \in Message
  BY DEF Simple, SimpleMsg, Message, NodeState
<1> QED
  BY <1>1, SendType

\* MsgAppResp without Reject
LEMMA StepAppAcceptType ==
    ASSUME NEW i \in Node, NEW n \in NodeState, NEW m \in AppRespMsg
    PROVE  StepAppAccept(i, n, m) \in NodeState
<1> DEFINE j == m.from
           upd == MaybeUpdate(n.prog[j], m.index)
           next == IF upd.state = "Probe" THEN BecomeReplicate(upd) ELSE upd
           counted == [n EXCEPT !.prog[j] = next]
           done == CommitAndSend(i, counted, j)
<1>1. j \in Node /\ m.index \in Nat
  BY DEF AppRespMsg
<1>2. upd \in Progress
  BY <1>1, ProgType, MaybeUpdateType
<1>3. next \in Progress
  <2> HIDE DEF upd
  <2> QED
    BY <1>2, BecomeReplicateType
<1>4. counted \in NodeState
  <2> HIDE DEF next, j
  <2> QED
    BY <1>1, <1>3, SetProgType
<1>5. done \in NodeState
  <2> HIDE DEF counted
  <2> QED
    BY <1>1, <1>4, CommitAndSendType
<1>6. Send(done, {Simple("MsgTimeoutNow", i, n, j)}) \in NodeState
  <2> HIDE DEF done
  <2> QED
    BY <1>1, <1>5, SendSimpleType
<1>7. StepAppAccept(i, n, m) \in {n, done, Send(done, {Simple("MsgTimeoutNow", i, n, j)})}
  BY DEF StepAppAccept
<1> HIDE DEF done
<1> QED
  BY <1>5, <1>6, <1>7

\* MsgAppResp
LEMMA StepAppRespType ==
    ASSUME NEW i \in Node, NEW n \in NodeState, NEW m \in AppRespMsg
    PROVE  StepAppResp(i, n, m) \in NodeState
  BY StepAppRejectType, StepAppAcceptType DEF StepAppResp

\* MsgHeartbeatResp
LEMMA StepHeartbeatRespType ==
    ASSUME NEW i \in Node, NEW n \in NodeState, NEW m \in Message
    PROVE  StepHeartbeatResp(i, n, m) \in NodeState
<1> DEFINE r == [n EXCEPT !.prog[m.from].paused = FALSE]
<1>1. m.from \in Node
  BY MessageEnds
<1>2. [n.prog[m.from] EXCEPT !.paused = FALSE] \in Progress
  BY <1>1, ProgType, UnpausedType
<1>3. r = [n EXCEPT !.prog[m.from] = [n.prog[m.from] EXCEPT !.paused = FALSE]]
  OBVIOUS
<1>4. r \in NodeState
  <2> HIDE DEF r
  <2> QED
    BY <1>1, <1>2, <1>3, SetProgType
<1>5. MaybeSendAppend(i, r, {m.from}, TRUE) \in NodeState
  <2> HIDE DEF r
  <2> QED
    BY <1>1, <1>4, MaybeSendAppendType
<1>6. StepHeartbeatResp(i, n, m) \in {r, MaybeSendAppend(i, r, {m.from}, TRUE)}
  BY DEF StepHeartbeatResp
<1> HIDE DEF r
<1> QED
  BY <1>4, <1>5, <1>6

\* MsgTransferLeader
LEMMA StepTransferLeaderType ==
    ASSUME NEW i \in Node, NEW n \in NodeState, NEW to \in Node
    PROVE  StepTransferLeader(i, n, to) \in NodeState
<1> DEFINE r == [n EXCEPT !.transferee = to]
           a == [n EXCEPT !.transferee = None]
           pass == Send(n, {[type |-> "MsgTransferLeader", from |-> to, to |-> n.lead,
                             term |-> n.term]})
           now == Send(r, {Simple("MsgTimeoutNow", i, n, to)})
           catchUp == MaybeSendAppend(i, r, {to}, TRUE)
<1>1. r \in NodeState /\ a \in NodeState
  BY DEF NodeState
<1>2. ASSUME n.lead # None
      PROVE  pass \in NodeState
  <2>1. n.lead \in Node /\ n.term \in Nat
    BY <1>2 DEF NodeState
  <2>2. [type |-> "MsgTransferLeader", from |-> to, to |-> n.lead, term |-> n.term]
          \in Message
    BY <2>1 DEF Message, SimpleMsg
  <2> QED
    BY <2>2, SendType
<1>3. now \in NodeState
  <2> HIDE DEF r
  <2> QED
    BY <1>1, SendSimpleType
<1>4. catchUp \in NodeState
  <2> HIDE DEF r
  <2> QED
    BY <1>1, MaybeSendAppendType
<1>5. \/ StepTransferLeader(i, n, to) \in {n, a, now, catchUp}
      \/ StepTransferLeader(i, n, to) = pass /\ n.lead # None
  <2>1. StepTransferLeader(i, n, to) =
          CASE n.state = "Leader" /\ n.transferee # to /\ to = i -> a
            [] n.state = "Leader" /\ n.transferee # to /\ to # i ->
                 IF n.prog[to].match = LastIndex(n) THEN now ELSE catchUp
            [] n.state = "Follower" /\ n.lead # None -> pass
            [] OTHER -> n
    BY DEF StepTransferLeader
  <2> HIDE DEF a, now, catchUp, pass
  <2> QED
    BY <2>1
<1> HIDE DEF a, now, catchUp, pass
<1> QED
  BY <1>1, <1>2, <1>3, <1>4, <1>5

\* MsgProp
LEMMA StepPropType ==
    ASSUME NEW i \in Node, NEW n \in NodeState, NEW val \in Value
    PROVE  StepProp(i, n, val) \in NodeState
<1> DEFINE grown == BcastAppend(i, AppendEntry(i, n, val))
           pass == Send(n, {[type |-> "MsgProp", from |-> i, to |-> n.lead, term |-> 0,
                             val |-> val]})
<1>1. grown \in NodeState
  BY AppendEntryType, BcastAppendType
<1>2. ASSUME n.lead # None
      PROVE  pass \in NodeState
  <2>1. n.lead \in Node
    BY <1>2 DEF NodeState
  <2>2. [type |-> "MsgProp", from |-> i, to |-> n.lead, term |-> 0, val |-> val] \in Message
    BY <2>1 DEF Message, PropMsg
  <2> QED
    BY <2>2, SendType
<1>3. \/ StepProp(i, n, val) \in {n, grown}
      \/ StepProp(i, n, val) = pass /\ n.lead # None
  <2>1. StepProp(i, n, val) =
          CASE n.state = "Leader" /\ n.transferee = None -> grown
            [] n.state = "Follower" /\ n.lead # None -> pass
            [] OTHER -> n
    BY DEF StepProp
  <2> HIDE DEF grown, pass
  <2> QED
    BY <2>1
<1> HIDE DEF grown, pass
<1> QED
  BY <1>1, <1>2, <1>3

\* A response
LEMMA StepResponseType ==
    ASSUME NEW i \in Node, NEW n \in NodeState,
           NEW m \in Message, m.type \in {"MsgVoteResp", "MsgPreVoteResp", "MsgAppResp"}
    PROVE  StepResponse(i, n, m) \in NodeState
<1> DEFINE a == AtTermOf(i, n, m)
<1>1. a \in NodeState
  BY AtTermOfType
<1>2. m.type = "MsgAppResp" => StepAppResp(i, a, m) \in NodeState
  <2> HIDE DEF a
  <2> QED
    BY <1>1, StepAppRespType, MessageFields
<1>3. StepVoteResp(i, a, m) \in NodeState
  <2> HIDE DEF a
  <2> QED
    BY <1>1, StepVoteRespType
<1>4. \/ StepResponse(i, n, m) = StepAppResp(i, a, m) /\ m.type = "MsgAppResp"
      \/ StepResponse(i, n, m) \in {a, StepVoteResp(i, a, m)}
  <2>1. StepResponse(i, n, m) =
          CASE m.type = "MsgAppResp"                    -> StepAppResp(i, a, m)
            [] m.type # "MsgAppResp" /\ Polls(a, m)     -> StepVoteResp(i, a, m)
            [] OTHER                                    -> a
    BY DEF StepResponse
  <2> HIDE DEF a
  <2> QED
    BY <2>1
<1> HIDE DEF a
<1> QED
  BY <1>1, <1>2, <1>3, <1>4

\* A node that starts from its storage
LEMMA NewRaftType ==
    ASSUME NEW i \in Node, NEW d \in DiskState
    PROVE  NewRaft(i, d) \in NodeState
<1> DEFINE n == [term |-> d.term, vote |-> d.vote, lead |-> None, state |-> "Follower",
                 log |-> d.log, commit |-> d.commit, granted |-> {}, rejected |-> {},
                 prog |-> [j \in Node |-> ResetProgress(0, 0)], transferee |-> None,
                 outbox |-> {}, self |-> <<>>, steps |-> <<>>]
<1>1. [j \in Node |-> ResetProgress(0, 0)] \in [Node -> Progress]
  BY ResetProgressType
<1>2. n \in NodeState
  BY <1>1 DEF NodeState, DiskState
<1>3. NewRaft(i, d) = BecomeFollower(i, n, d.term, None)
  BY DEF NewRaft
<1>4. d.term \in Nat
  BY DEF DiskState
<1> HIDE DEF n
<1> QED
  BY <1>2, <1>3, <1>4, BecomeFollowerType

-----------------------------------------------------------------------------
(***************************************************************************)
(* The invariant.                                                          *)
(***************************************************************************)

\* The initial states are well formed
LEMMA TypeInit == Init => TypeOK
<1> SUFFICES ASSUME Init
             PROVE  TypeOK
  OBVIOUS
<1>1. BootLog \in Seq(Entry)
  <2>1. [term |-> 1, val |-> Empty] \in Entry
    BY DEF Entry
  <2> QED
    BY <2>1 DEF BootLog
<1>2. BootDisk \in DiskState
  BY <1>1 DEF BootDisk, DiskState
<1>3. disk \in [Node -> DiskState]
  BY <1>2 DEF Init
<1>4. node \in [Node -> NodeState]
  BY <1>3, NewRaftType DEF Init
<1> QED
  BY <1>3, <1>4, BoundAssumption DEF Init, TypeOK

\* The fields that an action sets by itself
LEMMA SetFieldTypes ==
    ASSUME NEW n \in NodeState
    PROVE  /\ [n EXCEPT !.transferee = None] \in NodeState
           /\ [n EXCEPT !.lead = None] \in NodeState
           /\ [n EXCEPT !.outbox = {}, !.self = <<>>, !.steps = n.self] \in NodeState
<1>1. [n EXCEPT !.transferee = None] \in NodeState
  BY DEF NodeState
<1>2. [n EXCEPT !.lead = None] \in NodeState
  BY DEF NodeState
<1>3. /\ n.self \in Seq(VoteRespMsg \cup AppRespMsg)
      /\ <<>> \in Seq(VoteRespMsg \cup AppRespMsg)
      /\ {} \in SUBSET Message
  BY DEF NodeState
<1>4. [n EXCEPT !.outbox = {}, !.self = <<>>, !.steps = n.self] \in NodeState
  BY <1>3 DEF NodeState
<1> QED
  BY <1>1, <1>2, <1>4

\* A step that only replaces the state of one node by a well-formed one
LEMMA BecomeKeepsType ==
    ASSUME TypeOK, NEW i \in Node, NEW n \in NodeState, Become(i, n)
    PROVE  TypeOK'
  BY DEF Become, TypeOK

\* Every step leads from a well-formed state to a well-formed state
LEMMA TypeStep == TypeOK /\ [Next]_vars => TypeOK'
<1> SUFFICES ASSUME TypeOK, [Next]_vars
             PROVE  TypeOK'
  OBVIOUS
<1>1. CASE UNCHANGED vars
  BY <1>1 DEF vars, TypeOK
<1>2. ASSUME NEW i \in Node
      PROVE  /\ node[i] \in NodeState /\ node[i].term \in Nat
             /\ \A j \in Node : node[i].prog[j] \in Progress
  BY ProgType DEF TypeOK, NodeState
<1>3. ASSUME NEW i \in Node, Ready(i)
      PROVE  TypeOK'
  <2>1. node[i] \in NodeState
    BY <1>2
  <2>2. HardState(node[i]) \in DiskState
    BY <2>1 DEF HardState, DiskState, NodeState
  <2>3. node[i].outbox \subseteq Message
    BY <2>1 DEF NodeState
  <2>4. [node[i] EXCEPT !.outbox = {}, !.self = <<>>, !.steps = node[i].self] \in NodeState
    BY <2>1, SetFieldTypes
  <2>5. node' = [node EXCEPT ![i] = [node[i] EXCEPT !.outbox = {}, !.self = <<>>,
                                                    !.steps = node[i].self]]
    BY <1>3 DEF Ready, TypeOK
  <2>6. node' \in [Node -> NodeState]
    BY <2>4, <2>5 DEF TypeOK
  <2> QED
    BY <1>3, <2>2, <2>3, <2>6 DEF Ready, TypeOK
<1>4. ASSUME NEW i \in Node, Advance(i)
      PROVE  TypeOK'
  <2> DEFINE m == Head(node[i].steps)
             n == [node[i] EXCEPT !.steps = Tail(@)]
  <2>1. node[i] \in NodeState /\ node[i].steps # <<>>
    BY <1>2, <1>4 DEF Advance
  <2>2. m \in VoteRespMsg \cup AppRespMsg
        /\ Tail(node[i].steps) \in Seq(VoteRespMsg \cup AppRespMsg)
    BY <2>1 DEF NodeState
  <2>3. m \in Message /\ m.type \in {"MsgVoteResp", "MsgPreVoteResp", "MsgAppResp"}
    BY <2>2 DEF Message, VoteRespMsg, AppRespMsg
  <2>4. n \in NodeState
    BY <2>1, <2>2 DEF NodeState
  <2>5. StepResponse(i, n, m) \in NodeState
    <3> HIDE DEF n, m
    <3> QED
      BY <2>3, <2>4, StepResponseType
  <2>6. Become(i, n) \/ Become(i, StepResponse(i, n, m))
    BY <1>4 DEF Advance
  <2> HIDE DEF n, m
  <2> QED
    BY <2>4, <2>5, <2>6, BecomeKeepsType
<1>5. ASSUME NEW i \in Node, Restart(i)
      PROVE  TypeOK'
  <2>1. NewRaft(i, disk[i]) \in NodeState
    BY NewRaftType DEF TypeOK
  <2> QED
    BY <1>5, <2>1, BoundAssumption DEF Restart, TypeOK
<1>6. ASSUME NEW i \in Node, Local(i)
      PROVE  TypeOK'
  <2>1. CASE Hup(i)
    BY <1>2, <2>1, OptionAssumption, CampaignType, BecomeKeepsType DEF Hup
  <2>2. CASE Beat(i)
    BY <1>2, <2>2, BcastHeartbeatType, BecomeKeepsType DEF Beat
  <2>3. CASE CheckQuorumFails(i)
    BY <1>2, <2>3, BecomeFollowerType, BecomeKeepsType DEF CheckQuorumFails
  <2>4. CASE AbortTransfer(i)
    <3>1. [node[i] EXCEPT !.transferee = None] \in NodeState
      BY <1>2, SetFieldTypes
    <3> QED
      BY <2>4, <3>1, BecomeKeepsType DEF AbortTransfer
  <2>5. ASSUME NEW val \in Value, Propose(i, val)
        PROVE  TypeOK'
    BY <1>2, <2>5, StepPropType, BecomeKeepsType DEF Propose
  <2>6. ASSUME NEW to \in Node, TransferLeader(i, to)
        PROVE  TypeOK'
    BY <1>2, <2>6, StepTransferLeaderType, BecomeKeepsType DEF TransferLeader
  <2>7. CASE ForgetLeader(i)
    <3>1. [node[i] EXCEPT !.lead = None] \in NodeState
      BY <1>2, SetFieldTypes
    <3> QED
      BY <2>7, <3>1, BecomeKeepsType DEF ForgetLeader
  <2>8. ASSUME NEW j \in Node \ {i}, ReportUnreachable(i, j)
        PROVE  TypeOK'
    <3>1. [node[i] EXCEPT !.prog[j] = BecomeProbe(node[i].prog[j])] \in NodeState
      BY <1>2, BecomeProbeType, SetProgType
    <3>2. Become(i, [node[i] EXCEPT !.prog[j] = BecomeProbe(node[i].prog[j])])
      BY <2>8 DEF ReportUnreachable
    <3> QED
      BY <3>1, <3>2, BecomeKeepsType
  <2> QED
    BY <1>6, <2>1, <2>2, <2>3, <2>4, <2>5, <2>6, <2>7, <2>8 DEF Local
<1>7. ASSUME NEW i \in Node, NEW m \in msgs, Deliver(i, m)
      PROVE  TypeOK'
  <2>1. m \in Message /\ m.from \in Node /\ node[i] \in NodeState
        /\ AtTermOf(i, node[i], m) \in NodeState
    BY <1>2, MessageFields, AtTermOfType DEF TypeOK
  <2>2. CASE ReceiveLowerTerm(i, m)
    BY <2>1, <2>2, StepLowerTermType, BecomeKeepsType DEF ReceiveLowerTerm
  <2>3. CASE ReceiveVote(i, m)
    BY <2>1, <2>3, StepVoteType, BecomeKeepsType DEF ReceiveVote
  <2>4. CASE ReceiveResponse(i, m)
    BY <2>1, <2>4, StepResponseType, BecomeKeepsType DEF ReceiveResponse, Receive
  <2>5. CASE ReceiveApp(i, m)
    BY <2>1, <2>5, StepAppType, BecomeKeepsType DEF ReceiveApp, Receive
  <2>6. CASE ReceiveHeartbeat(i, m)
    BY <2>1, <2>6, StepHeartbeatType, BecomeKeepsType DEF ReceiveHeartbeat, Receive
  <2>7. CASE ReceiveHeartbeatResp(i, m)
    BY <2>1, <2>7, StepHeartbeatRespType, BecomeKeepsType DEF ReceiveHeartbeatResp
  <2>8. CASE ReceiveTimeoutNow(i, m)
    BY <2>1, <2>8, CampaignType, BecomeKeepsType DEF ReceiveTimeoutNow
  <2>9. CASE ReceiveTransferLeader(i, m)
    BY <2>1, <2>9, StepTransferLeaderType, BecomeKeepsType DEF ReceiveTransferLeader
  <2>10. CASE ReceiveProp(i, m)
    <3>1. m.val \in Value
      BY <2>1, <2>10, MessageFields DEF ReceiveProp, PropMsg
    <3> QED
      BY <2>1, <2>10, <3>1, StepPropType, BecomeKeepsType DEF ReceiveProp
  <2> QED
    BY <1>7, <2>2, <2>3, <2>4, <2>5, <2>6, <2>7, <2>8, <2>9, <2>10 DEF Deliver
<1> QED
  BY <1>1, <1>3, <1>4, <1>5, <1>6, <1>7 DEF Next

\* Every reachable state is well formed: node, disk and messages keep their types
\* through every call, message, Ready and restart (struct raft, HardState, Message).
THEOREM TypeCorrect == Spec => []TypeOK
  BY TypeInit, TypeStep, PTL DEF Spec

-----------------------------------------------------------------------------
(***************************************************************************)
(* Elections.                                                              *)
(***************************************************************************)


\* What a calm change of the state of node i from n to o leaves alone
Calm(i, n, o) ==
    /\ o.term >= n.term
    /\ o.term = n.term => o.vote = n.vote
    /\ \A m \in o.outbox \ n.outbox :
          /\ ~IsBallot(m)
          /\ m.type = "MsgApp" => n.state = "Leader" /\ m.from = i /\ m.term = n.term
    /\ o.state = "Leader" => n.state = "Leader" /\ o.term = n.term
    /\ o.state = "Candidate" =>
          n.state = "Candidate" /\ o.term = n.term /\ o.granted \subseteq n.granted
    /\ OwnAnswers(i, n) => OwnAnswers(i, o)

\* What a change of the state of node i from n to o may add
Sound(i, n, o) ==
    /\ o.term >= n.term
    /\ o.term = n.term /\ n.vote # None => o.vote = n.vote
    /\ \A m \in o.outbox \ n.outbox :
          /\ IsBallot(m) => m.from = i /\ m.term = o.term /\ VoteOf(m) = o.vote
          /\ IsGrant(m) => Requested(m.to, m.term)
          /\ m.type = "MsgApp" =>
                /\ m.from = i
                /\ \/ n.state = "Leader" /\ m.term = n.term
                   \/ Supporters(i, m.term) \in Quorum
    /\ o.state = "Leader" =>
          \/ n.state = "Leader" /\ o.term = n.term
          \/ Supporters(i, o.term) \in Quorum
    /\ o.state = "Candidate" => \A j \in o.granted :
          \/ n.state = "Candidate" /\ o.term = n.term /\ j \in n.granted
          \/ j \in Supporters(i, o.term)
    /\ OwnAnswers(i, n) => OwnAnswers(i, o)

-----------------------------------------------------------------------------
(***************************************************************************)
(* Calm changes compose.                                                   *)
(***************************************************************************)

\* One calm change after another is calm
LEMMA CalmTrans ==
    ASSUME NEW i \in Node, NEW n \in NodeState, NEW o \in NodeState, NEW p \in NodeState,
           Calm(i, n, o), Calm(i, o, p)
    PROVE  Calm(i, n, p)
<1>1. n.term \in Nat /\ o.term \in Nat /\ p.term \in Nat
  BY DEF NodeState
<1>2. p.term >= n.term
  BY <1>1 DEF Calm
<1>3. p.term = n.term => o.term = n.term /\ p.term = o.term
  BY <1>1 DEF Calm
<1>4. \A m \in p.outbox \ n.outbox :
          /\ ~IsBallot(m)
          /\ m.type = "MsgApp" => n.state = "Leader" /\ m.from = i /\ m.term = n.term
  BY DEF Calm
<1> QED
  BY <1>2, <1>3, <1>4 DEF Calm

\* A calm change is sound
LEMMA CalmIsSound ==
    ASSUME NEW i \in Node, NEW n \in NodeState, NEW o \in NodeState, Calm(i, n, o)
    PROVE  Sound(i, n, o)
  BY DEF Calm, Sound, IsBallot

\* A sound change after a calm one is sound
LEMMA CalmThenSound ==
    ASSUME NEW i \in Node, NEW n \in NodeState, NEW o \in NodeState, NEW p \in NodeState,
           Calm(i, n, o), Sound(i, o, p)
    PROVE  Sound(i, n, p)
<1>1. n.term \in Nat /\ o.term \in Nat /\ p.term \in Nat
  BY DEF NodeState
<1>2. p.term >= n.term
  BY <1>1 DEF Calm, Sound
<1>3. p.term = n.term => o.term = n.term /\ p.term = o.term
  BY <1>1 DEF Calm, Sound
<1>4. p.term = n.term /\ n.vote # None => p.vote = n.vote
  BY <1>3 DEF Calm, Sound
<1>5. \A m \in p.outbox \ n.outbox :
          /\ IsBallot(m) => m.from = i /\ m.term = p.term /\ VoteOf(m) = p.vote
          /\ IsGrant(m) => Requested(m.to, m.term)
          /\ m.type = "MsgApp" =>
                /\ m.from = i
                /\ \/ n.state = "Leader" /\ m.term = n.term
                   \/ Supporters(i, m.term) \in Quorum
  BY DEF Calm, Sound, IsBallot
<1>6. p.state = "Leader" =>
          \/ n.state = "Leader" /\ p.term = n.term
          \/ Supporters(i, p.term) \in Quorum
  BY DEF Calm, Sound
<1>7. p.state = "Candidate" => \A j \in p.granted :
          \/ n.state = "Candidate" /\ p.term = n.term /\ j \in n.granted
          \/ j \in Supporters(i, p.term)
  BY DEF Calm, Sound
<1>8. OwnAnswers(i, n) => OwnAnswers(i, p)
  BY DEF Calm, Sound
<1> QED
  BY <1>2, <1>4, <1>5, <1>6, <1>7, <1>8 DEF Sound

\* A calm change after a sound one is sound if the node stays in its term
LEMMA SoundThenCalm ==
    ASSUME NEW i \in Node, NEW n \in NodeState, NEW o \in NodeState, NEW p \in NodeState,
           Sound(i, n, o), Calm(i, o, p), p.term = o.term
    PROVE  Sound(i, n, p)
<1>1. p.vote = o.vote
  BY DEF Calm
<1>2. \A m \in p.outbox \ n.outbox :
          /\ IsBallot(m) => m.from = i /\ m.term = p.term /\ VoteOf(m) = p.vote
          /\ IsGrant(m) => Requested(m.to, m.term)
          /\ m.type = "MsgApp" =>
                /\ m.from = i
                /\ \/ n.state = "Leader" /\ m.term = n.term
                   \/ Supporters(i, m.term) \in Quorum
  BY <1>1 DEF Calm, Sound, IsBallot
<1>3. p.state = "Leader" =>
          \/ n.state = "Leader" /\ p.term = n.term
          \/ Supporters(i, p.term) \in Quorum
  BY DEF Calm, Sound
<1>4. p.state = "Candidate" => \A j \in p.granted :
          \/ n.state = "Candidate" /\ p.term = n.term /\ j \in n.granted
          \/ j \in Supporters(i, p.term)
  BY DEF Calm, Sound
<1>5. OwnAnswers(i, n) => OwnAnswers(i, p)
  BY DEF Calm, Sound
<1> QED
  BY <1>1, <1>2, <1>3, <1>4, <1>5 DEF Sound

\* A change that leaves alone everything that elections depend on
LEMMA SameVotes ==
    ASSUME NEW i \in Node, NEW n \in NodeState, NEW o \in NodeState,
           o.term = n.term, o.vote = n.vote, o.state = n.state, o.granted = n.granted,
           o.outbox = n.outbox, o.self = n.self, o.steps = n.steps
    PROVE  Calm(i, n, o)
<1>1. o.term >= n.term
  BY DEF NodeState
<1>2. OwnAnswers(i, n) => OwnAnswers(i, o)
  BY DEF OwnAnswers
<1> QED
  BY <1>1, <1>2 DEF Calm

\* Messages of another kind
LEMMA SendCalm ==
    ASSUME NEW i \in Node, NEW n \in NodeState, NEW ms \in SUBSET Message,
           \A m \in ms : ~IsBallot(m) /\ m.type # "MsgApp"
    PROVE  Calm(i, n, Send(n, ms)) /\ Send(n, ms).term = n.term
<1> DEFINE o == Send(n, ms)
<1>1. /\ o.term = n.term /\ o.vote = n.vote /\ o.state = n.state /\ o.granted = n.granted
      /\ o.outbox = n.outbox \cup ms /\ o.self = n.self /\ o.steps = n.steps
  BY DEF Send, NodeState
<1>2. o.term >= n.term
  BY <1>1 DEF NodeState
<1>3. OwnAnswers(i, n) => OwnAnswers(i, o)
  BY <1>1 DEF OwnAnswers
<1>4. Calm(i, n, o)
  <2> HIDE DEF o
  <2> QED
    BY <1>1, <1>2, <1>3 DEF Calm
<1> QED
  BY <1>1, <1>4

\* What a message with entries says of its sender
LEMMA AppFields ==
    ASSUME NEW i, NEW n, NEW j, NEW k
    PROVE  /\ App(i, n, j, k).type = "MsgApp"
           /\ App(i, n, j, k).from = i
           /\ App(i, n, j, k).term = n.term
  BY DEF App

\* maybeSendAppend at a leader
LEMMA MaybeSendAppendCalm ==
    ASSUME NEW i \in Node, NEW n \in NodeState, n.state = "Leader",
           NEW peers \in SUBSET Node, NEW sendIfEmpty \in BOOLEAN
    PROVE  LET o == MaybeSendAppend(i, n, peers, sendIfEmpty)
           IN  Calm(i, n, o) /\ o.term = n.term /\ o.state = n.state
<1> DEFINE o == MaybeSendAppend(i, n, peers, sendIfEmpty)
<1>1. /\ o.term = n.term /\ o.vote = n.vote /\ o.state = n.state /\ o.granted = n.granted
      /\ o.self = n.self /\ o.steps = n.steps
  BY DEF MaybeSendAppend, NodeState
<1>2. \A m \in o.outbox \ n.outbox : \E j \in Node : m = App(i, n, j, n.prog[j].next)
  BY DEF MaybeSendAppend, NodeState
<1>3. \A m \in o.outbox \ n.outbox : m.type = "MsgApp" /\ m.from = i /\ m.term = n.term
  <2> HIDE DEF o
  <2> QED
    BY <1>2, AppFields
<1>4. o.term >= n.term
  BY <1>1 DEF NodeState
<1>5. OwnAnswers(i, n) => OwnAnswers(i, o)
  BY <1>1 DEF OwnAnswers
<1>6. Calm(i, n, o)
  <2> HIDE DEF o
  <2> QED
    BY <1>1, <1>3, <1>4, <1>5 DEF Calm, IsBallot, IsGrant
<1> QED
  BY <1>1, <1>6

\* The loop over what is left to send, at a leader
LEMMA SendRestCalm ==
    ASSUME NEW i \in Node, NEW n \in NodeState, n.state = "Leader", NEW j \in Node
    PROVE  Calm(i, n, SendRest(i, n, j)) /\ SendRest(i, n, j).term = n.term
<1> DEFINE o == SendRest(i, n, j)
<1>1. /\ o.term = n.term /\ o.vote = n.vote /\ o.state = n.state /\ o.granted = n.granted
      /\ o.self = n.self /\ o.steps = n.steps
  BY DEF SendRest, NodeState
<1>2. \A m \in o.outbox \ n.outbox : \E k : m = App(i, n, j, k)
  BY DEF SendRest, NodeState
<1>3. \A m \in o.outbox \ n.outbox : m.type = "MsgApp" /\ m.from = i /\ m.term = n.term
  <2> HIDE DEF o
  <2> QED
    BY <1>2, AppFields
<1>4. o.term >= n.term
  BY <1>1 DEF NodeState
<1>5. OwnAnswers(i, n) => OwnAnswers(i, o)
  BY <1>1 DEF OwnAnswers
<1>6. Calm(i, n, o)
  <2> HIDE DEF o
  <2> QED
    BY <1>1, <1>3, <1>4, <1>5 DEF Calm, IsBallot, IsGrant
<1> QED
  BY <1>1, <1>6

\* bcastAppend at a leader
LEMMA BcastAppendCalm ==
    ASSUME NEW i \in Node, NEW n \in NodeState, n.state = "Leader"
    PROVE  /\ Calm(i, n, BcastAppend(i, n))
           /\ BcastAppend(i, n).term = n.term /\ BcastAppend(i, n).state = n.state
  BY MaybeSendAppendCalm DEF BcastAppend

\* bcastHeartbeat
LEMMA BcastHeartbeatCalm ==
    ASSUME NEW i \in Node, NEW n \in NodeState, NEW ctxs \in SUBSET Nat
    PROVE  Calm(i, n, BcastHeartbeat(i, n, ctxs))
<1> DEFINE o == BcastHeartbeat(i, n, ctxs)
<1>1. /\ o.term = n.term /\ o.vote = n.vote /\ o.state = n.state /\ o.granted = n.granted
      /\ o.self = n.self /\ o.steps = n.steps
  BY DEF BcastHeartbeat, NodeState
<1>2. \A m \in o.outbox \ n.outbox : m.type = "MsgHeartbeat"
  <2> DEFINE beat(j, c) == [type |-> "MsgHeartbeat", from |-> i, to |-> j, term |-> n.term,
                            commit |-> Min({n.prog[j].match, n.commit}), ctx |-> c]
  <2>1. o.outbox = n.outbox \cup {beat(j, c) : j \in Node \ {i}, c \in ctxs}
    BY DEF BcastHeartbeat, NodeState
  <2>2. \A j \in Node : \A c \in ctxs : beat(j, c).type = "MsgHeartbeat"
    OBVIOUS
  <2> HIDE DEF o, beat
  <2> QED
    BY <2>1, <2>2
<1>3. o.term >= n.term
  BY <1>1 DEF NodeState
<1>4. OwnAnswers(i, n) => OwnAnswers(i, o)
  BY <1>1 DEF OwnAnswers
<1> HIDE DEF o
<1>5. Calm(i, n, o)
  BY <1>1, <1>2, <1>3, <1>4 DEF Calm, IsBallot, IsGrant
<1> QED
  BY <1>5 DEF o

\* becomeFollower, at the same term or a later one
LEMMA BecomeFollowerCalm ==
    ASSUME NEW i \in Node, NEW n \in NodeState, NEW t \in Nat, t >= n.term,
           NEW lead \in Node \cup {None}
    PROVE  /\ Calm(i, n, BecomeFollower(i, n, t, lead))
           /\ BecomeFollower(i, n, t, lead).term = t
           /\ BecomeFollower(i, n, t, lead).state = "Follower"
<1> DEFINE o == BecomeFollower(i, n, t, lead)
<1>1. /\ o.term = t /\ o.vote = (IF n.term = t THEN n.vote ELSE None)
      /\ o.state = "Follower" /\ o.outbox = n.outbox /\ o.self = n.self /\ o.steps = n.steps
  BY DEF BecomeFollower, Reset, NodeState
<1>2. OwnAnswers(i, n) => OwnAnswers(i, o)
  BY <1>1 DEF OwnAnswers
<1> HIDE DEF o
<1>3. Calm(i, n, o)
  BY <1>1, <1>2 DEF Calm
<1> QED
  BY <1>1, <1>3 DEF o

\* An answer to oneself
LEMMA SendSelfCalm ==
    ASSUME NEW i \in Node, NEW n \in NodeState, NEW m \in VoteRespMsg \cup AppRespMsg,
           m.from = i
    PROVE  Calm(i, n, SendSelf(n, m)) /\ SendSelf(n, m).term = n.term
           /\ SendSelf(n, m).state = n.state
<1> DEFINE o == SendSelf(n, m)
<1>1. /\ o.term = n.term /\ o.vote = n.vote /\ o.state = n.state /\ o.granted = n.granted
      /\ o.outbox = n.outbox /\ o.self = Append(n.self, m) /\ o.steps = n.steps
  BY DEF SendSelf, NodeState
<1>2. o.term >= n.term
  BY <1>1 DEF NodeState
<1>3. n.self \in Seq(VoteRespMsg \cup AppRespMsg)
  BY DEF NodeState
<1> HIDE DEF o
<1>4. OwnAnswers(i, n) => OwnAnswers(i, o)
  BY <1>1, <1>3 DEF OwnAnswers
<1>5. Calm(i, n, o)
  BY <1>1, <1>2, <1>4 DEF Calm
<1> QED
  BY <1>1, <1>5 DEF o

\* appendEntry
LEMMA AppendEntryCalm ==
    ASSUME NEW i \in Node, NEW n \in NodeState, NEW val \in Value \cup {Empty}
    PROVE  /\ Calm(i, n, AppendEntry(i, n, val))
           /\ AppendEntry(i, n, val).term = n.term
           /\ AppendEntry(i, n, val).state = n.state
<1> DEFINE a == [n EXCEPT !.log = Append(@, [term |-> n.term, val |-> val])]
           m == AppResp(i, a, i, LastIndex(a))
<1>1. [term |-> n.term, val |-> val] \in Entry
  BY DEF NodeState, Entry
<1>2. Append(n.log, [term |-> n.term, val |-> val]) \in Seq(Entry)
  BY <1>1 DEF NodeState
<1>3. a \in NodeState
  BY <1>2 DEF NodeState
<1>4. /\ a.term = n.term /\ a.vote = n.vote /\ a.state = n.state /\ a.granted = n.granted
      /\ a.outbox = n.outbox /\ a.self = n.self /\ a.steps = n.steps
  BY DEF NodeState
<1>5. m \in AppRespMsg
  <2> HIDE DEF a
  <2> QED
    BY <1>3, LastIndexType, AppRespType
<1>6. m.from = i
  BY DEF AppResp
<1>7. AppendEntry(i, n, val) = SendSelf(a, m)
  BY DEF AppendEntry
<1> HIDE DEF a, m
<1>8. Calm(i, n, a)
  BY <1>3, <1>4, SameVotes
<1>9. /\ Calm(i, a, SendSelf(a, m)) /\ SendSelf(a, m).term = a.term
      /\ SendSelf(a, m).state = a.state
  BY <1>3, <1>5, <1>6, SendSelfCalm
<1>10. SendSelf(a, m) \in NodeState
  BY <1>3, <1>5, SendSelfType
<1> QED
  BY <1>3, <1>4, <1>7, <1>8, <1>9, <1>10, CalmTrans

-----------------------------------------------------------------------------
(***************************************************************************)
(* The calm part of Step.                                                  *)
(***************************************************************************)

\* The first switch of Step leaves a node in the term of the message, unless that is
\* pre-vote traffic
LEMMA AtTermOfCalm ==
    ASSUME NEW i \in Node, NEW n \in NodeState, NEW m \in Message
    PROVE  LET a == AtTermOf(i, n, m)
           IN  /\ Calm(i, n, a)
               /\ m.term >= n.term /\ m.type \notin {"MsgPreVote", "MsgPreVoteResp"} =>
                    /\ a.term = m.term
                    /\ m.term > n.term => a.state = "Follower"
<1>1. m.term \in Nat /\ n.term \in Nat /\ m.from \in Node
  BY MessageFields DEF NodeState
<1>2. Calm(i, n, n)
  BY SameVotes
<1>3. ASSUME NEW lead \in Node \cup {None}, m.term > n.term
      PROVE  /\ Calm(i, n, BecomeFollower(i, n, m.term, lead))
             /\ BecomeFollower(i, n, m.term, lead).term = m.term
             /\ BecomeFollower(i, n, m.term, lead).state = "Follower"
  BY <1>1, <1>3, BecomeFollowerCalm
<1>4. CASE AtTermOf(i, n, m) = n /\ (m.term <= n.term \/ m.type \in {"MsgPreVote", "MsgPreVoteResp"})
  BY <1>1, <1>2, <1>4
<1>5. CASE m.term > n.term /\ \E lead \in Node \cup {None} :
             AtTermOf(i, n, m) = BecomeFollower(i, n, m.term, lead)
  BY <1>1, <1>3, <1>5
<1> QED
  BY <1>1, <1>4, <1>5 DEF AtTermOf

\* The answer to a message of a lower term
LEMMA StepLowerTermCalm ==
    ASSUME NEW i \in Node, NEW n \in NodeState, NEW m \in Message
    PROVE  Calm(i, n, StepLowerTerm(i, n, m))
<1> DEFINE r == AppResp(i, n, m.from, 0)
           v == VoteResp("MsgPreVoteResp", i, m.from, n.term, TRUE)
<1>1. m.from \in Node /\ n.term \in Nat
  BY MessageFields DEF NodeState
<1>2. r \in Message /\ v \in Message
  BY <1>1, AppRespType, VoteRespType DEF Message
<1>3. r.type = "MsgAppResp" /\ v.type = "MsgPreVoteResp"
  BY DEF AppResp, VoteResp
<1>4. StepLowerTerm(i, n, m) \in {n, Send(n, {r}), Send(n, {v})}
  BY DEF StepLowerTerm
<1> HIDE DEF r, v
<1>5. Calm(i, n, Send(n, {r})) /\ Calm(i, n, Send(n, {v}))
  BY <1>2, <1>3, SendCalm DEF IsBallot, IsGrant
<1> QED
  BY <1>4, <1>5, SameVotes

\* Following the sender of a message
LEMMA FollowSenderCalm ==
    ASSUME NEW i \in Node, NEW n \in NodeState, NEW m \in Message, m.term = n.term
    PROVE  Calm(i, n, FollowSender(i, n, m))
<1>1. m.from \in Node /\ m.term \in Nat
  BY MessageFields
<1> DEFINE o == [n EXCEPT !.lead = m.from]
<1>2. o \in NodeState
  BY <1>1 DEF NodeState
<1>3. /\ o.term = n.term /\ o.vote = n.vote /\ o.state = n.state /\ o.granted = n.granted
      /\ o.outbox = n.outbox /\ o.self = n.self /\ o.steps = n.steps
  BY DEF NodeState
<1>4. FollowSender(i, n, m) \in {o, BecomeFollower(i, n, m.term, m.from)}
  BY DEF FollowSender
<1>5. Calm(i, n, o)
  <2> HIDE DEF o
  <2> QED
    BY <1>2, <1>3, SameVotes
<1> HIDE DEF o
<1> QED
  BY <1>1, <1>4, <1>5, BecomeFollowerCalm

\* handleAppendEntries
LEMMA HandleAppendEntriesCalm ==
    ASSUME NEW i \in Node, NEW n \in NodeState, NEW m \in AppMsg
    PROVE  Calm(i, n, HandleAppendEntries(i, n, m))
<1> DEFINE o == HandleAppendEntries(i, n, m)
<1>1. /\ o.term = n.term /\ o.vote = n.vote /\ o.state = n.state /\ o.granted = n.granted
      /\ o.self = n.self /\ o.steps = n.steps
  BY DEF HandleAppendEntries, Send, CommitTo, NodeState
<1>2. \A x \in o.outbox \ n.outbox : x.type = "MsgAppResp"
  BY DEF HandleAppendEntries, Send, CommitTo, AppResp, AppReject, NodeState
<1>3. o.term >= n.term
  BY <1>1 DEF NodeState
<1>4. OwnAnswers(i, n) => OwnAnswers(i, o)
  BY <1>1 DEF OwnAnswers
<1> HIDE DEF o
<1>5. Calm(i, n, o)
  BY <1>1, <1>2, <1>3, <1>4 DEF Calm, IsBallot, IsGrant
<1> QED
  BY <1>5 DEF o

\* MsgApp of the term of the node
LEMMA StepAppCalm ==
    ASSUME NEW i \in Node, NEW n \in NodeState, NEW m \in Message, m.type = "MsgApp",
           m.term = n.term
    PROVE  Calm(i, n, StepApp(i, n, m))
<1>1. m \in AppMsg
  BY MessageFields
<1> DEFINE f == FollowSender(i, n, m)
<1>2. f \in NodeState /\ Calm(i, n, f)
  BY FollowSenderType, FollowSenderCalm
<1>3. Calm(i, f, HandleAppendEntries(i, f, m)) /\ HandleAppendEntries(i, f, m) \in NodeState
  <2> HIDE DEF f
  <2> QED
    BY <1>1, <1>2, HandleAppendEntriesCalm, HandleAppendEntriesType
<1>4. Calm(i, n, HandleAppendEntries(i, f, m))
  <2> HIDE DEF f
  <2> QED
    BY <1>2, <1>3, CalmTrans
<1>5. StepApp(i, n, m) = IF n.state = "Leader" THEN n ELSE HandleAppendEntries(i, f, m)
  BY DEF StepApp
<1> HIDE DEF f
<1> QED
  BY <1>4, <1>5, SameVotes

\* MsgHeartbeat of the term of the node
LEMMA StepHeartbeatCalm ==
    ASSUME NEW i \in Node, NEW n \in NodeState, NEW m \in Message, m.type = "MsgHeartbeat",
           m.term = n.term
    PROVE  Calm(i, n, StepHeartbeat(i, n, m))
<1> DEFINE f == FollowSender(i, n, m)
           c == CommitTo(f, m.commit)
           r == HeartbeatResp(i, n, m)
<1>1. m.from \in Node /\ m.commit \in Nat /\ m.ctx \in Nat
  BY MessageFields DEF HeartbeatMsg
<1>2. f \in NodeState /\ Calm(i, n, f)
  BY FollowSenderType, FollowSenderCalm
<1>3. c \in NodeState
  <2> HIDE DEF f
  <2> QED
    BY <1>1, <1>2, CommitToType
<1>4. /\ c.term = f.term /\ c.vote = f.vote /\ c.state = f.state /\ c.granted = f.granted
      /\ c.outbox = f.outbox /\ c.self = f.self /\ c.steps = f.steps
  <2> HIDE DEF f
  <2> QED
    BY <1>2 DEF CommitTo, NodeState
<1>5. Calm(i, n, c)
  <2> HIDE DEF c, f
  <2> QED
    BY <1>2, <1>3, <1>4, SameVotes, CalmTrans
<1>6. r \in Message /\ r.type = "MsgHeartbeatResp"
  BY <1>1 DEF HeartbeatResp, Message, HeartbeatRespMsg, NodeState
<1>7. Calm(i, c, Send(c, {r})) /\ Send(c, {r}) \in NodeState
  <2> HIDE DEF c, r
  <2> QED
    BY <1>3, <1>6, SendCalm, SendType DEF IsBallot, IsGrant
<1>8. Calm(i, n, Send(c, {r}))
  <2> HIDE DEF c, r
  <2> QED
    BY <1>3, <1>5, <1>7, CalmTrans
<1>9. StepHeartbeat(i, n, m) \in {n, Send(c, {r})}
  BY DEF StepHeartbeat
<1> HIDE DEF c, r
<1> QED
  BY <1>8, <1>9, SameVotes

\* A change of what a leader knows of a peer
LEMMA SetProgCalm ==
    ASSUME NEW i \in Node, NEW n \in NodeState, NEW j \in Node, NEW pr \in Progress
    PROVE  LET o == [n EXCEPT !.prog[j] = pr]
           IN  Calm(i, n, o) /\ o.term = n.term /\ o.state = n.state
<1> DEFINE o == [n EXCEPT !.prog[j] = pr]
<1>1. o \in NodeState
  BY SetProgType
<1>2. /\ o.term = n.term /\ o.vote = n.vote /\ o.state = n.state /\ o.granted = n.granted
      /\ o.outbox = n.outbox /\ o.self = n.self /\ o.steps = n.steps
  BY DEF NodeState
<1> HIDE DEF o
<1>3. Calm(i, n, o)
  BY <1>1, <1>2, SameVotes
<1> QED
  BY <1>2, <1>3 DEF o

\* MsgAppResp with Reject
LEMMA StepAppRejectCalm ==
    ASSUME NEW i \in Node, NEW n \in NodeState, n.state = "Leader", NEW m \in AppRespMsg
    PROVE  Calm(i, n, StepAppReject(i, n, m))
<1> DEFINE j == m.from
           hint == IF m.logTerm > 0 THEN FindConflictByTerm(n.log, m.rejectHint, m.logTerm)
                   ELSE m.rejectHint
           decr == DecrTo(n.prog[j], m.index, hint)
           probe == IF decr.state = "Replicate" THEN BecomeProbe(decr) ELSE decr
           backed == [n EXCEPT !.prog[j] = probe]
           o == MaybeSendAppend(i, backed, {j}, TRUE)
<1>1. j \in Node /\ m.index \in Nat /\ m.rejectHint \in Nat /\ m.logTerm \in Nat
  BY DEF AppRespMsg
<1>2. hint \in Nat
  BY <1>1, FindConflictType DEF NodeState
<1>3. decr \in Progress
  <2> HIDE DEF hint
  <2> QED
    BY <1>1, <1>2, ProgType, DecrToType
<1>4. probe \in Progress
  <2> HIDE DEF decr
  <2> QED
    BY <1>3, BecomeProbeType
<1>5. /\ backed \in NodeState /\ Calm(i, n, backed) /\ backed.state = n.state
  <2> HIDE DEF probe, j
  <2> QED
    BY <1>1, <1>4, SetProgType, SetProgCalm
<1>6. o \in NodeState /\ Calm(i, backed, o)
  <2> HIDE DEF backed
  <2> QED
    BY <1>1, <1>5, MaybeSendAppendType, MaybeSendAppendCalm
<1>7. Calm(i, n, o)
  <2> HIDE DEF backed, o
  <2> QED
    BY <1>5, <1>6, CalmTrans
<1>8. StepAppReject(i, n, m) \in {n, o}
  BY DEF StepAppReject
<1> HIDE DEF o
<1> QED
  BY <1>7, <1>8, SameVotes

\* maybeCommit and what is sent after it
LEMMA CommitAndSendCalm ==
    ASSUME NEW i \in Node, NEW n \in NodeState, n.state = "Leader", NEW j \in Node
    PROVE  Calm(i, n, CommitAndSend(i, n, j))
<1> DEFINE c == [n EXCEPT !.commit = QuorumIndex(n)]
           bump == ~CanCommit(n) /\ j # i /\ CanBumpCommit(n.prog[j], n.commit)
           sent == CASE CanCommit(n) -> BcastAppend(i, c)
                     [] bump -> MaybeSendAppend(i, n, {j}, TRUE)
                     [] OTHER -> n
           Good(o) == o \in NodeState /\ Calm(i, n, o) /\ o.state = "Leader"
<1>1. c \in NodeState
  BY QuorumIndexType DEF NodeState
<1>2. /\ c.term = n.term /\ c.vote = n.vote /\ c.state = n.state /\ c.granted = n.granted
      /\ c.outbox = n.outbox /\ c.self = n.self /\ c.steps = n.steps
  BY DEF NodeState
<1>3. Calm(i, n, c)
  <2> HIDE DEF c
  <2> QED
    BY <1>1, <1>2, SameVotes
<1>4. Good(BcastAppend(i, c))
  <2> HIDE DEF c
  <2> QED
    BY <1>1, <1>2, <1>3, BcastAppendType, BcastAppendCalm, CalmTrans
<1>5. Good(MaybeSendAppend(i, n, {j}, TRUE))
  BY MaybeSendAppendType, MaybeSendAppendCalm
<1>6. Good(n)
  BY SameVotes
<1>7. Good(sent)
  <2> HIDE DEF c, bump, Good
  <2> QED
    BY <1>4, <1>5, <1>6
<1>8. CommitAndSend(i, n, j) = IF j = i THEN sent ELSE SendRest(i, sent, j)
  BY DEF CommitAndSend
<1> HIDE DEF sent
<1>9. Calm(i, n, SendRest(i, sent, j))
  BY <1>7, SendRestType, SendRestCalm, CalmTrans
<1> QED
  BY <1>7, <1>8, <1>9

\* A message that hands the leadership over
LEMMA SendTimeoutCalm ==
    ASSUME NEW i \in Node, NEW n \in NodeState, NEW o \in NodeState, NEW j \in Node
    PROVE  Calm(i, o, Send(o, {Simple("MsgTimeoutNow", i, n, j)}))
<1> DEFINE m == Simple("MsgTimeoutNow", i, n, j)
<1>1. m \in Message /\ m.type = "MsgTimeoutNow"
  BY DEF Simple, SimpleMsg, Message, NodeState
<1> HIDE DEF m
<1>2. Calm(i, o, Send(o, {m}))
  BY <1>1, SendCalm DEF IsBallot, IsGrant
<1> QED
  BY <1>2 DEF m

\* MsgAppResp without Reject
LEMMA StepAppAcceptCalm ==
    ASSUME NEW i \in Node, NEW n \in NodeState, n.state = "Leader", NEW m \in AppRespMsg
    PROVE  Calm(i, n, StepAppAccept(i, n, m))
<1> DEFINE j == m.from
           upd == MaybeUpdate(n.prog[j], m.index)
           next == IF upd.state = "Probe" THEN BecomeReplicate(upd) ELSE upd
           counted == [n EXCEPT !.prog[j] = next]
           done == CommitAndSend(i, counted, j)
           over == Send(done, {Simple("MsgTimeoutNow", i, n, j)})
<1>1. j \in Node /\ m.index \in Nat
  BY DEF AppRespMsg
<1>2. upd \in Progress
  BY <1>1, ProgType, MaybeUpdateType
<1>3. next \in Progress
  <2> HIDE DEF upd
  <2> QED
    BY <1>2, BecomeReplicateType
<1>4. counted \in NodeState /\ Calm(i, n, counted) /\ counted.state = n.state
  <2> HIDE DEF next, j
  <2> QED
    BY <1>1, <1>3, SetProgType, SetProgCalm
<1>5. done \in NodeState /\ Calm(i, n, done)
  <2> HIDE DEF counted
  <2> QED
    BY <1>1, <1>4, CommitAndSendType, CommitAndSendCalm, CalmTrans
<1>6. over \in NodeState /\ Calm(i, n, over)
  <2> HIDE DEF done
  <2> QED
    BY <1>1, <1>5, SendSimpleType, SendTimeoutCalm, CalmTrans
<1>7. StepAppAccept(i, n, m) \in {n, done, over}
  BY DEF StepAppAccept
<1> HIDE DEF done, over
<1> QED
  BY <1>5, <1>6, <1>7, SameVotes

\* MsgAppResp
LEMMA StepAppRespCalm ==
    ASSUME NEW i \in Node, NEW n \in NodeState, NEW m \in AppRespMsg
    PROVE  Calm(i, n, StepAppResp(i, n, m))
  BY StepAppRejectCalm, StepAppAcceptCalm, SameVotes DEF StepAppResp

\* MsgHeartbeatResp at a leader
LEMMA StepHeartbeatRespCalm ==
    ASSUME NEW i \in Node, NEW n \in NodeState, n.state = "Leader", NEW m \in Message
    PROVE  Calm(i, n, StepHeartbeatResp(i, n, m))
<1> DEFINE pr == [n.prog[m.from] EXCEPT !.paused = FALSE]
           r == [n EXCEPT !.prog[m.from] = pr]
           o == MaybeSendAppend(i, r, {m.from}, TRUE)
<1>1. m.from \in Node
  BY MessageEnds
<1>2. pr \in Progress
  BY <1>1, ProgType, UnpausedType
<1>3. r \in NodeState /\ Calm(i, n, r) /\ r.state = n.state
  <2> HIDE DEF pr
  <2> QED
    BY <1>1, <1>2, SetProgType, SetProgCalm
<1>4. o \in NodeState /\ Calm(i, r, o)
  <2> HIDE DEF r
  <2> QED
    BY <1>1, <1>3, MaybeSendAppendType, MaybeSendAppendCalm
<1>5. Calm(i, n, o)
  <2> HIDE DEF r, o
  <2> QED
    BY <1>3, <1>4, CalmTrans
<1>6. StepHeartbeatResp(i, n, m) \in {r, o}
  BY DEF StepHeartbeatResp
<1> HIDE DEF r, o
<1> QED
  BY <1>3, <1>5, <1>6

\* A change of the fields that elections do not depend on
LEMMA SetFieldsCalm ==
    ASSUME NEW i \in Node, NEW n \in NodeState, NEW to \in Node \cup {None}
    PROVE  /\ LET o == [n EXCEPT !.transferee = to]
              IN  o \in NodeState /\ Calm(i, n, o) /\ o.state = n.state
           /\ Calm(i, n, [n EXCEPT !.lead = None])
<1> DEFINE o == [n EXCEPT !.transferee = to]
           f == [n EXCEPT !.lead = None]
<1>1. o \in NodeState
  BY DEF NodeState
<1>2. f \in NodeState
  BY DEF NodeState
<1>3. /\ o.term = n.term /\ o.vote = n.vote /\ o.state = n.state /\ o.granted = n.granted
      /\ o.outbox = n.outbox /\ o.self = n.self /\ o.steps = n.steps
  BY DEF NodeState
<1>4. /\ f.term = n.term /\ f.vote = n.vote /\ f.state = n.state /\ f.granted = n.granted
      /\ f.outbox = n.outbox /\ f.self = n.self /\ f.steps = n.steps
  BY DEF NodeState
<1>5. Calm(i, n, o) /\ Calm(i, n, f)
  <2> HIDE DEF o, f
  <2> QED
    BY <1>1, <1>2, <1>3, <1>4, SameVotes
<1> QED
  BY <1>1, <1>3, <1>5

\* MsgTransferLeader
LEMMA StepTransferLeaderCalm ==
    ASSUME NEW i \in Node, NEW n \in NodeState, NEW to \in Node
    PROVE  Calm(i, n, StepTransferLeader(i, n, to))
<1> DEFINE r == [n EXCEPT !.transferee = to]
           a == [n EXCEPT !.transferee = None]
           p == [type |-> "MsgTransferLeader", from |-> to, to |-> n.lead, term |-> n.term]
           now == Send(r, {Simple("MsgTimeoutNow", i, n, to)})
           catchUp == MaybeSendAppend(i, r, {to}, TRUE)
<1>1. /\ r \in NodeState /\ Calm(i, n, r) /\ r.state = n.state
      /\ Calm(i, n, a)
  BY SetFieldsCalm
<1>2. ASSUME n.lead # None
      PROVE  Calm(i, n, Send(n, {p}))
  <2>1. n.lead \in Node /\ n.term \in Nat
    BY <1>2 DEF NodeState
  <2>2. p \in Message /\ p.type = "MsgTransferLeader"
    BY <2>1 DEF Message, SimpleMsg
  <2> HIDE DEF p
  <2> QED
    BY <2>2, SendCalm DEF IsBallot, IsGrant
<1>3. now \in NodeState /\ Calm(i, r, now)
  <2> HIDE DEF r
  <2> QED
    BY <1>1, SendSimpleType, SendTimeoutCalm
<1>4. Calm(i, n, now)
  <2> HIDE DEF r, now
  <2> QED
    BY <1>1, <1>3, CalmTrans
<1>5. ASSUME n.state = "Leader"
      PROVE  Calm(i, n, catchUp)
  <2>1. catchUp \in NodeState /\ Calm(i, r, catchUp)
    <3> HIDE DEF r
    <3> QED
      BY <1>1, <1>5, MaybeSendAppendType, MaybeSendAppendCalm
  <2> HIDE DEF r, catchUp
  <2> QED
    BY <1>1, <2>1, CalmTrans
<1>6. \/ StepTransferLeader(i, n, to) \in {n, a, now}
      \/ StepTransferLeader(i, n, to) = catchUp /\ n.state = "Leader"
      \/ StepTransferLeader(i, n, to) = Send(n, {p}) /\ n.lead # None
  <2>1. StepTransferLeader(i, n, to) =
          CASE n.state = "Leader" /\ n.transferee # to /\ to = i -> a
            [] n.state = "Leader" /\ n.transferee # to /\ to # i ->
                 IF n.prog[to].match = LastIndex(n) THEN now ELSE catchUp
            [] n.state = "Follower" /\ n.lead # None -> Send(n, {p})
            [] OTHER -> n
    BY DEF StepTransferLeader
  <2> HIDE DEF a, now, catchUp, p
  <2> QED
    BY <2>1
<1> HIDE DEF a, now, catchUp, p
<1> QED
  BY <1>1, <1>2, <1>4, <1>5, <1>6, SameVotes

\* MsgProp
LEMMA StepPropCalm ==
    ASSUME NEW i \in Node, NEW n \in NodeState, NEW val \in Value
    PROVE  Calm(i, n, StepProp(i, n, val))
<1> DEFINE g == AppendEntry(i, n, val)
           p == [type |-> "MsgProp", from |-> i, to |-> n.lead, term |-> 0, val |-> val]
<1>1. g \in NodeState /\ Calm(i, n, g) /\ g.state = n.state
  BY AppendEntryType, AppendEntryCalm
<1>2. ASSUME n.state = "Leader"
      PROVE  Calm(i, n, BcastAppend(i, g))
  <2> HIDE DEF g
  <2>1. BcastAppend(i, g) \in NodeState /\ Calm(i, g, BcastAppend(i, g))
    BY <1>1, <1>2, BcastAppendType, BcastAppendCalm
  <2> QED
    BY <1>1, <2>1, CalmTrans
<1>3. ASSUME n.lead # None
      PROVE  Calm(i, n, Send(n, {p}))
  <2>1. n.lead \in Node
    BY <1>3 DEF NodeState
  <2>2. p \in Message /\ p.type = "MsgProp"
    BY <2>1 DEF Message, PropMsg
  <2> HIDE DEF p
  <2> QED
    BY <2>2, SendCalm DEF IsBallot, IsGrant
<1>4. \/ StepProp(i, n, val) = n
      \/ StepProp(i, n, val) = BcastAppend(i, g) /\ n.state = "Leader"
      \/ StepProp(i, n, val) = Send(n, {p}) /\ n.lead # None
  <2>1. StepProp(i, n, val) =
          CASE n.state = "Leader" /\ n.transferee = None -> BcastAppend(i, g)
            [] n.state = "Follower" /\ n.lead # None -> Send(n, {p})
            [] OTHER -> n
    BY DEF StepProp
  <2> HIDE DEF g, p
  <2> QED
    BY <2>1
<1> HIDE DEF g, p
<1> QED
  BY <1>2, <1>3, <1>4, SameVotes

-----------------------------------------------------------------------------
(***************************************************************************)
(* Votes: campaigning, granting, counting, winning.                        *)
(***************************************************************************)

\* What the messages of a campaign leave alone
LEMMA SendCampaignKeeps ==
    ASSUME NEW i \in Node, NEW n \in NodeState, NEW pre \in BOOLEAN
    PROVE  LET o == SendCampaign(i, n, pre)
           IN  /\ o.term = n.term /\ o.vote = n.vote /\ o.state = n.state
               /\ o.granted = n.granted /\ o.steps = n.steps
  BY DEF SendCampaign, SendSelf, Send, NodeState

\* What a campaign asks of the others and answers to itself
LEMMA SendCampaignFields ==
    ASSUME NEW i \in Node, NEW n \in NodeState, NEW pre \in BOOLEAN
    PROVE  LET o == SendCampaign(i, n, pre)
           IN  /\ \A m \in o.outbox \ n.outbox :
                     /\ m.from = i
                     /\ pre = TRUE => m.type = "MsgPreVote"
                     /\ pre = FALSE => m.type = "MsgVote" /\ m.term = n.term
               /\ OwnAnswers(i, n) => OwnAnswers(i, o)
<1> DEFINE term == IF pre THEN n.term + 1 ELSE n.term
           request(j) == [type |-> IF pre THEN "MsgPreVote" ELSE "MsgVote", from |-> i,
                          to |-> j, term |-> term, index |-> LastIndex(n),
                          logTerm |-> LastTerm(n)]
           ms == {request(j) : j \in Node \ {i}}
           answer == VoteResp(IF pre THEN "MsgPreVoteResp" ELSE "MsgVoteResp", i, i, term,
                              FALSE)
           o == SendCampaign(i, n, pre)
<1>1. o = SendSelf(Send(n, ms), answer)
  BY DEF SendCampaign
<1>2. /\ o.steps = n.steps
      /\ o.outbox = n.outbox \cup ms /\ o.self = Append(n.self, answer)
  <2> HIDE DEF ms, answer, o
  <2> QED
    BY <1>1 DEF SendSelf, Send, NodeState
<1>3. \A j \in Node :
         /\ request(j).from = i
         /\ pre = TRUE => request(j).type = "MsgPreVote"
         /\ pre = FALSE => request(j).type = "MsgVote" /\ request(j).term = n.term
  OBVIOUS
<1>4. \A m \in ms : /\ m.from = i
                    /\ pre = TRUE => m.type = "MsgPreVote"
                    /\ pre = FALSE => m.type = "MsgVote" /\ m.term = n.term
  <2> HIDE DEF request
  <2> QED
    BY <1>3
<1>5. answer.from = i /\ answer \in VoteRespMsg
  <2>1. term \in Nat
    BY DEF NodeState
  <2> HIDE DEF term
  <2> QED
    BY <2>1, VoteRespType DEF VoteResp
<1>6. n.self \in Seq(VoteRespMsg \cup AppRespMsg)
  BY DEF NodeState
<1>7. OwnAnswers(i, n) => OwnAnswers(i, o)
  <2> HIDE DEF answer, o, ms
  <2> QED
    BY <1>2, <1>5, <1>6 DEF OwnAnswers
<1> HIDE DEF ms, o
<1>8. \A m \in o.outbox \ n.outbox : m \in ms
  BY <1>2
<1> QED
  BY <1>2, <1>4, <1>7, <1>8 DEF o

\* A pre-vote campaign
LEMMA PreCampaignCalm ==
    ASSUME NEW i \in Node, NEW n \in NodeState
    PROVE  Calm(i, n, Campaign(i, n, TRUE))
<1> DEFINE c == BecomePreCandidate(n)
           o == SendCampaign(i, c, TRUE)
<1>1. c \in NodeState
  BY BecomePreCandidateType
<1>2. /\ c.term = n.term /\ c.vote = n.vote /\ c.state = "PreCandidate"
      /\ c.outbox = n.outbox /\ c.self = n.self /\ c.steps = n.steps
  BY DEF BecomePreCandidate, NodeState
<1> HIDE DEF c
<1>3. /\ o.term = c.term /\ o.vote = c.vote /\ o.state = c.state
      /\ \A m \in o.outbox \ c.outbox : m.type = "MsgPreVote"
      /\ OwnAnswers(i, c) => OwnAnswers(i, o)
  <2>1. /\ o.term = c.term /\ o.vote = c.vote /\ o.state = c.state
        /\ o.granted = c.granted
    BY <1>1, SendCampaignKeeps
  <2>2. \A m \in o.outbox \ c.outbox : m.type = "MsgPreVote"
    BY <1>1, SendCampaignFields
  <2>3. OwnAnswers(i, c) => OwnAnswers(i, o)
    BY <1>1, SendCampaignFields
  <2> QED
    BY <2>1, <2>2, <2>3
<1> HIDE DEF o
<1>4. o.term >= n.term
  BY <1>2, <1>3 DEF NodeState
<1>5. OwnAnswers(i, n) => OwnAnswers(i, o)
  BY <1>2, <1>3 DEF OwnAnswers
<1>6. Calm(i, n, o)
  BY <1>2, <1>3, <1>4, <1>5 DEF Calm, IsBallot, IsGrant
<1> QED
  BY <1>6 DEF o, c, Campaign

\* A campaign in the next term
LEMMA CampaignSound ==
    ASSUME NEW i \in Node, NEW n \in NodeState
    PROVE  Sound(i, n, Campaign(i, n, FALSE))
<1> DEFINE c == BecomeCandidate(i, n)
           o == SendCampaign(i, c, FALSE)
<1>1. c \in NodeState
  BY BecomeCandidateType
<1>2. /\ c.term = n.term + 1 /\ c.vote = i /\ c.state = "Candidate" /\ c.granted = {}
      /\ c.outbox = n.outbox /\ c.self = n.self /\ c.steps = n.steps
  BY DEF BecomeCandidate, Reset, NodeState
<1> HIDE DEF c
<1>3. /\ o.term = c.term /\ o.vote = c.vote /\ o.state = c.state /\ o.granted = c.granted
      /\ \A m \in o.outbox \ c.outbox : m.type = "MsgVote" /\ m.from = i /\ m.term = c.term
      /\ OwnAnswers(i, c) => OwnAnswers(i, o)
  <2>1. /\ o.term = c.term /\ o.vote = c.vote /\ o.state = c.state
        /\ o.granted = c.granted
    BY <1>1, SendCampaignKeeps
  <2>2. \A m \in o.outbox \ c.outbox : m.type = "MsgVote" /\ m.from = i /\ m.term = c.term
    <3>1. \A m \in o.outbox \ c.outbox :
             /\ m.from = i
             /\ FALSE = TRUE => m.type = "MsgPreVote"
             /\ FALSE = FALSE => m.type = "MsgVote" /\ m.term = c.term
      BY <1>1, SendCampaignFields, Zenon
    <3> QED
      BY <3>1, Zenon
  <2>3. OwnAnswers(i, c) => OwnAnswers(i, o)
    BY <1>1, SendCampaignFields
  <2> QED
    BY <2>1, <2>2, <2>3
<1> HIDE DEF o
<1>4. n.term \in Nat /\ o.term >= n.term /\ o.term # n.term
  BY <1>2, <1>3 DEF NodeState
<1>5. OwnAnswers(i, n) => OwnAnswers(i, o)
  BY <1>2, <1>3 DEF OwnAnswers
<1>6. \A m \in o.outbox \ n.outbox :
         /\ IsBallot(m) => m.from = i /\ m.term = o.term /\ VoteOf(m) = o.vote
         /\ ~IsGrant(m) /\ m.type # "MsgApp"
  BY <1>2, <1>3 DEF IsGrant, VoteOf
<1>7. Sound(i, n, o)
  BY <1>2, <1>3, <1>4, <1>5, <1>6 DEF Sound
<1> QED
  BY <1>7 DEF o, c, Campaign

\* A request for a vote, of the term of the node unless it is a pre-vote
LEMMA StepVoteSound ==
    ASSUME NEW i \in Node, NEW n \in NodeState, NEW m \in Message, m \in msgs,
           m.type \in {"MsgVote", "MsgPreVote"}, m.type = "MsgVote" => m.term = n.term
    PROVE  Sound(i, n, StepVote(i, n, m))
<1> DEFINE pre == m.type = "MsgPreVote"
           type == IF pre THEN "MsgPreVoteResp" ELSE "MsgVoteResp"
           canVote == \/ n.vote = m.from
                      \/ n.vote = None /\ n.lead = None
                      \/ pre /\ m.term > n.term
           yes == VoteResp(type, i, m.from, m.term, FALSE)
           no == VoteResp(type, i, m.from, n.term, TRUE)
           o == [Send(n, {yes}) EXCEPT !.vote = IF pre THEN @ ELSE m.from]
<1>1. m.from \in Node /\ m.term \in Nat /\ n.term \in Nat /\ None \notin Node
  BY MessageFields, NodeAssumption DEF NodeState
<1>2. /\ yes.type = type /\ yes.from = i /\ yes.to = m.from /\ yes.term = m.term
      /\ no.type = type /\ no.reject = TRUE
  BY DEF VoteResp
<1>3. yes \in Message /\ no \in Message
  <2> HIDE DEF pre
  <2> QED
    BY <1>1, VoteRespType DEF Message
<1>4. /\ o.term = n.term /\ o.vote = (IF pre THEN n.vote ELSE m.from)
      /\ o.state = n.state /\ o.granted = n.granted
      /\ o.outbox = n.outbox \cup {yes} /\ o.self = n.self /\ o.steps = n.steps
  <2> HIDE DEF yes, pre
  <2> QED
    BY DEF Send, NodeState
<1>5. Sound(i, n, Send(n, {no}))
  <2>1. Calm(i, n, Send(n, {no}))
    <3> HIDE DEF no
    <3> QED
      BY <1>2, <1>3, SendCalm DEF IsBallot, IsGrant
  <2>2. Send(n, {no}) \in NodeState
    <3> HIDE DEF no
    <3> QED
      BY <1>3, SendType
  <2> HIDE DEF no
  <2> QED
    BY <2>1, <2>2, CalmIsSound
<1>6. OwnAnswers(i, n) => OwnAnswers(i, o)
  <2> HIDE DEF o
  <2> QED
    BY <1>4 DEF OwnAnswers
<1>7. ASSUME pre
      PROVE  Sound(i, n, o)
  <2>1. yes.type = "MsgPreVoteResp"
    BY <1>2, <1>7
  <2> HIDE DEF o, yes, no
  <2> QED
    BY <1>1, <1>4, <1>6, <1>7, <2>1 DEF Sound, IsBallot, IsGrant
<1>8. ASSUME ~pre, canVote
      PROVE  Sound(i, n, o)
  <2>1. /\ yes.type = "MsgVoteResp" /\ m.type = "MsgVote" /\ m.term = n.term
        /\ n.vote # None => n.vote = m.from
    BY <1>2, <1>8
  <2>2. Requested(yes.to, yes.term)
    <3> HIDE DEF yes
    <3> QED
      BY <1>2, <2>1 DEF Requested
  <2> HIDE DEF o, yes, no
  <2>3. /\ yes.from = i /\ yes.term = o.term /\ VoteOf(yes) = o.vote
    BY <1>2, <1>4, <1>8, <2>1 DEF VoteOf
  <2>4. \A x \in o.outbox \ n.outbox : x = yes
    BY <1>4
  <2>5. o.term = n.term /\ n.vote # None => o.vote = n.vote
    BY <1>4, <1>8, <2>1
  <2>6. o.term >= n.term /\ o.state = n.state /\ o.granted = n.granted /\ o.term = n.term
    BY <1>1, <1>4
  <2> HIDE DEF pre, canVote
  <2> QED
    BY <1>6, <2>1, <2>2, <2>3, <2>4, <2>5, <2>6 DEF Sound
<1>9. \/ StepVote(i, n, m) = Send(n, {no})
      \/ StepVote(i, n, m) = o /\ canVote
  BY DEF StepVote
<1> HIDE DEF o, no, canVote, pre
<1> QED
  BY <1>5, <1>7, <1>8, <1>9

\* A candidate that has its quorum becomes the leader and announces it
LEMMA WinSound ==
    ASSUME NEW i \in Node, NEW n \in NodeState, NEW p \in NodeState,
           p.term = n.term, p.vote = n.vote, p.outbox = n.outbox,
           p.self = n.self, p.steps = n.steps,
           Supporters(i, p.term) \in Quorum
    PROVE  Sound(i, n, BcastAppend(i, BecomeLeader(i, p)))
<1> DEFINE r == Reset(i, p, p.term)
           pr == BecomeReplicate(r.prog[i])
           e == [r EXCEPT !.lead = i, !.state = "Leader"]
           f == [e EXCEPT !.prog[i] = pr]
           l == AppendEntry(i, f, Empty)
<1>1. r \in NodeState /\ p.term \in Nat
  BY ResetType DEF NodeState
<1>2. /\ r.term = p.term /\ r.vote = p.vote /\ r.outbox = p.outbox
      /\ r.self = p.self /\ r.steps = p.steps
  BY DEF Reset, NodeState
<1>3. pr \in Progress
  <2> HIDE DEF r
  <2> QED
    BY <1>1, ProgType, BecomeReplicateType
<1>4. e \in NodeState
  <2> HIDE DEF r
  <2> QED
    BY <1>1 DEF NodeState
<1>5. /\ e.term = r.term /\ e.vote = r.vote /\ e.state = "Leader"
      /\ e.outbox = r.outbox /\ e.self = r.self /\ e.steps = r.steps
  <2> HIDE DEF r
  <2> QED
    BY <1>1 DEF NodeState
<1>6. f \in NodeState
  <2> HIDE DEF e, pr
  <2> QED
    BY <1>3, <1>4, SetProgType
<1>7. /\ f.term = e.term /\ f.vote = e.vote /\ f.state = e.state
      /\ f.outbox = e.outbox /\ f.self = e.self /\ f.steps = e.steps
  <2> HIDE DEF e, pr
  <2> QED
    BY <1>4 DEF NodeState
<1>8. Sound(i, n, f) /\ f.state = "Leader"
  <2> HIDE DEF e, f, r
  <2>1. f.term = n.term /\ f.vote = n.vote /\ f.state = "Leader"
        /\ f.outbox = n.outbox /\ f.self = n.self /\ f.steps = n.steps
    BY <1>2, <1>5, <1>7
  <2>2. f.term >= n.term
    BY <1>1, <2>1
  <2>3. OwnAnswers(i, n) => OwnAnswers(i, f)
    BY <2>1 DEF OwnAnswers
  <2> QED
    BY <2>1, <2>2, <2>3 DEF Sound
<1>9. l \in NodeState /\ Calm(i, f, l) /\ l.term = f.term /\ l.state = f.state
  <2> HIDE DEF f
  <2> QED
    BY <1>6, AppendEntryType, AppendEntryCalm
<1>10. Sound(i, n, l)
  <2> HIDE DEF f, l
  <2> QED
    BY <1>6, <1>8, <1>9, SoundThenCalm
<1>11. BcastAppend(i, l) \in NodeState /\ Calm(i, l, BcastAppend(i, l))
       /\ BcastAppend(i, l).term = l.term
  <2> HIDE DEF f, l
  <2> QED
    BY <1>8, <1>9, BcastAppendType, BcastAppendCalm
<1>12. l = BecomeLeader(i, p)
  BY DEF BecomeLeader
<1> HIDE DEF l
<1> QED
  BY <1>9, <1>10, <1>11, <1>12, SoundThenCalm

\* A larger set than a quorum is a quorum
LEMMA QuorumGrows ==
    ASSUME NEW Q \in Quorum, NEW R \in SUBSET Node, Q \subseteq R
    PROVE  R \in Quorum
<1>1. IsFiniteSet(Node)
  BY NodeAssumption
<1>2. IsFiniteSet(R) /\ IsFiniteSet(Q) /\ Cardinality(Q) =< Cardinality(R)
  BY <1>1, FS_Subset
<1>3. Cardinality(Q) \in Nat /\ Cardinality(R) \in Nat /\ Cardinality(Node) \in Nat
  BY <1>1, <1>2, FS_CardinalityType
<1> QED
  BY <1>2, <1>3 DEF Quorum

\* An answer to a campaign is counted
LEMMA StepVoteRespSound ==
    ASSUME NEW i \in Node, NEW n \in NodeState, NEW m \in Message, Polls(n, m),
           n.state = "Candidate" => n.granted \subseteq Supporters(i, n.term),
           n.state = "Candidate" /\ IsGrant(m) => m.from \in Supporters(i, n.term)
    PROVE  Sound(i, n, StepVoteResp(i, n, m))
<1> DEFINE polled == IF m.from \in n.granted \cup n.rejected THEN n
                     ELSE IF m.reject THEN [n EXCEPT !.rejected = @ \cup {m.from}]
                     ELSE [n EXCEPT !.granted = @ \cup {m.from}]
           won == polled.granted \in Quorum
           lost == Node \ polled.rejected \notin Quorum
<1>1. m.from \in Node /\ n.term \in Nat
  BY MessageFields DEF NodeState
<1>2. polled \in NodeState
  BY <1>1 DEF NodeState
<1>3. /\ polled.term = n.term /\ polled.vote = n.vote /\ polled.state = n.state
      /\ polled.outbox = n.outbox /\ polled.self = n.self /\ polled.steps = n.steps
      /\ \/ polled.granted = n.granted
         \/ ~m.reject /\ polled.granted = n.granted \cup {m.from}
  BY DEF NodeState
<1>4. n.state = "PreCandidate" \/ (n.state = "Candidate" /\ m.type = "MsgVoteResp")
  BY DEF Polls
<1>5. StepVoteResp(i, n, m) =
        CASE won /\ n.state = "PreCandidate" -> Campaign(i, polled, FALSE)
          [] won /\ n.state = "Candidate"    -> BcastAppend(i, BecomeLeader(i, polled))
          [] ~won /\ lost                    -> BecomeFollower(i, polled, n.term, None)
          [] OTHER                           -> polled
  BY DEF StepVoteResp
<1> HIDE DEF polled
<1>6. n.state = "Candidate" => polled.granted \subseteq Supporters(i, n.term)
  BY <1>3, <1>4 DEF IsGrant
<1>7. OwnAnswers(i, n) => OwnAnswers(i, polled)
  BY <1>3 DEF OwnAnswers
<1>8. polled.term >= n.term
  BY <1>1, <1>3
<1>9. Sound(i, n, polled)
  BY <1>3, <1>4, <1>6, <1>7, <1>8 DEF Sound
<1>10. CASE won /\ n.state = "PreCandidate"
  <2>1. Calm(i, n, polled)
    BY <1>3, <1>7, <1>8, <1>10 DEF Calm
  <2>2. Sound(i, n, Campaign(i, polled, FALSE))
    BY <1>2, <2>1, CampaignSound, CampaignType, CalmThenSound
  <2> QED
    BY <1>5, <1>10, <2>2
<1>11. CASE won /\ n.state = "Candidate"
  <2>1. Supporters(i, polled.term) \in Quorum
    BY <1>3, <1>6, <1>11, QuorumGrows DEF Supporters
  <2>2. Sound(i, n, BcastAppend(i, BecomeLeader(i, polled)))
    BY <1>2, <1>3, <2>1, WinSound
  <2> QED
    BY <1>5, <1>11, <2>2
<1>12. CASE ~won /\ lost
  <2> DEFINE f == BecomeFollower(i, polled, n.term, None)
  <2>1. f \in NodeState /\ Calm(i, polled, f) /\ f.term = polled.term
    BY <1>1, <1>2, <1>3, BecomeFollowerType, BecomeFollowerCalm
  <2> HIDE DEF f
  <2>2. Sound(i, n, f)
    BY <1>2, <1>9, <2>1, SoundThenCalm
  <2> QED
    BY <1>5, <1>12, <2>2 DEF f
<1>13. CASE ~won /\ ~lost
  BY <1>5, <1>9, <1>13
<1> QED
  BY <1>4, <1>10, <1>11, <1>12, <1>13

\* A response, from a peer or from the node itself
LEMMA StepResponseSound ==
    ASSUME NEW i \in Node, NEW n \in NodeState,
           NEW m \in Message, m.type \in {"MsgVoteResp", "MsgPreVoteResp", "MsgAppResp"},
           m.from = i \/ (m \in msgs /\ m.to = i), m.term >= n.term,
           n.state = "Candidate" => n.granted \subseteq Supporters(i, n.term)
    PROVE  Sound(i, n, StepResponse(i, n, m))
<1> DEFINE a == AtTermOf(i, n, m)
<1>1. a \in NodeState /\ Calm(i, n, a) /\ m.from \in Node
      /\ n.term \in Nat /\ m.term \in Nat
  BY AtTermOfType, AtTermOfCalm, MessageFields DEF NodeState
<1>2. m.type = "MsgVoteResp" /\ a.state = "Candidate" => m.term = a.term
  BY AtTermOfCalm, <1>1
<1>3. StepResponse(i, n, m) =
          CASE m.type = "MsgAppResp"                    -> StepAppResp(i, a, m)
            [] m.type # "MsgAppResp" /\ Polls(a, m)     -> StepVoteResp(i, a, m)
            [] OTHER                                    -> a
  BY DEF StepResponse
<1> HIDE DEF a
<1>4. CASE m.type = "MsgAppResp"
  <2>1. m \in AppRespMsg
    BY <1>4, MessageFields
  <2>2. Calm(i, a, StepAppResp(i, a, m)) /\ StepAppResp(i, a, m) \in NodeState
    BY <1>1, <2>1, StepAppRespCalm, StepAppRespType
  <2>3. Sound(i, n, StepAppResp(i, a, m))
    BY <1>1, <2>2, CalmIsSound, CalmThenSound
  <2> QED
    BY <1>3, <1>4, <2>3
<1>5. CASE m.type # "MsgAppResp" /\ Polls(a, m)
  <2>1. a.state = "Candidate" => a.granted \subseteq Supporters(i, a.term)
    BY <1>1 DEF Calm
  <2>2. a.state = "Candidate" /\ IsGrant(m) => m.from \in Supporters(i, a.term)
    BY <1>1, <1>2 DEF IsGrant, Supporters, Granted
  <2>3. Sound(i, a, StepVoteResp(i, a, m)) /\ StepVoteResp(i, a, m) \in NodeState
    BY <1>1, <1>5, <2>1, <2>2, StepVoteRespSound, StepVoteRespType
  <2>4. Sound(i, n, StepVoteResp(i, a, m))
    BY <1>1, <2>3, CalmThenSound
  <2> QED
    BY <1>3, <1>5, <2>4
<1>6. CASE m.type # "MsgAppResp" /\ ~Polls(a, m)
  BY <1>1, <1>3, <1>6, CalmIsSound
<1> QED
  BY <1>4, <1>5, <1>6

-----------------------------------------------------------------------------
(***************************************************************************)
(* The invariant.                                                          *)
(***************************************************************************)

\* A vote is for a node
LEMMA VoteOfType ==
    ASSUME NEW m \in Message
    PROVE  VoteOf(m) \in Node
  BY MessageFields DEF VoteOf

\* A sound change keeps every vote
LEMMA HoldsKept ==
    ASSUME NEW i \in Node, NEW n \in NodeState, NEW o \in NodeState, Sound(i, n, o),
           NEW t \in Nat, NEW c \in Node, Holds(n, t, c)
    PROVE  Holds(o, t, c)
<1>1. n.term \in Nat /\ o.term \in Nat /\ None \notin Node
  BY NodeAssumption DEF NodeState
<1> QED
  BY <1>1 DEF Sound, Holds

\* The node holds every vote it has told or is about to tell
LEMMA BallotHeld ==
    ASSUME ElectionInv, NEW m \in AllMsgs, IsBallot(m)
    PROVE  m \in Message /\ Holds(node[m.from], m.term, VoteOf(m))
<1>1. CASE m \in msgs
  <2>1. m \in Message /\ m.from \in Node /\ m.term \in Nat /\ VoteOf(m) \in Node
    BY <1>1, MessageFields, VoteOfType DEF ElectionInv, TypeOK
  <2>2. Holds(disk[m.from], m.term, VoteOf(m))
    BY <1>1 DEF ElectionInv, BallotsHold
  <2>3. /\ disk[m.from].term \in Nat /\ node[m.from].term \in Nat /\ None \notin Node
    BY <2>1, NodeAssumption DEF ElectionInv, TypeOK, DiskState, NodeState
  <2>4. /\ disk[m.from].term =< node[m.from].term
        /\ disk[m.from].term = node[m.from].term /\ disk[m.from].vote # None =>
              node[m.from].vote = disk[m.from].vote
    BY <2>1 DEF ElectionInv, DiskBehind
  <2> QED
    BY <2>1, <2>2, <2>3, <2>4 DEF Holds
<1>2. CASE m \notin msgs
  <2>1. PICK i \in Node : m \in node[i].outbox
    BY <1>2 DEF AllMsgs
  <2>2. m \in Message
    BY <2>1 DEF ElectionInv, TypeOK, NodeState
  <2> QED
    BY <2>1, <2>2 DEF ElectionInv, BallotsHold
<1> QED
  BY <1>1, <1>2

\* A sound change of one node preserves the invariant
LEMMA SoundStep ==
    ASSUME ElectionInv, NEW i \in Node, NEW o \in NodeState, Become(i, o),
           Sound(i, node[i], o)
    PROVE  ElectionInv'
<1> DEFINE n == node[i]
<1>1. /\ node' = [node EXCEPT ![i] = o] /\ disk' = disk /\ msgs' = msgs
      /\ node'[i] = o /\ \A j \in Node \ {i} : node'[j] = node[j]
  BY DEF Become, ElectionInv, TypeOK
<1>2. n \in NodeState /\ n.term \in Nat /\ o.term \in Nat /\ disk[i].term \in Nat
      /\ None \notin Node
  BY NodeAssumption DEF ElectionInv, TypeOK, NodeState, DiskState
<1>3. TypeOK'
  BY BecomeKeepsType DEF ElectionInv
<1>4. \A c, t : Requested(c, t)' = Requested(c, t) /\ Supporters(c, t)' = Supporters(c, t)
  BY <1>1 DEF Requested, Supporters, Granted
<1>5. \A m \in AllMsgs' : m \in AllMsgs \/ m \in o.outbox \ n.outbox
  BY <1>1 DEF AllMsgs
<1>6. DiskBehind'
  <2>1. /\ disk[i].term =< n.term
        /\ disk[i].term = n.term /\ disk[i].vote # None => n.vote = disk[i].vote
    BY DEF ElectionInv, DiskBehind
  <2>2. /\ disk[i].term =< o.term
        /\ disk[i].term = o.term /\ disk[i].vote # None => o.vote = disk[i].vote
    <3> HIDE DEF n
    <3> QED
      BY <1>2, <2>1 DEF Sound, n
  <2> QED
    BY <1>1, <2>2 DEF ElectionInv, DiskBehind
<1>7. BallotsHold'
  <2>1. ASSUME NEW m \in o.outbox, IsBallot(m)
        PROVE  m.from = i /\ Holds(o, m.term, VoteOf(m))
    <3>1. CASE m \in n.outbox
      <4>1. m \in Message /\ m.term \in Nat /\ VoteOf(m) \in Node
        BY <3>1, <1>2, MessageFields, VoteOfType DEF NodeState
      <4>2. m.from = i /\ Holds(n, m.term, VoteOf(m))
        BY <2>1, <3>1 DEF ElectionInv, BallotsHold
      <4> QED
        BY <1>2, <4>1, <4>2, HoldsKept
    <3>2. CASE m \notin n.outbox
      BY <2>1, <3>2 DEF Sound, Holds
    <3> QED
      BY <3>1, <3>2
  <2> QED
    BY <1>1, <2>1 DEF ElectionInv, BallotsHold
<1>8. OneBallot'
  <2>1. ASSUME NEW a \in AllMsgs, NEW b \in o.outbox \ n.outbox, IsBallot(a), IsBallot(b),
               a.from = b.from, a.term = b.term
        PROVE  VoteOf(a) = VoteOf(b)
    <3>1. b.from = i /\ b.term = o.term /\ VoteOf(b) = o.vote
      BY <2>1 DEF Sound
    <3>2. Holds(n, o.term, VoteOf(a)) /\ VoteOf(a) \in Node
      BY <2>1, <3>1, BallotHeld, VoteOfType
    <3>3. Holds(o, o.term, VoteOf(a))
      BY <1>2, <3>2, HoldsKept
    <3> QED
      BY <1>2, <3>1, <3>3 DEF Holds
  <2>2. ASSUME NEW a \in o.outbox \ n.outbox, NEW b \in o.outbox \ n.outbox,
               IsBallot(a), IsBallot(b)
        PROVE  VoteOf(a) = VoteOf(b)
    BY <2>2 DEF Sound
  <2>3. ASSUME NEW a \in AllMsgs, NEW b \in AllMsgs, IsBallot(a), IsBallot(b),
               a.from = b.from, a.term = b.term
        PROVE  VoteOf(a) = VoteOf(b)
    BY <2>3 DEF ElectionInv, OneBallot
  <2>4. ASSUME NEW a \in AllMsgs', NEW b \in AllMsgs', IsBallot(a), IsBallot(b),
               a.from = b.from, a.term = b.term
        PROVE  VoteOf(a) = VoteOf(b)
    <3> HIDE DEF n
    <3> QED
      BY <1>5, <2>1, <2>2, <2>3, <2>4
  <2> QED
    BY <2>4 DEF OneBallot
<1>9. GrantsAnswer'
  <2>1. \A m \in AllMsgs : IsGrant(m) => Requested(m.to, m.term)
    BY DEF ElectionInv, GrantsAnswer
  <2>2. \A m \in o.outbox \ n.outbox : IsGrant(m) => Requested(m.to, m.term)
    BY DEF Sound
  <2> HIDE DEF n
  <2>3. \A m \in AllMsgs' : IsGrant(m) => Requested(m.to, m.term)'
    BY <1>4, <1>5, <2>1, <2>2
  <2> QED
    BY <2>3 DEF GrantsAnswer
<1>10. (\A j \in Node : OwnAnswers(j, node[j]))'
  BY <1>1 DEF ElectionInv, Sound
<1>11. CountsAreVotes'
  <2>1. o.state = "Candidate" => o.granted \subseteq Supporters(i, o.term)
    BY DEF ElectionInv, CountsAreVotes, Sound
  <2> QED
    BY <1>1, <1>4, <2>1 DEF ElectionInv, CountsAreVotes
<1>12. LeadersHadQuorum'
  <2>1. n.state = "Leader" => Supporters(i, n.term) \in Quorum
    BY DEF ElectionInv, LeadersHadQuorum
  <2>2. o.state = "Leader" => Supporters(i, o.term) \in Quorum
    BY <2>1 DEF Sound
  <2>3. \A m \in o.outbox \ n.outbox : m.type = "MsgApp" => Supporters(m.from, m.term) \in Quorum
    BY <2>1 DEF Sound
  <2>4. \A m \in AllMsgs : m.type = "MsgApp" => Supporters(m.from, m.term) \in Quorum
    BY DEF ElectionInv, LeadersHadQuorum
  <2>5. \A m \in AllMsgs' : m.type = "MsgApp" => Supporters(m.from, m.term)' \in Quorum
    <3> HIDE DEF n
    <3> QED
      BY <1>4, <1>5, <2>3, <2>4
  <2>6. (\A j \in Node : node[j].state = "Leader" => Supporters(j, node[j].term) \in Quorum)'
    BY <1>1, <1>4, <2>2 DEF ElectionInv, LeadersHadQuorum
  <2> QED
    BY <2>5, <2>6 DEF LeadersHadQuorum
<1> QED
  BY <1>3, <1>6, <1>7, <1>8, <1>9, <1>10, <1>11, <1>12 DEF ElectionInv

\* Storing the state of a node and releasing its messages preserves the invariant
LEMMA ReadyStep ==
    ASSUME ElectionInv, NEW i \in Node, Ready(i), TypeOK'
    PROVE  ElectionInv'
<1> DEFINE n == node[i]
           o == [n EXCEPT !.outbox = {}, !.self = <<>>, !.steps = n.self]
<1>1. n \in NodeState /\ \A j \in Node : node[j] \in NodeState /\ disk[j] \in DiskState
  BY DEF ElectionInv, TypeOK
<1>2. /\ node' = [node EXCEPT ![i] = o] /\ disk' = [disk EXCEPT ![i] = HardState(n)]
      /\ msgs' = msgs \cup n.outbox
  BY DEF Ready, ElectionInv, TypeOK
<1>3. /\ o.term = n.term /\ o.vote = n.vote /\ o.state = n.state /\ o.granted = n.granted
      /\ o.outbox = {} /\ o.self = <<>> /\ o.steps = n.self
  <2> HIDE DEF n
  <2> QED
    BY <1>1 DEF NodeState
<1> HIDE DEF o
<1>4. /\ node'[i] = o /\ \A j \in Node \ {i} : node'[j] = node[j]
      /\ disk'[i] = HardState(n) /\ \A j \in Node \ {i} : disk'[j] = disk[j]
  BY <1>2 DEF ElectionInv, TypeOK
<1>5. HardState(n).term = n.term /\ HardState(n).vote = n.vote
  BY DEF HardState
<1>6. AllMsgs' = AllMsgs
  BY <1>2, <1>3, <1>4 DEF AllMsgs
<1>7. \A c, t : /\ Requested(c, t) => Requested(c, t)'
                /\ Supporters(c, t) \subseteq Supporters(c, t)'
                /\ Supporters(c, t)' \in SUBSET Node
  BY <1>2 DEF Requested, Supporters, Granted
<1>8. DiskBehind'
  <2>1. n.term =< n.term
    BY <1>1 DEF NodeState
  <2> QED
    BY <1>3, <1>4, <1>5, <2>1 DEF ElectionInv, DiskBehind
<1>9. BallotsHold'
  <2>1. ASSUME NEW m \in msgs', IsBallot(m)
        PROVE  Holds(disk[m.from], m.term, VoteOf(m))'
    <3>1. CASE m.from = i
      <4>1. m \in AllMsgs
        BY <1>2 DEF AllMsgs
      <4>2. Holds(n, m.term, VoteOf(m))
        BY <2>1, <3>1, <4>1, BallotHeld
      <4> QED
        BY <1>4, <1>5, <3>1, <4>2 DEF Holds
    <3>2. CASE m.from # i
      <4>1. m \in msgs
        BY <1>2, <2>1, <3>2 DEF ElectionInv, BallotsHold
      <4>2. m.from \in Node
        BY <4>1, MessageFields DEF ElectionInv, TypeOK
      <4>3. Holds(disk[m.from], m.term, VoteOf(m))
        BY <2>1, <4>1 DEF ElectionInv, BallotsHold
      <4> QED
        BY <1>4, <3>2, <4>2, <4>3 DEF Holds
    <3> QED
      BY <3>1, <3>2
  <2>2. ASSUME NEW j \in Node, NEW m \in node'[j].outbox, IsBallot(m)
        PROVE  m.from = j /\ Holds(node[j], m.term, VoteOf(m))'
    <3>1. j # i
      BY <1>3, <1>4
    <3> QED
      BY <1>4, <2>2, <3>1 DEF ElectionInv, BallotsHold, Holds
  <2> QED
    BY <2>1, <2>2 DEF BallotsHold
<1>10. OneBallot'
  BY <1>6 DEF ElectionInv, OneBallot
<1>11. GrantsAnswer'
  BY <1>6, <1>7 DEF ElectionInv, GrantsAnswer
<1>12. (\A j \in Node : OwnAnswers(j, node[j]))'
  BY <1>3, <1>4 DEF ElectionInv, OwnAnswers
<1>13. CountsAreVotes'
  BY <1>3, <1>4, <1>7 DEF ElectionInv, CountsAreVotes
<1>14. LeadersHadQuorum'
  <2>1. \A c, t : Supporters(c, t) \in Quorum => Supporters(c, t)' \in Quorum
    BY <1>7, QuorumGrows
  <2>2. (\A j \in Node : node[j].state = "Leader" => Supporters(j, node[j].term) \in Quorum)'
    BY <1>3, <1>4, <2>1 DEF ElectionInv, LeadersHadQuorum
  <2>3. \A m \in AllMsgs' : m.type = "MsgApp" => Supporters(m.from, m.term)' \in Quorum
    BY <1>6, <2>1 DEF ElectionInv, LeadersHadQuorum
  <2> QED
    BY <2>2, <2>3 DEF LeadersHadQuorum
<1> QED
  BY <1>8, <1>9, <1>10, <1>11, <1>12, <1>13, <1>14 DEF ElectionInv

\* What a node starts with
LEMMA NewRaftFields ==
    ASSUME NEW i \in Node, NEW d \in DiskState
    PROVE  LET n == NewRaft(i, d)
           IN  /\ n.term = d.term /\ n.vote = d.vote /\ n.state = "Follower"
               /\ n.outbox = {} /\ OwnAnswers(i, n)
<1> DEFINE n == [term |-> d.term, vote |-> d.vote, lead |-> None, state |-> "Follower",
                 log |-> d.log, commit |-> d.commit, granted |-> {}, rejected |-> {},
                 prog |-> [j \in Node |-> ResetProgress(0, 0)], transferee |-> None,
                 outbox |-> {}, self |-> <<>>, steps |-> <<>>]
           o == BecomeFollower(i, n, d.term, None)
<1>1. /\ n.term = d.term /\ n.vote = d.vote
      /\ o.term = d.term /\ o.vote = (IF n.term = d.term THEN n.vote ELSE None)
      /\ o.state = "Follower" /\ o.outbox = {} /\ o.self = <<>> /\ o.steps = <<>>
  BY DEF BecomeFollower, Reset
<1>2. NewRaft(i, d) = o
  BY DEF NewRaft
<1> HIDE DEF o, n
<1> QED
  BY <1>1, <1>2 DEF OwnAnswers

\* A restart from the disk preserves the invariant
LEMMA RestartStep ==
    ASSUME ElectionInv, NEW i \in Node, Restart(i), TypeOK'
    PROVE  ElectionInv'
<1> DEFINE o == NewRaft(i, disk[i])
<1>1. disk[i] \in DiskState /\ disk[i].term \in Nat
  BY DEF ElectionInv, TypeOK, DiskState
<1>2. /\ o.term = disk[i].term /\ o.vote = disk[i].vote /\ o.state = "Follower"
      /\ o.outbox = {} /\ OwnAnswers(i, o)
  BY <1>1, NewRaftFields
<1>3. /\ node'[i] = o /\ \A j \in Node \ {i} : node'[j] = node[j]
      /\ disk' = disk /\ msgs' = msgs
  BY DEF Restart, ElectionInv, TypeOK
<1> HIDE DEF o
<1>4. \A m \in AllMsgs' : m \in AllMsgs
  BY <1>2, <1>3 DEF AllMsgs
<1>5. \A c, t : Requested(c, t)' = Requested(c, t) /\ Supporters(c, t)' = Supporters(c, t)
  BY <1>3 DEF Requested, Supporters, Granted
<1>6. DiskBehind'
  <2>1. disk[i].term =< disk[i].term
    BY <1>1
  <2> QED
    BY <1>2, <1>3, <2>1 DEF ElectionInv, DiskBehind
<1>7. BallotsHold'
  BY <1>2, <1>3 DEF ElectionInv, BallotsHold
<1>8. OneBallot'
  BY <1>4 DEF ElectionInv, OneBallot
<1>9. GrantsAnswer'
  BY <1>4, <1>5 DEF ElectionInv, GrantsAnswer
<1>10. (\A j \in Node : OwnAnswers(j, node[j]))'
  BY <1>2, <1>3 DEF ElectionInv
<1>11. CountsAreVotes'
  BY <1>2, <1>3, <1>5 DEF ElectionInv, CountsAreVotes
<1>12. LeadersHadQuorum'
  <2>1. (\A j \in Node : node[j].state = "Leader" => Supporters(j, node[j].term) \in Quorum)'
    BY <1>2, <1>3, <1>5 DEF ElectionInv, LeadersHadQuorum
  <2>2. \A m \in AllMsgs' : m.type = "MsgApp" => Supporters(m.from, m.term)' \in Quorum
    BY <1>4, <1>5 DEF ElectionInv, LeadersHadQuorum
  <2> QED
    BY <2>1, <2>2 DEF LeadersHadQuorum
<1> QED
  BY <1>6, <1>7, <1>8, <1>9, <1>10, <1>11, <1>12 DEF ElectionInv

\* The initial states satisfy the invariant
LEMMA ElectionInit == Init => ElectionInv
<1> SUFFICES ASSUME Init
             PROVE  ElectionInv
  OBVIOUS
<1>1. TypeOK
  BY TypeInit
<1>2. \A i \in Node : disk[i] \in DiskState /\ disk[i].term \in Nat
  BY <1>1 DEF TypeOK, DiskState
<1>3. \A i \in Node : /\ node[i].term = disk[i].term /\ node[i].vote = disk[i].vote
                      /\ node[i].state = "Follower"
                      /\ node[i].outbox = {} /\ OwnAnswers(i, node[i])
  BY <1>2, NewRaftFields DEF Init
<1>4. msgs = {} /\ AllMsgs = {}
  BY <1>3 DEF Init, AllMsgs
<1>5. DiskBehind
  BY <1>2, <1>3 DEF DiskBehind
<1> QED
  BY <1>1, <1>3, <1>4, <1>5
     DEF ElectionInv, BallotsHold, OneBallot, GrantsAnswer, CountsAreVotes, LeadersHadQuorum

\* A message of the network leads to a sound change
LEMMA DeliverSound ==
    ASSUME ElectionInv, NEW i \in Node, NEW m \in msgs, m.to = i, Deliver(i, m)
    PROVE  \E o \in NodeState : Become(i, o) /\ Sound(i, node[i], o)
<1> DEFINE n == node[i]
           a == AtTermOf(i, n, m)
<1>1. /\ m \in Message /\ m.from \in Node /\ m.term \in Nat
      /\ n \in NodeState /\ n.term \in Nat
  BY MessageFields DEF ElectionInv, TypeOK, NodeState
<1>2. /\ a \in NodeState /\ Calm(i, n, a)
      /\ m.term >= n.term /\ m.type \notin {"MsgPreVote", "MsgPreVoteResp"} => a.term = m.term
  BY <1>1, AtTermOfType, AtTermOfCalm
<1>3. ASSUME NEW o \in NodeState, Become(i, o), Calm(i, n, o)
      PROVE  \E x \in NodeState : Become(i, x) /\ Sound(i, node[i], x)
  BY <1>1, <1>3, CalmIsSound
<1>4. ASSUME NEW o \in NodeState, Become(i, o), Calm(i, a, o)
      PROVE  \E x \in NodeState : Become(i, x) /\ Sound(i, node[i], x)
  <2>1. Calm(i, n, o)
    BY <1>1, <1>2, <1>4, CalmTrans
  <2> QED
    BY <1>3, <1>4, <2>1
<1>5. ASSUME NEW o \in NodeState, Become(i, o), Sound(i, a, o)
      PROVE  \E x \in NodeState : Become(i, x) /\ Sound(i, node[i], x)
  <2>1. Sound(i, n, o)
    BY <1>1, <1>2, <1>5, CalmThenSound
  <2> QED
    BY <1>5, <2>1
<1> HIDE DEF a
<1>6. CASE ReceiveLowerTerm(i, m)
  BY <1>1, <1>3, <1>6, StepLowerTermType, StepLowerTermCalm DEF ReceiveLowerTerm
<1>7. CASE ReceiveVote(i, m)
  <2>1. /\ m.type \in {"MsgVote", "MsgPreVote"} /\ m.term >= n.term
        /\ Become(i, StepVote(i, a, m))
    BY <1>7 DEF ReceiveVote, Receive, a
  <2>2. Sound(i, a, StepVote(i, a, m)) /\ StepVote(i, a, m) \in NodeState
    BY <1>1, <1>2, <2>1, StepVoteSound, StepVoteType
  <2> QED
    BY <1>5, <2>1, <2>2
<1>8. CASE ReceiveResponse(i, m)
  <2>1. /\ m.type \in {"MsgVoteResp", "MsgPreVoteResp", "MsgAppResp"} /\ m.term >= n.term
        /\ Become(i, StepResponse(i, n, m))
    BY <1>8 DEF ReceiveResponse, Receive
  <2>2. n.state = "Candidate" => n.granted \subseteq Supporters(i, n.term)
    BY DEF ElectionInv, CountsAreVotes
  <2>3. Sound(i, n, StepResponse(i, n, m)) /\ StepResponse(i, n, m) \in NodeState
    BY <1>1, <2>1, <2>2, StepResponseSound, StepResponseType
  <2> QED
    BY <2>1, <2>3
<1>9. CASE ReceiveApp(i, m)
  <2>1. m.type = "MsgApp" /\ m.term >= n.term /\ Become(i, StepApp(i, a, m))
    BY <1>9 DEF ReceiveApp, Receive, a
  <2>2. Calm(i, a, StepApp(i, a, m)) /\ StepApp(i, a, m) \in NodeState
    BY <1>1, <1>2, <2>1, StepAppCalm, StepAppType
  <2> QED
    BY <1>4, <2>1, <2>2
<1>10. CASE ReceiveHeartbeat(i, m)
  <2>1. m.type = "MsgHeartbeat" /\ m.term >= n.term /\ Become(i, StepHeartbeat(i, a, m))
    BY <1>10 DEF ReceiveHeartbeat, Receive, a
  <2>2. Calm(i, a, StepHeartbeat(i, a, m)) /\ StepHeartbeat(i, a, m) \in NodeState
    BY <1>1, <1>2, <2>1, StepHeartbeatCalm, StepHeartbeatType
  <2> QED
    BY <1>4, <2>1, <2>2
<1>11. CASE ReceiveHeartbeatResp(i, m)
  <2>1. Become(i, IF a.state = "Leader" THEN StepHeartbeatResp(i, a, m) ELSE a)
    BY <1>11 DEF ReceiveHeartbeatResp, a
  <2>2. a.state = "Leader" => /\ Calm(i, a, StepHeartbeatResp(i, a, m))
                              /\ StepHeartbeatResp(i, a, m) \in NodeState
    BY <1>1, <1>2, StepHeartbeatRespCalm, StepHeartbeatRespType
  <2> QED
    BY <1>2, <1>3, <1>4, <2>1, <2>2
<1>12. CASE ReceiveTimeoutNow(i, m)
  <2>1. Become(i, IF a.state = "Follower" THEN Campaign(i, a, FALSE) ELSE a)
    BY <1>12 DEF ReceiveTimeoutNow, a
  <2>2. Sound(i, a, Campaign(i, a, FALSE)) /\ Campaign(i, a, FALSE) \in NodeState
    BY <1>2, CampaignSound, CampaignType
  <2> QED
    BY <1>2, <1>3, <1>5, <2>1, <2>2
<1>13. CASE ReceiveTransferLeader(i, m)
  <2>1. Become(i, StepTransferLeader(i, a, m.from))
    BY <1>13 DEF ReceiveTransferLeader, a
  <2>2. /\ Calm(i, a, StepTransferLeader(i, a, m.from))
        /\ StepTransferLeader(i, a, m.from) \in NodeState
    BY <1>1, <1>2, StepTransferLeaderCalm, StepTransferLeaderType
  <2> QED
    BY <1>4, <2>1, <2>2
<1>14. CASE ReceiveProp(i, m)
  <2>1. m.val \in Value /\ Become(i, StepProp(i, n, m.val))
    BY <1>1, <1>14, MessageFields DEF ReceiveProp, PropMsg
  <2>2. Calm(i, n, StepProp(i, n, m.val)) /\ StepProp(i, n, m.val) \in NodeState
    BY <1>1, <2>1, StepPropCalm, StepPropType
  <2> QED
    BY <1>3, <2>1, <2>2
<1> QED
  BY <1>6, <1>7, <1>8, <1>9, <1>10, <1>11, <1>12, <1>13, <1>14 DEF Deliver

\* A call of a timer or of the application leads to a sound change
LEMMA LocalSound ==
    ASSUME ElectionInv, NEW i \in Node, Local(i)
    PROVE  \E o \in NodeState : Become(i, o) /\ Sound(i, node[i], o)
<1> DEFINE n == node[i]
           f == [n EXCEPT !.lead = None]
           x == [n EXCEPT !.transferee = None]
<1>1. n \in NodeState /\ n.term \in Nat /\ n.term >= n.term
  BY DEF ElectionInv, TypeOK, NodeState
<1>2. ASSUME NEW o \in NodeState, Become(i, o), Calm(i, n, o)
      PROVE  \E y \in NodeState : Become(i, y) /\ Sound(i, node[i], y)
  BY <1>1, <1>2, CalmIsSound
<1>3. CASE Hup(i)
  <2>1. Become(i, Campaign(i, n, PreVote)) /\ PreVote \in BOOLEAN
    BY <1>3, OptionAssumption DEF Hup
  <2>2. CASE PreVote = TRUE
    <3>1. Become(i, Campaign(i, n, TRUE))
      BY <2>1, <2>2
    <3>2. Calm(i, n, Campaign(i, n, TRUE)) /\ Campaign(i, n, TRUE) \in NodeState
      BY <1>1, PreCampaignCalm, CampaignType
    <3> QED
      BY <1>2, <3>1, <3>2
  <2>3. CASE PreVote = FALSE
    <3>1. Become(i, Campaign(i, n, FALSE))
      BY <2>1, <2>3
    <3>2. Sound(i, n, Campaign(i, n, FALSE)) /\ Campaign(i, n, FALSE) \in NodeState
      BY <1>1, CampaignSound, CampaignType
    <3> QED
      BY <3>1, <3>2
  <2> QED
    BY <2>1, <2>2, <2>3
<1>4. CASE Beat(i)
  BY <1>1, <1>2, <1>4, BcastHeartbeatType, BcastHeartbeatCalm DEF Beat
<1>5. CASE CheckQuorumFails(i)
  BY <1>1, <1>2, <1>5, BecomeFollowerType, BecomeFollowerCalm DEF CheckQuorumFails
<1>6. CASE AbortTransfer(i)
  <2>1. Become(i, x)
    BY <1>6 DEF AbortTransfer
  <2>2. x \in NodeState /\ Calm(i, n, x)
    BY <1>1, SetFieldsCalm
  <2> QED
    BY <1>2, <2>1, <2>2
<1>7. ASSUME NEW val \in Value, Propose(i, val)
      PROVE  \E o \in NodeState : Become(i, o) /\ Sound(i, node[i], o)
  BY <1>1, <1>2, <1>7, StepPropType, StepPropCalm DEF Propose
<1>8. ASSUME NEW to \in Node, TransferLeader(i, to)
      PROVE  \E o \in NodeState : Become(i, o) /\ Sound(i, node[i], o)
  BY <1>1, <1>2, <1>8, StepTransferLeaderType, StepTransferLeaderCalm DEF TransferLeader
<1>9. CASE ForgetLeader(i)
  <2>1. Become(i, f)
    BY <1>9 DEF ForgetLeader
  <2>2. f \in NodeState /\ Calm(i, n, f)
    BY <1>1, SetFieldTypes, SetFieldsCalm
  <2> QED
    BY <1>2, <2>1, <2>2
<1>10. ASSUME NEW j \in Node \ {i}, ReportUnreachable(i, j)
       PROVE  \E o \in NodeState : Become(i, o) /\ Sound(i, node[i], o)
  <2> DEFINE pr == BecomeProbe(n.prog[j])
             o == [n EXCEPT !.prog[j] = pr]
  <2>1. Become(i, o)
    BY <1>10 DEF ReportUnreachable
  <2>2. pr \in Progress
    BY <1>1, ProgType, BecomeProbeType
  <2>3. o \in NodeState /\ Calm(i, n, o)
    <3> HIDE DEF pr
    <3> QED
      BY <1>1, <2>2, SetProgType, SetProgCalm
  <2> HIDE DEF o
  <2> QED
    BY <1>2, <2>1, <2>3
<1> QED
  BY <1>3, <1>4, <1>5, <1>6, <1>7, <1>8, <1>9, <1>10 DEF Local

\* A node that steps one of its own answers changes soundly
LEMMA AdvanceSound ==
    ASSUME ElectionInv, NEW i \in Node, Advance(i)
    PROVE  \E o \in NodeState : Become(i, o) /\ Sound(i, node[i], o)
<1> DEFINE m == Head(node[i].steps)
           n == [node[i] EXCEPT !.steps = Tail(@)]
           o == StepResponse(i, n, m)
<1>1. /\ node[i] \in NodeState /\ node[i].steps # <<>> /\ node[i].term \in Nat
      /\ node[i].steps \in Seq(VoteRespMsg \cup AppRespMsg)
      /\ OwnAnswers(i, node[i])
  BY DEF Advance, ElectionInv, TypeOK, NodeState
<1>2. /\ m \in VoteRespMsg \cup AppRespMsg
      /\ Tail(node[i].steps) \in Seq(VoteRespMsg \cup AppRespMsg)
  BY <1>1
<1>3. /\ m \in Message /\ m.type \in {"MsgVoteResp", "MsgPreVoteResp", "MsgAppResp"}
      /\ m.term \in Nat
  BY <1>2 DEF Message, VoteRespMsg, AppRespMsg
<1>4. m.from = i
  BY <1>1 DEF OwnAnswers
<1>5. n \in NodeState
  BY <1>1, <1>2 DEF NodeState
<1>6. /\ n.term = node[i].term /\ n.vote = node[i].vote /\ n.state = node[i].state
      /\ n.granted = node[i].granted /\ n.outbox = node[i].outbox
      /\ n.self = node[i].self /\ n.steps = Tail(node[i].steps)
  BY <1>1 DEF NodeState
<1>7. Become(i, n) \/ (Become(i, o) /\ ~(m.term < n.term))
  BY DEF Advance
<1> HIDE DEF m, n
<1>8. Calm(i, node[i], n)
  <2>1. OwnAnswers(i, n)
    BY <1>1, <1>6 DEF OwnAnswers
  <2>2. n.term >= node[i].term
    BY <1>1, <1>6
  <2> QED
    BY <1>6, <2>1, <2>2 DEF Calm
<1>9. CASE Become(i, n)
  BY <1>1, <1>5, <1>8, <1>9, CalmIsSound
<1>10. CASE Become(i, o) /\ ~(m.term < n.term)
  <2>1. m.term >= n.term
    BY <1>1, <1>3, <1>6, <1>10
  <2>2. n.state = "Candidate" => n.granted \subseteq Supporters(i, n.term)
    BY <1>6 DEF ElectionInv, CountsAreVotes
  <2>3. Sound(i, n, o) /\ o \in NodeState
    BY <1>3, <1>4, <1>5, <2>1, <2>2, StepResponseSound, StepResponseType
  <2>4. Sound(i, node[i], o)
    BY <1>1, <1>5, <1>8, <2>3, CalmThenSound
  <2> QED
    BY <1>10, <2>3, <2>4
<1> QED
  BY <1>7, <1>9, <1>10

\* Every step preserves the invariant
LEMMA ElectionStep == ElectionInv /\ [Next]_vars => ElectionInv'
<1> SUFFICES ASSUME ElectionInv, [Next]_vars
             PROVE  ElectionInv'
  OBVIOUS
<1>1. TypeOK'
  BY TypeStep DEF ElectionInv
<1>2. CASE UNCHANGED vars
  <2>1. node' = node /\ disk' = disk /\ msgs' = msgs /\ restarts' = restarts
    BY <1>2 DEF vars
  <2>2. AllMsgs' = AllMsgs
    BY <2>1 DEF AllMsgs
  <2>3. \A c, t : Requested(c, t)' = Requested(c, t) /\ Supporters(c, t)' = Supporters(c, t)
    BY <2>1 DEF Requested, Supporters, Granted
  <2>4. DiskBehind' /\ BallotsHold' /\ OneBallot' /\ GrantsAnswer'
    BY <2>1, <2>2, <2>3
       DEF ElectionInv, DiskBehind, BallotsHold, OneBallot, GrantsAnswer
  <2>5. (\A i \in Node : OwnAnswers(i, node[i]))' /\ CountsAreVotes'
    BY <2>1, <2>3 DEF ElectionInv, CountsAreVotes
  <2>6. LeadersHadQuorum'
    BY <2>1, <2>2, <2>3 DEF ElectionInv, LeadersHadQuorum
  <2> QED
    BY <1>1, <2>4, <2>5, <2>6 DEF ElectionInv
<1>3. ASSUME NEW i \in Node, NEW o \in NodeState, Become(i, o), Sound(i, node[i], o)
      PROVE  ElectionInv'
  BY <1>3, SoundStep
<1>4. ASSUME NEW i \in Node, Ready(i)
      PROVE  ElectionInv'
  BY <1>1, <1>4, ReadyStep
<1>5. ASSUME NEW i \in Node, Restart(i)
      PROVE  ElectionInv'
  BY <1>1, <1>5, RestartStep
<1>6. ASSUME NEW i \in Node, Advance(i)
      PROVE  ElectionInv'
  BY <1>3, <1>6, AdvanceSound
<1>7. ASSUME NEW i \in Node, Local(i)
      PROVE  ElectionInv'
  BY <1>3, <1>7, LocalSound
<1>8. ASSUME NEW i \in Node, NEW m \in msgs, m.to = i, Deliver(i, m)
      PROVE  ElectionInv'
  BY <1>3, <1>8, DeliverSound
<1> QED
  BY <1>2, <1>4, <1>5, <1>6, <1>7, <1>8 DEF Next

-----------------------------------------------------------------------------
(***************************************************************************)
(* What the invariant implies.                                             *)
(***************************************************************************)

\* Two quorums have a common member
LEMMA QuorumsMeet ==
    ASSUME NEW Q \in Quorum, NEW R \in Quorum
    PROVE  Q \cap R # {}
<1>1. IsFiniteSet(Node) /\ Q \subseteq Node /\ R \subseteq Node
  BY NodeAssumption DEF Quorum
<1>2. Cardinality(Q) \in Nat /\ Cardinality(R) \in Nat /\ Cardinality(Node) \in Nat
  BY <1>1, FS_CardinalityType, FS_Subset
<1>3. Cardinality(Q) + Cardinality(R) > Cardinality(Node)
  BY <1>2 DEF Quorum
<1> QED
  BY <1>1, <1>3, FS_MajoritiesIntersect

\* One node alone is not a quorum where there is another
LEMMA QuorumHasOther ==
    ASSUME NEW Q \in Quorum, NEW c \in Node, NEW d \in Node, c # d
    PROVE  \E k \in Q : k # c
<1> SUFFICES ASSUME Q \subseteq {c}
             PROVE  FALSE
  OBVIOUS
<1>1. IsFiniteSet(Node) /\ IsFiniteSet({c}) /\ Cardinality({c}) = 1
  BY NodeAssumption, FS_Singleton
<1>2. IsFiniteSet(Q) /\ Cardinality(Q) =< 1
  BY <1>1, FS_Subset
<1>3. Cardinality({c} \cup {d}) = 2
  <2>1. d \notin {c}
    OBVIOUS
  <2>2. Cardinality({c} \cup {d}) = Cardinality({c}) + 1
    BY <1>1, <2>1, FS_AddElement
  <2> QED
    BY <1>1, <2>2
<1>4. 2 =< Cardinality(Node)
  <2>1. {c} \cup {d} \in SUBSET Node
    OBVIOUS
  <2>2. Cardinality({c} \cup {d}) =< Cardinality(Node)
    BY <1>1, <2>1, FS_Subset
  <2> QED
    BY <1>3, <2>2
<1>5. Cardinality(Q) \in Nat /\ Cardinality(Node) \in Nat
  BY <1>1, <1>2, FS_CardinalityType
<1> QED
  BY <1>2, <1>4, <1>5 DEF Quorum

\* Two nodes that each had a quorum of one term are the same node
LEMMA SupportIsExclusive ==
    ASSUME ElectionInv, NEW c \in Node, NEW d \in Node, NEW t,
           Supporters(c, t) \in Quorum, Supporters(d, t) \in Quorum
    PROVE  c = d
<1> SUFFICES ASSUME c # d
             PROVE  FALSE
  OBVIOUS
<1>1. \A a, b \in msgs :
        IsBallot(a) /\ IsBallot(b) /\ a.from = b.from /\ a.term = b.term =>
            VoteOf(a) = VoteOf(b)
  BY DEF ElectionInv, OneBallot, AllMsgs
<1>2. \A x, y, k : Granted(k, t, x) /\ Granted(k, t, y) => x = y
  BY <1>1 DEF Granted, IsBallot, IsGrant, VoteOf
<1>3. \A x \in Node : \A y : Supporters(x, t) \in Quorum /\ y \in Node /\ x # y =>
                                Requested(x, t)
  <2> SUFFICES ASSUME NEW x \in Node, NEW y \in Node, Supporters(x, t) \in Quorum, x # y
               PROVE  Requested(x, t)
    OBVIOUS
  <2>1. PICK k \in Supporters(x, t) : k # x
    BY QuorumHasOther
  <2>2. PICK m \in msgs : IsGrant(m) /\ m.from = k /\ m.term = t /\ m.to = x
    BY <2>1 DEF Supporters, Granted
  <2> QED
    BY <2>2 DEF ElectionInv, GrantsAnswer, AllMsgs
<1>4. \A x, y : Requested(x, t) /\ Granted(x, t, y) => x = y
  BY <1>1 DEF Requested, Granted, IsBallot, IsGrant, VoteOf
<1>5. PICK j \in Node : j \in Supporters(c, t) /\ j \in Supporters(d, t)
  BY QuorumsMeet DEF Supporters
<1>6. /\ j = c \/ Granted(j, t, c)
      /\ j = d \/ Granted(j, t, d)
  BY <1>5 DEF Supporters
<1>7. Requested(c, t) /\ Requested(d, t)
  BY <1>3
<1> QED
  BY <1>2, <1>4, <1>6, <1>7

\* The invariant implies that a term has one leader
LEMMA InvImpliesSafety == ElectionInv => ElectionSafety
<1> SUFFICES ASSUME ElectionInv, NEW a \in Led, NEW b \in Led, a.term = b.term
             PROVE  a.by = b.by
  BY DEF ElectionSafety
<1>1. \A x \in Led : x.by \in Node /\ Supporters(x.by, x.term) \in Quorum
  <2>1. \A m \in AllMsgs : m.from \in Node
    BY MessageFields DEF ElectionInv, TypeOK, AllMsgs, NodeState
  <2> QED
    BY <2>1 DEF Led, ElectionInv, LeadersHadQuorum
<1> QED
  BY <1>1, SupportIsExclusive

\* The invariant implies that a vote that has been told is stored
LEMMA InvImpliesDurable == ElectionInv => VotesAreDurable
  BY DEF ElectionInv, BallotsHold, VotesAreDurable, IsBallot, IsGrant, VoteOf, Holds

\* ElectionInv, which the run RaftBatched checks, holds for every set of nodes, with
\* and without pre-vote, for any calls and any number of restarts (Step, campaign, send).
THEOREM ElectionInvariant == Spec => []ElectionInv
  BY ElectionInit, ElectionStep, PTL DEF Spec

\* At most one node ever leads a term, whatever the network loses, repeats or delays
\* and whichever nodes restart (becomeLeader, poll, the vote case of Step).
THEOREM OneLeaderPerTerm == Spec => []ElectionSafety
  BY ElectionInvariant, InvImpliesSafety, PTL

\* A vote that has left a node stays on its disk as long as it is in that term
\* (send, which holds a vote back until it is stored).
THEOREM VotesSurvive == Spec => []VotesAreDurable
  BY ElectionInvariant, InvImpliesDurable, PTL

-----------------------------------------------------------------------------
(***************************************************************************)
(* The oracle of the harness compares roles and terms that were true at    *)
(* different moments, and yet never reports two leaders of one term: a     *)
(* role is shown together with the hard state of the same Ready, so a node *)
(* last shown as a leader has on its disk the term that it was elected in. *)
(***************************************************************************)

\* Who was last seen to lead was elected in the term that its disk holds
ShownWereElected ==
    \A i \in Node : role[i] = "Leader" => Supporters(i, disk[i].term) \in Quorum

\* The inductive invariant
OracleInv == ElectionInv /\ ShownWereElected

\* Only its own Ready changes what is on the disk of a node
LEMMA DiskIsOwn ==
    ASSUME ElectionInv, [Next]_vars, NEW i \in Node, ~ Ready(i)
    PROVE  disk'[i] = disk[i]
<1>1. disk \in [Node -> DiskState]
  BY DEF ElectionInv, TypeOK
<1>2. CASE UNCHANGED vars
  BY <1>2 DEF vars
<1>3. CASE Next
  <2>1. PICK j \in Node :
          \/ Ready(j)
          \/ Advance(j)
          \/ Restart(j)
          \/ Local(j)
          \/ \E m \in msgs : m.to = j /\ Deliver(j, m)
    BY <1>3 DEF Next
  <2>2. CASE Ready(j)
    BY <1>1, <2>2 DEF Ready
  <2>3. CASE Advance(j)
    BY <2>3 DEF Advance, Become
  <2>4. CASE Restart(j)
    BY <2>4 DEF Restart
  <2>5. CASE Local(j)
    BY <2>5 DEF Local, Hup, Beat, CheckQuorumFails, AbortTransfer, Propose,
                TransferLeader, ForgetLeader, ReportUnreachable, Become
  <2>6. CASE \E m \in msgs : m.to = j /\ Deliver(j, m)
    BY <2>6 DEF Deliver, ReceiveLowerTerm, ReceiveVote, ReceiveResponse, ReceiveApp,
                ReceiveHeartbeat, ReceiveHeartbeatResp, ReceiveTimeoutNow,
                ReceiveTransferLeader, ReceiveProp, Become
  <2> QED
    BY <2>1, <2>2, <2>3, <2>4, <2>5, <2>6
<1> QED
  BY <1>2, <1>3

\* Messages are never forgotten, so support only grows
LEMMA SupportGrows ==
    ASSUME ElectionInv, [Next]_vars, NEW c, NEW t, Supporters(c, t) \in Quorum
    PROVE  Supporters(c, t)' \in Quorum
<1>1. msgs \subseteq msgs'
  <2>1. CASE UNCHANGED vars
    BY <2>1 DEF vars
  <2>2. CASE Next
    <3>1. PICK j \in Node :
            \/ Ready(j)
            \/ Advance(j)
            \/ Restart(j)
            \/ Local(j)
            \/ \E m \in msgs : m.to = j /\ Deliver(j, m)
      BY <2>2 DEF Next
    <3>2. CASE Ready(j)
      BY <3>2 DEF Ready
    <3>3. CASE Advance(j)
      BY <3>3 DEF Advance, Become
    <3>4. CASE Restart(j)
      BY <3>4 DEF Restart
    <3>5. CASE Local(j)
      BY <3>5 DEF Local, Hup, Beat, CheckQuorumFails, AbortTransfer, Propose,
                  TransferLeader, ForgetLeader, ReportUnreachable, Become
    <3>6. CASE \E m \in msgs : m.to = j /\ Deliver(j, m)
      BY <3>6 DEF Deliver, ReceiveLowerTerm, ReceiveVote, ReceiveResponse, ReceiveApp,
                  ReceiveHeartbeat, ReceiveHeartbeatResp, ReceiveTimeoutNow,
                  ReceiveTransferLeader, ReceiveProp, Become
    <3> QED
      BY <3>1, <3>2, <3>3, <3>4, <3>5, <3>6
  <2> QED
    BY <2>1, <2>2
<1>2. Supporters(c, t) \subseteq Supporters(c, t)' /\ Supporters(c, t)' \in SUBSET Node
  BY <1>1 DEF Supporters, Granted
<1> QED
  BY <1>2, QuorumGrows

\* Nobody is shown as a leader at the beginning.
LEMMA OracleStart == OracleInit => OracleInv
  BY ElectionInit DEF OracleInit, OracleInv, ShownWereElected

\* What a Ready shows is true when it is shown, and stays on the disk.
LEMMA OracleStep == OracleInv /\ [OracleNext]_oracleVars => OracleInv'
<1> SUFFICES ASSUME OracleInv, [OracleNext]_oracleVars PROVE OracleInv'
  OBVIOUS
<1>1. [Next]_vars /\ ElectionInv
  BY DEF OracleNext, oracleVars, OracleInv, vars
<1>2. ElectionInv'
  BY <1>1, ElectionStep
<1>3. node \in [Node -> NodeState] /\ disk \in [Node -> DiskState]
  BY <1>1 DEF ElectionInv, TypeOK
<1>4. ASSUME NEW i \in Node
      PROVE  /\ \/ Ready(i) /\ role'[i] = node[i].state
                \/ ~ Ready(i) /\ role'[i] = role[i]
                \/ disk' = disk /\ role'[i] = role[i]
  BY DEF OracleNext, oracleVars, vars, Shown, OracleInv
<1>5. ASSUME NEW i \in Node, role'[i] = "Leader", NEW t, t = disk'[i].term
      PROVE  Supporters(i, t)' \in Quorum
  <2>1. CASE Ready(i) /\ role'[i] = node[i].state
    <3>1. disk'[i].term = node[i].term
      BY <1>3, <2>1 DEF Ready, HardState
    <3>2. Supporters(i, t) \in Quorum
      BY <1>1, <1>5, <2>1, <3>1 DEF ElectionInv, LeadersHadQuorum
    <3> QED
      BY <1>1, <3>2, SupportGrows
  <2>2. CASE role'[i] = role[i] /\ disk'[i] = disk[i]
    <3>1. Supporters(i, t) \in Quorum
      BY <1>5, <2>2 DEF OracleInv, ShownWereElected
    <3> QED
      BY <1>1, <3>1, SupportGrows
  <2>3. CASE ~ Ready(i) /\ role'[i] = role[i]
    BY <1>1, <2>2, <2>3, DiskIsOwn
  <2> QED
    BY <1>4, <2>1, <2>2, <2>3
<1>6. ShownWereElected'
  BY <1>5 DEF ShownWereElected, Supporters, Granted
<1> QED
  BY <1>2, <1>6 DEF OracleInv

\* The invariant leaves no room for two leaders of a term
LEMMA InvImpliesUnique == OracleInv => CheckLeaderUniqueness
  BY SupportIsExclusive DEF OracleInv, ShownWereElected, CheckLeaderUniqueness

\* The oracle never sees two leaders of one term, for any number of nodes and restarts, any
\* loss, delay and repetition of messages, and however late a node handles its Ready
\* (checkLeaderUniqueness, Cluster.Step).
THEOREM OracleSeesOneLeader == OracleSpec => []CheckLeaderUniqueness
  BY OracleStart, OracleStep, InvImpliesUnique, PTL DEF OracleSpec

-----------------------------------------------------------------------------
(***************************************************************************)
(* Logs.  Every log that there ever was is kept in a set H, of which every *)
(* MsgApp shows a part.  A log changes in two ways: a leader appends an    *)
(* entry of its term, which no log of H has at that index because a term   *)
(* has one leader and the leader has all of its entries; or a follower     *)
(* takes the entries of a MsgApp, and its log becomes the beginning of a   *)
(* log of H.                                                               *)
(***************************************************************************)

\* The entries of a message are those of a log, at the same indices and after the same
\* term
IsSlice(m, log) ==
    m.entries # <<>> =>
        /\ m.index + Len(m.entries) =< Len(log)
        /\ m.logTerm = TermAt(log, m.index)
        /\ \A k \in 1..Len(m.entries) : m.entries[k] = log[m.index + k]

\* Agreement on a term means agreement up to there
Agree(a, b) ==
    \A k \in Nat \ {0} :
        k =< Len(a) /\ k =< Len(b) /\ a[k].term = b[k].term => \A x \in 1..k : a[x] = b[x]

\* One log is the beginning of another
IsPart(a, b) == Len(a) =< Len(b) /\ \A x \in 1..Len(a) : a[x] = b[x]

\* The votes a node has cast for itself and not yet stored are not of a later term
VotesCast(n) ==
    \A k \in 1..Len(n.self) : n.self[k].type = "MsgVoteResp" => n.self[k].term =< n.term

\* A change of a node from n to o that leaves its log alone and sends no more of it than
\* there is
Quiet(n, o) ==
    /\ o.log = n.log /\ o.self = n.self /\ o.steps = n.steps
    /\ \A m \in o.outbox \ n.outbox : m.type = "MsgApp" => IsSlice(m, n.log)

\* A change that adds no message either
Still(n, o) ==
    /\ o.log = n.log /\ o.self = n.self /\ o.steps = n.steps /\ o.outbox = n.outbox

\* What any change of node i may do to its log
LogStep(i, n, o) ==
    /\ \A k \in 1..Len(o.steps) : \E l \in 1..Len(n.steps) : o.steps[k] = n.steps[l]
    /\ VotesCast(n) => VotesCast(o)
    /\ \A m \in o.outbox \ n.outbox : m.type = "MsgApp" => IsSlice(m, o.log)
    /\ \/ o.log = n.log
       \/ o.state = "Leader" /\ \E e \in Entry : e.term = o.term /\ o.log = Append(n.log, e)
       \/ /\ o.state # "Leader"
          /\ \E m \in msgs : /\ m.type = "MsgApp" /\ MatchTerm(n.log, m.index, m.logTerm)
                             /\ o.log = AppendAfter(n.log, m.index, m.entries)

\* What any change of node i may do to its role: it counts votes and leads only when the
\* term is on its disk
Roles(i, n, o) ==
    /\ o.term >= n.term
    /\ o.state = "Candidate" =>
          \/ /\ n.state = "Candidate" /\ o.term = n.term
             /\ o.granted \subseteq n.granted \/ disk[i].term >= o.term
          \/ o.term > n.term /\ o.granted = {}
    /\ o.state = "Leader" =>
          /\ o.term = n.term
          /\ n.state = "Leader" \/ (n.state = "Candidate" /\ disk[i].term >= o.term)

-----------------------------------------------------------------------------
(***************************************************************************)
(* How the predicates compose.                                             *)
(***************************************************************************)

\* One quiet change after another is quiet
LEMMA QuietTrans ==
    ASSUME NEW n, NEW o, NEW p, Quiet(n, o), Quiet(o, p)
    PROVE  Quiet(n, p)
<1>1. \A m \in p.outbox \ n.outbox : m \in p.outbox \ o.outbox \/ m \in o.outbox \ n.outbox
  OBVIOUS
<1> QED
  BY <1>1 DEF Quiet

\* A still change is quiet
LEMMA StillIsQuiet ==
    ASSUME NEW n, NEW o, Still(n, o)
    PROVE  Quiet(n, o)
  BY DEF Still, Quiet

\* A quiet change is a step of the log
LEMMA QuietIsStep ==
    ASSUME NEW i \in Node, NEW n \in NodeState, NEW o \in NodeState, Quiet(n, o),
           o.term >= n.term
    PROVE  LogStep(i, n, o)
<1>1. VotesCast(n) => VotesCast(o)
  <2> SUFFICES ASSUME VotesCast(n), NEW k \in 1..Len(o.self),
                      o.self[k].type = "MsgVoteResp"
               PROVE  o.self[k].term =< o.term
    BY DEF VotesCast
  <2>1. o.self[k] \in VoteRespMsg \cup AppRespMsg
    BY DEF NodeState
  <2>2. o.self[k].term \in Nat /\ n.term \in Nat /\ o.term \in Nat
    BY <2>1 DEF NodeState, VoteRespMsg, AppRespMsg
  <2>3. o.self[k].term =< n.term
    BY DEF VotesCast, Quiet
  <2> QED
    BY <2>2, <2>3
<1> QED
  BY <1>1 DEF LogStep, Quiet

\* A step of the log after a still change is one
LEMMA StillThenStep ==
    ASSUME NEW i \in Node, NEW n \in NodeState, NEW o \in NodeState, NEW p \in NodeState,
           Still(n, o), o.term >= n.term, LogStep(i, o, p)
    PROVE  LogStep(i, n, p)
<1>1. VotesCast(n) => VotesCast(o)
  BY StillIsQuiet, QuietIsStep DEF LogStep
<1> QED
  BY <1>1 DEF LogStep, Still

\* A quiet change after a step of the log, in the same role and term, is one
LEMMA StepThenQuiet ==
    ASSUME NEW i \in Node, NEW n \in NodeState, NEW o \in NodeState, NEW p \in NodeState,
           LogStep(i, n, o), Quiet(o, p), p.term = o.term, p.state = o.state
    PROVE  LogStep(i, n, p)
<1>1. VotesCast(o) => VotesCast(p)
  BY DEF VotesCast, Quiet
<1>2. \A m \in p.outbox \ n.outbox : m \in p.outbox \ o.outbox \/ m \in o.outbox \ n.outbox
  OBVIOUS
<1>3. \A m \in p.outbox \ n.outbox : m.type = "MsgApp" => IsSlice(m, p.log)
  BY <1>2 DEF LogStep, Quiet
<1> QED
  BY <1>1, <1>3 DEF LogStep, Quiet

\* A calm change makes no leader and counts no vote
LEMMA CalmRoles ==
    ASSUME NEW i \in Node, NEW n \in NodeState, NEW o \in NodeState, Calm(i, n, o)
    PROVE  Roles(i, n, o)
  BY DEF Calm, Roles

\* A change of role after a calm change
LEMMA CalmThenRoles ==
    ASSUME NEW i \in Node, NEW n \in NodeState, NEW o \in NodeState, NEW p \in NodeState,
           Calm(i, n, o), Roles(i, o, p)
    PROVE  Roles(i, n, p)
<1>1. n.term \in Nat /\ o.term \in Nat /\ p.term \in Nat
  BY DEF NodeState
<1> QED
  BY <1>1 DEF Calm, Roles

-----------------------------------------------------------------------------
(***************************************************************************)
(* Quiet changes.                                                          *)
(***************************************************************************)

\* A MsgApp shows a part of the log of its sender
LEMMA AppIsSlice ==
    ASSUME NEW i \in Node, NEW n \in NodeState, NEW j \in Node, NEW next \in Nat \ {0}
    PROVE  IsSlice(App(i, n, j, next), n.log)
<1> DEFINE m == App(i, n, j, next)
           last == Min({next + MaxEnts - 1, LastIndex(n)})
<1>1. n.log \in Seq(Entry) /\ LastIndex(n) = Len(n.log) /\ Len(n.log) \in Nat
  BY DEF NodeState, LastIndex
<1>2. next + MaxEnts - 1 \in Nat
  BY OptionAssumption
<1>3. last \in Nat /\ last =< Len(n.log)
  BY <1>1, <1>2, MinPair
<1>4. /\ m.entries = SubSeq(n.log, next, last) /\ m.index = next - 1
      /\ m.logTerm = TermAt(n.log, next - 1)
  BY DEF App
<1> HIDE DEF m, last
<1>5. CASE next > last
  <2>1. m.entries = <<>>
    BY <1>1, <1>3, <1>4, <1>5, SubSeqProperties
  <2> QED
    BY <2>1 DEF IsSlice, m
<1>6. CASE next =< last
  <2>1. /\ Len(m.entries) = last - next + 1
        /\ \A k \in 1..last - next + 1 : m.entries[k] = n.log[next + k - 1]
    BY <1>1, <1>3, <1>4, <1>6, SubSeqProperties
  <2>2. m.index + Len(m.entries) =< Len(n.log)
    BY <1>1, <1>3, <1>4, <2>1
  <2>3. \A k \in 1..Len(m.entries) : m.entries[k] = n.log[m.index + k]
    <3> SUFFICES ASSUME NEW k \in 1..Len(m.entries)
                 PROVE  m.entries[k] = n.log[m.index + k]
      OBVIOUS
    <3>1. k \in 1..last - next + 1 /\ m.index + k = next + k - 1
      BY <1>1, <1>3, <1>4, <2>1
    <3> QED
      BY <2>1, <3>1
  <2>4. m.logTerm = TermAt(n.log, m.index)
    BY <1>4
  <2> QED
    BY <2>2, <2>3, <2>4 DEF IsSlice, m
<1> QED
  BY <1>3, <1>5, <1>6

\* Fields that have nothing to do with the log
LEMMA SetQuiet ==
    ASSUME NEW n, NEW o, o.log = n.log, o.self = n.self, o.steps = n.steps,
           o.outbox = n.outbox
    PROVE  Quiet(n, o) /\ Still(n, o)
  BY DEF Quiet, Still

\* Messages of another kind
LEMMA SendQuiet ==
    ASSUME NEW n \in NodeState, NEW ms \in SUBSET Message, \A m \in ms : m.type # "MsgApp"
    PROVE  Quiet(n, Send(n, ms))
<1> DEFINE o == Send(n, ms)
<1>1. o.log = n.log /\ o.self = n.self /\ o.steps = n.steps /\ o.outbox = n.outbox \cup ms
  BY DEF Send, NodeState
<1> HIDE DEF o
<1> QED
  BY <1>1 DEF Quiet, o

\* maybeSendAppend
LEMMA MaybeSendAppendQuiet ==
    ASSUME NEW i \in Node, NEW n \in NodeState,
           NEW peers \in SUBSET Node, NEW sendIfEmpty \in BOOLEAN
    PROVE  Quiet(n, MaybeSendAppend(i, n, peers, sendIfEmpty))
<1> DEFINE o == MaybeSendAppend(i, n, peers, sendIfEmpty)
<1>1. o.log = n.log /\ o.self = n.self /\ o.steps = n.steps
  BY DEF MaybeSendAppend, NodeState
<1>2. \A m \in o.outbox \ n.outbox : \E j \in Node : m = App(i, n, j, n.prog[j].next)
  BY DEF MaybeSendAppend, NodeState
<1> HIDE DEF o
<1>3. \A m \in o.outbox \ n.outbox : IsSlice(m, n.log)
  BY <1>2, ProgType, AppIsSlice
<1> QED
  BY <1>1, <1>3 DEF Quiet, o

\* The loop over what is left to send
LEMMA SendRestQuiet ==
    ASSUME NEW i \in Node, NEW n \in NodeState, NEW j \in Node
    PROVE  Quiet(n, SendRest(i, n, j))
<1> DEFINE o == SendRest(i, n, j)
<1>1. o.log = n.log /\ o.self = n.self /\ o.steps = n.steps
  BY DEF SendRest, NodeState
<1>2. \A m \in o.outbox \ n.outbox : \E k \in n.prog[j].next..LastIndex(n) : m = App(i, n, j, k)
  BY DEF SendRest, NodeState
<1>3. n.prog[j].next..LastIndex(n) \subseteq Nat \ {0}
  BY ProgType, LastIndexType
<1> HIDE DEF o
<1>4. \A m \in o.outbox \ n.outbox : IsSlice(m, n.log)
  BY <1>2, <1>3, AppIsSlice
<1> QED
  BY <1>1, <1>4 DEF Quiet, o

\* bcastAppend
LEMMA BcastAppendQuiet ==
    ASSUME NEW i \in Node, NEW n \in NodeState
    PROVE  Quiet(n, BcastAppend(i, n))
  BY MaybeSendAppendQuiet DEF BcastAppend

\* bcastHeartbeat
LEMMA BcastHeartbeatQuiet ==
    ASSUME NEW i \in Node, NEW n \in NodeState, NEW ctxs \in SUBSET Nat
    PROVE  Quiet(n, BcastHeartbeat(i, n, ctxs))
<1> DEFINE o == BcastHeartbeat(i, n, ctxs)
           beat(j, c) == [type |-> "MsgHeartbeat", from |-> i, to |-> j, term |-> n.term,
                          commit |-> Min({n.prog[j].match, n.commit}), ctx |-> c]
<1>1. o.log = n.log /\ o.self = n.self /\ o.steps = n.steps
  BY DEF BcastHeartbeat, NodeState
<1>2. o.outbox = n.outbox \cup {beat(j, c) : j \in Node \ {i}, c \in ctxs}
  BY DEF BcastHeartbeat, NodeState
<1>3. \A j \in Node : \A c \in ctxs : beat(j, c).type = "MsgHeartbeat"
  OBVIOUS
<1> HIDE DEF o, beat
<1>4. \A m \in o.outbox \ n.outbox : m.type = "MsgHeartbeat"
  BY <1>2, <1>3
<1> QED
  BY <1>1, <1>4 DEF Quiet, o

\* becomeFollower
LEMMA BecomeFollowerStill ==
    ASSUME NEW i \in Node, NEW n \in NodeState, NEW t, NEW lead
    PROVE  Still(n, BecomeFollower(i, n, t, lead))
  BY DEF Still, BecomeFollower, Reset, NodeState

\* The first switch of Step
LEMMA AtTermOfStill ==
    ASSUME NEW i \in Node, NEW n \in NodeState, NEW m
    PROVE  Still(n, AtTermOf(i, n, m))
<1>1. Still(n, n)
  BY DEF Still
<1> QED
  BY <1>1, BecomeFollowerStill DEF AtTermOf

\* A message of a lower term
LEMMA StepLowerTermQuiet ==
    ASSUME NEW i \in Node, NEW n \in NodeState, NEW m \in Message
    PROVE  Quiet(n, StepLowerTerm(i, n, m))
<1> DEFINE r == AppResp(i, n, m.from, 0)
           v == VoteResp("MsgPreVoteResp", i, m.from, n.term, TRUE)
<1>1. m.from \in Node /\ n.term \in Nat
  BY MessageFields DEF NodeState
<1>2. r \in Message /\ v \in Message
  BY <1>1, AppRespType, VoteRespType DEF Message
<1>3. r.type = "MsgAppResp" /\ v.type = "MsgPreVoteResp"
  BY DEF AppResp, VoteResp
<1>4. StepLowerTerm(i, n, m) \in {n, Send(n, {r}), Send(n, {v})}
  BY DEF StepLowerTerm
<1>5. Quiet(n, n)
  BY SetQuiet
<1> HIDE DEF r, v
<1> QED
  BY <1>2, <1>3, <1>4, <1>5, SendQuiet

\* Following the sender of a message
LEMMA FollowSenderStill ==
    ASSUME NEW i \in Node, NEW n \in NodeState, NEW m
    PROVE  Still(n, FollowSender(i, n, m)) /\ FollowSender(i, n, m).state = "Follower"
<1>1. Still(n, [n EXCEPT !.lead = m.from]) /\ [n EXCEPT !.lead = m.from].state = n.state
  BY DEF Still, NodeState
<1>2. BecomeFollower(i, n, m.term, m.from).state = "Follower"
  BY DEF BecomeFollower, Reset, NodeState
<1> QED
  BY <1>1, <1>2, BecomeFollowerStill DEF FollowSender

\* MsgHeartbeat
LEMMA StepHeartbeatQuiet ==
    ASSUME NEW i \in Node, NEW n \in NodeState, NEW m \in Message, m.type = "MsgHeartbeat"
    PROVE  Quiet(n, StepHeartbeat(i, n, m))
<1> DEFINE f == FollowSender(i, n, m)
           c == CommitTo(f, m.commit)
           r == HeartbeatResp(i, n, m)
<1>1. m.from \in Node /\ m.commit \in Nat /\ m.ctx \in Nat
  BY MessageFields DEF HeartbeatMsg
<1>2. f \in NodeState /\ Quiet(n, f)
  BY FollowSenderType, FollowSenderStill, StillIsQuiet
<1>3. c \in NodeState /\ Quiet(f, c)
  <2> HIDE DEF f
  <2>1. c \in NodeState
    BY <1>1, <1>2, CommitToType
  <2>2. c.log = f.log /\ c.self = f.self /\ c.steps = f.steps /\ c.outbox = f.outbox
    BY <1>2 DEF CommitTo, NodeState
  <2> QED
    BY <2>1, <2>2, SetQuiet
<1>4. r \in Message /\ r.type = "MsgHeartbeatResp"
  BY <1>1 DEF HeartbeatResp, Message, HeartbeatRespMsg, NodeState
<1>5. Quiet(c, Send(c, {r}))
  <2> HIDE DEF c, r
  <2> QED
    BY <1>3, <1>4, SendQuiet
<1>6. StepHeartbeat(i, n, m) \in {n, Send(c, {r})}
  BY DEF StepHeartbeat
<1>7. Quiet(n, n)
  BY SetQuiet
<1> HIDE DEF f, c, r
<1> QED
  BY <1>2, <1>3, <1>5, <1>6, <1>7, QuietTrans

\* A change of the progress of a peer
LEMMA SetProgQuiet ==
    ASSUME NEW n \in NodeState, NEW j \in Node, NEW pr
    PROVE  Quiet(n, [n EXCEPT !.prog[j] = pr])
  BY DEF Quiet, NodeState

\* MsgAppResp with Reject
LEMMA StepAppRejectQuiet ==
    ASSUME NEW i \in Node, NEW n \in NodeState, NEW m \in AppRespMsg
    PROVE  Quiet(n, StepAppReject(i, n, m))
<1> DEFINE j == m.from
           hint == IF m.logTerm > 0 THEN FindConflictByTerm(n.log, m.rejectHint, m.logTerm)
                   ELSE m.rejectHint
           decr == DecrTo(n.prog[j], m.index, hint)
           probe == IF decr.state = "Replicate" THEN BecomeProbe(decr) ELSE decr
           backed == [n EXCEPT !.prog[j] = probe]
           o == MaybeSendAppend(i, backed, {j}, TRUE)
<1>1. j \in Node /\ m.index \in Nat /\ m.rejectHint \in Nat /\ m.logTerm \in Nat
  BY DEF AppRespMsg
<1>2. hint \in Nat
  BY <1>1, FindConflictType DEF NodeState
<1>3. decr \in Progress
  <2> HIDE DEF hint
  <2> QED
    BY <1>1, <1>2, ProgType, DecrToType
<1>4. probe \in Progress
  <2> HIDE DEF decr
  <2> QED
    BY <1>3, BecomeProbeType
<1>5. backed \in NodeState /\ Quiet(n, backed)
  <2> HIDE DEF probe, j
  <2> QED
    BY <1>1, <1>4, SetProgType, SetProgQuiet
<1>6. Quiet(backed, o)
  <2> HIDE DEF backed
  <2> QED
    BY <1>1, <1>5, MaybeSendAppendQuiet
<1>7. Quiet(n, o) /\ Quiet(n, n)
  <2> HIDE DEF backed, o
  <2> QED
    BY <1>5, <1>6, QuietTrans, SetQuiet
<1>8. StepAppReject(i, n, m) \in {n, o}
  BY DEF StepAppReject
<1> HIDE DEF o
<1> QED
  BY <1>7, <1>8

\* maybeCommit and what is sent after it
LEMMA CommitAndSendQuiet ==
    ASSUME NEW i \in Node, NEW n \in NodeState, NEW j \in Node
    PROVE  Quiet(n, CommitAndSend(i, n, j))
<1> DEFINE c == [n EXCEPT !.commit = QuorumIndex(n)]
           bump == ~CanCommit(n) /\ j # i /\ CanBumpCommit(n.prog[j], n.commit)
           sent == CASE CanCommit(n) -> BcastAppend(i, c)
                     [] bump -> MaybeSendAppend(i, n, {j}, TRUE)
                     [] OTHER -> n
           Good(o) == o \in NodeState /\ Quiet(n, o)
<1>1. c \in NodeState
  BY QuorumIndexType DEF NodeState
<1>2. Quiet(n, c)
  BY DEF Quiet, NodeState
<1>3. Good(BcastAppend(i, c))
  <2> HIDE DEF c
  <2> QED
    BY <1>1, <1>2, BcastAppendType, BcastAppendQuiet, QuietTrans
<1>4. Good(MaybeSendAppend(i, n, {j}, TRUE))
  BY MaybeSendAppendType, MaybeSendAppendQuiet
<1>5. Good(n)
  BY SetQuiet
<1>6. Good(sent)
  <2> HIDE DEF c, bump, Good
  <2> QED
    BY <1>3, <1>4, <1>5
<1>7. CommitAndSend(i, n, j) = IF j = i THEN sent ELSE SendRest(i, sent, j)
  BY DEF CommitAndSend
<1> HIDE DEF sent
<1>8. Quiet(n, SendRest(i, sent, j))
  BY <1>6, SendRestQuiet, QuietTrans
<1> QED
  BY <1>6, <1>7, <1>8

\* A message that hands the leadership over
LEMMA SendTimeoutQuiet ==
    ASSUME NEW i \in Node, NEW n \in NodeState, NEW o \in NodeState, NEW j \in Node
    PROVE  Quiet(o, Send(o, {Simple("MsgTimeoutNow", i, n, j)}))
<1> DEFINE m == Simple("MsgTimeoutNow", i, n, j)
<1>1. m \in Message /\ m.type = "MsgTimeoutNow"
  BY DEF Simple, SimpleMsg, Message, NodeState
<1> HIDE DEF m
<1>2. Quiet(o, Send(o, {m}))
  BY <1>1, SendQuiet
<1> QED
  BY <1>2 DEF m

\* MsgAppResp without Reject
LEMMA StepAppAcceptQuiet ==
    ASSUME NEW i \in Node, NEW n \in NodeState, NEW m \in AppRespMsg
    PROVE  Quiet(n, StepAppAccept(i, n, m))
<1> DEFINE j == m.from
           upd == MaybeUpdate(n.prog[j], m.index)
           next == IF upd.state = "Probe" THEN BecomeReplicate(upd) ELSE upd
           counted == [n EXCEPT !.prog[j] = next]
           done == CommitAndSend(i, counted, j)
           over == Send(done, {Simple("MsgTimeoutNow", i, n, j)})
<1>1. j \in Node /\ m.index \in Nat
  BY DEF AppRespMsg
<1>2. upd \in Progress
  BY <1>1, ProgType, MaybeUpdateType
<1>3. next \in Progress
  <2> HIDE DEF upd
  <2> QED
    BY <1>2, BecomeReplicateType
<1>4. counted \in NodeState /\ Quiet(n, counted)
  <2> HIDE DEF next, j
  <2> QED
    BY <1>1, <1>3, SetProgType, SetProgQuiet
<1>5. done \in NodeState /\ Quiet(n, done)
  <2> HIDE DEF counted
  <2> QED
    BY <1>1, <1>4, CommitAndSendType, CommitAndSendQuiet, QuietTrans
<1>6. Quiet(n, over) /\ Quiet(n, n)
  <2> HIDE DEF done
  <2> QED
    BY <1>1, <1>5, SendTimeoutQuiet, QuietTrans, SetQuiet
<1>7. StepAppAccept(i, n, m) \in {n, done, over}
  BY DEF StepAppAccept
<1> HIDE DEF done, over
<1> QED
  BY <1>5, <1>6, <1>7

\* MsgAppResp
LEMMA StepAppRespQuiet ==
    ASSUME NEW i \in Node, NEW n \in NodeState, NEW m \in AppRespMsg
    PROVE  Quiet(n, StepAppResp(i, n, m))
  BY StepAppRejectQuiet, StepAppAcceptQuiet, SetQuiet DEF StepAppResp

\* MsgHeartbeatResp
LEMMA StepHeartbeatRespQuiet ==
    ASSUME NEW i \in Node, NEW n \in NodeState, NEW m \in Message
    PROVE  Quiet(n, StepHeartbeatResp(i, n, m))
<1> DEFINE pr == [n.prog[m.from] EXCEPT !.paused = FALSE]
           r == [n EXCEPT !.prog[m.from] = pr]
           o == MaybeSendAppend(i, r, {m.from}, TRUE)
<1>1. m.from \in Node
  BY MessageEnds
<1>2. pr \in Progress
  BY <1>1, ProgType, UnpausedType
<1>3. r \in NodeState /\ Quiet(n, r)
  <2> HIDE DEF pr
  <2> QED
    BY <1>1, <1>2, SetProgType, SetProgQuiet
<1>4. Quiet(n, o)
  <2> HIDE DEF r
  <2> QED
    BY <1>1, <1>3, MaybeSendAppendQuiet, QuietTrans
<1>5. StepHeartbeatResp(i, n, m) \in {r, o}
  BY DEF StepHeartbeatResp
<1> HIDE DEF r, o
<1> QED
  BY <1>3, <1>4, <1>5

\* MsgTransferLeader
LEMMA StepTransferLeaderQuiet ==
    ASSUME NEW i \in Node, NEW n \in NodeState, NEW to \in Node
    PROVE  Quiet(n, StepTransferLeader(i, n, to))
<1> DEFINE r == [n EXCEPT !.transferee = to]
           a == [n EXCEPT !.transferee = None]
           p == [type |-> "MsgTransferLeader", from |-> to, to |-> n.lead, term |-> n.term]
           now == Send(r, {Simple("MsgTimeoutNow", i, n, to)})
           catchUp == MaybeSendAppend(i, r, {to}, TRUE)
<1>1. r \in NodeState /\ Quiet(n, r) /\ Quiet(n, a) /\ Quiet(n, n)
  BY DEF Quiet, NodeState
<1>2. ASSUME n.lead # None
      PROVE  Quiet(n, Send(n, {p}))
  <2>1. n.lead \in Node /\ n.term \in Nat
    BY <1>2 DEF NodeState
  <2>2. p \in Message /\ p.type = "MsgTransferLeader"
    BY <2>1 DEF Message, SimpleMsg
  <2> HIDE DEF p
  <2> QED
    BY <2>2, SendQuiet
<1>3. Quiet(n, now) /\ Quiet(n, catchUp)
  <2> HIDE DEF r
  <2> QED
    BY <1>1, SendTimeoutQuiet, MaybeSendAppendQuiet, QuietTrans
<1>4. \/ StepTransferLeader(i, n, to) \in {n, a, now, catchUp}
      \/ StepTransferLeader(i, n, to) = Send(n, {p}) /\ n.lead # None
  <2>1. StepTransferLeader(i, n, to) =
          CASE n.state = "Leader" /\ n.transferee # to /\ to = i -> a
            [] n.state = "Leader" /\ n.transferee # to /\ to # i ->
                 IF n.prog[to].match = LastIndex(n) THEN now ELSE catchUp
            [] n.state = "Follower" /\ n.lead # None -> Send(n, {p})
            [] OTHER -> n
    BY DEF StepTransferLeader
  <2> HIDE DEF a, now, catchUp, p
  <2> QED
    BY <2>1
<1> HIDE DEF a, now, catchUp, p
<1> QED
  BY <1>1, <1>2, <1>3, <1>4

\* A request for a vote
LEMMA StepVoteQuiet ==
    ASSUME NEW i \in Node, NEW n \in NodeState, NEW m \in Message
    PROVE  Quiet(n, StepVote(i, n, m)) /\ Roles(i, n, StepVote(i, n, m))
<1> DEFINE pre == m.type = "MsgPreVote"
           type == IF pre THEN "MsgPreVoteResp" ELSE "MsgVoteResp"
           yes == VoteResp(type, i, m.from, m.term, FALSE)
           no == VoteResp(type, i, m.from, n.term, TRUE)
           s == Send(n, {yes})
           o == [s EXCEPT !.vote = IF pre THEN @ ELSE m.from]
           d == Send(n, {no})
<1>1. yes.type # "MsgApp" /\ no.type # "MsgApp"
  BY DEF VoteResp
<1>2. /\ o.log = n.log /\ o.self = n.self /\ o.steps = n.steps
      /\ o.outbox = n.outbox \cup {yes}
      /\ o.term = n.term /\ o.state = n.state /\ o.granted = n.granted
  <2> HIDE DEF yes, pre
  <2> QED
    BY DEF Send, NodeState
<1>3. /\ d.log = n.log /\ d.self = n.self /\ d.steps = n.steps
      /\ d.outbox = n.outbox \cup {no}
      /\ d.term = n.term /\ d.state = n.state /\ d.granted = n.granted
  <2> HIDE DEF no
  <2> QED
    BY DEF Send, NodeState
<1>4. StepVote(i, n, m) \in {o, d}
  BY DEF StepVote
<1>5. n.term >= n.term
  BY DEF NodeState
<1> HIDE DEF o, d, yes, no
<1>6. Quiet(n, o) /\ Quiet(n, d)
  BY <1>1, <1>2, <1>3 DEF Quiet
<1>7. Roles(i, n, o) /\ Roles(i, n, d)
  BY <1>2, <1>3, <1>5 DEF Roles
<1> QED
  BY <1>4, <1>6, <1>7

-----------------------------------------------------------------------------
(***************************************************************************)
(* Changes that are not quiet.                                             *)
(***************************************************************************)

\* appendEntry
LEMMA AppendEntryStep ==
    ASSUME NEW i \in Node, NEW n \in NodeState, NEW val \in Value \cup {Empty},
           n.state = "Leader"
    PROVE  LogStep(i, n, AppendEntry(i, n, val))
<1> DEFINE e == [term |-> n.term, val |-> val]
           a == [n EXCEPT !.log = Append(@, e)]
           m == AppResp(i, a, i, LastIndex(a))
           o == AppendEntry(i, n, val)
<1>1. e \in Entry /\ e.term = n.term
  BY DEF NodeState, Entry
<1>2. o = SendSelf(a, m)
  BY DEF AppendEntry
<1>3. /\ o.log = Append(n.log, e) /\ o.self = Append(n.self, m) /\ o.steps = n.steps
      /\ o.outbox = n.outbox /\ o.term = n.term /\ o.state = "Leader"
  <2> HIDE DEF e, m, o
  <2> QED
    BY <1>2 DEF SendSelf, NodeState
<1>4. m.type = "MsgAppResp"
  BY DEF AppResp
<1>5. n.self \in Seq(VoteRespMsg \cup AppRespMsg)
  BY DEF NodeState
<1> HIDE DEF e, m, o
<1>6. VotesCast(n) => VotesCast(o)
  <2> SUFFICES ASSUME VotesCast(n), NEW k \in 1..Len(o.self),
                      o.self[k].type = "MsgVoteResp"
               PROVE  o.self[k].term =< o.term
    BY DEF VotesCast
  <2>1. k \in 1..Len(n.self) /\ o.self[k] = n.self[k]
    BY <1>3, <1>4, <1>5
  <2> QED
    BY <1>3, <2>1 DEF VotesCast
<1> QED
  BY <1>1, <1>3, <1>6 DEF LogStep, o

\* A leader appends and sends what it appended
LEMMA AppendAndSendStep ==
    ASSUME NEW i \in Node, NEW n \in NodeState, NEW val \in Value \cup {Empty},
           n.state = "Leader"
    PROVE  LogStep(i, n, BcastAppend(i, AppendEntry(i, n, val)))
<1> DEFINE g == AppendEntry(i, n, val)
<1>1. g \in NodeState /\ g.state = "Leader" /\ LogStep(i, n, g)
  BY AppendEntryType, AppendEntryCalm, AppendEntryStep
<1> HIDE DEF g
<1>2. /\ BcastAppend(i, g) \in NodeState /\ Quiet(g, BcastAppend(i, g))
      /\ BcastAppend(i, g).term = g.term /\ BcastAppend(i, g).state = g.state
  BY <1>1, BcastAppendType, BcastAppendQuiet, BcastAppendCalm
<1>3. LogStep(i, n, BcastAppend(i, g))
  BY <1>1, <1>2, StepThenQuiet
<1> QED
  BY <1>3 DEF g

\* MsgProp
LEMMA StepPropStep ==
    ASSUME NEW i \in Node, NEW n \in NodeState, NEW val \in Value
    PROVE  LogStep(i, n, StepProp(i, n, val))
<1> DEFINE g == BcastAppend(i, AppendEntry(i, n, val))
           p == [type |-> "MsgProp", from |-> i, to |-> n.lead, term |-> 0, val |-> val]
<1>1. n.state = "Leader" => LogStep(i, n, g)
  BY AppendAndSendStep
<1>2. ASSUME n.lead # None
      PROVE  LogStep(i, n, Send(n, {p}))
  <2>1. n.lead \in Node
    BY <1>2 DEF NodeState
  <2>2. p \in Message /\ p.type = "MsgProp"
    BY <2>1 DEF Message, PropMsg
  <2> HIDE DEF p
  <2>3. Quiet(n, Send(n, {p})) /\ Send(n, {p}) \in NodeState
    BY <2>2, SendQuiet, SendType
  <2>4. Send(n, {p}).term >= n.term
    BY DEF Send, NodeState
  <2> QED
    BY <2>3, <2>4, QuietIsStep
<1>3. LogStep(i, n, n)
  <2>1. n.term >= n.term
    BY DEF NodeState
  <2> QED
    BY <2>1, SetQuiet, QuietIsStep
<1>4. \/ StepProp(i, n, val) = n
      \/ StepProp(i, n, val) = g /\ n.state = "Leader"
      \/ StepProp(i, n, val) = Send(n, {p}) /\ n.lead # None
  <2>1. StepProp(i, n, val) =
          CASE n.state = "Leader" /\ n.transferee = None -> g
            [] n.state = "Follower" /\ n.lead # None -> Send(n, {p})
            [] OTHER -> n
    BY DEF StepProp
  <2> HIDE DEF g, p
  <2> QED
    BY <2>1
<1> HIDE DEF g, p
<1> QED
  BY <1>1, <1>2, <1>3, <1>4

\* The entries of a MsgApp
LEMMA StepAppStep ==
    ASSUME NEW i \in Node, NEW n \in NodeState, NEW m \in Message, m \in msgs,
           m.type = "MsgApp", m.term = n.term
    PROVE  LogStep(i, n, StepApp(i, n, m))
<1> DEFINE f == FollowSender(i, n, m)
           o == HandleAppendEntries(i, f, m)
<1>1. m \in AppMsg /\ m.from \in Node
  BY MessageFields
<1>2. f \in NodeState /\ Still(n, f) /\ f.state = "Follower" /\ f.term >= n.term
  BY <1>1, FollowSenderType, FollowSenderStill, FollowSenderCalm DEF Calm
<1> HIDE DEF f
<1>3. o \in NodeState
  BY <1>1, <1>2, HandleAppendEntriesType
<1>4. /\ o.self = f.self /\ o.steps = f.steps /\ o.state = f.state /\ o.term = f.term
  BY <1>2 DEF HandleAppendEntries, Send, CommitTo, NodeState
<1>5. \A x \in o.outbox \ f.outbox : x.type = "MsgAppResp"
  BY <1>2 DEF HandleAppendEntries, Send, CommitTo, AppResp, AppReject, NodeState
<1>6. \/ o.log = f.log
      \/ /\ MatchTerm(f.log, m.index, m.logTerm)
         /\ o.log = AppendAfter(f.log, m.index, m.entries)
  BY <1>2 DEF HandleAppendEntries, Send, CommitTo, NodeState
<1> HIDE DEF o
<1>7. VotesCast(f) => VotesCast(o)
  BY <1>4 DEF VotesCast
<1>8. LogStep(i, f, o)
  BY <1>1, <1>2, <1>4, <1>5, <1>6, <1>7 DEF LogStep
<1>9. LogStep(i, n, o)
  BY <1>2, <1>3, <1>8, StillThenStep
<1>10. LogStep(i, n, n)
  <2>1. n.term >= n.term
    BY DEF NodeState
  <2> QED
    BY <2>1, SetQuiet, QuietIsStep
<1>11. StepApp(i, n, m) \in {n, o}
  BY DEF StepApp, o, f
<1> QED
  BY <1>9, <1>10, <1>11

\* A campaign, in the same term for a pre-vote and in the next one otherwise
LEMMA CampaignStep ==
    ASSUME NEW i \in Node, NEW n \in NodeState, NEW pre \in BOOLEAN
    PROVE  LogStep(i, n, Campaign(i, n, pre)) /\ Roles(i, n, Campaign(i, n, pre))
<1> DEFINE c == IF pre THEN BecomePreCandidate(n) ELSE BecomeCandidate(i, n)
           term == IF pre THEN c.term + 1 ELSE c.term
           request(j) == [type |-> IF pre THEN "MsgPreVote" ELSE "MsgVote", from |-> i,
                          to |-> j, term |-> term, index |-> LastIndex(c),
                          logTerm |-> LastTerm(c)]
           ms == {request(j) : j \in Node \ {i}}
           answer == VoteResp(IF pre THEN "MsgPreVoteResp" ELSE "MsgVoteResp", i, i, term,
                              FALSE)
           o == Campaign(i, n, pre)
<1>1. c \in NodeState /\ n.term \in Nat /\ n.term >= n.term
  <2>1. BecomePreCandidate(n) \in NodeState /\ BecomeCandidate(i, n) \in NodeState
    BY BecomePreCandidateType, BecomeCandidateType
  <2>2. n.term \in Nat /\ n.term >= n.term
    BY DEF NodeState
  <2> QED
    BY <2>1, <2>2
<1>2. /\ Still(n, c) /\ c.granted = {}
      /\ IF pre THEN c.state = "PreCandidate" /\ c.term = n.term
         ELSE c.state = "Candidate" /\ c.term = n.term + 1
  BY DEF BecomePreCandidate, BecomeCandidate, Reset, Still, NodeState
<1> HIDE DEF c
<1>3. o = SendSelf(Send(c, ms), answer)
  BY DEF Campaign, SendCampaign, c
<1>4. /\ o.log = c.log /\ o.steps = c.steps /\ o.term = c.term /\ o.state = c.state
      /\ o.granted = c.granted
      /\ o.outbox = c.outbox \cup ms /\ o.self = Append(c.self, answer)
  <2> HIDE DEF ms, answer, o
  <2> QED
    BY <1>1, <1>3 DEF SendSelf, Send, NodeState
<1>5. \A m \in ms : m.type # "MsgApp"
  OBVIOUS
<1>6. answer.type = "MsgVoteResp" => answer.term = o.term
  BY <1>4 DEF VoteResp
<1>7. c.self \in Seq(VoteRespMsg \cup AppRespMsg) /\ o.term >= n.term
  BY <1>1, <1>2, <1>4 DEF NodeState
<1> HIDE DEF ms, answer, o
<1>8. VotesCast(n) => VotesCast(o)
  <2> SUFFICES ASSUME VotesCast(n), NEW k \in 1..Len(o.self),
                      o.self[k].type = "MsgVoteResp"
               PROVE  o.self[k].term =< o.term
    BY DEF VotesCast
  <2>1. o.term \in Nat
    BY <1>1, <1>2, <1>4
  <2>2. CASE k = Len(c.self) + 1
    <3>1. o.self[k] = answer
      BY <1>4, <1>7, <2>2
    <3> QED
      BY <1>6, <2>1, <3>1
  <2>3. CASE k # Len(c.self) + 1
    <3>1. k \in 1..Len(c.self) /\ o.self[k] = c.self[k]
      BY <1>4, <1>7, <2>3
    <3>2. c.self[k].type = "MsgVoteResp" /\ c.self[k].term =< n.term
      BY <1>2, <3>1 DEF VotesCast, Still
    <3>3. c.self[k].term \in Nat
      BY <1>7, <3>1 DEF VoteRespMsg, AppRespMsg
    <3> QED
      BY <1>1, <1>7, <2>1, <3>1, <3>2, <3>3
  <2> QED
    BY <2>2, <2>3
<1>9. LogStep(i, n, o)
  BY <1>2, <1>4, <1>5, <1>8 DEF LogStep, Still
<1>10. Roles(i, n, o)
  BY <1>1, <1>2, <1>4, <1>7 DEF Roles
<1> QED
  BY <1>9, <1>10 DEF o

\* A candidate that has its quorum becomes the leader and announces it
LEMMA WinStep ==
    ASSUME NEW i \in Node, NEW p \in NodeState
    PROVE  LET o == BcastAppend(i, BecomeLeader(i, p))
           IN  LogStep(i, p, o) /\ o.term = p.term
<1> DEFINE r == Reset(i, p, p.term)
           pr == BecomeReplicate(r.prog[i])
           e == [r EXCEPT !.lead = i, !.state = "Leader"]
           f == [e EXCEPT !.prog[i] = pr]
           g == AppendEntry(i, f, Empty)
           o == BcastAppend(i, g)
<1>1. r \in NodeState /\ p.term \in Nat
  BY ResetType DEF NodeState
<1>2. Still(p, r) /\ r.term = p.term
  BY DEF Reset, Still, NodeState
<1>3. pr \in Progress
  <2> HIDE DEF r
  <2> QED
    BY <1>1, ProgType, BecomeReplicateType
<1>4. e \in NodeState /\ Still(r, e) /\ e.term = r.term /\ e.state = "Leader"
  <2> HIDE DEF r
  <2> QED
    BY <1>1 DEF NodeState, Still
<1>5. f \in NodeState
  <2> HIDE DEF e, pr
  <2> QED
    BY <1>3, <1>4, SetProgType
<1>6. Still(e, f) /\ f.term = e.term /\ f.state = e.state
  <2> HIDE DEF e, pr
  <2> QED
    BY <1>4 DEF NodeState, Still
<1>7. Still(p, f) /\ f.term = p.term /\ f.state = "Leader"
  <2> HIDE DEF e, f, r
  <2> QED
    BY <1>2, <1>4, <1>6 DEF Still
<1>8. g = BecomeLeader(i, p)
  BY DEF BecomeLeader
<1> HIDE DEF f
<1>9. LogStep(i, f, o)
  BY <1>5, <1>7, AppendAndSendStep
<1>10. g \in NodeState /\ g.term = p.term /\ g.state = "Leader"
  BY <1>5, <1>7, AppendEntryType, AppendEntryCalm
<1> HIDE DEF g
<1>11. o \in NodeState /\ o.term = p.term
  BY <1>10, BcastAppendType, BcastAppendCalm
<1> HIDE DEF o
<1>12. LogStep(i, p, o)
  BY <1>1, <1>5, <1>7, <1>9, <1>11, StillThenStep
<1> QED
  BY <1>8, <1>11, <1>12 DEF o

\* No votes are no quorum
LEMMA QuorumNotEmpty == {} \notin Quorum
<1>1. Cardinality({}) = 0
  BY FS_EmptySet
<1>2. Cardinality(Node) \in Nat
  BY NodeAssumption, FS_CardinalityType
<1> QED
  BY <1>1, <1>2 DEF Quorum

\* An answer to a campaign is counted, of which a candidate has the term on its disk
LEMMA StepVoteRespStep ==
    ASSUME NEW i \in Node, NEW n \in NodeState, NEW m \in Message, Polls(n, m),
           n.state = "Candidate" /\ n.granted # {} => disk[i].term >= n.term,
           n.state = "Candidate" /\ IsGrant(m) => disk[i].term >= n.term
    PROVE  LogStep(i, n, StepVoteResp(i, n, m)) /\ Roles(i, n, StepVoteResp(i, n, m))
<1> DEFINE polled == IF m.from \in n.granted \cup n.rejected THEN n
                     ELSE IF m.reject THEN [n EXCEPT !.rejected = @ \cup {m.from}]
                     ELSE [n EXCEPT !.granted = @ \cup {m.from}]
           won == polled.granted \in Quorum
           lost == Node \ polled.rejected \notin Quorum
           Good(o) == LogStep(i, n, o) /\ Roles(i, n, o)
<1>1. m.from \in Node /\ n.term \in Nat /\ n.term >= n.term
  BY MessageFields DEF NodeState
<1>2. polled \in NodeState
  BY <1>1 DEF NodeState
<1>3. /\ polled.term = n.term /\ polled.state = n.state /\ Still(n, polled)
      /\ \/ polled.granted = n.granted
         \/ ~m.reject /\ polled.granted = n.granted \cup {m.from}
  BY DEF NodeState, Still
<1>4. n.state = "PreCandidate" \/ (n.state = "Candidate" /\ m.type = "MsgVoteResp")
  BY DEF Polls
<1>5. StepVoteResp(i, n, m) =
        CASE won /\ n.state = "PreCandidate" -> Campaign(i, polled, FALSE)
          [] won /\ n.state = "Candidate"    -> BcastAppend(i, BecomeLeader(i, polled))
          [] ~won /\ lost                    -> BecomeFollower(i, polled, n.term, None)
          [] OTHER                           -> polled
  BY DEF StepVoteResp
<1> HIDE DEF polled
<1>6. n.state = "Candidate" /\ polled.granted # {} => disk[i].term >= n.term
  BY <1>3, <1>4 DEF IsGrant
<1>7. Good(polled)
  <2>1. LogStep(i, n, polled)
    BY <1>1, <1>2, <1>3, StillIsQuiet, QuietIsStep
  <2>2. Roles(i, n, polled)
    BY <1>1, <1>3, <1>4, <1>6 DEF Roles
  <2> QED
    BY <2>1, <2>2
<1>8. CASE won /\ n.state = "PreCandidate"
  <2> DEFINE o == Campaign(i, polled, FALSE)
  <2>1. o \in NodeState /\ LogStep(i, polled, o) /\ Roles(i, polled, o)
    BY <1>2, CampaignType, CampaignStep
  <2> HIDE DEF o
  <2>2. LogStep(i, n, o)
    BY <1>1, <1>2, <1>3, <2>1, StillThenStep
  <2>3. Roles(i, n, o)
    BY <1>3, <1>8, <2>1 DEF Roles
  <2> QED
    BY <1>5, <1>8, <2>2, <2>3 DEF o
<1>9. CASE won /\ n.state = "Candidate"
  <2> DEFINE o == BcastAppend(i, BecomeLeader(i, polled))
  <2>1. o \in NodeState /\ LogStep(i, polled, o) /\ o.term = n.term
    BY <1>2, <1>3, WinStep, BecomeLeaderType, BcastAppendType
  <2> HIDE DEF o
  <2>2. LogStep(i, n, o)
    BY <1>1, <1>2, <1>3, <2>1, StillThenStep
  <2>3. disk[i].term >= n.term
    BY <1>6, <1>9, QuorumNotEmpty
  <2>4. Roles(i, n, o)
    BY <1>1, <1>9, <2>1, <2>3 DEF Roles
  <2> QED
    BY <1>5, <1>9, <2>2, <2>4 DEF o
<1>10. CASE ~won /\ lost
  <2> DEFINE f == BecomeFollower(i, polled, n.term, None)
  <2>1. /\ f \in NodeState /\ Still(polled, f) /\ Calm(i, polled, f) /\ f.term = n.term
        /\ f.state = "Follower"
    BY <1>1, <1>2, <1>3, BecomeFollowerType, BecomeFollowerStill, BecomeFollowerCalm
  <2> HIDE DEF f
  <2>2. LogStep(i, n, f)
    <3>1. Still(n, f) /\ f.term >= n.term
      BY <1>1, <1>3, <2>1 DEF Still
    <3> QED
      BY <2>1, <3>1, StillIsQuiet, QuietIsStep
  <2>3. Roles(i, n, f)
    BY <1>1, <2>1 DEF Roles
  <2> QED
    BY <1>5, <1>10, <2>2, <2>3 DEF f
<1>11. CASE ~won /\ ~lost
  BY <1>5, <1>7, <1>11
<1> QED
  BY <1>4, <1>8, <1>9, <1>10, <1>11

\* A response, from a peer or from the node itself
LEMMA StepResponseStep ==
    ASSUME NEW i \in Node, NEW n \in NodeState,
           NEW m \in Message, m.type \in {"MsgVoteResp", "MsgPreVoteResp", "MsgAppResp"},
           m.term >= n.term, disk[i].term \in Nat,
           n.state = "Candidate" /\ n.granted # {} => disk[i].term >= n.term,
           IsGrant(m) => disk[i].term >= m.term
    PROVE  LogStep(i, n, StepResponse(i, n, m)) /\ Roles(i, n, StepResponse(i, n, m))
<1> DEFINE a == AtTermOf(i, n, m)
<1>1. a \in NodeState /\ Calm(i, n, a) /\ Still(n, a)
      /\ n.term \in Nat /\ m.term \in Nat /\ a.term \in Nat
  BY AtTermOfType, AtTermOfCalm, AtTermOfStill, MessageFields DEF NodeState
<1>2. m.type = "MsgVoteResp" => m.term = a.term
  BY AtTermOfCalm, <1>1
<1>3. StepResponse(i, n, m) =
          CASE m.type = "MsgAppResp"                    -> StepAppResp(i, a, m)
            [] m.type # "MsgAppResp" /\ Polls(a, m)     -> StepVoteResp(i, a, m)
            [] OTHER                                    -> a
  BY DEF StepResponse
<1> HIDE DEF a
<1>4. ASSUME NEW o \in NodeState, LogStep(i, a, o), Roles(i, a, o)
      PROVE  LogStep(i, n, o) /\ Roles(i, n, o)
  <2>1. a.term >= n.term
    BY <1>1 DEF Calm
  <2> QED
    BY <1>1, <1>4, <2>1, StillThenStep, CalmThenRoles
<1>5. ASSUME NEW o \in NodeState, Quiet(a, o), Calm(i, a, o)
      PROVE  LogStep(i, n, o) /\ Roles(i, n, o)
  <2>1. LogStep(i, a, o) /\ Roles(i, a, o)
    BY <1>1, <1>5, QuietIsStep, CalmRoles DEF Calm
  <2> QED
    BY <1>4, <2>1
<1>6. CASE m.type = "MsgAppResp"
  <2>1. m \in AppRespMsg
    BY <1>6, MessageFields
  <2>2. /\ Calm(i, a, StepAppResp(i, a, m)) /\ StepAppResp(i, a, m) \in NodeState
        /\ Quiet(a, StepAppResp(i, a, m))
    BY <1>1, <2>1, StepAppRespCalm, StepAppRespType, StepAppRespQuiet
  <2> QED
    BY <1>3, <1>5, <1>6, <2>2
<1>7. CASE m.type # "MsgAppResp" /\ Polls(a, m)
  <2>1. a.state = "Candidate" /\ a.granted # {} => disk[i].term >= a.term
    BY <1>1 DEF Calm
  <2>2. a.state = "Candidate" /\ IsGrant(m) => disk[i].term >= a.term
    BY <1>1, <1>2 DEF IsGrant
  <2>3. /\ LogStep(i, a, StepVoteResp(i, a, m)) /\ Roles(i, a, StepVoteResp(i, a, m))
        /\ StepVoteResp(i, a, m) \in NodeState
    BY <1>1, <1>7, <2>1, <2>2, StepVoteRespStep, StepVoteRespType
  <2> QED
    BY <1>3, <1>4, <1>7, <2>3
<1>8. CASE m.type # "MsgAppResp" /\ ~Polls(a, m)
  <2>1. a.term >= a.term
    BY <1>1
  <2>2. LogStep(i, n, a) /\ Roles(i, n, a)
    BY <1>1, StillIsQuiet, QuietIsStep, CalmRoles DEF Calm
  <2> QED
    BY <1>3, <1>8, <2>2
<1> QED
  BY <1>6, <1>7, <1>8

-----------------------------------------------------------------------------
(***************************************************************************)
(* Logs that agree.                                                        *)
(***************************************************************************)

\* The beginning of a log agrees with what the log agrees with
LEMMA PartAgrees ==
    ASSUME NEW a \in Seq(Entry), NEW b \in Seq(Entry), NEW h \in Seq(Entry),
           IsPart(a, b), Agree(b, h)
    PROVE  Agree(a, h)
<1>1. Len(a) \in Nat /\ Len(b) \in Nat /\ Len(a) =< Len(b)
  BY DEF IsPart
<1>2. SUFFICES ASSUME NEW k \in Nat \ {0}, k =< Len(a), k =< Len(h),
                      a[k].term = h[k].term, NEW x \in 1..k
               PROVE  a[x] = h[x]
  BY DEF Agree
<1>3. k =< Len(b) /\ k \in 1..Len(a) /\ x \in 1..Len(a)
  BY <1>1, <1>2
<1> QED
  BY <1>2, <1>3 DEF IsPart, Agree

\* An entry of a term that no other log has that far
LEMMA AppendAgrees ==
    ASSUME NEW a \in Seq(Entry), NEW h \in Seq(Entry), NEW e \in Entry, Agree(a, h),
           \A k \in 1..Len(h) : h[k].term = e.term => k =< Len(a)
    PROVE  Agree(Append(a, e), h)
<1> DEFINE b == Append(a, e)
<1>1. /\ Len(a) \in Nat /\ Len(b) = Len(a) + 1 /\ b[Len(a) + 1] = e
      /\ \A k \in 1..Len(a) : b[k] = a[k]
  OBVIOUS
<1> HIDE DEF b
<1>2. SUFFICES ASSUME NEW k \in Nat \ {0}, k =< Len(b), k =< Len(h),
                      b[k].term = h[k].term, NEW x \in 1..k
               PROVE  b[x] = h[x]
  BY DEF Agree, b
<1>3. k # Len(a) + 1
  <2> SUFFICES ASSUME k = Len(a) + 1
               PROVE  FALSE
    OBVIOUS
  <2>1. h[k].term = e.term /\ k \in 1..Len(h)
    BY <1>1, <1>2
  <2> QED
    BY <1>1, <2>1
<1>4. k \in 1..Len(a) /\ x \in 1..Len(a)
  BY <1>1, <1>2, <1>3
<1>5. a[k].term = h[k].term /\ k =< Len(a)
  BY <1>1, <1>2, <1>4
<1>6. a[x] = h[x]
  BY <1>2, <1>5 DEF Agree
<1> QED
  BY <1>1, <1>4, <1>6

\* The entries of a message are taken: nothing changes, or the log becomes the beginning
\* of the log that the message shows a part of
LEMMA MergeIsPart ==
    ASSUME NEW a \in Seq(Entry), NEW h \in Seq(Entry), NEW m \in AppMsg,
           IsSlice(m, h), Agree(a, h), MatchTerm(a, m.index, m.logTerm)
    PROVE  LET b == AppendAfter(a, m.index, m.entries)
           IN  b = a \/ IsPart(b, h)
<1> DEFINE from == m.index
           es == m.entries
           conflict == {k \in 1..Len(es) :
                          from + k > Len(a) \/ a[from + k].term # es[k].term}
           first == Min(conflict)
           b == AppendAfter(a, from, es)
<1>1. /\ from \in Nat /\ es \in Seq(Entry) /\ Len(es) \in Nat /\ Len(a) \in Nat
      /\ Len(h) \in Nat /\ from =< Len(a) /\ TermAt(a, from) = m.logTerm
  BY DEF AppMsg, MatchTerm
<1>2. CASE conflict = {}
  BY <1>2 DEF AppendAfter
<1>3. CASE conflict # {}
  <2>1. first \in 1..Len(es) /\ \A k \in conflict : first =< k
    <3>1. conflict \in SUBSET Nat
      OBVIOUS
    <3>2. conflict \subseteq 1..Len(es)
      OBVIOUS
    <3> HIDE DEF conflict
    <3> QED
      BY <1>3, <3>1, <3>2, MinIn
  <2>2. b = SubSeq(a, 1, from + first - 1) \o EntriesFrom(es, first)
    BY <1>3 DEF AppendAfter
  <2>3. \A k \in 1..first - 1 : from + k =< Len(a) /\ a[from + k].term = es[k].term
    <3> SUFFICES ASSUME NEW k \in 1..first - 1
                 PROVE  from + k =< Len(a) /\ a[from + k].term = es[k].term
      OBVIOUS
    <3>1. k \notin conflict /\ k \in 1..Len(es)
      <4> HIDE DEF conflict, first
      <4>1. first \in Nat
        BY <2>1
      <4>2. k \in 1..Len(es) /\ ~(first =< k)
        BY <1>1, <2>1, <4>1
      <4> QED
        BY <2>1, <4>2
    <3>2. ~(from + k > Len(a)) /\ a[from + k].term = es[k].term
      <4> HIDE DEF first
      <4> QED
        BY <3>1
    <3> HIDE DEF first, from
    <3>3. k \in Nat
      BY <3>1
    <3> QED
      BY <1>1, <3>2, <3>3
  <2> HIDE DEF first, conflict
  <2>4. first \in Nat \ {0} /\ first =< Len(es) /\ es # <<>>
    BY <1>1, <2>1
  <2>5. /\ from + Len(es) =< Len(h) /\ TermAt(h, from) = m.logTerm
        /\ \A k \in 1..Len(es) : es[k] = h[from + k]
    BY <2>4 DEF IsSlice
  <2> HIDE DEF b, es, from
  <2>6. from + first - 1 =< Len(a) /\ \A x \in 1..from + first - 1 : a[x] = h[x]
    <3>1. CASE first = 1
      <4>1. CASE from = 0
        BY <1>1, <3>1, <4>1
      <4>2. CASE from # 0
        <5>1. from \in Nat \ {0} /\ from =< Len(a) /\ from =< Len(h)
              /\ from \in 1..Len(a) /\ from \in 1..Len(h)
          BY <1>1, <2>4, <2>5, <4>2
        <5>2. a[from].term = h[from].term
          BY <1>1, <2>5, <5>1 DEF TermAt
        <5>3. \A x \in 1..from : a[x] = h[x]
          BY <5>1, <5>2 DEF Agree
        <5> QED
          BY <1>1, <3>1, <5>3
      <4> QED
        BY <4>1, <4>2
    <3>2. CASE first # 1
      <4> DEFINE k == first - 1
      <4>1. k \in 1..first - 1 /\ k \in 1..Len(es)
        BY <1>1, <2>4, <3>2
      <4>2. from + k =< Len(a) /\ a[from + k].term = es[k].term /\ es[k] = h[from + k]
        BY <2>3, <2>5, <4>1
      <4>3. /\ from + k \in Nat \ {0} /\ from + k =< Len(h) /\ from + k = from + first - 1
        BY <1>1, <2>4, <2>5, <4>1
      <4> HIDE DEF k
      <4>4. \A x \in 1..from + k : a[x] = h[x]
        BY <4>2, <4>3 DEF Agree
      <4> QED
        BY <4>2, <4>3, <4>4
    <3> QED
      BY <3>1, <3>2
  <2> DEFINE l == from + first - 1
             s == SubSeq(a, 1, l)
             t == EntriesFrom(es, first)
  <2>7. l \in Nat /\ l =< Len(a)
    BY <1>1, <2>4, <2>6
  <2>8. s \in Seq(Entry) /\ Len(s) = l /\ \A x \in 1..l : s[x] = a[x]
    <3>1. \A x \in 1..l : a[x] \in Entry
      BY <1>1, <2>7
    <3> HIDE DEF l
    <3>2. /\ SubSeq(a, 1, l) \in Seq(Entry)
          /\ Len(SubSeq(a, 1, l)) = (IF 1 <= l THEN l - 1 + 1 ELSE 0)
          /\ \A x \in 1..l - 1 + 1 : SubSeq(a, 1, l)[x] = a[1 + x - 1]
      BY <2>7, <3>1, SubSeqProperties
    <3>3. l - 1 + 1 = l /\ \A x \in 1..l : 1 + x - 1 = x
      BY <2>7
    <3>4. Len(SubSeq(a, 1, l)) = l
      BY <2>7, <3>2
    <3> QED
      BY <3>2, <3>3, <3>4
  <2>9. /\ t \in Seq(Entry) /\ Len(t) = Len(es) - first + 1
        /\ \A x \in 1..Len(es) - first + 1 : t[x] = es[first + x - 1]
    <3>1. \A x \in first..Len(es) : es[x] \in Entry
      BY <1>1, <2>4
    <3> QED
      BY <1>1, <2>4, <3>1, SubSeqProperties DEF EntriesFrom
  <2>10. b = s \o t
    BY <2>2
  <2>11. l + (Len(es) - first + 1) = from + Len(es)
    BY <1>1, <2>4
  <2> HIDE DEF s, t
  <2>12. /\ Len(b) = from + Len(es)
         /\ \A x \in 1..from + Len(es) : b[x] = IF x <= l THEN s[x] ELSE t[x - l]
    <3> HIDE DEF l
    <3>1. /\ Len(s \o t) = Len(s) + Len(t)
          /\ \A x \in 1..Len(s) + Len(t) :
                (s \o t)[x] = IF x <= Len(s) THEN s[x] ELSE t[x - Len(s)]
      BY <2>8, <2>9, ConcatProperties
    <3>2. Len(s) = l /\ Len(s) + Len(t) = from + Len(es)
      BY <2>8, <2>9, <2>11
    <3> QED
      BY <2>10, <3>1, <3>2
  <2>13. ASSUME NEW x \in 1..Len(b)
         PROVE  b[x] = h[x]
    <3>1. CASE x <= l
      <4>1. x \in 1..l
        BY <1>1, <2>7, <3>1, <2>12
      <4> QED
        BY <2>6, <2>8, <2>12, <4>1
    <3>2. CASE x > l
      <4>1. x - l \in 1..Len(es) - first + 1 /\ first + (x - l) - 1 = x - from
        BY <1>1, <2>4, <2>7, <2>12, <3>2
      <4>2. b[x] = t[x - l]
        BY <1>1, <2>7, <2>12, <3>2
      <4>3. t[x - l] = es[x - from]
        <5> HIDE DEF l
        <5> QED
          BY <2>9, <4>1
      <4>4. x - from \in 1..Len(es) /\ from + (x - from) = x
        BY <1>1, <2>4, <2>7, <2>12, <3>2
      <4> QED
        BY <2>5, <4>2, <4>3, <4>4
    <3> QED
      BY <1>1, <2>7, <2>12, <3>1, <3>2
  <2>14. IsPart(b, h)
    BY <2>5, <2>12, <2>13 DEF IsPart
  <2> QED
    BY <2>14 DEF b, es, from
<1> QED
  BY <1>2, <1>3

\* Agreement does not depend on the order
LEMMA AgreeSwaps ==
    ASSUME NEW a \in Seq(Entry), NEW b \in Seq(Entry), Agree(a, b)
    PROVE  Agree(b, a)
  BY DEF Agree

-----------------------------------------------------------------------------
(***************************************************************************)
(* Calls and deliveries.                                                   *)
(***************************************************************************)

\* What a candidate has counted and what a leader is are stored, and so is every vote
\* that a node has still to hear of itself
StoredInv ==
    \A i \in Node :
        /\ disk[i].term >= 1
        /\ node[i].state \in {"Candidate", "Leader"} => node[i].term > 1
        /\ node[i].state = "Candidate" /\ node[i].granted # {} =>
              disk[i].term >= node[i].term
        /\ node[i].state = "Leader" => disk[i].term >= node[i].term
        /\ VotesCast(node[i])
        /\ \A k \in 1..Len(node[i].steps) :
              node[i].steps[k].type = "MsgVoteResp" => node[i].steps[k].term =< disk[i].term

\* A message of the network
LEMMA DeliverLogs ==
    ASSUME ElectionInv, StoredInv, NEW i \in Node, NEW m \in msgs, m.to = i, Deliver(i, m)
    PROVE  \E o \in NodeState :
              Become(i, o) /\ LogStep(i, node[i], o) /\ Roles(i, node[i], o)
<1> DEFINE n == node[i]
           a == AtTermOf(i, n, m)
           Done == \E o \in NodeState : Become(i, o) /\ LogStep(i, n, o) /\ Roles(i, n, o)
<1>1. /\ m \in Message /\ m.from \in Node /\ m.term \in Nat
      /\ n \in NodeState /\ n.term \in Nat /\ disk[i].term \in Nat
  BY MessageFields DEF ElectionInv, TypeOK, NodeState, DiskState
<1>2. /\ a \in NodeState /\ Calm(i, n, a) /\ Still(n, a) /\ a.term >= n.term
      /\ a.term \in Nat /\ a.term >= a.term
      /\ m.term >= n.term /\ m.type \notin {"MsgPreVote", "MsgPreVoteResp"} => a.term = m.term
  <2>1. /\ a \in NodeState /\ Calm(i, n, a) /\ Still(n, a)
        /\ m.term >= n.term /\ m.type \notin {"MsgPreVote", "MsgPreVoteResp"} =>
              a.term = m.term
    BY <1>1, AtTermOfType, AtTermOfCalm, AtTermOfStill
  <2> HIDE DEF a
  <2>2. a.term >= n.term /\ a.term \in Nat /\ a.term >= a.term
    BY <2>1 DEF Calm, NodeState
  <2> QED
    BY <2>1, <2>2
<1>3. ASSUME NEW o \in NodeState, Become(i, o), LogStep(i, a, o), Roles(i, a, o)
      PROVE  Done
  BY <1>1, <1>2, <1>3, StillThenStep, CalmThenRoles
<1>4. ASSUME NEW o \in NodeState, Become(i, o), LogStep(i, a, o), Calm(i, a, o)
      PROVE  Done
  BY <1>2, <1>3, <1>4, CalmRoles
<1>5. ASSUME NEW o \in NodeState, Become(i, o), Quiet(a, o), Calm(i, a, o)
      PROVE  Done
  BY <1>2, <1>4, <1>5, QuietIsStep DEF Calm
<1>6. ASSUME NEW o \in NodeState, Become(i, o), LogStep(i, n, o), Calm(i, n, o)
      PROVE  Done
  BY <1>1, <1>6, CalmRoles
<1>7. Quiet(a, a) /\ Calm(i, a, a)
  BY <1>2, SetQuiet DEF Calm
<1> SUFFICES Done
  OBVIOUS
<1> HIDE DEF a, Done
<1>8. CASE ReceiveLowerTerm(i, m)
  <2> DEFINE o == StepLowerTerm(i, n, m)
  <2>1. o \in NodeState /\ Become(i, o) /\ Quiet(n, o) /\ Calm(i, n, o)
    BY <1>1, <1>8, StepLowerTermType, StepLowerTermCalm, StepLowerTermQuiet
       DEF ReceiveLowerTerm
  <2> HIDE DEF o
  <2>2. LogStep(i, n, o)
    BY <1>1, <2>1, QuietIsStep DEF Calm
  <2> QED
    BY <1>6, <2>1, <2>2
<1>9. CASE ReceiveVote(i, m)
  <2> DEFINE o == StepVote(i, a, m)
  <2>1. m.type \in {"MsgVote", "MsgPreVote"} /\ Become(i, o)
    BY <1>9 DEF ReceiveVote, Receive, a
  <2>2. o \in NodeState /\ Quiet(a, o) /\ Roles(i, a, o)
    BY <1>1, <1>2, <2>1, StepVoteType, StepVoteQuiet
  <2> HIDE DEF o
  <2>3. LogStep(i, a, o)
    BY <1>2, <2>2, QuietIsStep DEF Roles
  <2> QED
    BY <1>3, <2>1, <2>2, <2>3
<1>10. CASE ReceiveResponse(i, m)
  <2> DEFINE o == StepResponse(i, n, m)
  <2>1. /\ m.type \in {"MsgVoteResp", "MsgPreVoteResp", "MsgAppResp"} /\ m.term >= n.term
        /\ Become(i, o)
    BY <1>10 DEF ReceiveResponse, Receive
  <2>2. n.state = "Candidate" /\ n.granted # {} => disk[i].term >= n.term
    BY DEF StoredInv
  <2>3. IsGrant(m) => disk[i].term >= m.term
    <3> SUFFICES ASSUME IsGrant(m)
                 PROVE  disk[i].term >= m.term
      OBVIOUS
    <3>1. PICK r \in msgs : r.type = "MsgVote" /\ r.from = i /\ r.term = m.term
      BY DEF ElectionInv, GrantsAnswer, AllMsgs, Requested
    <3>2. Holds(disk[i], m.term, VoteOf(r))
      BY <3>1 DEF ElectionInv, BallotsHold, IsBallot
    <3> QED
      BY <1>1, <3>2 DEF Holds
  <2>4. o \in NodeState /\ LogStep(i, n, o) /\ Roles(i, n, o)
    BY <1>1, <2>1, <2>2, <2>3, StepResponseStep, StepResponseType
  <2> QED
    BY <2>1, <2>4 DEF Done
<1>11. CASE ReceiveApp(i, m)
  <2> DEFINE o == StepApp(i, a, m)
  <2>1. m.type = "MsgApp" /\ m.term >= n.term /\ Become(i, o)
    BY <1>11 DEF ReceiveApp, Receive, a
  <2>2. o \in NodeState /\ LogStep(i, a, o) /\ Calm(i, a, o)
    BY <1>1, <1>2, <2>1, StepAppCalm, StepAppType, StepAppStep
  <2> QED
    BY <1>4, <2>1, <2>2
<1>12. CASE ReceiveHeartbeat(i, m)
  <2> DEFINE o == StepHeartbeat(i, a, m)
  <2>1. m.type = "MsgHeartbeat" /\ m.term >= n.term /\ Become(i, o)
    BY <1>12 DEF ReceiveHeartbeat, Receive, a
  <2>2. o \in NodeState /\ Quiet(a, o) /\ Calm(i, a, o)
    BY <1>1, <1>2, <2>1, StepHeartbeatCalm, StepHeartbeatType, StepHeartbeatQuiet
  <2> QED
    BY <1>5, <2>1, <2>2
<1>13. CASE ReceiveHeartbeatResp(i, m)
  <2> DEFINE o == StepHeartbeatResp(i, a, m)
  <2>1. Become(i, IF a.state = "Leader" THEN o ELSE a)
    BY <1>13 DEF ReceiveHeartbeatResp, a
  <2>2. a.state = "Leader" => o \in NodeState /\ Quiet(a, o) /\ Calm(i, a, o)
    BY <1>1, <1>2, StepHeartbeatRespCalm, StepHeartbeatRespType, StepHeartbeatRespQuiet
  <2> HIDE DEF o
  <2> QED
    BY <1>2, <1>5, <1>7, <2>1, <2>2
<1>14. CASE ReceiveTimeoutNow(i, m)
  <2> DEFINE o == Campaign(i, a, FALSE)
  <2>1. Become(i, IF a.state = "Follower" THEN o ELSE a)
    BY <1>14 DEF ReceiveTimeoutNow, a
  <2>2. o \in NodeState /\ LogStep(i, a, o) /\ Roles(i, a, o)
    BY <1>2, CampaignStep, CampaignType
  <2> HIDE DEF o
  <2> QED
    BY <1>2, <1>3, <1>5, <1>7, <2>1, <2>2
<1>15. CASE ReceiveTransferLeader(i, m)
  <2> DEFINE o == StepTransferLeader(i, a, m.from)
  <2>1. Become(i, o)
    BY <1>15 DEF ReceiveTransferLeader, a
  <2>2. o \in NodeState /\ Quiet(a, o) /\ Calm(i, a, o)
    BY <1>1, <1>2, StepTransferLeaderCalm, StepTransferLeaderType, StepTransferLeaderQuiet
  <2> QED
    BY <1>5, <2>1, <2>2
<1>16. CASE ReceiveProp(i, m)
  <2> DEFINE o == StepProp(i, n, m.val)
  <2>1. m.val \in Value /\ Become(i, o)
    BY <1>1, <1>16, MessageFields DEF ReceiveProp, PropMsg
  <2>2. o \in NodeState /\ LogStep(i, n, o) /\ Calm(i, n, o)
    BY <1>1, <2>1, StepPropCalm, StepPropType, StepPropStep
  <2> QED
    BY <1>6, <2>1, <2>2
<1> QED
  BY <1>8, <1>9, <1>10, <1>11, <1>12, <1>13, <1>14, <1>15, <1>16 DEF Deliver

\* A call of a timer or of the application
LEMMA LocalLogs ==
    ASSUME ElectionInv, NEW i \in Node, Local(i)
    PROVE  \E o \in NodeState :
              Become(i, o) /\ LogStep(i, node[i], o) /\ Roles(i, node[i], o)
<1> DEFINE n == node[i]
           Done == \E o \in NodeState : Become(i, o) /\ LogStep(i, n, o) /\ Roles(i, n, o)
<1>1. n \in NodeState /\ n.term \in Nat /\ n.term >= n.term
  BY DEF ElectionInv, TypeOK, NodeState
<1>2. ASSUME NEW o \in NodeState, Become(i, o), LogStep(i, n, o), Calm(i, n, o)
      PROVE  Done
  BY <1>1, <1>2, CalmRoles
<1>3. ASSUME NEW o \in NodeState, Become(i, o), Quiet(n, o), Calm(i, n, o)
      PROVE  Done
  BY <1>1, <1>2, <1>3, QuietIsStep DEF Calm
<1> SUFFICES Done
  OBVIOUS
<1> HIDE DEF Done
<1>4. CASE Hup(i)
  <2>1. Become(i, Campaign(i, n, PreVote)) /\ PreVote \in BOOLEAN
    BY <1>4, OptionAssumption DEF Hup
  <2>2. /\ Campaign(i, n, PreVote) \in NodeState
        /\ LogStep(i, n, Campaign(i, n, PreVote)) /\ Roles(i, n, Campaign(i, n, PreVote))
    BY <1>1, <2>1, CampaignType, CampaignStep
  <2> QED
    BY <2>1, <2>2 DEF Done
<1>5. CASE Beat(i)
  <2>1. Become(i, BcastHeartbeat(i, n, {0}))
    BY <1>5 DEF Beat
  <2> QED
    BY <1>1, <1>3, <2>1, BcastHeartbeatType, BcastHeartbeatCalm, BcastHeartbeatQuiet
<1>6. CASE CheckQuorumFails(i)
  <2> DEFINE o == BecomeFollower(i, n, n.term, None)
  <2>1. Become(i, o)
    BY <1>6 DEF CheckQuorumFails
  <2>2. o \in NodeState /\ Calm(i, n, o) /\ Quiet(n, o)
    BY <1>1, BecomeFollowerType, BecomeFollowerCalm, BecomeFollowerStill, StillIsQuiet
  <2> QED
    BY <1>3, <2>1, <2>2
<1>7. CASE AbortTransfer(i)
  <2> DEFINE o == [n EXCEPT !.transferee = None]
  <2>1. Become(i, o)
    BY <1>7 DEF AbortTransfer
  <2>2. o \in NodeState /\ Calm(i, n, o)
    BY <1>1, SetFieldsCalm
  <2>3. Quiet(n, o)
    BY <1>1 DEF Quiet, NodeState
  <2> QED
    BY <1>3, <2>1, <2>2, <2>3
<1>8. ASSUME NEW val \in Value, Propose(i, val)
      PROVE  Done
  BY <1>1, <1>2, <1>8, StepPropType, StepPropCalm, StepPropStep DEF Propose
<1>9. ASSUME NEW to \in Node, TransferLeader(i, to)
      PROVE  Done
  BY <1>1, <1>3, <1>9, StepTransferLeaderType, StepTransferLeaderCalm,
     StepTransferLeaderQuiet DEF TransferLeader
<1>10. CASE ForgetLeader(i)
  <2> DEFINE o == [n EXCEPT !.lead = None]
  <2>1. Become(i, o)
    BY <1>10 DEF ForgetLeader
  <2>2. o \in NodeState /\ Calm(i, n, o)
    BY <1>1, SetFieldTypes, SetFieldsCalm
  <2>3. Quiet(n, o)
    BY <1>1 DEF Quiet, NodeState
  <2> QED
    BY <1>3, <2>1, <2>2, <2>3
<1>11. ASSUME NEW j \in Node \ {i}, ReportUnreachable(i, j)
       PROVE  Done
  <2> DEFINE pr == BecomeProbe(n.prog[j])
             o == [n EXCEPT !.prog[j] = pr]
  <2>1. Become(i, o)
    BY <1>11 DEF ReportUnreachable
  <2>2. pr \in Progress
    BY <1>1, ProgType, BecomeProbeType
  <2>3. o \in NodeState /\ Calm(i, n, o) /\ Quiet(n, o)
    <3> HIDE DEF pr
    <3> QED
      BY <1>1, <2>2, SetProgType, SetProgCalm, SetProgQuiet
  <2> HIDE DEF o
  <2> QED
    BY <1>3, <2>1, <2>3
<1> QED
  BY <1>4, <1>5, <1>6, <1>7, <1>8, <1>9, <1>10, <1>11 DEF Local

\* A node steps one of its own answers
LEMMA AdvanceLogs ==
    ASSUME ElectionInv, StoredInv, NEW i \in Node, Advance(i)
    PROVE  \E o \in NodeState :
              Become(i, o) /\ LogStep(i, node[i], o) /\ Roles(i, node[i], o)
<1> DEFINE m == Head(node[i].steps)
           n == [node[i] EXCEPT !.steps = Tail(@)]
           o == StepResponse(i, n, m)
<1>1. /\ node[i] \in NodeState /\ node[i].steps # <<>> /\ node[i].term \in Nat
      /\ node[i].steps \in Seq(VoteRespMsg \cup AppRespMsg) /\ disk[i].term \in Nat
      /\ node[i].term >= node[i].term
  BY DEF Advance, ElectionInv, TypeOK, NodeState, DiskState
<1>2. /\ m \in VoteRespMsg \cup AppRespMsg /\ m = node[i].steps[1]
      /\ Tail(node[i].steps) \in Seq(VoteRespMsg \cup AppRespMsg)
      /\ Len(node[i].steps) \in Nat \ {0}
      /\ \A k \in 1..Len(Tail(node[i].steps)) :
            /\ Tail(node[i].steps)[k] = node[i].steps[k + 1]
            /\ k + 1 \in 1..Len(node[i].steps)
  BY <1>1
<1>3. /\ m \in Message /\ m.type \in {"MsgVoteResp", "MsgPreVoteResp", "MsgAppResp"}
      /\ m.term \in Nat
  BY <1>2 DEF Message, VoteRespMsg, AppRespMsg
<1>4. n \in NodeState
  BY <1>1, <1>2 DEF NodeState
<1>5. /\ n.term = node[i].term /\ n.vote = node[i].vote /\ n.state = node[i].state
      /\ n.granted = node[i].granted /\ n.outbox = node[i].outbox /\ n.log = node[i].log
      /\ n.self = node[i].self /\ n.steps = Tail(node[i].steps)
  BY <1>1 DEF NodeState
<1>6. Become(i, n) \/ (Become(i, o) /\ ~(m.term < n.term))
  BY DEF Advance
<1>7. IsGrant(m) => disk[i].term >= m.term
  <2>1. 1 \in 1..Len(node[i].steps)
    BY <1>2
  <2>2. node[i].steps[1].type = "MsgVoteResp" => node[i].steps[1].term =< disk[i].term
    BY <2>1 DEF StoredInv
  <2> QED
    BY <1>1, <1>2, <1>3, <2>2 DEF IsGrant
<1> HIDE DEF m, n
<1>8. /\ VotesCast(node[i]) => VotesCast(n)
      /\ \A k \in 1..Len(n.steps) :
            \E l \in 1..Len(node[i].steps) : n.steps[k] = node[i].steps[l]
  BY <1>2, <1>5 DEF VotesCast
<1>9. ASSUME NEW p \in NodeState, LogStep(i, n, p), Roles(i, n, p)
      PROVE  LogStep(i, node[i], p) /\ Roles(i, node[i], p)
  <2>1. LogStep(i, node[i], p)
    <3>1. \A k \in 1..Len(p.steps) :
             \E l \in 1..Len(node[i].steps) : p.steps[k] = node[i].steps[l]
      <4> SUFFICES ASSUME NEW k \in 1..Len(p.steps)
                   PROVE  \E l \in 1..Len(node[i].steps) : p.steps[k] = node[i].steps[l]
        OBVIOUS
      <4>1. PICK l \in 1..Len(n.steps) : p.steps[k] = n.steps[l]
        BY <1>9 DEF LogStep
      <4> QED
        BY <1>8, <4>1
    <3> QED
      BY <1>5, <1>8, <1>9, <3>1 DEF LogStep
  <2>2. Roles(i, node[i], p)
    BY <1>5, <1>9 DEF Roles
  <2> QED
    BY <2>1, <2>2
<1>10. CASE Become(i, n)
  <2>1. LogStep(i, n, n) /\ Roles(i, n, n)
    BY <1>1, <1>4, <1>5, SetQuiet, QuietIsStep DEF Roles
  <2> QED
    BY <1>4, <1>9, <1>10, <2>1
<1>11. CASE Become(i, o) /\ ~(m.term < n.term)
  <2>1. m.term >= n.term
    BY <1>1, <1>3, <1>5, <1>11
  <2>2. n.state = "Candidate" /\ n.granted # {} => disk[i].term >= n.term
    BY <1>5 DEF StoredInv
  <2>3. LogStep(i, n, o) /\ Roles(i, n, o) /\ o \in NodeState
    BY <1>1, <1>3, <1>4, <1>7, <2>1, <2>2, StepResponseStep, StepResponseType
  <2> QED
    BY <1>9, <1>11, <2>3
<1> QED
  BY <1>6, <1>10, <1>11

-----------------------------------------------------------------------------
(***************************************************************************)
(* The invariant.                                                          *)
(***************************************************************************)

\* Node c has led term t, and nobody is elected in that term any more
Wrote(c, t) ==
    /\ Supporters(c, t) \in Quorum
    /\ disk[c].term >= t
    /\ node[c].term = t => node[c].state # "Candidate"

\* H is a history of the logs: all logs are in it, messages show parts of its logs, any two
\* of them agree, the entries of a term were written by who led it, and who leads a term has
\* all of its entries
Explains(H) ==
    /\ \A i \in Node : node[i].log \in H /\ disk[i].log \in H
    /\ \A m \in AllMsgs : m.type = "MsgApp" => \E h \in H : IsSlice(m, h)
    /\ \A a, b \in H : Agree(a, b)
    /\ \A h \in H : \A k \in 1..Len(h) : h[k].term > 1 => \E c \in Node : Wrote(c, h[k].term)
    /\ \A i \in Node : node[i].state = "Leader" =>
          \A h \in H : \A k \in 1..Len(h) :
             h[k].term = node[i].term => k =< Len(node[i].log)

LogInv == ElectionInv /\ StoredInv /\ \E H \in SUBSET Seq(Entry) : Explains(H)

\* What is needed of the types
LEMMA LogTypes ==
    ASSUME ElectionInv, NEW i \in Node
    PROVE  /\ node[i] \in NodeState /\ node[i].term \in Nat /\ node[i].log \in Seq(Entry)
           /\ disk[i].term \in Nat /\ disk[i].log \in Seq(Entry)
           /\ disk[i].term =< node[i].term
  BY DEF ElectionInv, TypeOK, NodeState, DiskState, DiskBehind

\* The terms of entries are numbers
LEMMA EntryTerm ==
    ASSUME NEW h \in Seq(Entry), NEW k \in 1..Len(h)
    PROVE  h[k].term \in Nat
<1>1. h[k] \in Entry
  BY ElementOfSeq
<1> QED
  BY <1>1 DEF Entry

\* What is stored stays stored
LEMMA StoredStep ==
    ASSUME ElectionInv, StoredInv, NEW i \in Node, NEW o \in NodeState, Become(i, o),
           LogStep(i, node[i], o), Roles(i, node[i], o)
    PROVE  StoredInv'
<1> DEFINE n == node[i]
<1>1. /\ disk' = disk /\ node'[i] = o /\ \A j \in Node \ {i} : node'[j] = node[j]
  BY DEF Become, ElectionInv, TypeOK
<1>2. /\ n.term \in Nat /\ o.term \in Nat /\ disk[i].term \in Nat /\ disk[i].term =< n.term
      /\ disk[i].term >= 1
  BY LogTypes DEF NodeState, StoredInv
<1>3. o.state \in {"Candidate", "Leader"} => o.term > 1
  <2>1. n.state \in {"Candidate", "Leader"} => n.term > 1
    BY DEF StoredInv
  <2>2. o.state \in {"Candidate", "Leader"} =>
           o.term > n.term \/ (o.term = n.term /\ n.state \in {"Candidate", "Leader"})
    BY DEF Roles
  <2> HIDE DEF n
  <2> QED
    BY <1>2, <2>1, <2>2
<1>4. o.state = "Candidate" /\ o.granted # {} => disk[i].term >= o.term
  BY DEF Roles, StoredInv
<1>5. o.state = "Leader" => disk[i].term >= o.term
  BY DEF Roles, StoredInv
<1>6. VotesCast(o)
  BY DEF LogStep, StoredInv
<1>7. \A k \in 1..Len(o.steps) :
         o.steps[k].type = "MsgVoteResp" => o.steps[k].term =< disk[i].term
  <2> SUFFICES ASSUME NEW k \in 1..Len(o.steps), o.steps[k].type = "MsgVoteResp"
               PROVE  o.steps[k].term =< disk[i].term
    OBVIOUS
  <2>1. PICK l \in 1..Len(n.steps) : o.steps[k] = n.steps[l]
    BY DEF LogStep
  <2>2. n.steps[l].type = "MsgVoteResp" => n.steps[l].term =< disk[i].term
    BY DEF StoredInv
  <2> HIDE DEF n
  <2> QED
    BY <2>1, <2>2
<1> HIDE DEF n
<1> QED
  BY <1>1, <1>2, <1>3, <1>4, <1>5, <1>6, <1>7 DEF StoredInv, VotesCast

\* Who has led a term has led it for good
LEMMA WroteKept ==
    ASSUME ElectionInv, StoredInv, NEW i \in Node, NEW o \in NodeState, Become(i, o),
           Roles(i, node[i], o), NEW c \in Node, NEW t \in Nat, Wrote(c, t)
    PROVE  Wrote(c, t)'
<1>1. /\ disk' = disk /\ msgs' = msgs
      /\ node'[i] = o /\ \A j \in Node \ {i} : node'[j] = node[j]
  BY DEF Become, ElectionInv, TypeOK
<1>2. Supporters(c, t)' = Supporters(c, t)
  BY <1>1 DEF Supporters, Granted
<1>3. c = i /\ o.term = t => o.state # "Candidate"
  <2>1. /\ node[i].term \in Nat /\ disk[i].term \in Nat /\ disk[i].term =< node[i].term
        /\ o.term \in Nat
    BY LogTypes DEF NodeState
  <2> QED
    BY <2>1 DEF Wrote, Roles
<1> QED
  BY <1>1, <1>2, <1>3 DEF Wrote

\* No entry is of the term of a candidate with a quorum
LEMMA FreshTerm ==
    ASSUME ElectionInv, NEW H \in SUBSET Seq(Entry), Explains(H), NEW i \in Node,
           node[i].state = "Candidate", node[i].term > 1,
           Supporters(i, node[i].term) \in Quorum,
           NEW h \in H, NEW k \in 1..Len(h)
    PROVE  h[k].term # node[i].term
<1> SUFFICES ASSUME h[k].term = node[i].term
             PROVE  FALSE
  OBVIOUS
<1>1. PICK c \in Node : Wrote(c, node[i].term)
  BY DEF Explains
<1>2. c = i
  BY <1>1, SupportIsExclusive DEF Wrote
<1> QED
  BY <1>1, <1>2 DEF Wrote

\* The log that a change leads to may join the history
LEMMA HistoryGrows ==
    ASSUME ElectionInv, StoredInv, NEW i \in Node, NEW o \in NodeState, Become(i, o),
           LogStep(i, node[i], o), Roles(i, node[i], o),
           NEW H \in SUBSET Seq(Entry), Explains(H),
           \A h \in H : Agree(o.log, h),
           \A k \in 1..Len(o.log) : o.log[k].term > 1 =>
              \E c \in Node : Wrote(c, o.log[k].term) \/ Wrote(c, o.log[k].term)',
           o.state = "Leader" =>
              \A h \in H : \A k \in 1..Len(h) : h[k].term = o.term => k =< Len(o.log),
           \A j \in Node \ {i} : node[j].state = "Leader" =>
              \A k \in 1..Len(o.log) :
                 o.log[k].term = node[j].term => k =< Len(node[j].log)
    PROVE  Explains(H \cup {o.log})'
<1> DEFINE n == node[i]
           G == H \cup {o.log}
<1>1. /\ disk' = disk /\ msgs' = msgs
      /\ node'[i] = o /\ \A j \in Node \ {i} : node'[j] = node[j]
  BY DEF Become, ElectionInv, TypeOK
<1>2. o.log \in Seq(Entry) /\ Len(o.log) \in Nat
  BY DEF NodeState
<1>3. \A j \in Node : node'[j].log \in G /\ disk'[j].log \in G
  BY <1>1 DEF Explains
<1>4. \A m \in AllMsgs' : m.type = "MsgApp" => \E h \in G : IsSlice(m, h)
  <2> SUFFICES ASSUME NEW m \in AllMsgs', m.type = "MsgApp"
               PROVE  \E h \in G : IsSlice(m, h)
    OBVIOUS
  <2>1. m \in AllMsgs \/ m \in o.outbox \ n.outbox
    BY <1>1 DEF AllMsgs
  <2>2. m \in AllMsgs => \E h \in H : IsSlice(m, h)
    BY DEF Explains
  <2>3. m \in o.outbox \ n.outbox => IsSlice(m, o.log)
    BY DEF LogStep
  <2> HIDE DEF n
  <2> QED
    BY <2>1, <2>2, <2>3
<1>5. \A a, b \in G : Agree(a, b)
  <2>1. \A h \in H : Agree(h, o.log)
    BY <1>2, AgreeSwaps
  <2>2. Agree(o.log, o.log)
    BY DEF Agree
  <2>3. \A a, b \in H : Agree(a, b)
    BY DEF Explains
  <2> QED
    BY <2>1, <2>2, <2>3
<1>6. \A h \in G : \A k \in 1..Len(h) :
         h[k].term > 1 => \E c \in Node : Wrote(c, h[k].term)'
  <2> SUFFICES ASSUME NEW h \in G, NEW k \in 1..Len(h), h[k].term > 1
               PROVE  \E c \in Node : Wrote(c, h[k].term)'
    OBVIOUS
  <2>1. \E c \in Node : Wrote(c, h[k].term) \/ Wrote(c, h[k].term)'
    BY DEF Explains
  <2>2. h[k].term \in Nat
    BY <1>2, EntryTerm
  <2> QED
    BY <2>1, <2>2, WroteKept
<1>7. \A j \in Node : node'[j].state = "Leader" =>
         \A h \in G : \A k \in 1..Len(h) :
            h[k].term = node'[j].term => k =< Len(node'[j].log)
  <2>1. CASE o.state = "Leader"
    <3>1. \A h \in G : \A k \in 1..Len(h) : h[k].term = o.term => k =< Len(o.log)
      BY <1>2, <2>1
    <3>2. \A j \in Node \ {i} : node[j].state = "Leader" =>
             \A h \in G : \A k \in 1..Len(h) :
                h[k].term = node[j].term => k =< Len(node[j].log)
      BY DEF Explains
    <3> QED
      BY <1>1, <3>1, <3>2
  <2>2. CASE o.state # "Leader"
    <3>1. \A j \in Node \ {i} : node[j].state = "Leader" =>
             \A h \in G : \A k \in 1..Len(h) :
                h[k].term = node[j].term => k =< Len(node[j].log)
      BY DEF Explains
    <3> QED
      BY <1>1, <2>2, <3>1
  <2> QED
    BY <2>1, <2>2
<1> HIDE DEF G
<1>8. Explains(G)'
  BY <1>3, <1>4, <1>5, <1>6, <1>7 DEF Explains
<1> QED
  BY <1>8 DEF G

\* Who leads a term has all of its entries
LEMMA LeaderHasTerm ==
    ASSUME ElectionInv, ElectionInv', StoredInv, NEW i \in Node, NEW o \in NodeState,
           Become(i, o), Roles(i, node[i], o), o.state = "Leader",
           NEW H \in SUBSET Seq(Entry), Explains(H), NEW h \in H, NEW k \in 1..Len(h),
           h[k].term = o.term
    PROVE  k =< Len(node[i].log)
<1>1. msgs' = msgs /\ node'[i] = o
  BY DEF Become, ElectionInv, TypeOK
<1>2. o.term = node[i].term
  BY DEF Roles
<1>3. CASE node[i].state = "Leader"
  BY <1>2, <1>3 DEF Explains
<1>4. CASE node[i].state # "Leader"
  <2>1. node[i].state = "Candidate" /\ node[i].term > 1
    BY <1>4 DEF Roles, StoredInv
  <2>2. Supporters(i, o.term)' \in Quorum
    BY <1>1 DEF ElectionInv, LeadersHadQuorum
  <2>3. Supporters(i, o.term)' = Supporters(i, o.term)
    BY <1>1 DEF Supporters, Granted
  <2> QED
    BY <1>2, <2>1, <2>2, <2>3, FreshTerm
<1> QED
  BY <1>3, <1>4

\* A change of a node adds its log to the history
LEMMA ExplainsStep ==
    ASSUME ElectionInv, StoredInv, ElectionInv', NEW i \in Node, NEW o \in NodeState,
           Become(i, o), LogStep(i, node[i], o), Roles(i, node[i], o),
           NEW H \in SUBSET Seq(Entry), Explains(H)
    PROVE  Explains(H \cup {o.log})'
<1> DEFINE n == node[i]
<1>1. Explains(H)
  OBVIOUS
<1>2. /\ ElectionInv /\ StoredInv
      /\ n.log \in Seq(Entry) /\ Len(n.log) \in Nat /\ o.log \in Seq(Entry)
      /\ n.log \in H
  BY <1>1, LogTypes DEF Explains, NodeState
<1>3. \A h \in H : /\ Agree(n.log, h)
                   /\ \A k \in 1..Len(h) : /\ h[k].term \in Nat
                                           /\ h[k].term > 1 => \E c \in Node : Wrote(c, h[k].term)
  BY <1>1, <1>2, EntryTerm DEF Explains
<1>4. o.state = "Leader" => \A h \in H : \A k \in 1..Len(h) :
         h[k].term = o.term => k =< Len(n.log)
  BY <1>1, <1>2, LeaderHasTerm
<1>5. \A j \in Node : node[j].state = "Leader" => \A h \in H : \A k \in 1..Len(h) :
         h[k].term = node[j].term => k =< Len(node[j].log)
  BY <1>1 DEF Explains
<1>6. ASSUME o.log = n.log
      PROVE  Explains(H \cup {o.log})'
  <2>1. \A k \in 1..Len(o.log) : o.log[k].term > 1 =>
           \E c \in Node : Wrote(c, o.log[k].term) \/ Wrote(c, o.log[k].term)'
    BY <1>2, <1>3, <1>6
  <2>2. \A h \in H : Agree(o.log, h)
    BY <1>3, <1>6
  <2>3. o.state = "Leader" => \A h \in H : \A k \in 1..Len(h) :
           h[k].term = o.term => k =< Len(o.log)
    BY <1>4, <1>6
  <2>4. \A j \in Node \ {i} : node[j].state = "Leader" => \A k \in 1..Len(o.log) :
           o.log[k].term = node[j].term => k =< Len(node[j].log)
    BY <1>2, <1>5, <1>6
  <2> QED
    BY <1>1, <1>2, <2>1, <2>2, <2>3, <2>4, HistoryGrows
<1>7. ASSUME NEW e \in Entry, o.state = "Leader", e.term = o.term, o.log = Append(n.log, e)
      PROVE  Explains(H \cup {o.log})'
  <2>1. /\ Len(o.log) = Len(n.log) + 1 /\ o.log[Len(n.log) + 1] = e
        /\ \A k \in 1..Len(n.log) : o.log[k] = n.log[k]
    <3> HIDE DEF n
    <3> QED
      BY <1>2, <1>7
  <2>2. \A h \in H : Agree(o.log, h)
    <3> SUFFICES ASSUME NEW h \in H
                 PROVE  Agree(o.log, h)
      OBVIOUS
    <3>1. \A k \in 1..Len(h) : h[k].term = e.term => k =< Len(n.log)
      BY <1>4, <1>7
    <3> HIDE DEF n
    <3> QED
      BY <1>2, <1>3, <1>7, <3>1, AppendAgrees
  <2>3. /\ disk' = disk /\ msgs' = msgs
        /\ node'[i] = o /\ \A j \in Node \ {i} : node'[j] = node[j]
    BY <1>2 DEF Become, ElectionInv, TypeOK
  <2>4. Supporters(i, o.term)' \in Quorum
    BY <1>7, <2>3 DEF ElectionInv, LeadersHadQuorum
  <2>5. Wrote(i, o.term)'
    <3>1. disk[i].term >= o.term
      BY <1>2, <1>7 DEF Roles, StoredInv
    <3> QED
      BY <1>7, <2>3, <2>4, <3>1 DEF Wrote
  <2>6. \A k \in 1..Len(o.log) : k \in 1..Len(n.log) \/ k = Len(n.log) + 1
    BY <1>2, <2>1
  <2>7. \A k \in 1..Len(o.log) : o.log[k].term > 1 =>
           \E c \in Node : Wrote(c, o.log[k].term) \/ Wrote(c, o.log[k].term)'
    <3> SUFFICES ASSUME NEW k \in 1..Len(o.log), o.log[k].term > 1
                 PROVE  \E c \in Node : Wrote(c, o.log[k].term) \/ Wrote(c, o.log[k].term)'
      OBVIOUS
    <3>1. CASE k \in 1..Len(n.log)
      <4>1. o.log[k] = n.log[k] /\ n.log[k].term > 1
        BY <2>1, <3>1
      <4>2. \E c \in Node : Wrote(c, n.log[k].term)
        BY <1>2, <1>3, <3>1, <4>1
      <4> QED
        BY <4>1, <4>2
    <3>2. CASE k = Len(n.log) + 1
      <4>1. o.log[k].term = o.term
        BY <1>7, <2>1, <3>2
      <4> QED
        BY <2>5, <4>1
    <3> QED
      BY <2>6, <3>1, <3>2
  <2>8. \A h \in H : \A k \in 1..Len(h) : h[k].term = o.term => k =< Len(o.log)
    <3> SUFFICES ASSUME NEW h \in H, NEW k \in 1..Len(h), h[k].term = o.term
                 PROVE  k =< Len(o.log)
      OBVIOUS
    <3>1. k =< Len(n.log)
      BY <1>4, <1>7
    <3> QED
      BY <1>2, <2>1, <3>1
  <2>9. \A j \in Node \ {i} : node[j].state = "Leader" => \A k \in 1..Len(o.log) :
           o.log[k].term = node[j].term => k =< Len(node[j].log)
    <3> SUFFICES ASSUME NEW j \in Node \ {i}, node[j].state = "Leader",
                        NEW k \in 1..Len(o.log), o.log[k].term = node[j].term
                 PROVE  k =< Len(node[j].log)
      OBVIOUS
    <3>1. node[j].term # o.term
      <4>1. Supporters(j, node[j].term) \in Quorum
        BY <1>2 DEF ElectionInv, LeadersHadQuorum
      <4>2. Supporters(i, o.term) \in Quorum
        <5>1. Supporters(i, o.term)' = Supporters(i, o.term)
          BY <2>3 DEF Supporters, Granted
        <5> QED
          BY <2>4, <5>1
      <4> QED
        BY <1>2, <4>1, <4>2, SupportIsExclusive
    <3>2. k \in 1..Len(n.log)
      BY <1>7, <2>1, <2>6, <3>1
    <3> QED
      BY <1>2, <1>5, <2>1, <3>2
  <2> QED
    BY <1>1, <1>2, <2>2, <2>7, <2>8, <2>9, HistoryGrows
<1>8. ASSUME NEW h \in H, o.state # "Leader", IsPart(o.log, h)
      PROVE  Explains(H \cup {o.log})'
  <2>1. /\ h \in Seq(Entry) /\ Len(o.log) \in Nat /\ Len(h) \in Nat
        /\ \A k \in 1..Len(o.log) : k \in 1..Len(h) /\ o.log[k] = h[k]
    BY <1>2, <1>8 DEF IsPart
  <2>2. \A g \in H : Agree(o.log, g)
    BY <1>1, <1>2, <1>8, <2>1, PartAgrees DEF Explains
  <2>3. \A k \in 1..Len(o.log) : o.log[k].term > 1 =>
           \E c \in Node : Wrote(c, o.log[k].term) \/ Wrote(c, o.log[k].term)'
    <3> SUFFICES ASSUME NEW k \in 1..Len(o.log), o.log[k].term > 1
                 PROVE  \E c \in Node : Wrote(c, o.log[k].term) \/ Wrote(c, o.log[k].term)'
      OBVIOUS
    <3>1. k \in 1..Len(h) /\ o.log[k] = h[k]
      BY <2>1
    <3>2. \E c \in Node : Wrote(c, h[k].term)
      BY <1>3, <3>1
    <3> QED
      BY <3>1, <3>2
  <2>4. \A j \in Node \ {i} : node[j].state = "Leader" => \A k \in 1..Len(o.log) :
           o.log[k].term = node[j].term => k =< Len(node[j].log)
    BY <1>5, <2>1
  <2> QED
    BY <1>1, <1>2, <1>8, <2>2, <2>3, <2>4, HistoryGrows
<1>9. ASSUME NEW m \in msgs, m.type = "MsgApp", o.state # "Leader",
             MatchTerm(n.log, m.index, m.logTerm),
             o.log = AppendAfter(n.log, m.index, m.entries)
      PROVE  Explains(H \cup {o.log})'
  <2>1. PICK h \in H : IsSlice(m, h)
    BY <1>1, <1>9 DEF Explains, AllMsgs
  <2>2. m \in AppMsg
    BY <1>2, <1>9, MessageFields DEF ElectionInv, TypeOK
  <2>3. o.log = n.log \/ IsPart(o.log, h)
    BY <1>2, <1>3, <1>9, <2>1, <2>2, MergeIsPart
  <2>4. CASE o.log = n.log
    BY <1>6, <2>4
  <2>5. CASE IsPart(o.log, h)
    BY <1>8, <1>9, <2>1, <2>5
  <2> QED
    BY <2>3, <2>4, <2>5
<1> QED
  <2>1. \/ o.log = n.log
        \/ o.state = "Leader" /\ \E e \in Entry : e.term = o.term /\ o.log = Append(n.log, e)
        \/ /\ o.state # "Leader"
           /\ \E m \in msgs : /\ m.type = "MsgApp" /\ MatchTerm(n.log, m.index, m.logTerm)
                              /\ o.log = AppendAfter(n.log, m.index, m.entries)
    BY DEF LogStep
  <2> HIDE DEF n
  <2>2. CASE o.log = n.log
    BY <1>6, <2>2
  <2>3. CASE o.state = "Leader" /\ \E e \in Entry : e.term = o.term /\ o.log = Append(n.log, e)
    BY <1>7, <2>3
  <2>4. CASE /\ o.state # "Leader"
             /\ \E m \in msgs : /\ m.type = "MsgApp" /\ MatchTerm(n.log, m.index, m.logTerm)
                                /\ o.log = AppendAfter(n.log, m.index, m.entries)
    BY <1>9, <2>4
  <2> QED
    BY <2>1, <2>2, <2>3, <2>4

\* A change of a node preserves the invariant
LEMMA LogsStep ==
    ASSUME LogInv, ElectionInv', NEW i \in Node, NEW o \in NodeState, Become(i, o),
           LogStep(i, node[i], o), Roles(i, node[i], o)
    PROVE  LogInv'
<1>1. PICK H \in SUBSET Seq(Entry) : Explains(H)
  BY DEF LogInv
<1>2. ElectionInv /\ StoredInv
  BY DEF LogInv
<1>3. H \cup {o.log} \in SUBSET Seq(Entry) /\ Explains(H \cup {o.log})'
  BY <1>1, <1>2, ExplainsStep DEF NodeState
<1>4. StoredInv'
  BY <1>2, StoredStep
<1> QED
  BY <1>3, <1>4 DEF LogInv


\* Support only grows, and so does what is on a disk
LEMMA WroteGrows ==
    ASSUME ElectionInv, NEW c \in Node, NEW t \in Nat, Wrote(c, t),
           msgs \subseteq msgs', disk'[c].term >= t,
           node'[c].term = t => node'[c].state # "Candidate"
    PROVE  Wrote(c, t)'
<1>1. Supporters(c, t) \subseteq Supporters(c, t)' /\ Supporters(c, t)' \in SUBSET Node
  BY DEF Supporters, Granted
<1>2. Supporters(c, t)' \in Quorum
  BY <1>1, QuorumGrows DEF Wrote
<1> QED
  BY <1>2 DEF Wrote

\* A step that leaves the history as it is
LEMMA HistoryStays ==
    ASSUME NEW H \in SUBSET Seq(Entry), Explains(H),
           \A i \in Node : node'[i].log \in H /\ disk'[i].log \in H,
           AllMsgs' \subseteq AllMsgs,
           \A c \in Node : \A t \in Nat : Wrote(c, t) => Wrote(c, t)',
           \A i \in Node : node'[i].state = "Leader" =>
              /\ node[i].state = "Leader" /\ node'[i].term = node[i].term
              /\ node'[i].log = node[i].log
    PROVE  Explains(H)'
<1>1. \A m \in AllMsgs' : m.type = "MsgApp" => \E h \in H : IsSlice(m, h)
  BY DEF Explains
<1>2. \A a, b \in H : Agree(a, b)
  BY DEF Explains
<1>3. \A h \in H : \A k \in 1..Len(h) :
         h[k].term > 1 => \E c \in Node : Wrote(c, h[k].term)'
  <2> SUFFICES ASSUME NEW h \in H, NEW k \in 1..Len(h), h[k].term > 1
               PROVE  \E c \in Node : Wrote(c, h[k].term)'
    OBVIOUS
  <2>1. \E c \in Node : Wrote(c, h[k].term)
    BY DEF Explains
  <2>2. h[k].term \in Nat
    BY EntryTerm
  <2> QED
    BY <2>1, <2>2
<1>4. \A i \in Node : node'[i].state = "Leader" =>
         \A h \in H : \A k \in 1..Len(h) :
            h[k].term = node'[i].term => k =< Len(node'[i].log)
  BY DEF Explains
<1> QED
  BY <1>1, <1>2, <1>3, <1>4 DEF Explains

\* A Ready stores the log that is there
LEMMA ReadyExplains ==
    ASSUME ElectionInv, StoredInv, NEW i \in Node, Ready(i),
           NEW H \in SUBSET Seq(Entry), Explains(H)
    PROVE  Explains(H)' /\ StoredInv'
<1> DEFINE n == node[i]
           o == node'[i]
<1>1. Explains(H)
  OBVIOUS
<1>2. /\ ElectionInv /\ StoredInv
      /\ n \in NodeState /\ n.term \in Nat /\ disk[i].term \in Nat /\ disk[i].term =< n.term
  BY LogTypes
<1>3. /\ node \in [Node -> NodeState] /\ disk \in [Node -> DiskState]
  BY <1>2 DEF ElectionInv, TypeOK
<1>4. /\ \A j \in Node \ {i} : node'[j] = node[j] /\ disk'[j] = disk[j]
      /\ disk'[i] = HardState(n) /\ msgs' = msgs \cup n.outbox
  BY <1>3 DEF Ready
<1>5. /\ o.log = n.log /\ o.term = n.term /\ o.state = n.state /\ o.granted = n.granted
      /\ o.outbox = {} /\ o.self = <<>> /\ o.steps = n.self
  BY <1>2, <1>3 DEF Ready, NodeState
<1>6. disk'[i].term = n.term /\ disk'[i].log = n.log
  BY <1>4 DEF HardState
<1> HIDE DEF o
<1>7. AllMsgs' \subseteq AllMsgs
  <2> SUFFICES ASSUME NEW m \in AllMsgs'
               PROVE  m \in AllMsgs
    OBVIOUS
  <2>1. m \in msgs' \/ \E j \in Node : m \in node'[j].outbox
    BY DEF AllMsgs
  <2>2. \A j \in Node : node'[j].outbox \subseteq node[j].outbox
    BY <1>4, <1>5 DEF o
  <2>3. m \in msgs \/ \E j \in Node : m \in node[j].outbox
    BY <1>4, <2>1, <2>2
  <2> QED
    BY <2>3 DEF AllMsgs
<1>8. ASSUME NEW c \in Node, NEW t \in Nat, Wrote(c, t)
      PROVE  Wrote(c, t)'
  <2>1. disk'[c].term >= t
    <3>1. disk[c].term >= t
      BY <1>8 DEF Wrote
    <3>2. disk'[c].term >= disk[c].term /\ disk'[c].term \in Nat /\ disk[c].term \in Nat
      BY <1>2, <1>3, <1>4, <1>6 DEF DiskState
    <3> QED
      BY <3>1, <3>2
  <2>2. node'[c].term = t => node'[c].state # "Candidate"
    BY <1>4, <1>5, <1>8 DEF Wrote, o
  <2> QED
    BY <1>2, <1>4, <1>8, <2>1, <2>2, WroteGrows
<1>9. \A j \in Node : node'[j].log \in H /\ disk'[j].log \in H
  BY <1>1, <1>4, <1>5, <1>6 DEF Explains, o
<1>10. \A j \in Node : node'[j].state = "Leader" =>
          /\ node[j].state = "Leader" /\ node'[j].term = node[j].term
          /\ node'[j].log = node[j].log
  BY <1>4, <1>5 DEF o
<1>11. Explains(H)'
  BY <1>1, <1>7, <1>8, <1>9, <1>10, HistoryStays
<1>12. StoredInv'
  <2>1. /\ disk'[i].term >= 1 /\ disk'[i].term >= o.term
        /\ o.state \in {"Candidate", "Leader"} => o.term > 1
    BY <1>2, <1>5, <1>6 DEF StoredInv
  <2>2. VotesCast(o)
    BY <1>5 DEF VotesCast
  <2>3. \A k \in 1..Len(o.steps) :
           o.steps[k].type = "MsgVoteResp" => o.steps[k].term =< disk'[i].term
    <3>1. VotesCast(n)
      BY <1>2 DEF StoredInv
    <3> HIDE DEF n
    <3> QED
      BY <1>5, <1>6, <3>1 DEF VotesCast
  <2> HIDE DEF n
  <2> QED
    BY <1>2, <1>4, <2>1, <2>2, <2>3 DEF StoredInv, VotesCast, o
<1> QED
  BY <1>11, <1>12

\* It preserves the invariant
LEMMA ReadyLogs ==
    ASSUME LogInv, ElectionInv', NEW i \in Node, Ready(i)
    PROVE  LogInv'
<1>1. PICK H \in SUBSET Seq(Entry) : Explains(H)
  BY DEF LogInv
<1>2. Explains(H)' /\ StoredInv'
  BY <1>1, ReadyExplains DEF LogInv
<1> QED
  BY <1>2 DEF LogInv

\* What a node starts with
LEMMA NewRaftLog ==
    ASSUME NEW i, NEW d, NEW o, o = NewRaft(i, d)
    PROVE  /\ o.log = d.log /\ o.state = "Follower"
           /\ o.outbox = {} /\ o.self = <<>> /\ o.steps = <<>>
  BY DEF NewRaft, BecomeFollower, Reset

\* A node that starts again has a log that was stored
LEMMA RestartExplains ==
    ASSUME ElectionInv, StoredInv, NEW i \in Node, Restart(i),
           NEW H \in SUBSET Seq(Entry), Explains(H)
    PROVE  Explains(H)' /\ StoredInv'
<1> DEFINE o == node'[i]
<1>1. Explains(H)
  OBVIOUS
<1>2. ElectionInv /\ StoredInv
  OBVIOUS
<1>3. /\ node \in [Node -> NodeState] /\ disk \in [Node -> DiskState]
  BY <1>2 DEF ElectionInv, TypeOK
<1>4. /\ \A j \in Node \ {i} : node'[j] = node[j]
      /\ disk' = disk /\ msgs' = msgs /\ o = NewRaft(i, disk[i])
  BY <1>3 DEF Restart
<1>5. /\ o.log = disk[i].log /\ o.state = "Follower"
      /\ o.outbox = {} /\ o.self = <<>> /\ o.steps = <<>>
  BY <1>4, NewRaftLog
<1> HIDE DEF o
<1>6. AllMsgs' \subseteq AllMsgs
  <2> SUFFICES ASSUME NEW m \in AllMsgs'
               PROVE  m \in AllMsgs
    OBVIOUS
  <2>1. m \in msgs' \/ \E j \in Node : m \in node'[j].outbox
    BY DEF AllMsgs
  <2>2. \A j \in Node : node'[j].outbox \subseteq node[j].outbox
    BY <1>4, <1>5 DEF o
  <2>3. m \in msgs \/ \E j \in Node : m \in node[j].outbox
    BY <1>4, <2>1, <2>2
  <2> QED
    BY <2>3 DEF AllMsgs
<1>7. ASSUME NEW c \in Node, NEW t \in Nat, Wrote(c, t)
      PROVE  Wrote(c, t)'
  <2>1. disk'[c].term >= t
    BY <1>4, <1>7 DEF Wrote
  <2>2. node'[c].term = t => node'[c].state # "Candidate"
    BY <1>4, <1>5, <1>7 DEF Wrote, o
  <2> QED
    BY <1>2, <1>4, <1>7, <2>1, <2>2, WroteGrows
<1>8. \A j \in Node : node'[j].log \in H /\ disk'[j].log \in H
  BY <1>1, <1>4, <1>5 DEF Explains, o
<1>9. \A j \in Node : node'[j].state = "Leader" =>
         /\ node[j].state = "Leader" /\ node'[j].term = node[j].term
         /\ node'[j].log = node[j].log
  BY <1>4, <1>5 DEF o
<1>10. Explains(H)'
  BY <1>1, <1>6, <1>7, <1>8, <1>9, HistoryStays
<1>11. StoredInv'
  <2>1. VotesCast(o) /\ Len(o.steps) = 0
    BY <1>5 DEF VotesCast
  <2> QED
    BY <1>2, <1>4, <1>5, <2>1 DEF StoredInv, VotesCast, o
<1> QED
  BY <1>10, <1>11

\* It preserves the invariant
LEMMA RestartLogs ==
    ASSUME LogInv, ElectionInv', NEW i \in Node, Restart(i)
    PROVE  LogInv'
<1>1. PICK H \in SUBSET Seq(Entry) : Explains(H)
  BY DEF LogInv
<1>2. Explains(H)' /\ StoredInv'
  BY <1>1, RestartExplains DEF LogInv
<1> QED
  BY <1>2 DEF LogInv

\* Every log starts as the entry of the configuration
LEMMA LogInit == Init => LogInv
<1> SUFFICES ASSUME Init PROVE LogInv
  OBVIOUS
<1>1. ElectionInv
  BY ElectionInit
<1>2. \A i \in Node :
         /\ disk[i] = BootDisk /\ node[i] = NewRaft(i, BootDisk)
  BY DEF Init
<1>3. \A i \in Node :
         /\ disk[i].term = 1 /\ disk[i].log = BootLog
         /\ node[i].log = BootLog /\ node[i].state = "Follower"
         /\ node[i].outbox = {} /\ node[i].self = <<>> /\ node[i].steps = <<>>
  <2> SUFFICES ASSUME NEW i \in Node
               PROVE  /\ disk[i].term = 1 /\ disk[i].log = BootLog
                      /\ node[i].log = BootLog /\ node[i].state = "Follower"
                      /\ node[i].outbox = {} /\ node[i].self = <<>> /\ node[i].steps = <<>>
    OBVIOUS
  <2>1. disk[i].term = 1 /\ disk[i].log = BootLog
    BY <1>2 DEF BootDisk
  <2>2. BootDisk.log = BootLog
    BY DEF BootDisk
  <2> QED
    BY <1>2, <2>1, <2>2, NewRaftLog
<1>4. StoredInv
  BY <1>3 DEF StoredInv, VotesCast
<1>5. AllMsgs = {}
  BY <1>3 DEF AllMsgs, Init
<1>6. BootLog \in Seq(Entry) /\ Len(BootLog) = 1 /\ BootLog[1].term = 1
  <2>1. BootLog \in Seq(Entry)
    BY DEF BootLog, Entry
  <2> QED
    BY <2>1 DEF BootLog
<1>7. Explains({BootLog})
  <2>1. Agree(BootLog, BootLog)
    BY DEF Agree
  <2>2. \A k \in 1..Len(BootLog) : BootLog[k].term = 1
    BY <1>6
  <2> QED
    BY <1>3, <1>5, <2>1, <2>2 DEF Explains
<1> QED
  BY <1>1, <1>4, <1>6, <1>7 DEF LogInv

\* The invariant is kept by every step.
LEMMA LogInvStep == LogInv /\ [Next]_vars => LogInv'
<1> SUFFICES ASSUME LogInv, [Next]_vars PROVE LogInv'
  OBVIOUS
<1>1. ElectionInv /\ StoredInv /\ ElectionInv'
  BY ElectionStep DEF LogInv
<1>2. CASE UNCHANGED vars
  <2>1. node' = node /\ disk' = disk /\ msgs' = msgs
    BY <1>2 DEF vars
  <2>2. AllMsgs' = AllMsgs /\ \A c, t : Wrote(c, t)' = Wrote(c, t)
    BY <2>1 DEF AllMsgs, Wrote, Supporters, Granted
  <2>3. StoredInv'
    BY <1>1, <2>1 DEF StoredInv
  <2>4. \A H \in SUBSET Seq(Entry) : Explains(H) => Explains(H)'
    BY <2>1, <2>2 DEF Explains
  <2> QED
    BY <1>1, <2>3, <2>4 DEF LogInv
<1>3. ASSUME NEW i \in Node,
             \E o \in NodeState : Become(i, o) /\ LogStep(i, node[i], o) /\ Roles(i, node[i], o)
      PROVE  LogInv'
  BY <1>1, <1>3, LogsStep
<1>4. ASSUME NEW i \in Node, Ready(i)
      PROVE  LogInv'
  BY <1>1, <1>4, ReadyLogs
<1>5. ASSUME NEW i \in Node, Restart(i)
      PROVE  LogInv'
  BY <1>1, <1>5, RestartLogs
<1>6. ASSUME NEW i \in Node, Advance(i)
      PROVE  LogInv'
  BY <1>1, <1>3, <1>6, AdvanceLogs
<1>7. ASSUME NEW i \in Node, Local(i)
      PROVE  LogInv'
  BY <1>1, <1>3, <1>7, LocalLogs
<1>8. ASSUME NEW i \in Node, NEW m \in msgs, m.to = i, Deliver(i, m)
      PROVE  LogInv'
  BY <1>1, <1>3, <1>8, DeliverLogs
<1> QED
  BY <1>2, <1>4, <1>5, <1>6, <1>7, <1>8 DEF Next

\* Logs of one history match.
LEMMA LogInvMatches == LogInv => LogMatching
<1> SUFFICES ASSUME LogInv, NEW a \in Logs, NEW b \in Logs,
                    NEW k \in 1..Min({Len(a), Len(b)}), a[k].term = b[k].term
             PROVE  SubSeq(a, 1, k) = SubSeq(b, 1, k)
  BY DEF LogMatching
<1>1. PICK H \in SUBSET Seq(Entry) : Explains(H)
  BY DEF LogInv
<1>2. a \in H /\ b \in H /\ a \in Seq(Entry) /\ b \in Seq(Entry) /\ Agree(a, b)
  BY <1>1 DEF Explains, Logs
<1>3. Len(a) \in Nat /\ Len(b) \in Nat
  BY <1>2
<1>4. Min({Len(a), Len(b)}) \in Nat /\ Min({Len(a), Len(b)}) =< Len(a)
      /\ Min({Len(a), Len(b)}) =< Len(b)
  BY <1>3, MinPair
<1>5. k \in Nat \ {0} /\ k =< Len(a) /\ k =< Len(b)
  BY <1>3, <1>4
<1>6. \A x \in 1..k : a[x] = b[x]
  BY <1>2, <1>5 DEF Agree
<1> DEFINE p == SubSeq(a, 1, k)
           q == SubSeq(b, 1, k)
<1>7. /\ p \in Seq(Entry) /\ Len(p) = k /\ \A x \in 1..k : p[x] = a[x]
      /\ q \in Seq(Entry) /\ Len(q) = k /\ \A x \in 1..k : q[x] = b[x]
  BY <1>2, <1>3, <1>5, SubSeqProperties
<1> HIDE DEF p, q
<1>8. p = q
  BY <1>6, <1>7, SeqEqual
<1> QED
  BY <1>8 DEF p, q

\* Two logs, in memory or on a disk, that agree on the term of an index agree on every entry
\* up to it, for any number of nodes, terms and restarts, and whatever the network loses,
\* repeats or reorders (maybeAppend, findConflict, appendEntry).
THEOREM LogsMatch == Spec => []LogMatching
  BY LogInit, LogInvStep, LogInvMatches, PTL DEF Spec

=============================================================================
