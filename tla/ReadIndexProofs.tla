--------------------------- MODULE ReadIndexProofs ---------------------------
(***************************************************************************)
(* Why reads are current.  A leader that notes a request knows every       *)
(* commit index that any node knows, unless a quorum is already past its   *)
(* term (KnowsCommits): commit indexes are only told by leaders, and a     *)
(* leader has what was committed before its term.  If a quorum is past its *)
(* term, its members answer no heartbeat of the term any more, and the     *)
(* request is never confirmed (Overtaken).  A restart may forget a commit  *)
(* index: what was known is tied to the history of acknowledgements        *)
(* (KnownBacked), and a quorum is past a term by what it has stored.       *)
(*                                                                         *)
(* A request makes raft do nothing but send: every step is one of Raft,    *)
(* after which a node may have more to say (Hums).  So what is proved of   *)
(* Raft holds with reads.                                                  *)
(***************************************************************************)
EXTENDS RaftCommitProofs, ReadIndex

-----------------------------------------------------------------------------
(***************************************************************************)
(* What raft does without regard to reads sends no heartbeat, no answer to *)
(* one, and no request for a read, except when it is about heartbeats.     *)
(***************************************************************************)
OfReads == {"MsgHeartbeat", "MsgHeartbeatResp", "MsgReadIndex", "MsgReadIndexResp"}

Mute(n, o) == \A m \in o.outbox \ n.outbox : m.type \notin OfReads

LEMMA MuteTrans ==
    ASSUME NEW n, NEW o, NEW p, Mute(n, o), Mute(o, p)
    PROVE  Mute(n, p)
<1>1. \A m \in p.outbox \ n.outbox : m \in p.outbox \ o.outbox \/ m \in o.outbox \ n.outbox
  OBVIOUS
<1> QED
  BY <1>1 DEF Mute

\* No message at all
LEMMA SameMute ==
    ASSUME NEW n, NEW o, o.outbox = n.outbox
    PROVE  Mute(n, o)
  BY DEF Mute

LEMMA StillMute ==
    ASSUME NEW n, NEW o, Still(n, o)
    PROVE  Mute(n, o)
  BY DEF Mute, Still

LEMMA SendMute ==
    ASSUME NEW n \in NodeState, NEW ms, \A m \in ms : m.type \notin OfReads
    PROVE  Mute(n, Send(n, ms))
<1> DEFINE o == Send(n, ms)
<1>1. o.outbox = n.outbox \cup ms
  BY DEF Send, NodeState
<1> HIDE DEF o
<1> QED
  BY <1>1 DEF Mute, o

LEMMA SetProgMute ==
    ASSUME NEW n \in NodeState, NEW j \in Node, NEW pr
    PROVE  Mute(n, [n EXCEPT !.prog[j] = pr])
  BY DEF Mute, NodeState

LEMMA MaybeSendAppendMute ==
    ASSUME NEW i \in Node, NEW n \in NodeState, NEW peers, NEW sendIfEmpty
    PROVE  Mute(n, MaybeSendAppend(i, n, peers, sendIfEmpty))
<1> DEFINE o == MaybeSendAppend(i, n, peers, sendIfEmpty)
<1>1. \A m \in o.outbox \ n.outbox : \E j : m = App(i, n, j, n.prog[j].next)
  BY DEF MaybeSendAppend, NodeState
<1> HIDE DEF o
<1>2. \A j, k : App(i, n, j, k).type = "MsgApp"
  BY DEF App
<1>3. \A m \in o.outbox \ n.outbox : m.type = "MsgApp"
  BY <1>1, <1>2
<1> QED
  BY <1>3 DEF Mute, o, OfReads

LEMMA SendRestMute ==
    ASSUME NEW i \in Node, NEW n \in NodeState, NEW j \in Node
    PROVE  Mute(n, SendRest(i, n, j))
<1> DEFINE o == SendRest(i, n, j)
<1>1. \A m \in o.outbox \ n.outbox : \E k : m = App(i, n, j, k)
  BY DEF SendRest, NodeState
<1> HIDE DEF o
<1>2. \A k : App(i, n, j, k).type = "MsgApp"
  BY DEF App
<1>3. \A m \in o.outbox \ n.outbox : m.type = "MsgApp"
  BY <1>1, <1>2
<1> QED
  BY <1>3 DEF Mute, o, OfReads

LEMMA BcastAppendMute ==
    ASSUME NEW i \in Node, NEW n \in NodeState
    PROVE  Mute(n, BcastAppend(i, n))
  BY MaybeSendAppendMute DEF BcastAppend

LEMMA AppendEntryMute ==
    ASSUME NEW i \in Node, NEW n \in NodeState, NEW val
    PROVE  Mute(n, AppendEntry(i, n, val))
  BY DEF Mute, AppendEntry, SendSelf, NodeState

LEMMA CampaignMute ==
    ASSUME NEW i \in Node, NEW n \in NodeState, NEW pre \in BOOLEAN
    PROVE  Mute(n, Campaign(i, n, pre))
<1> DEFINE c == IF pre THEN BecomePreCandidate(n) ELSE BecomeCandidate(i, n)
           term == IF pre THEN c.term + 1 ELSE c.term
           request(j) == [type |-> IF pre THEN "MsgPreVote" ELSE "MsgVote", from |-> i,
                          to |-> j, term |-> term, index |-> LastIndex(c),
                          logTerm |-> LastTerm(c)]
           ms == {request(j) : j \in Node \ {i}}
           answer == VoteResp(IF pre THEN "MsgPreVoteResp" ELSE "MsgVoteResp", i, i, term,
                              FALSE)
           o == Campaign(i, n, pre)
<1>1. c \in NodeState
  BY BecomePreCandidateType, BecomeCandidateType
<1>2. c.outbox = n.outbox
  BY DEF BecomePreCandidate, BecomeCandidate, Reset, NodeState
<1> HIDE DEF c
<1>3. o = SendSelf(Send(c, ms), answer)
  BY DEF Campaign, SendCampaign, c
<1>4. \A m \in ms : m.type \notin OfReads
  BY DEF OfReads
<1> HIDE DEF ms, answer, o
<1>5. o.outbox = c.outbox \cup ms
  BY <1>1, <1>3 DEF SendSelf, Send, NodeState
<1>6. Mute(n, o)
  BY <1>2, <1>4, <1>5 DEF Mute
<1> QED
  BY <1>6 DEF o

LEMMA StepLowerTermMute ==
    ASSUME NEW i \in Node, NEW n \in NodeState, NEW m
    PROVE  Mute(n, StepLowerTerm(i, n, m))
<1> DEFINE r == AppResp(i, n, m.from, 0)
           v == VoteResp("MsgPreVoteResp", i, m.from, n.term, TRUE)
<1>1. r.type \notin OfReads /\ v.type \notin OfReads
  BY DEF AppResp, VoteResp, OfReads
<1>2. StepLowerTerm(i, n, m) \in {n, Send(n, {r}), Send(n, {v})}
  BY DEF StepLowerTerm
<1> HIDE DEF r, v
<1> QED
  BY <1>1, <1>2, SendMute, SameMute

LEMMA StepVoteMute ==
    ASSUME NEW i \in Node, NEW n \in NodeState, NEW m \in Message
    PROVE  Mute(n, StepVote(i, n, m))
<1> DEFINE pre == m.type = "MsgPreVote"
           type == IF pre THEN "MsgPreVoteResp" ELSE "MsgVoteResp"
           yes == VoteResp(type, i, m.from, m.term, FALSE)
           no == VoteResp(type, i, m.from, n.term, TRUE)
           s == Send(n, {yes})
           o == [s EXCEPT !.vote = IF pre THEN @ ELSE m.from]
           d == Send(n, {no})
<1>1. yes.type \notin OfReads /\ no.type \notin OfReads
  BY DEF VoteResp, OfReads
<1>2. StepVote(i, n, m) \in {o, d}
  BY DEF StepVote
<1> HIDE DEF yes, no, pre
<1>3. o.outbox = n.outbox \cup {yes} /\ d.outbox = n.outbox \cup {no}
  BY DEF Send, NodeState
<1> HIDE DEF o, d
<1> QED
  BY <1>1, <1>2, <1>3 DEF Mute

LEMMA StepAppMute ==
    ASSUME NEW i \in Node, NEW n \in NodeState, NEW m \in Message, m.type = "MsgApp"
    PROVE  Mute(n, StepApp(i, n, m))
<1> DEFINE f == FollowSender(i, n, m)
           o == HandleAppendEntries(i, f, m)
<1>1. m \in AppMsg /\ m.from \in Node
  BY MessageFields
<1>2. f \in NodeState /\ Still(n, f)
  BY <1>1, FollowSenderType, FollowSenderStill
<1>3. StepApp(i, n, m) \in {n, o}
  BY DEF StepApp
<1> HIDE DEF f
<1>4. \A x \in o.outbox \ f.outbox : x.type = "MsgAppResp"
  BY <1>2 DEF HandleAppendEntries, Send, CommitTo, AppResp, AppReject, NodeState
<1> HIDE DEF o
<1>5. Mute(n, o)
  BY <1>2, <1>4 DEF Mute, Still, OfReads
<1> QED
  BY <1>3, <1>5, SameMute

LEMMA StepAppRejectMute ==
    ASSUME NEW i \in Node, NEW n \in NodeState, NEW m \in AppRespMsg
    PROVE  Mute(n, StepAppReject(i, n, m))
<1> DEFINE j == m.from
           hint == IF m.logTerm > 0 THEN FindConflictByTerm(n.log, m.rejectHint, m.logTerm)
                   ELSE m.rejectHint
           decr == DecrTo(n.prog[j], m.index, hint)
           probe == IF decr.state = "Replicate" THEN BecomeProbe(decr) ELSE decr
           backed == [n EXCEPT !.prog[j] = probe]
           o == MaybeSendAppend(i, backed, {j}, TRUE)
<1>1. j \in Node /\ m.index \in Nat /\ m.rejectHint \in Nat /\ m.logTerm \in Nat
  BY DEF AppRespMsg
<1>2. hint \in Nat
  BY <1>1, FindConflictType DEF NodeState
<1>3. decr \in Progress
  <2> HIDE DEF hint
  <2> QED
    BY <1>1, <1>2, ProgType, DecrToType
<1>4. probe \in Progress
  <2> HIDE DEF decr
  <2> QED
    BY <1>3, BecomeProbeType
<1>5. backed \in NodeState /\ Mute(n, backed)
  <2> HIDE DEF probe, j
  <2> QED
    BY <1>1, <1>4, SetProgType, SetProgMute
<1>6. StepAppReject(i, n, m) \in {n, o}
  BY DEF StepAppReject
<1> HIDE DEF backed
<1>7. Mute(n, o)
  BY <1>5, MaybeSendAppendMute, MuteTrans
<1> HIDE DEF o
<1> QED
  BY <1>6, <1>7, SameMute

LEMMA CommitAndSendMute ==
    ASSUME NEW i \in Node, NEW n \in NodeState, NEW j \in Node
    PROVE  Mute(n, CommitAndSend(i, n, j))
<1> DEFINE c == [n EXCEPT !.commit = QuorumIndex(n)]
           bump == ~CanCommit(n) /\ j # i /\ CanBumpCommit(n.prog[j], n.commit)
           sent == CASE CanCommit(n) -> BcastAppend(i, c)
                     [] bump -> MaybeSendAppend(i, n, {j}, TRUE)
                     [] OTHER -> n
           Good(o) == o \in NodeState /\ Mute(n, o)
<1>1. c \in NodeState /\ c.outbox = n.outbox
  BY QuorumIndexType DEF NodeState
<1>2. Mute(n, c)
  BY <1>1, SameMute
<1>3. Good(BcastAppend(i, c))
  <2> HIDE DEF c
  <2> QED
    BY <1>1, <1>2, BcastAppendType, BcastAppendMute, MuteTrans
<1>4. Good(MaybeSendAppend(i, n, {j}, TRUE))
  BY MaybeSendAppendType, MaybeSendAppendMute
<1>5. Good(n)
  BY SameMute
<1>6. Good(sent)
  <2> HIDE DEF c, bump, Good
  <2> QED
    BY <1>3, <1>4, <1>5
<1>7. CommitAndSend(i, n, j) = IF j = i THEN sent ELSE SendRest(i, sent, j)
  BY DEF CommitAndSend
<1> HIDE DEF sent
<1>8. Mute(n, SendRest(i, sent, j))
  BY <1>6, SendRestMute, MuteTrans
<1> QED
  BY <1>6, <1>7, <1>8

LEMMA SendTimeoutMute ==
    ASSUME NEW i, NEW n, NEW o \in NodeState, NEW j
    PROVE  Mute(o, Send(o, {Simple("MsgTimeoutNow", i, n, j)}))
<1> DEFINE m == Simple("MsgTimeoutNow", i, n, j)
<1>1. m.type \notin OfReads
  BY DEF Simple, OfReads
<1> HIDE DEF m
<1>2. Mute(o, Send(o, {m}))
  BY <1>1, SendMute
<1> QED
  BY <1>2 DEF m

LEMMA StepAppAcceptMute ==
    ASSUME NEW i \in Node, NEW n \in NodeState, NEW m \in AppRespMsg
    PROVE  Mute(n, StepAppAccept(i, n, m))
<1> DEFINE j == m.from
           upd == MaybeUpdate(n.prog[j], m.index)
           next == IF upd.state = "Probe" THEN BecomeReplicate(upd) ELSE upd
           counted == [n EXCEPT !.prog[j] = next]
           done == CommitAndSend(i, counted, j)
           over == Send(done, {Simple("MsgTimeoutNow", i, n, j)})
<1>1. j \in Node /\ m.index \in Nat
  BY DEF AppRespMsg
<1>2. upd \in Progress
  BY <1>1, ProgType, MaybeUpdateType
<1>3. next \in Progress
  <2> HIDE DEF upd
  <2> QED
    BY <1>2, BecomeReplicateType
<1>4. counted \in NodeState /\ Mute(n, counted)
  <2> HIDE DEF next, j
  <2> QED
    BY <1>1, <1>3, SetProgType, SetProgMute
<1>5. done \in NodeState /\ Mute(n, done)
  <2> HIDE DEF counted
  <2> QED
    BY <1>1, <1>4, CommitAndSendType, CommitAndSendMute, MuteTrans
<1>6. StepAppAccept(i, n, m) \in {n, done, over}
  BY DEF StepAppAccept
<1> HIDE DEF done
<1>7. Mute(n, over)
  BY <1>5, SendTimeoutMute, MuteTrans
<1> HIDE DEF over
<1> QED
  BY <1>5, <1>6, <1>7, SameMute

LEMMA StepHeartbeatRespMute ==
    ASSUME NEW i \in Node, NEW n \in NodeState, NEW m \in Message
    PROVE  Mute(n, StepHeartbeatResp(i, n, m))
<1> DEFINE pr == [n.prog[m.from] EXCEPT !.paused = FALSE]
           r == [n EXCEPT !.prog[m.from] = pr]
           o == MaybeSendAppend(i, r, {m.from}, TRUE)
<1>1. m.from \in Node
  BY MessageEnds
<1>2. pr \in Progress
  BY <1>1, ProgType, UnpausedType
<1>3. r \in NodeState /\ Mute(n, r)
  <2> HIDE DEF pr
  <2> QED
    BY <1>1, <1>2, SetProgType, SetProgMute
<1>4. StepHeartbeatResp(i, n, m) \in {r, o}
  BY DEF StepHeartbeatResp
<1> HIDE DEF r
<1>5. Mute(n, o)
  BY <1>3, MaybeSendAppendMute, MuteTrans
<1> HIDE DEF o
<1> QED
  BY <1>3, <1>4, <1>5

LEMMA StepTransferLeaderMute ==
    ASSUME NEW i \in Node, NEW n \in NodeState, NEW to \in Node
    PROVE  Mute(n, StepTransferLeader(i, n, to))
<1> DEFINE r == [n EXCEPT !.transferee = to]
           a == [n EXCEPT !.transferee = None]
           p == [type |-> "MsgTransferLeader", from |-> to, to |-> n.lead, term |-> n.term]
           now == Send(r, {Simple("MsgTimeoutNow", i, n, to)})
           catchUp == MaybeSendAppend(i, r, {to}, TRUE)
<1>1. r \in NodeState /\ Mute(n, r) /\ Mute(n, a)
  BY DEF Mute, NodeState
<1>2. p.type \notin OfReads
  BY DEF OfReads
<1>3. StepTransferLeader(i, n, to) \in {n, a, now, catchUp, Send(n, {p})}
  BY DEF StepTransferLeader
<1> HIDE DEF r, a, p
<1>4. Mute(n, now) /\ Mute(n, catchUp)
  BY <1>1, SendTimeoutMute, MaybeSendAppendMute, MuteTrans
<1>5. Mute(n, Send(n, {p})) /\ Mute(n, n)
  BY <1>2, SendMute, SameMute
<1> HIDE DEF now, catchUp
<1> QED
  BY <1>1, <1>3, <1>4, <1>5

LEMMA AppendAndSendMute ==
    ASSUME NEW i \in Node, NEW n \in NodeState, NEW val \in Value \cup {Empty}
    PROVE  Mute(n, BcastAppend(i, AppendEntry(i, n, val)))
<1> DEFINE g == AppendEntry(i, n, val)
<1>1. g \in NodeState /\ Mute(n, g)
  BY AppendEntryType, AppendEntryMute
<1> HIDE DEF g
<1>2. Mute(n, BcastAppend(i, g))
  BY <1>1, BcastAppendMute, MuteTrans
<1> QED
  BY <1>2 DEF g

LEMMA StepPropMute ==
    ASSUME NEW i \in Node, NEW n \in NodeState, NEW val \in Value
    PROVE  Mute(n, StepProp(i, n, val))
<1> DEFINE g == BcastAppend(i, AppendEntry(i, n, val))
           p == [type |-> "MsgProp", from |-> i, to |-> n.lead, term |-> 0, val |-> val]
<1>1. StepProp(i, n, val) \in {n, g, Send(n, {p})}
  BY DEF StepProp
<1>2. p.type \notin OfReads
  BY DEF OfReads
<1>3. Mute(n, g)
  BY AppendAndSendMute
<1> HIDE DEF p
<1>4. Mute(n, Send(n, {p})) /\ Mute(n, n)
  BY <1>2, SendMute, SameMute
<1> HIDE DEF g
<1> QED
  BY <1>1, <1>3, <1>4

LEMMA WinMute ==
    ASSUME NEW i \in Node, NEW p \in NodeState
    PROVE  Mute(p, BcastAppend(i, BecomeLeader(i, p)))
<1> DEFINE r == Reset(i, p, p.term)
           pr == BecomeReplicate(r.prog[i])
           e == [r EXCEPT !.lead = i, !.state = "Leader"]
           f == [e EXCEPT !.prog[i] = pr]
<1>1. r \in NodeState /\ Still(p, r)
  <2>1. p.term \in Nat
    BY DEF NodeState
  <2>2. r \in NodeState
    BY <2>1, ResetType
  <2>3. Still(p, r)
    BY DEF Reset, Still, NodeState
  <2> QED
    BY <2>2, <2>3
<1>2. pr \in Progress
  <2> HIDE DEF r
  <2> QED
    BY <1>1, ProgType, BecomeReplicateType
<1>3. e \in NodeState /\ Still(r, e)
  <2> HIDE DEF r
  <2> QED
    BY <1>1 DEF NodeState, Still
<1>4. BecomeLeader(i, p) = AppendEntry(i, f, Empty)
  BY DEF BecomeLeader
<1>5. f \in NodeState /\ Mute(e, f)
  <2> HIDE DEF e, pr
  <2> QED
    BY <1>2, <1>3, SetProgType, SetProgMute
<1>6. Mute(p, e)
  <2> HIDE DEF e, r
  <2> QED
    BY <1>1, <1>3 DEF Mute, Still
<1>7. Mute(p, f)
  <2> HIDE DEF e, f
  <2> QED
    BY <1>5, <1>6, MuteTrans
<1> HIDE DEF f
<1>8. Mute(f, BcastAppend(i, AppendEntry(i, f, Empty)))
  BY <1>5, AppendAndSendMute
<1> QED
  BY <1>4, <1>7, <1>8, MuteTrans

LEMMA StepVoteRespMute ==
    ASSUME NEW i \in Node, NEW n \in NodeState, NEW m \in Message
    PROVE  Mute(n, StepVoteResp(i, n, m))
<1> DEFINE polled == IF m.from \in n.granted \cup n.rejected THEN n
                     ELSE IF m.reject THEN [n EXCEPT !.rejected = @ \cup {m.from}]
                     ELSE [n EXCEPT !.granted = @ \cup {m.from}]
<1>1. m.from \in Node /\ n.term \in Nat
  BY MessageFields DEF NodeState
<1>2. polled \in NodeState
  BY <1>1 DEF NodeState
<1>3. Mute(n, polled)
  BY DEF Mute, NodeState
<1>4. StepVoteResp(i, n, m) \in {Campaign(i, polled, FALSE),
                                 BcastAppend(i, BecomeLeader(i, polled)),
                                 BecomeFollower(i, polled, n.term, None), polled}
  BY DEF StepVoteResp
<1> HIDE DEF polled
<1>5. /\ Mute(polled, Campaign(i, polled, FALSE))
      /\ Mute(polled, BcastAppend(i, BecomeLeader(i, polled)))
      /\ Mute(polled, BecomeFollower(i, polled, n.term, None))
  BY <1>2, CampaignMute, WinMute, BecomeFollowerStill, StillMute
<1> QED
  BY <1>3, <1>4, <1>5, MuteTrans

LEMMA StepResponseMute ==
    ASSUME NEW i \in Node, NEW n \in NodeState,
           NEW m \in Message, m.type \in {"MsgVoteResp", "MsgPreVoteResp", "MsgAppResp"}
    PROVE  Mute(n, StepResponse(i, n, m))
<1> DEFINE a == AtTermOf(i, n, m)
<1>1. a \in NodeState /\ Mute(n, a)
  BY AtTermOfType, AtTermOfStill, StillMute
<1>2. \/ StepResponse(i, n, m) = StepAppResp(i, a, m) /\ m.type = "MsgAppResp"
      \/ StepResponse(i, n, m) \in {StepVoteResp(i, a, m), a}
  BY DEF StepResponse
<1> HIDE DEF a
<1>3. m.type = "MsgAppResp" => Mute(a, StepAppResp(i, a, m))
  <2>1. m.type = "MsgAppResp" => m \in AppRespMsg
    BY MessageFields
  <2> QED
    BY <1>1, <2>1, StepAppRejectMute, StepAppAcceptMute, SameMute DEF StepAppResp
<1>4. Mute(a, StepVoteResp(i, a, m))
  BY <1>1, StepVoteRespMute
<1> QED
  BY <1>1, <1>2, <1>3, <1>4, MuteTrans

-----------------------------------------------------------------------------
(***************************************************************************)
(* What a step may do of node i, and what a node may say besides.          *)
(***************************************************************************)

\* What raft may do of node i: it goes from n to o
Does(i, n, o) == Sound(i, n, o) /\ LogStep(i, n, o) /\ Roles(i, n, o) /\ CommitStep(i, n, o)

\* From o to p, node i only sends: heartbeats, as a leader, and what is said of reads
Hums(i, o, p) ==
    /\ p.term = o.term /\ p.vote = o.vote /\ p.state = o.state /\ p.granted = o.granted
    /\ p.log = o.log /\ p.commit = o.commit /\ p.self = o.self /\ p.steps = o.steps
    /\ \A j \in Node : p.prog[j].match = o.prog[j].match
    /\ \A m \in p.outbox \ o.outbox :
          /\ m.type \in OfReads
          /\ m.type = "MsgHeartbeat" =>
                /\ o.state = "Leader" /\ m.term = o.term
                /\ m.commit =< o.commit /\ m.commit =< o.prog[m.to].match

LEMMA HumsCalm ==
    ASSUME NEW i \in Node, NEW o \in NodeState, NEW p \in NodeState, Hums(i, o, p)
    PROVE  Calm(i, o, p) /\ Quiet(o, p)
<1>1. o.term \in Nat /\ p.term >= o.term
  BY DEF Hums, NodeState
<1>2. \A m \in p.outbox \ o.outbox : ~IsBallot(m) /\ m.type # "MsgApp"
  BY DEF Hums, OfReads, IsBallot, IsGrant
<1>3. OwnAnswers(i, o) => OwnAnswers(i, p)
  BY DEF Hums, OwnAnswers
<1> QED
  BY <1>1, <1>2, <1>3 DEF Hums, Calm, Quiet

\* Saying more of reads is no more than raft may do
LEMMA HumsAfter ==
    ASSUME NEW i \in Node, NEW n \in NodeState, NEW o \in NodeState, NEW p \in NodeState,
           Does(i, n, o), Hums(i, o, p)
    PROVE  Does(i, n, p)
<1>1. Calm(i, o, p) /\ Quiet(o, p) /\ p.term = o.term /\ p.state = o.state
  BY HumsCalm DEF Hums
<1>2. Sound(i, n, p)
  BY <1>1, SoundThenCalm DEF Does
<1>3. LogStep(i, n, p)
  BY <1>1, StepThenQuiet DEF Does
<1>4. Roles(i, n, p)
  BY DEF Does, Hums, Roles
<1>5. \A m \in p.outbox \ n.outbox : m \in p.outbox \ o.outbox \/ m \in o.outbox \ n.outbox
  OBVIOUS
<1>6. \A m \in p.outbox \ o.outbox :
         /\ m.type # "MsgApp" /\ m.type # "MsgVote" /\ ~IsGrant(m) /\ ~IsAck(m)
         /\ m.type = "MsgHeartbeat" =>
               /\ o.state = "Leader" /\ m.term = o.term
               /\ m.commit =< o.commit /\ m.commit =< o.prog[m.to].match
  BY DEF Hums, OfReads, IsGrant, IsAck
<1>7. Says(i, n, o) /\ o.commit >= n.commit
  BY DEF Does, CommitStep
<1>8. Says(i, n, p)
  <2> SUFFICES ASSUME NEW m \in p.outbox \ n.outbox
               PROVE  /\ m.type = "MsgApp" =>
                            /\ p.state = "Leader" /\ m.term = p.term
                            /\ ShowsPart(m, p.log) /\ m.commit =< p.commit
                      /\ m.type = "MsgHeartbeat" =>
                            /\ p.state = "Leader" /\ m.term = p.term
                            /\ m.commit =< p.commit /\ m.commit =< p.prog[m.to].match
                      /\ m.type = "MsgVote" => m.index = LastIndex(p) /\ m.logTerm = LastTerm(p)
                      /\ IsGrant(m) =>
                            /\ p.log = n.log
                            /\ \E v \in msgs : /\ v.type = "MsgVote" /\ v.from = m.to
                                               /\ v.term = m.term
                                               /\ IsUpToDate(n, v.index, v.logTerm)
    BY DEF Says
  <2>1. p.log = o.log /\ p.commit = o.commit /\ LastIndex(p) = LastIndex(o)
        /\ LastTerm(p) = LastTerm(o)
    BY DEF Hums, LastIndex, LastTerm
  <2>2. m.to \in Node
    BY MessageFields DEF NodeState
  <2>3. p.prog[m.to].match = o.prog[m.to].match
    BY <2>2 DEF Hums
  <2>4. CASE m \in p.outbox \ o.outbox
    BY <1>1, <1>6, <2>1, <2>3, <2>4
  <2>5. CASE m \in o.outbox \ n.outbox
    BY <1>1, <1>7, <2>1, <2>3, <2>5 DEF Says
  <2> QED
    BY <1>5, <2>4, <2>5
<1>9. \A m \in Message : Waits(p, m) => Waits(o, m)
  BY <1>6 DEF Hums, Waits
<1>10. NoAcks(n, o) => NoAcks(n, p)
  BY <1>9 DEF NoAcks
<1>11. \A y : AcksUpTo(i, n, o, y) => AcksUpTo(i, n, p, y)
  BY <1>9 DEF Hums, AcksUpTo
<1>12. Speaks(i, n, o) => Speaks(i, n, p)
  <2>1. CommitsOwn(o) => CommitsOwn(p)
    <3>1. {j \in Node : p.prog[j].match >= p.commit} = {j \in Node : o.prog[j].match >= o.commit}
      BY DEF Hums
    <3> QED
      BY <3>1 DEF Hums, CommitsOwn
  <2>2. \A j \in Node : Heard(i, n, o, j) => Heard(i, n, p, j)
    BY DEF Hums, Heard
  <2> QED
    BY <1>10, <2>1, <2>2 DEF Hums, Speaks
<1>13. Appends(i, n, o) => Appends(i, n, p)
  BY <1>11 DEF Hums, Appends
<1>14. Takes(i, n, o) => Takes(i, n, p)
  BY <1>11 DEF Hums, Takes
<1>15. Beats(i, n, o) => Beats(i, n, p)
  BY <1>10 DEF Hums, Beats
<1>16. p.commit >= n.commit
  BY <1>7 DEF Hums
<1>17. CommitStep(i, n, p)
  BY <1>8, <1>12, <1>13, <1>14, <1>15, <1>16 DEF Does, CommitStep
<1> QED
  BY <1>2, <1>3, <1>4, <1>17 DEF Does

\* A node that takes notice of the term of a message, or of nothing
LEMMA AtTermOfDoes ==
    ASSUME NEW i \in Node, NEW n \in NodeState, NEW m \in Message
    PROVE  Does(i, n, AtTermOf(i, n, m))
<1> DEFINE a == AtTermOf(i, n, m)
<1>1. a \in NodeState /\ Calm(i, n, a) /\ Still(n, a) /\ Follows(n, a)
  BY AtTermOfType, AtTermOfCalm, AtTermOfStill, AtTermOfFollows
<1> HIDE DEF a
<1>2. Sound(i, n, a) /\ Roles(i, n, a) /\ CommitStep(i, n, a)
  BY <1>1, CalmIsSound, CalmRoles, FollowsSpeaks
<1>3. LogStep(i, n, a)
  BY <1>1, StillIsQuiet, QuietIsStep DEF Calm
<1>4. Does(i, n, a)
  BY <1>2, <1>3 DEF Does
<1> QED
  BY <1>4 DEF a

LEMMA SelfDoes ==
    ASSUME NEW i \in Node, NEW n \in NodeState
    PROVE  Does(i, n, n)
<1>1. n.term >= n.term
  BY DEF NodeState
<1>2. Calm(i, n, n) /\ Still(n, n)
  BY <1>1 DEF Calm, Still
<1>3. Follows(n, n)
  BY DEF Follows
<1>4. Sound(i, n, n) /\ Roles(i, n, n) /\ CommitStep(i, n, n)
  BY <1>2, <1>3, CalmIsSound, CalmRoles, FollowsSpeaks
<1>5. LogStep(i, n, n)
  BY <1>1, <1>2, StillIsQuiet, QuietIsStep
<1> QED
  BY <1>4, <1>5 DEF Does

\* A round of heartbeats for each of some requests
LEMMA BcastHeartbeatHums ==
    ASSUME NEW i \in Node, NEW n \in NodeState, NEW ctxs \in SUBSET Nat, n.state = "Leader"
    PROVE  LET o == BcastHeartbeat(i, n, ctxs)
           IN  /\ Hums(i, n, o)
               /\ \A m \in o.outbox \ n.outbox :
                     m.type = "MsgHeartbeat" /\ m.from = i /\ m.term = n.term /\ m.ctx \in ctxs
<1> DEFINE o == BcastHeartbeat(i, n, ctxs)
           commit(j) == Min({n.prog[j].match, n.commit})
           beat(j, c) == [type |-> "MsgHeartbeat", from |-> i, to |-> j, term |-> n.term,
                          commit |-> commit(j), ctx |-> c]
           told(j) == [n.prog[j] EXCEPT !.sentCommit = commit(j)]
<1>1. /\ o.log = n.log /\ o.commit = n.commit /\ o.term = n.term /\ o.state = n.state
      /\ o.self = n.self /\ o.steps = n.steps /\ o.vote = n.vote /\ o.granted = n.granted
      /\ o.outbox = n.outbox \cup {beat(j, c) : j \in Node \ {i}, c \in ctxs}
      /\ o.prog = [j \in Node |-> IF j = i THEN n.prog[j] ELSE told(j)]
  BY DEF BcastHeartbeat, NodeState
<1>2. ASSUME NEW j \in Node
      PROVE  /\ commit(j) =< n.commit /\ commit(j) =< n.prog[j].match
             /\ told(j).match = n.prog[j].match
  <2>1. n.prog[j].match \in Nat /\ n.commit \in Nat /\ n.prog[j] \in Progress
    BY ProgType DEF NodeState
  <2>2. commit(j) =< n.commit /\ commit(j) =< n.prog[j].match
    BY <2>1, MinPair
  <2>3. told(j).match = n.prog[j].match
    <3> HIDE DEF commit
    <3> QED
      BY <2>1 DEF Progress
  <2> QED
    BY <2>2, <2>3
<1> HIDE DEF o, commit, told
<1>3. \A j \in Node : o.prog[j].match = n.prog[j].match
  BY <1>1, <1>2
<1>4. \A m \in o.outbox \ n.outbox :
         /\ m.type = "MsgHeartbeat" /\ m.from = i /\ m.term = n.term /\ m.ctx \in ctxs
         /\ m.commit =< n.commit /\ m.commit =< n.prog[m.to].match
  BY <1>1, <1>2
<1>5. Hums(i, n, o)
  BY <1>1, <1>3, <1>4 DEF Hums, OfReads
<1> QED
  BY <1>4, <1>5 DEF o

\* Messages of reads
LEMMA SendHums ==
    ASSUME NEW i \in Node, NEW n \in NodeState, NEW ms \in SUBSET Message,
           \A m \in ms : m.type \in {"MsgReadIndex", "MsgReadIndexResp"}
    PROVE  /\ Hums(i, n, Send(n, ms)) /\ Send(n, ms) \in NodeState
           /\ Send(n, ms).outbox = n.outbox \cup ms
<1> DEFINE o == Send(n, ms)
<1>1. /\ o.log = n.log /\ o.commit = n.commit /\ o.term = n.term /\ o.state = n.state
      /\ o.self = n.self /\ o.steps = n.steps /\ o.vote = n.vote /\ o.granted = n.granted
      /\ o.outbox = n.outbox \cup ms /\ o.prog = n.prog
  BY DEF Send, NodeState
<1>2. o \in NodeState
  BY SendType
<1> HIDE DEF o
<1>3. Hums(i, n, o)
  BY <1>1 DEF Hums, OfReads
<1> QED
  BY <1>1, <1>2, <1>3 DEF o

-----------------------------------------------------------------------------
(***************************************************************************)
(* The invariant, part by part.                                            *)
(***************************************************************************)

\* A quorum has stored terms past t, so that it stays past it over restarts
Passed(t) == \E Q \in Quorum : \A j \in Q : disk[j].term > t

\* What a leader says is committed is committed as far as it knows
TellsOwn ==
    \A m \in AllMsgs : \A i \in Node :
        /\ m.type \in {"MsgApp", "MsgHeartbeat"}
        /\ node[i].state = "Leader" /\ node[i].term = m.term
        => m.commit =< node[i].commit

\* Entry k of a leader was written before its term
Earlier(n, k) == k \in 1..Len(n.log) /\ n.log[k].term < n.term

\* What was known to be committed was committed before a leader's term, or the leader knows,
\* or a quorum is past its term
KnowsCommits ==
    \A i \in Node :
        node[i].state = "Leader" /\ known > node[i].commit =>
            Earlier(node[i], known) \/ Passed(node[i].term)

\* No node knows, or has stored, of more than has been known
KnownLatest == \A i \in Node : node[i].commit =< known /\ disk[i].commit =< known

\* One of the logs K was committed up to the index that was known, by acknowledgements of A
KnownWas(K, A) ==
    known = 0 \/ \E r \in K : \E x \in Nat :
                    known =< x /\ Own(r, x) /\ IsChosen(A, r.term, x)

\* What was known to be committed is in the history of the logs and the acknowledgements,
\* where it stays when the nodes that knew it forget it in a restart
KnownBacked ==
    \E K \in SUBSET LeaderLog : \E A \in SUBSET StoredAck :
        CommitsFrom(K, A) /\ KnownWas(K, A)

Request == [from : Node \cup {None}, req : Nat]
Waiting == [ctx : Nat, from : Node \cup {None}, req : Nat, index : Nat]
Readings == [count : Nat, queue : Seq(Waiting), acks : [Node -> Nat]]

ReadTypes ==
    /\ reads \in [Node -> Readings]
    /\ parked \in [Node -> Seq(Request)]
    /\ asked \in Seq(Nat)
    /\ known \in Nat

\* Nobody waits for what was not asked for, and the index it was asked at was known
RequestsWereMade ==
    /\ \A i \in Node : \A k \in 1..Len(parked[i]) : parked[i][k].req \in 1..Len(asked)
    /\ \A i \in Node : \A k \in 1..Len(reads[i].queue) :
          reads[i].queue[k].req \in 1..Len(asked)
    /\ \A m \in AllMsgs : m.type = "MsgReadIndex" => m.req \in 1..Len(asked)
    /\ \A r \in 1..Len(asked) : asked[r] =< known

\* The requests q that wait at a node in state n
InOrder(n, q) ==
    /\ n.state # "Leader" => q = NoReads
    /\ Len(q.queue) =< q.count
    /\ \A j \in Node : q.acks[j] =< q.count
    /\ \A k \in 1..Len(q.queue) :
          /\ q.queue[k].ctx = q.count - Len(q.queue) + k
          /\ q.queue[k].index \in 1..n.commit
          /\ TermAt(n.log, q.queue[k].index) = n.term

\* Who asked for the confirmation that a heartbeat or its answer is about
Asker(m) == IF m.type = "MsgHeartbeat" THEN m.from ELSE m.to

\* A confirmation was asked for by a leader of the term, which had stored it, and of a request
\* it has counted
ConfirmationsWereAsked ==
    \A m \in AllMsgs :
        m.type \in {"MsgHeartbeat", "MsgHeartbeatResp"} /\ m.ctx > 0 =>
            LET n == node[Asker(m)] IN
            /\ m.term =< disk[Asker(m)].term
            /\ m.term = n.term =>
                  /\ n.state # "Candidate"
                  /\ n.state = "Leader" => m.ctx =< reads[Asker(m)].count

\* Request r may be answered with index x
MayAnswer(r, x) ==
    /\ r \in 1..Len(asked) /\ x \in Nat
    /\ asked[r] =< x /\ x =< known

AnswersFit ==
    /\ \A a \in answers : MayAnswer(a[1], a[2])
    /\ \A m \in AllMsgs : m.type = "MsgReadIndexResp" => MayAnswer(m.req, m.index)

\* Node i will not be confirmed for its request c any more: the nodes of a quorum have stored
\* terms past its own, and did not confirm that request before
Unconfirmed(i, j, c) ==
    /\ reads[i].acks[j] < c
    /\ \A m \in AllMsgs :
          m.type = "MsgHeartbeatResp" /\ m.from = j /\ m.to = i /\ m.term = node[i].term =>
              m.ctx < c

Overtaken(i, c) ==
    \E Q \in Quorum : \A j \in Q : disk[j].term > node[i].term /\ Unconfirmed(i, j, c)

\* Request e of node i was noted at an index that is current, or is not confirmed any more
InTime(i, e) == asked[e.req] =< e.index \/ Overtaken(i, e.ctx)

NotedInTime == \A i \in Node : \A k \in 1..Len(reads[i].queue) : InTime(i, reads[i].queue[k])

\* The inductive invariant: requests are made, noted, confirmed and answered in order, and
\* what a leader notes is current unless it has been overtaken.
ReadInv ==
    /\ CommitInv /\ TellsOwn /\ KnowsCommits /\ KnownLatest /\ KnownBacked
    /\ ReadTypes /\ RequestsWereMade
    /\ \A i \in Node : InOrder(node[i], reads[i])
    /\ ConfirmationsWereAsked /\ AnswersFit /\ NotedInTime

-----------------------------------------------------------------------------
(***************************************************************************)
(* What the invariant of commits says of leaders.                          *)
(***************************************************************************)

\* Past the term of a leader there is a quorum
LEMMA LedIsPassed ==
    ASSUME ElectionInv, NEW H, Explains(H), NEW K \in SUBSET LeaderLog, LeadersWrote(H, K),
           NEW r \in K, NEW t \in Nat \ {0}, t < r.term
    PROVE  Passed(t)
<1>1. r.log \in H /\ Len(r.log) \in 1..Len(r.log) /\ r.log[Len(r.log)].term = r.term
      /\ r.term \in Nat
  BY DEF LeadersWrote, Own, LeaderLog
<1>2. PICK c \in Node : Wrote(c, r.term)
  BY <1>1 DEF Explains
<1>3. ASSUME NEW j \in Supporters(c, r.term)
      PROVE  disk[j].term > t
  <2>1. j \in Node
    BY DEF Supporters
  <2>2. disk[j].term \in Nat
    BY <2>1, LogTypes
  <2>3. CASE j = c
    BY <1>1, <1>2, <2>2, <2>3 DEF Wrote
  <2>4. CASE j # c
    <3>1. PICK m \in msgs : IsGrant(m) /\ m.from = j /\ m.term = r.term /\ m.to = c
      BY <2>4 DEF Supporters, Granted
    <3>2. Holds(disk[j], r.term, c)
      BY <3>1 DEF ElectionInv, BallotsHold, IsBallot, VoteOf, IsGrant
    <3> QED
      BY <1>1, <2>2, <3>2 DEF Holds
  <2> QED
    BY <2>3, <2>4
<1> QED
  BY <1>2, <1>3 DEF Passed, Wrote

\* What holds of the leaders of a state and of the messages of leaders
LeadersKnow ==
    /\ \A i, j \in Node :
          node[i].state = "Leader" /\ node[j].state = "Leader" /\ node[i].term = node[j].term
              => i = j
    /\ \A i \in Node :
          /\ Sorted(node[i].log) /\ node[i].commit =< Len(node[i].log)
          /\ \A k \in 1..Len(node[i].log) : node[i].log[k].term =< node[i].term
    /\ \A i \in Node : node[i].state = "Leader" =>
          /\ node[i].term > 1
          /\ \A t \in Nat \ {0} : t < node[i].term => Passed(t)
          /\ \A j \in Node :
                Passed(node[i].term) \/ Has(node[i].log, node[j].log, node[j].commit)
    /\ \A m \in AllMsgs :
          m.type = "MsgApp" \/ (m.type = "MsgHeartbeat" /\ m.commit > 0) =>
              \A t \in Nat \ {0} : t < m.term => Passed(t)

LEMMA CommitInvKnow == CommitInv => LeadersKnow
<1> SUFFICES ASSUME CommitInv PROVE LeadersKnow
  OBVIOUS
<1>1. ElectionInv /\ StoredInv
  BY DEF CommitInv
<1>2. PICK H \in SUBSET Seq(Entry), K \in SUBSET LeaderLog, A \in SUBSET StoredAck :
          Explains(H) /\ History(H, K, A) /\ LeadersCount(K, A)
  BY DEF CommitInv
<1>3. LogsWritten(H, K) /\ LeadersWrote(H, K) /\ LeadersHave(K, A) /\ CommitsHold(K, A)
  BY <1>2 DEF History
<1>4. \A i \in Node : /\ node[i].log \in Seq(Entry) /\ node[i].term \in Nat
                      /\ node[i].commit \in Nat /\ node[i].log \in H
  BY <1>1, <1>2, LogTypes DEF NodeState, Explains
<1>5. \A r \in K : r.log \in Seq(Entry) /\ Len(r.log) \in Nat /\ r.term \in Nat
  BY DEF LeaderLog
<1>6. \A r \in K : \A t \in Nat \ {0} : t < r.term => Passed(t)
  BY <1>1, <1>2, <1>3, LedIsPassed
<1>7. \A i, j \in Node :
          node[i].state = "Leader" /\ node[j].state = "Leader" /\ node[i].term = node[j].term
              => i = j
  BY <1>1, SupportIsExclusive DEF ElectionInv, LeadersHadQuorum
<1>8. \A i \in Node :
          /\ Sorted(node[i].log)
          /\ \A k \in 1..Len(node[i].log) : node[i].log[k].term =< node[i].term
  BY <1>3, <1>4 DEF LogsWritten
<1>9. \A j \in Node : node[j].commit = 0 \/ \E r \in K : \E x \in Nat :
          /\ node[j].commit =< x /\ Own(r, x) /\ IsChosen(A, r.term, x)
          /\ Has(node[j].log, r.log, node[j].commit)
  BY <1>3 DEF CommitsHold, Done
<1>10. \A j \in Node : node[j].commit =< Len(node[j].log)
  BY <1>4, <1>9 DEF Has
<1>11. ASSUME NEW i \in Node, node[i].state = "Leader"
       PROVE  \E s \in K : /\ s.term = node[i].term /\ s.log = node[i].log
                           /\ \A r \in K : r.term = node[i].term => Len(r.log) =< Len(s.log)
  BY <1>2, <1>11 DEF LeadersCount, Counts
<1>12. ASSUME NEW i \in Node, node[i].state = "Leader"
       PROVE  node[i].term > 1 /\ \A t \in Nat \ {0} : t < node[i].term => Passed(t)
  BY <1>1, <1>6, <1>11, <1>12 DEF StoredInv
<1>13. ASSUME NEW i \in Node, node[i].state = "Leader", NEW j \in Node
       PROVE  Passed(node[i].term) \/ Has(node[i].log, node[j].log, node[j].commit)
  <2> DEFINE c == node[j].commit
  <2>1. PICK s \in K : /\ s.term = node[i].term /\ s.log = node[i].log
                       /\ \A r \in K : r.term = node[i].term => Len(r.log) =< Len(s.log)
    BY <1>11, <1>13
  <2>2. CASE c = 0
    BY <1>4, <2>2 DEF Has
  <2>3. ASSUME NEW r \in K, NEW x \in Nat, c =< x, Own(r, x), IsChosen(A, r.term, x),
               Has(node[j].log, r.log, c)
        PROVE  Passed(node[i].term) \/ Has(node[i].log, node[j].log, c)
    <3>1. Has(r.log, node[j].log, c) /\ x \in 1..Len(r.log)
      BY <2>3, HasSym DEF Own
    <3>2. ASSUME NEW l \in Nat, Has(s.log, r.log, l), c =< l
          PROVE  Has(node[i].log, node[j].log, c)
      BY <1>4, <1>5, <2>1, <3>1, <3>2, HasVia
    <3>3. CASE r.term < s.term
      <4>1. Has(s.log, r.log, x)
        BY <1>3, <2>3, <3>3, ChosenIsFirm DEF LeadersHave
      <4> QED
        BY <2>3, <3>2, <4>1
    <3>4. CASE r.term = s.term
      <4>1. Has(s.log, r.log, Len(r.log))
        BY <1>3, <2>1, <3>4 DEF LeadersWrote
      <4>2. c =< Len(r.log)
        BY <2>3 DEF Has
      <4> QED
        BY <1>5, <3>2, <4>1, <4>2
    <3>5. CASE r.term > s.term
      <4>1. node[i].term > 1
        BY <1>12, <1>13
      <4> QED
        BY <1>4, <1>5, <1>6, <2>1, <3>5, <4>1
    <3> QED
      BY <1>5, <3>3, <3>4, <3>5
  <2> QED
    BY <1>9, <2>2, <2>3
<1>14. ASSUME NEW m \in AllMsgs,
              m.type = "MsgApp" \/ (m.type = "MsgHeartbeat" /\ m.commit > 0)
       PROVE  \A t \in Nat \ {0} : t < m.term => Passed(t)
  <2>1. \E s \in K : s.term = m.term
    BY <1>3, <1>14 DEF CommitsHold
  <2> QED
    BY <1>6, <2>1
<1> QED
  BY <1>7, <1>8, <1>10, <1>12, <1>13, <1>14 DEF LeadersKnow

LEMMA KnowNext == (CommitInv => LeadersKnow)'
  BY CommitInvKnow, PTL

-----------------------------------------------------------------------------
(***************************************************************************)
(* A step of raft keeps what leaders know.                                 *)
(***************************************************************************)

\* The highest commit index that has been known, after a step of node i
Learning(i) == known' = Max({known, node'[i].commit})

LEMMA LearningIs ==
    ASSUME NEW i \in Node, known \in Nat, node'[i].commit \in Nat, Learning(i)
    PROVE  known' = IF known >= node'[i].commit THEN known ELSE node'[i].commit
  BY MaxPair DEF Learning

\* Before a node leads a term, nobody has written or told anything of it
LEMMA NewLeaderIsFirst ==
    ASSUME CommitInv, ElectionInv', NEW i \in Node, NEW o \in NodeState, Become(i, o),
           Roles(i, node[i], o), o.state = "Leader", node[i].state # "Leader"
    PROVE  /\ \A j \in Node : \A k \in 1..Len(node[j].log) : node[j].log[k].term # o.term
           /\ \A m \in AllMsgs : m.type = "MsgApp" \/ (m.type = "MsgHeartbeat" /\ m.commit > 0)
                 => m.term # o.term
<1>1. ElectionInv /\ StoredInv
  BY DEF CommitInv
<1>2. PICK H \in SUBSET Seq(Entry), K \in SUBSET LeaderLog, A \in SUBSET StoredAck :
          Explains(H) /\ History(H, K, A) /\ LeadersCount(K, A)
  BY DEF CommitInv
<1>3. node[i].state = "Candidate" /\ o.term = node[i].term
  BY DEF Roles
<1>4. \A r \in K : r.term # o.term
  <2> Explains(H) /\ History(H, K, A) /\ ElectionInv /\ StoredInv /\ node[i].state = "Candidate"
    BY <1>1, <1>2, <1>3
  <2>1. /\ disk[i].term = node[i].term
        /\ \A r \in K : r.term # node[i].term
        /\ \A r \in K : \A k \in Nat :
              r.term < node[i].term /\ Firm(disk, A, r, k) => Has(node[i].log, r.log, k)
    BY ElectedLog
  <2> QED
    BY <1>3, <2>1
<1>5. \A j \in Node : \A k \in 1..Len(node[j].log) : \E r \in K : r.term = node[j].log[k].term
  BY <1>2 DEF Explains, History, LogsWritten
<1>6. \A m \in AllMsgs : m.type = "MsgApp" \/ (m.type = "MsgHeartbeat" /\ m.commit > 0)
         => \E r \in K : r.term = m.term
  BY <1>2 DEF History, CommitsHold
<1> QED
  BY <1>4, <1>5, <1>6

\* The commit index of a message is a number
LEMMA ToldCommit ==
    ASSUME ElectionInv, NEW m \in AllMsgs, m.type \in {"MsgApp", "MsgHeartbeat"}
    PROVE  m.commit \in Nat
<1>1. m \in AppMsg \cup HeartbeatMsg
  BY AllMsgsType, MessageFields
<1> QED
  BY <1>1 DEF AppMsg, HeartbeatMsg

LEMMA TellsOwnStep ==
    ASSUME CommitInv, CommitInv', TellsOwn, NEW i \in Node, NEW o \in NodeState,
           Become(i, o), Does(i, node[i], o)
    PROVE  TellsOwn'
<1>1. ElectionInv /\ ElectionInv' /\ LeadersKnow'
  BY KnowNext DEF CommitInv
<1>2. /\ node'[i] = o /\ \A j \in Node \ {i} : node'[j] = node[j]
      /\ \A m \in AllMsgs' : m \in AllMsgs \/ m \in o.outbox \ node[i].outbox
  BY <1>1, BecomeFrame
<1>3. o.commit \in Nat /\ node[i].commit \in Nat /\ o.commit >= node[i].commit
  BY <1>1, LogTypes DEF NodeState, Does, CommitStep
<1> SUFFICES ASSUME NEW m \in AllMsgs', NEW l \in Node, m.type \in {"MsgApp", "MsgHeartbeat"},
                    node'[l].state = "Leader", node'[l].term = m.term
             PROVE  m.commit =< node'[l].commit
  BY DEF TellsOwn
<1>4. CASE m \in o.outbox \ node[i].outbox
  <2>1. o.state = "Leader" /\ m.term = o.term /\ m.commit =< o.commit
    BY <1>4 DEF Does, CommitStep, Says
  <2>2. l = i
    BY <1>1, <1>2, <2>1 DEF LeadersKnow
  <2> QED
    BY <1>2, <2>1, <2>2
<1>5. CASE m \in AllMsgs
  <2>1. m.commit \in Nat
    BY <1>1, <1>5, ToldCommit
  <2>2. CASE l # i
    BY <1>2, <1>5, <2>2 DEF TellsOwn
  <2>3. CASE l = i /\ node[i].state = "Leader"
    <3>1. o.term = node[i].term
      BY <1>2, <2>3 DEF Does, Roles
    <3>2. m.commit =< node[i].commit
      BY <1>2, <1>5, <2>3, <3>1 DEF TellsOwn
    <3> QED
      BY <1>2, <1>3, <2>1, <2>3, <3>2
  <2>4. CASE l = i /\ node[i].state # "Leader"
    <3>1. ~(m.type = "MsgApp" \/ (m.type = "MsgHeartbeat" /\ m.commit > 0))
      BY <1>1, <1>2, <1>5, <2>4, NewLeaderIsFirst DEF Does
    <3> QED
      BY <1>2, <1>3, <2>1, <2>4, <3>1
  <2> QED
    BY <2>2, <2>3, <2>4
<1> QED
  BY <1>2, <1>4, <1>5

\* A leader that stays one keeps the entries it has
LEMMA EarlierKept ==
    ASSUME NEW i \in Node, NEW n \in NodeState, NEW o \in NodeState, LogStep(i, n, o),
           o.state = "Leader", o.term = n.term, NEW c \in Nat, Earlier(n, c)
    PROVE  Earlier(o, c)
<1>1. n.log \in Seq(Entry)
  BY DEF NodeState
<1>2. CASE o.log = n.log
  BY <1>2 DEF Earlier
<1>3. CASE \E e \in Entry : o.log = Append(n.log, e)
  <2>1. Len(o.log) = Len(n.log) + 1 /\ \A k \in 1..Len(n.log) : o.log[k] = n.log[k]
    BY <1>1, <1>3, HasAppend
  <2>2. c \in 1..Len(n.log) /\ n.log[c].term < n.term /\ Len(n.log) \in Nat
    BY <1>1 DEF Earlier
  <2> QED
    BY <2>1, <2>2 DEF Earlier
<1> QED
  BY <1>2, <1>3 DEF LogStep

\* More acknowledgements choose what fewer chose
LEMMA ChosenByMore ==
    ASSUME NEW A, NEW B, A \subseteq B, NEW t, NEW k, IsChosen(A, t, k)
    PROVE  IsChosen(B, t, k)
  BY DEF IsChosen, Acked

\* A node that wins an election has what was known to be committed, or is overtaken already
LEMMA WinnerKnows ==
    ASSUME CommitInv, ElectionInv', known \in Nat \ {0}, KnownBacked, NEW i \in Node,
           NEW o \in NodeState, Become(i, o), Roles(i, node[i], o), o.state = "Leader",
           node[i].state # "Leader"
    PROVE  Earlier(node[i], known) \/ Passed(node[i].term)
<1> DEFINE n == node[i]
           c == known
<1>1. /\ LeadersKnow /\ ElectionInv /\ StoredInv
      /\ n.state = "Candidate" /\ o.term = n.term
  BY CommitInvKnow DEF CommitInv, Roles
<1>2. n.log \in Seq(Entry) /\ n.term \in Nat /\ n.term > 1 /\ Sorted(n.log)
  BY <1>1, LogTypes DEF StoredInv, LeadersKnow
<1>3. PICK K0 \in SUBSET LeaderLog, A0 \in SUBSET StoredAck :
          CommitsFrom(K0, A0) /\ KnownWas(K0, A0)
  BY DEF KnownBacked
<1>4. PICK H \in SUBSET Seq(Entry), K \in SUBSET LeaderLog, A \in SUBSET StoredAck :
          /\ K0 \subseteq K /\ A0 \subseteq A
          /\ Explains(H) /\ History(H, K, A) /\ LeadersCount(K, A)
  BY <1>3 DEF CommitsFrom
<1>5. PICK r \in K0, x \in Nat : c =< x /\ Own(r, x) /\ IsChosen(A0, r.term, x)
  BY <1>3 DEF KnownWas
<1>6. r \in K /\ Firm(disk, A, r, x)
  BY <1>4, <1>5, ChosenByMore, ChosenIsFirm
<1>7. r.log \in Seq(Entry) /\ r.term \in Nat /\ r.log[x].term = r.term
  BY <1>5, <1>6 DEF LeaderLog, Own
<1>8. /\ disk[i].term = node[i].term
      /\ \A s \in K : s.term # node[i].term
      /\ \A s \in K : \A k \in Nat :
            s.term < node[i].term /\ Firm(disk, A, s, k) => Has(node[i].log, s.log, k)
  BY <1>1, <1>4, ElectedLog
<1>9. CASE r.term > n.term
  <2>1. LeadersWrote(H, K)
    BY <1>4 DEF History
  <2> QED
    BY <1>1, <1>2, <1>4, <1>6, <1>9, <2>1, LedIsPassed
<1>10. CASE r.term < n.term
  <2>1. Has(n.log, r.log, x)
    BY <1>6, <1>8, <1>10
  <2>2. x \in 1..Len(n.log) /\ c \in 1..Len(n.log) /\ Len(n.log) \in Nat
    BY <1>2, <1>5, <2>1 DEF Has
  <2>3. n.log[x].term = r.term
    <3>1. x \in 1..x
      BY <2>2
    <3> QED
      BY <1>7, <2>1, <3>1 DEF Has
  <2>4. n.log[c].term =< n.log[x].term
    <3>1. c = x \/ c < x
      BY <1>5
    <3>2. n.log[x].term \in Nat
      BY <1>7, <2>3
    <3>3. CASE c = x
      BY <3>2, <3>3
    <3>4. CASE c < x
      BY <1>2, <2>2, <3>4 DEF Sorted
    <3> QED
      BY <3>1, <3>3, <3>4
  <2>5. n.log[c].term \in Nat
    BY <1>2, <2>2, EntryTerm
  <2>6. n.log[c].term < n.term
    <3> DEFINE a == n.log[c].term
               b == n.log[x].term
    <3>1. a \in Nat /\ b \in Nat /\ n.term \in Nat /\ a =< b /\ b < n.term
      BY <1>2, <1>7, <1>10, <2>3, <2>4, <2>5
    <3> HIDE DEF a, b
    <3>2. a < n.term
      BY <3>1
    <3> QED
      BY <3>2 DEF a
  <2> QED
    BY <2>2, <2>6 DEF Earlier
<1> QED
  BY <1>2, <1>6, <1>7, <1>8, <1>9, <1>10

LEMMA KnowsCommitsStep ==
    ASSUME CommitInv, CommitInv', TellsOwn, KnowsCommits, KnownLatest, KnownBacked,
           known \in Nat, NEW i \in Node, NEW o \in NodeState, Become(i, o),
           Does(i, node[i], o), Learning(i)
    PROVE  KnowsCommits'
<1> DEFINE n == node[i]
<1>1. ElectionInv /\ ElectionInv' /\ LeadersKnow /\ LeadersKnow'
  BY CommitInvKnow, KnowNext DEF CommitInv
<1>2. /\ msgs' = msgs /\ disk' = disk
      /\ node'[i] = o /\ \A j \in Node \ {i} : node'[j] = node[j]
  BY <1>1, BecomeFrame
<1>3. /\ n \in NodeState /\ o.term \in Nat /\ n.term \in Nat /\ o.commit \in Nat
      /\ n.commit \in Nat /\ o.commit >= n.commit /\ o.term >= n.term
  BY <1>1, LogTypes DEF NodeState, Does, CommitStep, Roles
<1>4. \A j \in Node : /\ node'[j] \in NodeState /\ node'[j].commit \in Nat
                      /\ node'[j].log \in Seq(Entry) /\ node'[j].term \in Nat
                      /\ node[j].commit \in Nat /\ node[j].log \in Seq(Entry)
  BY <1>1, <1>2, LogTypes DEF NodeState
<1>5. known' = IF known >= o.commit THEN known ELSE o.commit
  BY <1>2, <1>3, LearningIs
<1> SUFFICES ASSUME NEW l \in Node, NEW c \in Nat, NEW t \in Nat,
                    node'[l].state = "Leader", t = node'[l].term,
                    c = known', c > node'[l].commit
             PROVE  Earlier(node'[l], c) \/ Passed(t)'
  BY <1>3, <1>4, <1>5 DEF KnowsCommits
<1>6. t > 1 /\ c >= 1 /\ node'[l].commit \in Nat
  BY <1>1, <1>4 DEF LeadersKnow
<1>7. Passed(t) => Passed(t)'
  BY <1>2 DEF Passed
<1> HIDE DEF n
<1>8. CASE c = known /\ l # i
  <2>1. node'[l] = node[l]
    BY <1>2, <1>8
  <2>2. Earlier(node[l], c) \/ Passed(t)
    BY <1>8, <2>1 DEF KnowsCommits
  <2> QED
    BY <1>7, <2>1, <2>2
<1>9. CASE c = known /\ l = i
  <2>1. node'[l] = o /\ t = o.term /\ o.state = "Leader"
    BY <1>2, <1>9
  <2>2. o.term = n.term
    BY <2>1 DEF Does, Roles, n
  <2>3. Earlier(n, c) \/ Passed(t)
    <3>1. CASE n.state = "Leader"
      <4>1. known > n.commit
        BY <1>3, <1>6, <1>9, <2>1
      <4> QED
        BY <1>9, <2>1, <2>2, <3>1, <4>1 DEF KnowsCommits, n
    <3>2. CASE n.state # "Leader"
      <4>1. known \in Nat \ {0} /\ Roles(i, node[i], o)
        BY <1>6, <1>9 DEF Does
      <4>2. Earlier(node[i], known) \/ Passed(node[i].term)
        BY <1>1, <2>1, <3>2, <4>1, WinnerKnows DEF n
      <4> QED
        BY <1>9, <2>1, <2>2, <4>2 DEF n
    <3> QED
      BY <3>1, <3>2
  <2>4. LogStep(i, n, o)
    BY DEF Does, n
  <2>5. Earlier(n, c) => Earlier(o, c)
    BY <1>3, <1>6, <2>1, <2>2, <2>4, EarlierKept
  <2> QED
    BY <1>7, <2>1, <2>3, <2>5
<1>10. CASE c # known
  <2> SUFFICES ASSUME ~(Earlier(node'[l], c)), ~Passed(t)'
               PROVE  FALSE
    OBVIOUS
  <2>1. c = o.commit /\ o.commit > known
    BY <1>3, <1>5, <1>10
  <2>2. l # i /\ o.commit # n.commit
    <3>1. l # i
      BY <1>2, <1>3, <2>1
    <3>2. n.commit =< known
      BY DEF KnownLatest, n
    <3> QED
      BY <1>3, <2>1, <3>1, <3>2
  <2>3. /\ node'[l] = node[l] /\ t = node[l].term /\ node[l].state = "Leader"
        /\ node[l].commit < o.commit
    BY <1>2, <1>4, <2>1, <2>2
  <2>4. c \in 1..Len(o.log) /\ o.log[c].term = t
    <3>1. Has(node'[l].log, o.log, c)
      BY <1>1, <1>2, <2>1 DEF LeadersKnow
    <3>2. /\ c \in 1..Len(node'[l].log) /\ c \in 1..Len(o.log)
          /\ node'[l].log[c] = o.log[c]
      <4>1. c \in 1..c /\ Len(node'[l].log) \in Nat /\ Len(o.log) \in Nat
        BY <1>2, <1>4, <1>6
      <4> QED
        BY <3>1, <4>1 DEF Has
    <3>3. node'[l].log[c].term =< t /\ node'[l].log[c].term \in Nat
      BY <1>1, <1>4, <3>2, EntryTerm DEF LeadersKnow
    <3>4. ~(node'[l].log[c].term < t)
      BY <3>2 DEF Earlier
    <3> QED
      BY <1>6, <3>2, <3>3, <3>4
  <2>5. o.term >= t
    BY <1>1, <1>2, <2>4 DEF LeadersKnow
  <2>6. CASE CommitsOwn(o)
    <3>1. o.state = "Leader"
      BY <2>6 DEF CommitsOwn
    <3>2. o.term # t
      BY <1>1, <1>2, <2>2, <2>3, <3>1 DEF LeadersKnow
    <3>3. t \in Nat \ {0} /\ t < o.term
      BY <1>3, <1>6, <2>5, <3>2
    <3>4. Passed(t)'
      BY <1>1, <1>2, <3>1, <3>3 DEF LeadersKnow
    <3> QED
      BY <3>4
  <2>7. ASSUME NEW m \in msgs, m.term = o.term, o.commit =< m.commit,
               m.type = "MsgApp" \/ (m.type = "MsgHeartbeat" /\ m.commit > 0)
        PROVE  FALSE
    <3>1. m \in AllMsgs
      BY DEF AllMsgs
    <3>2. m.commit \in Nat
      BY <1>1, <2>7, <3>1, ToldCommit
    <3>3. CASE o.term = t
      <4>1. m.commit =< node[l].commit
        BY <2>3, <2>7, <3>1, <3>3 DEF TellsOwn
      <4> QED
        BY <1>3, <1>4, <2>3, <2>7, <3>2, <4>1
    <3>4. CASE o.term > t
      <4>1. t \in Nat \ {0} /\ t < m.term
        BY <1>3, <1>6, <2>7, <3>4
      <4>2. Passed(t)
        BY <1>1, <2>7, <3>1, <4>1 DEF LeadersKnow
      <4> QED
        BY <1>7, <4>2
    <3> QED
      BY <1>3, <1>6, <2>5, <3>3, <3>4
  <2>8. CASE Takes(i, n, o)
    BY <2>2, <2>7, <2>8 DEF Takes
  <2>9. CASE Beats(i, n, o)
    <3>1. PICK m \in msgs : /\ m.type = "MsgHeartbeat" /\ m.term = o.term
                            /\ o.commit = m.commit /\ m.commit > 0
      BY <2>9 DEF Beats
    <3> QED
      BY <1>3, <2>7, <3>1
  <2>10. CASE Speaks(i, n, o)
    BY <2>2, <2>6, <2>10 DEF Speaks
  <2>11. CASE Appends(i, n, o)
    BY <2>2, <2>11 DEF Appends
  <2> QED
    BY <2>8, <2>9, <2>10, <2>11 DEF Does, CommitStep, n
<1> QED
  BY <1>8, <1>9, <1>10

LEMMA BackedCommits == KnownBacked => CommitInv
  BY CommitsFromAny DEF KnownBacked

\* What no node knew was committed by the step that made it known, which is in the history
\* from then on
LEMMA KnownStep ==
    ASSUME KnownLatest, KnownBacked, known \in Nat, ElectionInv', NEW i \in Node,
           NEW o \in NodeState, Become(i, o), Does(i, node[i], o), Learning(i)
    PROVE  KnownLatest' /\ KnownBacked'
<1>1. PICK K \in SUBSET LeaderLog, A \in SUBSET StoredAck :
          CommitsFrom(K, A) /\ KnownWas(K, A)
  BY DEF KnownBacked
<1>2. CommitsFrom(K, A)'
  BY <1>1, CommitMove DEF Does
<1>3. ElectionInv
  BY <1>1 DEF CommitsFrom
<1>4. /\ node'[i] = o /\ \A j \in Node \ {i} : node'[j] = node[j]
      /\ o.commit \in Nat /\ \A j \in Node : node[j].commit \in Nat /\ disk[j].commit \in Nat
      /\ disk' = disk
  BY <1>3, BecomeFrame DEF NodeState, DiskState, ElectionInv, TypeOK
<1>5. known' = IF known >= o.commit THEN known ELSE o.commit
  BY <1>4, LearningIs
<1>6. KnownLatest'
  BY <1>4, <1>5 DEF KnownLatest
<1>7. CASE known' = known
  <2>1. KnownWas(K, A)'
    BY <1>1, <1>7 DEF KnownWas
  <2> QED
    BY <1>2, <1>6, <2>1 DEF KnownBacked
<1>8. CASE known' = o.commit
  <2>1. PICK H1 \in SUBSET Seq(Entry), K1 \in SUBSET LeaderLog, A1 \in SUBSET StoredAck :
            (Explains(H1) /\ History(H1, K1, A1) /\ LeadersCount(K1, A1))'
    BY <1>2 DEF CommitsFrom
  <2>2. CommitsFrom(K1, A1)'
    BY <1>2, <2>1 DEF CommitsFrom
  <2>3. Done(K1, A1, o.term, o.log, o.commit)
    BY <1>4, <2>1 DEF History, CommitsHold
  <2>4. KnownWas(K1, A1)'
    BY <1>8, <2>3 DEF Done, KnownWas
  <2> QED
    BY <1>6, <2>2, <2>4 DEF KnownBacked
<1> QED
  BY <1>5, <1>7, <1>8

-----------------------------------------------------------------------------
(***************************************************************************)
(* What the operations of readOnly do.                                     *)
(***************************************************************************)

\* A peer acknowledges a request and those before it
LEMMA RecvAckFacts ==
    ASSUME NEW q \in Readings, NEW j \in Node, NEW ctx \in Nat
    PROVE  LET p == RecvAck(q, j, ctx)
           IN  /\ p \in Readings /\ p.count = q.count /\ p.queue = q.queue
               /\ \A k \in Node \ {j} : p.acks[k] = q.acks[k]
               /\ p.acks[j] = IF q.acks[j] >= ctx THEN q.acks[j] ELSE ctx
<1> DEFINE mx == Max({q.acks[j], ctx})
<1>1. q.acks \in [Node -> Nat] /\ q.acks[j] \in Nat
  BY DEF Readings
<1>2. mx \in Nat /\ mx = IF q.acks[j] >= ctx THEN q.acks[j] ELSE ctx
  BY <1>1, MaxPair
<1>3. RecvAck(q, j, ctx) = [q EXCEPT !.acks[j] = mx]
  BY DEF RecvAck
<1> DEFINE a == [q.acks EXCEPT ![j] = mx]
           p == [q EXCEPT !.acks = a]
<1>4. RecvAck(q, j, ctx) = p
  BY <1>3
<1> HIDE DEF mx
<1>5. a \in [Node -> Nat] /\ a[j] = mx /\ \A k \in Node \ {j} : a[k] = q.acks[k]
  BY <1>1, <1>2
<1> HIDE DEF a
<1>6. p \in Readings /\ p.count = q.count /\ p.queue = q.queue /\ p.acks = a
  BY <1>5 DEF Readings
<1> HIDE DEF p
<1> QED
  BY <1>2, <1>4, <1>5, <1>6

\* A quorum has confirmed the requests up to there
LEMMA ConfirmedIs ==
    ASSUME NEW q \in Readings
    PROVE  Confirmed(q) \in Nat /\ {j \in Node : q.acks[j] >= Confirmed(q)} \in Quorum
<1> DEFINE S == {k \in 0..q.count : {j \in Node : q.acks[j] >= k} \in Quorum}
<1>1. q.count \in Nat /\ \A j \in Node : q.acks[j] \in Nat
  BY DEF Readings
<1>2. {j \in Node : q.acks[j] >= 0} = Node
  BY <1>1
<1>3. 0 \in S
  <2>1. Node \in Quorum
    BY NodeAssumption, AllAreQuorum
  <2> QED
    BY <1>1, <1>2, <2>1
<1>4. Max(S) \in S
  <2>1. S \in SUBSET (0..q.count) /\ S # {}
    BY <1>3
  <2> HIDE DEF S
  <2> QED
    BY <1>1, <2>1, MaxIn
<1>5. Confirmed(q) = Max(S)
  BY DEF Confirmed
<1>6. \A k \in S : k \in Nat /\ {j \in Node : q.acks[j] >= k} \in Quorum
  BY <1>1
<1> HIDE DEF S
<1> QED
  BY <1>4, <1>5, <1>6

\* The requests that are resolved leave the head of the queue
LEMMA ForgetFacts ==
    ASSUME NEW q \in Readings
    PROVE  LET p == Forget(q)
           IN  /\ p \in Readings /\ p.count = q.count /\ p.acks = q.acks
               /\ \E d \in 0..Len(q.queue) :
                     /\ Len(p.queue) = Len(q.queue) - d
                     /\ \A k \in 1..Len(p.queue) : p.queue[k] = q.queue[d + k]
<1> DEFINE S == {0} \cup Resolvable(q)
           d == Max(S)
           s == SubSeq(q.queue, d + 1, Len(q.queue))
<1>1. q.queue \in Seq(Waiting) /\ Len(q.queue) \in Nat
  BY DEF Readings
<1>2. d \in 0..Len(q.queue)
  <2>1. S \in SUBSET (0..Len(q.queue)) /\ S # {}
    BY <1>1 DEF Resolvable
  <2> HIDE DEF S
  <2> QED
    BY <1>1, <2>1, MaxIn
<1>3. Forget(q) = [q EXCEPT !.queue = s]
  BY DEF Forget
<1> HIDE DEF d
<1>4. s \in Seq(Waiting)
  BY <1>1, <1>2, SubSeqType
<1>5. Len(s) = Len(q.queue) - d /\ \A k \in 1..Len(s) : s[k] = q.queue[d + k]
  BY <1>1, <1>2
<1> HIDE DEF s
<1>6. /\ Forget(q) \in Readings /\ Forget(q).count = q.count /\ Forget(q).acks = q.acks
      /\ Forget(q).queue = s
  BY <1>3, <1>4 DEF Readings
<1> QED
  BY <1>2, <1>5, <1>6

\* Requests join the queue, in order
LEMMA NotedFacts ==
    ASSUME NEW i \in Node, NEW n \in NodeState, NEW q \in Readings, NEW rs \in Seq(Request)
    PROVE  LET p == Noted(i, n, q, rs)
           IN  /\ p \in Readings /\ p.count = q.count + Len(rs)
               /\ p.acks[i] = p.count /\ \A j \in Node \ {i} : p.acks[j] = q.acks[j]
               /\ Len(p.queue) = Len(q.queue) + Len(rs)
               /\ \A k \in 1..Len(q.queue) : p.queue[k] = q.queue[k]
               /\ \A k \in 1..Len(rs) :
                     /\ p.queue[Len(q.queue) + k].ctx = q.count + k
                     /\ p.queue[Len(q.queue) + k].req = rs[k].req
                     /\ p.queue[Len(q.queue) + k].index = n.commit
<1> DEFINE c == q.count + Len(rs)
           w(k) == [ctx |-> q.count + k, from |-> rs[k].from, req |-> rs[k].req,
                    index |-> n.commit]
           ws == [k \in 1..Len(rs) |-> w(k)]
<1>1. /\ q.queue \in Seq(Waiting) /\ Len(q.queue) \in Nat /\ Len(rs) \in Nat
      /\ q.count \in Nat /\ q.acks \in [Node -> Nat] /\ n.commit \in Nat
  BY DEF Readings, NodeState
<1>2. Noted(i, n, q, rs) = [count |-> c, acks |-> [q.acks EXCEPT ![i] = c],
                            queue |-> q.queue \o ws]
  BY DEF Noted
<1>3. ASSUME NEW k \in 1..Len(rs)
      PROVE  w(k) \in Waiting
  <2>1. rs[k] \in Request
    BY ElementOfSeq
  <2>2. rs[k].from \in Node \cup {None} /\ rs[k].req \in Nat
    BY <2>1 DEF Request
  <2>3. q.count + k \in Nat
    BY <1>1
  <2> QED
    BY <1>1, <2>2, <2>3 DEF Waiting
<1>4. /\ \A k \in 1..Len(rs) : ws[k] = w(k) /\ ws[k] \in Waiting
      /\ ws \in Seq(Waiting) /\ Len(ws) = Len(rs)
  <2>1. \A k \in 1..Len(rs) : ws[k] = w(k)
    OBVIOUS
  <2> HIDE DEF w
  <2>2. ws \in Seq(Waiting) /\ Len(ws) = Len(rs)
    BY <1>1, <1>3
  <2> QED
    BY <1>3, <2>1, <2>2
<1>5. \A k \in 1..Len(rs) : /\ w(k).ctx = q.count + k /\ w(k).req = rs[k].req
                            /\ w(k).index = n.commit
  OBVIOUS
<1> HIDE DEF ws, w
<1>6. /\ q.queue \o ws \in Seq(Waiting) /\ Len(q.queue \o ws) = Len(q.queue) + Len(rs)
      /\ \A k \in 1..Len(q.queue) : (q.queue \o ws)[k] = q.queue[k]
      /\ \A k \in 1..Len(rs) : (q.queue \o ws)[Len(q.queue) + k] = ws[k]
  <2>1. q.queue \o ws \in Seq(Waiting) /\ Len(q.queue \o ws) = Len(q.queue) + Len(ws)
        /\ \A k \in 1..Len(q.queue) + Len(ws) :
              (q.queue \o ws)[k] = IF k =< Len(q.queue) THEN q.queue[k]
                                   ELSE ws[k - Len(q.queue)]
    BY <1>1, <1>4, ConcatProperties
  <2>2. \A k \in 1..Len(rs) : /\ Len(q.queue) + k \in 1..Len(q.queue) + Len(ws)
                              /\ ~(Len(q.queue) + k =< Len(q.queue))
                              /\ (Len(q.queue) + k) - Len(q.queue) = k
    BY <1>1, <1>4
  <2> QED
    BY <1>1, <1>4, <2>1, <2>2
<1>7. c \in Nat /\ [q.acks EXCEPT ![i] = c] \in [Node -> Nat]
      /\ [q.acks EXCEPT ![i] = c][i] = c
      /\ \A j \in Node \ {i} : [q.acks EXCEPT ![i] = c][j] = q.acks[j]
  BY <1>1
<1> DEFINE p == Noted(i, n, q, rs)
<1>8. /\ p \in Readings /\ p.count = c /\ p.acks = [q.acks EXCEPT ![i] = c]
      /\ p.queue = q.queue \o ws
  BY <1>2, <1>6, <1>7 DEF Readings
<1>9. \A k \in 1..Len(rs) : p.queue[Len(q.queue) + k] = w(k)
  BY <1>4, <1>6, <1>8
<1> HIDE DEF p, c
<1>10. p.acks[i] = p.count /\ \A j \in Node \ {i} : p.acks[j] = q.acks[j]
  BY <1>7, <1>8
<1>11. /\ Len(p.queue) = Len(q.queue) + Len(rs)
       /\ \A k \in 1..Len(q.queue) : p.queue[k] = q.queue[k]
  BY <1>6, <1>8
<1> QED
  BY <1>5, <1>8, <1>9, <1>10, <1>11 DEF p, c

-----------------------------------------------------------------------------
(***************************************************************************)
(* What a step does with the requests.                                     *)
(***************************************************************************)

\* How the requests of node i may change to q when its state becomes o: they are forgotten
\* with the leadership; otherwise they stay, or more are noted, or some are confirmed
Turns(i, o, q) ==
    IF StaysLeader(i, o)
    THEN \/ q = reads[i]
         \/ \E rs \in Seq(Request) :
               /\ \A k \in 1..Len(rs) : rs[k].req \in 1..Len(asked')
               /\ CommittedEntryInCurrentTerm(o) /\ q = Noted(i, o, reads[i], rs)
         \/ \E m \in msgs :
               /\ m.type = "MsgHeartbeatResp" /\ m.to = i /\ m.term = o.term /\ m.ctx > 0
               /\ q = Forget(RecvAck(reads[i], m.from, m.ctx))
    ELSE q = NoReads

\* What node i adds of reads to its messages
Utters(i, o, q) ==
    \A m \in o.outbox \ node[i].outbox :
        /\ m.type = "MsgHeartbeat" =>
              m.from = i /\ o.state = "Leader" /\ m.term = o.term /\ m.ctx =< q.count
        /\ m.type = "MsgHeartbeatResp" =>
              /\ m.from = i /\ m.term = o.term
              /\ \E h \in msgs : /\ h.type = "MsgHeartbeat" /\ h.from = m.to
                                 /\ h.term = m.term /\ h.ctx = m.ctx
        /\ m.type = "MsgReadIndex" => m.req \in 1..Len(asked')
        /\ m.type = "MsgReadIndexResp" => MayAnswer(m.req, m.index)

\* Perhaps a read is asked for
Asking == asked' = asked \/ asked' = Append(asked, known)

\* A step of node i, of raft and of reads
ReadMove(i, o, q) ==
    /\ Become(i, o) /\ Does(i, node[i], o) /\ Turns(i, o, q) /\ Utters(i, o, q)
    /\ reads' = [reads EXCEPT ![i] = q]
    /\ Asking /\ Learning(i)
    /\ parked' \in [Node -> Seq(Request)]
    /\ \A j \in Node : \A k \in 1..Len(parked'[j]) : parked'[j][k].req \in 1..Len(asked')
    /\ \A a \in answers' : MayAnswer(a[1], a[2])

\* What was asked for stays
LEMMA AskedKept ==
    ASSUME asked \in Seq(Nat), known \in Nat, Asking
    PROVE  /\ asked' \in Seq(Nat) /\ Len(asked) \in Nat /\ Len(asked') \in Nat
           /\ Len(asked') >= Len(asked)
           /\ \A r \in 1..Len(asked) : r \in 1..Len(asked') /\ asked'[r] = asked[r]
           /\ \A r \in 1..Len(asked') : r \in 1..Len(asked) \/ asked'[r] = known
<1>1. CASE asked' = asked
  BY <1>1
<1>2. CASE asked' = Append(asked, known)
  <2>1. /\ Append(asked, known) \in Seq(Nat) /\ Len(Append(asked, known)) = Len(asked) + 1
        /\ Append(asked, known)[Len(asked) + 1] = known
        /\ \A r \in 1..Len(asked) : Append(asked, known)[r] = asked[r]
    OBVIOUS
  <2>2. Len(asked) \in Nat
    OBVIOUS
  <2>3. \A r \in 1..Len(asked') : r \in 1..Len(asked) \/ r = Len(asked) + 1
    BY <1>2, <2>1, <2>2
  <2> QED
    BY <1>2, <2>1, <2>2, <2>3
<1> QED
  BY <1>1, <1>2 DEF Asking

\* What holds of the requests of a leader that stays one, whichever way they turn
LEMMA TurnFacts ==
    ASSUME ReadTypes, ElectionInv, NEW i \in Node, NEW o \in NodeState, NEW q,
           Turns(i, o, q)
    PROVE  /\ q \in Readings
           /\ StaysLeader(i, o) => q.count >= reads[i].count
           /\ ~StaysLeader(i, o) => q = NoReads /\ q.queue = <<>> /\ q.count = 0
<1>1. reads[i] \in Readings /\ reads[i].count \in Nat
  BY DEF ReadTypes, Readings
<1>2. CASE ~StaysLeader(i, o)
  <2>1. q = NoReads
    BY <1>2 DEF Turns
  <2>2. NoReads \in Readings /\ NoReads.queue = <<>> /\ NoReads.count = 0
    BY DEF NoReads, Readings
  <2> QED
    BY <1>2, <2>1, <2>2
<1>3. CASE StaysLeader(i, o) /\ q = reads[i]
  BY <1>1, <1>3
<1>4. ASSUME StaysLeader(i, o), NEW rs \in Seq(Request), q = Noted(i, o, reads[i], rs)
      PROVE  q \in Readings /\ q.count >= reads[i].count
  <2>1. q \in Readings /\ q.count = reads[i].count + Len(rs) /\ Len(rs) \in Nat
    BY <1>1, <1>4, NotedFacts
  <2> QED
    BY <1>1, <2>1
<1>5. ASSUME StaysLeader(i, o), NEW m \in msgs, m.type = "MsgHeartbeatResp", m.ctx > 0,
             q = Forget(RecvAck(reads[i], m.from, m.ctx))
      PROVE  q \in Readings /\ q.count = reads[i].count
  <2>1. m \in HeartbeatRespMsg
    BY <1>5, MessageFields DEF ElectionInv, TypeOK
  <2>2. m.from \in Node /\ m.ctx \in Nat
    BY <2>1 DEF HeartbeatRespMsg
  <2>3. /\ RecvAck(reads[i], m.from, m.ctx) \in Readings
        /\ RecvAck(reads[i], m.from, m.ctx).count = reads[i].count
    BY <1>1, <2>2, RecvAckFacts
  <2> QED
    BY <1>5, <2>3, ForgetFacts
<1> QED
  BY <1>1, <1>2, <1>3, <1>4, <1>5 DEF Turns

\* From p to q, node j has acknowledged request ctx, and what that confirms is forgotten
Confirms(p, j, ctx, q) ==
    /\ q.count = p.count
    /\ \A k \in Node \ {j} : q.acks[k] = p.acks[k]
    /\ q.acks[j] = IF p.acks[j] >= ctx THEN p.acks[j] ELSE ctx
    /\ \E d \in 0..Len(p.queue) :
          /\ Len(q.queue) = Len(p.queue) - d
          /\ \A l \in 1..Len(q.queue) : q.queue[l] = p.queue[d + l]

\* From p to q, node i in state n has noted the requests rs
Notes(p, i, n, rs, q) ==
    /\ q.count = p.count + Len(rs) /\ q.acks[i] = q.count
    /\ \A j \in Node \ {i} : q.acks[j] = p.acks[j]
    /\ Len(q.queue) = Len(p.queue) + Len(rs)
    /\ \A k \in 1..Len(p.queue) : q.queue[k] = p.queue[k]
    /\ \A k \in 1..Len(rs) :
          /\ q.queue[Len(p.queue) + k].ctx = p.count + k
          /\ q.queue[Len(p.queue) + k].req = rs[k].req
          /\ q.queue[Len(p.queue) + k].index = n.commit

LEMMA NotedNotes ==
    ASSUME NEW i \in Node, NEW n \in NodeState, NEW q \in Readings, NEW rs \in Seq(Request)
    PROVE  Noted(i, n, q, rs) \in Readings /\ Notes(q, i, n, rs, Noted(i, n, q, rs))
<1> DEFINE p == Noted(i, n, q, rs)
<1>1. /\ p \in Readings /\ p.count = q.count + Len(rs)
      /\ p.acks[i] = p.count /\ \A j \in Node \ {i} : p.acks[j] = q.acks[j]
      /\ Len(p.queue) = Len(q.queue) + Len(rs)
      /\ \A k \in 1..Len(q.queue) : p.queue[k] = q.queue[k]
      /\ \A k \in 1..Len(rs) :
            /\ p.queue[Len(q.queue) + k].ctx = q.count + k
            /\ p.queue[Len(q.queue) + k].req = rs[k].req
            /\ p.queue[Len(q.queue) + k].index = n.commit
  BY NotedFacts
<1> HIDE DEF p
<1>2. p \in Readings /\ Notes(q, i, n, rs, p)
  BY <1>1 DEF Notes
<1> QED
  BY <1>2 DEF p

\* An answer is noted, and what it confirms is forgotten
LEMMA ConfirmFacts ==
    ASSUME ReadTypes, ElectionInv, NEW i \in Node, NEW m \in msgs,
           m.type = "MsgHeartbeatResp", NEW q,
           q = Forget(RecvAck(reads[i], m.from, m.ctx))
    PROVE  /\ m.from \in Node /\ m.to \in Node /\ m.ctx \in Nat
           /\ Confirms(reads[i], m.from, m.ctx, q)
<1>1. m \in HeartbeatRespMsg
  BY MessageFields DEF ElectionInv, TypeOK
<1>2. m.from \in Node /\ m.to \in Node /\ m.ctx \in Nat
  BY <1>1 DEF HeartbeatRespMsg
<1>3. reads[i] \in Readings
  BY DEF ReadTypes
<1> DEFINE p == RecvAck(reads[i], m.from, m.ctx)
<1>4. /\ p \in Readings /\ p.queue = reads[i].queue /\ p.count = reads[i].count
      /\ \A k \in Node \ {m.from} : p.acks[k] = reads[i].acks[k]
      /\ p.acks[m.from] =
            IF reads[i].acks[m.from] >= m.ctx THEN reads[i].acks[m.from] ELSE m.ctx
  BY <1>2, <1>3, RecvAckFacts
<1> HIDE DEF p
<1>5. q = Forget(p)
  BY DEF p
<1>6. /\ q.count = p.count /\ q.acks = p.acks
      /\ \E d \in 0..Len(p.queue) :
            /\ Len(q.queue) = Len(p.queue) - d
            /\ \A l \in 1..Len(q.queue) : q.queue[l] = p.queue[d + l]
  <2>1. /\ Forget(p).count = p.count /\ Forget(p).acks = p.acks
        /\ \E d \in 0..Len(p.queue) :
              /\ Len(Forget(p).queue) = Len(p.queue) - d
              /\ \A l \in 1..Len(Forget(p).queue) : Forget(p).queue[l] = p.queue[d + l]
    BY <1>4, ForgetFacts
  <2> QED
    BY <1>5, <2>1
<1>7. Confirms(reads[i], m.from, m.ctx, q)
  BY <1>4, <1>6 DEF Confirms
<1> QED
  BY <1>2, <1>7

\* What is answered may be answered after the step
LEMMA AnswerKept ==
    ASSUME asked \in Seq(Nat), known \in Nat, known' \in Nat, known' >= known, Asking,
           NEW r, NEW x, MayAnswer(r, x)
    PROVE  MayAnswer(r, x)'
<1>1. x \in Nat /\ x =< known /\ x =< known'
  BY DEF MayAnswer
<1>2. r \in 1..Len(asked') /\ asked'[r] =< x
  BY AskedKept DEF MayAnswer
<1> QED
  BY <1>1, <1>2 DEF MayAnswer

-----------------------------------------------------------------------------
(***************************************************************************)
(* The invariant is kept by such a step, part by part.                     *)
(***************************************************************************)

\* What a step leaves alone
LEMMA ReadFrame ==
    ASSUME ElectionInv, ReadTypes, NEW i \in Node, NEW o \in NodeState, NEW q,
           ReadMove(i, o, q)
    PROVE  /\ msgs' = msgs /\ node'[i] = o /\ \A j \in Node \ {i} : node'[j] = node[j]
           /\ disk' = disk /\ known \in Nat /\ known' \in Nat /\ known' >= known
           /\ reads'[i] = q /\ \A j \in Node \ {i} : reads'[j] = reads[j]
           /\ \A m \in AllMsgs' : m \in AllMsgs \/ m \in o.outbox \ node[i].outbox
           /\ o.term \in Nat /\ node[i].term \in Nat /\ o.term >= node[i].term
           /\ o.commit \in Nat /\ node[i].commit \in Nat /\ o.commit >= node[i].commit
           /\ node[i] \in NodeState /\ node[i].log \in Seq(Entry) /\ o.log \in Seq(Entry)
<1>1. Become(i, o) /\ Does(i, node[i], o)
  BY DEF ReadMove
<1>2. /\ msgs' = msgs /\ disk' = disk /\ node'[i] = o /\ \A j \in Node \ {i} : node'[j] = node[j]
      /\ \A m \in AllMsgs' : m \in AllMsgs \/ m \in o.outbox \ node[i].outbox
  BY <1>1, BecomeFrame
<1>3. reads'[i] = q /\ \A j \in Node \ {i} : reads'[j] = reads[j]
  BY DEF ReadMove, ReadTypes
<1>4. /\ o.term \in Nat /\ node[i].term \in Nat /\ o.commit \in Nat /\ node[i].commit \in Nat
      /\ node[i] \in NodeState /\ node[i].log \in Seq(Entry) /\ o.log \in Seq(Entry)
  BY LogTypes DEF NodeState
<1>5. o.term >= node[i].term /\ o.commit >= node[i].commit
  BY <1>1 DEF Does, Roles, CommitStep
<1>6. known \in Nat /\ known' \in Nat /\ known' >= known
  <2>1. known' = IF known >= o.commit THEN known ELSE o.commit
    BY <1>2, <1>4, LearningIs DEF ReadMove, ReadTypes
  <2> QED
    BY <1>4, <2>1 DEF ReadTypes
<1> QED
  BY <1>2, <1>3, <1>4, <1>5, <1>6

LEMMA TypesMove ==
    ASSUME ElectionInv, ReadTypes, NEW i \in Node, NEW o \in NodeState, NEW q,
           ReadMove(i, o, q)
    PROVE  ReadTypes'
<1>1. q \in Readings
  BY TurnFacts DEF ReadMove
<1>2. reads' \in [Node -> Readings]
  BY <1>1 DEF ReadMove, ReadTypes
<1>3. asked' \in Seq(Nat) /\ known' \in Nat
  BY AskedKept, ReadFrame DEF ReadMove, ReadTypes
<1> QED
  BY <1>2, <1>3 DEF ReadMove, ReadTypes

LEMMA MadeMove ==
    ASSUME ElectionInv, ReadTypes, RequestsWereMade, NEW i \in Node, NEW o \in NodeState,
           NEW q, ReadMove(i, o, q)
    PROVE  RequestsWereMade'
<1>1. /\ node'[i] = o /\ \A j \in Node \ {i} : node'[j] = node[j]
      /\ reads'[i] = q /\ \A j \in Node \ {i} : reads'[j] = reads[j]
      /\ \A m \in AllMsgs' : m \in AllMsgs \/ m \in o.outbox \ node[i].outbox
      /\ known \in Nat /\ known' \in Nat /\ known' >= known
  BY ReadFrame
<1>2. /\ asked' \in Seq(Nat) /\ \A r \in 1..Len(asked) : r \in 1..Len(asked') /\ asked'[r] = asked[r]
      /\ \A r \in 1..Len(asked') : r \in 1..Len(asked) \/ asked'[r] = known
  BY AskedKept DEF ReadMove, ReadTypes
<1>3. ASSUME NEW r \in 1..Len(asked')
      PROVE  asked'[r] =< known'
  <2>1. asked'[r] \in Nat
    BY <1>2
  <2>2. asked'[r] =< known
    BY <1>1, <1>2 DEF RequestsWereMade
  <2> QED
    BY <1>1, <2>1, <2>2
<1>4. \A m \in AllMsgs' : m.type = "MsgReadIndex" => m.req \in 1..Len(asked')
  BY <1>1, <1>2 DEF RequestsWereMade, ReadMove, Utters
<1>5. ASSUME NEW k \in 1..Len(q.queue)
      PROVE  q.queue[k].req \in 1..Len(asked')
  <2>1. reads[i] \in Readings /\ Len(reads[i].queue) \in Nat
    BY DEF ReadTypes, Readings
  <2>2. \A l \in 1..Len(reads[i].queue) : reads[i].queue[l].req \in 1..Len(asked')
    BY <1>2 DEF RequestsWereMade
  <2>3. Turns(i, o, q)
    BY DEF ReadMove
  <2>4. CASE ~StaysLeader(i, o)
    BY <2>3, <2>4, <1>5, TurnFacts
  <2>5. CASE q = reads[i]
    BY <1>5, <2>2, <2>5
  <2>6. ASSUME NEW rs \in Seq(Request), \A l \in 1..Len(rs) : rs[l].req \in 1..Len(asked'),
               q = Noted(i, o, reads[i], rs)
        PROVE  q.queue[k].req \in 1..Len(asked')
    <3> DEFINE L == Len(reads[i].queue)
    <3>1. /\ Len(q.queue) = L + Len(rs) /\ Len(rs) \in Nat
          /\ \A l \in 1..L : q.queue[l] = reads[i].queue[l]
          /\ \A l \in 1..Len(rs) : q.queue[L + l].req = rs[l].req
      <4>1. Notes(reads[i], i, o, rs, q)
        BY <2>1, <2>6, NotedNotes
      <4>2. Len(rs) \in Nat
        BY <2>6
      <4>3. Len(q.queue) = L + Len(rs)
        BY <4>1 DEF Notes
      <4>4. \A l \in 1..L : q.queue[l] = reads[i].queue[l]
        BY <4>1 DEF Notes
      <4>5. \A l \in 1..Len(rs) : q.queue[L + l].req = rs[l].req
        BY <4>1 DEF Notes
      <4> QED
        BY <4>2, <4>3, <4>4, <4>5
    <3>2. k \in 1..L \/ (k - L \in 1..Len(rs) /\ L + (k - L) = k)
      BY <1>5, <2>1, <3>1
    <3> HIDE DEF L
    <3>3. CASE k - L \in 1..Len(rs) /\ L + (k - L) = k
      BY <2>6, <3>1, <3>3
    <3>4. CASE k \in 1..L
      BY <2>2, <3>1, <3>4 DEF L
    <3> QED
      BY <3>2, <3>3, <3>4
  <2>7. ASSUME NEW m \in msgs, m.type = "MsgHeartbeatResp",
               q = Forget(RecvAck(reads[i], m.from, m.ctx))
        PROVE  q.queue[k].req \in 1..Len(asked')
    <3>3. Confirms(reads[i], m.from, m.ctx, q)
      BY <2>7, ConfirmFacts
    <3>1. PICK d \in 0..Len(reads[i].queue) :
              /\ Len(q.queue) = Len(reads[i].queue) - d
              /\ \A l \in 1..Len(q.queue) : q.queue[l] = reads[i].queue[d + l]
      BY <3>3 DEF Confirms
    <3>2. d + k \in 1..Len(reads[i].queue)
      BY <1>5, <2>1, <3>1
    <3> QED
      BY <1>5, <2>2, <3>1, <3>2
  <2> QED
    BY <2>3, <2>4, <2>5, <2>6, <2>7 DEF Turns
<1>6. ASSUME NEW j \in Node, NEW k \in 1..Len(reads'[j].queue)
      PROVE  reads'[j].queue[k].req \in 1..Len(asked')
  <2>1. CASE j = i
    BY <1>1, <1>5, <1>6, <2>1
  <2>2. CASE j # i
    BY <1>1, <1>2, <1>6, <2>2 DEF RequestsWereMade
  <2> QED
    BY <2>1, <2>2
<1>7. \A j \in Node : \A k \in 1..Len(parked'[j]) : parked'[j][k].req \in 1..Len(asked')
  BY DEF ReadMove
<1> QED
  BY <1>3, <1>4, <1>6, <1>7 DEF RequestsWereMade

\* The terms of the entries that are committed stay
LEMMA CommittedTerm ==
    ASSUME NEW i \in Node, NEW n \in NodeState, NEW o \in NodeState, LogStep(i, n, o),
           o.state = "Leader", n.commit =< Len(n.log), NEW x \in 1..n.commit
    PROVE  TermAt(o.log, x) = TermAt(n.log, x)
<1>1. n.log \in Seq(Entry) /\ n.commit \in Nat /\ Len(n.log) \in Nat /\ x \in 1..Len(n.log)
  BY DEF NodeState
<1>2. CASE o.log = n.log
  BY <1>2
<1>3. CASE \E e \in Entry : o.log = Append(n.log, e)
  <2>1. Len(o.log) = Len(n.log) + 1 /\ \A k \in 1..Len(n.log) : o.log[k] = n.log[k]
    BY <1>1, <1>3, HasAppend
  <2>2. x \in 1..Len(o.log) /\ o.log[x] = n.log[x]
    BY <1>1, <2>1
  <2> QED
    BY <1>1, <2>2 DEF TermAt
<1> QED
  BY <1>2, <1>3 DEF LogStep

\* The order of the requests that wait, when more are noted
LEMMA OrderNotes ==
    ASSUME NEW i \in Node, NEW o \in NodeState, o.state = "Leader", NEW p \in Readings,
           InOrder(o, p), NEW rs \in Seq(Request), NEW q \in Readings,
           Notes(p, i, o, rs, q), CommittedEntryInCurrentTerm(o), o.term > 0
    PROVE  InOrder(o, q)
<1> DEFINE L == Len(p.queue)
<1>1. /\ L \in Nat /\ Len(rs) \in Nat /\ p.count \in Nat /\ q.count \in Nat /\ o.commit \in Nat
      /\ \A j \in Node : p.acks[j] \in Nat
  <2>1. o.commit \in Nat
    BY DEF NodeState
  <2>2. p.acks \in [Node -> Nat] /\ p.count \in Nat /\ q.count \in Nat
    BY DEF Readings
  <2>3. L \in Nat /\ Len(rs) \in Nat
    BY DEF Readings
  <2> QED
    BY <2>1, <2>2, <2>3
<1>2. /\ q.count = p.count + Len(rs) /\ q.acks[i] = q.count
      /\ \A j \in Node \ {i} : q.acks[j] = p.acks[j]
      /\ Len(q.queue) = L + Len(rs)
      /\ \A k \in 1..L : q.queue[k] = p.queue[k]
      /\ \A k \in 1..Len(rs) : q.queue[L + k].ctx = p.count + k /\ q.queue[L + k].index = o.commit
  BY DEF Notes
<1>3. /\ L =< p.count /\ \A j \in Node : p.acks[j] =< p.count
      /\ \A k \in 1..L : /\ p.queue[k].ctx = p.count - L + k
                         /\ p.queue[k].index \in 1..o.commit
                         /\ TermAt(o.log, p.queue[k].index) = o.term
  BY DEF InOrder
<1>4. o.commit \in 1..o.commit /\ TermAt(o.log, o.commit) = o.term
  BY <1>1 DEF CommittedEntryInCurrentTerm, TermAt
<1> HIDE DEF L
<1>5. Len(q.queue) =< q.count /\ q.count - Len(q.queue) = p.count - L
  BY <1>1, <1>2, <1>3
<1>6. ASSUME NEW j \in Node
      PROVE  q.acks[j] =< q.count
  <2>1. CASE j = i
    BY <1>1, <1>2, <2>1
  <2>2. CASE j # i
    BY <1>1, <1>2, <1>3, <2>2
  <2> QED
    BY <2>1, <2>2
<1>7. ASSUME NEW k \in 1..Len(q.queue)
      PROVE  /\ q.queue[k].ctx = q.count - Len(q.queue) + k
             /\ q.queue[k].index \in 1..o.commit
             /\ TermAt(o.log, q.queue[k].index) = o.term
  <2>1. CASE k \in 1..L
    BY <1>2, <1>3, <1>5, <2>1
  <2>2. CASE k \notin 1..L
    <3>1. k - L \in 1..Len(rs) /\ L + (k - L) = k /\ p.count + (k - L) = (p.count - L) + k
      BY <1>1, <1>2, <1>7, <2>2
    <3>2. q.queue[k].ctx = p.count + (k - L) /\ q.queue[k].index = o.commit
      BY <1>2, <3>1
    <3> QED
      BY <1>4, <1>5, <3>1, <3>2
  <2> QED
    BY <2>1, <2>2
<1> QED
  BY <1>5, <1>6, <1>7 DEF InOrder

\* and when some are confirmed
LEMMA OrderConfirms ==
    ASSUME NEW o \in NodeState, o.state = "Leader", NEW p \in Readings, InOrder(o, p),
           NEW j \in Node, NEW ctx \in Nat, ctx =< p.count, NEW q \in Readings,
           Confirms(p, j, ctx, q)
    PROVE  InOrder(o, q)
<1> DEFINE L == Len(p.queue)
<1>1. L \in Nat /\ p.count \in Nat /\ \A k \in Node : p.acks[k] \in Nat
  BY DEF Readings
<1>2. PICK d \in 0..L : /\ Len(q.queue) = L - d
                        /\ \A l \in 1..Len(q.queue) : q.queue[l] = p.queue[d + l]
  BY DEF Confirms
<1>3. /\ q.count = p.count
      /\ \A k \in Node \ {j} : q.acks[k] = p.acks[k]
      /\ q.acks[j] = IF p.acks[j] >= ctx THEN p.acks[j] ELSE ctx
  BY DEF Confirms
<1>4. /\ L =< p.count /\ \A k \in Node : p.acks[k] =< p.count
      /\ \A k \in 1..L : /\ p.queue[k].ctx = p.count - L + k
                         /\ p.queue[k].index \in 1..o.commit
                         /\ TermAt(o.log, p.queue[k].index) = o.term
  BY DEF InOrder
<1> HIDE DEF L
<1>5. Len(q.queue) =< q.count
  BY <1>1, <1>2, <1>3, <1>4
<1>6. ASSUME NEW k \in Node
      PROVE  q.acks[k] =< q.count
  <2>1. CASE k = j
    BY <1>3, <1>4, <2>1
  <2>2. CASE k # j
    BY <1>3, <1>4, <2>2
  <2> QED
    BY <2>1, <2>2
<1>7. ASSUME NEW k \in 1..Len(q.queue)
      PROVE  /\ q.queue[k].ctx = q.count - Len(q.queue) + k
             /\ q.queue[k].index \in 1..o.commit
             /\ TermAt(o.log, q.queue[k].index) = o.term
  <2>1. d + k \in 1..L /\ p.count - L + (d + k) = p.count - (L - d) + k
    BY <1>1, <1>2, <1>7
  <2> QED
    BY <1>2, <1>3, <1>4, <1>7, <2>1
<1> QED
  BY <1>5, <1>6, <1>7 DEF InOrder

\* An answer to a leader was asked for
LEMMA AnswerWasAsked ==
    ASSUME ElectionInv, ConfirmationsWereAsked, NEW i \in Node, NEW m \in AllMsgs,
           m.type = "MsgHeartbeatResp", m.to = i, m.ctx > 0, m.term = node[i].term,
           node[i].state = "Leader"
    PROVE  m.ctx =< reads[i].count
  BY DEF ConfirmationsWereAsked, Asker

LEMMA OrderMove ==
    ASSUME CommitInv, CommitInv', ReadTypes, \A j \in Node : InOrder(node[j], reads[j]),
           ConfirmationsWereAsked,
           NEW i \in Node, NEW o \in NodeState, NEW q, ReadMove(i, o, q)
    PROVE  (\A j \in Node : InOrder(node[j], reads[j]))'
<1>1. ElectionInv /\ LeadersKnow
  BY CommitInvKnow DEF CommitInv
<1>2. /\ node'[i] = o /\ \A j \in Node \ {i} : node'[j] = node[j]
      /\ reads'[i] = q /\ \A j \in Node \ {i} : reads'[j] = reads[j]
      /\ o.term \in Nat /\ node[i].term \in Nat /\ o.term >= node[i].term
      /\ o.commit \in Nat /\ node[i].commit \in Nat /\ o.commit >= node[i].commit
      /\ node[i] \in NodeState
  BY <1>1, ReadFrame
<1>3. q \in Readings /\ reads[i] \in Readings /\ Turns(i, o, q) /\ LogStep(i, node[i], o)
  BY <1>1, TurnFacts DEF ReadMove, ReadTypes, Does
<1>4. ASSUME ~StaysLeader(i, o)
      PROVE  InOrder(o, q)
  <2>1. q = NoReads
    BY <1>3, <1>4 DEF Turns
  <2>2. Len(NoReads.queue) = 0 /\ NoReads.count = 0 /\ \A j \in Node : NoReads.acks[j] = 0
    BY DEF NoReads
  <2> QED
    BY <2>1, <2>2 DEF InOrder
<1>5. ASSUME StaysLeader(i, o)
      PROVE  InOrder(o, q)
  <2>1. o.state = "Leader" /\ node[i].state = "Leader" /\ o.term = node[i].term
    BY <1>5 DEF StaysLeader
  <2>2. InOrder(o, reads[i])
    <3> DEFINE p == reads[i]
    <3>1. /\ Len(p.queue) =< p.count /\ \A j \in Node : p.acks[j] =< p.count
          /\ \A k \in 1..Len(p.queue) :
                /\ p.queue[k].ctx = p.count - Len(p.queue) + k
                /\ p.queue[k].index \in 1..node[i].commit
                /\ TermAt(node[i].log, p.queue[k].index) = node[i].term
      BY DEF InOrder
    <3>2. node[i].commit =< Len(node[i].log)
      BY <1>1 DEF LeadersKnow
    <3> HIDE DEF p
    <3>3. ASSUME NEW k \in 1..Len(p.queue)
          PROVE  p.queue[k].index \in 1..o.commit /\ TermAt(o.log, p.queue[k].index) = o.term
      <4>1. p.queue[k].index \in 1..node[i].commit
        BY <3>1
      <4>2. TermAt(o.log, p.queue[k].index) = TermAt(node[i].log, p.queue[k].index)
        BY <1>2, <1>3, <2>1, <3>2, <4>1, CommittedTerm
      <4> QED
        BY <1>2, <2>1, <3>1, <4>1, <4>2
    <3>4. InOrder(o, p)
      BY <2>1, <3>1, <3>3 DEF InOrder
    <3> QED
      BY <3>4 DEF p
  <2>3. CASE q = reads[i]
    BY <2>2, <2>3
  <2>4. ASSUME NEW rs \in Seq(Request), CommittedEntryInCurrentTerm(o),
               q = Noted(i, o, reads[i], rs)
        PROVE  InOrder(o, q)
    <3>1. Notes(reads[i], i, o, rs, q)
      BY <1>3, <2>4, NotedNotes
    <3>2. o.term > 0
      BY <1>1, <1>2, <2>1 DEF LeadersKnow
    <3> QED
      BY <1>3, <2>1, <2>2, <2>4, <3>1, <3>2, OrderNotes
  <2>5. ASSUME NEW m \in msgs, m.type = "MsgHeartbeatResp", m.to = i, m.term = o.term,
               m.ctx > 0, q = Forget(RecvAck(reads[i], m.from, m.ctx))
        PROVE  InOrder(o, q)
    <3>1. m.from \in Node /\ m.ctx \in Nat /\ Confirms(reads[i], m.from, m.ctx, q)
      BY <1>1, <2>5, ConfirmFacts
    <3>2. m \in AllMsgs
      BY DEF AllMsgs
    <3>3. m.ctx =< reads[i].count
      BY <1>1, <2>1, <2>5, <3>2, AnswerWasAsked
    <3> QED
      BY <1>3, <2>1, <2>2, <3>1, <3>3, OrderConfirms
  <2> QED
    BY <1>3, <1>5, <2>3, <2>4, <2>5 DEF Turns
<1>6. \A j \in Node : InOrder(node'[j], reads'[j])
  BY <1>2, <1>4, <1>5
<1> QED
  BY <1>6 DEF InOrder

LEMMA AskedMove ==
    ASSUME ElectionInv, StoredInv', ReadTypes, ConfirmationsWereAsked,
           NEW i \in Node, NEW o \in NodeState, NEW q, ReadMove(i, o, q)
    PROVE  ConfirmationsWereAsked'
<1>1. /\ msgs' = msgs /\ disk' = disk /\ node'[i] = o /\ \A j \in Node \ {i} : node'[j] = node[j]
      /\ reads'[i] = q /\ \A j \in Node \ {i} : reads'[j] = reads[j]
      /\ \A m \in AllMsgs' : m \in AllMsgs \/ m \in o.outbox \ node[i].outbox
      /\ o.term \in Nat /\ node[i].term \in Nat /\ o.term >= node[i].term
  BY ReadFrame
<1>2. /\ q \in Readings /\ reads[i] \in Readings
      /\ StaysLeader(i, o) => q.count >= reads[i].count
      /\ Roles(i, node[i], o)
  BY TurnFacts DEF ReadMove, ReadTypes, Does
<1>3. q.count \in Nat /\ reads[i].count \in Nat
  BY <1>2 DEF Readings
<1> DEFINE Asked(a, m) == /\ m.term =< disk'[a].term
                          /\ m.term = node'[a].term =>
                                /\ node'[a].state # "Candidate"
                                /\ node'[a].state = "Leader" => m.ctx =< reads'[a].count
<1>4. ASSUME NEW m \in AllMsgs, m.type \in {"MsgHeartbeat", "MsgHeartbeatResp"}, m.ctx > 0
      PROVE  Asked(Asker(m), m)
  <2>1. m \in Message /\ m.term \in Nat /\ Asker(m) \in Node
    BY AllMsgsType, MessageFields DEF Asker
  <2>2. m.ctx \in Nat
    <3>1. m \in HeartbeatMsg \cup HeartbeatRespMsg
      BY <1>4, <2>1, MessageFields
    <3> QED
      BY <3>1 DEF HeartbeatMsg, HeartbeatRespMsg
  <2> DEFINE a == Asker(m)
  <2>3. /\ m.term =< disk[a].term
        /\ m.term = node[a].term =>
              /\ node[a].state # "Candidate"
              /\ node[a].state = "Leader" => m.ctx =< reads[a].count
    BY <1>4 DEF ConfirmationsWereAsked
  <2>6. a \in Node /\ disk[a].term \in Nat /\ node[a].term \in Nat
        /\ disk[a].term =< node[a].term /\ disk'[a] = disk[a]
    BY <1>1, <2>1, LogTypes
  <2> HIDE DEF a
  <2>4. CASE a # i
    <3>1. node'[a] = node[a] /\ reads'[a] = reads[a]
      BY <1>1, <2>4, <2>6
    <3> QED
      BY <2>3, <2>6, <3>1 DEF a
  <2>5. CASE a = i
    <3>1. m.term =< node[i].term
      BY <2>1, <2>3, <2>5, <2>6
    <3>2. ASSUME m.term = o.term
          PROVE  /\ o.state # "Candidate"
                 /\ o.state = "Leader" => m.ctx =< q.count
      <4>1. node[i].term = o.term /\ m.term = node[i].term
        BY <1>1, <2>1, <3>1, <3>2
      <4>2. node[i].state # "Candidate" /\ (node[i].state = "Leader" => m.ctx =< reads[i].count)
        BY <2>3, <2>5, <4>1
      <4>3. o.state # "Candidate"
        BY <1>1, <1>2, <4>1, <4>2 DEF Roles
      <4>4. ASSUME o.state = "Leader"
            PROVE  m.ctx =< q.count
        <5>1. node[i].state = "Leader"
          BY <1>2, <4>2, <4>4 DEF Roles
        <5>2. StaysLeader(i, o)
          BY <4>1, <4>4, <5>1 DEF StaysLeader
        <5> QED
          BY <1>2, <1>3, <2>2, <4>2, <5>1, <5>2
      <4> QED
        BY <4>3, <4>4
    <3> QED
      BY <1>1, <2>3, <2>5, <2>6, <3>2 DEF a
  <2> QED
    BY <2>4, <2>5
<1>5. ASSUME NEW m \in o.outbox \ node[i].outbox,
             m.type \in {"MsgHeartbeat", "MsgHeartbeatResp"}, m.ctx > 0
      PROVE  Asked(Asker(m), m)
  <2>1. CASE m.type = "MsgHeartbeat"
    <3>1. m.from = i /\ o.state = "Leader" /\ m.term = o.term /\ m.ctx =< q.count
      BY <1>5, <2>1 DEF ReadMove, Utters
    <3>2. Asker(m) = i
      BY <2>1, <3>1 DEF Asker
    <3>3. o.term =< disk'[i].term
      <4>1. disk'[i].term >= o.term /\ disk'[i].term \in Nat
        BY <1>1, <3>1, LogTypes DEF StoredInv
      <4> QED
        BY <1>1, <4>1
    <3> QED
      BY <1>1, <3>1, <3>2, <3>3
  <2>2. CASE m.type = "MsgHeartbeatResp"
    <3>1. PICK h \in msgs : /\ h.type = "MsgHeartbeat" /\ h.from = m.to
                            /\ h.term = m.term /\ h.ctx = m.ctx
      BY <1>5, <2>2 DEF ReadMove, Utters
    <3>2. h \in AllMsgs /\ Asker(h) = Asker(m)
      BY <2>2, <3>1 DEF AllMsgs, Asker
    <3>3. Asked(Asker(h), h)
      <4> HIDE DEF Asked
      <4> QED
        BY <1>4, <1>5, <3>1, <3>2
    <3> QED
      BY <3>1, <3>2, <3>3
  <2> QED
    BY <1>5, <2>1, <2>2
<1>6. \A m \in AllMsgs' :
         m.type \in {"MsgHeartbeat", "MsgHeartbeatResp"} /\ m.ctx > 0 => Asked(Asker(m), m)
  <2> HIDE DEF Asked
  <2> QED
    BY <1>1, <1>4, <1>5
<1> QED
  BY <1>6 DEF ConfirmationsWereAsked, Asker

LEMMA AnswersMove ==
    ASSUME ElectionInv, ReadTypes, AnswersFit,
           NEW i \in Node, NEW o \in NodeState, NEW q, ReadMove(i, o, q)
    PROVE  AnswersFit'
<1>1. /\ \A m \in AllMsgs' : m \in AllMsgs \/ m \in o.outbox \ node[i].outbox
      /\ known \in Nat /\ known' \in Nat /\ known' >= known /\ Asking /\ asked \in Seq(Nat)
  BY ReadFrame DEF ReadMove, ReadTypes
<1>2. ASSUME NEW a \in answers'
      PROVE  MayAnswer(a[1], a[2])'
  <2>1. MayAnswer(a[1], a[2])
    BY <1>2 DEF ReadMove
  <2> QED
    BY <1>1, <2>1, AnswerKept
<1>3. ASSUME NEW m \in AllMsgs', m.type = "MsgReadIndexResp"
      PROVE  MayAnswer(m.req, m.index)'
  <2>1. MayAnswer(m.req, m.index)
    BY <1>1, <1>3 DEF AnswersFit, ReadMove, Utters
  <2> QED
    BY <1>1, <2>1, AnswerKept
<1> QED
  BY <1>2, <1>3 DEF AnswersFit

\* Who is past a term acknowledges nothing of it any more
LEMMA OvertakenKept ==
    ASSUME ElectionInv, ReadTypes, NEW i \in Node, NEW o \in NodeState, NEW q,
           ReadMove(i, o, q), NEW l \in Node, NEW c \in Nat, Overtaken(l, c),
           node'[l].term = node[l].term,
           l = i => \A j \in Node \ {i} :
                       \/ q.acks[j] = reads[i].acks[j]
                       \/ \E m \in msgs : /\ m.type = "MsgHeartbeatResp" /\ m.from = j /\ m.to = i
                                          /\ m.term = node[i].term
                                          /\ q.acks[j] = IF reads[i].acks[j] >= m.ctx
                                                         THEN reads[i].acks[j] ELSE m.ctx
    PROVE  Overtaken(l, c)'
<1>1. /\ msgs' = msgs /\ disk' = disk /\ node'[i] = o /\ \A j \in Node \ {i} : node'[j] = node[j]
      /\ reads'[i] = q /\ \A j \in Node \ {i} : reads'[j] = reads[j]
      /\ \A m \in AllMsgs' : m \in AllMsgs \/ m \in o.outbox \ node[i].outbox
      /\ o.term \in Nat /\ node[i].term \in Nat /\ o.term >= node[i].term
  BY ReadFrame
<1>2. PICK Q \in Quorum : \A j \in Q : disk[j].term > node[l].term /\ Unconfirmed(l, j, c)
  BY DEF Overtaken
<1>3. ASSUME NEW j \in Q
      PROVE  disk'[j].term > node'[l].term /\ Unconfirmed(l, j, c)'
  <2>1. j \in Node /\ disk[j].term > node[l].term /\ Unconfirmed(l, j, c)
    BY <1>2 DEF Quorum
  <2>2. /\ node[j].term \in Nat /\ node[l].term \in Nat /\ disk[j].term \in Nat
        /\ disk[j].term =< node[j].term /\ j # l
    BY <2>1, LogTypes
  <2>3. disk'[j].term > node'[l].term
    BY <1>1, <2>1, <2>2
  <2>4. reads'[l].acks[j] < c
    <3>1. reads[l].acks[j] < c
      BY <2>1 DEF Unconfirmed
    <3>2. CASE l # i
      BY <1>1, <3>1, <3>2
    <3>3. CASE l = i
      <4>1. j \in Node \ {i}
        BY <2>1, <2>2, <3>3
      <4>2. CASE q.acks[j] = reads[i].acks[j]
        BY <1>1, <3>1, <3>3, <4>2
      <4>3. ASSUME NEW m \in msgs, m.type = "MsgHeartbeatResp", m.from = j, m.to = i,
                   m.term = node[i].term,
                   q.acks[j] = IF reads[i].acks[j] >= m.ctx THEN reads[i].acks[j] ELSE m.ctx
            PROVE  q.acks[j] < c
        <5>1. m \in AllMsgs
          BY DEF AllMsgs
        <5>2. m.ctx < c
          BY <2>1, <3>3, <4>3, <5>1 DEF Unconfirmed
        <5> QED
          BY <3>1, <3>3, <4>3, <5>2
      <4> QED
        BY <1>1, <3>3, <4>1, <4>2, <4>3
    <3> QED
      BY <3>2, <3>3
  <2>5. ASSUME NEW m \in AllMsgs', m.type = "MsgHeartbeatResp", m.from = j, m.to = l,
               m.term = node'[l].term
        PROVE  m.ctx < c
    <3>1. CASE m \in AllMsgs
      BY <2>1, <2>5, <3>1 DEF Unconfirmed
    <3>2. CASE m \in o.outbox \ node[i].outbox
      <4>1. m.from = i /\ m.term = o.term
        BY <2>5, <3>2 DEF ReadMove, Utters
      <4> QED
        BY <1>1, <2>1, <2>2, <2>5, <4>1
    <3> QED
      BY <1>1, <3>1, <3>2
  <2>6. Unconfirmed(l, j, c)'
    BY <2>4, <2>5 DEF Unconfirmed
  <2> QED
    BY <2>3, <2>6
<1> QED
  BY <1>3 DEF Overtaken

LEMMA NotedMove ==
    ASSUME CommitInv, CommitInv', KnowsCommits', ReadTypes, RequestsWereMade, RequestsWereMade',
           \A j \in Node : InOrder(node[j], reads[j]), ConfirmationsWereAsked, NotedInTime,
           NEW i \in Node, NEW o \in NodeState, NEW q, ReadMove(i, o, q)
    PROVE  NotedInTime'
<1>1. ElectionInv /\ LeadersKnow'
  BY KnowNext DEF CommitInv
<1>2. /\ node'[i] = o /\ \A j \in Node \ {i} : node'[j] = node[j]
      /\ reads'[i] = q /\ \A j \in Node \ {i} : reads'[j] = reads[j]
      /\ \A m \in AllMsgs' : m \in AllMsgs \/ m \in o.outbox \ node[i].outbox
      /\ o.term \in Nat /\ o.commit \in Nat /\ o.log \in Seq(Entry)
      /\ disk' = disk /\ known' \in Nat
  BY <1>1, ReadFrame
<1>3. q \in Readings /\ reads[i] \in Readings /\ Turns(i, o, q)
  BY <1>1, TurnFacts DEF ReadMove, ReadTypes
<1> DEFINE AcksKept(l) ==
      l = i => \A j \in Node \ {i} :
                  \/ q.acks[j] = reads[i].acks[j]
                  \/ \E m \in msgs : /\ m.type = "MsgHeartbeatResp" /\ m.from = j /\ m.to = i
                                     /\ m.term = node[i].term
                                     /\ q.acks[j] = IF reads[i].acks[j] >= m.ctx
                                                    THEN reads[i].acks[j] ELSE m.ctx
\* what waited before
<1>4. ASSUME NEW l \in Node, NEW k \in 1..Len(reads[l].queue), NEW e, e = reads[l].queue[k],
             node'[l].term = node[l].term, AcksKept(l)
      PROVE  InTime(l, e)'
  <2>1. reads[l].queue \in Seq(Waiting)
    BY DEF ReadTypes, Readings
  <2>2. e \in Waiting
    BY <1>4, <2>1, ElementOfSeq
  <2>3. e.req \in 1..Len(asked) /\ e.ctx \in Nat
    BY <1>4, <2>2 DEF RequestsWereMade, Waiting
  <2>4. asked'[e.req] = asked[e.req]
    BY <2>3, AskedKept DEF ReadMove, ReadTypes
  <2>5. InTime(l, e)
    BY <1>4 DEF NotedInTime
  <2>6. Overtaken(l, e.ctx) => Overtaken(l, e.ctx)'
    BY <1>1, <1>4, <2>3, OvertakenKept
  <2> QED
    BY <2>4, <2>5, <2>6 DEF InTime
\* what is noted
<1>5. ASSUME StaysLeader(i, o), NEW rs \in Seq(Request), CommittedEntryInCurrentTerm(o),
             Notes(reads[i], i, o, rs, q), NEW k \in 1..Len(q.queue),
             k \notin 1..Len(reads[i].queue), NEW e, e = q.queue[k]
      PROVE  InTime(i, e)'
  <2> DEFINE L == Len(reads[i].queue)
  <2>1. L \in Nat /\ Len(rs) \in Nat /\ reads[i].count \in Nat /\ q.queue \in Seq(Waiting)
    BY <1>3 DEF Readings
  <2>2. k - L \in 1..Len(rs) /\ L + (k - L) = k
    <3>1. Len(q.queue) = L + Len(rs)
      BY <1>5 DEF Notes
    <3>2. k \in 1..L + Len(rs) /\ k \notin 1..L
      BY <1>5, <3>1
    <3> HIDE DEF L
    <3> QED
      BY <2>1, <3>2
  <2>3. e.ctx = reads[i].count + (k - L) /\ e.index = o.commit
    BY <1>5, <2>2 DEF Notes
  <2>4. e.ctx \in Nat /\ e.ctx > reads[i].count
    BY <2>1, <2>2, <2>3
  <2>5. e.req \in 1..Len(asked')
    BY <1>2, <1>5 DEF RequestsWereMade
  <2>6. asked'[e.req] =< known'
    BY <2>5 DEF RequestsWereMade
  <2>7. asked'[e.req] \in Nat
    <3>1. asked' \in Seq(Nat)
      BY AskedKept DEF ReadMove, ReadTypes
    <3> QED
      BY <2>5, <3>1, ElementOfSeq
  <2>8. /\ o.state = "Leader" /\ node[i].state = "Leader" /\ o.term = node[i].term
        /\ TermAt(o.log, o.commit) = o.term /\ o.term > 1
    BY <1>1, <1>2, <1>5 DEF StaysLeader, CommittedEntryInCurrentTerm, LeadersKnow
  <2>9. CASE known' =< o.commit
    BY <1>2, <2>3, <2>6, <2>7, <2>9 DEF InTime
  <2>10. CASE Earlier(o, known') /\ known' > o.commit
    <3> DEFINE c == known'
    <3>1. c \in 1..Len(o.log) /\ o.log[c].term < o.term
      BY <2>10 DEF Earlier
    <3>2. o.commit \in 1..Len(o.log) /\ o.log[o.commit].term = o.term
      BY <1>2, <2>8 DEF TermAt
    <3>3. o.log[o.commit].term =< o.log[c].term
      <4>1. Sorted(o.log)
        BY <1>1, <1>2 DEF LeadersKnow
      <4> QED
        BY <1>2, <2>7, <2>10, <3>1, <3>2, <4>1 DEF Sorted
    <3>4. o.log[c].term \in Nat
      BY <1>2, <3>1, EntryTerm
    <3> QED
      BY <1>2, <3>1, <3>2, <3>3, <3>4
  <2>11. CASE Passed(o.term)'
    <3>1. PICK Q \in Quorum : \A x \in Q : disk'[x].term > o.term
      BY <2>11 DEF Passed
    <3>2. ASSUME NEW x \in Q
          PROVE  disk'[x].term > node'[i].term /\ Unconfirmed(i, x, e.ctx)'
      <4>1. x \in Node \ {i} /\ disk'[x].term > node'[i].term
        <5>1. /\ disk'[i] = disk[i] /\ node[i].term \in Nat /\ disk[i].term \in Nat
              /\ disk[i].term =< node[i].term
          BY <1>1, <1>2, LogTypes
        <5> QED
          BY <1>2, <2>8, <3>1, <5>1 DEF Quorum
      <4>2. q.acks[x] < e.ctx
        <5>1. q.acks[x] = reads[i].acks[x]
          BY <1>5, <4>1 DEF Notes
        <5>2. reads[i].acks[x] =< reads[i].count /\ reads[i].acks[x] \in Nat
          BY <1>3, <4>1 DEF InOrder, Readings
        <5> QED
          BY <2>1, <2>4, <5>1, <5>2
      <4>3. ASSUME NEW m \in AllMsgs', m.type = "MsgHeartbeatResp", m.from = x, m.to = i,
                   m.term = node'[i].term
            PROVE  m.ctx < e.ctx
        <5>1. CASE m \in AllMsgs
          <6>1. m \in HeartbeatRespMsg
            BY <1>1, <4>3, <5>1, AllMsgsType, MessageFields
          <6>2. m.ctx \in Nat
            BY <6>1 DEF HeartbeatRespMsg
          <6>3. m.ctx > 0 => m.ctx =< reads[i].count
            BY <1>1, <1>2, <2>8, <4>3, <5>1, AnswerWasAsked
          <6> QED
            BY <2>1, <2>4, <6>2, <6>3
        <5>2. CASE m \in o.outbox \ node[i].outbox
          BY <4>1, <4>3, <5>2 DEF ReadMove, Utters
        <5> QED
          BY <1>2, <5>1, <5>2
      <4>4. Unconfirmed(i, x, e.ctx)'
        BY <1>2, <4>2, <4>3 DEF Unconfirmed
      <4> QED
        BY <4>1, <4>4
    <3>3. Overtaken(i, e.ctx)'
      BY <3>2 DEF Overtaken
    <3> QED
      BY <3>3 DEF InTime
  <2>12. known' > o.commit => Earlier(o, known') \/ Passed(o.term)'
    BY <1>2, <2>8 DEF KnowsCommits, Passed
  <2> QED
    BY <1>2, <2>7, <2>9, <2>10, <2>11, <2>12
<1> HIDE DEF AcksKept
<1>6. ASSUME NEW k \in 1..Len(q.queue), NEW e, e = q.queue[k]
      PROVE  InTime(i, e)'
  <2>1. CASE ~StaysLeader(i, o)
    BY <1>1, <1>3, <1>6, <2>1, TurnFacts
  <2>2. StaysLeader(i, o) => node'[i].term = node[i].term
    BY <1>2 DEF StaysLeader
  <2>3. CASE StaysLeader(i, o) /\ q = reads[i]
    <3>1. AcksKept(i)
      BY <2>3 DEF AcksKept
    <3> QED
      BY <1>4, <1>6, <2>2, <2>3, <3>1
  <2>4. ASSUME StaysLeader(i, o), NEW rs \in Seq(Request), CommittedEntryInCurrentTerm(o),
               q = Noted(i, o, reads[i], rs)
        PROVE  InTime(i, e)'
    <3>1. Notes(reads[i], i, o, rs, q)
      BY <1>3, <2>4, NotedNotes
    <3>2. CASE k \in 1..Len(reads[i].queue)
      <4>1. AcksKept(i)
        BY <3>1 DEF AcksKept, Notes
      <4>2. e = reads[i].queue[k]
        BY <1>6, <3>1, <3>2 DEF Notes
      <4> QED
        BY <1>4, <2>2, <2>4, <3>2, <4>1, <4>2
    <3>3. CASE k \notin 1..Len(reads[i].queue)
      BY <1>5, <1>6, <2>4, <3>1, <3>3
    <3> QED
      BY <3>2, <3>3
  <2>5. ASSUME StaysLeader(i, o), NEW m \in msgs, m.type = "MsgHeartbeatResp", m.to = i,
               m.term = o.term, q = Forget(RecvAck(reads[i], m.from, m.ctx))
        PROVE  InTime(i, e)'
    <3>1. m.from \in Node /\ m.ctx \in Nat /\ Confirms(reads[i], m.from, m.ctx, q)
      BY <1>1, <2>5, ConfirmFacts
    <3>2. AcksKept(i)
      <4>1. m.term = node[i].term
        BY <2>5 DEF StaysLeader
      <4> QED
        BY <2>5, <3>1, <4>1 DEF AcksKept, Confirms
    <3>3. PICK d \in 0..Len(reads[i].queue) :
              /\ Len(q.queue) = Len(reads[i].queue) - d
              /\ \A l \in 1..Len(q.queue) : q.queue[l] = reads[i].queue[d + l]
      BY <3>1 DEF Confirms
    <3>4. Len(reads[i].queue) \in Nat
      BY <1>3 DEF Readings
    <3>5. d + k \in 1..Len(reads[i].queue) /\ e = reads[i].queue[d + k]
      BY <1>6, <3>3, <3>4
    <3> QED
      BY <1>4, <2>2, <2>5, <3>2, <3>5
  <2> QED
    BY <1>3, <2>1, <2>3, <2>4, <2>5 DEF Turns
<1>7. ASSUME NEW l \in Node, NEW k \in 1..Len(reads'[l].queue), NEW e, e = reads'[l].queue[k]
      PROVE  InTime(l, e)'
  <2>1. CASE l = i
    BY <1>2, <1>6, <1>7, <2>1
  <2>2. CASE l # i
    <3>1. AcksKept(l)
      BY <2>2 DEF AcksKept
    <3>2. reads'[l] = reads[l] /\ node'[l].term = node[l].term
      BY <1>2, <2>2
    <3> QED
      BY <1>4, <1>7, <3>1, <3>2
  <2> QED
    BY <2>1, <2>2
<1> QED
  BY <1>7 DEF NotedInTime, InTime, Overtaken, Unconfirmed

\* What is confirmed may be answered: a leader that has been overtaken is not confirmed
LEMMA ConfirmedMayBeAnswered ==
    ASSUME ReadInv, NEW i \in Node, node[i].state = "Leader", NEW m \in msgs,
           m.type = "MsgHeartbeatResp", m.to = i, m.term = node[i].term, m.ctx > 0,
           NEW r \in Resolved(RecvAck(reads[i], m.from, m.ctx))
    PROVE  r \in Waiting /\ MayAnswer(r.req, r.index)
<1> DEFINE p == RecvAck(reads[i], m.from, m.ctx)
<1>1. ElectionInv /\ reads[i] \in Readings /\ reads[i].queue \in Seq(Waiting)
  BY DEF ReadInv, CommitInv, ReadTypes, Readings
<1>2. m.from \in Node /\ m.ctx \in Nat /\ m \in AllMsgs
  <2>1. m \in HeartbeatRespMsg
    BY <1>1, MessageFields DEF ElectionInv, TypeOK
  <2> QED
    BY <2>1 DEF HeartbeatRespMsg, AllMsgs
<1>3. /\ p \in Readings /\ p.queue = reads[i].queue
      /\ \A k \in Node \ {m.from} : p.acks[k] = reads[i].acks[k]
      /\ p.acks[m.from] =
            IF reads[i].acks[m.from] >= m.ctx THEN reads[i].acks[m.from] ELSE m.ctx
  BY <1>1, <1>2, RecvAckFacts
<1>4. r \in Resolved(p)
  OBVIOUS
<1> HIDE DEF p
<1>5. PICK k \in 1..Len(reads[i].queue) : r = reads[i].queue[k] /\ r.ctx =< Confirmed(p)
  <2>1. DOMAIN p.queue = 1..Len(reads[i].queue)
    BY <1>1, <1>3
  <2> QED
    BY <1>3, <1>4, <2>1 DEF Resolved, Resolvable
<1>6. r \in Waiting
  BY <1>1, <1>5, ElementOfSeq
<1>7. r.ctx \in Nat /\ r.index \in Nat /\ r.req \in 1..Len(asked)
  BY <1>5, <1>6 DEF Waiting, ReadInv, RequestsWereMade
<1>8. r.index =< known
  <2>1. node[i].commit \in Nat /\ known \in Nat /\ node[i].commit =< known
    BY <1>1, LogTypes DEF NodeState, ReadInv, ReadTypes, KnownLatest
  <2>2. r.index =< node[i].commit
    BY <1>5 DEF ReadInv, InOrder
  <2> QED
    BY <1>7, <2>1, <2>2
<1>9. ~Overtaken(i, r.ctx)
  <2> SUFFICES ASSUME Overtaken(i, r.ctx)
               PROVE  FALSE
    OBVIOUS
  <2>1. PICK Q \in Quorum : \A j \in Q : Unconfirmed(i, j, r.ctx)
    BY DEF Overtaken
  <2> DEFINE R == {j \in Node : p.acks[j] >= Confirmed(p)}
  <2>2. Confirmed(p) \in Nat /\ R \in Quorum
    BY <1>3, ConfirmedIs
  <2>3. PICK j \in R : j \in Q
    BY <2>2, QuorumsMeet
  <2>4. j \in Node /\ p.acks[j] \in Nat /\ p.acks[j] >= r.ctx
    BY <1>3, <1>5, <1>7, <2>2, <2>3 DEF Readings
  <2>5. reads[i].acks[j] < r.ctx /\ reads[i].acks[j] \in Nat
    BY <1>1, <2>1, <2>3, <2>4 DEF Unconfirmed, Readings
  <2>6. CASE j # m.from
    BY <1>3, <1>7, <2>4, <2>5, <2>6
  <2>7. CASE j = m.from
    <3>1. m.ctx < r.ctx
      BY <1>2, <2>1, <2>3, <2>7 DEF Unconfirmed
    <3> QED
      BY <1>2, <1>3, <1>7, <2>4, <2>5, <2>7, <3>1
  <2> QED
    BY <2>6, <2>7
<1>10. asked[r.req] =< r.index
  <2>1. InTime(i, reads[i].queue[k])
    BY DEF ReadInv, NotedInTime
  <2> QED
    BY <1>5, <1>9, <2>1 DEF InTime
<1> QED
  BY <1>6, <1>7, <1>8, <1>10 DEF MayAnswer

\* Such a step keeps the invariant
LEMMA ReadInvMove ==
    ASSUME ReadInv, NEW i \in Node, NEW o \in NodeState, NEW q, ReadMove(i, o, q)
    PROVE  ReadInv'
<1>1. CommitInv /\ ElectionInv /\ Become(i, o) /\ Does(i, node[i], o)
  BY DEF ReadInv, CommitInv, ReadMove
<1>2. ElectionInv'
  BY <1>1, SoundStep DEF Does
<1>3. KnownLatest' /\ KnownBacked' /\ CommitInv' /\ StoredInv'
  <2>1. KnownLatest' /\ KnownBacked'
    BY <1>1, <1>2, KnownStep DEF ReadInv, ReadTypes, ReadMove
  <2>2. (KnownBacked => CommitInv)'
    BY BackedCommits, PTL
  <2> QED
    BY <2>1, <2>2 DEF CommitInv
<1>4. TellsOwn'
  BY <1>1, <1>3, TellsOwnStep DEF ReadInv
<1>5. KnowsCommits'
  BY <1>1, <1>3, KnowsCommitsStep DEF ReadInv, ReadTypes, ReadMove
<1>6. ReadTypes'
  BY <1>1, TypesMove DEF ReadInv
<1>7. RequestsWereMade'
  BY <1>1, MadeMove DEF ReadInv
<1>8. (\A j \in Node : InOrder(node[j], reads[j]))'
  BY <1>1, <1>3, OrderMove DEF ReadInv
<1>9. ConfirmationsWereAsked'
  BY <1>1, <1>3, AskedMove DEF ReadInv
<1>10. AnswersFit'
  BY <1>1, AnswersMove DEF ReadInv
<1>11. NotedInTime'
  BY <1>1, <1>3, <1>5, <1>7, NotedMove DEF ReadInv
<1> QED
  BY <1>3, <1>4, <1>5, <1>6, <1>7, <1>8, <1>9, <1>10, <1>11 DEF ReadInv

-----------------------------------------------------------------------------
(***************************************************************************)
(* Every step of the specification is such a step, or a Ready.             *)
(***************************************************************************)

\* A step in which nothing is asked for: the requests of a leader stay as they are
LEMMA OtherMove ==
    ASSUME ReadInv, NEW i \in Node, NEW o \in NodeState, Become(i, o), Does(i, node[i], o),
           Utters(i, o, ReadsWith(i, o)),
           reads' = [reads EXCEPT ![i] = ReadsWith(i, o)], UNCHANGED <<parked, asked>>,
           Learning(i), \A a \in answers' : MayAnswer(a[1], a[2])
    PROVE  ReadInv'
<1>1. Turns(i, o, ReadsWith(i, o))
  BY DEF Turns, ReadsWith
<1>2. parked' = parked /\ asked' = asked /\ Asking
  BY DEF Asking
<1>3. parked \in [Node -> Seq(Request)] /\ RequestsWereMade
  BY DEF ReadInv, ReadTypes
<1>4. ReadMove(i, o, ReadsWith(i, o))
  BY <1>1, <1>2, <1>3 DEF ReadMove, RequestsWereMade
<1> QED
  BY <1>4, ReadInvMove

\* A node that says nothing of reads
LEMMA MuteUtters ==
    ASSUME NEW i, NEW o, NEW q, Mute(node[i], o)
    PROVE  Utters(i, o, q)
  BY DEF Mute, Utters, OfReads

\* A node that stays as it is, while requests may be postponed
LEMMA PauseMove ==
    ASSUME ReadInv, UNCHANGED <<vars, reads, answers>>, Asking, NEW i \in Node, Learning(i),
           parked' \in [Node -> Seq(Request)],
           \A j \in Node : \A k \in 1..Len(parked'[j]) : parked'[j][k].req \in 1..Len(asked')
    PROVE  ReadInv'
<1>2. ElectionInv /\ node[i] \in NodeState /\ node \in [Node -> NodeState]
      /\ reads \in [Node -> Readings] /\ reads' = reads /\ answers' = answers
      /\ node' = node /\ disk' = disk /\ msgs' = msgs /\ restarts' = restarts
  BY DEF ReadInv, CommitInv, ElectionInv, TypeOK, ReadTypes, vars
<1>3. Become(i, node[i]) /\ Does(i, node[i], node[i])
  BY <1>2, SelfDoes DEF Become
<1>4. Turns(i, node[i], reads[i])
  BY DEF Turns, StaysLeader, ReadInv, InOrder
<1>5. Utters(i, node[i], reads[i])
  BY DEF Utters
<1>6. \A a \in answers' : MayAnswer(a[1], a[2])
  BY <1>2 DEF ReadInv, AnswersFit
<1>7. reads' = [reads EXCEPT ![i] = reads[i]]
  BY <1>2
<1>8. ReadMove(i, node[i], reads[i])
  BY <1>3, <1>4, <1>5, <1>6, <1>7 DEF ReadMove
<1> QED
  BY <1>2, <1>8, ReadInvMove

\* A node state that is another as far as reads go
Alike(n, o) ==
    n.term = o.term /\ n.state = o.state /\ n.log = o.log /\ n.commit = o.commit

\* Terms are stored, and nodes forget what they did not store, with their requests
LEMMA StorageMove ==
    ASSUME ReadInv, [Next]_vars, UNCHANGED <<asked, answers, known>>, AllMsgs' \subseteq AllMsgs,
           \A j \in Node : /\ disk'[j].term >= disk[j].term /\ disk'[j].term \in Nat
                           /\ disk'[j].commit =< known
                           /\ \/ Alike(node'[j], node[j]) /\ reads'[j] = reads[j]
                              \/ /\ node'[j].state = "Follower" /\ reads'[j] = NoReads
                                 /\ node'[j].commit =< known,
           reads' \in [Node -> Readings], parked' \in [Node -> Seq(Request)],
           \A j \in Node : \A k \in 1..Len(parked'[j]) : parked'[j][k].req \in 1..Len(asked)
    PROVE  ReadInv'
<1>1. ElectionInv /\ \A j \in Node : node[j].term \in Nat /\ disk[j].term \in Nat
  BY LogTypes DEF ReadInv, CommitInv
<1>2. NoReads.queue = <<>> /\ NoReads.count = 0 /\ \A j \in Node : NoReads.acks[j] = 0
  BY DEF NoReads
<1>3. KnownBacked' /\ CommitInv'
  <2>1. PICK K \in SUBSET LeaderLog, A \in SUBSET StoredAck :
            CommitsFrom(K, A) /\ KnownWas(K, A)
    BY DEF ReadInv, KnownBacked
  <2>2. CommitsFrom(K, A)'
    BY <2>1, CommitsFromStep
  <2>3. KnownWas(K, A)'
    BY <2>1 DEF KnownWas
  <2>4. (KnownBacked => CommitInv)'
    BY BackedCommits, PTL
  <2> QED
    BY <2>2, <2>3, <2>4 DEF KnownBacked
<1>4. \A j \in Node : node'[j].state = "Leader" \/ reads'[j].queue # <<>> =>
         Alike(node'[j], node[j]) /\ reads'[j] = reads[j]
  BY <1>2
<1>5. TellsOwn'
  BY <1>4 DEF ReadInv, TellsOwn, Alike
<1>6. \A t \in Nat : Passed(t) => Passed(t)'
  <2> SUFFICES ASSUME NEW t \in Nat, NEW Q \in Quorum, \A j \in Q : disk[j].term > t
               PROVE  \A j \in Q : disk'[j].term > t
    BY DEF Passed
  <2> QED
    BY <1>1 DEF Quorum
<1>7. KnowsCommits'
  <2> SUFFICES ASSUME NEW l \in Node, NEW n, NEW p, n = node[l], p = node'[l],
                      p.state = "Leader", known > p.commit
               PROVE  Earlier(p, known) \/ Passed(p.term)'
    BY DEF KnowsCommits, Passed
  <2>1. n.term \in Nat /\ Alike(p, n)
    BY <1>1, <1>4
  <2>2. Earlier(n, known) \/ Passed(n.term)
    BY <2>1 DEF ReadInv, KnowsCommits, Alike
  <2> QED
    BY <1>6, <2>1, <2>2 DEF Earlier, Alike
<1>8. KnownLatest'
  BY DEF ReadInv, KnownLatest, Alike
<1>9. ReadTypes' /\ RequestsWereMade'
  <2>1. ReadTypes'
    BY DEF ReadInv, ReadTypes
  <2>2. \A j \in Node : \A k \in 1..Len(reads'[j].queue) :
           reads'[j].queue[k].req \in 1..Len(asked')
    <3> SUFFICES ASSUME NEW j \in Node, NEW k \in 1..Len(reads'[j].queue)
                 PROVE  reads'[j].queue[k].req \in 1..Len(asked)
      OBVIOUS
    <3>1. reads'[j].queue # <<>>
      OBVIOUS
    <3> QED
      BY <1>4, <3>1 DEF ReadInv, RequestsWereMade
  <2> QED
    BY <2>1, <2>2 DEF ReadInv, RequestsWereMade
<1>10. (\A j \in Node : InOrder(node[j], reads[j]))'
  <2> SUFFICES ASSUME NEW j \in Node
               PROVE  InOrder(node'[j], reads'[j])
    BY DEF InOrder
  <2>1. CASE Alike(node'[j], node[j]) /\ reads'[j] = reads[j]
    BY <2>1 DEF ReadInv, InOrder, Alike
  <2>2. CASE node'[j].state = "Follower" /\ reads'[j] = NoReads
    BY <1>2, <2>2 DEF InOrder
  <2> QED
    BY <2>1, <2>2
<1>11. ConfirmationsWereAsked'
  <2> SUFFICES ASSUME NEW m \in AllMsgs, m.type \in {"MsgHeartbeat", "MsgHeartbeatResp"},
                      m.ctx > 0, NEW a, a = Asker(m)
               PROVE  /\ m.term =< disk'[a].term
                      /\ m.term = node'[a].term =>
                            /\ node'[a].state # "Candidate"
                            /\ node'[a].state = "Leader" => m.ctx =< reads'[a].count
    BY DEF ConfirmationsWereAsked, Asker
  <2>1. a \in Node /\ m.term \in Nat
    BY <1>1, AllMsgsType, MessageFields DEF Asker
  <2>2. /\ m.term =< disk[a].term
        /\ m.term = node[a].term =>
              /\ node[a].state # "Candidate"
              /\ node[a].state = "Leader" => m.ctx =< reads[a].count
    BY DEF ReadInv, ConfirmationsWereAsked
  <2>3. m.term =< disk'[a].term
    BY <1>1, <2>1, <2>2
  <2>4. CASE Alike(node'[a], node[a]) /\ reads'[a] = reads[a]
    BY <2>2, <2>3, <2>4 DEF Alike
  <2>5. CASE node'[a].state = "Follower"
    BY <2>3, <2>5
  <2> QED
    BY <2>1, <2>4, <2>5
<1>12. AnswersFit'
  BY DEF ReadInv, AnswersFit, MayAnswer
<1>13. NotedInTime'
  <2> SUFFICES ASSUME NEW j \in Node, NEW k \in 1..Len(reads'[j].queue),
                      NEW e, e = reads'[j].queue[k]
               PROVE  InTime(j, e)'
    BY DEF NotedInTime, InTime, Overtaken, Unconfirmed
  <2>1. reads'[j] = reads[j] /\ node'[j].term = node[j].term
    <3>1. reads'[j].queue # <<>>
      OBVIOUS
    <3> QED
      BY <1>4, <3>1 DEF Alike
  <2>2. InTime(j, e)
    BY <2>1 DEF ReadInv, NotedInTime
  <2>3. ASSUME NEW c, Overtaken(j, c)
        PROVE  Overtaken(j, c)'
    <3>1. PICK Q \in Quorum : \A x \in Q : disk[x].term > node[j].term /\ Unconfirmed(j, x, c)
      BY <2>3 DEF Overtaken
    <3>2. ASSUME NEW x \in Q
          PROVE  disk'[x].term > node'[j].term /\ Unconfirmed(j, x, c)'
      <4>1. x \in Node
        BY DEF Quorum
      <4>2. disk'[x].term > node'[j].term
        <5>1. /\ disk'[x].term >= disk[x].term /\ disk'[x].term \in Nat
              /\ disk[x].term \in Nat /\ node[j].term \in Nat
          BY <1>1, <4>1
        <5>2. disk[x].term > node[j].term
          BY <3>1
        <5>3. disk'[x].term > node[j].term
          BY <5>1, <5>2
        <5> QED
          BY <2>1, <5>3
      <4> QED
        BY <2>1, <3>1, <4>2 DEF Unconfirmed
    <3> QED
      BY <3>2 DEF Overtaken
  <2> QED
    BY <2>2, <2>3 DEF InTime
<1> QED
  BY <1>3, <1>5, <1>7, <1>8, <1>9, <1>10, <1>11, <1>12, <1>13 DEF ReadInv

\* A Ready changes neither what nodes know nor what has been said
LEMMA ReadyMove ==
    ASSUME ReadInv, NEW i \in Node, Ready(i), UNCHANGED <<reads, parked, asked, answers>>,
           Learning(i)
    PROVE  ReadInv'
<1>1. /\ ElectionInv /\ node \in [Node -> NodeState] /\ disk \in [Node -> DiskState]
      /\ known \in Nat /\ KnownLatest
  BY DEF ReadInv, CommitInv, ElectionInv, TypeOK, ReadTypes
<1>2. [Next]_vars
  BY DEF Next
<1>3. \A j \in Node : /\ Alike(node'[j], node[j]) /\ node[j].commit \in Nat
                      /\ node'[j].outbox = IF j = i THEN {} ELSE node[j].outbox
  BY <1>1 DEF Ready, NodeState, Alike
<1>4. AllMsgs' = AllMsgs
  <2>1. msgs' = msgs \cup node[i].outbox
    BY DEF Ready
  <2>2. \A m : (\E j \in Node : m \in node'[j].outbox) \/ m \in node[i].outbox
                  <=> \E j \in Node : m \in node[j].outbox
    BY <1>3
  <2>3. \A m : m \in AllMsgs' <=> m \in AllMsgs
    BY <2>1, <2>2 DEF AllMsgs
  <2> QED
    BY <2>3
<1>5. known' = known
  BY <1>1, <1>3, LearningIs DEF Alike, KnownLatest
<1>6. \A j \in Node : /\ disk'[j].term >= disk[j].term /\ disk'[j].term \in Nat
                      /\ disk'[j].commit =< known
  <2> SUFFICES ASSUME NEW j \in Node
               PROVE  /\ disk'[j].term >= disk[j].term /\ disk'[j].term \in Nat
                      /\ disk'[j].commit =< known
    OBVIOUS
  <2>1. /\ disk[j].term \in Nat /\ node[j].term \in Nat /\ disk[j].term =< node[j].term
    BY <1>1, LogTypes
  <2>2. disk'[j] = IF j = i THEN HardState(node[i]) ELSE disk[j]
    BY <1>1 DEF Ready
  <2>3. HardState(node[i]).term = node[i].term /\ HardState(node[i]).commit = node[i].commit
    BY DEF HardState
  <2> QED
    BY <1>1, <2>1, <2>2, <2>3 DEF KnownLatest
<1>7. \A j \in Node : Alike(node'[j], node[j]) /\ reads'[j] = reads[j]
  BY <1>3
<1>8. /\ reads' \in [Node -> Readings] /\ parked' \in [Node -> Seq(Request)]
      /\ \A j \in Node : \A k \in 1..Len(parked'[j]) : parked'[j][k].req \in 1..Len(asked)
  BY DEF ReadInv, ReadTypes, RequestsWereMade
<1> QED
  BY <1>2, <1>4, <1>5, <1>6, <1>7, <1>8, StorageMove

\* A restart goes back to what was stored, with no requests
LEMMA RestartMove ==
    ASSUME ReadInv, NEW i \in Node, RestartReads(i), Learning(i)
    PROVE  ReadInv'
<1> DEFINE o == NewRaft(i, disk[i])
<1>1. /\ CommitInv /\ ElectionInv /\ node \in [Node -> NodeState]
      /\ disk \in [Node -> DiskState] /\ known \in Nat /\ KnownLatest
      /\ reads \in [Node -> Readings]
  BY DEF ReadInv, CommitInv, ElectionInv, TypeOK, ReadTypes
<1>2. [Next]_vars /\ Restart(i) /\ UNCHANGED <<asked, answers>>
  BY DEF Next, RestartReads
<1>3. /\ node'[i] = o /\ \A j \in Node \ {i} : node'[j] = node[j]
      /\ disk' = disk /\ msgs' = msgs
  BY <1>1, <1>2 DEF Restart
<1>4. o.state = "Follower" /\ o.commit = disk[i].commit /\ o.outbox = {}
  BY NewRaftLog, NewRaftCommit
<1> HIDE DEF o
<1>5. known' = known
  <2>1. disk[i].commit \in Nat /\ disk[i].commit =< known
    BY <1>1 DEF DiskState, KnownLatest
  <2> QED
    BY <1>1, <1>3, <1>4, <2>1, LearningIs
<1>6. AllMsgs' \subseteq AllMsgs
  <2>1. \A j \in Node : node'[j].outbox \subseteq node[j].outbox
    BY <1>3, <1>4
  <2> QED
    BY <1>3, <2>1 DEF AllMsgs
<1>7. NoReads \in Readings
  BY DEF NoReads, Readings
<1>8. /\ reads'[i] = NoReads /\ \A j \in Node \ {i} : reads'[j] = reads[j]
      /\ reads' \in [Node -> Readings]
  BY <1>1, <1>7 DEF RestartReads
<1>9. \A j \in Node : /\ disk'[j].term >= disk[j].term /\ disk'[j].term \in Nat
                      /\ disk'[j].commit =< known
  <2>1. \A j \in Node : disk[j].term \in Nat /\ disk[j].term >= disk[j].term
    BY <1>1, LogTypes
  <2> QED
    BY <1>1, <1>3, <2>1 DEF KnownLatest
<1>10. \A j \in Node : \/ Alike(node'[j], node[j]) /\ reads'[j] = reads[j]
                      \/ /\ node'[j].state = "Follower" /\ reads'[j] = NoReads
                         /\ node'[j].commit =< known
  BY <1>1, <1>3, <1>4, <1>8 DEF Alike, KnownLatest
<1>11. /\ parked' \in [Node -> Seq(Request)]
       /\ \A j \in Node : \A k \in 1..Len(parked'[j]) : parked'[j][k].req \in 1..Len(asked)
  <2>1. /\ parked \in [Node -> Seq(Request)] /\ parked' = [parked EXCEPT ![i] = <<>>]
        /\ \A j \in Node : \A k \in 1..Len(parked[j]) : parked[j][k].req \in 1..Len(asked)
    BY DEF ReadInv, ReadTypes, RequestsWereMade, RestartReads
  <2>2. parked'[i] = <<>> /\ \A j \in Node \ {i} : parked'[j] = parked[j]
    BY <2>1
  <2> QED
    BY <2>1, <2>2
<1> QED
  BY <1>2, <1>5, <1>6, <1>8, <1>9, <1>10, <1>11, StorageMove

-----------------------------------------------------------------------------
(***************************************************************************)
(* What raft does by itself.                                               *)
(***************************************************************************)

\* Raft delivers a message
LEMMA DeliverDoes ==
    ASSUME CommitInv, NEW i \in Node, NEW m \in msgs, m.to = i, Deliver(i, m)
    PROVE  \E o \in NodeState : Become(i, o) /\ Does(i, node[i], o)
<1>1. ElectionInv /\ StoredInv /\ TypeOK
  BY DEF CommitInv, ElectionInv
<1>2. PICK o \in NodeState : Become(i, o) /\ Sound(i, node[i], o)
  BY <1>1, DeliverSound
<1>3. PICK p \in NodeState : Become(i, p) /\ LogStep(i, node[i], p) /\ Roles(i, node[i], p)
  BY <1>1, DeliverLogs
<1>4. PICK r \in NodeState : Become(i, r) /\ CommitStep(i, node[i], r)
  BY <1>1, DeliverCommit
<1>5. o = p /\ o = r
  BY <1>1, <1>2, <1>3, <1>4, BecomeFrame
<1> QED
  BY <1>2, <1>3, <1>4, <1>5 DEF Does

\* A timer fires, or the application calls
LEMMA LocalDoes ==
    ASSUME CommitInv, NEW i \in Node, Local(i)
    PROVE  \E o \in NodeState : Become(i, o) /\ Does(i, node[i], o)
<1>1. ElectionInv /\ TypeOK
  BY DEF CommitInv, ElectionInv
<1>2. PICK o \in NodeState : Become(i, o) /\ Sound(i, node[i], o)
  BY <1>1, LocalSound
<1>3. PICK p \in NodeState : Become(i, p) /\ LogStep(i, node[i], p) /\ Roles(i, node[i], p)
  BY <1>1, LocalLogs
<1>4. PICK r \in NodeState : Become(i, r) /\ CommitStep(i, node[i], r)
  BY <1>1, LocalCommit
<1>5. o = p /\ o = r
  BY <1>1, <1>2, <1>3, <1>4, BecomeFrame
<1> QED
  BY <1>2, <1>3, <1>4, <1>5 DEF Does

\* A node steps an answer
LEMMA StepResponseDoes ==
    ASSUME CommitInv, NEW i \in Node, NEW m \in msgs, m.to = i,
           Receive(i, m, {"MsgVoteResp", "MsgPreVoteResp", "MsgAppResp"})
    PROVE  LET o == StepResponse(i, node[i], m)
           IN  o \in NodeState /\ Does(i, node[i], o) /\ Mute(node[i], o)
<1> DEFINE n == node[i]
           o == StepResponse(i, n, m)
<1>1. ElectionInv /\ StoredInv
  BY DEF CommitInv
<1>2. /\ m \in Message /\ m.from \in Node /\ m.term \in Nat
      /\ n \in NodeState /\ n.term \in Nat /\ disk[i].term \in Nat
  BY <1>1, MessageFields DEF ElectionInv, TypeOK, NodeState, DiskState
<1>3. m.type \in {"MsgVoteResp", "MsgPreVoteResp", "MsgAppResp"} /\ m.term >= n.term
  BY DEF Receive
<1>4. o \in NodeState /\ Mute(n, o)
  BY <1>2, <1>3, StepResponseType, StepResponseMute
<1>5. n.state = "Candidate" => n.granted \subseteq Supporters(i, n.term)
  BY <1>1 DEF ElectionInv, CountsAreVotes
<1>6. n.state = "Candidate" /\ n.granted # {} => disk[i].term >= n.term
  BY <1>1 DEF StoredInv
<1>7. IsGrant(m) => disk[i].term >= m.term
  <2> SUFFICES ASSUME IsGrant(m)
               PROVE  disk[i].term >= m.term
    OBVIOUS
  <2>1. PICK r \in msgs : r.type = "MsgVote" /\ r.from = i /\ r.term = m.term
    BY <1>1 DEF ElectionInv, GrantsAnswer, AllMsgs, Requested
  <2>2. Holds(disk[i], m.term, VoteOf(r))
    BY <1>1, <2>1 DEF ElectionInv, BallotsHold, IsBallot
  <2> QED
    BY <1>2, <2>2 DEF Holds
<1>8. Told(i, m)
  BY DEF Told
<1> HIDE DEF n
<1>9. Sound(i, n, o)
  BY <1>2, <1>3, <1>5, StepResponseSound
<1>10. LogStep(i, n, o) /\ Roles(i, n, o)
  BY <1>2, <1>3, <1>6, <1>7, StepResponseStep
<1>11. CommitStep(i, n, o)
  BY <1>2, <1>3, <1>8, StepResponseCommit
<1>12. o \in NodeState /\ Does(i, n, o) /\ Mute(n, o)
  BY <1>4, <1>9, <1>10, <1>11 DEF Does
<1> QED
  BY <1>12 DEF n

\* A node steps an answer to itself
LEMMA AdvanceDoes ==
    ASSUME CommitInv, NEW i \in Node, node[i].steps # <<>>
    PROVE  LET m == Head(node[i].steps)
               n == [node[i] EXCEPT !.steps = Tail(@)]
               o == IF m.term < n.term THEN n ELSE StepResponse(i, n, m)
           IN  o \in NodeState /\ Does(i, node[i], o) /\ Mute(node[i], o)
<1> DEFINE m == Head(node[i].steps)
           n == [node[i] EXCEPT !.steps = Tail(@)]
           r == StepResponse(i, n, m)
           Good(o) == o \in NodeState /\ Does(i, node[i], o) /\ Mute(node[i], o)
<1>1. /\ node[i] \in NodeState /\ node[i].term \in Nat /\ node[i].term >= node[i].term
      /\ node[i].steps \in Seq(VoteRespMsg \cup AppRespMsg) /\ disk[i].term \in Nat
      /\ OwnAnswers(i, node[i]) /\ ElectionInv /\ StoredInv
  <2>1. node[i] \in NodeState /\ disk[i] \in DiskState
    BY DEF CommitInv, ElectionInv, TypeOK
  <2>2. OwnAnswers(i, node[i]) /\ ElectionInv /\ StoredInv
    BY DEF CommitInv, ElectionInv
  <2>3. /\ node[i].term \in Nat
        /\ node[i].steps \in Seq(VoteRespMsg \cup AppRespMsg)
    BY <2>1 DEF NodeState
  <2>4. disk[i].term \in Nat
    BY <2>1 DEF DiskState
  <2> QED
    BY <2>1, <2>2, <2>3, <2>4
<1>2. /\ m \in VoteRespMsg \cup AppRespMsg /\ m = node[i].steps[1]
      /\ Tail(node[i].steps) \in Seq(VoteRespMsg \cup AppRespMsg)
      /\ Len(node[i].steps) \in Nat \ {0} /\ 1 \in 1..Len(node[i].steps)
      /\ \A k \in 1..Len(Tail(node[i].steps)) :
            /\ Tail(node[i].steps)[k] = node[i].steps[k + 1]
            /\ k + 1 \in 1..Len(node[i].steps)
  BY <1>1
<1>3. /\ m \in Message /\ m.type \in {"MsgVoteResp", "MsgPreVoteResp", "MsgAppResp"}
      /\ m.term \in Nat /\ Told(i, m)
  BY <1>2 DEF Message, VoteRespMsg, AppRespMsg, Told
<1>4. m.from = i
  BY <1>1, <1>2 DEF OwnAnswers
<1>5. /\ n \in NodeState /\ n.term = node[i].term /\ n.vote = node[i].vote
      /\ n.state = node[i].state /\ n.granted = node[i].granted
      /\ n.outbox = node[i].outbox /\ n.log = node[i].log
      /\ n.self = node[i].self /\ n.steps = Tail(node[i].steps)
  BY <1>1, <1>2 DEF NodeState
<1>6. Follows(node[i], n)
  BY <1>1, SetFollows
<1>7. IsGrant(m) => disk[i].term >= m.term
  <2>1. node[i].steps[1].type = "MsgVoteResp" => node[i].steps[1].term =< disk[i].term
    BY <1>1, <1>2 DEF StoredInv
  <2> QED
    BY <1>1, <1>2, <1>3, <2>1 DEF IsGrant
<1> HIDE DEF m, n
<1>8. Calm(i, node[i], n) /\ Mute(node[i], n)
  <2>1. OwnAnswers(i, n)
    BY <1>1, <1>2, <1>5 DEF OwnAnswers
  <2>2. n.term >= node[i].term
    BY <1>1, <1>5
  <2> QED
    BY <1>5, <2>1, <2>2, SameMute DEF Calm
<1>9. ASSUME NEW p \in NodeState, LogStep(i, n, p), Roles(i, n, p)
      PROVE  LogStep(i, node[i], p) /\ Roles(i, node[i], p)
  <2>1. \A k \in 1..Len(p.steps) :
           \E l \in 1..Len(node[i].steps) : p.steps[k] = node[i].steps[l]
    <3> SUFFICES ASSUME NEW k \in 1..Len(p.steps)
                 PROVE  \E l \in 1..Len(node[i].steps) : p.steps[k] = node[i].steps[l]
      OBVIOUS
    <3>1. PICK l \in 1..Len(n.steps) : p.steps[k] = n.steps[l]
      BY <1>9 DEF LogStep
    <3> QED
      BY <1>2, <1>5, <3>1
  <2>2. VotesCast(node[i]) => VotesCast(n)
    BY <1>5 DEF VotesCast
  <2>3. LogStep(i, node[i], p)
    BY <1>5, <1>9, <2>1, <2>2 DEF LogStep
  <2>4. Roles(i, node[i], p)
    BY <1>5, <1>9 DEF Roles
  <2> QED
    BY <2>3, <2>4
<1>10. Good(n)
  <2>1. Sound(i, node[i], n) /\ Roles(i, n, n) /\ CommitStep(i, node[i], n)
    BY <1>1, <1>5, <1>6, <1>8, CalmIsSound, FollowsSpeaks DEF Roles
  <2>2. LogStep(i, n, n)
    BY <1>1, <1>5, SetQuiet, QuietIsStep
  <2>3. LogStep(i, node[i], n) /\ Roles(i, node[i], n)
    BY <1>5, <1>9, <2>1, <2>2
  <2> QED
    BY <1>5, <1>8, <2>1, <2>3 DEF Does
<1>11. ASSUME ~(m.term < n.term)
       PROVE  Good(r)
  <2>1. m.term >= n.term
    BY <1>1, <1>3, <1>5, <1>11
  <2>2. n.state = "Candidate" => n.granted \subseteq Supporters(i, n.term)
    BY <1>1, <1>5 DEF ElectionInv, CountsAreVotes
  <2>3. n.state = "Candidate" /\ n.granted # {} => disk[i].term >= n.term
    BY <1>1, <1>5 DEF StoredInv
  <2>4. r \in NodeState /\ Mute(n, r) /\ Sound(i, n, r)
    BY <1>3, <1>4, <1>5, <2>1, <2>2, StepResponseSound, StepResponseType, StepResponseMute
  <2>5. LogStep(i, n, r) /\ Roles(i, n, r)
    BY <1>1, <1>3, <1>5, <1>7, <2>1, <2>3, StepResponseStep
  <2>6. CommitStep(i, n, r)
    BY <1>3, <1>5, <2>1, StepResponseCommit
  <2> HIDE DEF r
  <2>7. Sound(i, node[i], r)
    BY <1>1, <1>5, <1>8, <2>4, CalmThenSound
  <2>8. LogStep(i, node[i], r) /\ Roles(i, node[i], r)
    BY <1>9, <2>4, <2>5
  <2>9. CommitStep(i, node[i], r)
    BY <1>1, <1>5, <1>6, <2>4, <2>6, FollowsThen
  <2>10. Mute(node[i], r)
    BY <1>8, <2>4, MuteTrans
  <2> QED
    BY <2>4, <2>7, <2>8, <2>9, <2>10 DEF Does
<1> HIDE DEF r
<1>12. Good(IF m.term < n.term THEN n ELSE r)
  <2> HIDE DEF Good
  <2> QED
    BY <1>10, <1>11
<1> QED
  BY <1>12 DEF m, n, r

\* A leader that commits something commits an entry of its term
LEMMA CommitsCurrent ==
    ASSUME NEW i \in Node, NEW n \in NodeState, NEW o \in NodeState, CommitStep(i, n, o),
           o.state = "Leader", o.commit > n.commit
    PROVE  CommittedEntryInCurrentTerm(o)
<1>1. o.commit # n.commit
  BY DEF NodeState
<1>2. CommitsOwn(o)
  BY <1>1 DEF CommitStep, Speaks, Appends, Takes, Beats
<1> QED
  BY <1>2 DEF CommitsOwn, CommittedEntryInCurrentTerm, TermAt

\* The requests that were postponed are noted
LEMMA ReleasedHums ==
    ASSUME NEW i \in Node, NEW n \in NodeState, n.state = "Leader", reads[i] \in Readings,
           parked[i] \in Seq(Request)
    PROVE  LET p == Released(i, n)
           IN  /\ p \in NodeState /\ Hums(i, n, p)
               /\ \A m \in p.outbox \ n.outbox :
                     /\ m.type = "MsgHeartbeat" /\ m.from = i /\ m.term = n.term
                     /\ m.ctx =< Noted(i, n, reads[i], parked[i]).count
<1> DEFINE c == reads[i].count + Len(parked[i])
           ctxs == reads[i].count + 1 .. c
           b == BcastHeartbeat(i, n, ctxs)
           pr(j) == IF n.prog[j].sentCommit = n.commit THEN n.prog[j] ELSE b.prog[j]
           p == [b EXCEPT !.prog = [j \in Node |-> pr(j)]]
<1>1. reads[i].count \in Nat /\ Len(parked[i]) \in Nat
  BY DEF Readings
<1>2. ctxs \in SUBSET Nat /\ \A x \in ctxs : x =< c
  BY <1>1
<1>3. Noted(i, n, reads[i], parked[i]).count = c
  BY DEF Noted
<1>4. Released(i, n) = p
  BY DEF Released, Rounds
<1> HIDE DEF c, ctxs
<1>5. b \in NodeState
  BY <1>2, BcastHeartbeatType
<1>6. /\ Hums(i, n, b)
      /\ \A m \in b.outbox \ n.outbox :
            m.type = "MsgHeartbeat" /\ m.from = i /\ m.term = n.term /\ m.ctx \in ctxs
  BY <1>2, BcastHeartbeatHums
<1> HIDE DEF b
<1>7. \A j \in Node : pr(j) \in Progress /\ pr(j).match = n.prog[j].match
  BY <1>5, <1>6 DEF NodeState, Hums
<1> HIDE DEF pr
<1>8. /\ p \in NodeState /\ p.term = b.term /\ p.vote = b.vote /\ p.state = b.state
      /\ p.granted = b.granted /\ p.log = b.log /\ p.commit = b.commit /\ p.self = b.self
      /\ p.steps = b.steps /\ p.outbox = b.outbox /\ \A j \in Node : p.prog[j] = pr(j)
  BY <1>5, <1>7 DEF NodeState
<1> HIDE DEF p
<1>9. Hums(i, n, p)
  BY <1>6, <1>7, <1>8 DEF Hums
<1>10. \A m \in p.outbox \ n.outbox :
          m.type = "MsgHeartbeat" /\ m.from = i /\ m.term = n.term /\ m.ctx =< c
  BY <1>2, <1>6, <1>8
<1> QED
  BY <1>3, <1>4, <1>8, <1>9, <1>10

\* An answer is stepped, after which requests that were postponed may be noted
LEMMA AfterMove ==
    ASSUME ReadInv, NEW i \in Node, NEW n \in NodeState, Does(i, node[i], n),
           Mute(node[i], n), After(i, n), Learning(i)
    PROVE  ReadInv'
<1>1. /\ \A a \in answers : MayAnswer(a[1], a[2])
      /\ node[i] \in NodeState /\ reads[i] \in Readings /\ parked \in [Node -> Seq(Request)]
      /\ RequestsWereMade /\ asked' = asked /\ answers' = answers /\ Asking
  BY DEF ReadInv, CommitInv, ElectionInv, TypeOK, ReadTypes, AnswersFit, After, Asking
<1>2. CASE StaysLeader(i, n) /\ n.commit > node[i].commit /\ parked[i] # <<>>
  <2> DEFINE p == Released(i, n)
             q == Noted(i, n, reads[i], parked[i])
  <2>1. /\ Become(i, p) /\ reads' = [reads EXCEPT ![i] = q]
        /\ parked' = [parked EXCEPT ![i] = <<>>]
    BY <1>2 DEF After
  <2>2. n.state = "Leader" /\ CommitStep(i, node[i], n)
    BY <1>2 DEF StaysLeader, Does
  <2>3. /\ p \in NodeState /\ Hums(i, n, p)
        /\ \A m \in p.outbox \ n.outbox :
              m.type = "MsgHeartbeat" /\ m.from = i /\ m.term = n.term /\ m.ctx =< q.count
    BY <1>1, <2>2, ReleasedHums
  <2>4. q = Noted(i, p, reads[i], parked[i])
    BY <2>3 DEF Noted, Hums
  <2>5. CommittedEntryInCurrentTerm(n)
    BY <1>1, <1>2, <2>2, CommitsCurrent
  <2> HIDE DEF p, q
  <2>6. Does(i, node[i], p)
    BY <1>1, <2>3, HumsAfter
  <2>7. StaysLeader(i, p) /\ CommittedEntryInCurrentTerm(p) /\ p.state = "Leader"
    BY <1>2, <2>3, <2>5 DEF Hums, StaysLeader, CommittedEntryInCurrentTerm
  <2>8. Turns(i, p, q)
    <3>1. parked[i] \in Seq(Request) /\ \A k \in 1..Len(parked[i]) : parked[i][k].req \in 1..Len(asked')
      BY <1>1 DEF RequestsWereMade
    <3> QED
      BY <2>4, <2>7, <3>1 DEF Turns
  <2>9. Utters(i, p, q)
    <3>1. \A m \in p.outbox \ node[i].outbox :
             m \in p.outbox \ n.outbox \/ m.type \notin OfReads
      BY DEF Mute
    <3> QED
      BY <2>3, <2>7, <3>1 DEF Utters, OfReads, Hums
  <2>10. /\ parked' \in [Node -> Seq(Request)]
         /\ \A j \in Node : \A k \in 1..Len(parked'[j]) : parked'[j][k].req \in 1..Len(asked')
    BY <1>1, <2>1 DEF RequestsWereMade
  <2>11. ReadMove(i, p, q)
    BY <1>1, <2>1, <2>6, <2>8, <2>9, <2>10 DEF ReadMove
  <2> QED
    BY <2>3, <2>11, ReadInvMove
<1>3. CASE ~(StaysLeader(i, n) /\ n.commit > node[i].commit /\ parked[i] # <<>>)
  <2>1. /\ Become(i, n) /\ reads' = [reads EXCEPT ![i] = ReadsWith(i, n)]
        /\ UNCHANGED <<parked, asked>>
    BY <1>3 DEF After
  <2>2. Utters(i, n, ReadsWith(i, n))
    BY MuteUtters
  <2> QED
    BY <1>1, <2>1, <2>2, OtherMove
<1> QED
  BY <1>2, <1>3

-----------------------------------------------------------------------------
(***************************************************************************)
(* What nodes say of heartbeats.                                           *)
(***************************************************************************)

\* An answer to a heartbeat repeats its ctx
LEMMA StepHeartbeatUtters ==
    ASSUME ElectionInv, NEW i \in Node, NEW m \in msgs, m.type = "MsgHeartbeat",
           m.term >= node[i].term, NEW q
    PROVE  Utters(i, StepHeartbeat(i, AtTermOf(i, node[i], m), m), q)
<1> DEFINE a == AtTermOf(i, node[i], m)
           f == FollowSender(i, a, m)
           c == CommitTo(f, m.commit)
           r == HeartbeatResp(i, a, m)
           o == Send(c, {r})
<1>1. m \in Message /\ m.from \in Node /\ m.term \in Nat /\ m.commit \in Nat /\ node[i] \in NodeState
  BY MessageFields DEF HeartbeatMsg, ElectionInv, TypeOK
<1>2. a \in NodeState /\ a.outbox = node[i].outbox /\ a.term = m.term
  BY <1>1, AtTermOfType, AtTermOfStill, AtTermOfCalm DEF Still
<1> HIDE DEF a
<1>3. f \in NodeState /\ f.outbox = a.outbox
  BY <1>1, <1>2, FollowSenderType, FollowSenderStill DEF Still
<1>4. f.term = m.term
  BY <1>2 DEF FollowSender, BecomeFollower, Reset, NodeState
<1> HIDE DEF f
<1>5. c \in NodeState /\ c.outbox = f.outbox /\ c.term = f.term
  BY <1>1, <1>3, CommitToType DEF CommitTo, NodeState
<1> HIDE DEF c
<1>6. o.outbox = c.outbox \cup {r} /\ o.term = c.term
  BY <1>5 DEF Send, NodeState
<1>7. /\ r.type = "MsgHeartbeatResp" /\ r.from = i /\ r.term = m.term /\ r.to = m.from
      /\ r.ctx = m.ctx
  BY <1>2 DEF HeartbeatResp
<1> HIDE DEF o, r
<1>8. Utters(i, o, q)
  <2> SUFFICES ASSUME NEW x \in o.outbox \ node[i].outbox
               PROVE  /\ x.type = "MsgHeartbeatResp" /\ x.from = i /\ x.term = o.term
                      /\ \E h \in msgs : /\ h.type = "MsgHeartbeat" /\ h.from = x.to
                                         /\ h.term = x.term /\ h.ctx = x.ctx
    BY DEF Utters
  <2>1. x = r
    BY <1>2, <1>3, <1>5, <1>6
  <2> QED
    BY <1>4, <1>5, <1>6, <1>7, <2>1
<1>9. StepHeartbeat(i, a, m) \in {a, o}
  BY DEF StepHeartbeat, f, c, r, o
<1>10. Utters(i, a, q)
  BY <1>2 DEF Utters
<1> QED
  BY <1>8, <1>9, <1>10 DEF a

\* What raft says when a message is delivered that is not about reads
LEMMA DeliverUtters ==
    ASSUME ElectionInv, NEW i \in Node, NEW m \in msgs, m.to = i, Plain(m), Deliver(i, m),
           NEW o \in NodeState, Become(i, o), NEW q
    PROVE  Utters(i, o, q)
<1> DEFINE n == node[i]
           a == AtTermOf(i, n, m)
<1>1. m \in Message /\ m.from \in Node /\ n \in NodeState
  BY MessageFields DEF ElectionInv, TypeOK
<1>2. a \in NodeState /\ Mute(n, a) /\ Mute(n, n)
  BY <1>1, AtTermOfType, AtTermOfStill, StillMute, SameMute
<1>3. ASSUME NEW x, Become(i, x)
      PROVE  x = o
  BY <1>3 DEF Become, ElectionInv, TypeOK
<1>4. ASSUME NEW x, Become(i, x), Mute(n, x)
      PROVE  Utters(i, o, q)
  BY <1>3, <1>4, MuteUtters
<1>5. ASSUME NEW x, Become(i, x), Mute(a, x)
      PROVE  Utters(i, o, q)
  BY <1>2, <1>4, <1>5, MuteTrans
<1>6. Mute(a, a)
  BY SameMute
<1> HIDE DEF a
<1>7. CASE ReceiveLowerTerm(i, m)
  BY <1>1, <1>4, <1>7, StepLowerTermMute DEF ReceiveLowerTerm
<1>8. CASE ReceiveVote(i, m)
  BY <1>1, <1>2, <1>5, <1>8, StepVoteMute DEF ReceiveVote, a
<1>9. CASE ReceiveResponse(i, m)
  BY <1>9 DEF ReceiveResponse, Receive, Plain
<1>10. CASE ReceiveApp(i, m)
  <2>1. m.type = "MsgApp" /\ Become(i, StepApp(i, a, m))
    BY <1>10 DEF ReceiveApp, Receive, a
  <2> QED
    BY <1>1, <1>2, <1>5, <2>1, StepAppMute
<1>11. CASE ReceiveHeartbeat(i, m)
  <2>1. /\ m.type = "MsgHeartbeat" /\ m.term >= node[i].term
        /\ Become(i, StepHeartbeat(i, AtTermOf(i, node[i], m), m))
    BY <1>11 DEF ReceiveHeartbeat, Receive
  <2> QED
    BY <1>3, <2>1, StepHeartbeatUtters
<1>12. CASE ReceiveHeartbeatResp(i, m)
  <2>1. Become(i, IF a.state = "Leader" THEN StepHeartbeatResp(i, a, m) ELSE a)
    BY <1>12 DEF ReceiveHeartbeatResp, a
  <2>2. Mute(a, StepHeartbeatResp(i, a, m))
    BY <1>1, <1>2, StepHeartbeatRespMute
  <2> QED
    BY <1>5, <1>6, <2>1, <2>2
<1>13. CASE ReceiveTimeoutNow(i, m)
  <2>1. Become(i, IF a.state = "Follower" THEN Campaign(i, a, FALSE) ELSE a)
    BY <1>13 DEF ReceiveTimeoutNow, a
  <2>2. Mute(a, Campaign(i, a, FALSE))
    BY <1>2, CampaignMute
  <2> QED
    BY <1>5, <1>6, <2>1, <2>2
<1>14. CASE ReceiveTransferLeader(i, m)
  <2>1. Become(i, StepTransferLeader(i, a, m.from))
    BY <1>14 DEF ReceiveTransferLeader, a
  <2> QED
    BY <1>1, <1>2, <1>5, <2>1, StepTransferLeaderMute
<1>15. CASE ReceiveProp(i, m)
  <2>1. m.val \in Value /\ Become(i, StepProp(i, n, m.val))
    BY <1>1, <1>15, MessageFields DEF ReceiveProp, PropMsg
  <2> QED
    BY <1>1, <1>4, <2>1, StepPropMute
<1> QED
  BY <1>7, <1>8, <1>9, <1>10, <1>11, <1>12, <1>13, <1>14, <1>15 DEF Deliver

\* A heartbeat of the timer asks for no confirmation
LEMMA LocalUtters ==
    ASSUME ElectionInv, NEW i \in Node, Local(i), NEW o \in NodeState, Become(i, o),
           NEW q \in Readings
    PROVE  Utters(i, o, q)
<1> DEFINE n == node[i]
<1>1. n \in NodeState /\ n.term \in Nat
  BY DEF ElectionInv, TypeOK, NodeState
<1>2. ASSUME NEW x, Become(i, x)
      PROVE  x = o
  BY <1>2 DEF Become, ElectionInv, TypeOK
<1>3. ASSUME NEW x, Become(i, x), Mute(n, x)
      PROVE  Utters(i, o, q)
  BY <1>2, <1>3, MuteUtters
<1>4. CASE Hup(i)
  <2>1. Become(i, Campaign(i, n, PreVote)) /\ PreVote \in BOOLEAN
    BY <1>4, OptionAssumption DEF Hup
  <2>2. Mute(n, Campaign(i, n, PreVote))
    BY <1>1, <2>1, CampaignMute
  <2> QED
    BY <1>3, <2>1, <2>2
<1>5. CASE Beat(i)
  <2> DEFINE b == BcastHeartbeat(i, n, {0})
  <2>1. Become(i, b) /\ n.state = "Leader"
    BY <1>5 DEF Beat
  <2>2. /\ Hums(i, n, b)
        /\ \A m \in b.outbox \ n.outbox :
              m.type = "MsgHeartbeat" /\ m.from = i /\ m.term = n.term /\ m.ctx \in {0}
    BY <1>1, <2>1, BcastHeartbeatHums
  <2> HIDE DEF b
  <2>3. b = o
    BY <1>2, <2>1
  <2>4. q.count \in Nat /\ b.state = "Leader" /\ b.term = n.term
    BY <2>1, <2>2 DEF Readings, Hums
  <2> QED
    BY <2>2, <2>3, <2>4 DEF Utters
<1>6. CASE CheckQuorumFails(i)
  <2>1. Become(i, BecomeFollower(i, n, n.term, None))
    BY <1>6 DEF CheckQuorumFails
  <2> QED
    BY <1>1, <1>3, <2>1, BecomeFollowerStill, StillMute
<1>7. CASE AbortTransfer(i)
  <2>1. Become(i, [n EXCEPT !.transferee = None])
    BY <1>7 DEF AbortTransfer
  <2> QED
    BY <1>1, <1>3, <2>1 DEF Mute, NodeState
<1>8. CASE \E val \in Value : Propose(i, val)
  <2>1. PICK val \in Value : Become(i, StepProp(i, n, val))
    BY <1>8 DEF Propose
  <2> QED
    BY <1>1, <1>3, <2>1, StepPropMute
<1>9. CASE \E to \in Node : TransferLeader(i, to)
  <2>1. PICK to \in Node : Become(i, StepTransferLeader(i, n, to))
    BY <1>9 DEF TransferLeader
  <2> QED
    BY <1>1, <1>3, <2>1, StepTransferLeaderMute
<1>10. CASE ForgetLeader(i)
  <2>1. Become(i, [n EXCEPT !.lead = None])
    BY <1>10 DEF ForgetLeader
  <2> QED
    BY <1>1, <1>3, <2>1 DEF Mute, NodeState
<1>11. CASE \E j \in Node \ {i} : ReportUnreachable(i, j)
  <2>1. PICK j \in Node : Become(i, [n EXCEPT !.prog[j] = BecomeProbe(@)])
    BY <1>11 DEF ReportUnreachable
  <2> QED
    BY <1>1, <1>3, <2>1 DEF Mute, NodeState
<1> QED
  BY <1>4, <1>5, <1>6, <1>7, <1>8, <1>9, <1>10, <1>11 DEF Local

-----------------------------------------------------------------------------
(***************************************************************************)
(* What reads do.                                                          *)
(***************************************************************************)

\* The highest commit index
LEMMA LatestCommit ==
    ASSUME ElectionInv
    PROVE  LET x == Max({node[j].commit : j \in Node})
           IN  /\ x \in Nat /\ \E j \in Node : x = node[j].commit
               /\ \A j \in Node : node[j].commit =< x
<1> DEFINE f == [j \in Node |-> node[j].commit]
           S == {node[j].commit : j \in Node}
<1>1. \A j \in Node : node[j].commit \in Nat /\ f[j] = node[j].commit
  BY LogTypes DEF NodeState
<1> HIDE DEF f
<1>2. PICK k \in Node : \A j \in Node : f[j] =< f[k]
  BY <1>1, LargestOf
<1> DEFINE c == node[k].commit
<1>3. c \in Nat /\ S \in SUBSET (0..c) /\ S # {}
  BY <1>1, <1>2
<1> HIDE DEF c
<1>4. Max(S) \in S /\ \A y \in S : Max(S) >= y
  <2> HIDE DEF S
  <2> QED
    BY <1>3, MaxIn
<1>5. \A j \in Node : node[j].commit \in S
  OBVIOUS
<1>6. \E j \in Node : Max(S) = node[j].commit
  BY <1>4
<1> HIDE DEF S
<1>7. Max(S) \in Nat /\ \A j \in Node : node[j].commit =< Max(S)
  BY <1>1, <1>4, <1>5, <1>6
<1> QED
  BY <1>6, <1>7 DEF S

\* A request that waits is one that was asked for
LEMMA StillMade ==
    ASSUME ReadInv, Asking
    PROVE  /\ parked \in [Node -> Seq(Request)]
           /\ \A j \in Node : \A k \in 1..Len(parked[j]) : parked[j][k].req \in 1..Len(asked')
<1>1. \A r \in 1..Len(asked) : r \in 1..Len(asked')
  BY AskedKept DEF ReadInv, ReadTypes
<1> QED
  BY <1>1 DEF ReadInv, ReadTypes, RequestsWereMade

\* MsgReadIndex
LEMMA StepReadIndexMove ==
    ASSUME ReadInv, NEW i \in Node, NEW r \in Request, r.req \in 1..Len(asked'), Asking,
           StepReadIndex(i, r), Learning(i)
    PROVE  ReadInv'
<1> DEFINE n == node[i]
           s == IF r.from = None THEN i ELSE r.from
           forward == [type |-> "MsgReadIndex", from |-> s, to |-> n.lead, term |-> 0,
                       req |-> r.req]
<1>1. /\ n \in NodeState /\ reads \in [Node -> Readings] /\ reads[i] \in Readings
      /\ answers' = answers /\ \A a \in answers : MayAnswer(a[1], a[2])
      /\ InOrder(n, reads[i])
  BY DEF ReadInv, CommitInv, ElectionInv, TypeOK, ReadTypes, AnswersFit, StepReadIndex
<1>2. /\ parked \in [Node -> Seq(Request)]
      /\ \A j \in Node : \A k \in 1..Len(parked[j]) : parked[j][k].req \in 1..Len(asked')
  BY StillMade
<1>3. Does(i, n, n)
  BY <1>1, SelfDoes
<1>4. \/ /\ n.state = "Leader" /\ CommittedEntryInCurrentTerm(n)
         /\ Become(i, Rounds(i, n, reads[i], <<r>>))
         /\ reads' = [reads EXCEPT ![i] = Noted(i, n, reads[i], <<r>>)]
         /\ parked' = parked
      \/ /\ parked' = [parked EXCEPT ![i] = Append(parked[i], r)]
         /\ UNCHANGED <<vars, reads>>
      \/ /\ n.state = "Follower" /\ n.lead # None
         /\ Become(i, Send(n, {forward}))
         /\ reads' = reads /\ parked' = parked
  BY DEF StepReadIndex
<1> HIDE DEF n, forward
<1>5. CASE /\ n.state = "Leader" /\ CommittedEntryInCurrentTerm(n)
           /\ Become(i, Rounds(i, n, reads[i], <<r>>))
           /\ reads' = [reads EXCEPT ![i] = Noted(i, n, reads[i], <<r>>)]
           /\ parked' = parked
  <2> DEFINE c == reads[i].count + Len(<<r>>)
             ctxs == reads[i].count + 1 .. c
             o == BcastHeartbeat(i, n, ctxs)
             q == Noted(i, n, reads[i], <<r>>)
  <2>1. reads[i].count \in Nat /\ ctxs \in SUBSET Nat /\ \A x \in ctxs : x =< c
    BY <1>1 DEF Readings
  <2>2. q.count = c /\ Become(i, o)
    BY <1>5 DEF Noted, Rounds
  <2> HIDE DEF ctxs, c
  <2>3. o \in NodeState
    BY <1>1, <2>1, BcastHeartbeatType
  <2>4. /\ Hums(i, n, o)
        /\ \A m \in o.outbox \ n.outbox :
              m.type = "MsgHeartbeat" /\ m.from = i /\ m.term = n.term /\ m.ctx \in ctxs
    BY <1>1, <1>5, <2>1, BcastHeartbeatHums
  <2> HIDE DEF o
  <2>5. q = Noted(i, o, reads[i], <<r>>)
    BY <2>4 DEF Noted, Hums
  <2> HIDE DEF q
  <2>6. Does(i, n, o)
    BY <1>1, <1>3, <2>3, <2>4, HumsAfter
  <2>7. StaysLeader(i, o) /\ CommittedEntryInCurrentTerm(o) /\ o.state = "Leader" /\ o.term = n.term
    BY <1>5, <2>4 DEF Hums, StaysLeader, CommittedEntryInCurrentTerm, n
  <2>8. <<r>> \in Seq(Request) /\ \A k \in 1..Len(<<r>>) : <<r>>[k].req \in 1..Len(asked')
    OBVIOUS
  <2>9. Turns(i, o, q)
    BY <2>5, <2>7, <2>8 DEF Turns
  <2>10. Utters(i, o, q)
    BY <2>1, <2>2, <2>4, <2>7 DEF Utters, n
  <2>11. ReadMove(i, o, q)
    BY <1>1, <1>2, <1>5, <2>2, <2>6, <2>9, <2>10 DEF ReadMove, n, q
  <2> QED
    BY <2>3, <2>11, ReadInvMove
<1>6. CASE parked' = [parked EXCEPT ![i] = Append(parked[i], r)] /\ UNCHANGED <<vars, reads>>
  <2> DEFINE s2 == Append(parked[i], r)
  <2>1. parked[i] \in Seq(Request)
    BY <1>2
  <2>2. /\ s2 \in Seq(Request) /\ Len(s2) = Len(parked[i]) + 1 /\ Len(parked[i]) \in Nat
        /\ s2[Len(parked[i]) + 1] = r /\ \A k \in 1..Len(parked[i]) : s2[k] = parked[i][k]
    BY <2>1
  <2>3. \A k \in 1..Len(s2) : k \in 1..Len(parked[i]) \/ k = Len(parked[i]) + 1
    BY <2>2
  <2>4. \A k \in 1..Len(s2) : s2[k].req \in 1..Len(asked')
    BY <1>2, <2>2, <2>3
  <2>5. /\ parked' \in [Node -> Seq(Request)] /\ parked'[i] = s2
        /\ \A j \in Node \ {i} : parked'[j] = parked[j]
    BY <1>2, <1>6, <2>2
  <2> HIDE DEF s2
  <2>6. \A j \in Node : \A k \in 1..Len(parked'[j]) : parked'[j][k].req \in 1..Len(asked')
    BY <1>2, <2>4, <2>5
  <2> QED
    BY <1>1, <1>6, <2>5, <2>6, PauseMove
<1>7. CASE /\ n.state = "Follower" /\ n.lead # None /\ Become(i, Send(n, {forward}))
           /\ reads' = reads /\ parked' = parked
  <2> DEFINE o == Send(n, {forward})
  <2>1. /\ forward.type = "MsgReadIndex" /\ forward.req \in 1..Len(asked') /\ forward \in Message
    <3>1. s \in Node /\ n.lead \in Node /\ r.req \in Nat
      BY <1>1, <1>7 DEF Request, NodeState
    <3>2. forward \in ReadIndexMsg
      BY <3>1 DEF forward, ReadIndexMsg
    <3> QED
      BY <3>2 DEF forward, Message
  <2>2. Hums(i, n, o) /\ o \in NodeState /\ o.outbox = n.outbox \cup {forward}
    BY <1>1, <2>1, SendHums
  <2>3. Does(i, n, o)
    BY <1>1, <1>3, <2>2, HumsAfter
  <2> HIDE DEF o
  <2>4. o.state = "Follower" /\ reads[i] = NoReads /\ Become(i, o)
    BY <1>1, <1>7, <2>2 DEF Hums, InOrder, o
  <2>5. Turns(i, o, reads[i])
    BY <2>4 DEF Turns, StaysLeader
  <2>6. Utters(i, o, reads[i])
    BY <2>1, <2>2 DEF Utters, n
  <2>7. reads' = [reads EXCEPT ![i] = reads[i]]
    BY <1>1, <1>7
  <2>8. ReadMove(i, o, reads[i])
    BY <1>1, <1>2, <1>7, <2>3, <2>4, <2>5, <2>6, <2>7 DEF ReadMove, n
  <2> QED
    BY <2>2, <2>8, ReadInvMove
<1> QED
  BY <1>4, <1>5, <1>6, <1>7

\* The heartbeat of a leader with requests
LEMMA BeatReadsMove ==
    ASSUME ReadInv, NEW i \in Node, BeatReads(i), Learning(i)
    PROVE  ReadInv'
<1> DEFINE n == node[i]
           ctxs == {reads[i].count}
           o == BcastHeartbeat(i, n, ctxs)
<1>1. /\ n \in NodeState /\ reads \in [Node -> Readings] /\ reads[i] \in Readings
      /\ InOrder(n, reads[i]) /\ \A a \in answers : MayAnswer(a[1], a[2])
      /\ reads' = reads /\ parked' = parked /\ asked' = asked /\ answers' = answers /\ Asking
  BY DEF ReadInv, CommitInv, ElectionInv, TypeOK, ReadTypes, AnswersFit, BeatReads, Asking
<1>2. reads[i].queue # <<>> /\ Become(i, o)
  BY DEF BeatReads
<1>3. n.state = "Leader"
  BY <1>1, <1>2 DEF InOrder, NoReads
<1>4. reads[i].count \in Nat /\ ctxs \in SUBSET Nat
  BY <1>1 DEF Readings
<1>5. o \in NodeState
  BY <1>1, <1>4, BcastHeartbeatType
<1>6. /\ Hums(i, n, o)
      /\ \A m \in o.outbox \ n.outbox :
            m.type = "MsgHeartbeat" /\ m.from = i /\ m.term = n.term /\ m.ctx \in ctxs
  BY <1>1, <1>3, <1>4, BcastHeartbeatHums
<1> HIDE DEF o
<1>7. Does(i, n, o)
  BY <1>1, <1>5, <1>6, SelfDoes, HumsAfter
<1>8. o.state = "Leader" /\ o.term = n.term /\ Turns(i, o, reads[i])
  BY <1>3, <1>6 DEF Hums, Turns, StaysLeader
<1>9. Utters(i, o, reads[i])
  BY <1>4, <1>6, <1>8 DEF Utters
<1>10. reads' = [reads EXCEPT ![i] = reads[i]]
  BY <1>1
<1>11. ReadMove(i, o, reads[i])
  BY <1>1, <1>2, <1>7, <1>8, <1>9, <1>10, StillMade DEF ReadMove
<1> QED
  BY <1>5, <1>11, ReadInvMove

\* An answer to a heartbeat leaves a leader in its term
LEMMA StepHeartbeatRespStays ==
    ASSUME NEW i \in Node, NEW n \in NodeState, NEW m \in Message
    PROVE  LET o == StepHeartbeatResp(i, n, m) IN o.state = n.state /\ o.term = n.term
<1> DEFINE r == [n EXCEPT !.prog[m.from].paused = FALSE]
<1>1. r.state = n.state /\ r.term = n.term /\ StepHeartbeatResp(i, n, m) \in
         {r, MaybeSendAppend(i, r, {m.from}, TRUE)}
  BY DEF StepHeartbeatResp, NodeState
<1>2. DOMAIN r = DOMAIN n
  OBVIOUS
<1> HIDE DEF r
<1>3. /\ MaybeSendAppend(i, r, {m.from}, TRUE).state = r.state
      /\ MaybeSendAppend(i, r, {m.from}, TRUE).term = r.term
  BY <1>2 DEF MaybeSendAppend, NodeState
<1> QED
  BY <1>1, <1>3

\* What an answer to a heartbeat confirms is answered
LEMMA HeartbeatRespCtxMove ==
    ASSUME ReadInv, NEW i \in Node, NEW m \in msgs, m.to = i,
           ReceiveHeartbeatRespCtx(i, m), Learning(i)
    PROVE  ReadInv'
<1> DEFINE n == AtTermOf(i, node[i], m)
           heard == StepHeartbeatResp(i, n, m)
           p == RecvAck(reads[i], m.from, m.ctx)
           q == Forget(p)
           others == {x \in Resolved(p) : ~OwnAnswer(i, x)}
           ms == {ReadResp(i, n, r) : r \in others}
           own == {<<r.req, r.index>> : r \in {x \in Resolved(p) : OwnAnswer(i, x)}}
           o == Send(heard, ms)
<1>1. /\ CommitInv /\ ElectionInv /\ node[i] \in NodeState /\ node[i].term \in Nat
      /\ \A a \in answers : MayAnswer(a[1], a[2])
  BY DEF ReadInv, CommitInv, ElectionInv, TypeOK, NodeState, AnswersFit
<1>2. /\ m \in Message /\ m.term \in Nat /\ m.type = "MsgHeartbeatResp" /\ m.ctx > 0
      /\ m.term >= node[i].term
  BY <1>1, MessageFields DEF ElectionInv, TypeOK, ReceiveHeartbeatRespCtx, Receive
<1>3. n \in NodeState /\ Does(i, node[i], n) /\ Mute(node[i], n)
  BY <1>1, <1>2, AtTermOfType, AtTermOfDoes, AtTermOfStill, StillMute
<1>4. CASE n.state # "Leader"
  <2>1. /\ Become(i, n) /\ reads' = [reads EXCEPT ![i] = ReadsWith(i, node'[i])]
        /\ UNCHANGED <<parked, asked, answers>>
    BY <1>4 DEF ReceiveHeartbeatRespCtx, Otherwise
  <2>2. node'[i] = n
    BY <1>1, <1>3, <2>1, BecomeFrame
  <2>3. Utters(i, n, ReadsWith(i, n))
    BY <1>3, MuteUtters
  <2> HIDE DEF n
  <2> QED
    BY <1>1, <1>3, <2>1, <2>2, <2>3, OtherMove
<1>5. CASE n.state = "Leader"
  <2>1. n = node[i] /\ m.term = node[i].term /\ node[i].state = "Leader"
    <3>1. BecomeFollower(i, node[i], m.term, None).state # "Leader"
      BY DEF BecomeFollower, Reset
    <3>2. m.term =< node[i].term \/ n = BecomeFollower(i, node[i], m.term, None)
      BY <1>2 DEF AtTermOf
    <3>3. m.term =< node[i].term
      BY <1>5, <3>1, <3>2
    <3>4. n = node[i]
      BY <3>3 DEF AtTermOf
    <3> QED
      BY <1>1, <1>2, <1>5, <3>3, <3>4
  <2>2. /\ Become(i, o) /\ reads' = [reads EXCEPT ![i] = q]
        /\ answers' = answers \cup own /\ UNCHANGED <<parked, asked>>
    BY <1>5 DEF ReceiveHeartbeatRespCtx
  <2> HIDE DEF n
  <2>3. /\ heard \in NodeState /\ Calm(i, n, heard) /\ Quiet(n, heard)
        /\ CommitStep(i, n, heard) /\ heard.state = n.state /\ heard.term = n.term
        /\ Mute(n, heard)
    BY <1>2, <1>3, <1>5, StepHeartbeatRespType, StepHeartbeatRespCalm,
       StepHeartbeatRespQuiet, StepHeartbeatRespStep, StepHeartbeatRespStays,
       StepHeartbeatRespMute
  <2> HIDE DEF heard
  <2>4. Does(i, n, heard)
    <3>1. Sound(i, n, heard) /\ Roles(i, n, heard)
      BY <1>3, <2>3, CalmIsSound, CalmRoles
    <3>2. LogStep(i, n, heard)
      BY <1>3, <2>3, QuietIsStep DEF Calm
    <3> QED
      BY <2>3, <3>1, <3>2 DEF Does
  <2>5. \A r \in Resolved(p) : r \in Waiting /\ MayAnswer(r.req, r.index)
    BY <1>2, <2>1, ConfirmedMayBeAnswered
  <2> HIDE DEF p, q
  <2>6. ASSUME NEW r \in others
        PROVE  /\ ReadResp(i, n, r) \in Message
               /\ ReadResp(i, n, r).type = "MsgReadIndexResp"
               /\ MayAnswer(ReadResp(i, n, r).req, ReadResp(i, n, r).index)
    <3>1. r \in Waiting /\ MayAnswer(r.req, r.index) /\ r.from \in Node
      BY <2>5, <2>6 DEF OwnAnswer, Waiting
    <3>2. ReadResp(i, n, r) \in ReadIndexRespMsg
      BY <1>3, <3>1 DEF ReadResp, ReadIndexRespMsg, Waiting, NodeState
    <3> QED
      BY <3>1, <3>2 DEF ReadResp, Message
  <2>7. ms \in SUBSET Message /\ \A x \in ms : x.type \in {"MsgReadIndex", "MsgReadIndexResp"}
    BY <2>6
  <2>8. \A x \in ms : x.type = "MsgReadIndexResp" /\ MayAnswer(x.req, x.index)
    BY <2>6
  <2>9. \A a \in own : MayAnswer(a[1], a[2])
    BY <2>5
  <2> HIDE DEF ms, own
  <2>10. Hums(i, heard, o) /\ o \in NodeState /\ o.outbox = heard.outbox \cup ms
    BY <2>3, <2>7, SendHums
  <2> HIDE DEF o
  <2>11. Does(i, node[i], o)
    BY <1>3, <2>1, <2>3, <2>4, <2>10, HumsAfter
  <2>12. StaysLeader(i, o)
    BY <2>1, <2>3, <2>10 DEF Hums, StaysLeader
  <2>13. Turns(i, o, q)
    <3>1. m.term = o.term
      BY <2>1, <2>12 DEF StaysLeader
    <3> QED
      BY <1>2, <2>12, <3>1 DEF Turns, p, q
  <2>14. Utters(i, o, q)
    <3>1. \A x \in o.outbox \ node[i].outbox : x \in ms \/ x.type \notin OfReads
      BY <2>1, <2>3, <2>10 DEF Mute
    <3> QED
      BY <2>8, <3>1 DEF Utters, OfReads
  <2>15. \A a \in answers' : MayAnswer(a[1], a[2])
    BY <1>1, <2>2, <2>9
  <2>16. asked' = asked /\ parked' = parked /\ Asking
    BY <2>2 DEF Asking
  <2>17. ReadMove(i, o, q)
    BY <2>2, <2>11, <2>13, <2>14, <2>15, <2>16, StillMade DEF ReadMove
  <2> QED
    BY <2>10, <2>17, ReadInvMove
<1> QED
  BY <1>4, <1>5

\* An answer is handed out
LEMMA ReadIndexRespMove ==
    ASSUME ReadInv, NEW i \in Node, NEW m \in msgs, m.to = i,
           ReceiveReadIndexResp(i, m), Learning(i)
    PROVE  ReadInv'
<1> DEFINE n == AtTermOf(i, node[i], m)
<1>1. /\ ElectionInv /\ node[i] \in NodeState /\ \A a \in answers : MayAnswer(a[1], a[2])
      /\ \A x \in AllMsgs : x.type = "MsgReadIndexResp" => MayAnswer(x.req, x.index)
  BY DEF ReadInv, CommitInv, ElectionInv, TypeOK, AnswersFit
<1>2. m \in Message /\ m \in AllMsgs /\ m.type = "MsgReadIndexResp"
  BY <1>1 DEF ElectionInv, TypeOK, ReceiveReadIndexResp, AllMsgs
<1>3. n \in NodeState /\ Does(i, node[i], n) /\ Mute(node[i], n)
  BY <1>1, <1>2, AtTermOfType, AtTermOfDoes, AtTermOfStill, StillMute
<1>4. /\ Become(i, n) /\ reads' = [reads EXCEPT ![i] = ReadsWith(i, n)]
      /\ UNCHANGED <<parked, asked>>
      /\ \A a \in answers' : a \in answers \/ a = <<m.req, m.index>>
  BY DEF ReceiveReadIndexResp
<1> HIDE DEF n
<1>5. \A a \in answers' : MayAnswer(a[1], a[2])
  BY <1>1, <1>2, <1>4
<1>6. Utters(i, n, ReadsWith(i, n))
  BY <1>3, MuteUtters
<1> QED
  BY <1>3, <1>4, <1>5, <1>6, OtherMove

\* Raft goes on by itself
LEMMA OtherwiseMove ==
    ASSUME ReadInv, NEW i \in Node, NEW o \in NodeState, Become(i, o), Does(i, node[i], o),
           Utters(i, o, ReadsWith(i, o)), Otherwise(i), Learning(i)
    PROVE  ReadInv'
<1>1. ElectionInv /\ \A a \in answers : MayAnswer(a[1], a[2])
  BY DEF ReadInv, CommitInv, AnswersFit
<1>2. node'[i] = o
  BY <1>1, BecomeFrame
<1> QED
  BY <1>1, <1>2, OtherMove DEF Otherwise

\* A message is delivered
LEMMA DeliverReadMove ==
    ASSUME ReadInv, NEW i \in Node, NEW m \in msgs, m.to = i,
           DeliverRead(i, m), Learning(i)
    PROVE  ReadInv'
<1>1. CommitInv /\ ElectionInv /\ ReadTypes /\ RequestsWereMade
  BY DEF ReadInv, CommitInv
<1>2. CASE Plain(m) /\ Deliver(i, m) /\ Otherwise(i)
  <2>1. PICK o \in NodeState : Become(i, o) /\ Does(i, node[i], o)
    BY <1>1, <1>2, DeliverDoes
  <2>2. Utters(i, o, ReadsWith(i, o))
    BY <1>1, <1>2, <2>1, DeliverUtters
  <2> QED
    BY <1>2, <2>1, <2>2, OtherwiseMove
<1>3. CASE ReceiveLowerTerm(i, m) /\ Otherwise(i)
  <2> DEFINE o == StepLowerTerm(i, node[i], m)
  <2>1. node[i] \in NodeState /\ Become(i, o)
    BY <1>1, <1>3 DEF ElectionInv, TypeOK, ReceiveLowerTerm
  <2>2. Mute(node[i], o)
    BY <2>1, StepLowerTermMute
  <2> HIDE DEF o
  <2>3. Deliver(i, m)
    BY <1>3 DEF Deliver
  <2>4. PICK p \in NodeState : Become(i, p) /\ Does(i, node[i], p)
    BY <1>1, <2>3, DeliverDoes
  <2>5. p = o
    BY <1>1, <2>1, <2>4 DEF Become, ElectionInv, TypeOK
  <2>6. Utters(i, p, ReadsWith(i, p))
    BY <2>2, <2>5, MuteUtters
  <2> QED
    BY <1>3, <2>4, <2>6, OtherwiseMove
<1>4. CASE ReceiveResponseReads(i, m)
  <2> DEFINE o == StepResponse(i, node[i], m)
  <2>1. Receive(i, m, {"MsgVoteResp", "MsgPreVoteResp", "MsgAppResp"}) /\ After(i, o)
    BY <1>4 DEF ReceiveResponseReads
  <2>2. o \in NodeState /\ Does(i, node[i], o) /\ Mute(node[i], o)
    BY <1>1, <2>1, StepResponseDoes
  <2> HIDE DEF o
  <2> QED
    BY <2>1, <2>2, AfterMove
<1>5. CASE ReceiveReadIndex(i, m)
  <2> DEFINE r == [from |-> m.from, req |-> m.req]
  <2>1. m.type = "MsgReadIndex" /\ StepReadIndex(i, r) /\ asked' = asked
    BY <1>5 DEF ReceiveReadIndex
  <2>2. m \in ReadIndexMsg /\ m \in AllMsgs
    BY <1>1, <2>1, MessageFields DEF ElectionInv, TypeOK, AllMsgs
  <2>3. r \in Request /\ r.req \in 1..Len(asked')
    BY <1>1, <2>1, <2>2 DEF ReadIndexMsg, Request, RequestsWereMade
  <2>4. Asking
    BY <2>1 DEF Asking
  <2> HIDE DEF r
  <2> QED
    BY <2>1, <2>3, <2>4, StepReadIndexMove
<1> QED
  BY <1>2, <1>3, <1>4, <1>5, ReadIndexRespMove, HeartbeatRespCtxMove DEF DeliverRead

\* A read is asked for
LEMMA AskReadMove ==
    ASSUME ReadInv, NEW i \in Node, AskRead(i), Learning(i)
    PROVE  ReadInv'
<1> DEFINE r == [from |-> None, req |-> Len(asked')]
<1>1. asked \in Seq(Nat) /\ known \in Nat
  BY DEF ReadInv, ReadTypes
<1>2. asked' = Append(asked, known) /\ StepReadIndex(i, r)
  BY DEF AskRead
<1>3. Asking
  BY <1>2 DEF Asking
<1>4. Len(asked') = Len(asked) + 1 /\ Len(asked) \in Nat
  BY <1>1, <1>2
<1>5. Len(asked') \in Nat /\ Len(asked') \in 1..Len(asked')
  BY <1>4
<1>6. r \in Request /\ r.req \in 1..Len(asked')
  BY <1>5 DEF Request
<1> HIDE DEF r
<1> QED
  BY <1>2, <1>3, <1>6, StepReadIndexMove

\* A node steps an answer to itself
LEMMA AdvanceReadsMove ==
    ASSUME ReadInv, NEW i \in Node, AdvanceReads(i), Learning(i)
    PROVE  ReadInv'
<1> DEFINE m == Head(node[i].steps)
           n == [node[i] EXCEPT !.steps = Tail(@)]
           o == IF m.term < n.term THEN n ELSE StepResponse(i, n, m)
<1>1. CommitInv /\ node[i].steps # <<>> /\ After(i, o)
  BY DEF ReadInv, AdvanceReads
<1>2. o \in NodeState /\ Does(i, node[i], o) /\ Mute(node[i], o)
  BY <1>1, AdvanceDoes
<1> HIDE DEF o
<1> QED
  BY <1>1, <1>2, AfterMove

\* A timer fires, or the application calls
LEMMA LocalReadsMove ==
    ASSUME ReadInv, NEW i \in Node, LocalReads(i), Learning(i)
    PROVE  ReadInv'
<1>1. CommitInv /\ ElectionInv /\ reads[i] \in Readings /\ Local(i) /\ Otherwise(i)
  BY DEF ReadInv, CommitInv, ReadTypes, LocalReads
<1>2. PICK o \in NodeState : Become(i, o) /\ Does(i, node[i], o)
  BY <1>1, LocalDoes
<1>3. NoReads \in Readings
  BY DEF NoReads, Readings
<1>4. ReadsWith(i, o) \in Readings
  BY <1>1, <1>3 DEF ReadsWith
<1>5. Utters(i, o, ReadsWith(i, o))
  BY <1>1, <1>2, <1>4, LocalUtters
<1> QED
  BY <1>1, <1>2, <1>5, OtherwiseMove

-----------------------------------------------------------------------------
(***************************************************************************)
(* The theorems.                                                           *)
(***************************************************************************)

LEMMA ReadInit == Init /\ NoRequests => ReadInv
<1> SUFFICES ASSUME Init, NoRequests
             PROVE  ReadInv
  OBVIOUS
<1>1. CommitInv
  BY CommitInit
<1>2. \A i \in Node :
         /\ node[i].state = "Follower" /\ node[i].term = 1 /\ node[i].commit = 1
         /\ node[i].outbox = {}
  <2> SUFFICES ASSUME NEW i \in Node
               PROVE  /\ node[i].state = "Follower" /\ node[i].term = 1
                      /\ node[i].commit = 1 /\ node[i].outbox = {}
    OBVIOUS
  <2>1. node[i] = NewRaft(i, BootDisk)
    BY DEF Init
  <2>2. BootDisk.log = BootLog /\ BootDisk.term = 1 /\ BootDisk.commit = 1
    BY DEF BootDisk
  <2> QED
    BY <2>1, <2>2, NewRaftLog, NewRaftCommit
<1>3. AllMsgs = {}
  BY <1>2 DEF AllMsgs, Init
<1>4. /\ NoReads \in Readings /\ NoReads.queue = <<>> /\ NoReads.count = 0
      /\ \A j \in Node : NoReads.acks[j] = 0
  BY DEF NoReads, Readings
<1>5. /\ reads = [i \in Node |-> NoReads] /\ parked = [i \in Node |-> <<>>]
      /\ asked = <<>> /\ answers = {} /\ known = Max({node[i].commit : i \in Node})
  BY DEF NoRequests
<1>6. \A i \in Node : reads[i].queue = <<>> /\ parked[i] = <<>>
  BY <1>4, <1>5
<1>7. TellsOwn /\ ConfirmationsWereAsked /\ AnswersFit
  BY <1>3, <1>5 DEF TellsOwn, ConfirmationsWereAsked, AnswersFit
<1>8. KnowsCommits
  BY <1>2 DEF KnowsCommits
<1>9. known \in Nat /\ KnownLatest /\ \E i \in Node : known = node[i].commit
  <2>1. \A i \in Node : disk[i].commit = node[i].commit
    BY <1>2 DEF Init, BootDisk
  <2> QED
    BY <1>1, <1>5, <2>1, LatestCommit DEF CommitInv, KnownLatest
<1>10. KnownBacked
  <2>1. PICK i \in Node : known = node[i].commit
    BY <1>9
  <2>2. PICK H \in SUBSET Seq(Entry), K \in SUBSET LeaderLog, A \in SUBSET StoredAck :
            Explains(H) /\ History(H, K, A) /\ LeadersCount(K, A)
    BY <1>1 DEF CommitInv
  <2>3. CommitsFrom(K, A)
    BY <1>1, <2>2 DEF CommitsFrom, CommitInv
  <2>4. Done(K, A, node[i].term, node[i].log, node[i].commit)
    BY <2>2 DEF History, CommitsHold
  <2>5. KnownWas(K, A)
    BY <2>1, <2>4 DEF Done, KnownWas
  <2> QED
    BY <2>3, <2>5 DEF KnownBacked
<1>11. ReadTypes
  BY <1>4, <1>5, <1>9 DEF ReadTypes
<1>12. RequestsWereMade
  BY <1>3, <1>5, <1>6 DEF RequestsWereMade
<1>13. \A i \in Node : InOrder(node[i], reads[i])
  BY <1>4, <1>5 DEF InOrder
<1>14. NotedInTime
  BY <1>6 DEF NotedInTime
<1> QED
  BY <1>1, <1>7, <1>8, <1>9, <1>10, <1>11, <1>12, <1>13, <1>14 DEF ReadInv

LEMMA ReadStep == ReadInv /\ [ReadNext]_readVars => ReadInv'
<1> SUFFICES ASSUME ReadInv, [ReadNext]_readVars
             PROVE  ReadInv'
  OBVIOUS
<1>1. CASE ReadNext
  <2>1. PICK i \in Node :
           /\ \/ Ready(i) /\ UNCHANGED <<reads, parked, asked, answers>>
              \/ AdvanceReads(i) \/ RestartReads(i)
              \/ AskRead(i) \/ BeatReads(i) \/ LocalReads(i)
              \/ \E m \in msgs : m.to = i /\ DeliverRead(i, m)
           /\ Learning(i)
    BY <1>1 DEF ReadNext, Learning
  <2> QED
    BY <2>1, ReadyMove, RestartMove, AdvanceReadsMove, AskReadMove, BeatReadsMove,
       LocalReadsMove, DeliverReadMove
<1>2. CASE UNCHANGED readVars
  <2>1. UNCHANGED <<vars, reads, parked, asked, answers, known>>
    BY <1>2 DEF readVars
  <2>2. [Next]_vars /\ node' = node /\ disk' = disk /\ msgs' = msgs
    BY <2>1 DEF vars
  <2>3. AllMsgs' = AllMsgs
    BY <2>2 DEF AllMsgs
  <2>4. \A j \in Node : /\ disk'[j].term >= disk[j].term /\ disk'[j].term \in Nat
                        /\ disk'[j].commit =< known
                        /\ Alike(node'[j], node[j]) /\ reads'[j] = reads[j]
    <3>1. \A j \in Node : disk[j].term \in Nat /\ disk[j].term >= disk[j].term
      BY LogTypes DEF ReadInv, CommitInv
    <3> QED
      BY <2>1, <2>2, <3>1 DEF ReadInv, KnownLatest, Alike
  <2>5. /\ reads' \in [Node -> Readings] /\ parked' \in [Node -> Seq(Request)]
        /\ \A j \in Node : \A k \in 1..Len(parked'[j]) : parked'[j][k].req \in 1..Len(asked)
    BY <2>1 DEF ReadInv, ReadTypes, RequestsWereMade
  <2>6. AllMsgs' \subseteq AllMsgs
    BY <2>3
  <2> QED
    BY <2>1, <2>2, <2>4, <2>5, <2>6, StorageMove
<1> QED
  BY <1>1, <1>2

\* The inductive invariant holds in every state of the requests and of raft.
THEOREM ReadInvariant == ReadSpec => []ReadInv
  BY ReadInit, ReadStep, PTL DEF ReadSpec

LEMMA AnswersAreCurrent == ReadInv => ReadsAreCurrent
<1> SUFFICES ASSUME ReadInv, NEW a \in answers
             PROVE  a[2] \in asked[a[1]] .. known
  BY DEF ReadsAreCurrent
<1>1. asked \in Seq(Nat) /\ known \in Nat /\ MayAnswer(a[1], a[2])
  BY DEF ReadInv, ReadTypes, AnswersFit
<1>2. asked[a[1]] \in Nat /\ a[2] \in Nat /\ asked[a[1]] =< a[2] /\ a[2] =< known
  BY <1>1 DEF MayAnswer
<1> QED
  BY <1>1, <1>2

LEMMA LeadersRequests == ReadInv => RequestsAreTheLeaders
<1> SUFFICES ASSUME ReadInv, NEW i \in Node
             PROVE  LET q == reads[i] IN
                    /\ q.queue # <<>> => node[i].state = "Leader"
                    /\ \A k \in 1..Len(q.queue) :
                          /\ q.queue[k].ctx = q.count - Len(q.queue) + k
                          /\ q.queue[k].index <= node[i].commit
                          /\ TermAt(node[i].log, q.queue[k].index) = node[i].term
  BY DEF RequestsAreTheLeaders
<1>1. InOrder(node[i], reads[i]) /\ node[i].commit \in Nat
  BY LogTypes DEF ReadInv, CommitInv, NodeState
<1>2. NoReads.queue = <<>>
  BY DEF NoReads
<1>3. \A k \in 1..Len(reads[i].queue) : reads[i].queue[k].index <= node[i].commit
  BY <1>1 DEF InOrder
<1> QED
  BY <1>1, <1>2, <1>3 DEF InOrder

\* The index a read is answered with is one that a node has known to be committed, and is not
\* below any commit index that a node had known when the read was asked for, whoever leads by
\* then, whoever has restarted and forgotten it meanwhile, and however often messages are
\* lost, repeated or late (committedEntryInCurrentTerm, sendMsgReadIndexResponse, the
\* MsgHeartbeatResp case of stepLeader, newRaft).
THEOREM ReadsNeverStale == ReadSpec => []ReadsAreCurrent
  BY ReadInvariant, AnswersAreCurrent, PTL

\* Requests wait only at a leader, in the order of their numbers, each noted at an index
\* that is committed in the leader's term: none outlives the leadership it was noted in
\* (reset, newReadOnly).
THEOREM RequestsBelongToLeaders == ReadSpec => []RequestsAreTheLeaders
  BY ReadInvariant, LeadersRequests, PTL

=============================================================================
