-------------------------------- MODULE Raft --------------------------------
(***************************************************************************)
(* The raft state machine of harness/optimize/initial_program.go (the      *)
(* pinned raft.go that the optimisation loop evolves), as the harness      *)
(* drives it through RawNode: elections with and without pre-vote, log     *)
(* replication, commitment, leadership transfer, and crash / restart over  *)
(* a storage that only holds what a Ready has persisted.                   *)
(*                                                                         *)
(* A Go method on *raft is an operator on the record node[i], which holds  *)
(* the fields of struct raft; an action is one call of RawNode: a message  *)
(* stepped in, a timer that fires, a proposal, Ready or Advance.           *)
(*                                                                         *)
(* Abstracted here: time (a timer may fire at any moment, so a lease may   *)
(* have expired or not), membership changes, log compaction and snapshots, *)
(* and the capacity of the in-flight window, which the harness sets too    *)
(* large to be reached.  The module ReadIndex adds the reads.              *)
(***************************************************************************)
EXTENDS Integers, FiniteSets, Sequences, SequencesExt, FiniteSetsExt

CONSTANTS
    Node,          \* the voters
    None,          \* no node: the None of raft.go
    Value,         \* the payloads clients propose
    MaxEnts,       \* the entries that fit in a message: Config.MaxSizePerMsg
    Empty,         \* the payload of a leader's first entry and of the bootstrap entry
    PreVote,       \* Config.PreVote
    CheckQuorum,   \* Config.CheckQuorum
    Calls,         \* the calls <<name, node>> the timers and the application may
                   \* make in an instance                       (a bound)
    Prompt,        \* every Ready is handled before anything else happens (a bound)
    MaxTerm,       \* no campaign starts at this term              (a bound)
    MaxLog,        \* no proposal is accepted at this log length   (a bound)
    MaxRestarts    \* how many restarts there are in all           (a bound)

ASSUME NodeAssumption ==
    /\ IsFiniteSet(Node) /\ Node # {}
    /\ None \notin Node
    /\ Empty \notin Value
ASSUME OptionAssumption ==
    MaxEnts \in Nat \ {0} /\ PreVote \in BOOLEAN /\ CheckQuorum \in BOOLEAN /\ Prompt \in BOOLEAN
ASSUME BoundAssumption == MaxTerm \in Nat /\ MaxLog \in Nat /\ MaxRestarts \in Nat

VARIABLES
    node,     \* node[i]: the volatile state of node i (struct raft)
    disk,     \* disk[i]: what the storage of node i holds (HardState and entries)
    msgs,     \* every message ever handed to the network; it is never emptied, so
              \* a message may be lost, delayed, reordered or delivered again
    restarts  \* how many restarts there have been

vars == <<node, disk, msgs, restarts>>

-----------------------------------------------------------------------------
(***************************************************************************)
(* Types.                                                                  *)
(***************************************************************************)
Entry == [term : Nat, val : Value \cup {Empty}]

Progress == [state : {"Probe", "Replicate"}, match : Nat, next : Nat \ {0},
             paused : BOOLEAN, sentCommit : Nat]

VoteMsg == [type : {"MsgVote", "MsgPreVote"}, from : Node, to : Node, term : Nat,
            index : Nat, logTerm : Nat]
VoteRespMsg == [type : {"MsgVoteResp", "MsgPreVoteResp"}, from : Node, to : Node,
                term : Nat, reject : BOOLEAN]
AppMsg == [type : {"MsgApp"}, from : Node, to : Node, term : Nat, index : Nat,
           logTerm : Nat, entries : Seq(Entry), commit : Nat]
AppRespMsg == [type : {"MsgAppResp"}, from : Node, to : Node, term : Nat, index : Nat,
               reject : BOOLEAN, rejectHint : Nat, logTerm : Nat]
HeartbeatMsg == [type : {"MsgHeartbeat"}, from : Node, to : Node, term : Nat,
                 commit : Nat, ctx : Nat]
HeartbeatRespMsg == [type : {"MsgHeartbeatResp"}, from : Node, to : Node, term : Nat,
                     ctx : Nat]
SimpleMsg == [type : {"MsgTimeoutNow", "MsgTransferLeader"}, from : Node, to : Node,
              term : Nat]
PropMsg == [type : {"MsgProp"}, from : Node, to : Node, term : {0}, val : Value]

\* Requests for a read index and their answers, which only ReadIndex sends
ReadIndexMsg == [type : {"MsgReadIndex"}, from : Node, to : Node, term : {0}, req : Nat]
ReadIndexRespMsg == [type : {"MsgReadIndexResp"}, from : Node, to : Node, term : Nat,
                     index : Nat, req : Nat]

Message == VoteMsg \cup VoteRespMsg \cup AppMsg \cup AppRespMsg \cup HeartbeatMsg
             \cup HeartbeatRespMsg \cup SimpleMsg \cup PropMsg \cup ReadIndexMsg
             \cup ReadIndexRespMsg

NodeState ==
    [term : Nat, vote : Node \cup {None}, lead : Node \cup {None},
     state : {"Follower", "PreCandidate", "Candidate", "Leader"},
     log : Seq(Entry), commit : Nat,
     granted : SUBSET Node, rejected : SUBSET Node,   \* trk.Votes
     prog : [Node -> Progress],                       \* trk.Progress
     transferee : Node \cup {None},                   \* leadTransferee
     outbox : SUBSET Message,   \* r.msgs, and r.msgsAfterAppend to other nodes
     self : Seq(VoteRespMsg \cup AppRespMsg),   \* r.msgsAfterAppend to itself
     steps : Seq(VoteRespMsg \cup AppRespMsg)]  \* RawNode.stepsOnAdvance

DiskState == [term : Nat, vote : Node \cup {None}, commit : Nat, log : Seq(Entry)]

-----------------------------------------------------------------------------
(***************************************************************************)
(* raftLog and the quorum tracker.                                         *)
(***************************************************************************)
Quorum == {Q \in SUBSET Node : 2 * Cardinality(Q) > Cardinality(Node)}

LastIndex(n) == Len(n.log)

\* raftLog.zeroTermOnOutOfBounds of raftLog.term
TermAt(log, k) == IF k \in 1..Len(log) THEN log[k].term ELSE 0

LastTerm(n) == TermAt(n.log, LastIndex(n))

\* raftLog.matchTerm
MatchTerm(log, k, t) == k \in 0..Len(log) /\ TermAt(log, k) = t

\* raftLog.isUpToDate: the candidate's last entry is not behind ours
IsUpToDate(n, lastIndex, lastTerm) ==
    \/ lastTerm > LastTerm(n)
    \/ lastTerm = LastTerm(n) /\ lastIndex >= LastIndex(n)

\* raftLog.findConflictByTerm: the last index up to k whose term is at most t
FindConflictByTerm(log, k, t) ==
    IF k > Len(log) THEN k ELSE Max({x \in 0..k : TermAt(log, x) <= t})

\* raftLog.commitTo.  The code panics on an index past the end of the log;
\* here the index is taken and CommitInLog fails.
CommitTo(n, k) == [n EXCEPT !.commit = Max({@, k})]

\* tracker.Committed: the last index of the log that a quorum has acknowledged
QuorumIndex(n) ==
    Max({k \in 0..LastIndex(n) : {j \in Node : n.prog[j].match >= k} \in Quorum})

-----------------------------------------------------------------------------
(***************************************************************************)
(* tracker.Progress.                                                       *)
(***************************************************************************)
ResetProgress(match, last) ==
    [state |-> "Probe", match |-> match, next |-> last + 1, paused |-> FALSE,
     sentCommit |-> 0]

BecomeReplicate(pr) ==
    [pr EXCEPT !.state = "Replicate", !.next = pr.match + 1, !.paused = FALSE]

BecomeProbe(pr) ==
    [pr EXCEPT !.state = "Probe", !.next = pr.match + 1, !.paused = FALSE,
               !.sentCommit = Min({@, pr.match})]

SentEntries(pr, count) ==
    IF pr.state = "Replicate" THEN [pr EXCEPT !.next = @ + count, !.paused = FALSE]
    ELSE [pr EXCEPT !.paused = @ \/ count > 0]

CanBumpCommit(pr, commit) == commit > pr.sentCommit /\ pr.sentCommit < pr.next - 1

MaybeUpdate(pr, k) ==
    IF k <= pr.match THEN pr
    ELSE [pr EXCEPT !.match = k, !.next = Max({@, k + 1}), !.paused = FALSE]

\* MaybeDecrTo: whether a rejection is still relevant, and what it changes
RejectionIsCurrent(pr, rejected) ==
    IF pr.state = "Replicate" THEN rejected > pr.match ELSE pr.next - 1 = rejected

DecrTo(pr, rejected, hint) ==
    LET next == IF pr.state = "Replicate" THEN pr.match + 1
                ELSE Max({Min({rejected, hint + 1}), pr.match + 1})
    IN  [pr EXCEPT !.next = next, !.sentCommit = Min({@, next - 1}),
                   !.paused = IF pr.state = "Replicate" THEN @ ELSE FALSE]

-----------------------------------------------------------------------------
(***************************************************************************)
(* Sending.  A message waits in the outbox, or in self when a node answers *)
(* itself, until the next Ready has persisted the state it speaks of.      *)
(***************************************************************************)
Send(n, ms) == [n EXCEPT !.outbox = @ \cup ms]

SendSelf(n, m) == [n EXCEPT !.self = Append(@, m)]

AppResp(i, n, to, index) ==
    [type |-> "MsgAppResp", from |-> i, to |-> to, term |-> n.term, index |-> index,
     reject |-> FALSE, rejectHint |-> 0, logTerm |-> 0]

AppReject(i, n, to, index, hint, hintTerm) ==
    [type |-> "MsgAppResp", from |-> i, to |-> to, term |-> n.term, index |-> index,
     reject |-> TRUE, rejectHint |-> hint, logTerm |-> hintTerm]

VoteResp(type, i, to, term, reject) ==
    [type |-> type, from |-> i, to |-> to, term |-> term, reject |-> reject]

HeartbeatResp(i, n, m) ==
    [type |-> "MsgHeartbeatResp", from |-> i, to |-> m.from, term |-> n.term,
     ctx |-> m.ctx]

Simple(type, i, n, to) == [type |-> type, from |-> i, to |-> to, term |-> n.term]

EntriesFrom(log, k) == SubSeq(log, k, Len(log))

\* Faulty: the whole log is announced as committed
MutApp(i, n, to, next) ==
    [type |-> "MsgApp", from |-> i, to |-> to, term |-> n.term, index |-> next - 1,
     logTerm |-> TermAt(n.log, next - 1),
     entries |-> SubSeq(n.log, next, Min({next + MaxEnts - 1, LastIndex(n)})),
     commit |-> LastIndex(n)]

\* The MsgApp that carries the entries from index next on, as many as fit
App(i, n, to, next) ==
    [type |-> "MsgApp", from |-> i, to |-> to, term |-> n.term, index |-> next - 1,
     logTerm |-> TermAt(n.log, next - 1),
     entries |-> SubSeq(n.log, next, Min({next + MaxEnts - 1, LastIndex(n)})),
     commit |-> n.commit]

\* maybeSendAppend to each node of a set
MaybeSendAppend(i, n, peers, sendIfEmpty) ==
    LET app(j) == App(i, n, j, n.prog[j].next)
        to == {j \in peers : /\ ~n.prog[j].paused
                             /\ sendIfEmpty \/ app(j).entries # <<>>}
    IN  [n EXCEPT
           !.outbox = @ \cup {app(j) : j \in to},
           !.prog = [j \in Node |->
             IF j \in to
             THEN [SentEntries(@[j], Len(app(j).entries)) EXCEPT !.sentCommit = n.commit]
             ELSE @[j]]]

\* The loop of stepLeader that sends to a replicating peer until nothing is left
SendRest(i, n, j) ==
    LET next == n.prog[j].next
        starts == {k \in next..LastIndex(n) : (k - next) % MaxEnts = 0}
    IN  IF starts = {} THEN n
        ELSE [n EXCEPT !.outbox = @ \cup {App(i, n, j, k) : k \in starts},
                       !.prog[j] = [@ EXCEPT !.next = LastIndex(n) + 1,
                                             !.sentCommit = n.commit]]

BcastAppend(i, n) == MaybeSendAppend(i, n, Node \ {i}, TRUE)

\* bcastHeartbeat: the commit index sent never passes what the peer acknowledged.  A
\* round of heartbeats for each ctx: the number of a read request, or 0 without any
BcastHeartbeat(i, n, ctxs) ==
    LET commit(j) == Min({n.prog[j].match, n.commit})
    IN  [n EXCEPT
           !.outbox = @ \cup
             {[type |-> "MsgHeartbeat", from |-> i, to |-> j, term |-> n.term,
               commit |-> commit(j), ctx |-> c] : j \in Node \ {i}, c \in ctxs},
           !.prog = [j \in Node |->
             IF j = i THEN @[j] ELSE [@[j] EXCEPT !.sentCommit = commit(j)]]]

-----------------------------------------------------------------------------
(***************************************************************************)
(* Changes of role.                                                        *)
(***************************************************************************)
\* Faulty: the vote is cleared even when the term stays
MutReset(i, n, term) ==
    [n EXCEPT !.term = term, !.vote = None, !.lead = None, !.transferee = None,
              !.granted = {}, !.rejected = {},
              !.prog = [j \in Node |->
                  ResetProgress(IF j = i THEN LastIndex(n) ELSE 0, LastIndex(n))]]

Reset(i, n, term) ==
    [n EXCEPT !.term = term,
              !.vote = IF n.term = term THEN @ ELSE None,
              !.lead = None, !.transferee = None,
              !.granted = {}, !.rejected = {},
              !.prog = [j \in Node |->
                  ResetProgress(IF j = i THEN LastIndex(n) ELSE 0, LastIndex(n))]]

BecomeFollower(i, n, term, lead) ==
    [Reset(i, n, term) EXCEPT !.lead = lead, !.state = "Follower"]

BecomeCandidate(i, n) ==
    [Reset(i, n, n.term + 1) EXCEPT !.vote = i, !.state = "Candidate"]

BecomePreCandidate(n) ==
    [n EXCEPT !.granted = {}, !.rejected = {}, !.lead = None, !.state = "PreCandidate"]

\* Faulty: the leader counts its own entry before it is durable
MutAppendEntry(i, n, val) ==
    LET last == LastIndex(n) + 1
    IN  [n EXCEPT !.log = Append(@, [term |-> n.term, val |-> val]),
                  !.prog[i].match = last, !.prog[i].next = last + 1]

\* appendEntry, and the acknowledgement a leader owes itself
AppendEntry(i, n, val) ==
    LET a == [n EXCEPT !.log = Append(@, [term |-> n.term, val |-> val])]
    IN  SendSelf(a, AppResp(i, a, i, LastIndex(a)))

BecomeLeader(i, n) ==
    LET r == Reset(i, n, n.term)
    IN  AppendEntry(i, [r EXCEPT !.lead = i, !.state = "Leader",
                                 !.prog[i] = BecomeReplicate(@)], Empty)

\* The vote requests of a campaign, and the answer of the campaigner to itself
SendCampaign(i, n, pre) ==
    LET term == IF pre THEN n.term + 1 ELSE n.term
        request(j) == [type |-> IF pre THEN "MsgPreVote" ELSE "MsgVote", from |-> i,
                       to |-> j, term |-> term, index |-> LastIndex(n),
                       logTerm |-> LastTerm(n)]
        answer == VoteResp(IF pre THEN "MsgPreVoteResp" ELSE "MsgVoteResp", i, i, term,
                           FALSE)
    IN  SendSelf(Send(n, {request(j) : j \in Node \ {i}}), answer)

Campaign(i, n, pre) ==
    SendCampaign(i, IF pre THEN BecomePreCandidate(n) ELSE BecomeCandidate(i, n), pre)

\* Faulty: an entry of an earlier term is counted too
MutCanCommit(n) == QuorumIndex(n) > n.commit

\* raftLog.maybeCommit: only an entry of the leader's own term is counted
CanCommit(n) ==
    QuorumIndex(n) > n.commit /\ MatchTerm(n.log, QuorumIndex(n), n.term)

-----------------------------------------------------------------------------
(***************************************************************************)
(* Step.  The first switch of Step: a message of a higher term makes the   *)
(* receiver a follower of that term, except for pre-vote traffic.  A lease *)
(* that makes the receiver ignore a (pre-)vote request is a message that   *)
(* is not delivered.                                                       *)
(***************************************************************************)
\* Faulty: a pre-vote request raises the term of its receiver
MutAtTermOf(i, n, m) ==
    IF m.term <= n.term THEN n
    ELSE BecomeFollower(i, n, m.term,
                        IF m.type \in {"MsgApp", "MsgHeartbeat"} THEN m.from ELSE None)

AtTermOf(i, n, m) ==
    IF m.term <= n.term \/ m.type = "MsgPreVote" \/ (m.type = "MsgPreVoteResp" /\ ~m.reject)
    THEN n
    ELSE BecomeFollower(i, n, m.term,
                        IF m.type \in {"MsgApp", "MsgHeartbeat"} THEN m.from ELSE None)

\* What a node answers to a message of a lower term: it makes a stale leader or a
\* stale pre-candidate learn the current term.
StepLowerTerm(i, n, m) ==
    CASE m.type \in {"MsgApp", "MsgHeartbeat"} /\ (CheckQuorum \/ PreVote) ->
           Send(n, {AppResp(i, n, m.from, 0)})
      [] m.type = "MsgPreVote" ->
           Send(n, {VoteResp("MsgPreVoteResp", i, m.from, n.term, TRUE)})
      [] OTHER -> n

\* Faulty: an earlier vote of the term is overlooked
MutStepVote(i, n, m) ==
    LET pre == m.type = "MsgPreVote"
        resp(reject) ==
            VoteResp(IF pre THEN "MsgPreVoteResp" ELSE "MsgVoteResp", i, m.from, m.term,
                     reject)
    IN  IF n.lead = None /\ IsUpToDate(n, m.index, m.logTerm)
        THEN [Send(n, {resp(FALSE)}) EXCEPT !.vote = IF pre THEN @ ELSE m.from]
        ELSE Send(n, {resp(TRUE)})

\* Faulty: the log of the candidate is not looked at
MutStepVoteAnyLog(i, n, m) ==
    LET pre == m.type = "MsgPreVote"
        canVote == \/ n.vote = m.from
                   \/ n.vote = None /\ n.lead = None
                   \/ pre /\ m.term > n.term
        resp(term, reject) ==
            VoteResp(IF pre THEN "MsgPreVoteResp" ELSE "MsgVoteResp", i, m.from, term,
                     reject)
    IN  IF canVote
        THEN [Send(n, {resp(m.term, FALSE)}) EXCEPT !.vote = IF pre THEN @ ELSE m.from]
        ELSE Send(n, {resp(n.term, TRUE)})

\* MsgVote and MsgPreVote, in every role
StepVote(i, n, m) ==
    LET pre == m.type = "MsgPreVote"
        canVote == \/ n.vote = m.from
                   \/ n.vote = None /\ n.lead = None
                   \/ pre /\ m.term > n.term
        resp(term, reject) ==
            VoteResp(IF pre THEN "MsgPreVoteResp" ELSE "MsgVoteResp", i, m.from, term,
                     reject)
    IN  IF canVote /\ IsUpToDate(n, m.index, m.logTerm)
        THEN [Send(n, {resp(m.term, FALSE)}) EXCEPT !.vote = IF pre THEN @ ELSE m.from]
        ELSE Send(n, {resp(n.term, TRUE)})

\* Faulty: an election that is not lost counts as won
MutStepVoteResp(i, n, m) ==
    LET polled == IF m.reject THEN [n EXCEPT !.rejected = @ \cup {m.from}]
                  ELSE [n EXCEPT !.granted = @ \cup {m.from}]
        won == Node \ polled.rejected \in Quorum
    IN  CASE won /\ n.state = "PreCandidate" -> Campaign(i, polled, FALSE)
          [] won /\ n.state = "Candidate"    -> BcastAppend(i, BecomeLeader(i, polled))
          [] OTHER                           -> BecomeFollower(i, polled, n.term, None)

\* MsgVoteResp to a candidate and MsgPreVoteResp to a pre-candidate: poll, which
\* keeps the first answer of each voter, and what the tally decides
StepVoteResp(i, n, m) ==
    LET known == n.granted \cup n.rejected
        polled == IF m.from \in known THEN n
                  ELSE IF m.reject THEN [n EXCEPT !.rejected = @ \cup {m.from}]
                  ELSE [n EXCEPT !.granted = @ \cup {m.from}]
        won == polled.granted \in Quorum
        lost == Node \ polled.rejected \notin Quorum
    IN  CASE won /\ n.state = "PreCandidate" -> Campaign(i, polled, FALSE)
          [] won /\ n.state = "Candidate"    -> BcastAppend(i, BecomeLeader(i, polled))
          [] ~won /\ lost                    -> BecomeFollower(i, polled, n.term, None)
          [] OTHER                           -> polled

\* A follower, or a candidate that finds the term has a leader, follows the sender
FollowSender(i, n, m) ==
    IF n.state = "Follower" THEN [n EXCEPT !.lead = m.from]
    ELSE BecomeFollower(i, n, m.term, m.from)

\* raftLog.append of the entries after index from, kept where they already agree
AppendAfter(log, from, entries) ==
    LET conflict == {k \in 1..Len(entries) :
                        from + k > Len(log) \/ log[from + k].term # entries[k].term}
    IN  IF conflict = {} THEN log
        ELSE SubSeq(log, 1, from + Min(conflict) - 1)
               \o EntriesFrom(entries, Min(conflict))

\* Faulty: the entry before the first one sent is not compared
MutHandleAppendEntries(i, n, m) ==
    LET last == m.index + Len(m.entries)
        hint == FindConflictByTerm(n.log, Min({m.index, LastIndex(n)}), m.logTerm)
    IN  CASE m.index < n.commit ->
               Send(n, {AppResp(i, n, m.from, n.commit)})
          [] m.index \in n.commit..LastIndex(n) ->
               Send(CommitTo([n EXCEPT !.log = AppendAfter(@, m.index, m.entries)],
                             Min({m.commit, last})),
                    {AppResp(i, n, m.from, last)})
          [] OTHER ->
               Send(n, {AppReject(i, n, m.from, m.index, hint, TermAt(n.log, hint))})

\* handleAppendEntries, raftLog.maybeAppend
HandleAppendEntries(i, n, m) ==
    LET last == m.index + Len(m.entries)
        hint == FindConflictByTerm(n.log, Min({m.index, LastIndex(n)}), m.logTerm)
    IN  CASE m.index < n.commit ->
               Send(n, {AppResp(i, n, m.from, n.commit)})
          [] m.index >= n.commit /\ MatchTerm(n.log, m.index, m.logTerm) ->
               Send(CommitTo([n EXCEPT !.log = AppendAfter(@, m.index, m.entries)],
                             Min({m.commit, last})),
                    {AppResp(i, n, m.from, last)})
          [] OTHER ->
               Send(n, {AppReject(i, n, m.from, m.index, hint, TermAt(n.log, hint))})

StepApp(i, n, m) ==
    IF n.state = "Leader" THEN n ELSE HandleAppendEntries(i, FollowSender(i, n, m), m)

StepHeartbeat(i, n, m) ==
    IF n.state = "Leader" THEN n
    ELSE Send(CommitTo(FollowSender(i, n, m), m.commit), {HeartbeatResp(i, n, m)})

\* Faulty: a rejection is followed whether or not it is still current
MutStepAppReject(i, n, m) ==
    MaybeSendAppend(i, [n EXCEPT !.prog[m.from] =
                          [@ EXCEPT !.state = "Probe", !.next = m.rejectHint + 1,
                                    !.paused = FALSE]],
                    {m.from}, TRUE)

\* MsgAppResp with Reject: back off to where the logs may agree and probe again
StepAppReject(i, n, m) ==
    LET j == m.from
        pr == n.prog[j]
        hint == IF m.logTerm > 0 THEN FindConflictByTerm(n.log, m.rejectHint, m.logTerm)
                ELSE m.rejectHint
        decr == DecrTo(pr, m.index, hint)
        probe == IF decr.state = "Replicate" THEN BecomeProbe(decr) ELSE decr
    IN  IF RejectionIsCurrent(pr, m.index)
        THEN MaybeSendAppend(i, [n EXCEPT !.prog[j] = probe], {j}, TRUE)
        ELSE n

\* maybeCommit and what follows from it: the new commit index goes to everyone, or
\* the one acknowledged goes to a peer that has not been told it
CommitAndSend(i, n, j) ==
    LET c == [n EXCEPT !.commit = QuorumIndex(n)]
        sent == CASE CanCommit(n) -> BcastAppend(i, c)
                  [] ~CanCommit(n) /\ j # i /\ CanBumpCommit(n.prog[j], n.commit) ->
                       MaybeSendAppend(i, n, {j}, TRUE)
                  [] OTHER -> n
    IN  IF j = i THEN sent ELSE SendRest(i, sent, j)

\* Faulty: the transferee is told to take over as soon as it makes progress
MutStepAppAccept(i, n, m) ==
    LET j == m.from
        next == BecomeReplicate(MaybeUpdate(n.prog[j], m.index))
        done == CommitAndSend(i, [n EXCEPT !.prog[j] = next], j)
    IN  IF m.index <= n.prog[j].match THEN n
        ELSE IF j = n.transferee THEN Send(done, {Simple("MsgTimeoutNow", i, n, j)})
             ELSE done

\* MsgAppResp without Reject
StepAppAccept(i, n, m) ==
    LET j == m.from
        pr == n.prog[j]
        upd == MaybeUpdate(pr, m.index)
        useful == m.index > pr.match \/ (m.index = pr.match /\ pr.state = "Probe")
        next == IF upd.state = "Probe" THEN BecomeReplicate(upd) ELSE upd
        done == CommitAndSend(i, [n EXCEPT !.prog[j] = next], j)
    IN  IF ~useful THEN n
        ELSE IF j = n.transferee /\ next.match = LastIndex(n)
             THEN Send(done, {Simple("MsgTimeoutNow", i, n, j)})
             ELSE done

StepAppResp(i, n, m) ==
    IF n.state # "Leader" THEN n
    ELSE IF m.reject THEN StepAppReject(i, n, m) ELSE StepAppAccept(i, n, m)

StepHeartbeatResp(i, n, m) ==
    LET pr == n.prog[m.from]
        r == [n EXCEPT !.prog[m.from].paused = FALSE]
    IN  IF pr.match < LastIndex(n) \/ pr.state = "Probe"
        THEN MaybeSendAppend(i, r, {m.from}, TRUE) ELSE r

\* MsgTransferLeader at the leader; a follower passes it on
StepTransferLeader(i, n, to) ==
    LET r == [n EXCEPT !.transferee = to]
    IN  CASE n.state = "Leader" /\ n.transferee # to /\ to = i ->
               [n EXCEPT !.transferee = None]
          [] n.state = "Leader" /\ n.transferee # to /\ to # i ->
               IF n.prog[to].match = LastIndex(n)
               THEN Send(r, {Simple("MsgTimeoutNow", i, n, to)})
               ELSE MaybeSendAppend(i, r, {to}, TRUE)
          [] n.state = "Follower" /\ n.lead # None ->
               Send(n, {[type |-> "MsgTransferLeader", from |-> to, to |-> n.lead,
                         term |-> n.term]})
          [] OTHER -> n

\* Faulty: a follower passes a proposal on even if it knows no leader
MutStepProp(i, n, val) ==
    CASE n.state = "Leader" -> BcastAppend(i, AppendEntry(i, n, val))
      [] n.state = "Follower" ->
           Send(n, {[type |-> "MsgProp", from |-> i, to |-> n.lead, term |-> 0,
                     val |-> val]})
      [] OTHER -> n

\* MsgProp: a leader appends and replicates, unless it is handing over; a follower
\* passes the proposal on to the leader it knows, a candidate drops it
StepProp(i, n, val) ==
    CASE n.state = "Leader" /\ n.transferee = None ->
           BcastAppend(i, AppendEntry(i, n, val))
      [] n.state = "Follower" /\ n.lead # None ->
           Send(n, {[type |-> "MsgProp", from |-> i, to |-> n.lead, term |-> 0,
                     val |-> val]})
      [] OTHER -> n

\* Whether stepCandidate counts this answer: a pre-candidate counts answers to
\* pre-vote requests, a candidate answers to vote requests
Polls(n, m) ==
    \/ n.state = "PreCandidate" /\ m.type = "MsgPreVoteResp"
    \/ n.state = "Candidate" /\ m.type = "MsgVoteResp"

\* A response, from a peer or from the node itself
StepResponse(i, n, m) ==
    LET a == AtTermOf(i, n, m)
    IN  CASE m.type = "MsgAppResp"                    -> StepAppResp(i, a, m)
          [] m.type # "MsgAppResp" /\ Polls(a, m)     -> StepVoteResp(i, a, m)
          [] OTHER                                    -> a

-----------------------------------------------------------------------------
(***************************************************************************)
(* The bootstrapped cluster: RawNode.Bootstrap leaves every node a         *)
(* follower at term 1 whose log holds the committed initial configuration, *)
(* which the first Ready persists.                                         *)
(***************************************************************************)
BootLog == <<[term |-> 1, val |-> Empty]>>

\* newRaft over a storage: also what a restart does
NewRaft(i, d) ==
    BecomeFollower(i,
        [term |-> d.term, vote |-> d.vote, lead |-> None, state |-> "Follower",
         log |-> d.log, commit |-> d.commit, granted |-> {}, rejected |-> {},
         prog |-> [j \in Node |-> ResetProgress(0, 0)], transferee |-> None,
         outbox |-> {}, self |-> <<>>, steps |-> <<>>],
        d.term, None)

BootDisk == [term |-> 1, vote |-> None, commit |-> 1, log |-> BootLog]

Init ==
    /\ disk = [i \in Node |-> BootDisk]
    /\ node = [i \in Node |-> NewRaft(i, disk[i])]
    /\ msgs = {}
    /\ restarts = 0

-----------------------------------------------------------------------------
(***************************************************************************)
(* Actions.                                                                *)
(***************************************************************************)
Become(i, n) ==
    /\ node' = [node EXCEPT ![i] = n]
    /\ UNCHANGED <<disk, msgs, restarts>>

\* The election timer fires, or the application calls Campaign
Hup(i) ==
    /\ <<"Hup", i>> \in Calls
    /\ node[i].state # "Leader"
    /\ node[i].term < MaxTerm
    /\ Become(i, Campaign(i, node[i], PreVote))

\* The heartbeat timer of a leader fires
Beat(i) ==
    /\ <<"Beat", i>> \in Calls
    /\ node[i].state = "Leader"
    /\ Become(i, BcastHeartbeat(i, node[i], {0}))

\* Faulty: a leader that steps down still takes itself for the leader
MutCheckQuorumFails(i) ==
    /\ <<"CheckQuorum", i>> \in Calls
    /\ CheckQuorum
    /\ node[i].state = "Leader"
    /\ Become(i, BecomeFollower(i, node[i], node[i].term, i))

\* A leader that has not heard from a quorum for an election timeout steps down
CheckQuorumFails(i) ==
    /\ <<"CheckQuorum", i>> \in Calls
    /\ CheckQuorum
    /\ node[i].state = "Leader"
    /\ Become(i, BecomeFollower(i, node[i], node[i].term, None))

\* A leadership transfer that takes longer than an election timeout is given up
AbortTransfer(i) ==
    /\ node[i].state = "Leader"
    /\ node[i].transferee # None
    /\ Become(i, [node[i] EXCEPT !.transferee = None])

Propose(i, val) ==
    /\ <<"Propose", i>> \in Calls
    /\ LastIndex(node[i]) < MaxLog
    /\ Become(i, StepProp(i, node[i], val))

TransferLeader(i, to) ==
    /\ <<"TransferLeader", i>> \in Calls
    /\ Become(i, StepTransferLeader(i, node[i], to))

ForgetLeader(i) ==
    /\ <<"ForgetLeader", i>> \in Calls
    /\ node[i].state = "Follower"
    /\ node[i].lead # None
    /\ Become(i, [node[i] EXCEPT !.lead = None])

\* The application reports that a message to j was not delivered
ReportUnreachable(i, j) ==
    /\ <<"ReportUnreachable", i>> \in Calls
    /\ node[i].state = "Leader"
    /\ node[i].prog[j].state = "Replicate"
    /\ Become(i, [node[i] EXCEPT !.prog[j] = BecomeProbe(@)])

\* Faulty: the vote is not persisted
MutHardState(n) ==
    [term |-> n.term, vote |-> None, commit |-> n.commit, log |-> n.log]

HardState(n) == [term |-> n.term, vote |-> n.vote, commit |-> n.commit, log |-> n.log]

\* RawNode.HasReady
HasReady(i) ==
    \/ node[i].outbox # {}
    \/ node[i].self # <<>>
    \/ disk[i] # HardState(node[i])

\* Ready, and what the application does with it: persist the hard state and the
\* entries, then send the messages
Ready(i) ==
    /\ node[i].steps = <<>>
    /\ HasReady(i)
    /\ disk' = [disk EXCEPT ![i] = HardState(node[i])]
    /\ msgs' = msgs \cup node[i].outbox
    /\ node' = [node EXCEPT ![i].outbox = {}, ![i].self = <<>>,
                            ![i].steps = node[i].self]
    /\ UNCHANGED restarts

\* Advance: the node steps the next of its answers to itself, now that they are
\* durable
Advance(i) ==
    /\ node[i].steps # <<>>
    /\ LET m == Head(node[i].steps)
           n == [node[i] EXCEPT !.steps = Tail(@)]
       IN  Become(i, IF m.term < n.term THEN n ELSE StepResponse(i, n, m))

\* The process stops and starts again from what its storage holds
Restart(i) ==
    /\ restarts < MaxRestarts
    /\ restarts' = restarts + 1
    /\ node' = [node EXCEPT ![i] = NewRaft(i, disk[i])]
    /\ UNCHANGED <<disk, msgs>>

-----------------------------------------------------------------------------
(***************************************************************************)
(* A message is delivered (RawNode.Step).                                  *)
(***************************************************************************)
ReceiveLowerTerm(i, m) ==
    /\ m.type # "MsgProp"
    /\ m.term < node[i].term
    /\ Become(i, StepLowerTerm(i, node[i], m))

Receive(i, m, types) == m.type \in types /\ m.term >= node[i].term

ReceiveVote(i, m) ==
    /\ Receive(i, m, {"MsgVote", "MsgPreVote"})
    /\ Become(i, StepVote(i, AtTermOf(i, node[i], m), m))

ReceiveResponse(i, m) ==
    /\ Receive(i, m, {"MsgVoteResp", "MsgPreVoteResp", "MsgAppResp"})
    /\ Become(i, StepResponse(i, node[i], m))

ReceiveApp(i, m) ==
    /\ Receive(i, m, {"MsgApp"})
    /\ Become(i, StepApp(i, AtTermOf(i, node[i], m), m))

ReceiveHeartbeat(i, m) ==
    /\ Receive(i, m, {"MsgHeartbeat"})
    /\ Become(i, StepHeartbeat(i, AtTermOf(i, node[i], m), m))

ReceiveHeartbeatResp(i, m) ==
    /\ Receive(i, m, {"MsgHeartbeatResp"})
    /\ LET n == AtTermOf(i, node[i], m)
       IN  Become(i, IF n.state = "Leader" THEN StepHeartbeatResp(i, n, m) ELSE n)

\* MsgTimeoutNow: a follower campaigns at once, without a pre-vote
ReceiveTimeoutNow(i, m) ==
    /\ Receive(i, m, {"MsgTimeoutNow"})
    /\ m.term < MaxTerm
    /\ LET n == AtTermOf(i, node[i], m)
       IN  Become(i, IF n.state = "Follower" THEN Campaign(i, n, FALSE) ELSE n)

ReceiveTransferLeader(i, m) ==
    /\ Receive(i, m, {"MsgTransferLeader"})
    /\ Become(i, StepTransferLeader(i, AtTermOf(i, node[i], m), m.from))

ReceiveProp(i, m) ==
    /\ m.type = "MsgProp"
    /\ LastIndex(node[i]) < MaxLog
    /\ Become(i, StepProp(i, node[i], m.val))

Deliver(i, m) ==
    \/ ReceiveLowerTerm(i, m)
    \/ ReceiveVote(i, m)
    \/ ReceiveResponse(i, m)
    \/ ReceiveApp(i, m)
    \/ ReceiveHeartbeat(i, m)
    \/ ReceiveHeartbeatResp(i, m)
    \/ ReceiveTimeoutNow(i, m)
    \/ ReceiveTransferLeader(i, m)
    \/ ReceiveProp(i, m)

Local(i) ==
    \/ Hup(i)
    \/ Beat(i)
    \/ CheckQuorumFails(i)
    \/ AbortTransfer(i)
    \/ \E val \in Value : Propose(i, val)
    \/ \E to \in Node : TransferLeader(i, to)
    \/ ForgetLeader(i)
    \/ \E j \in Node \ {i} : ReportUnreachable(i, j)

\* An application that is prompt makes no call while a Ready is outstanding
Idle == \A i \in Node : ~HasReady(i) /\ node[i].steps = <<>>

Next ==
    \E i \in Node :
        \/ Ready(i)
        \/ Advance(i)
        \/ Restart(i)
        \/ /\ Prompt => Idle
           /\ \/ Local(i)
              \/ \E m \in msgs : m.to = i /\ Deliver(i, m)

Spec == Init /\ [][Next]_vars

-----------------------------------------------------------------------------
(***************************************************************************)
(* Correctness.                                                            *)
(***************************************************************************)
TypeOK ==
    /\ node \in [Node -> NodeState]
    /\ disk \in [Node -> DiskState]
    /\ msgs \subseteq Message
    /\ restarts \in 0..MaxRestarts

AllMsgs == msgs \cup UNION {node[i].outbox : i \in Node}

\* Who is known to have led which term: who leads it, and who wrote a MsgApp of it
Led ==
    {[by |-> i, term |-> node[i].term] : i \in {j \in Node : node[j].state = "Leader"}}
      \cup {[by |-> m.from, term |-> m.term] : m \in {x \in AllMsgs : x.type = "MsgApp"}}

\* At most one node ever leads a term, through restarts and late votes
\* (becomeLeader, poll; the oracle of the harness looks for two such leaders).
ElectionSafety == \A a, b \in Led : a.term = b.term => a.by = b.by

\* A vote that has left a node is on its disk for as long as the node is in that
\* term: it cannot be forgotten by a restart and given to someone else (send).
VotesAreDurable ==
    \A m \in msgs :
        m.type = "MsgVoteResp" /\ ~m.reject =>
            \/ disk[m.from].term > m.term
            \/ disk[m.from].term = m.term /\ disk[m.from].vote = m.to

Logs == {node[i].log : i \in Node} \cup {disk[i].log : i \in Node}

\* Two logs, volatile or stored, that agree on the term of an index agree on every
\* entry up to it (maybeAppend, findConflict).
LogMatching ==
    \A a, b \in Logs : \A k \in 1..Min({Len(a), Len(b)}) :
        a[k].term = b[k].term => SubSeq(a, 1, k) = SubSeq(b, 1, k)

Committed(i) == SubSeq(node[i].log, 1, node[i].commit)

\* What one node has committed is on the disks of a quorum, and no restart, new
\* leader or late message takes it away (maybeCommit, handleAppendEntries).
CommittedIsOnQuorum ==
    \A i \in Node :
        {j \in Node : IsPrefix(Committed(i), disk[j].log)} \in Quorum

\* A leader has every entry that any node of its term or below has committed
\* (isUpToDate, maybeCommit).
LeaderCompleteness ==
    \A i, l \in Node :
        node[l].state = "Leader" /\ node[i].term <= node[l].term =>
            IsPrefix(Committed(i), node[l].log)

\* What a leader counts as acknowledged by a node of its term, itself included, is
\* on that node's disk and equal to the leader's log (appendEntry, reset, the
\* MsgAppResp case of stepLeader).
MatchIsDurable ==
    \A l, j \in Node :
        LET match == node[l].prog[j].match IN
        node[l].state = "Leader" /\ disk[j].term = node[l].term =>
            IsPrefix(SubSeq(node[l].log, 1, match), disk[j].log)

\* None of the conditions on which raft panics is met: a commit index past the end
\* of the log (commitTo, loadState), a message a node addresses to itself (send), a
\* leader that would have to read entries it does not have (maybeSendAppend, which
\* would then send a snapshot).
NoPanic ==
    \A i \in Node :
        /\ node[i].commit \in 0..LastIndex(node[i])
        /\ disk[i].commit \in 0..Len(disk[i].log)
        /\ \A m \in node[i].outbox : m.to # i
        /\ node[i].state = "Leader" =>
              \A j \in Node : node[i].prog[j].next \in
                                 node[i].prog[j].match + 1 .. LastIndex(node[i]) + 1

\* A step never changes an entry that a disk holds as committed, takes back a term,
\* or changes a vote within a term (raftLog.append, reset, the vote case of Step).
DiskOnlyAdvances ==
    [][\A i \in Node :
        /\ IsPrefix(SubSeq(disk[i].log, 1, disk[i].commit), disk'[i].log)
        /\ disk'[i].term >= disk[i].term
        /\ disk'[i].commit >= disk[i].commit
        /\ disk'[i].term = disk[i].term /\ disk[i].vote # None =>
              disk'[i].vote = disk[i].vote]_vars

\* No node enters a term for which nobody has campaigned: it has voted in the term, or
\* a candidate of the term has asked for votes or a leader of it has spoken; a pre-vote
\* request, its grant, or a rejection never raises a term by itself (the first switch of
\* Step).
TermsComeFromElections ==
    \A i \in Node :
        \/ node[i].term <= 1
        \/ node[i].vote # None
        \/ \E m \in msgs : /\ m.type \in {"MsgVote", "MsgApp", "MsgHeartbeat"}
                           /\ m.term = node[i].term

\* A transfer request that a follower passes on reaches the leader or nobody, never a
\* follower that would pass it on once more: send panics on a message whose term is
\* already set (the MsgTransferLeader case of stepFollower, send).
TransferIsForwardedOnce ==
    \A m \in msgs :
        /\ m.type = "MsgTransferLeader"
        /\ node[m.to].state = "Follower"
        /\ node[m.to].term = m.term
        => node[m.to].lead = None

\* A pre-candidate that goes on to campaign has been granted pre-votes by a quorum that
\* has not left its term behind: what it counts answers a request of the term it is in or
\* of the one before, since a grant of an earlier candidacy is counted too (poll,
\* stepCandidate).
CampaignIsBacked ==
    [][\A i \in Node :
        (/\ node[i].state = "PreCandidate" /\ node'[i].state = "Candidate"
         /\ node'[i].term = node[i].term + 1)
        =>  {j \in Node : \/ j = i
                          \/ \E m \in msgs : /\ m.type = "MsgPreVoteResp" /\ ~m.reject
                                             /\ m.from = j /\ m.to = i
                                             /\ m.term >= node[i].term} \in Quorum]_vars

\* A leader tells a node to take over only when that node has on its disk all that the
\* leader has in its log, however often the transfer was asked for, given up or turned to
\* another node, and however late the acknowledgements are: unless the node has left the
\* term, and will not listen (the MsgTransferLeader and MsgAppResp cases of stepLeader).
TransfereeHasCaughtUp ==
    [][\A i \in Node : \A m \in node'[i].outbox \ node[i].outbox :
        m.type = "MsgTimeoutNow" /\ disk[m.to].term <= m.term =>
            IsPrefix(node'[i].log, disk[m.to].log)]_vars

-----------------------------------------------------------------------------
(***************************************************************************)
(* Raft implements a replicated log: what is chosen is the longest prefix  *)
(* that a disk holds as committed.  The disks are looked at, and not the   *)
(* nodes, because a node that restarts forgets a commit index that it has  *)
(* not stored.                                                             *)
(***************************************************************************)
Known(i) == SubSeq(disk[i].log, 1, disk[i].commit)

Chosen == Known(CHOOSE i \in Node : \A j \in Node : disk[j].commit <= disk[i].commit)

Abstract == INSTANCE ReplicatedLog WITH chosen <- Chosen,
                                        applied <- [i \in Node |-> Known(i)]

\* What is committed is one log that only grows, and every node knows a prefix of it that
\* only grows, through diverged logs and changes of leader (maybeCommit,
\* handleAppendEntries, Cluster.Step).
ImplementsReplicatedLog == Abstract!Spec

=============================================================================
