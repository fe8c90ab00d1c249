------------------------------ MODULE ReadIndex ------------------------------
(***************************************************************************)
(* Linearizable reads of raft (ReadOnlySafe): a request for a read index   *)
(* is passed on to the leader, which notes its commit index, has itself    *)
(* confirmed by a round of heartbeats, and answers.  A leader that has not *)
(* committed an entry of its term postpones requests until it has.         *)
(*                                                                         *)
(* Raft, extended by the requests.  A heartbeat that asks for a            *)
(* confirmation, and its answer, have a ctx, the number of the request.    *)
(* That the leader of a cluster of one node answers at once is left out.   *)
(***************************************************************************)
EXTENDS Raft

CONSTANT MaxReads  \* how many reads are asked for  (a bound)

ASSUME ReadAssumption == MaxReads \in Nat

VARIABLES
    reads,    \* reads[i]: readOnly, the requests that wait for a confirmation
    parked,   \* parked[i]: pendingReadIndexMessages
    answers,  \* the ReadStates handed out, <<request, index>>
    known,    \* the highest commit index that any node has known so far; a restart may
              \* forget one that was not stored, and what was committed stays committed
    asked     \* asked[r]: known, when request r was made

readVars == <<vars, reads, parked, asked, answers, known>>

-----------------------------------------------------------------------------
(***************************************************************************)
(* readOnly: requests are numbered; a peer that acknowledges a number has  *)
(* acknowledged those before it.                                           *)
(***************************************************************************)
NoReads == [count |-> 0, queue |-> <<>>, acks |-> [j \in Node |-> 0]]

RecvAck(q, j, ctx) == [q EXCEPT !.acks[j] = Max({@, ctx})]

\* maybeAdvance: the last request that a quorum has confirmed
Confirmed(q) == Max({k \in 0..q.count : {j \in Node : q.acks[j] >= k} \in Quorum})

\* The queue up to there is resolved, and forgotten
Resolvable(q) == {k \in DOMAIN q.queue : q.queue[k].ctx <= Confirmed(q)}

Resolved(q) == {q.queue[k] : k \in Resolvable(q)}

Forget(q) ==
    [q EXCEPT !.queue = SubSeq(@, Max({0} \cup Resolvable(q)) + 1, Len(@))]

-----------------------------------------------------------------------------
(***************************************************************************)
(* The leader's side.                                                      *)
(***************************************************************************)
\* sendMsgReadIndexResponse for each of the requests rs: node i in state n, with the
\* requests q, notes them at its commit index and sends a round of heartbeats for each
Noted(i, n, q, rs) ==
    LET c == q.count + Len(rs)
    IN  [count |-> c, acks |-> [q.acks EXCEPT ![i] = c],
         queue |-> q.queue \o [k \in 1..Len(rs) |->
            [ctx |-> q.count + k, from |-> rs[k].from, req |-> rs[k].req,
             index |-> n.commit]]]

Rounds(i, n, q, rs) == BcastHeartbeat(i, n, q.count + 1 .. q.count + Len(rs))

\* Faulty: a new leader answers before it knows what is committed
MutCommittedEntryInCurrentTerm(n) == TRUE

CommittedEntryInCurrentTerm(n) == TermAt(n.log, n.commit) = n.term

\* responseToReadIndexReq: an answer for the node itself, or a message to who asked
OwnAnswer(i, r) == r.from \in {None, i}

ReadResp(i, n, r) ==
    [type |-> "MsgReadIndexResp", from |-> i, to |-> r.from, term |-> n.term,
     index |-> r.index, req |-> r.req]

\* The requests are forgotten with the leadership (reset); those that are parked are not
StaysLeader(i, n) ==
    node[i].state = "Leader" /\ n.state = "Leader" /\ n.term = node[i].term

\* Faulty: the requests outlive the leadership they were noted in
MutReadsWith(i, n) == reads[i]

ReadsWith(i, n) == IF StaysLeader(i, n) THEN reads[i] ELSE NoReads

\* releasePendingReadIndexMessages, when the leader has committed something.  The
\* heartbeats go out before the appends of the same step, whose commit index stands.
Released(i, n) ==
    [Rounds(i, n, reads[i], parked[i]) EXCEPT !.prog = [j \in Node |->
        IF n.prog[j].sentCommit = n.commit THEN n.prog[j] ELSE @[j]]]

\* Node i becomes n, having stepped an answer
After(i, n) ==
    IF StaysLeader(i, n) /\ n.commit > node[i].commit /\ parked[i] # <<>>
    THEN /\ Become(i, Released(i, n))
         /\ reads' = [reads EXCEPT ![i] = Noted(i, n, @, parked[i])]
         /\ parked' = [parked EXCEPT ![i] = <<>>]
         /\ UNCHANGED <<asked, answers>>
    ELSE /\ Become(i, n)
         /\ reads' = [reads EXCEPT ![i] = ReadsWith(i, n)]
         /\ UNCHANGED <<parked, asked, answers>>

\* The requests when nothing is answered
Otherwise(i) ==
    /\ reads' = [reads EXCEPT ![i] = ReadsWith(i, node'[i])]
    /\ UNCHANGED <<parked, asked, answers>>

-----------------------------------------------------------------------------
(***************************************************************************)
(* Actions.                                                                *)
(***************************************************************************)
\* MsgReadIndex at node i: the leader notes it or postpones it, a follower passes it on
\* to the leader it knows, a candidate drops it
StepReadIndex(i, r) ==
    LET n == node[i]
        forward == [type |-> "MsgReadIndex", from |-> IF r.from = None THEN i ELSE r.from,
                    to |-> n.lead, term |-> 0, req |-> r.req]
    IN  /\ \/ /\ n.state = "Leader" /\ CommittedEntryInCurrentTerm(n)
              /\ Become(i, Rounds(i, n, reads[i], <<r>>))
              /\ reads' = [reads EXCEPT ![i] = Noted(i, n, @, <<r>>)]
              /\ UNCHANGED parked
           \/ /\ n.state = "Leader" /\ ~CommittedEntryInCurrentTerm(n)
              /\ parked' = [parked EXCEPT ![i] = Append(@, r)]
              /\ UNCHANGED <<vars, reads>>
           \/ /\ n.state = "Follower" /\ n.lead # None
              /\ Become(i, Send(n, {forward}))
              /\ UNCHANGED <<reads, parked>>
        /\ UNCHANGED answers

\* RawNode.ReadIndex
AskRead(i) ==
    /\ <<"ReadIndex", i>> \in Calls
    /\ Len(asked) < MaxReads
    /\ asked' = Append(asked, known)
    /\ StepReadIndex(i, [from |-> None, req |-> Len(asked')])

ReceiveReadIndex(i, m) ==
    /\ m.type = "MsgReadIndex"
    /\ Len(parked[i]) < MaxReads /\ reads[i].count < MaxReads
    /\ StepReadIndex(i, [from |-> m.from, req |-> m.req])
    /\ UNCHANGED asked

\* MsgReadIndexResp: handed out by a follower
ReceiveReadIndexResp(i, m) ==
    /\ m.type = "MsgReadIndexResp"
    /\ m.term >= node[i].term
    /\ LET n == AtTermOf(i, node[i], m)
       IN  /\ Become(i, n)
           /\ reads' = [reads EXCEPT ![i] = ReadsWith(i, n)]
           /\ answers' = IF n.state = "Follower"
                         THEN answers \cup {<<m.req, m.index>>} ELSE answers
    /\ UNCHANGED <<parked, asked>>

\* The heartbeat timer of a leader that has requests pending: the last one goes with the
\* heartbeat (a heartbeat without a request is left to Raft)
BeatReads(i) ==
    /\ <<"BeatReads", i>> \in Calls
    /\ reads[i].queue # <<>>
    /\ Become(i, BcastHeartbeat(i, node[i], {reads[i].count}))
    /\ UNCHANGED <<reads, parked, asked, answers>>

\* The answer to a heartbeat with a ctx confirms requests, which are answered
ReceiveHeartbeatRespCtx(i, m) ==
    /\ Receive(i, m, {"MsgHeartbeatResp"}) /\ m.ctx > 0
    /\ LET n == AtTermOf(i, node[i], m)
           heard == StepHeartbeatResp(i, n, m)
           q == RecvAck(reads[i], m.from, m.ctx)
       IN  IF n.state = "Leader"
           THEN /\ Become(i, Send(heard, {ReadResp(i, n, r) :
                                            r \in {x \in Resolved(q) : ~OwnAnswer(i, x)}}))
                /\ reads' = [reads EXCEPT ![i] = Forget(q)]
                /\ answers' = answers \cup {<<r.req, r.index>> :
                                              r \in {x \in Resolved(q) : OwnAnswer(i, x)}}
                /\ UNCHANGED <<parked, asked>>
           ELSE Become(i, n) /\ Otherwise(i)

\* Raft's own Advance and responses, after which parked requests may be released
AdvanceReads(i) ==
    /\ node[i].steps # <<>>
    /\ LET m == Head(node[i].steps)
           n == [node[i] EXCEPT !.steps = Tail(@)]
       IN  After(i, IF m.term < n.term THEN n ELSE StepResponse(i, n, m))

ReceiveResponseReads(i, m) ==
    /\ Receive(i, m, {"MsgVoteResp", "MsgPreVoteResp", "MsgAppResp"})
    /\ After(i, StepResponse(i, node[i], m))

\* The messages that raft handles without regard to reads
Plain(m) ==
    /\ m.type \notin {"MsgReadIndex", "MsgReadIndexResp", "MsgVoteResp", "MsgPreVoteResp",
                      "MsgAppResp"}
    /\ ~(m.type = "MsgHeartbeatResp" /\ m.ctx > 0)

DeliverRead(i, m) ==
    \/ Plain(m) /\ Deliver(i, m) /\ Otherwise(i)
    \/ m.type # "MsgReadIndex" /\ ~Plain(m) /\ ReceiveLowerTerm(i, m) /\ Otherwise(i)
    \/ ReceiveResponseReads(i, m)
    \/ ReceiveReadIndex(i, m)
    \/ ReceiveReadIndexResp(i, m)
    \/ ReceiveHeartbeatRespCtx(i, m)

\* The timers and the application; a heartbeat of a leader that has requests pending is
\* BeatReads
LocalReads(i) ==
    /\ Local(i)
    /\ ~(reads[i].queue # <<>> /\ Beat(i))
    /\ Otherwise(i)

\* A restart forgets the requests, those that are parked as well; what was asked and
\* answered is not the node's
RestartReads(i) ==
    /\ Restart(i)
    /\ reads' = [reads EXCEPT ![i] = NoReads]
    /\ parked' = [parked EXCEPT ![i] = <<>>]
    /\ UNCHANGED <<asked, answers>>

ReadNext ==
    \E i \in Node :
        /\ \/ Ready(i) /\ UNCHANGED <<reads, parked, asked, answers>>
           \/ AdvanceReads(i)
           \/ RestartReads(i)
           \/ /\ Prompt => Idle
              /\ \/ AskRead(i)
                 \/ BeatReads(i)
                 \/ LocalReads(i)
                 \/ \E m \in msgs : m.to = i /\ DeliverRead(i, m)
        /\ known' = Max({known, node'[i].commit})

NoRequests ==
    /\ reads = [i \in Node |-> NoReads]
    /\ parked = [i \in Node |-> <<>>]
    /\ asked = <<>>
    /\ answers = {}
    /\ known = Max({node[i].commit : i \in Node})

ReadSpec == Init /\ NoRequests /\ [][ReadNext]_readVars

-----------------------------------------------------------------------------
(***************************************************************************)
(* Correctness.                                                            *)
(***************************************************************************)
\* The index a read is answered with is one that some node has known to be committed, and
\* not below what any node knew to be committed when the read was asked for: however often
\* the request is repeated, postponed or passed on, whoever leads by then, and whatever a
\* restart forgets.  An old leader may answer, with less than what is committed by then, but
\* not with less than what was committed at the call, which is what DstClient takes for
\* granted (committedEntryInCurrentTerm, sendMsgReadIndexResponse, the MsgHeartbeatResp
\* case; LIN_CHECK_NOTES.txt:45 suspects the opposite).
ReadsAreCurrent ==
    \A a \in answers : a[2] \in asked[a[1]] .. known

\* Only a leader has requests that wait for a confirmation, in the order of their
\* numbers, each noted at an index that is still committed; they do not outlive the
\* leadership (reset, newReadOnly).
RequestsAreTheLeaders ==
    \A i \in Node :
        LET q == reads[i] IN
        /\ q.queue # <<>> => node[i].state = "Leader"
        /\ \A k \in 1..Len(q.queue) :
              /\ q.queue[k].ctx = q.count - Len(q.queue) + k
              /\ q.queue[k].index <= node[i].commit
              /\ TermAt(node[i].log, q.queue[k].index) = node[i].term

=============================================================================
