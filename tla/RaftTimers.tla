----------------------------- MODULE RaftTimers -----------------------------
(***************************************************************************)
(* The timers of raft: election time-outs, heartbeats, the lease that a    *)
(* leader has with its followers, the check that a leader still has its    *)
(* quorum, and pre-vote, under the loop that drives them in the harness    *)
(* (Cluster.Step), with links that fail for a while.  Raft itself lets     *)
(* timers fire at any moment; here they count.                             *)
(*                                                                         *)
(* A step is one round of the loop: every node ticks, every Ready is sent, *)
(* every inbox is drained in the order of the network.  What a node has to *)
(* say after that waits in its outbox for the next round.                  *)
(*                                                                         *)
(* Of the log only the term of the last entry is kept: a MsgApp brings a   *)
(* follower up to its leader at once.  Terms are only compared, so they    *)
(* are counted from the lowest one of any node, which is 1.                *)
(***************************************************************************)
EXTENDS Integers, FiniteSets, Sequences, SequencesExt, FiniteSetsExt, TLC

CONSTANTS
    Node,          \* the voters, by their numbers
    None,          \* no node: 0
    ElectionTick,  \* Config.ElectionTick; Config.HeartbeatTick is 1
    Behind,        \* the nodes that lack an entry the others have at the beginning
    MaxFaults,     \* how many disturbances there may be           (a bound)
    MaxLength      \* for how many rounds each of them may last    (a bound)

ASSUME TimerAssumption ==
    /\ Node \subseteq Nat \ {None} /\ IsFiniteSet(Node) /\ None = 0
    /\ ElectionTick \in Nat \ {0, 1} /\ Behind \subseteq Node /\ MaxFaults \in Nat /\ MaxLength \in Nat

VARIABLES
    node,    \* node[i]: the fields of struct raft that the timers look at
    fault,   \* what is wrong with the network
    faults,  \* how many disturbances there have been
    lasted,  \* for how many rounds the present one has lasted
    alone    \* alone[i]: for how many ticks leader i has not been answered

vars == <<node, fault, faults, lasted, alone>>

-----------------------------------------------------------------------------
Quorum == {Q \in SUBSET Node : 2 * Cardinality(Q) > Cardinality(Node)}

\* The outcomes of resetRandomizedElectionTimeout
Draws == ElectionTick .. 2 * ElectionTick - 1

\* The network at its best, and all the ways in which it can be disturbed
Nothing == <<"nothing", None>>
Fault == {Nothing} \cup ({"partitioned", "deaf", "mute"} \X Node)

\* A draw that is still to be made, or that nobody looks at: the time-out of a leader
Undrawn == 0

\* The kinds of messages and their numbers in raftpb
Number == [MsgApp |-> 3, MsgAppResp |-> 4, MsgVote |-> 5, MsgVoteResp |-> 6,
           MsgHeartbeat |-> 8, MsgHeartbeatResp |-> 9, MsgPreVote |-> 17,
           MsgPreVoteResp |-> 18]

\* last: the LogTerm of a vote request; reject: of an answer
Message == [type : DOMAIN Number, from : Node, to : Node, term : Int, last : Int,
            reject : BOOLEAN]

Msg(type, from, to, term) ==
    [type |-> type, from |-> from, to |-> to, term |-> term, last |-> 0, reject |-> FALSE]

NodeState ==
    [state : {"Follower", "PreCandidate", "Candidate", "Leader"}, term : Nat \ {0},
     vote : Node \cup {None}, lead : Node \cup {None}, last : Int,
     elapsed : 0 .. 2 * ElectionTick - 2,   \* electionElapsed
     timeout : Draws \cup {Undrawn},        \* randomizedElectionTimeout
     granted : SUBSET Node, rejected : SUBSET Node,
     active : SUBSET Node,                  \* the peers with RecentActive
     caught : SUBSET Node,                  \* the peers that have the log of the leader
     outbox : SUBSET Message]

Init ==
    /\ node \in {[i \in Node |->
                    [state |-> "Follower", term |-> 1, vote |-> None, lead |-> None,
                     last |-> IF i \in Behind THEN -1 ELSE 0, elapsed |-> 0,
                     timeout |-> d[i], granted |-> {}, rejected |-> {}, active |-> {},
                     caught |-> {}, outbox |-> {}]] : d \in [Node -> Draws]}
    /\ fault = Nothing
    /\ faults = 0 /\ lasted = 0
    /\ alone = [i \in Node |-> 0]

-----------------------------------------------------------------------------
(***************************************************************************)
(* What changes the role of a node.                                        *)
(***************************************************************************)
Post(n, msgs) == [n EXCEPT !.outbox = @ \cup msgs]

Reset(n, term) ==
    [n EXCEPT !.term = term, !.vote = IF term = n.term THEN @ ELSE None, !.lead = None,
              !.elapsed = 0, !.timeout = Undrawn, !.granted = {}, !.rejected = {},
              !.active = {}, !.caught = {}]

BecomeFollower(n, term, lead) ==
    [Reset(n, term) EXCEPT !.state = "Follower", !.lead = lead]

\* The requests of a campaign, and the vote of the campaigner for itself
Request(i, n, type, term) ==
    Post([n EXCEPT !.granted = {i}, !.rejected = {}],
         {[Msg(type, i, j, term) EXCEPT !.last = n.last] : j \in Node \ {i}})

\* becomePreCandidate keeps the term, the vote and the time-out
PreCampaign(i, n) ==
    Request(i, [n EXCEPT !.state = "PreCandidate", !.lead = None], "MsgPreVote", n.term + 1)

Campaign(i, n) ==
    Request(i, [Reset(n, n.term + 1) EXCEPT !.state = "Candidate", !.vote = i],
            "MsgVote", n.term + 1)

BcastApp(i, n) == Post(n, {Msg("MsgApp", i, j, n.term) : j \in Node \ {i}})

\* becomeLeader appends an entry of its term
BecomeLeader(i, n) ==
    BcastApp(i, [Reset(n, n.term) EXCEPT !.state = "Leader", !.lead = i, !.last = n.term])

-----------------------------------------------------------------------------
(***************************************************************************)
(* A tick.                                                                 *)
(***************************************************************************)
\* Step of MsgHup: with pre-vote a campaign never begins by raising the term
Hup(i, n) == PreCampaign(i, n)

\* tickElection
TickElection(i, n) ==
    IF n.elapsed + 1 >= n.timeout THEN Hup(i, [n EXCEPT !.elapsed = 0])
    ELSE [n EXCEPT !.elapsed = @ + 1]

\* Faulty: the peers stay active after the check
MutCheckQuorum(i, n) ==
    IF n.active \cup {i} \in Quorum THEN n ELSE BecomeFollower(n, n.term, None)

\* MsgCheckQuorum
CheckQuorum(i, n) ==
    IF n.active \cup {i} \in Quorum THEN [n EXCEPT !.active = {}]
    ELSE BecomeFollower(n, n.term, None)

BcastHeartbeat(i, n) == Post(n, {Msg("MsgHeartbeat", i, j, n.term) : j \in Node \ {i}})

\* tickHeartbeat
TickHeartbeat(i, n) ==
    LET c == IF n.elapsed + 1 >= ElectionTick THEN CheckQuorum(i, [n EXCEPT !.elapsed = 0])
             ELSE [n EXCEPT !.elapsed = @ + 1]
    IN  IF c.state = "Leader" THEN BcastHeartbeat(i, c) ELSE c

Tick(i, n) == IF n.state = "Leader" THEN TickHeartbeat(i, n) ELSE TickElection(i, n)

-----------------------------------------------------------------------------
(***************************************************************************)
(* A message.                                                              *)
(***************************************************************************)
IsRequest(m) == m.type \in {"MsgVote", "MsgPreVote"}
IsLeaders(m) == m.type \in {"MsgApp", "MsgHeartbeat"}

\* Faulty: no lease
MutInLease(n) == FALSE

\* Within the lease no other leader is needed, and a request for a vote is ignored
InLease(n) == n.lead # None /\ n.elapsed < ElectionTick

\* Step of a message of a higher term: some are answered without entering the term
KeepsTerm(m) == m.type = "MsgPreVote" \/ (m.type = "MsgPreVoteResp" /\ ~m.reject)

EnterTerm(n, m) == BecomeFollower(n, m.term, IF IsLeaders(m) THEN m.from ELSE None)

\* Faulty: a leader of a lower term is not told
MutStepLower(i, n, m) ==
    CASE m.type = "MsgPreVote" ->
           Post(n, {[Msg("MsgPreVoteResp", i, m.from, n.term) EXCEPT !.reject = TRUE]})
      [] OTHER -> n

\* Step of a message of a lower term: a leader, or a pre-candidate, that is behind
\* is told so
StepLower(i, n, m) ==
    CASE IsLeaders(m) -> Post(n, {Msg("MsgAppResp", i, m.from, n.term)})
      [] m.type = "MsgPreVote" ->
           Post(n, {[Msg("MsgPreVoteResp", i, m.from, n.term) EXCEPT !.reject = TRUE]})
      [] OTHER -> n

StepVote(i, n, m) ==
    LET pre == m.type = "MsgPreVote"
        type == IF pre THEN "MsgPreVoteResp" ELSE "MsgVoteResp"
        canVote == \/ n.vote = m.from
                   \/ n.vote = None /\ n.lead = None
                   \/ pre /\ m.term > n.term
    IN  CASE ~(canVote /\ m.last >= n.last) ->
               Post(n, {[Msg(type, i, m.from, n.term) EXCEPT !.reject = TRUE]})
          [] OTHER ->
               Post([n EXCEPT !.elapsed = IF pre THEN @ ELSE 0,
                              !.vote = IF pre THEN @ ELSE m.from],
                    {Msg(type, i, m.from, m.term)})

\* Only the answers to the campaign the node is in count
Polls(n, m) == \/ n.state = "PreCandidate" /\ m.type = "MsgPreVoteResp"
               \/ n.state = "Candidate" /\ m.type = "MsgVoteResp"

StepVoteResp(i, n, m) ==
    LET first == m.from \notin n.granted \cup n.rejected
        p == [n EXCEPT !.granted  = IF first /\ ~m.reject THEN @ \cup {m.from} ELSE @,
                       !.rejected = IF first /\ m.reject THEN @ \cup {m.from} ELSE @]
        won == p.granted \in Quorum
        lost == Node \ p.rejected \notin Quorum
    IN  CASE won /\ n.state = "PreCandidate" -> Campaign(i, p)
          [] won /\ n.state = "Candidate"    -> BecomeLeader(i, p)
          [] ~won /\ lost                    -> BecomeFollower(p, p.term, None)
          [] OTHER                           -> p

\* stepFollower and stepCandidate: whoever speaks as the leader of the term is followed
Follow(n, m) ==
    IF n.state = "Follower" THEN [n EXCEPT !.elapsed = 0, !.lead = m.from]
    ELSE BecomeFollower(n, m.term, m.from)

StepLeaders(i, n, m) ==
    IF n.state = "Leader" THEN n
    ELSE IF m.type = "MsgHeartbeat"
    THEN Post(Follow(n, m), {Msg("MsgHeartbeatResp", i, m.from, n.term)})
    ELSE Post([Follow(n, m) EXCEPT !.last = m.term], {Msg("MsgAppResp", i, m.from, n.term)})

\* stepLeader: any answer shows that the peer is alive; one that lacks the log is sent it
StepAnswer(i, n, m) ==
    LET a == [n EXCEPT !.active = @ \cup {m.from}]
    IN  IF m.type = "MsgAppResp" THEN [a EXCEPT !.caught = @ \cup {m.from}]
        ELSE IF m.from \in n.caught THEN a
        ELSE Post(a, {Msg("MsgApp", i, m.from, n.term)})

StepInTerm(i, n, m) ==
    CASE IsRequest(m) -> StepVote(i, n, m)
      [] IsLeaders(m) -> StepLeaders(i, n, m)
      [] Polls(n, m)  -> StepVoteResp(i, n, m)
      [] n.state = "Leader" /\ m.type \in {"MsgAppResp", "MsgHeartbeatResp"} ->
           StepAnswer(i, n, m)
      [] OTHER -> n

\* raft.Step
Step(i, n, m) ==
    CASE m.term < n.term -> StepLower(i, n, m)
      [] m.term > n.term /\ IsRequest(m) /\ InLease(n) -> n
      [] m.term > n.term /\ ~KeepsTerm(m) -> StepInTerm(i, EnterTerm(n, m), m)
      [] OTHER -> StepInTerm(i, n, m)

-----------------------------------------------------------------------------
(***************************************************************************)
(* A round of Cluster.Step, with at most one thing wrong: a node that is   *)
(* partitioned, which does not tick either, or one whose links lose what   *)
(* is sent to it (deaf) or what it sends (mute).                           *)
(***************************************************************************)
Ticked(f) ==
    [i \in Node |-> IF f = <<"partitioned", i>> THEN node[i] ELSE Tick(i, node[i])]

Arrives(f, m) ==
    /\ f \notin {"partitioned", "mute"} \X {m.from}
    /\ f \notin {"partitioned", "deaf"} \X {m.to}

\* Drain: by sender, and what one sender sent in the order of msgKey
Before(a, b) ==
    \/ a.from < b.from
    \/ a.from = b.from /\ Number[a.type] < Number[b.type]
    \/ a.from = b.from /\ a.type = b.type /\ a.term < b.term

Inbox(f, sent, i) ==
    LET in == {m \in UNION {sent[j].outbox : j \in Node \ {i}} : m.to = i /\ Arrives(f, m)}
    IN  SortSeq(FoldSet(LAMBDA m, seq : Append(seq, m), <<>>, in), Before)

Delivered(f, sent) ==
    [i \in Node |-> FoldLeft(LAMBDA n, m : Step(i, n, m), [sent[i] EXCEPT !.outbox = {}],
                             Inbox(f, sent, i))]

\* The draws that the resets of the round made, one for each node that will look at it
Drawn(ns) ==
    LET due == {i \in Node : ns[i].timeout = Undrawn /\ ns[i].state # "Leader"}
    IN  {[i \in Node |-> IF i \in due THEN [ns[i] EXCEPT !.timeout = d[i]] ELSE ns[i]] :
           d \in [due -> Draws]}

\* Terms counted from the lowest, and the terms of last entries that lie before it
\* by their rank: only the order of terms is ever looked at
Lowered(ns) ==
    LET by == Min({ns[i].term : i \in Node}) - 1
        requests == {m \in UNION {ns[i].outbox : i \in Node} : IsRequest(m)}
        old == {l \in {ns[i].last : i \in Node} \cup {m.last : m \in requests} : l <= by}
        lowered(l) == IF l > by THEN l - by ELSE 1 - Cardinality({k \in old : k >= l})
        lowerMsg(m) == [m EXCEPT !.term = @ - by,
                                 !.last = IF IsRequest(m) THEN lowered(@) ELSE @]
    IN  [i \in Node |-> [ns[i] EXCEPT !.term = @ - by, !.last = lowered(@),
                                      !.outbox = {lowerMsg(m) : m \in @}]]

\* How long a leader has been without an answer
Answered(f, ticked, i) ==
    \E m \in UNION {ticked[j].outbox : j \in Node \ {i}} :
        m.to = i /\ m.type \in {"MsgAppResp", "MsgHeartbeatResp"} /\ Arrives(f, m)

Round(f) ==
    /\ f \notin {Nothing, fault} => faults < MaxFaults
    /\ f = fault => f = Nothing \/ lasted < MaxLength
    /\ fault' = f
    /\ faults' = IF f \in {Nothing, fault} THEN faults ELSE faults + 1
    /\ lasted' = CASE f = Nothing -> 0 [] f = fault -> lasted + 1 [] OTHER -> 1
    /\ \E ticked \in {Ticked(f)} :
         /\ \E ns \in {Delivered(f, ticked)} : \E drawn \in Drawn(ns) : node' = Lowered(drawn)
         /\ alone' = [i \in Node |->
                        IF \/ node[i].state # "Leader" \/ node'[i].state # "Leader"
                           \/ Answered(f, ticked, i)
                        THEN 0
                        ELSE IF f = <<"partitioned", i>> THEN alone[i] ELSE alone[i] + 1]

Next == \E f \in Fault : Round(f)

-----------------------------------------------------------------------------
(***************************************************************************)
(* Fairness.  The loop never stops: Round(Nothing) can always be taken, so *)
(* weak fairness of Next is that rounds go on.  The time-outs come from a  *)
(* random source: nodes that again and again come to draw them when none   *)
(* has a leader do not for ever draw such that two wake up together.       *)
(* That is strong fairness of the rounds that end in Apart; it is written  *)
(* out, with MayBeApart for ENABLED, which TLC evaluates far too slowly.   *)
(***************************************************************************)
Remaining(n) == n.timeout - n.elapsed

IsApart(ns) ==
    /\ \A i \in Node : ns[i].state = "Follower" /\ ns[i].lead = None
    /\ \A i, j \in Node : i # j => Remaining(ns[i]) # Remaining(ns[j])

MayBeApart ==
    /\ \A i \in Node : node[i].state # "Leader"
    /\ \E ns \in Drawn(Delivered(Nothing, Ticked(Nothing))) : IsApart(ns)

Rounds == []<><<Next>>_vars
FairDraws == []<>MayBeApart => []<>IsApart(node)

Spec == Init /\ [][Next]_vars /\ Rounds /\ FairDraws

-----------------------------------------------------------------------------
(***************************************************************************)
(* Correctness.                                                            *)
(***************************************************************************)
\* The types; in particular no node keeps counting past its time-out.
TypeOK ==
    /\ node \in [Node -> NodeState]
    /\ fault \in Fault /\ faults \in 0..MaxFaults /\ lasted \in 0..MaxLength
    /\ alone \in [Node -> Nat]

\* The counters keep their ranges, and a leader that hears no answer steps down within two
\* election time-outs, so that two nodes do not take themselves for the leader for long
\* (tickHeartbeat, MsgCheckQuorum).
LoneLeaderStepsDown == TypeOK /\ \A i \in Node : alone[i] < 2 * ElectionTick

\* One node leads and all others follow it in its term
Settled == \E i \in Node :
              /\ node[i].state = "Leader"
              /\ \A j \in Node : node[j].term = node[i].term /\ node[j].lead = i

\* Once disturbances end, some node leads for good and all follow it: neither pre-vote nor
\* the lease keeps a term from advancing when that is needed, and nobody is left behind in
\* a term of its own (tickElection, hup, Step of a lower term).
EventuallyLed == <>[]Settled

\* Leader i is heard and answered every round by the quorum Q, and nobody in Q has
\* helped a node to a higher term
Backed(i, Q) ==
    LET term == node[i].term IN
    /\ i \in Q /\ node[i].state = "Leader"
    /\ \A k \in Node : node[k].term <= term
    /\ \A j \in Q \ {i} :
         /\ node[j].lead = i /\ node[j].term = term /\ node[j].elapsed + 1 < ElectionTick
         /\ j \in node[i].active
         /\ \E m \in node[j].outbox : /\ m.type \in {"MsgHeartbeatResp", "MsgAppResp"}
                                      /\ m.to = i /\ m.term = term
    /\ \A k \in Node \ Q : node[k].term = term => node[k].granted \cap Q = {}
    /\ \A k \in Node : \A m \in node[k].outbox :
         m.term > term => k \notin Q /\ ~m.reject /\ m.type \in {"MsgPreVote", "MsgPreVoteResp"}

\* A leader with a quorum behind it stays so as long as no fault touches that quorum,
\* whatever the other nodes do when they are cut off, deaf or mute, come back and
\* campaign (the lease and pre-vote in Step, MsgCheckQuorum).
LeaderIsUndisturbed ==
    [][\A Q \in Quorum, i \in Node : Backed(i, Q) /\ fault'[2] \notin Q => Backed(i, Q)']_vars

=============================================================================
