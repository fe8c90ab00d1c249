----------------------------- MODULE DstNetwork -----------------------------
(***************************************************************************)
(* The network of the simulation harness (harness/dst/network.go) under    *)
(* the loop that drives it: Scenario.Drive breaks and repairs connections, *)
(* and Cluster.Step sends what the nodes have to say and then delivers     *)
(* what is due.  A message may be lost, delayed for some ticks and         *)
(* duplicated, and a node may be cut off.                                  *)
(*                                                                         *)
(* An inbox is a set: the numbers of its messages keep their order.        *)
(***************************************************************************)
EXTENDS Integers, FiniteSets, FiniteSetsExt

CONSTANTS
    Node,      \* the nodes, by their numbers
    MaxDelay,  \* Network.maxDelay
    MayRepeat, \* whether Network.pDup is positive
    MaxSends,  \* how many messages are sent         (a bound)
    MaxTick    \* how many ticks are simulated: the flag -ticks

ASSUME NetworkAssumption ==
    /\ Node \subseteq Nat /\ IsFiniteSet(Node)
    /\ MaxDelay \in Nat /\ MayRepeat \in BOOLEAN /\ MaxSends \in Nat /\ MaxTick \in Nat

VARIABLES
    curTick,      \* Network.curTick
    phase,        \* what Cluster.Step does next: "drive" (nothing yet) or "send"
    partitioned,  \* Network.partitioned
    inbox,        \* Network.inbox
    nextSeq,      \* Network.nextSeq
    sent,         \* the messages given to Send so far
    handed,       \* handed[i]: what Drain has returned for node i, where i took it
    cut           \* cut[i]: nextSeq when node i was last partitioned

vars == <<curTick, phase, partitioned, inbox, nextSeq, sent, handed, cut>>

-----------------------------------------------------------------------------
\* A message; at is the tick it is sent in, which the code does not keep
Message == [id : Nat, from : Node, to : Node, at : Nat]

\* pendingMsg
Pending == [msg : Message, readyTick : Nat, seq : Nat]

\* A message that was delivered, as the turn-th of its node, in a tick
Delivery == [msg : Message, readyTick : Nat, seq : Nat, tick : Nat, turn : Nat]

Init ==
    /\ curTick = 0
    /\ phase = "drive"
    /\ partitioned = {}
    /\ inbox = [i \in Node |-> {}]
    /\ nextSeq = 0
    /\ sent = {}
    /\ handed = [i \in Node |-> {}]
    /\ cut = [i \in Node |-> 0]

-----------------------------------------------------------------------------
(***************************************************************************)
(* Scenario.Drive, and the tick that Step begins with.                     *)
(***************************************************************************)
\* Faulty: what waits for the node is kept
MutWithout(victims) == inbox

\* Partition: what waits for the node is discarded
Without(victims) == [i \in Node |-> IF i \in victims THEN {} ELSE inbox[i]]

\* Heal, of the first node that is cut off
Healed(broken, heals) ==
    IF heals /\ broken # {} THEN broken \ {Min(broken)} ELSE broken

\* At most one node is cut off, and then at most one is connected again
Drive(victims, heals) ==
    /\ phase = "drive"
    /\ curTick < MaxTick
    /\ phase' = "send"
    /\ curTick' = curTick + 1
    /\ partitioned' = Healed(partitioned \cup victims, heals)
    /\ inbox' = Without(victims)
    /\ cut' = [i \in Node |-> IF i \in victims THEN nextSeq ELSE cut[i]]
    /\ UNCHANGED <<nextSeq, sent, handed>>

-----------------------------------------------------------------------------
(***************************************************************************)
(* Cluster.Step: every Ready is sent, then every inbox is drained.         *)
(***************************************************************************)
\* The message that a node sends next
Fresh(from, to) ==
    [id |-> Cardinality(sent) + 1, from |-> from, to |-> to, at |-> curTick]

CutOff(from, to) == from \in partitioned \/ to \in partitioned

\* Faulty: the copy takes the number of the message
MutQueued(m, delay, again) ==
    {[msg |-> m, readyTick |-> curTick + delay, seq |-> nextSeq + 1]} \cup
    IF again THEN {[msg |-> m, readyTick |-> curTick + delay + 1, seq |-> nextSeq + 1]}
    ELSE {}

\* What Send puts into the inbox: the message, and perhaps a copy one tick later
Queued(m, delay, again) ==
    {[msg |-> m, readyTick |-> curTick + delay, seq |-> nextSeq + 1]} \cup
    IF again THEN {[msg |-> m, readyTick |-> curTick + delay + 1, seq |-> nextSeq + 2]}
    ELSE {}

Sending(from, to) ==
    /\ phase = "send"
    /\ from # to
    /\ Cardinality(sent) < MaxSends
    /\ sent' = sent \cup {Fresh(from, to)}
    /\ UNCHANGED <<curTick, phase, partitioned, handed, cut>>

\* One of the two is cut off, or the link loses the message
SendLost(from, to) ==
    /\ Sending(from, to)
    /\ UNCHANGED <<inbox, nextSeq>>

\* Faulty: the message goes to the inbox of its sender
MutBoxOf(m) == m.from

BoxOf(m) == m.to

SendQueued(from, to, delay, again) ==
    /\ Sending(from, to)
    /\ ~CutOff(from, to)
    /\ again => MayRepeat
    /\ inbox' = [inbox EXCEPT ![BoxOf(Fresh(from, to))] =
                   @ \cup Queued(Fresh(from, to), delay, again)]
    /\ nextSeq' = nextSeq + IF again THEN 2 ELSE 1

\* Faulty: without the tie-breaker
MutBefore(p, q) == p.readyTick < q.readyTick

\* The order of Drain
Before(p, q) ==
    p.readyTick < q.readyTick \/ (p.readyTick = q.readyTick /\ p.seq < q.seq)

\* Faulty: what is scheduled for this tick waits for the next
MutDue(i) == {p \in inbox[i] : p.readyTick < curTick}

Due(i) == {p \in inbox[i] : p.readyTick <= curTick}

\* Drain(i), and what node i is handed of it
Delivered(i) ==
    {[msg |-> p.msg, readyTick |-> p.readyTick, seq |-> p.seq, tick |-> curTick,
      turn |-> Cardinality(handed[i]) + Cardinality({q \in Due(i) : Before(q, p)}) + 1] :
        p \in Due(i)}

\* A node that is cut off discards what is due
Deliver ==
    /\ phase = "send"
    /\ phase' = "drive"
    /\ inbox' = [i \in Node |-> inbox[i] \ Due(i)]
    /\ handed' = [i \in Node |->
                    IF i \in partitioned THEN handed[i] ELSE handed[i] \cup Delivered(i)]
    /\ UNCHANGED <<curTick, partitioned, nextSeq, sent, cut>>

Next ==
    \/ \E victims \in {{}} \cup {{i} : i \in Node}, heals \in BOOLEAN :
          Drive(victims, heals)
    \/ \E from, to \in Node : SendLost(from, to)
    \/ \E from, to \in Node, delay \in 0..MaxDelay, again \in BOOLEAN :
          SendQueued(from, to, delay, again)
    \/ Deliver

Spec == Init /\ [][Next]_vars

-----------------------------------------------------------------------------
(***************************************************************************)
(* Correctness.                                                            *)
(***************************************************************************)
\* The types; a number is given to one pending message only, so that Drain has an order.
TypeOK ==
    /\ curTick \in Nat
    /\ phase \in {"drive", "send"}
    /\ partitioned \subseteq Node
    /\ inbox \in [Node -> SUBSET Pending]
    /\ nextSeq \in Nat
    /\ sent \subseteq Message
    /\ handed \in [Node -> SUBSET Delivery]
    /\ cut \in [Node -> 0..nextSeq]
    /\ \A i, j \in Node : \A p \in inbox[i], q \in inbox[j] :
          /\ p.seq \in 1..nextSeq
          /\ p.seq = q.seq => p = q

\* Nothing that was sent to a node before it was last cut off can still reach it, and
\* nothing waits for a node that is cut off, so that it starts from an empty inbox when it
\* is connected again, also if it was cut off and connected within one tick (Send,
\* Partition, Drive).
PartitionIsClean ==
    \A i \in Node :
        /\ i \in partitioned => inbox[i] = {}
        /\ \A p \in inbox[i] : p.seq > cut[i]

\* A message that arrives does so in the tick it was scheduled for, at most MaxDelay ticks
\* after it was sent, or one more for a copy, and no message arrives more than twice: none
\* is forgotten in an inbox (Send, Drain, Step).
ArrivesOnTime ==
    \A i \in Node :
        /\ \A d \in handed[i] :
              /\ d.tick = d.readyTick
              /\ d.tick \in d.msg.at .. d.msg.at + MaxDelay + 1
              /\ Cardinality({e \in handed[i] : e.msg = d.msg}) <= 2
        /\ phase = "drive" => \A p \in inbox[i] : p.readyTick > curTick

\* A node is handed its messages in the order of their scheduled ticks and, within a tick,
\* in the order in which they were sent, over all its Drains; "with maxDelay == 0 the bus
\* behaves as a strict FIFO" is the case of no delay and no copies (Network, Drain).
InOrder ==
    \A i \in Node : \A d, e \in handed[i] :
        d # e =>
           /\ d.turn # e.turn
           /\ d.turn < e.turn => d.readyTick <= e.readyTick
           /\ d.turn < e.turn /\ d.readyTick = e.readyTick => d.seq < e.seq

Lossy == INSTANCE LossyNetwork WITH
    msgs <- sent,
    handed <- [i \in Node |-> {d.msg : d \in handed[i]}]

\* Whatever this network delivers, the network of Raft may deliver: the results about Raft
\* hold for the nodes of the harness (Send, Drain).
ImplementsLossyNetwork == Lossy!Spec

=============================================================================
